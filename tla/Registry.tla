------------------------------ MODULE Registry -------------------------------
(***************************************************************************)
(* QuantumAnnealingConsensus of one node: the validators it knows, when it *)
(* saw each, whom it elects, and what the votes it has cast amount to.     *)
(*                                                                         *)
(* The registry is local.  A node registers the validators of the genesis  *)
(* file when it starts, itself with every transaction it handles, and only *)
(* in the legacy mode also in a heartbeat thread.  After that an election  *)
(* of this node renews the time that another validator was seen: no        *)
(* message of the other does.  (Peer discovery would register others too;  *)
(* it belongs to the gossip node, which a running node never has.)  A vote *)
(* is stored in the vote_tracker of the voter, which gets no other.        *)
(***************************************************************************)
EXTENDS Peers, Integers, FiniteSets

CONSTANTS
  Block,         \* blocks that are validated
  RegisterGap,   \* 30 s: register_node ignores a node registered within it
  Pause,         \* 60 s: the heartbeat sleeps this long ...
  Retry,         \* 10 s: ... or this long after an error
  Tolerance,     \* 90 s, max_delay_tolerance
  ActiveWithin,  \* 300 s, node_active_threshold
  ForgetAfter,   \* 3600 s, of cleanup_performance_data
  CandidateLimit,\* 50: get_candidate_limit
  ManyNodes,     \* 100: above it an election may clean up
  MaxTime        \* a bound on the clock

Validator == Peer \cup {Self}

ASSUME RegistryAssumption ==
  /\ Self \notin Peer /\ IsFiniteSet(Peer)
  /\ {RegisterGap, Pause, Retry, Tolerance, ActiveWithin, ForgetAfter} \subseteq Nat
  /\ {CandidateLimit, ManyNodes, MaxTime} \subseteq Nat
  /\ 0 < CandidateLimit
  /\ Tolerance <= ActiveWithin /\ ActiveWithin <= ForgetAfter

VARIABLES
  now,        \* time.time()
  mode,       \* p2p_mode: "enhanced", the default, or "legacy"
  first,      \* the first key of self.nodes, which is never removed
  nodes,      \* the validators in self.nodes
  lastSeen,   \* last_seen of each
  registered, \* last_registration of each
  wake,       \* when the heartbeat wakes up
  votes,      \* blocks in vote_tracker: those this node has voted for
  elected,    \* what select_representative_node returned last
  probed      \* history: when more than one candidate was probed last

fixed == <<mode, first>>
registry == <<nodes, lastSeen, registered>>
vars == <<now, fixed, registry, wake, votes, elected, probed>>

\* initialize_quantum_consensus registers the validators it finds keys of, and the
\* bootstrap validator; start_p2p starts the heartbeat in the legacy mode only.
Init ==
  /\ now = 0
  /\ mode \in {"enhanced", "legacy"}
  /\ nodes \in SUBSET Validator
  /\ first \in nodes
  /\ lastSeen = [n \in Validator |-> 0]
  /\ registered = [n \in Validator |-> 0]
  /\ wake = 0
  /\ votes = {}
  /\ elected = first
  /\ probed = {}

Tick ==
  /\ now < MaxTime
  /\ now' = now + 1
  /\ UNCHANGED <<fixed, registry, wake, votes, elected, probed>>

-----------------------------------------------------------------------------
(* Registration *)

\* register_node: too soon after the last time it does nothing.
Register(n) ==
  IF n \in nodes /\ now - registered[n] < RegisterGap
  THEN UNCHANGED registry
  ELSE /\ nodes' = nodes \cup {n}
       /\ lastSeen' = [lastSeen EXCEPT ![n] = now]
       /\ registered' = [registered EXCEPT ![n] = now]

\* (A bug for comparison: seen until the next heartbeat.)
BugHeartbeat ==
  /\ mode = "legacy"
  /\ now >= wake
  /\ nodes' = nodes \cup {Self}
  /\ lastSeen' = [lastSeen EXCEPT ![Self] = now + Pause]
  /\ registered' = [registered EXCEPT ![Self] = now]
  /\ wake' = now + Pause
  /\ UNCHANGED <<now, fixed, votes, elected, probed>>

\* _quantum_heartbeat: its sleep ends at its time or later ...
Heartbeat ==
  /\ mode = "legacy"
  /\ now >= wake
  /\ Register(Self)
  /\ wake' = now + Pause
  /\ UNCHANGED <<now, fixed, votes, elected, probed>>

\* ... and register_node may raise instead.
HeartbeatError ==
  /\ mode = "legacy"
  /\ now >= wake
  /\ wake' = now + Retry
  /\ UNCHANGED <<now, fixed, registry, votes, elected, probed>>

\* handle_transaction registers the node it runs on.
HandleTransaction ==
  /\ Register(Self)
  /\ UNCHANGED <<now, fixed, wake, votes, elected, probed>>

-----------------------------------------------------------------------------
(* Elections *)

Active == {n \in nodes : now - lastSeen[n] < ActiveWithin}

\* Everyone unseen for an hour, but not the first node, nor all of them.
Kept ==
  LET old == {n \in nodes : now - lastSeen[n] > ForgetAfter}
  IN  IF nodes \ old # {} THEN nodes \ (old \ {first}) ELSE nodes

\* (A bug for comparison: everyone registered is a candidate.)
BugCandidates == {nodes}

\* The best of the active ones, the limit of them.  (Scores are any.)
Candidates ==
  {c \in SUBSET Active :
     Cardinality(c) = (IF Cardinality(Active) < CandidateLimit
                       THEN Cardinality(Active) ELSE CandidateLimit)}

\* (A bug for comparison: only the winner's time is renewed.)
BugElect ==
  \E c \in Candidates :
    /\ nodes' \in {nodes} \cup (IF Cardinality(nodes) > ManyNodes THEN {Kept} ELSE {})
    /\ IF c = {}
       THEN elected' = first /\ UNCHANGED <<lastSeen, probed>>
       ELSE /\ elected' \in c
            /\ lastSeen' = [lastSeen EXCEPT ![elected'] = now]
            /\ probed' = IF \E m, n \in c : m # n THEN {now} ELSE probed
    /\ UNCHANGED <<now, fixed, registered, wake, votes>>

\* select_representative_node.  Its probes are simulated by this node and sent to
\* nobody; each of the two protocols renews the time every candidate was seen.
\* Without a candidate the first node is taken and nobody is probed.
Elect ==
  \E c \in Candidates :
    /\ nodes' \in {nodes} \cup (IF Cardinality(nodes) > ManyNodes THEN {Kept} ELSE {})
    /\ IF c = {}
       THEN elected' = first /\ UNCHANGED <<lastSeen, probed>>
       ELSE /\ elected' \in c
            /\ lastSeen' = [n \in Validator |-> IF n \in c THEN now ELSE lastSeen[n]]
            /\ probed' = IF \E m, n \in c : m # n THEN {now} ELSE probed
    /\ UNCHANGED <<now, fixed, registered, wake, votes>>

-----------------------------------------------------------------------------
(* Votes *)

\* is_validator_healthy_for_voting: seen within the tolerance.
Uptime(n) == IF now - lastSeen[n] <= Tolerance THEN 1 ELSE 0
HealthyForVoting(n) == n \in nodes /\ Uptime(n) = 1 /\ now - lastSeen[n] <= Tolerance

\* create_and_broadcast_vote.
Vote(b) ==
  /\ HealthyForVoting(Self)
  /\ votes' = votes \cup {b}
  /\ UNCHANGED <<now, fixed, registry, wake, elected, probed>>

\* get_block_vote_status: two thirds and one of those seen in less than the
\* tolerance; the only voter in the tracker is this node.
Healthy == {n \in nodes : Uptime(n) = 1 /\ now - lastSeen[n] < Tolerance}

\* (A bug for comparison: two thirds are enough.)
BugThreshold == (Cardinality(Healthy) * 2) \div 3

Threshold == (Cardinality(Healthy) * 2) \div 3 + 1
ConsensusReached(b) == b \in votes /\ 1 >= Threshold

-----------------------------------------------------------------------------
Next ==
  \/ Tick \/ Heartbeat \/ HeartbeatError \/ HandleTransaction \/ Elect
  \/ \E b \in Block : Vote(b)

Spec == Init /\ [][Next]_vars

-----------------------------------------------------------------------------
(* Properties *)

\* The types of the registry and its clock: no validator was seen in the future.
TypeOK ==
  /\ now \in Nat /\ wake \in Nat
  /\ mode \in {"enhanced", "legacy"}
  /\ nodes \subseteq Validator /\ first \in nodes
  /\ lastSeen \in [Validator -> Nat] /\ \A n \in Validator : lastSeen[n] <= now
  /\ registered \in [Validator -> Nat]
  /\ votes \subseteq Block
  /\ elected \in Validator
  /\ probed \subseteq Nat /\ \A t \in probed : t <= now

\* A node finds consensus on a block only while it takes at most one validator to be
\* healthy, itself or another: "2/3 + 1 majority of HEALTHY nodes" is met by the one
\* vote in its tracker, or never.
DecidesAlone ==
  \A b \in Block : ConsensusReached(b) => Cardinality(Healthy) <= 1

\* An election keeps the node from consensus on any block, old or new, until it has
\* been over for the whole tolerance: it renews the time of candidates that nobody has
\* heard of, and neither a vote nor a registration nor a clean-up in between makes up
\* for them.
ElectionHinders ==
  \A t \in probed : now - t < Tolerance => \A b \in Block : ~ ConsensusReached(b)

\* A validator that was once inactive is never active again, and it is elected only
\* if nobody is active and it is the first of the registry: it may run and send as
\* much as it likes, since only being a candidate renews the time it was seen.
InactiveForGood ==
  [][\A n \in Peer : n \notin Active =>
       /\ n \notin Active'
       /\ elected' = n => elected = n \/ (n = first /\ Active = {})]_vars
=============================================================================
