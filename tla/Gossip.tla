------------------------------- MODULE Gossip -------------------------------
(***************************************************************************)
(* One GossipNode among its peers.  It keeps a CRDS table of the newest    *)
(* value of each key, pushes a value to its active peers, pulls what it    *)
(* lacks from known ones, and leaves out peers it believes unhealthy.      *)
(*                                                                         *)
(* Messages are UDP datagrams, lost, repeated, late and out of order: any  *)
(* that a peer which still sends, or has one under way, could have sent    *)
(* may come next.  A value is its key and its wall clock; of the health    *)
(* records the module keeps what the health_tracker says.                  *)
(***************************************************************************)
EXTENDS Peers, Integers, FiniteSets

CONSTANTS
  Bootstrap,     \* the peers the node is started with
  PullLimit,     \* 3: values in a pull response
  TargetPeers,   \* 8: the active set is filled up to this many
  SetMin,        \* 4: the bound on its healthy members if there are fewer peers
  ActiveMin,     \* 3: below it backup peers are added ...
  BackupPeers,   \* ... as many as this, 3
  MaxClock       \* a bound on wall clocks

Member == Peer \cup {Self}
Contact(p) == <<"contact", p>>
VoteKey == <<"vote", Self>>
Key == {Contact(p) : p \in Member} \cup {VoteKey}
Value == [key : Key, clock : 1 .. MaxClock]

ASSUME GossipAssumption ==
  /\ IsFiniteSet(Peer) /\ Self \notin Peer /\ Bootstrap \subseteq Peer
  /\ {PullLimit, TargetPeers, SetMin, ActiveMin, BackupPeers} \subseteq Nat
  /\ MaxClock \in Nat \ {0}

VARIABLES
  alive,   \* peers that send, or whose last datagrams are still under way
  table,   \* CRDS.table: the clock of each key, 0 if absent
  health,  \* health_tracker: "none", "ok", "stale" (not heard for 300 s), "bad"
  known,   \* known_peers
  active,  \* active_gossip_set
  pruned   \* pruned_peers

gossipVars == <<alive, table, health, known, active, pruned>>

\* _register_self and add_bootstrap_peer, which writes down the peer's contact
\* with the wall clock of this node.
GossipInit ==
  /\ alive = Peer
  /\ table \in [Key -> 0 .. MaxClock]
  /\ \A k \in Key : table[k] > 0 <=> k \in {Contact(p) : p \in Bootstrap \cup {Self}}
  /\ health = [p \in Member |-> IF p \in Bootstrap \cup {Self} THEN "ok" ELSE "none"]
  /\ known = Bootstrap \cup {Self}
  /\ active = {}
  /\ pruned = {}

-----------------------------------------------------------------------------
(* Who is active *)

HealthyPeers == {p \in Peer : health[p] = "ok"}
UnhealthyPeers == {p \in Peer : health[p] \in {"stale", "bad"}}

Least(a, b) == IF a < b THEN a ELSE b
Most(a, b) == IF a < b THEN b ELSE a

\* At most k members of S, and as many as there are.
UpTo(k, S) == {T \in SUBSET S : Cardinality(T) = Least(k, Cardinality(S))}

\* The active set as filled from the healthy peers and, if they are too few, from
\* the others without a bad record (a stale one is no obstacle).
Filled(out) ==
  LET target == Least(TargetPeers, Cardinality(known) - 1)
      well == HealthyPeers \ out
      spare == {p \in known \ (well \cup out \cup {Self}) : health[p] # "bad"}
  IN  IF Cardinality(well) < target
      THEN {well \cup s : s \in UpTo(target - Cardinality(well), spare)}
      ELSE UpTo(Most(target, SetMin), well)

\* (A bug for comparison: backup peers may be pruned ones.)
BugActiveSets(out) ==
  UNION {IF Cardinality(f) < ActiveMin
         THEN {f \cup b : b \in UpTo(BackupPeers, known \ {Self})}
         ELSE {f} : f \in Filled(out)}

\* What _update_active_gossip_set may choose when the peers in out are pruned: if
\* what it found is not enough, backup peers whatever their health.
ActiveSets(out) ==
  UNION {IF Cardinality(f) < ActiveMin
         THEN {f \cup b : b \in UpTo(BackupPeers, known \ (out \cup {Self}))}
         ELSE {f} : f \in Filled(out)}

\* _send_message: the failures are recorded, for the peer or, when its contact
\* came over the network with its key cut short, for nobody.
Sent(h, targets) ==
  {[p \in Member |-> IF p \in failed THEN "bad" ELSE h[p]] : failed \in SUBSET targets}

\* _perform_push fills an empty active set and sends the newest value.
Push ==
  /\ IF active = {} THEN active' \in ActiveSets(pruned) ELSE UNCHANGED active
  /\ health' \in Sent(health, (active' \cap known) \ pruned)
  /\ UNCHANGED <<alive, table, known, pruned>>

\* _perform_pull, to one peer (_trigger_network_healing does so to three).
Pull(m) ==
  /\ m \in known \ (pruned \cup {Self})
  /\ health' \in Sent(health, {m})
  /\ UNCHANGED <<alive, table, known, active, pruned>>

-----------------------------------------------------------------------------
(* Messages *)

\* (A bug for comparison: the last value to arrive stays.)
BugAccepts(v) == table[v.key] # v.clock

\* CRDS.insert refuses what is not newer.
Accepts(v) == table[v.key] < v.clock

\* The sender is healthy again, unless a record of it in the table that came from
\* a node whose clock is ahead is newer.
Heard(m) == {health, [health EXCEPT ![m] = "ok"]}

\* (A bug for comparison: the owner of a contact gets no health record.)
BugTakeValues(m, values) ==
  LET new == {v \in values : Accepts(v)}
  IN  /\ m \in alive
      /\ table' = [k \in Key |-> IF \E v \in new : v.key = k
                                 THEN (CHOOSE v \in new : v.key = k).clock ELSE table[k]]
      /\ health' \in Heard(m)
      /\ known' = known \cup {p \in Member : \E v \in new : v.key = Contact(p)}
      /\ UNCHANGED <<alive, active, pruned>>

\* _handle_push_message (of one value) and _handle_pull_response: every newer value
\* is inserted; a contact makes its owner a known and a healthy peer.
TakeValues(m, values) ==
  LET new == {v \in values : Accepts(v)}
      met == {p \in Member : \E v \in new : v.key = Contact(p)}
  IN  /\ m \in alive
      /\ table' = [k \in Key |-> IF \E v \in new : v.key = k
                                 THEN (CHOOSE v \in new : v.key = k).clock ELSE table[k]]
      /\ \E h \in Heard(m) :
           health' = [p \in Member |-> IF p \in met THEN "ok" ELSE h[p]]
      /\ known' = known \cup met
      /\ UNCHANGED <<alive, active, pruned>>

\* What can come in one message: some keys, one value of each.
Messages ==
  {values \in SUBSET Value :
     /\ Cardinality(values) <= PullLimit
     /\ \A v, w \in values : v.key = w.key => v = w}

\* _handle_pull_request, answered if the requester is known.
Answer(m) ==
  /\ m \in alive
  /\ \E h \in Heard(m) : health' \in Sent(h, {m} \cap known)
  /\ UNCHANGED <<alive, table, known, active, pruned>>

\* _handle_prune_message, which leaves pruned_peers alone.
TakePrune(m) ==
  /\ m \in alive
  /\ active' = active \ {m}
  /\ UNCHANGED <<alive, table, health, known, pruned>>

-----------------------------------------------------------------------------
(* Maintenance *)

\* (A bug for comparison: the peers leave the active set and are not noted.)
BugPrune ==
  /\ active' \in ActiveSets(pruned)
  /\ health' \in Sent(health, active \cap UnhealthyPeers \cap known)
  /\ UNCHANGED <<alive, table, known, pruned>>

\* _perform_pruning: unhealthy members of the active set are pruned and told so,
\* and the set is filled again.
Prune ==
  LET out == active \cap UnhealthyPeers
  IN  /\ pruned' = pruned \cup out
      /\ active' \in ActiveSets(pruned')
      /\ health' \in Sent(health, out \cap known)
      /\ UNCHANGED <<alive, table, known>>

\* cleanup_old_entries: values older than an hour; the peers stay known.
Cleanup(old) ==
  /\ table' = [k \in Key |-> IF k \in old THEN 0 ELSE table[k]]
  /\ UNCHANGED <<alive, health, known, active, pruned>>

\* publish_vote, when the wall clock has moved on.
Publish ==
  /\ \E c \in table[VoteKey] + 1 .. MaxClock : table' = [table EXCEPT ![VoteKey] = c]
  /\ UNCHANGED <<alive, health, known, active, pruned>>

\* Five minutes without a word from m.
GrowStale(m) ==
  /\ health[m] = "ok"
  /\ health' = [health EXCEPT ![m] = "stale"]
  /\ UNCHANGED <<alive, table, known, active, pruned>>

CrashPeer(m) ==
  /\ m \in alive
  /\ alive' = alive \ {m}
  /\ UNCHANGED <<table, health, known, active, pruned>>

RestartPeer(m) ==
  /\ m \in Peer \ alive
  /\ alive' = alive \cup {m}
  /\ UNCHANGED <<table, health, known, active, pruned>>

GossipNext ==
  \/ Push \/ Prune \/ Publish
  \/ \E m \in Peer :
       \/ Pull(m) \/ Answer(m) \/ TakePrune(m)
       \/ GrowStale(m) \/ CrashPeer(m) \/ RestartPeer(m)
       \/ \E values \in Messages : TakeValues(m, values)
  \/ \E old \in SUBSET Key : Cleanup(old)

\* The maintenance loop runs on, and time passes for peers that are silent.
Fairness ==
  /\ WF_gossipVars(Prune)
  /\ \A m \in Peer : WF_gossipVars(m \notin alive /\ GrowStale(m))

GossipSpec == GossipInit /\ [][GossipNext]_gossipVars /\ Fairness

-----------------------------------------------------------------------------
(* Properties *)

\* The types of the table, the records and the peers; every peer that is known or
\* active has a health record, so that it can be found unhealthy.
GossipTypeOK ==
  /\ alive \subseteq Peer
  /\ table \in [Key -> 0 .. MaxClock]
  /\ health \in [Member -> {"none", "ok", "stale", "bad"}]
  /\ known \subseteq Member
  /\ active \subseteq Peer /\ pruned \subseteq Peer
  /\ \A p \in known \cup active : health[p] # "none"

\* Nobody a node has pruned is in its active set again, by whichever of the
\* three ways _update_active_gossip_set fills it.
PrunedStaysOut == active \cap pruned = {}

\* Whatever order messages come in, the value of a key never goes back, but for
\* the removal of old values.
NewestWins == [][\A k \in Key : table'[k] < table[k] => table'[k] = 0]_gossipVars

\* The contact of a peer comes in and is taken, which makes the peer healthy.
ContactTaken(m) == table'[Contact(m)] > table[Contact(m)]

\* A peer that stays down is out of the active set from some time on, once its contact
\* does not come in any more: nothing else that the node does with its peers, no fill
\* of the set from known and backup peers among them, brings a silent one back for good.
\* (A contact keeps the wall clock of its registration and is removed an hour after it,
\* while the peer stays known; a node that has not removed it yet can send it again, and
\* nothing refuses a value that is as old as that.)
CrashedLeaves ==
  \A m \in Peer :
    <>[](m \notin alive) /\ <>[][~ ContactTaken(m)]_gossipVars => <>[](m \notin active)
=============================================================================
