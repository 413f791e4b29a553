----------------------------- MODULE PeerProofs -----------------------------
(***************************************************************************)
(* What a node knows of the others, whom it chooses among them and what it *)
(* hears from them: theorems about the Registry, about a Committee among   *)
(* any candidates, about a Gossip node among any peers and about the       *)
(* messages of any connections.  Registry and Gossip share the names of    *)
(* the node and its peers, and the four nothing else.                      *)
(***************************************************************************)
EXTENDS Registry, Committee, Gossip, MessageBatch, FiniteSetTheorems, SequenceTheorems, TLAPS

-----------------------------------------------------------------------------
(* The registry, for every set of validators, either mode and all times    *)
(* that are in order (RegistryAssumption).                                 *)

\* Two different validators are registered that were seen at t or later.
TwoSeenSince(t) ==
  \E m, n \in nodes : m # n /\ lastSeen[m] >= t /\ lastSeen[n] >= t

\* Those that an election has probed are not forgotten for an hour.
ProbedSeen == \A t \in probed : now - t <= ForgetAfter => TwoSeenSince(t)

RegistryInv == TypeOK /\ ProbedSeen

\* Registering keeps everyone registered and moves no time backwards.
LEMMA RegisterEffect ==
  ASSUME TypeOK, NEW n \in Validator, Register(n)
  PROVE  /\ nodes' \subseteq Validator /\ nodes \subseteq nodes' /\ nodes' \subseteq nodes \cup {n}
         /\ lastSeen' \in [Validator -> Nat]
         /\ \A m \in Validator : lastSeen[m] <= lastSeen'[m] /\ lastSeen'[m] <= now
         /\ \A m \in Validator : m # n => lastSeen'[m] = lastSeen[m]
         /\ registered' \in [Validator -> Nat]
<1>1. CASE n \in nodes /\ now - registered[n] < RegisterGap
  BY <1>1 DEF Register, registry, TypeOK
<1>2. CASE ~(n \in nodes /\ now - registered[n] < RegisterGap)
  <2>1. /\ nodes' = nodes \cup {n} /\ lastSeen' = [lastSeen EXCEPT ![n] = now]
        /\ registered' = [registered EXCEPT ![n] = now]
    BY <1>2 DEF Register
  <2> QED
    BY <2>1 DEF TypeOK
<1> QED BY <1>1, <1>2

\* What an election finds and leaves: the candidates are registered and active, and
\* stay; whoever goes has not been seen for an hour.
LEMMA ElectEffect ==
  ASSUME TypeOK, Elect
  PROVE  \E c \in Candidates :
           /\ c \subseteq Active /\ c \subseteq nodes'
           /\ nodes' \subseteq nodes /\ first \in nodes'
           /\ \A n \in nodes : now - lastSeen[n] <= ForgetAfter => n \in nodes'
           /\ UNCHANGED <<now, fixed, registered, wake, votes>>
           /\ lastSeen' \in [Validator -> Nat]
           /\ \A n \in Validator : lastSeen'[n] = IF n \in c THEN now ELSE lastSeen[n]
           /\ c = {} => elected' = first
           /\ c # {} => elected' \in c
           /\ probed' = probed \/ (probed' = {now} /\ \E m, n \in c : m # n)
<1> PICK c \in Candidates :
      /\ nodes' \in {nodes} \cup (IF Cardinality(nodes) > ManyNodes THEN {Kept} ELSE {})
      /\ IF c = {}
         THEN elected' = first /\ UNCHANGED <<lastSeen, probed>>
         ELSE /\ elected' \in c
              /\ lastSeen' = [n \in Validator |-> IF n \in c THEN now ELSE lastSeen[n]]
              /\ probed' = IF \E m, n \in c : m # n THEN {now} ELSE probed
      /\ UNCHANGED <<now, fixed, registered, wake, votes>>
  BY DEF Elect
<1>1. c \subseteq Active /\ Active \subseteq nodes
  BY DEF Candidates, Active
<1>2. nodes' = nodes \/ nodes' = Kept
  OBVIOUS
<1>3. /\ Kept \subseteq nodes /\ first \in Kept
      /\ \A n \in nodes : ~ (now - lastSeen[n] > ForgetAfter) => n \in Kept
  BY DEF Kept, TypeOK
<1>4. \A n \in nodes : now - lastSeen[n] <= ForgetAfter => ~ (now - lastSeen[n] > ForgetAfter)
  BY RegistryAssumption DEF TypeOK
<1>5. \A n \in Active : now - lastSeen[n] <= ForgetAfter
  BY RegistryAssumption DEF Active, TypeOK
<1>6. /\ nodes' \subseteq nodes /\ first \in nodes' /\ c \subseteq nodes'
      /\ \A n \in nodes : now - lastSeen[n] <= ForgetAfter => n \in nodes'
  BY <1>1, <1>2, <1>3, <1>4, <1>5 DEF TypeOK
<1>7. /\ lastSeen' \in [Validator -> Nat]
      /\ \A n \in Validator : lastSeen'[n] = IF n \in c THEN now ELSE lastSeen[n]
  <2>1. CASE c = {}
    BY <2>1 DEF TypeOK
  <2>2. CASE c # {}
    BY <2>2 DEF TypeOK
  <2> QED BY <2>1, <2>2
<1>8. probed' = probed \/ (probed' = {now} /\ \E m, n \in c : m # n)
  OBVIOUS
<1> QED BY <1>1, <1>6, <1>7, <1>8

LEMMA RegistryInit == Init => RegistryInv
BY RegistryAssumption DEF Init, RegistryInv, TypeOK, ProbedSeen, Validator

\* What is not too old later is not too old now.
LEMMA AgesGrow == \A a, b, t, m \in Nat : a <= b /\ b - t <= m => a - t <= m
OBVIOUS

\* Nobody that counts is forgotten while it counts.
LEMMA StaySeen ==
  ASSUME TypeOK, ProbedSeen, now \in Nat, now' \in Nat, now <= now',
         lastSeen' \in [Validator -> Nat],
         \A n \in Validator : lastSeen[n] <= lastSeen'[n],
         \A n \in nodes : now - lastSeen[n] <= ForgetAfter => n \in nodes',
         NEW t \in probed, now' - t <= ForgetAfter
  PROVE  TwoSeenSince(t)'
<1>0. t \in Nat /\ ForgetAfter \in Nat
  BY RegistryAssumption DEF TypeOK
<1>1. now - t <= ForgetAfter
  BY <1>0, AgesGrow
<1>2. PICK m \in nodes, n \in nodes : m # n /\ lastSeen[m] >= t /\ lastSeen[n] >= t
  BY <1>1 DEF ProbedSeen, TwoSeenSince
<1>3. /\ m \in Validator /\ n \in Validator
      /\ lastSeen[m] \in Nat /\ lastSeen[n] \in Nat /\ lastSeen'[m] \in Nat /\ lastSeen'[n] \in Nat
  BY DEF TypeOK
<1>4. m \in nodes' /\ n \in nodes'
  BY <1>0, <1>1, <1>2, <1>3
<1>5. lastSeen'[m] >= t /\ lastSeen'[n] >= t
  BY <1>0, <1>2, <1>3
<1> QED BY <1>2, <1>4, <1>5 DEF TwoSeenSince

LEMMA RegistryNext == RegistryInv /\ [Next]_vars => RegistryInv'
<1> SUFFICES ASSUME RegistryInv, [Next]_vars PROVE RegistryInv'
  OBVIOUS
<1>0. TypeOK /\ ProbedSeen /\ Self \in Validator
  BY DEF RegistryInv, Validator
<1> USE DEF fixed, registry
<1>1. CASE Tick
  <2>1. /\ now' = now + 1 /\ now \in Nat
        /\ UNCHANGED <<mode, first, nodes, lastSeen, registered, wake, votes, elected, probed>>
    BY <1>0, <1>1 DEF Tick, TypeOK
  <2>2. TypeOK'
    BY <1>0, <2>1 DEF TypeOK
  <2>3. \A t \in probed : now' - t <= ForgetAfter => TwoSeenSince(t)'
    BY <1>0, <2>1, StaySeen DEF TypeOK
  <2> QED BY <2>1, <2>2, <2>3 DEF RegistryInv, ProbedSeen
<1>2. ASSUME NEW n \in Validator, Register(n),
             UNCHANGED <<now, mode, first, votes, elected, probed>>,
             wake' \in Nat
      PROVE  RegistryInv'
  <2>1. /\ nodes' \subseteq Validator /\ nodes \subseteq nodes'
        /\ lastSeen' \in [Validator -> Nat]
        /\ \A m \in Validator : lastSeen[m] <= lastSeen'[m] /\ lastSeen'[m] <= now
        /\ registered' \in [Validator -> Nat]
    BY <1>0, <1>2, RegisterEffect
  <2>2. TypeOK'
    BY <1>0, <1>2, <2>1 DEF TypeOK
  <2>3. \A t \in probed : now' - t <= ForgetAfter => TwoSeenSince(t)'
    BY <1>0, <1>2, <2>1, StaySeen DEF TypeOK
  <2> QED BY <1>2, <2>2, <2>3 DEF RegistryInv, ProbedSeen
<1>3. CASE Heartbeat
  <2>1. now + Pause \in Nat
    BY <1>0, RegistryAssumption DEF TypeOK
  <2> QED BY <1>0, <1>2, <1>3, <2>1 DEF Heartbeat, TypeOK
<1>4. CASE HandleTransaction
  BY <1>0, <1>2, <1>4 DEF HandleTransaction, TypeOK
<1>5. CASE HeartbeatError
  <2>1. now + Retry \in Nat
    BY <1>0, RegistryAssumption DEF TypeOK
  <2> QED BY <1>0, <1>5, <2>1 DEF HeartbeatError, RegistryInv, TypeOK, ProbedSeen, TwoSeenSince
<1>6. CASE Elect
  <2> PICK c \in Candidates :
         /\ c \subseteq Active /\ c \subseteq nodes'
         /\ nodes' \subseteq nodes /\ first \in nodes'
         /\ \A n \in nodes : now - lastSeen[n] <= ForgetAfter => n \in nodes'
         /\ UNCHANGED <<now, fixed, registered, wake, votes>>
         /\ lastSeen' \in [Validator -> Nat]
         /\ \A n \in Validator : lastSeen'[n] = IF n \in c THEN now ELSE lastSeen[n]
         /\ c = {} => elected' = first
         /\ c # {} => elected' \in c
         /\ probed' = probed \/ (probed' = {now} /\ \E m, n \in c : m # n)
    BY <1>0, <1>6, ElectEffect
  <2>1. \A n \in Validator : lastSeen[n] <= lastSeen'[n] /\ lastSeen'[n] <= now
    BY <1>0 DEF TypeOK
  <2>2. elected' \in Validator
    BY <1>0 DEF TypeOK, Active
  <2>2a. probed' \subseteq Nat /\ \A t \in probed' : t <= now
    <3>1. CASE probed' = probed
      BY <1>0, <3>1 DEF TypeOK
    <3>2. CASE probed' = {now}
      BY <1>0, <3>2 DEF TypeOK
    <3> QED BY <3>1, <3>2
  <2>3. TypeOK'
    BY <1>0, <2>1, <2>2, <2>2a DEF TypeOK
  <2>4. CASE probed' = probed
    <3>1. \A t \in probed : now' - t <= ForgetAfter => TwoSeenSince(t)'
      BY <1>0, <2>1, StaySeen DEF TypeOK
    <3> QED BY <2>3, <2>4, <3>1 DEF RegistryInv, ProbedSeen
  <2>5. CASE probed' = {now} /\ \E m, n \in c : m # n
    <3>1. PICK m \in c, n \in c : m # n
      BY <2>5
    <3>2. m \in nodes' /\ n \in nodes' /\ lastSeen'[m] = now /\ lastSeen'[n] = now /\ now \in Nat
      BY <1>0 DEF TypeOK
    <3>3. lastSeen'[m] >= now /\ lastSeen'[n] >= now
      BY <3>2
    <3>4. TwoSeenSince(now)'
      BY <3>1, <3>2, <3>3 DEF TwoSeenSince
    <3>5. \A t \in probed' : TwoSeenSince(t)'
      BY <2>5, <3>1, <3>2, <3>3 DEF TwoSeenSince
    <3> QED BY <2>3, <3>5 DEF RegistryInv, ProbedSeen
  <2> QED BY <2>4, <2>5
<1>7. CASE \E b \in Block : Vote(b)
  <2>1. /\ UNCHANGED <<now, mode, first, nodes, lastSeen, registered, wake, elected, probed>>
        /\ votes' \subseteq Block
    BY <1>0, <1>7 DEF Vote, TypeOK
  <2> QED BY <1>0, <2>1 DEF RegistryInv, TypeOK, ProbedSeen, TwoSeenSince
<1>8. CASE UNCHANGED vars
  BY <1>0, <1>8 DEF vars, RegistryInv, TypeOK, ProbedSeen, TwoSeenSince
<1> QED BY <1>1, <1>3, <1>4, <1>5, <1>6, <1>7, <1>8 DEF Next

\* Two healthy validators are enough to ask for more votes than there are.
LEMMA TwoAreTooMany ==
  ASSUME TypeOK, NEW b \in Block, ConsensusReached(b)
  PROVE  /\ Cardinality(Healthy) <= 1
         /\ \A m, n \in Healthy : m = n
<1>1. IsFiniteSet(Healthy) /\ Cardinality(Healthy) \in Nat
  <2>1. IsFiniteSet(Validator)
    BY RegistryAssumption, FS_AddElement DEF Validator
  <2>2. Healthy \subseteq Validator
    BY DEF Healthy, TypeOK
  <2> QED BY <2>1, <2>2, FS_Subset, FS_CardinalityType
<1>2. Cardinality(Healthy) <= 1
  BY <1>1 DEF ConsensusReached, Threshold
<1>3. ASSUME NEW m \in Healthy, NEW n \in Healthy, m # n PROVE FALSE
  <2>1. IsFiniteSet({m}) /\ Cardinality({m}) = 1
    BY FS_Singleton
  <2>2. IsFiniteSet({m} \cup {n}) /\ Cardinality({m} \cup {n}) = Cardinality({m}) + 1
    BY <1>3, <2>1, FS_AddElement
  <2>3. {m} \cup {n} \subseteq Healthy
    OBVIOUS
  <2>4. Cardinality({m} \cup {n}) <= Cardinality(Healthy)
    BY <1>1, <2>3, FS_Subset
  <2> QED BY <1>1, <1>2, <2>1, <2>2, <2>4
<1> QED BY <1>2, <1>3

-----------------------------------------------------------------------------
\* The registry keeps its types, and no time in it lies in the future.
THEOREM RegistryTyped == Spec => []TypeOK
<1>1. RegistryInv => TypeOK
  BY DEF RegistryInv
<1> QED BY RegistryInit, RegistryNext, <1>1, PTL DEF Spec

\* Whatever the number of validators and the mode, a node finds consensus on a block
\* only while it takes at most one validator to be healthy.
THEOREM ConsensusIsLonely == Spec => []DecidesAlone
<1>1. TypeOK => DecidesAlone
  BY TwoAreTooMany DEF DecidesAlone
<1> QED BY RegistryTyped, <1>1, PTL

\* An election among two or more candidates, dead or alive, keeps the node from
\* consensus for the whole tolerance, whatever is registered, voted, elected or cleaned
\* up meanwhile: the two are not forgotten and count as healthy.
THEOREM ElectionsHinder == Spec => []ElectionHinders
<1>1. RegistryInv => ElectionHinders
  <2> SUFFICES ASSUME RegistryInv, NEW t \in probed, now - t < Tolerance,
                      NEW b \in Block, ConsensusReached(b)
               PROVE  FALSE
    BY DEF ElectionHinders
  <2>0. TypeOK /\ ProbedSeen
    BY DEF RegistryInv
  <2>1. t \in Nat /\ now \in Nat /\ now - t <= ForgetAfter
    BY <2>0, RegistryAssumption DEF TypeOK
  <2>2. PICK m \in nodes, n \in nodes : m # n /\ lastSeen[m] >= t /\ lastSeen[n] >= t
    BY <2>0, <2>1 DEF ProbedSeen, TwoSeenSince
  <2>3. \A k \in nodes : lastSeen[k] >= t => k \in Healthy
    <3> SUFFICES ASSUME NEW k \in nodes, lastSeen[k] >= t PROVE k \in Healthy
      OBVIOUS
    <3>1. lastSeen[k] \in Nat
      BY <2>0 DEF TypeOK
    <3>2. now - lastSeen[k] < Tolerance /\ now - lastSeen[k] <= Tolerance
      BY <2>1, <3>1, RegistryAssumption
    <3> QED BY <3>2 DEF Healthy, Uptime
  <2> QED BY <2>0, <2>2, <2>3, TwoAreTooMany
<1> QED BY RegistryInit, RegistryNext, <1>1, PTL DEF Spec

\* A validator this node has lost sight of is never active again, and elected only as
\* the first of a registry without an active one.
THEOREM InactiveStaysOut == Spec => InactiveForGood
<1>1. TypeOK /\ [Next]_vars =>
        [\A n \in Peer : n \notin Active =>
           /\ n \notin Active'
           /\ elected' = n => elected = n \/ (n = first /\ Active = {})]_vars
  <2> SUFFICES ASSUME TypeOK, Next, NEW n \in Peer, n \notin Active
               PROVE  /\ n \notin Active'
                      /\ elected' = n => elected = n \/ (n = first /\ Active = {})
    OBVIOUS
  <2> USE DEF fixed, registry
  <2>0. n # Self /\ n \in Validator /\ Self \in Validator
    BY RegistryAssumption DEF Validator
  <2>1. CASE Tick
    BY <2>0, <2>1, RegistryAssumption DEF Tick, Active, TypeOK
  <2>2. ASSUME NEW m \in Validator, m # n, Register(m), now' = now, elected' = elected
        PROVE  n \notin Active' /\ elected' = elected
    <3>1. lastSeen'[n] = lastSeen[n] /\ (n \in nodes' => n \in nodes)
      BY <2>0, <2>2, RegisterEffect
    <3> QED BY <2>2, <3>1 DEF Active
  <2>3. CASE Heartbeat \/ HandleTransaction
    BY <2>0, <2>2, <2>3 DEF Heartbeat, HandleTransaction
  <2>4. CASE HeartbeatError
    BY <2>4 DEF HeartbeatError, Active
  <2>5. CASE Elect
    <3> PICK c \in Candidates :
           /\ c \subseteq Active /\ c \subseteq nodes'
           /\ nodes' \subseteq nodes /\ first \in nodes'
           /\ \A m \in nodes : now - lastSeen[m] <= ForgetAfter => m \in nodes'
           /\ UNCHANGED <<now, fixed, registered, wake, votes>>
           /\ lastSeen' \in [Validator -> Nat]
           /\ \A m \in Validator : lastSeen'[m] = IF m \in c THEN now ELSE lastSeen[m]
           /\ c = {} => elected' = first
           /\ c # {} => elected' \in c
           /\ probed' = probed \/ (probed' = {now} /\ \E k, m \in c : k # m)
      BY <2>5, ElectEffect
    <3>1. n \notin c
      OBVIOUS
    <3>2. n \notin Active'
      BY <2>0, <3>1 DEF Active
    <3>3. ASSUME elected' = n PROVE n = first /\ Active = {}
      <4>1. c = {}
        BY <3>1, <3>3
      <4>2. Active = {}
        <5>1. Cardinality(c) = 0
          BY <4>1, FS_EmptySet
        <5>2. Active \subseteq Validator /\ IsFiniteSet(Validator)
          BY RegistryAssumption, FS_AddElement DEF Active, TypeOK, Validator
        <5>3. IsFiniteSet(Active) /\ Cardinality(Active) \in Nat
          BY <5>2, FS_Subset, FS_CardinalityType
        <5>4. Cardinality(c) = (IF Cardinality(Active) < CandidateLimit
                                THEN Cardinality(Active) ELSE CandidateLimit)
          BY DEF Candidates
        <5>5. Cardinality(Active) = 0
          BY <5>1, <5>3, <5>4, RegistryAssumption
        <5> QED BY <5>3, <5>5, FS_EmptySet
      <4> QED BY <3>3, <4>1, <4>2
    <3> QED BY <3>2, <3>3
  <2>6. CASE \E b \in Block : Vote(b)
    BY <2>6 DEF Vote, Active
  <2> QED BY <2>1, <2>3, <2>4, <2>5, <2>6 DEF Next
<1> QED BY <1>1, RegistryTyped, PTL DEF Spec, InactiveForGood

-----------------------------------------------------------------------------
(* The committee, for any candidates, scores, risks and numbers. *)

\* What each stage has ensured: the number wanted is possible once the problem is
\* formulated; one candidate is wanted, one is found; the repair ends at it.
Sized == fallback \/ wanted = 1 => Cardinality(selected) = wanted
Staged ==
  /\ pc \in {"solve", "check", "repair", "elect"} => wanted \in 1 .. size
  /\ pc \in {"check", "repair"} /\ wanted = 1 /\ ~ fallback => Cardinality(selected) = 1
  /\ pc = "elect" => Sized
  /\ pc = "done" /\ size > 0 => wanted \in 1 .. size /\ Sized /\ (fallback \/ wanted = 1 => leader \in selected)

CommitteeInv == CommitteeTypeOK /\ Staged

LEMMA CommitteeStarts ==
  ASSUME CommitteeInit
  PROVE  CommitteeInv
BY CommitteeAssumption DEF CommitteeInit, CommitteeInv, CommitteeTypeOK, Staged, Positions

\* A singleton of the candidates has one member.
LEMMA OneMember == \A i : Cardinality({i}) = 1
BY FS_Singleton

\* The committee of all candidates has as many members as there are candidates.
LEMMA AllMembers == size \in Nat => IsFiniteSet(Positions) /\ Cardinality(Positions) = size
<1> SUFFICES ASSUME size \in Nat PROVE IsFiniteSet(Positions) /\ Cardinality(Positions) = size
  OBVIOUS
<1>1. IsFiniteSet(1 .. size) /\ Cardinality(1 .. size) = IF 1 > size THEN 0 ELSE size - 1 + 1
  BY FS_Interval
<1> QED
  BY <1>1 DEF Positions

\* A set of the size wanted: what every way of solving returns when wanted is 1.
LEMMA SolveStep == CommitteeInv /\ Solve => CommitteeInv'
<1> SUFFICES ASSUME CommitteeInv, Solve PROVE CommitteeInv'
  OBVIOUS
<1>1. PICK S : Solved(S) /\ S \subseteq Positions /\ (wanted = 1 => Cardinality(S) = 1)
  <2>1. CASE SolveAlone
    <3>1. Solved({1}) /\ {1} \subseteq Positions
      BY <2>1 DEF SolveAlone, Positions
    <3> QED
      BY <3>1, OneMember
  <2>2. CASE \E i \in Positions : SolveSingly(i)
    <3>1. PICK i \in Positions : Solved({i})
      BY <2>2 DEF SolveSingly
    <3> QED
      BY <3>1, OneMember
  <2>3. CASE \E S \in SUBSET Positions : SolveByRank(S)
    <3>1. PICK S \in SUBSET Positions : Solved(S) /\ S \in kSubset(wanted, Positions)
      BY <2>3 DEF SolveByRank, Ranked
    <3>2. Cardinality(S) = wanted
      BY <3>1 DEF kSubset
    <3> QED
      BY <3>1, <3>2
  <2>4. CASE \E S \in SUBSET Positions : SampleCommittee(S)
    BY <2>4 DEF SampleCommittee
  <2>5. CASE \E S \in SUBSET Positions, i \in Positions : SampleOne(S, i)
    BY <2>5, OneMember DEF SampleOne
  <2> QED
    BY <2>1, <2>2, <2>3, <2>4, <2>5 DEF Solve
<1> QED
  BY <1>1 DEF Solved, CommitteeInv, CommitteeTypeOK, Staged, Positions, Pairs, problem

LEMMA RepairStep ==
  ASSUME CommitteeInv, Repair
  PROVE  CommitteeInv'
<1>1. CASE \E i \in selected : RemoveOne(i)
  <2>1. wanted # 1 \/ fallback
    BY <1>1 DEF RemoveOne, CommitteeInv, Staged
  <2> QED
    BY <1>1, <2>1 DEF RemoveOne, CommitteeInv, CommitteeTypeOK, Staged, Positions, Pairs, problem
<1>2. CASE \E i \in Positions \ selected : AddOne(i)
  <2>1. wanted # 1 \/ fallback
    BY <1>2 DEF AddOne, CommitteeInv, Staged
  <2> QED
    BY <1>2, <2>1 DEF AddOne, CommitteeInv, CommitteeTypeOK, Staged, Positions, Pairs, problem
<1>3. CASE EndRepair
  <2>1. Cardinality(selected) = wanted
    <3>1. size \in Nat /\ wanted \in 1 .. size /\ pc = "repair"
      BY <1>3, CommitteeAssumption DEF EndRepair, CommitteeInv, CommitteeTypeOK, Staged
    <3>2. Cardinality(Positions) = size
      BY <3>1, AllMembers
    <3> QED
      BY <1>3, <3>1, <3>2 DEF EndRepair
  <2> QED
    BY <1>3, <2>1
    DEF EndRepair, CommitteeInv, CommitteeTypeOK, Staged, Sized, Positions, Pairs, problem
<1> QED
  BY <1>1, <1>2, <1>3 DEF Repair

LEMMA CommitteeStep ==
  ASSUME CommitteeInv, [CommitteeNext]_committeeVars
  PROVE  CommitteeInv'
<1> USE DEF CommitteeInv, CommitteeTypeOK, Staged, Sized, Positions, Pairs, problem
<1>1. CASE NoCandidates
  BY <1>1 DEF NoCandidates
<1>2. CASE Formulate
  BY <1>2, CommitteeAssumption DEF Formulate
<1>3. CASE CheckCount
  BY <1>3 DEF CheckCount
<1>4. CASE ElectNobody
  <2>1. ~ (fallback \/ wanted = 1)
    BY <1>4, FS_EmptySet DEF ElectNobody
  <2> QED
    BY <1>4, <2>1 DEF ElectNobody
<1>5. CASE \E i \in selected : ElectHighest(i) \/ ElectByHash(i)
  <2>1. PICK i \in selected : ElectHighest(i) \/ ElectByHash(i)
    BY <1>5
  <2>2. /\ pc = "elect" /\ pc' = "done" /\ leader' = i
        /\ UNCHANGED <<problem, wanted, selected>>
    BY <2>1 DEF ElectHighest, ElectByHash
  <2>3. CommitteeTypeOK'
    BY <2>2
  <2>4. Staged'
    BY <2>2
  <2> QED
    BY <2>3, <2>4
<1>6. CASE UNCHANGED committeeVars
  BY <1>6 DEF committeeVars
<1> QED
  BY <1>1, <1>2, <1>3, <1>4, <1>5, <1>6, SolveStep, RepairStep DEF CommitteeNext

\* Every reachable state of select_committee is well typed, whatever the
\* sampler returns.
THEOREM CommitteeTyped == CommitteeSpec => []CommitteeTypeOK
<1>1. CommitteeInv => CommitteeTypeOK
  BY DEF CommitteeInv
<1>2. CommitteeInit => CommitteeInv
  BY CommitteeStarts
<1>3. CommitteeInv /\ [CommitteeNext]_committeeVars => CommitteeInv'
  BY CommitteeStep
<1> QED
  BY <1>1, <1>2, <1>3, PTL DEF CommitteeSpec

\* The committee returned has exactly the number of members wanted, which is at most
\* that of the candidates, for any sampler and any number asked for; the leader is one
\* of them.
THEOREM CommitteeHasK == CommitteeSpec => []ExactlyK
<1>1. CommitteeInv => ExactlyK
  BY DEF CommitteeInv, Staged, Sized, ExactlyK
<1>2. CommitteeInit => CommitteeInv
  BY CommitteeStarts
<1>3. CommitteeInv /\ [CommitteeNext]_committeeVars => CommitteeInv'
  BY CommitteeStep
<1> QED
  BY <1>1, <1>2, <1>3, PTL DEF CommitteeSpec

-----------------------------------------------------------------------------
(* The lowest energies, when the penalty outweighs what one candidate can  *)
(* bring.                                                                  *)

\* Folding wants an operator; its sums are the same for any.
Plus(p, m, n) == m + n
FSum == INSTANCE Folding WITH Op <- Plus

\* An instance has finiteness and cardinality of its own.
LEMMA SameSizes == \A S : /\ FSum!IsFiniteSet(S) <=> IsFiniteSet(S)
                          /\ FSum!Cardinality(S) = Cardinality(S)
<1>1. \A S : FSum!IsFiniteSet(S) <=> IsFiniteSet(S)
  BY DEF FSum!IsFiniteSet, IsFiniteSet
<1>2. \A S : FSum!Cardinality(S) = Cardinality(S)
  BY DEF FSum!Cardinality, Cardinality
<1> QED
  BY <1>1, <1>2

\* The coefficients, as functions.
linear == [i \in Positions |-> Linear(i)]
quadratic == [p \in Pairs(Positions) |-> Quadratic(p)]

\* The call is past formulate.
Formulated ==
  /\ size \in Nat /\ wanted \in 1 .. size
  /\ score \in [Positions -> Int]
  /\ risk \in [Pairs(Positions) -> Nat]

LEMMA PairsFinite ==
  ASSUME size \in Nat
  PROVE  /\ IsFiniteSet(Positions) /\ IsFiniteSet(Pairs(Positions))
         /\ \A S \in SUBSET Positions : Pairs(S) \in SUBSET Pairs(Positions)
<1>1. IsFiniteSet(Positions \X Positions)
  BY AllMembers, FS_Product
<1>2. Pairs(Positions) \subseteq Positions \X Positions
  BY DEF Pairs
<1>3. IsFiniteSet(Pairs(Positions))
  BY <1>1, <1>2, FS_Subset
<1> QED
  BY <1>3, AllMembers DEF Pairs

\* A sum of the model is the one of Folding.
LEMMA TotalLinear ==
  ASSUME NEW S \in SUBSET Positions
  PROVE  Total(Linear, S) = FSum!SumOf(linear, S)
<1> DEFINE P(g) == g = [t \in SUBSET S |->
                          IF t = {} THEN 0
                          ELSE Linear(CHOOSE x \in t : TRUE) + g[t \ {CHOOSE x \in t : TRUE}]]
           Q(g) == FSum!Sums(g, linear, SUBSET S)
<1>1. Total(Linear, S) = (CHOOSE g : P(g))[S]
  BY DEF Total, MapThenSumSet, MapThenFoldSet
<1>2. \A t \in SUBSET S : t # {} => linear[CHOOSE x \in t : TRUE] = Linear(CHOOSE x \in t : TRUE)
  BY DEF linear
<1>3. ASSUME NEW g PROVE P(g) <=> Q(g)
  <2> DEFINE x(t) == CHOOSE y \in t : TRUE
             body(t) == IF t = {} THEN 0 ELSE Linear(x(t)) + g[t \ {x(t)}]
             other(t) == IF t = {} THEN 0 ELSE linear[x(t)] + g[t \ {x(t)}]
  <2>1. (P(g) <=> g = [t \in SUBSET S |-> body(t)]) /\ (Q(g) <=> g = [t \in SUBSET S |-> other(t)])
    BY DEF FSum!Sums, FSum!Pick
  <2>2. \A t \in SUBSET S : body(t) = other(t)
    BY <1>2
  <2> HIDE DEF P, Q, body, other
  <2> QED
    BY <2>1, <2>2
<1> HIDE DEF P, Q
<1>4. (CHOOSE g : P(g)) = (CHOOSE g : Q(g))
  BY <1>3
<1> QED
  BY <1>1, <1>4 DEF Q, FSum!SumOf

LEMMA TotalQuadratic ==
  ASSUME NEW S \in SUBSET Pairs(Positions)
  PROVE  Total(Quadratic, S) = FSum!SumOf(quadratic, S)
<1> DEFINE P(g) == g = [t \in SUBSET S |->
                          IF t = {} THEN 0
                          ELSE Quadratic(CHOOSE x \in t : TRUE) + g[t \ {CHOOSE x \in t : TRUE}]]
           Q(g) == FSum!Sums(g, quadratic, SUBSET S)
<1>1. Total(Quadratic, S) = (CHOOSE g : P(g))[S]
  BY DEF Total, MapThenSumSet, MapThenFoldSet
<1>2. \A t \in SUBSET S : t # {} => quadratic[CHOOSE x \in t : TRUE] = Quadratic(CHOOSE x \in t : TRUE)
  BY DEF quadratic
<1>3. ASSUME NEW g PROVE P(g) <=> Q(g)
  <2> DEFINE x(t) == CHOOSE y \in t : TRUE
             body(t) == IF t = {} THEN 0 ELSE Quadratic(x(t)) + g[t \ {x(t)}]
             other(t) == IF t = {} THEN 0 ELSE quadratic[x(t)] + g[t \ {x(t)}]
  <2>1. (P(g) <=> g = [t \in SUBSET S |-> body(t)]) /\ (Q(g) <=> g = [t \in SUBSET S |-> other(t)])
    BY DEF FSum!Sums, FSum!Pick
  <2>2. \A t \in SUBSET S : body(t) = other(t)
    BY <1>2
  <2> HIDE DEF P, Q, body, other
  <2> QED
    BY <2>1, <2>2
<1> HIDE DEF P, Q
<1>4. (CHOOSE g : P(g)) = (CHOOSE g : Q(g))
  BY <1>3
<1> QED
  BY <1>1, <1>4 DEF Q, FSum!SumOf

LEMMA TotalRisk ==
  ASSUME NEW S
  PROVE  Total(LAMBDA p : risk[p], S) = FSum!SumOf(risk, S)
BY DEF Total, MapThenSumSet, MapThenFoldSet, FSum!SumOf, FSum!Sums, FSum!Pick

LEMMA TotalScore ==
  ASSUME NEW S
  PROVE  Total(LAMBDA i : score[i], S) = FSum!SumOf(score, S)
BY DEF Total, MapThenSumSet, MapThenFoldSet, FSum!SumOf, FSum!Sums, FSum!Pick


\* r and c sum the risks, each at most most, and the scores.
Weighed(most, r, c) ==
  /\ Formulated
  /\ most \in Nat /\ \A p \in Pairs(Positions) : risk[p] <= most
  /\ FSum!SumsUp(r, risk, Pairs(Positions))
  /\ FSum!SumsUp(c, score, Positions)

\* The pairs of i with the members of U.
With(i, U) == {IF y < i THEN <<y, i>> ELSE <<i, y>> : y \in U}

\* One candidate more: a pair with each of the others, and their risks.
LEMMA OneMore ==
  ASSUME NEW most, NEW r, NEW c, Weighed(most, r, c),
         NEW S \in SUBSET Positions, NEW i \in Positions \ S
  PROVE  /\ Cardinality(Pairs(S \cup {i})) = Cardinality(Pairs(S)) + Cardinality(S)
         /\ r[Pairs(S)] <= r[Pairs(S \cup {i})]
         /\ r[Pairs(S \cup {i})] <= r[Pairs(S)] + most * Cardinality(S)
<1> USE DEF Weighed
<1> DEFINE A == Pairs(S)
           Q(u) == A \cup With(i, u)
           Fine(u) == /\ Q(u) \in SUBSET Pairs(Positions)
                      /\ Cardinality(Q(u)) = Cardinality(A) + Cardinality(u)
                      /\ r[A] <= r[Q(u)] /\ r[Q(u)] <= r[A] + most * Cardinality(u)
           T == {u \in SUBSET S : Fine(u)}
<1>0. /\ IsFiniteSet(Positions) /\ IsFiniteSet(Pairs(Positions)) /\ IsFiniteSet(S)
      /\ A \in SUBSET Pairs(Positions) /\ Cardinality(A) \in Nat /\ r[A] \in Int
  <2>1. IsFiniteSet(Positions) /\ IsFiniteSet(Pairs(Positions)) /\ A \in SUBSET Pairs(Positions)
    BY PairsFinite DEF Formulated
  <2>2. IsFiniteSet(S) /\ IsFiniteSet(A)
    BY <2>1, FS_Subset
  <2> QED
    BY <2>1, <2>2, FS_CardinalityType DEF FSum!SumsUp
<1>1. {} \in T
  <2>1. Q({}) = A
    BY DEF With
  <2>2. Cardinality({}) = 0
    BY FS_EmptySet
  <2> HIDE DEF A, Q
  <2> QED
    BY <1>0, <2>1, <2>2
<1>2. ASSUME NEW u \in SUBSET S, u \in T, NEW y \in S \ u
      PROVE  u \cup {y} \in T
  <2> DEFINE v == u \cup {y}
             p == IF y < i THEN <<y, i>> ELSE <<i, y>>
  <2>1. v \in SUBSET S /\ y \in v /\ v \ {y} = u
    OBVIOUS
  <2>2. y \in Int /\ i \in Int /\ y # i /\ y \in Positions /\ i \in Positions
    BY DEF Positions, Formulated
  <2>3. p \in Pairs(Positions)
    BY <2>2 DEF Pairs
  <2>4. p \notin A
    BY DEF Pairs
  <2>5. p \notin With(i, u)
    <3> SUFFICES ASSUME NEW z \in u, p = IF z < i THEN <<z, i>> ELSE <<i, z>>
                 PROVE  FALSE
      BY DEF With
    <3>1. z \in Int /\ z # i /\ z # y
      BY DEF Positions, Formulated
    <3> QED
      BY <2>2, <3>1
  <2>6. With(i, v) = With(i, u) \cup {p}
    BY DEF With
  <2> HIDE DEF A, p
  <2>7. Q(v) = Q(u) \cup {p}
    BY <2>6
  <2>8. p \notin Q(u)
    BY <2>4, <2>5
  <2> HIDE DEF v, Q
  <2>9. Cardinality(u) \in Nat /\ Cardinality(v) = Cardinality(u) + 1
    BY <1>0, <2>1, FSum!OneLess, FS_Subset, SameSizes
  <2>10. Fine(u)
    BY <1>2
  <2>11. /\ Q(v) \in SUBSET Pairs(Positions) /\ Q(u) \in SUBSET Pairs(Positions)
         /\ p \in Q(v) /\ Q(v) \ {p} = Q(u)
    BY <2>3, <2>7, <2>8, <2>10
  <2>12. Cardinality(Q(u)) \in Nat /\ Cardinality(Q(v)) = Cardinality(Q(u)) + 1
    <3>1. IsFiniteSet(Q(v))
      BY <1>0, <2>11, FS_Subset
    <3> QED
      BY <2>11, <3>1, FSum!OneLess, SameSizes
  <2>13. r[Q(v)] = risk[p] + r[Q(u)] /\ r[Q(u)] \in Int
    BY <2>11 DEF FSum!SumsUp
  <2>14. risk[p] \in Nat /\ risk[p] <= most
    BY <2>3 DEF Formulated
  <2>15. \A n \in Nat : most * (n + 1) = most * n + most /\ most * n \in Int
    OBVIOUS
  <2>16. most * Cardinality(v) = most * Cardinality(u) + most /\ most * Cardinality(u) \in Int
    BY <2>9, <2>15
  <2>17. r[A] <= r[Q(v)] /\ r[Q(v)] <= r[A] + most * Cardinality(v)
    BY <1>0, <2>10, <2>13, <2>14, <2>16
  <2>18. Cardinality(Q(v)) = Cardinality(A) + Cardinality(v)
    BY <1>0, <2>9, <2>10, <2>12
  <2> QED
    BY <2>1, <2>11, <2>17, <2>18 DEF v
<1> HIDE DEF T
<1>3. S \in T
  BY <1>0, <1>1, <1>2, FSum!SubsetInSteps, SameSizes
<1>4. Q(S) = Pairs(S \cup {i})
  <2>1. \A z \in S \cup {i} : z \in Int
    BY DEF Positions
  <2>2. \A z \in S : z # i
    OBVIOUS
  <2>3. \A x, z \in S \cup {i} : <<x, z>> \in Q(S) <=> x < z
    <3> SUFFICES ASSUME NEW x \in S \cup {i}, NEW z \in S \cup {i}
                 PROVE  <<x, z>> \in Q(S) <=> x < z
      OBVIOUS
    <3>1. <<x, z>> \in A <=> x \in S /\ z \in S /\ x < z
      BY DEF Pairs
    <3>2. <<x, z>> \in With(i, S) <=>
            (z = i /\ x \in S /\ x < i) \/ (x = i /\ z \in S /\ ~ z < i)
      <4>1. \A y \in S : <<x, z>> = (IF y < i THEN <<y, i>> ELSE <<i, y>>)
              <=> IF y < i THEN x = y /\ z = i ELSE x = i /\ z = y
        OBVIOUS
      <4>2. <<x, z>> \in With(i, S) <=> \E y \in S : IF y < i THEN x = y /\ z = i ELSE x = i /\ z = y
        BY <4>1 DEF With
      <4> QED
        BY <4>2
    <3>3. x \in Int /\ z \in Int /\ i \in Int
      BY <2>1
    <3>4. <<x, z>> \in A <=> x # i /\ z # i /\ x < z
      BY <2>2, <3>1
    <3>5. <<x, z>> \in With(i, S) <=> (z = i /\ x < i) \/ (x = i /\ i < z)
      BY <2>2, <3>2, <3>3
    <3>6. <<x, z>> \in Q(S) <=> <<x, z>> \in A \/ <<x, z>> \in With(i, S)
      OBVIOUS
    <3> HIDE DEF A, Q
    <3> QED
      BY <3>3, <3>4, <3>5, <3>6
  <2>4. Q(S) \subseteq (S \cup {i}) \X (S \cup {i})
    BY DEF With, Pairs
  <2> HIDE DEF Q
  <2> QED
    BY <2>3, <2>4 DEF Pairs
<1> QED
  BY <1>3, <1>4 DEF T

\* There are n(n - 1)/2 pairs of n candidates.
LEMMA PairsOf ==
  ASSUME NEW most, NEW r, NEW c, Weighed(most, r, c), NEW S \in SUBSET Positions
  PROVE  2 * Cardinality(Pairs(S)) = Cardinality(S) * (Cardinality(S) - 1)
<1> DEFINE T == {u \in SUBSET S : 2 * Cardinality(Pairs(u)) = Cardinality(u) * (Cardinality(u) - 1)}
<1>0. /\ IsFiniteSet(S)
      /\ \A u \in SUBSET S : Cardinality(u) \in Nat /\ Cardinality(Pairs(u)) \in Nat
  <2>1. /\ IsFiniteSet(Positions) /\ IsFiniteSet(Pairs(Positions))
        /\ \A u \in SUBSET S : u \in SUBSET Positions /\ Pairs(u) \in SUBSET Pairs(Positions)
    BY PairsFinite DEF Weighed, Formulated
  <2> QED
    BY <2>1, FS_Subset, FS_CardinalityType
<1>1. {} \in T
  <2>1. Pairs({}) = {}
    BY DEF Pairs
  <2>2. Cardinality({}) = 0
    BY FS_EmptySet
  <2> QED
    BY <2>1, <2>2
<1>2. ASSUME NEW u \in SUBSET S, u \in T, NEW i \in S \ u
      PROVE  u \cup {i} \in T
  <2>1. Cardinality(Pairs(u \cup {i})) = Cardinality(Pairs(u)) + Cardinality(u)
    BY OneMore
  <2>2. Cardinality(u \cup {i}) = Cardinality(u) + 1
    BY <1>0, FS_AddElement, FS_Subset
  <2>3. 2 * Cardinality(Pairs(u)) = Cardinality(u) * (Cardinality(u) - 1)
    BY <1>2
  <2>4. \A n, m \in Nat : 2 * m = n * (n - 1) => 2 * (m + n) = (n + 1) * ((n + 1) - 1)
    OBVIOUS
  <2> QED
    BY <1>0, <2>1, <2>2, <2>3, <2>4
<1> HIDE DEF T
<1>3. S \in T
  BY <1>0, <1>1, <1>2, FSum!SubsetInSteps, SameSizes
<1> QED
  BY <1>3 DEF T

\* The energy is the objective, up to a constant.
LEMMA EnergyIs ==
  ASSUME NEW most, NEW r, NEW c, Weighed(most, r, c), NEW S \in SUBSET Positions
  PROVE  /\ r[Pairs(S)] \in Int /\ c[S] \in Int /\ Cardinality(S) \in Nat
         /\ Objective(S) = r[Pairs(S)] - c[S] + Penalty * Square(Cardinality(S) - wanted)
         /\ Energy(S) = Objective(S) - Penalty * Square(wanted)
<1> DEFINE n == Cardinality(S)
           m == Cardinality(Pairs(S))
           a == Penalty * (1 - 2 * wanted)
<1>0. /\ IsFiniteSet(Positions) /\ IsFiniteSet(Pairs(Positions)) /\ IsFiniteSet(S)
      /\ Pairs(S) \in SUBSET Pairs(Positions) /\ IsFiniteSet(Pairs(S))
      /\ n \in Nat /\ m \in Nat /\ Penalty \in Nat /\ wanted \in Nat
  <2>1. /\ IsFiniteSet(Positions) /\ IsFiniteSet(Pairs(Positions))
        /\ Pairs(S) \in SUBSET Pairs(Positions)
    BY PairsFinite DEF Weighed, Formulated
  <2>2. wanted \in Nat
    BY DEF Weighed, Formulated
  <2> QED
    BY <2>1, <2>2, FS_Subset, FS_CardinalityType, CommitteeAssumption
<1>1. /\ \A i \in Positions : linear[i] = a - score[i] /\ score[i] \in Int
      /\ \A p \in Pairs(Positions) : quadratic[p] = 2 * Penalty + risk[p] /\ risk[p] \in Int
  BY DEF linear, Linear, quadratic, Quadratic, Weighed, Formulated
<1>2. a \in Int /\ 2 * Penalty \in Int
  BY <1>0
<1> HIDE DEF a
<1>3. /\ \A i \in Positions : linear[i] \in Int
      /\ \A p \in Pairs(Positions) : quadratic[p] \in Int
  BY <1>1, <1>2
<1>4. PICK l : FSum!SumsUp(l, linear, Positions)
  BY <1>0, <1>3, FSum!SumsUpExist, SameSizes
<1>5. PICK q : FSum!SumsUp(q, quadratic, Pairs(Positions))
  BY <1>0, <1>3, FSum!SumsUpExist, SameSizes
<1>6. l[S] = a * n - c[S]
  <2>1. FSum!SumsUp(l, linear, S) /\ FSum!SumsUp(c, score, S)
    BY <1>4, FSum!SumsUpWithin, SameSizes DEF Weighed
  <2>2. FSum!Shifted(linear, score, S, a, -1)
    BY <1>1, <1>2 DEF FSum!Shifted
  <2>3. l[S] = a * n + (-1) * c[S]
    BY <1>0, <1>2, <2>1, <2>2, FSum!SumsUpShifted, SameSizes
  <2>4. c[S] \in Int
    BY DEF Weighed, FSum!SumsUp
  <2> QED
    BY <1>0, <1>2, <2>3, <2>4
<1>7. q[Pairs(S)] = 2 * Penalty * m + r[Pairs(S)]
  <2>1. FSum!SumsUp(q, quadratic, Pairs(S)) /\ FSum!SumsUp(r, risk, Pairs(S))
    BY <1>0, <1>5, FSum!SumsUpWithin, SameSizes DEF Weighed
  <2>2. FSum!Shifted(quadratic, risk, Pairs(S), 2 * Penalty, 1)
    BY <1>0, <1>1, <1>2 DEF FSum!Shifted
  <2>3. q[Pairs(S)] = 2 * Penalty * m + 1 * r[Pairs(S)]
    BY <1>0, <1>2, <2>1, <2>2, FSum!SumsUpShifted, SameSizes
  <2>4. r[Pairs(S)] \in Int
    BY <1>0 DEF Weighed, FSum!SumsUp
  <2> QED
    BY <1>0, <1>2, <2>3, <2>4
<1>8. Total(Linear, S) = l[S] /\ Total(Quadratic, Pairs(S)) = q[Pairs(S)]
  BY <1>0, <1>3, <1>4, <1>5, TotalLinear, TotalQuadratic, FSum!SumIsChosen, SameSizes
<1>9. /\ Total(LAMBDA p : risk[p], Pairs(S)) = r[Pairs(S)]
      /\ Total(LAMBDA i : score[i], S) = c[S]
  <2>1. FSum!SumOf(risk, Pairs(S)) = r[Pairs(S)] /\ FSum!SumOf(score, S) = c[S]
    BY <1>0, <1>1, FSum!SumIsChosen, SameSizes DEF Weighed
  <2> QED
    BY <2>1, TotalRisk, TotalScore
<1>10. r[Pairs(S)] \in Int /\ c[S] \in Int
  BY <1>0 DEF Weighed, FSum!SumsUp
<1>11. Objective(S) = r[Pairs(S)] - c[S] + Penalty * Square(n - wanted)
  BY <1>9 DEF Objective
<1>12. Energy(S) = a * n - c[S] + (2 * Penalty * m + r[Pairs(S)])
  BY <1>6, <1>7, <1>8 DEF Energy
<1>13. a * n + 2 * Penalty * m = Penalty * Square(n - wanted) - Penalty * Square(wanted)
  <2>1. 2 * m = n * (n - 1)
    BY PairsOf
  <2>2. \A P, w, x \in Nat : P * (1 - 2 * w) * x + P * (x * (x - 1)) = P * ((x - w) * (x - w)) - P * (w * w)
    OBVIOUS
  <2>3. 2 * Penalty * m = Penalty * (2 * m)
    BY <1>0
  <2> HIDE DEF n, m
  <2> QED
    BY <1>0, <2>1, <2>2, <2>3 DEF a, Square
<1>14. /\ a * n \in Int /\ 2 * Penalty * m \in Int
       /\ Penalty * Square(n - wanted) \in Int /\ Penalty * Square(wanted) \in Int
  BY <1>0, <1>2 DEF Square
<1> HIDE DEF n, m
<1>15. Energy(S) = Objective(S) - Penalty * Square(wanted)
  BY <1>10, <1>11, <1>12, <1>13, <1>14
<1> QED
  BY <1>0, <1>10, <1>11, <1>15 DEF n


\* The penalty is more than what a candidate can bring or cost.
Outweighed(most) ==
  /\ size <= MaxCandidates /\ MaxCandidates \in Nat
  /\ \A i \in Positions : score[i] < Penalty /\ (MaxCandidates - 1) * most - score[i] < Penalty

\* What a step towards the number wanted saves.
LEMMA StepSaves ==
  ASSUME NEW P \in Nat, NEW d \in Nat, d >= 1
  PROVE  /\ P * Square(d) \in Int /\ P * Square(d - 1) \in Int
         /\ P * Square(d) - P * Square(d - 1) >= P
         /\ Square(0 - d) = Square(d) /\ Square(0 - (d - 1)) = Square(d - 1)
<1>1. d - 1 \in Nat
  OBVIOUS
<1>2. \A x, y \in Nat : x * y \in Nat
  OBVIOUS
<1>3. P * (d - 1) \in Nat
  BY <1>1, <1>2
<1>4. P * (d * d) - P * ((d - 1) * (d - 1)) = 2 * (P * (d - 1)) + P
  OBVIOUS
<1>5. (0 - d) * (0 - d) = d * d /\ (0 - (d - 1)) * (0 - (d - 1)) = (d - 1) * (d - 1)
  OBVIOUS
<1>6. P * (d * d) \in Int /\ P * ((d - 1) * (d - 1)) \in Int
  OBVIOUS
<1> QED
  BY <1>3, <1>4, <1>5, <1>6 DEF Square

\* A set of another size is not the lowest.
LEMMA LowerThere ==
  ASSUME NEW most, NEW r, NEW c, Weighed(most, r, c), Outweighed(most),
         NEW S \in SUBSET Positions, Cardinality(S) # wanted
  PROVE  \E U \in SUBSET Positions : Objective(U) < Objective(S)
<1> DEFINE n == Cardinality(S)
<1>0. /\ IsFiniteSet(Positions) /\ Cardinality(Positions) = size /\ IsFiniteSet(S)
      /\ n \in Nat /\ wanted \in Nat /\ wanted <= size /\ size \in Nat
      /\ Penalty \in Nat /\ most \in Nat
  <2>1. size \in Nat /\ wanted \in 1 .. size /\ most \in Nat
    BY DEF Weighed, Formulated
  <2>2. IsFiniteSet(Positions) /\ Cardinality(Positions) = size
    BY <2>1, AllMembers
  <2> QED
    BY <2>1, <2>2, FS_Subset, FS_CardinalityType, CommitteeAssumption
<1>1. \A i \in Positions : score[i] \in Int
  BY DEF Weighed, Formulated
<1>2. CASE n > wanted
  <2>1. S # {}
    BY <1>0, <1>2, FS_EmptySet
  <2>2. PICK i : i \in S
    BY <2>1
  <2> DEFINE U == S \ {i}
             d == n - wanted
  <2>3. U \in SUBSET Positions /\ i \in Positions \ U /\ U \cup {i} = S /\ i \in Positions
    BY <2>2
  <2>4. Cardinality(U) \in Nat /\ n = Cardinality(U) + 1
    BY <1>0, <2>2, FSum!OneLess, SameSizes
  <2>5. c[S] = score[i] + c[U]
    BY <2>2 DEF Weighed, FSum!SumsUp
  <2> HIDE DEF U
  <2>6. r[Pairs(U)] <= r[Pairs(S)]
    BY <2>3, OneMore
  <2>7. /\ r[Pairs(S)] \in Int /\ c[S] \in Int /\ r[Pairs(U)] \in Int /\ c[U] \in Int
        /\ Objective(S) = r[Pairs(S)] - c[S] + Penalty * Square(n - wanted)
        /\ Objective(U) = r[Pairs(U)] - c[U] + Penalty * Square(Cardinality(U) - wanted)
    BY <2>3, EnergyIs
  <2>8. d \in Nat /\ d >= 1 /\ n - wanted = d /\ Cardinality(U) - wanted = d - 1
    BY <1>0, <1>2, <2>4
  <2> HIDE DEF n, d
  <2>9. /\ Penalty * Square(d) \in Int /\ Penalty * Square(d - 1) \in Int
        /\ Penalty * Square(d) - Penalty * Square(d - 1) >= Penalty
    BY <1>0, <2>8, StepSaves
  <2>10. score[i] \in Int /\ score[i] < Penalty
    BY <1>1, <2>3 DEF Outweighed
  <2>11. /\ Objective(S) = r[Pairs(S)] - c[S] + Penalty * Square(d)
         /\ Objective(U) = r[Pairs(U)] - c[U] + Penalty * Square(d - 1)
    BY <2>7, <2>8
  <2>12. Objective(U) < Objective(S)
    BY <1>0, <2>5, <2>6, <2>7, <2>9, <2>10, <2>11
  <2> QED
    BY <2>3, <2>12
<1>3. CASE n < wanted
  <2>1. S # Positions
    BY <1>0, <1>3
  <2>2. PICK i : i \in Positions \ S
    BY <2>1
  <2> DEFINE U == S \cup {i}
             d == wanted - n
             more == most * n
  <2>3. U \in SUBSET Positions /\ i \in U /\ U \ {i} = S /\ i \in Positions
    BY <2>2
  <2>4. Cardinality(U) = n + 1
    BY <1>0, <2>2, FS_AddElement
  <2>6. r[Pairs(U)] <= r[Pairs(S)] + more
    BY <2>2, OneMore
  <2> HIDE DEF U
  <2>5. c[U] = score[i] + c[S]
    BY <2>3 DEF Weighed, FSum!SumsUp
  <2>7. /\ r[Pairs(S)] \in Int /\ c[S] \in Int /\ r[Pairs(U)] \in Int /\ c[U] \in Int
        /\ Objective(S) = r[Pairs(S)] - c[S] + Penalty * Square(n - wanted)
        /\ Objective(U) = r[Pairs(U)] - c[U] + Penalty * Square(Cardinality(U) - wanted)
    BY <2>3, EnergyIs
  <2>8. d \in Nat /\ d >= 1 /\ n - wanted = 0 - d /\ Cardinality(U) - wanted = 0 - (d - 1)
    BY <1>0, <1>3, <2>4
  <2>13. more \in Int /\ more - score[i] < Penalty
    <3>1. MaxCandidates \in Nat /\ n <= MaxCandidates - 1
      BY <1>0, <1>3 DEF Outweighed
    <3>2. \A x, y, z \in Int : z >= 0 /\ x <= y => z * x <= y * z
      <4>1. \A x, y \in Int : x >= 0 /\ y >= 0 => x * y >= 0
        OBVIOUS
      <4>2. ASSUME NEW x \in Int, NEW y \in Int, NEW z \in Int, z >= 0, x <= y PROVE z * x <= y * z
        <5>1. z * (y - x) >= 0
          BY <4>1, <4>2
        <5>2. z * (y - x) = y * z - z * x
          OBVIOUS
        <5> QED
          BY <5>1, <5>2
      <4> QED
        BY <4>2
    <3>3. most * n <= (MaxCandidates - 1) * most
      BY <1>0, <3>1, <3>2
    <3>4. (MaxCandidates - 1) * most - score[i] < Penalty
      BY <2>3 DEF Outweighed
    <3>5. most * n \in Int /\ (MaxCandidates - 1) * most \in Int /\ score[i] \in Int
      BY <1>0, <1>1, <2>3, <3>1
    <3> HIDE DEF n
    <3> QED
      BY <1>0, <3>3, <3>4, <3>5
  <2> HIDE DEF n, d, more
  <2>9. /\ Penalty * Square(d) \in Int /\ Penalty * Square(d - 1) \in Int
        /\ Penalty * Square(d) - Penalty * Square(d - 1) >= Penalty
        /\ Square(0 - d) = Square(d) /\ Square(0 - (d - 1)) = Square(d - 1)
    BY <1>0, <2>8, StepSaves
  <2>10. score[i] \in Int
    BY <1>1, <2>3
  <2>11. /\ Objective(S) = r[Pairs(S)] - c[S] + Penalty * Square(d)
         /\ Objective(U) = r[Pairs(U)] - c[U] + Penalty * Square(d - 1)
    BY <2>7, <2>8, <2>9
  <2>12. Objective(U) < Objective(S)
    BY <1>0, <2>5, <2>6, <2>7, <2>9, <2>10, <2>11, <2>13
  <2> QED
    BY <2>3, <2>12
<1> QED
  BY <1>0, <1>2, <1>3

\* The lowest energies are those of the best sets of the size wanted.
LEMMA GroundState ==
  ASSUME NEW most, NEW r, NEW c, Weighed(most, r, c), Outweighed(most)
  PROVE  {S \in SUBSET Positions : \A T \in SUBSET Positions : Energy(S) <= Energy(T)}
           = {S \in kSubset(wanted, Positions) : Objective(S) = ExactObjective}
<1> DEFINE best == {Objective(S) : S \in kSubset(wanted, Positions)}
<1>1. \A S \in SUBSET Positions : Objective(S) \in Int
  <2> SUFFICES ASSUME NEW S \in SUBSET Positions PROVE Objective(S) \in Int
    OBVIOUS
  <2>1. /\ r[Pairs(S)] \in Int /\ c[S] \in Int /\ Cardinality(S) \in Nat
        /\ Objective(S) = r[Pairs(S)] - c[S] + Penalty * Square(Cardinality(S) - wanted)
    BY EnergyIs
  <2>2. Penalty * Square(Cardinality(S) - wanted) \in Int
    BY <2>1, CommitteeAssumption DEF Weighed, Formulated, Square
  <2> QED
    BY <2>1, <2>2
<1>2. \A S, T \in SUBSET Positions : Energy(S) <= Energy(T) <=> Objective(S) <= Objective(T)
  <2>1. Penalty * Square(wanted) \in Int
    BY CommitteeAssumption DEF Weighed, Formulated, Square
  <2>2. \A S \in SUBSET Positions : Energy(S) = Objective(S) - Penalty * Square(wanted)
    BY EnergyIs
  <2> QED
    BY <1>1, <2>1, <2>2
<1>3. PICK M \in SUBSET Positions : \A T \in SUBSET Positions : Objective(M) <= Objective(T)
  <2> DEFINE f == [S \in SUBSET Positions |-> Objective(S)]
             D == SUBSET Positions
  <2>1. IsFiniteSet(D) /\ D # {}
    BY PairsFinite, FS_SUBSET DEF Weighed, Formulated
  <2>2. \A S \in D : f[S] = Objective(S) /\ f[S] \in Int
    BY <1>1
  <2> HIDE DEF f, D
  <2>3. \E S \in D : \A T \in D : f[S] <= f[T]
    BY <2>1, <2>2, FSum!LeastExists, SameSizes
  <2> QED
    BY <2>2, <2>3 DEF D
<1>4. \A S \in SUBSET Positions :
        (\A T \in SUBSET Positions : Objective(S) <= Objective(T)) => Cardinality(S) = wanted
  <2> SUFFICES ASSUME NEW S \in SUBSET Positions, Cardinality(S) # wanted
               PROVE  \E T \in SUBSET Positions : ~ Objective(S) <= Objective(T)
    OBVIOUS
  <2>1. PICK T \in SUBSET Positions : Objective(T) < Objective(S)
    BY LowerThere
  <2> QED
    BY <1>1, <2>1
<1>5. M \in kSubset(wanted, Positions) /\ kSubset(wanted, Positions) \subseteq SUBSET Positions
  BY <1>3, <1>4 DEF kSubset
<1>6. Objective(M) \in best /\ \A y \in best : Objective(M) <= y /\ y \in Int
  BY <1>1, <1>3, <1>5
<1>7. ExactObjective = Objective(M)
  <2>1. ExactObjective = CHOOSE x \in best : \A y \in best : x <= y
    BY DEF ExactObjective
  <2> HIDE DEF best
  <2>2. \A x \in best : (\A y \in best : x <= y) => x = Objective(M)
    BY <1>6
  <2> QED
    BY <1>6, <2>1, <2>2
<1>8. ASSUME NEW S \in SUBSET Positions, \A T \in SUBSET Positions : Energy(S) <= Energy(T)
      PROVE  S \in kSubset(wanted, Positions) /\ Objective(S) = ExactObjective
  <2>1. \A T \in SUBSET Positions : Objective(S) <= Objective(T)
    BY <1>2, <1>8
  <2>2. Objective(S) = Objective(M)
    BY <1>1, <1>3, <2>1
  <2> QED
    BY <1>4, <1>7, <2>1, <2>2 DEF kSubset
<1>9. ASSUME NEW S \in kSubset(wanted, Positions), Objective(S) = ExactObjective
      PROVE  S \in SUBSET Positions /\ \A T \in SUBSET Positions : Energy(S) <= Energy(T)
  BY <1>2, <1>3, <1>5, <1>7, <1>9
<1> QED
  BY <1>8, <1>9

\* Of the constants: most bounds the risks, and the penalty is more than the risks of
\* one candidate with all others.  In the code it is 1000, and by the default weights
\* the risk of a pair is 4.5 at most: so it is up to some 220 candidates.
Outweighs(most) ==
  /\ \A x \in Risks : x <= most
  /\ \A s \in Scores : s < Penalty /\ (MaxCandidates - 1) * most - s < Penalty

\* The sets of lowest energy are exactly the best committees of the size wanted, for
\* any number of candidates whose scores and risks the penalty outweighs: a perfect
\* annealer would return what select_committee_exact does.
THEOREM LowestIsExact ==
  (\E most \in Nat : Outweighs(most)) => (CommitteeSpec => []GroundStateIsExact)
<1> SUFFICES ASSUME NEW most \in Nat, Outweighs(most)
             PROVE  CommitteeSpec => []GroundStateIsExact
  OBVIOUS
<1>1. CommitteeInv => GroundStateIsExact
  <2> SUFFICES ASSUME CommitteeInv, pc = "solve" PROVE GroundStateIsExact
    BY DEF GroundStateIsExact
  <2>1. /\ Formulated /\ MaxCandidates \in Nat /\ size <= MaxCandidates
        /\ \A p \in Pairs(Positions) : risk[p] \in Risks
        /\ \A i \in Positions : score[i] \in Scores
    <3>1. /\ size \in 0 .. MaxCandidates /\ wanted \in 1 .. size
          /\ score \in [Positions -> Scores] /\ risk \in [Pairs(Positions) -> Risks]
      BY DEF CommitteeInv, CommitteeTypeOK, Staged
    <3>2. MaxCandidates \in Nat /\ Scores \subseteq Int /\ Risks \subseteq Nat
      BY CommitteeAssumption
    <3>3. score \in [Positions -> Int] /\ risk \in [Pairs(Positions) -> Nat]
      BY <3>1, <3>2
    <3> QED
      BY <3>1, <3>2, <3>3 DEF Formulated
  <2>2. \A p \in Pairs(Positions) : risk[p] <= most
    BY <2>1 DEF Outweighs
  <2>3. Outweighed(most)
    BY <2>1 DEF Outweighs, Outweighed
  <2>4. /\ IsFiniteSet(Positions) /\ IsFiniteSet(Pairs(Positions))
        /\ \A i \in Positions : score[i] \in Int
        /\ \A p \in Pairs(Positions) : risk[p] \in Int
    BY <2>1, PairsFinite DEF Formulated
  <2>5. PICK r : FSum!SumsUp(r, risk, Pairs(Positions))
    BY <2>4, FSum!SumsUpExist, SameSizes
  <2>6. PICK c : FSum!SumsUp(c, score, Positions)
    BY <2>4, FSum!SumsUpExist, SameSizes
  <2>7. Weighed(most, r, c)
    BY <2>1, <2>2, <2>5, <2>6 DEF Weighed
  <2> QED
    BY <2>3, <2>7, GroundState DEF GroundStateIsExact
<1>2. CommitteeInit => CommitteeInv
  BY CommitteeStarts
<1>3. CommitteeInv /\ [CommitteeNext]_committeeVars => CommitteeInv'
  BY CommitteeStep
<1> QED
  BY <1>1, <1>2, <1>3, PTL DEF CommitteeSpec

-----------------------------------------------------------------------------
(* Gossip, among any peers and with any constants. *)

Status == {"none", "ok", "stale", "bad"}

\* A choice among the members of S is a part of S.
LEMMA UpToWithin ==
  ASSUME NEW k, NEW S, NEW T \in UpTo(k, S)
  PROVE  T \subseteq S
  BY DEF UpTo

\* Whoever is chosen to be active is a peer, not left out, with a record.
LEMMA ActiveKnown ==
  ASSUME GossipTypeOK, NEW out, NEW a \in ActiveSets(out)
  PROVE  /\ a \subseteq Peer \ out
         /\ \A p \in a : health[p] # "none"
<1>. DEFINE backups == UpTo(BackupPeers, known \ (out \cup {Self}))
<1>1. PICK f \in Filled(out) :
        a \in IF Cardinality(f) < ActiveMin THEN {f \cup b : b \in backups} ELSE {f}
  BY DEF ActiveSets
<1>2. ASSUME NEW b \in backups
      PROVE  b \subseteq known \ (out \cup {Self})
  BY DEF UpTo
<1>3. f \subseteq (HealthyPeers \ out) \cup (known \ (out \cup {Self}))
  BY UpToWithin DEF Filled
<1>. HIDE DEF backups
<1>4. a \subseteq f \cup (known \ (out \cup {Self}))
  <2>1. CASE a = f
    BY <2>1
  <2>2. CASE \E b \in backups : a = f \cup b
    BY <2>2, <1>2
  <2>. QED
    BY <1>1, <2>1, <2>2
<1>. QED
  BY <1>3, <1>4 DEF GossipTypeOK, HealthyPeers, Member

\* A message sent or not leaves records of the same peers.
LEMMA SentKeeps ==
  ASSUME NEW h \in [Member -> Status], NEW targets, NEW g \in Sent(h, targets)
  PROVE  /\ g \in [Member -> Status]
         /\ \A p \in Member : h[p] # "none" => g[p] # "none"
  BY DEF Sent, Status

LEMMA HeardKeeps ==
  ASSUME GossipTypeOK, NEW m, NEW h \in Heard(m)
  PROVE  /\ h \in [Member -> Status]
         /\ \A p \in Member : health[p] # "none" => h[p] # "none"
  BY DEF Heard, GossipTypeOK, Status

\* Every initial state has the types.
LEMMA GossipTypeInit == ASSUME GossipInit PROVE GossipTypeOK
  BY GossipAssumption DEF GossipInit, GossipTypeOK, Member

\* A step that keeps the lists of peers, and who has a record, keeps the types.
LEMMA GossipTypeStep ==
  ASSUME GossipTypeOK, [GossipNext]_gossipVars
  PROVE  GossipTypeOK'
<1>1. CASE Push
  <2>1. active' \subseteq Peer /\ \A p \in active' : health[p] # "none"
    BY <1>1, ActiveKnown DEF Push, GossipTypeOK
  <2>2. health \in [Member -> Status]
    BY DEF GossipTypeOK, Status
  <2>. QED
    BY <1>1, <2>1, <2>2, SentKeeps DEF Push, GossipTypeOK, Member, Status
<1>2. CASE Prune
  <2>1. active' \subseteq Peer /\ \A p \in active' : health[p] # "none"
    BY <1>2, ActiveKnown DEF Prune, GossipTypeOK
  <2>2. health \in [Member -> Status]
    BY DEF GossipTypeOK, Status
  <2>. QED
    BY <1>2, <2>1, <2>2, SentKeeps DEF Prune, GossipTypeOK, Member, Status
<1>3. CASE Publish
  <2>1. PICK c \in table[VoteKey] + 1 .. MaxClock : table' = [table EXCEPT ![VoteKey] = c]
    BY <1>3 DEF Publish
  <2>2. VoteKey \in Key
    BY DEF Key
  <2>3. c \in 0 .. MaxClock
    BY <2>1, <2>2, GossipAssumption DEF GossipTypeOK
  <2>. QED
    BY <1>3, <2>1, <2>3 DEF Publish, GossipTypeOK
<1>4. ASSUME NEW m \in Peer, Pull(m)
      PROVE  GossipTypeOK'
  <2>1. health \in [Member -> Status]
    BY DEF GossipTypeOK, Status
  <2>. QED
    BY <1>4, <2>1, SentKeeps DEF Pull, GossipTypeOK, Member, Status
<1>5. ASSUME NEW m \in Peer, Answer(m)
      PROVE  GossipTypeOK'
  <2>1. PICK h \in Heard(m) : health' \in Sent(h, {m} \cap known)
    BY <1>5 DEF Answer
  <2>2. h \in [Member -> Status] /\ \A p \in Member : health[p] # "none" => h[p] # "none"
    BY HeardKeeps
  <2>3. health' \in [Member -> Status]
        /\ \A p \in Member : h[p] # "none" => health'[p] # "none"
    BY <2>1, <2>2, SentKeeps
  <2>. QED
    BY <1>5, <2>2, <2>3 DEF Answer, GossipTypeOK, Member, Status
<1>6. ASSUME NEW m \in Peer, TakePrune(m)
      PROVE  GossipTypeOK'
  BY <1>6 DEF TakePrune, GossipTypeOK
<1>7. ASSUME NEW m \in Peer, GrowStale(m)
      PROVE  GossipTypeOK'
  BY <1>7 DEF GrowStale, GossipTypeOK, Member
<1>8. ASSUME NEW m \in Peer, CrashPeer(m) \/ RestartPeer(m)
      PROVE  GossipTypeOK'
  BY <1>8 DEF CrashPeer, RestartPeer, GossipTypeOK
<1>9. ASSUME NEW m \in Peer, NEW values \in Messages, TakeValues(m, values)
      PROVE  GossipTypeOK'
  <2>. DEFINE new == {v \in values : Accepts(v)}
              met == {p \in Member : \E v \in new : v.key = Contact(p)}
  <2>1. values \subseteq Value
    BY DEF Messages
  <2>2. table' \in [Key -> 0 .. MaxClock]
    <3>1. ASSUME NEW k \in Key, \E v \in new : v.key = k
          PROVE  (CHOOSE v \in new : v.key = k).clock \in 0 .. MaxClock
      <4>1. (CHOOSE v \in new : v.key = k) \in Value
        BY <3>1, <2>1
      <4>. QED
        BY <4>1, GossipAssumption DEF Value
    <3>. QED
      BY <1>9, <3>1 DEF TakeValues, GossipTypeOK
  <2>3. PICK h \in Heard(m) : health' = [p \in Member |-> IF p \in met THEN "ok" ELSE h[p]]
    BY <1>9 DEF TakeValues
  <2>4. h \in [Member -> Status] /\ \A p \in Member : health[p] # "none" => h[p] # "none"
    BY HeardKeeps
  <2>5. known' = known \cup met /\ UNCHANGED <<alive, active, pruned>>
    BY <1>9 DEF TakeValues
  <2>6. met \subseteq Member
    OBVIOUS
  <2>. HIDE DEF met
  <2>. QED
    BY <2>2, <2>3, <2>4, <2>5, <2>6 DEF GossipTypeOK, Member, Status
<1>10. ASSUME NEW old \in SUBSET Key, Cleanup(old)
       PROVE  GossipTypeOK'
  BY <1>10, GossipAssumption DEF Cleanup, GossipTypeOK
<1>11. CASE UNCHANGED gossipVars
  BY <1>11 DEF gossipVars, GossipTypeOK
<1>. QED
  BY <1>1, <1>2, <1>3, <1>4, <1>5, <1>6, <1>7, <1>8, <1>9, <1>10, <1>11 DEF GossipNext

\* The node never has an active peer without a health record.
THEOREM GossipTyped == GossipSpec => []GossipTypeOK
<1>1. GossipInit => GossipTypeOK
  BY GossipTypeInit
<1>2. GossipTypeOK /\ [GossipNext]_gossipVars => GossipTypeOK'
  BY GossipTypeStep
<1>. QED
  BY <1>1, <1>2, PTL DEF GossipSpec

\* The peers a step prunes leave the active set with it, and no other step brings
\* a pruned one back.
LEMMA NextPruned ==
  ASSUME GossipTypeOK, PrunedStaysOut, [GossipNext]_gossipVars
  PROVE  PrunedStaysOut'
<1>1. CASE Push
  BY <1>1, ActiveKnown DEF Push, PrunedStaysOut
<1>2. CASE Prune
  <2>1. active' \in ActiveSets(pruned')
    BY <1>2 DEF Prune
  <2>. QED
    BY <2>1, ActiveKnown DEF PrunedStaysOut
<1>3. ASSUME NEW m \in Peer, TakePrune(m)
      PROVE  PrunedStaysOut'
  BY <1>3 DEF TakePrune, PrunedStaysOut
<1>4. CASE UNCHANGED <<active, pruned>>
  BY <1>4 DEF PrunedStaysOut
<1>. QED
  BY <1>1, <1>2, <1>3, <1>4
  DEF GossipNext, Publish, Pull, Answer, GrowStale, CrashPeer, RestartPeer,
      TakeValues, Cleanup, gossipVars

\* However the active set is filled, nobody pruned is in it.
THEOREM PrunedForGood == GossipSpec => []PrunedStaysOut
<1>1. GossipInit => PrunedStaysOut
  BY DEF GossipInit, PrunedStaysOut
<1>2. GossipTypeOK /\ PrunedStaysOut /\ [GossipNext]_gossipVars => PrunedStaysOut'
  BY NextPruned
<1>. QED
  BY <1>1, <1>2, GossipTyped, PTL DEF GossipSpec

\* A step never replaces a value by an older one.
LEMMA NextNewest ==
  ASSUME GossipTypeOK, [GossipNext]_gossipVars, NEW k \in Key, table'[k] < table[k]
  PROVE  table'[k] = 0
<1>1. table \in [Key -> 0 .. MaxClock] /\ MaxClock \in Nat
  BY GossipAssumption DEF GossipTypeOK
<1>2. ASSUME Publish
      PROVE  FALSE
  <2>1. PICK c \in table[VoteKey] + 1 .. MaxClock : table' = [table EXCEPT ![VoteKey] = c]
    BY <1>2 DEF Publish
  <2>2. VoteKey \in Key
    BY DEF Key
  <2>. QED
    BY <1>1, <2>1, <2>2
<1>3. ASSUME NEW m \in Peer, NEW values \in Messages, TakeValues(m, values)
      PROVE  FALSE
  <2>. DEFINE new == {v \in values : Accepts(v)}
  <2>1. table'[k] = IF \E v \in new : v.key = k
                    THEN (CHOOSE v \in new : v.key = k).clock ELSE table[k]
    BY <1>3 DEF TakeValues
  <2>2. ASSUME \E v \in new : v.key = k
        PROVE  table[k] < (CHOOSE v \in new : v.key = k).clock
    BY <2>2 DEF Accepts
  <2>3. CASE \E v \in new : v.key = k
    <3>. DEFINE c == (CHOOSE v \in new : v.key = k).clock
    <3>1. c \in Nat
      BY <2>3, <1>1 DEF Messages, Value
    <3>2. table'[k] = c /\ table[k] < c
      BY <2>1, <2>2, <2>3
    <3>. HIDE DEF c
    <3>. QED
      BY <1>1, <3>1, <3>2
  <2>4. CASE ~ \E v \in new : v.key = k
    BY <1>1, <2>1, <2>4
  <2>. QED
    BY <2>3, <2>4
<1>4. ASSUME NEW old \in SUBSET Key, Cleanup(old)
      PROVE  table'[k] = 0
  BY <1>1, <1>4 DEF Cleanup
<1>5. CASE UNCHANGED table
  BY <1>1, <1>5
<1>. QED
  BY <1>2, <1>3, <1>4, <1>5
  DEF GossipNext, Push, Prune, Pull, Answer, TakePrune, GrowStale,
      CrashPeer, RestartPeer, gossipVars

\* In whatever order messages come, the newest value the node was told stays.
THEOREM NewestStays == GossipSpec => NewestWins
<1>1. GossipTypeOK /\ [GossipNext]_gossipVars =>
        [\A k \in Key : table'[k] < table[k] => table'[k] = 0]_gossipVars
  BY NextNewest
<1>. QED
  BY <1>1, GossipTyped, PTL DEF GossipSpec, NewestWins

-----------------------------------------------------------------------------
(* Messages in batches: types, and how a message can be dropped, for any   *)
(* number of connections.                                                  *)

LEMMA BatchTypeInit == BatchInit => BatchTypeOK
<1> DEFINE empty == <<>>
<1>1. empty \in Seq(Message)
  OBVIOUS
<1> HIDE DEF empty
<1>2. <<empty>> \in Seq(Seq(Message)) /\ Len(<<empty>>) = 1
  BY <1>1
<1>3. 0 \in 0 .. Carried
  BY BatchAssumption
<1>4. BatchInit => /\ lists = <<empty>> /\ batch = 1 /\ handled = {} /\ stale = FALSE
                   /\ sent = [c \in Connection |-> 0] /\ at = [c \in Connection |-> "idle"]
                   /\ object = [c \in Connection |-> 1] /\ index = [c \in Connection |-> 1]
  BY DEF BatchInit, empty
<1>5. BatchInit => Len(lists) = 1 /\ lists \in Seq(Seq(Message)) /\ handled \subseteq Message
  BY <1>2, <1>4
<1>6. BatchInit => /\ sent \in [Connection -> 0 .. Carried] /\ index \in [Connection -> Nat \ {0}]
                   /\ at \in [Connection -> {"idle", "test", "process", "reset"}]
  BY <1>3, <1>4
<1>7. BatchInit => object \in [Connection -> 1 .. 1] /\ batch \in 1 .. 1
  BY <1>4
<1> QED
  BY <1>4, <1>5, <1>6, <1>7 DEF BatchTypeOK

\* A list of messages is longer by one.
LEMMA ListsGrow ==
  ASSUME BatchTypeOK, NEW m \in Message
  PROVE  LET new == [lists EXCEPT ![batch] = Append(@, m)]
         IN  /\ new \in Seq(Seq(Message)) /\ Len(new) = Len(lists)
             /\ new[batch] = Append(lists[batch], m)
             /\ lists[batch] \in Seq(Message)
<1>1. lists \in Seq(Seq(Message)) /\ batch \in 1 .. Len(lists) /\ lists[batch] \in Seq(Message)
  BY DEF BatchTypeOK
<1>2. Append(lists[batch], m) \in Seq(Message)
  BY <1>1
<1> QED
  BY <1>1, <1>2, ExceptSeq

LEMMA BatchTypeStep == BatchTypeOK /\ [BatchNext]_batchVars => BatchTypeOK'
<1> SUFFICES ASSUME BatchTypeOK, [BatchNext]_batchVars PROVE BatchTypeOK'
  OBVIOUS
<1> USE DEF shared
<1>1. CASE UNCHANGED batchVars
  BY <1>1 DEF batchVars, BatchTypeOK
<1>2. CASE Elapse
  BY <1>2 DEF Elapse, BatchTypeOK
<1>3. ASSUME NEW c \in Connection, Receive(c) PROVE BatchTypeOK'
  <2>1. <<c, sent[c] + 1>> \in Message /\ sent' \in [Connection -> 0 .. Carried]
    <3>1. /\ sent[c] \in 0 .. Carried /\ sent[c] < Carried
          /\ sent' = [sent EXCEPT ![c] = sent[c] + 1]
      BY <1>3 DEF Receive, BatchTypeOK
    <3>2. sent[c] + 1 \in 1 .. Carried /\ sent[c] + 1 \in 0 .. Carried
      BY <3>1, BatchAssumption
    <3>3. <<c, sent[c] + 1>> \in Message
      BY <3>2 DEF Message
    <3> QED
      BY <3>1, <3>2, <3>3 DEF BatchTypeOK
  <2>2. lists' \in Seq(Seq(Message)) /\ Len(lists') = Len(lists)
    BY <1>3, <2>1, ListsGrow DEF Receive
  <2> QED
    BY <1>3, <2>1, <2>2 DEF Receive, BatchTypeOK
<1>4. ASSUME NEW c \in Connection, TestReady(c) PROVE BatchTypeOK'
  <2>1. batch \in 1 .. Len(lists) /\ UNCHANGED <<sent, lists, batch, stale, handled>>
    BY <1>4 DEF TestReady, BatchTypeOK
  <2>2. CASE BatchReady
    <3>1. /\ at' = [at EXCEPT ![c] = "process"]
          /\ object' = [object EXCEPT ![c] = batch]
          /\ index' = [index EXCEPT ![c] = 1]
      BY <1>4, <2>2 DEF TestReady
    <3> QED
      BY <2>1, <3>1 DEF BatchTypeOK
  <2>3. CASE ~ BatchReady
    <3>1. at' = [at EXCEPT ![c] = "idle"] /\ UNCHANGED <<object, index>>
      BY <1>4, <2>3 DEF TestReady
    <3> QED
      BY <2>1, <3>1 DEF BatchTypeOK
  <2> QED
    BY <2>2, <2>3
<1>5. ASSUME NEW c \in Connection, HandleNext(c) PROVE BatchTypeOK'
  <2>1. lists[object[c]] \in Seq(Message) /\ index[c] \in Nat \ {0}
    BY DEF BatchTypeOK
  <2>2. lists[object[c]][index[c]] \in Message
    BY <1>5, <2>1 DEF HandleNext
  <2>3. handled' \subseteq Message
    BY <1>5, <2>2 DEF HandleNext, BatchTypeOK
  <2>4. index' \in [Connection -> Nat \ {0}]
    <3>1. index' = [index EXCEPT ![c] = index[c] + 1] /\ index \in [Connection -> Nat \ {0}]
      BY <1>5 DEF HandleNext, BatchTypeOK
    <3>2. index[c] + 1 \in Nat \ {0}
      BY <2>1
    <3> QED
      BY <3>1, <3>2
  <2>5. UNCHANGED <<sent, lists, batch, stale, at, object>>
    BY <1>5 DEF HandleNext
  <2> QED
    BY <2>3, <2>4, <2>5 DEF BatchTypeOK
<1>6. ASSUME NEW c \in Connection, EndOfBatch(c) PROVE BatchTypeOK'
  BY <1>6 DEF EndOfBatch, BatchTypeOK
<1>7. ASSUME NEW c \in Connection, ResetBatch(c) PROVE BatchTypeOK'
  <2>1. <<>> \in Seq(Message)
    OBVIOUS
  <2>2. /\ Append(lists, <<>>) \in Seq(Seq(Message)) /\ Len(Append(lists, <<>>)) = Len(lists) + 1
        /\ Len(lists) \in Nat
    BY <2>1 DEF BatchTypeOK
  <2>3. /\ lists' = Append(lists, <<>>) /\ batch' = Len(lists) + 1 /\ stale' = FALSE
        /\ at' = [at EXCEPT ![c] = "idle"] /\ UNCHANGED <<sent, object, index, handled>>
    BY <1>7 DEF ResetBatch
  <2>4. object' \in [Connection -> 1 .. Len(lists')] /\ batch' \in 1 .. Len(lists')
    <3>1. 1 .. Len(lists) \subseteq 1 .. Len(lists')
      BY <2>2, <2>3
    <3> QED
      BY <2>2, <2>3, <3>1 DEF BatchTypeOK
  <2> QED
    BY <2>2, <2>3, <2>4 DEF BatchTypeOK
<1> QED
  BY <1>1, <1>2, <1>3, <1>4, <1>5, <1>6, <1>7 DEF BatchNext, Working

\* Any number of connections share the batch: no thread goes past the end of the
\* list it iterates over, whatever the others append or replace.
THEOREM BatchTyped == BatchSpec => []BatchTypeOK
BY BatchTypeInit, BatchTypeStep, PTL DEF BatchSpec


\* m was added to the batch by another thread than c, which still has to look whether
\* it is ready.
Unseen(c, m) == m[1] # c /\ at[m[1]] = "test" /\ m[2] = sent[m[1]]

\* A thread on the batch has found it ready.
ReadyFor(c) == at[c] \in {"process", "reset"} /\ object[c] = batch => BatchReady

\* What a thread has passed has been handled.
PassedIsDone(c) ==
  at[c] = "process" =>
    /\ index[c] <= Len(lists[object[c]]) + 1
    /\ \A i \in DOMAIN lists[object[c]] : i < index[c] => Done(lists[object[c]][i])

\* A thread on the batch will come to the position.
Ahead(i) == \E d \in Connection : at[d] = "process" /\ object[d] = batch /\ index[d] <= i

\* What a thread that is about to replace the batch would take away with it.
TakenAway(c) ==
  at[c] = "reset" /\ object[c] = batch =>
    \A i \in DOMAIN lists[batch] :
      Done(lists[batch][i]) \/ Ahead(i) \/ Unseen(c, lists[batch][i])

RaceInv == \A c \in Connection : ReadyFor(c) /\ PassedIsDone(c) /\ TakenAway(c)

\* (A message is a pair.)
LEMMA MessagePair ==
  ASSUME NEW m \in Message
  PROVE  m[1] \in Connection /\ m[2] \in Nat /\ m = <<m[1], m[2]>>
<1>1. Message = Connection \X (1 .. Carried)
  BY DEF Message
<1>2. m[1] \in Connection /\ m[2] \in 1 .. Carried /\ m = <<m[1], m[2]>>
  BY <1>1
<1> QED
  BY <1>2, BatchAssumption

LEMMA RaceInit == BatchInit => RaceInv
  BY DEF BatchInit, RaceInv, ReadyFor, PassedIsDone, TakenAway

\* Each step keeps it: what is on the batch when a thread wants to replace it.
LEMMA RaceStep == BatchTypeOK /\ RaceInv /\ [BatchNext]_batchVars => RaceInv'
<1> SUFFICES ASSUME BatchTypeOK, RaceInv, [BatchNext]_batchVars PROVE RaceInv'
  OBVIOUS
<1>0. \A c \in Connection : ReadyFor(c) /\ PassedIsDone(c) /\ TakenAway(c)
  BY DEF RaceInv
<1>t. /\ lists \in Seq(Seq(Message)) /\ batch \in 1 .. Len(lists)
      /\ \A c \in Connection : /\ object[c] \in 1 .. Len(lists) /\ index[c] \in Nat \ {0}
                               /\ lists[object[c]] \in Seq(Message) /\ sent[c] \in Nat
      /\ lists[batch] \in Seq(Message)
  BY BatchAssumption DEF BatchTypeOK
<1> USE DEF shared
<1>1. CASE UNCHANGED batchVars
  BY <1>0, <1>1 DEF batchVars, RaceInv, ReadyFor, PassedIsDone, TakenAway, BatchReady, Done, Ahead, Unseen
<1>2. CASE Elapse
  BY <1>0, <1>2 DEF Elapse, RaceInv, ReadyFor, PassedIsDone, TakenAway, BatchReady, Done, Ahead, Unseen
<1>3. ASSUME NEW e \in Connection, Receive(e) PROVE RaceInv'
  <2> DEFINE new == <<e, sent[e] + 1>>
  <2>1. new \in Message
    BY <1>t, <1>3, BatchAssumption DEF Receive, Message
  <2>2. /\ lists'[batch] = Append(lists[batch], new) /\ Len(lists') = Len(lists)
        /\ \A k \in DOMAIN lists : k # batch => lists'[k] = lists[k]
    BY <1>t, <1>3, <2>1, ListsGrow DEF Receive
  <2>3. UNCHANGED <<batch, stale, object, index, handled>>
    BY <1>3 DEF Receive
  <2>4. /\ at[e] = "idle" /\ at'[e] = "test" /\ sent'[e] = sent[e] + 1
        /\ \A c \in Connection : c # e => at'[c] = at[c] /\ sent'[c] = sent[c]
    BY <1>3 DEF Receive, BatchTypeOK
  <2>5. /\ Len(lists'[batch]) = Len(lists[batch]) + 1
        /\ lists'[batch][Len(lists[batch]) + 1] = new
        /\ \A i \in DOMAIN lists[batch] : lists'[batch][i] = lists[batch][i]
        /\ DOMAIN lists'[batch] = DOMAIN lists[batch] \cup {Len(lists[batch]) + 1}
        /\ Len(lists[batch]) \in Nat /\ DOMAIN lists[batch] = 1 .. Len(lists[batch])
    <3> HIDE DEF new
    <3> QED
      BY <1>t, <2>1, <2>2
  <2>6. new[1] = e /\ new[2] = sent'[e]
    BY <2>4
  <2> HIDE DEF new
  <2> SUFFICES ASSUME NEW c \in Connection
               PROVE  ReadyFor(c)' /\ PassedIsDone(c)' /\ TakenAway(c)'
    BY DEF RaceInv
  <2>7. ReadyFor(c)'
    <3>1. BatchReady => BatchReady'
      BY <2>3, <2>5, BatchAssumption DEF BatchReady
    <3> QED
      BY <1>0, <2>3, <2>4, <3>1 DEF ReadyFor
  <2>8. PassedIsDone(c)'
    <3> SUFFICES ASSUME at'[c] = "process" PROVE PassedIsDone(c)'
      BY DEF PassedIsDone
    <3>1. c # e /\ at[c] = "process"
      BY <2>4
    <3>2. CASE object[c] = batch
      <4>1. index[c] <= Len(lists[batch]) + 1 /\ \A i \in DOMAIN lists[batch] : i < index[c] => Done(lists[batch][i])
        BY <1>0, <3>1, <3>2 DEF PassedIsDone
      <4>2. index[c] \in Nat
        BY <1>t
      <4>3. index[c] <= Len(lists'[batch]) + 1
        BY <2>5, <4>1, <4>2
      <4>4. ASSUME NEW i \in DOMAIN lists'[batch], i < index[c]
            PROVE  lists'[batch][i] \in handled
        <5>1. i # Len(lists[batch]) + 1 => i \in DOMAIN lists[batch]
          BY <2>5
        <5>2. i \in Nat /\ i < Len(lists[batch]) + 1
          BY <2>5, <4>1, <4>2, <4>4
        <5>3. i \in DOMAIN lists[batch]
          BY <2>5, <5>1, <5>2
        <5> QED
          BY <2>5, <4>1, <4>4, <5>3 DEF Done
      <4> QED
        BY <2>3, <3>2, <4>3, <4>4 DEF PassedIsDone, Done
    <3>3. CASE object[c] # batch
      <4>1. object'[c] = object[c] /\ index'[c] = index[c] /\ handled' = handled
        BY <2>3
      <4>2. lists'[object[c]] = lists[object[c]]
        <5>1. object[c] \in DOMAIN lists
          BY <1>t
        <5> QED
          BY <2>2, <3>3, <5>1
      <4>3. PassedIsDone(c)
        BY <1>0
      <4> QED
        BY <3>1, <4>1, <4>2, <4>3 DEF PassedIsDone, Done
    <3> QED
      BY <3>2, <3>3
  <2>9. TakenAway(c)'
    <3> SUFFICES ASSUME at'[c] = "reset", object[c] = batch, NEW i \in DOMAIN lists'[batch]
                 PROVE  (Done(lists[batch][i]) \/ Ahead(i) \/ Unseen(c, lists[batch][i]))'
      BY <2>3 DEF TakenAway
    <3>1. c # e /\ at[c] = "reset"
      BY <2>4
    <3>2. CASE i \in DOMAIN lists[batch]
      <4> DEFINE m == lists[batch][i]
      <4>1. lists'[batch][i] = m /\ m[1] \in Connection
        <5>1. m \in Message
          BY <1>t, <3>2
        <5>2. lists'[batch][i] = m
          BY <2>5, <3>2
        <5> QED
          BY <5>1, <5>2, MessagePair
      <4>2. Done(m) \/ Ahead(i) \/ Unseen(c, m)
        BY <1>0, <3>1, <3>2 DEF TakenAway
      <4> HIDE DEF m
      <4>3. Ahead(i) => Ahead(i)'
        BY <2>3, <2>4 DEF Ahead
      <4>4. Unseen(c, m) => m[1] # e /\ m[1] # c /\ at'[m[1]] = "test" /\ m[2] = sent'[m[1]]
        BY <2>4, <4>1 DEF Unseen
      <4> QED
        BY <2>3, <4>1, <4>2, <4>3, <4>4 DEF Done, Unseen
    <3>3. CASE i = Len(lists[batch]) + 1
      BY <2>3, <2>4, <2>5, <2>6, <3>1, <3>3 DEF Unseen
    <3> QED
      BY <2>5, <3>2, <3>3
  <2> QED
    BY <2>7, <2>8, <2>9
<1>4. ASSUME NEW e \in Connection, TestReady(e) PROVE RaceInv'
  <2>1. /\ at[e] = "test" /\ UNCHANGED <<sent, lists, batch, stale, handled>>
        /\ \A c \in Connection : c # e => at'[c] = at[c] /\ object'[c] = object[c] /\ index'[c] = index[c]
    BY <1>4 DEF TestReady, BatchTypeOK
  <2>2. IF BatchReady THEN at'[e] = "process" /\ object'[e] = batch /\ index'[e] = 1
        ELSE at'[e] = "idle"
    BY <1>4 DEF TestReady, BatchTypeOK
  <2> SUFFICES ASSUME NEW c \in Connection
               PROVE  ReadyFor(c)' /\ PassedIsDone(c)' /\ TakenAway(c)'
    BY DEF RaceInv
  <2>3. BatchReady' = BatchReady
    BY <2>1 DEF BatchReady
  <2>4. ReadyFor(c)'
    BY <1>0, <2>1, <2>2, <2>3 DEF ReadyFor
  <2>5. PassedIsDone(c)'
    <3>1. CASE c = e
      <4>1. \A i \in DOMAIN lists[batch] : ~ (i < 1)
        BY <1>t
      <4>2. 1 <= Len(lists[batch]) + 1
        BY <1>t
      <4> QED
        BY <2>1, <2>2, <3>1, <4>1, <4>2 DEF PassedIsDone
    <3>2. CASE c # e
      BY <1>0, <2>1, <3>2 DEF PassedIsDone, Done
    <3> QED
      BY <3>1, <3>2
  <2>6. TakenAway(c)'
    <3> SUFFICES ASSUME at'[c] = "reset", object'[c] = batch, NEW i \in DOMAIN lists[batch]
                 PROVE  Done(lists[batch][i])' \/ Ahead(i)' \/ Unseen(c, lists[batch][i])'
      BY <2>1 DEF TakenAway
    <3>1. c # e /\ at[c] = "reset" /\ object[c] = batch
      BY <2>1, <2>2
    <3>2. at'[e] = "process" /\ object'[e] = batch /\ index'[e] = 1
      BY <1>0, <2>2, <3>1 DEF ReadyFor
    <3>3. 1 <= i
      BY <1>t
    <3>4. Ahead(i)'
      BY <2>1, <3>2, <3>3 DEF Ahead
    <3> QED
      BY <3>4
  <2> QED
    BY <2>4, <2>5, <2>6
<1>5. ASSUME NEW e \in Connection, HandleNext(e) PROVE RaceInv'
  <2> DEFINE h == lists[object[e]][index[e]]
  <2>1. /\ at[e] = "process" /\ index[e] <= Len(lists[object[e]]) /\ handled' = handled \cup {h}
        /\ index'[e] = index[e] + 1 /\ \A c \in Connection : c # e => index'[c] = index[c]
        /\ UNCHANGED <<sent, lists, batch, stale, at, object>>
    BY <1>5 DEF HandleNext, BatchTypeOK
  <2>2. h = lists[object[e]][index[e]]
    OBVIOUS
  <2> HIDE DEF h
  <2>3. \A m : Done(m) => Done(m)'
    BY <2>1 DEF Done
  <2> SUFFICES ASSUME NEW c \in Connection
               PROVE  ReadyFor(c)' /\ PassedIsDone(c)' /\ TakenAway(c)'
    BY DEF RaceInv
  <2>5. ReadyFor(c)'
    BY <1>0, <2>1 DEF ReadyFor, BatchReady
  <2>6. PassedIsDone(c)'
    <3> SUFFICES ASSUME at[c] = "process" PROVE PassedIsDone(c)'
      BY <2>1 DEF PassedIsDone
    <3>1. /\ index[c] <= Len(lists[object[c]]) + 1
          /\ \A i \in DOMAIN lists[object[c]] : i < index[c] => Done(lists[object[c]][i])
      BY <1>0 DEF PassedIsDone
    <3>2. CASE c = e
      <4>1. \A i \in DOMAIN lists[object[e]] : i < index[e] + 1 => i < index[e] \/ i = index[e]
        BY <1>t
      <4>2. index[e] + 1 <= Len(lists[object[e]]) + 1
        BY <1>t, <2>1
      <4>3. \A i \in DOMAIN lists[object[e]] : i < index[e] + 1 => Done(lists[object[e]][i])'
        <5> TAKE i \in DOMAIN lists[object[e]]
        <5> HAVE i < index[e] + 1
        <5>1. CASE i < index[e]
          <6>1. Done(lists[object[e]][i])
            BY <3>1, <3>2, <5>1
          <6> QED
            BY <2>1, <6>1 DEF Done
        <5>2. CASE i = index[e]
          BY <2>1, <2>2, <5>2 DEF Done
        <5> QED
          BY <4>1, <5>1, <5>2
      <4> QED
        BY <2>1, <3>2, <4>2, <4>3 DEF PassedIsDone
    <3>3. CASE c # e
      BY <2>1, <3>1, <3>3 DEF PassedIsDone, Done
    <3> QED
      BY <3>2, <3>3
  <2>7. TakenAway(c)'
    <3> SUFFICES ASSUME at[c] = "reset", object[c] = batch, NEW i \in DOMAIN lists[batch]
                 PROVE  Done(lists[batch][i])' \/ Ahead(i)' \/ Unseen(c, lists[batch][i])'
      BY <2>1 DEF TakenAway
    <3>1. Done(lists[batch][i]) \/ Ahead(i) \/ Unseen(c, lists[batch][i])
      BY <1>0 DEF TakenAway
    <3>2. Done(lists[batch][i]) => Done(lists[batch][i])'
      BY <2>1 DEF Done
    <3>3. Unseen(c, lists[batch][i]) => Unseen(c, lists[batch][i])'
      BY <2>1 DEF Unseen
    <3>4. ASSUME Ahead(i) PROVE Ahead(i)' \/ Done(lists[batch][i])'
      <4>1. PICK d \in Connection : at[d] = "process" /\ object[d] = batch /\ index[d] <= i
        BY <3>4 DEF Ahead
      <4>2. CASE d # e
        BY <2>1, <4>1, <4>2 DEF Ahead
      <4>3. CASE d = e /\ index[e] = i
        BY <2>1, <2>2, <4>1, <4>3 DEF Done
      <4>4. CASE d = e /\ index[e] # i
        <5>1. index[e] + 1 <= i
          BY <1>t, <4>1, <4>4
        <5> QED
          BY <2>1, <4>1, <4>4, <5>1 DEF Ahead
      <4> QED
        BY <4>2, <4>3, <4>4
    <3> QED
      BY <3>1, <3>2, <3>3, <3>4
  <2> QED
    BY <2>5, <2>6, <2>7
<1>6. ASSUME NEW e \in Connection, EndOfBatch(e) PROVE RaceInv'
  <2>1. /\ at[e] = "process" /\ index[e] > Len(lists[object[e]]) /\ at'[e] = "reset"
        /\ \A c \in Connection : c # e => at'[c] = at[c]
        /\ UNCHANGED <<sent, lists, batch, stale, object, index, handled>>
    BY <1>6 DEF EndOfBatch, BatchTypeOK
  <2> SUFFICES ASSUME NEW c \in Connection
               PROVE  ReadyFor(c)' /\ PassedIsDone(c)' /\ TakenAway(c)'
    BY DEF RaceInv
  <2>2. ReadyFor(c)'
    BY <1>0, <2>1 DEF ReadyFor, BatchReady
  <2>3. PassedIsDone(c)'
    BY <1>0, <2>1 DEF PassedIsDone, Done
  <2>4. TakenAway(c)'
    <3> SUFFICES ASSUME at'[c] = "reset", object[c] = batch, NEW i \in DOMAIN lists[batch]
                 PROVE  Done(lists[batch][i])' \/ Ahead(i)' \/ Unseen(c, lists[batch][i])'
      BY <2>1 DEF TakenAway
    <3>1. CASE c = e
      <4>1. i < index[e]
        BY <1>t, <2>1, <3>1
      <4>2. Done(lists[batch][i])
        BY <1>0, <2>1, <3>1, <4>1 DEF PassedIsDone
      <4> QED
        BY <2>1, <4>2 DEF Done
    <3>2. CASE c # e
      <4>1. Done(lists[batch][i]) \/ Ahead(i) \/ Unseen(c, lists[batch][i])
        BY <1>0, <2>1, <3>2 DEF TakenAway
      <4>2. Done(lists[batch][i]) => Done(lists[batch][i])'
        BY <2>1 DEF Done
      <4>3. lists[batch][i][1] \in Connection
        BY <1>t DEF Message
      <4>4. Unseen(c, lists[batch][i]) => Unseen(c, lists[batch][i])'
        BY <2>1, <4>3 DEF Unseen
      <4>5. ASSUME Ahead(i) PROVE Ahead(i)'
        <5>1. PICK d \in Connection : at[d] = "process" /\ object[d] = batch /\ index[d] <= i
          BY <4>5 DEF Ahead
        <5>2. d # e
          BY <1>t, <2>1, <5>1
        <5> QED
          BY <2>1, <5>1, <5>2 DEF Ahead
      <4> QED
        BY <4>1, <4>2, <4>4, <4>5
    <3> QED
      BY <3>1, <3>2
  <2> QED
    BY <2>2, <2>3, <2>4
<1>7. ASSUME NEW e \in Connection, ResetBatch(e) PROVE RaceInv'
  <2>1. /\ batch' = Len(lists) + 1 /\ at'[e] = "idle" /\ \A c \in Connection : c # e => at'[c] = at[c]
        /\ UNCHANGED <<sent, object, index, handled>>
    BY <1>7 DEF ResetBatch, BatchTypeOK
  <2>2. \A k \in 1 .. Len(lists) : lists'[k] = lists[k]
    <3> DEFINE empty == <<>>
    <3>1. lists' = Append(lists, empty) /\ empty \in Seq(Message)
      BY <1>7 DEF ResetBatch
    <3> HIDE DEF empty
    <3> QED
      BY <1>t, <3>1
  <2>3. \A c \in Connection : object'[c] # batch' /\ lists'[object[c]] = lists[object[c]]
    BY <1>t, <2>1, <2>2
  <2> QED
    BY <1>0, <2>1, <2>3 DEF RaceInv, ReadyFor, PassedIsDone, TakenAway, Done
<1> QED
  BY <1>1, <1>2, <1>3, <1>4, <1>5, <1>6, <1>7 DEF BatchNext, Working

\* Only the replacement of the batch can leave a message to nobody.
LEMMA LossByReset ==
  ASSUME BatchTypeOK, RaceInv, [BatchNext]_batchVars, NEW m \in Message, ~ Lost(m), Lost(m)'
  PROVE  \E c \in Connection : Drops(c, m)
<1>t. /\ lists \in Seq(Seq(Message)) /\ batch \in 1 .. Len(lists)
      /\ \A c \in Connection : /\ object[c] \in 1 .. Len(lists) /\ index[c] \in Nat \ {0}
                               /\ lists[object[c]] \in Seq(Message) /\ sent[c] \in Nat
      /\ lists[batch] \in Seq(Message)
      /\ m[1] \in Connection /\ m[2] \in Nat /\ m = <<m[1], m[2]>>
  <2>1. m[1] \in Connection /\ m[2] \in Nat /\ m = <<m[1], m[2]>>
    BY MessagePair
  <2>2. /\ lists \in Seq(Seq(Message)) /\ batch \in 1 .. Len(lists)
        /\ object \in [Connection -> 1 .. Len(lists)] /\ index \in [Connection -> Nat \ {0}]
        /\ sent \in [Connection -> 0 .. Carried]
    BY DEF BatchTypeOK
  <2>3. lists[batch] \in Seq(Message)
    BY <2>2
  <2>4. \A c \in Connection : sent[c] \in Nat
    BY <2>2, BatchAssumption
  <2>5. \A c \in Connection : object[c] \in 1 .. Len(lists) /\ lists[object[c]] \in Seq(Message)
    BY <2>2
  <2> QED
    BY <2>1, <2>2, <2>3, <2>4, <2>5
<1>0. Received(m)' /\ ~ Done(m)' /\ ~ Pending(m)' /\ (Received(m) => Done(m) \/ Pending(m))
  BY DEF Lost
<1> USE DEF shared
<1>1. CASE UNCHANGED batchVars
  BY <1>0, <1>1 DEF batchVars, Received, Done, Pending
<1>2. CASE Elapse
  BY <1>0, <1>2 DEF Elapse, Received, Done, Pending
<1>3. ASSUME NEW e \in Connection, Receive(e) PROVE FALSE
  <2> DEFINE new == <<e, sent[e] + 1>>
  <2>1. new \in Message
    BY <1>t, <1>3, BatchAssumption DEF Receive, Message
  <2>2. /\ lists'[batch] = Append(lists[batch], new)
        /\ \A k \in DOMAIN lists : k # batch => lists'[k] = lists[k]
    BY <1>t, <1>3, <2>1, ListsGrow DEF Receive
  <2>3. UNCHANGED <<batch, stale, object, index, handled>>
    BY <1>3 DEF Receive
  <2>4. /\ at[e] = "idle" /\ sent'[e] = sent[e] + 1
        /\ \A c \in Connection : c # e => at'[c] = at[c] /\ sent'[c] = sent[c]
    BY <1>3 DEF Receive, BatchTypeOK
  <2>5. Received(m) \/ m = new
    <3>1. m[2] <= sent'[m[1]]
      BY <1>0 DEF Received
    <3>2. CASE m[1] = e
      <4>1. m[2] <= sent[e] + 1
        BY <2>4, <3>1, <3>2
      <4>2. sent[e] \in Nat /\ m[2] \in Nat
        BY <1>t
      <4>3. m[2] <= sent[e] \/ m[2] = sent[e] + 1
        BY <4>1, <4>2
      <4> QED
        BY <1>t, <3>2, <4>3 DEF Received
    <3>3. CASE m[1] # e
      BY <1>t, <2>4, <3>1, <3>3 DEF Received
    <3> QED
      BY <3>2, <3>3
  <2> HIDE DEF new
  <2>6. /\ Len(lists'[batch]) = Len(lists[batch]) + 1 /\ Len(lists[batch]) \in Nat
        /\ lists'[batch][Len(lists[batch]) + 1] = new
        /\ \A i \in DOMAIN lists[batch] : lists'[batch][i] = lists[batch][i]
        /\ DOMAIN lists'[batch] = DOMAIN lists[batch] \cup {Len(lists[batch]) + 1}
        /\ DOMAIN lists[batch] = 1 .. Len(lists[batch])
    BY <1>t, <2>1, <2>2
  <2>7. m # new
    BY <1>0, <2>3, <2>6 DEF Pending
  <2>8. CASE Done(m)
    BY <1>0, <2>3, <2>8 DEF Done
  <2>9. CASE \E i \in DOMAIN lists[batch] : lists[batch][i] = m
    BY <1>0, <2>3, <2>6, <2>9 DEF Pending
  <2>10. CASE \E c \in Connection : /\ at[c] = "process"
                                    /\ \E i \in index[c] .. Len(lists[object[c]]) : lists[object[c]][i] = m
    <3>0. PICK c \in Connection : /\ at[c] = "process"
                                 /\ \E i \in index[c] .. Len(lists[object[c]]) : lists[object[c]][i] = m
      BY <2>10
    <3>1. PICK i \in index[c] .. Len(lists[object[c]]) : at[c] = "process" /\ lists[object[c]][i] = m
      BY <3>0
    <3>2. object[c] # batch
      <4>1. i \in DOMAIN lists[object[c]]
        <5> DEFINE n == Len(lists[object[c]])
        <5>1. index[c] \in Nat \ {0} /\ n \in Nat /\ DOMAIN lists[object[c]] = 1 .. n
          BY <1>t
        <5>2. i \in index[c] .. n
          BY <3>1
        <5> HIDE DEF n
        <5>3. i \in 1 .. n
          BY <5>1, <5>2
        <5> QED
          BY <5>1, <5>3
      <4> QED
        BY <1>0, <2>3, <2>6, <3>1, <4>1 DEF Pending
    <3>3. lists'[object[c]] = lists[object[c]] /\ c # e
      <4>1. object[c] \in DOMAIN lists
        BY <1>t
      <4>2. c # e
        BY <2>4, <3>0
      <4> QED
        BY <2>2, <3>2, <4>1, <4>2
    <3> QED
      BY <1>0, <2>3, <2>4, <3>1, <3>3 DEF Pending
  <2> QED
    BY <1>0, <2>5, <2>7, <2>8, <2>9, <2>10 DEF Pending
<1>4. ASSUME NEW e \in Connection, TestReady(e) PROVE FALSE
  <2>1. /\ at[e] = "test" /\ UNCHANGED <<sent, lists, batch, stale, handled>>
        /\ \A c \in Connection : c # e => at'[c] = at[c] /\ object'[c] = object[c] /\ index'[c] = index[c]
    BY <1>4 DEF TestReady, BatchTypeOK
  <2>2. Pending(m) => Pending(m)'
    <3>1. \A c \in Connection : at[c] = "process" => c # e
      BY <2>1
    <3> QED
      BY <2>1, <3>1 DEF Pending
  <2> QED
    BY <1>0, <2>1, <2>2 DEF Received, Done
<1>5. ASSUME NEW e \in Connection, HandleNext(e) PROVE FALSE
  <2>1. /\ at[e] = "process" /\ handled' = handled \cup {lists[object[e]][index[e]]}
        /\ index'[e] = index[e] + 1 /\ \A c \in Connection : c # e => index'[c] = index[c]
        /\ UNCHANGED <<sent, lists, batch, stale, at, object>>
    BY <1>5 DEF HandleNext, BatchTypeOK
  <2>2. Done(m) \/ Pending(m)
    BY <1>0, <2>1 DEF Received
  <2>3. ~ Done(m) /\ m # lists[object[e]][index[e]]
    BY <1>0, <2>1 DEF Done
  <2>4. CASE \E i \in DOMAIN lists[batch] : lists[batch][i] = m
    BY <1>0, <2>1, <2>4 DEF Pending
  <2>5. CASE \E c \in Connection : /\ at[c] = "process"
                                   /\ \E i \in index[c] .. Len(lists[object[c]]) : lists[object[c]][i] = m
    <3>0. PICK c \in Connection : /\ at[c] = "process"
                                 /\ \E i \in index[c] .. Len(lists[object[c]]) : lists[object[c]][i] = m
      BY <2>5
    <3>1. PICK i \in index[c] .. Len(lists[object[c]]) : at[c] = "process" /\ lists[object[c]][i] = m
      BY <3>0
    <3>2. i \in index'[c] .. Len(lists[object[c]])
      <4>1. CASE c = e
        <5>1. i # index[e]
          BY <2>3, <3>1, <4>1
        <5> QED
          BY <1>t, <2>1, <3>1, <4>1, <5>1
      <4>2. CASE c # e
        BY <2>1, <3>1, <4>2
      <4> QED
        BY <4>1, <4>2
    <3> QED
      BY <1>0, <2>1, <3>1, <3>2 DEF Pending
  <2> QED
    BY <2>2, <2>3, <2>4, <2>5 DEF Pending
<1>6. ASSUME NEW e \in Connection, EndOfBatch(e) PROVE FALSE
  <2>1. /\ at[e] = "process" /\ index[e] > Len(lists[object[e]])
        /\ \A c \in Connection : c # e => at'[c] = at[c]
        /\ UNCHANGED <<sent, lists, batch, stale, object, index, handled>>
    BY <1>6 DEF EndOfBatch, BatchTypeOK
  <2>2. Pending(m) => Pending(m)'
    <3>1. \A i \in index[e] .. Len(lists[object[e]]) : FALSE
      BY <1>t, <2>1
    <3> QED
      BY <2>1, <3>1 DEF Pending
  <2> QED
    BY <1>0, <2>1, <2>2 DEF Received, Done
<1>7. ASSUME NEW e \in Connection, ResetBatch(e) PROVE Drops(e, m)
  <2>1. /\ at[e] = "reset" /\ at'[e] = "idle" /\ \A c \in Connection : c # e => at'[c] = at[c]
        /\ UNCHANGED <<sent, object, index, handled>>
    BY <1>7 DEF ResetBatch, BatchTypeOK
  <2>2. \A k \in 1 .. Len(lists) : lists'[k] = lists[k]
    <3> DEFINE empty == <<>>
    <3>1. lists' = Append(lists, empty) /\ empty \in Seq(Message)
      BY <1>7 DEF ResetBatch
    <3> HIDE DEF empty
    <3> QED
      BY <1>t, <3>1
  <2>3. \A c \in Connection : at[c] = "process" => at'[c] = "process" /\ lists'[object[c]] = lists[object[c]]
    BY <1>t, <2>1, <2>2
  <2>4. ~ Done(m) /\ (Done(m) \/ Pending(m))
    BY <1>0, <2>1 DEF Received, Done
  <2>5. \A c \in Connection : at[c] = "process" =>
          \A i \in index[c] .. Len(lists[object[c]]) : lists[object[c]][i] # m
    BY <1>0, <2>1, <2>3 DEF Pending
  <2>6. PICK i \in DOMAIN lists[batch] : lists[batch][i] = m
    BY <2>4, <2>5 DEF Pending
  <2>7. ~ Ahead(i)
    <3> SUFFICES ASSUME NEW d \in Connection, at[d] = "process", object[d] = batch, index[d] <= i
                 PROVE  FALSE
      BY DEF Ahead
    <3>1. i \in index[d] .. Len(lists[object[d]])
      BY <1>t, <2>6
    <3> QED
      BY <2>5, <2>6, <3>1
  <2>8. object[e] = batch => Unseen(e, m)
    BY <2>1, <2>4, <2>6, <2>7 DEF RaceInv, TakenAway
  <2> QED
    BY <2>1, <2>8 DEF Drops, Unseen
<1> QED
  BY <1>1, <1>2, <1>3, <1>4, <1>5, <1>6, <1>7 DEF BatchNext, Working

\* However many connections share the batch and however their threads interleave, a
\* message is dropped only by a thread that replaces a list it did not work through,
\* or one that a message had reached since it was at its end: a thread alone drops
\* nothing, wherever the batches end.
THEOREM RacesDropOnly == BatchSpec => DroppedByRace
<1>1. BatchInit => RaceInv
  BY RaceInit
<1>2. BatchTypeOK /\ RaceInv /\ [BatchNext]_batchVars => RaceInv'
  BY RaceStep
<1>3. BatchTypeOK /\ RaceInv /\ [BatchNext]_batchVars =>
        [\A m \in Message : ~ Lost(m) /\ Lost(m)' => \E c \in Connection : Drops(c, m)]_batchVars
  BY LossByReset
<1> QED
  BY <1>1, <1>2, <1>3, BatchTyped, PTL DEF BatchSpec, DroppedByRace
=============================================================================
