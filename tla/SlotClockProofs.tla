--------------------------- MODULE SlotClockProofs --------------------------
(***************************************************************************)
(* For every slot and epoch length and any number of updating threads: the *)
(* types are right, epochs are skipped by concurrent updates only and      *)
(* nothing adds up, a node proposes once in a slot, and the tables are     *)
(* there whenever no update is under way.                                  *)
(***************************************************************************)
EXTENDS SlotClock, FiniteSetTheorems, SequenceTheorems, TLAPS

\* Rounding down loses less than one divisor.
LEMMA DivBounds ==
  ASSUME NEW a \in Int, NEW d \in Nat \ {0}
  PROVE  /\ a \div d \in Int
         /\ (a \div d) * d <= a
         /\ a < (a \div d) * d + d
  OBVIOUS

\* An epoch that is over by its slots has less than one slot left of its time.
LEMMA OverMeansAlmostOver ==
  ASSUME now \in Nat, start \in Int, TransitionNeeded
  PROVE  now - start > EpochTicks - SlotTicks
  <1> DEFINE q == (now - start) \div SlotTicks
             p == SlotsPerEpoch
  <1>1. q \in Int /\ q * SlotTicks <= now - start
    BY DivBounds, ClockAssumption
  <1>2. p \in Int /\ EpochTicks < p * SlotTicks + SlotTicks
    BY DivBounds, ClockAssumption DEF SlotsPerEpoch
  <1>3. q >= p
    BY DEF TransitionNeeded, CurrentSlot
  <1> HIDE DEF q, p
  <1>4. p * SlotTicks <= q * SlotTicks
    BY <1>1, <1>2, <1>3, ClockAssumption
  <1> QED
    BY <1>1, <1>2, <1>4, ClockAssumption

-----------------------------------------------------------------------------
(* Types                                                                   *)

\* The shape of what the threads write: tables, labels, slot numbers.
THEOREM TypeCorrect == Spec => []TypeOK
<1>0. Empty \in Table /\ Unreadable \in Table /\ Schedules \subseteq Table
  BY ClockAssumption DEF Table, Empty, Unreadable
<1> HIDE DEF Table, Empty, Unreadable
<1>1. Init => TypeOK
  <2> SUFFICES ASSUME Init PROVE TypeOK
    OBVIOUS
  <2>1. proposals \in Seq([clock : Clock, start : Int, slot : Int])
    BY DEF Init
  <2>2. /\ now = 0 /\ epoch = 0 /\ start = 0 /\ slot = 0 /\ produced = -1 /\ wake = 0
        /\ clock \in Clock /\ current = Empty /\ next = Empty
        /\ snapshot = "idle" /\ updated = FALSE /\ producer = "slot"
    BY DEF Init, Clock
  <2>3. update \in [Updater -> {"idle", "epoch", "start", "promote", "clear", "check_next",
                               "generate_next", "check_current", "generate_current"}]
    BY DEF Init
  <2> HIDE DEF Clock, Init
  <2>4. /\ now \in Nat /\ epoch \in Nat /\ start \in Int
        /\ slot \in Int /\ produced \in Int /\ wake \in Int
    BY <2>2
  <2> QED
    BY <1>0, <2>1, <2>2, <2>3, <2>4 DEF TypeOK
<1>2. ASSUME TypeOK, [Next]_vars
      PROVE  TypeOK'
  <2> USE <1>2
  <2>1. CASE Tick
    BY <2>1 DEF TypeOK, Tick, schedule, slotThread
  <2>2. ASSUME NEW u \in Updater, UpdateStep(u)
        PROVE  TypeOK'
    <3>1. CASE CheckTransition(u)
      BY <3>1 DEF TypeOK, CheckTransition, AtUpdate, GotoUpdate, updating, schedule, slotThread
    <3>2. CASE NextEpoch(u)
      BY <3>2 DEF TypeOK, NextEpoch, AtUpdate, GotoUpdate, updating, slotThread
    <3>3. CASE AdvanceStart(u)
      BY <3>3, ClockAssumption DEF TypeOK, AdvanceStart, AtUpdate, GotoUpdate, updating, slotThread
    <3>4. CASE Promote(u)
      BY <3>4 DEF TypeOK, Promote, AtUpdate, GotoUpdate, updating, slotThread
    <3>5. CASE ClearNext(u)
      BY <1>0, <3>5 DEF TypeOK, ClearNext, AtUpdate, GotoUpdate, updating, slotThread
    <3>6. CASE CheckNext(u)
      BY <3>6 DEF TypeOK, CheckNext, AtUpdate, GotoUpdate, updating, schedule, slotThread
    <3>7. CASE GenerateNext(u)
      BY <1>0, <3>7 DEF TypeOK, GenerateNext, AtUpdate, GotoUpdate, updating, slotThread
    <3>8. CASE CheckCurrent(u)
      BY <3>8 DEF TypeOK, CheckCurrent, AtUpdate, GotoUpdate, updating, schedule, slotThread
    <3>9. CASE GenerateCurrent(u)
      BY <1>0, <3>9 DEF TypeOK, GenerateCurrent, AtUpdate, GotoUpdate, updating, slotThread
    <3> QED
      BY <2>2, <3>1, <3>2, <3>3, <3>4, <3>5, <3>6, <3>7, <3>8, <3>9 DEF UpdateStep
  <2>3. CASE ProducerStep
    <3>1. CurrentSlot \in Int
      BY DivBounds, ClockAssumption DEF CurrentSlot, TypeOK
    <3>2. CASE ReadSlot
      BY <3>1, <3>2 DEF TypeOK, ReadSlot, producing, schedule
    <3>3. CASE ReadLeader
      BY <3>3 DEF TypeOK, ReadLeader, producing, schedule
    <3>4. CASE ProposeBlock
      <4>1. proposals' \in Seq([clock : Clock, start : Int, slot : Int])
        <5> DEFINE P == [clock : Clock, start : Int, slot : Int]
                   p == [clock |-> clock, start |-> start, slot |-> CurrentSlot]
        <5>1. p \in P /\ proposals \in Seq(P)
          BY <3>1 DEF TypeOK
        <5>2. proposals' = Append(proposals, p) \/ proposals' = proposals
          BY <3>4 DEF ProposeBlock
        <5> HIDE DEF P, p
        <5>3. proposals' \in Seq(P)
          BY <5>1, <5>2, AppendProperties
        <5> QED
          BY <5>3 DEF P
      <4> QED
        BY <3>4, <4>1 DEF TypeOK, ProposeBlock, producing, schedule
    <3>5. CASE MarkProduced
      BY <3>5 DEF TypeOK, MarkProduced, producing, schedule
    <3>6. CASE WaitForNextSlot
      <4>1. (now - start) % SlotTicks \in 0 .. SlotTicks - 1
        BY ClockAssumption DEF TypeOK
      <4>2. WaitTicks \in Nat
        BY <4>1, ClockAssumption DEF WaitTicks
      <4> QED
        BY <3>6, <4>2 DEF TypeOK, WaitForNextSlot, producing, schedule
    <3>7. CASE WakeUp
      BY <3>7 DEF TypeOK, WakeUp, producing, schedule
    <3> QED
      BY <2>3, <3>2, <3>3, <3>4, <3>5, <3>6, <3>7 DEF ProducerStep
  <2>4. CASE SnapshotStep
    BY <1>0, <2>4, ClockAssumption
    DEF SnapshotStep, SnapshotEpoch, SnapshotTable, SnapshotStart, applying, slotThread, TypeOK, Clock
  <2>5. CASE UNCHANGED vars
    BY <2>5 DEF TypeOK, vars, schedule, slotThread
  <2> QED
    BY <1>2, <2>1, <2>2, <2>3, <2>4, <2>5 DEF Next
<1> QED
  BY <1>1, <1>2, PTL DEF Spec

-----------------------------------------------------------------------------
(* Epochs are skipped by concurrent updates only                           *)

\* The updaters that will advance the epoch because they found it over.
Pending == {u \in Updater : update[u] \in {"epoch", "start"}}

\* Their advances are counted in.
Counted ==
  clock # "snapshot" =>
    start + Cardinality(Pending) * EpochTicks
      < now + SlotTicks + (Cardinality(Updater) - 1) * EpochTicks

LEMMA PendingSize ==
  /\ IsFiniteSet(Pending) /\ Cardinality(Pending) \in Nat /\ Cardinality(Updater) \in Nat
  /\ Cardinality(Pending) <= Cardinality(Updater)
BY ClockAssumption, FS_Subset, FS_CardinalityType DEF Pending

\* Multiples of an epoch.
LEMMA Multiples ==
  ASSUME NEW i \in Nat, NEW j \in Nat
  PROVE  /\ i * EpochTicks \in Nat
         /\ (i - 1) * EpochTicks = i * EpochTicks - EpochTicks
         /\ (i + 1) * EpochTicks = i * EpochTicks + EpochTicks
         /\ i <= j => i * EpochTicks <= j * EpochTicks
BY ClockAssumption

\* An updater that finds the epoch over begins from a start that is more than an
\* epoch less a slot ago: even if all the others are about to advance it too, the
\* start goes no further than counted.
LEMMA CheckCounted ==
  ASSUME TypeOK, Counted, NEW u \in Updater, CheckTransition(u)
  PROVE  Counted'
<1>1. UNCHANGED <<now, start, clock>>
  BY DEF CheckTransition, updating, schedule
<1>2. CASE TransitionNeeded
  <2>1. Cardinality(Pending') <= Cardinality(Updater) /\ Cardinality(Pending') \in Nat
    <3>1. Pending' \subseteq Updater
      BY DEF Pending
    <3> QED
      BY <3>1, ClockAssumption, FS_Subset, FS_CardinalityType
  <2>2. now - start > EpochTicks - SlotTicks
    BY <1>2, OverMeansAlmostOver DEF TypeOK
  <2> DEFINE all == Cardinality(Updater)
             some == Cardinality(Pending')
  <2>3. all \in Nat /\ some \in Nat /\ some <= all
    BY <2>1, PendingSize
  <2> HIDE DEF all, some
  <2>4. /\ some * EpochTicks <= all * EpochTicks
        /\ some * EpochTicks \in Nat /\ all * EpochTicks \in Nat
        /\ (all - 1) * EpochTicks = all * EpochTicks - EpochTicks
    BY <2>3, Multiples
  <2>5. start + some * EpochTicks < now + SlotTicks + (all - 1) * EpochTicks
    BY <2>2, <2>4, ClockAssumption DEF TypeOK
  <2> QED
    BY <1>1, <2>5 DEF Counted, all, some
<1>3. CASE ~ TransitionNeeded
  <2>1. Pending' = Pending
    BY <1>3 DEF CheckTransition, AtUpdate, GotoUpdate, Pending, TypeOK
  <2> QED
    BY <1>1, <2>1 DEF Counted
<1> QED
  BY <1>2, <1>3

LEMMA AdvanceCounted ==
  ASSUME TypeOK, Counted, NEW u \in Updater, AdvanceStart(u)
  PROVE  Counted'
<1>1. UNCHANGED <<now, clock>> /\ start' = start + EpochTicks
  BY DEF AdvanceStart, updating
<1>2. u \in Pending /\ Pending' = Pending \ {u}
  BY DEF AdvanceStart, AtUpdate, GotoUpdate, Pending, TypeOK
<1>3. Cardinality(Pending') = Cardinality(Pending) - 1
  BY <1>2, PendingSize, FS_RemoveElement
<1> DEFINE some == Cardinality(Pending)
           bound == now + SlotTicks + (Cardinality(Updater) - 1) * EpochTicks
<1>4. some \in Nat /\ bound \in Int
  BY PendingSize, ClockAssumption DEF TypeOK
<1>5. clock # "snapshot" => start + some * EpochTicks < bound
  BY DEF Counted
<1>6. Cardinality(Pending') = some - 1 /\ bound' = bound
  BY <1>1, <1>3
<1> HIDE DEF some, bound
<1>7. (some - 1) * EpochTicks = some * EpochTicks - EpochTicks /\ some * EpochTicks \in Nat
  BY <1>4, Multiples
<1>8. clock # "snapshot" => start + EpochTicks + (some - 1) * EpochTicks < bound
  BY <1>4, <1>5, <1>7, ClockAssumption DEF TypeOK
<1>9. clock' # "snapshot" => start' + Cardinality(Pending') * EpochTicks < bound'
  BY <1>1, <1>6, <1>8
<1> QED
  BY <1>1, <1>9 DEF Counted, bound

\* However many threads update the schedule, and however their steps interleave,
\* the clock runs ahead by an epoch for each of them but one at most.
THEOREM EpochsInTurn == Spec => []SkipsBounded
<1>1. TypeOK /\ Init => Counted
  <2> SUFFICES ASSUME Init PROVE Counted
    OBVIOUS
  <2>1. Pending = {} /\ start = 0 /\ now = 0
    BY DEF Init, Pending
  <2>2. Cardinality(Pending) = 0
    BY <2>1, FS_EmptySet
  <2>3. Cardinality(Updater) # 0
    BY ClockAssumption, FS_EmptySet
  <2> DEFINE n == Cardinality(Updater) - 1
  <2>4. n \in Nat
    BY <2>3, PendingSize
  <2> HIDE DEF n
  <2>5. n * EpochTicks \in Nat /\ 0 * EpochTicks = 0
    BY <2>4, Multiples, ClockAssumption
  <2>6. 0 + 0 * EpochTicks < 0 + SlotTicks + n * EpochTicks
    BY <2>5, ClockAssumption
  <2> QED
    BY <2>1, <2>2, <2>6 DEF Counted, n
<1>2. ASSUME TypeOK, Counted, [Next]_vars
      PROVE  Counted'
  <2> USE <1>2
  <2>1. CASE Tick
    <3>1. UNCHANGED <<start, clock, update>> /\ now' = now + 1
      BY <2>1 DEF Tick, schedule
    <3>2. Pending' = Pending
      BY <3>1 DEF Pending
    <3> QED
      BY <3>1, <3>2, PendingSize, ClockAssumption DEF Counted, TypeOK
  <2>2. ASSUME NEW u \in Updater, UpdateStep(u)
        PROVE  Counted'
    <3>1. CASE CheckTransition(u)
      BY <3>1, CheckCounted
    <3>2. CASE AdvanceStart(u)
      BY <3>2, AdvanceCounted
    <3>3. CASE NextEpoch(u) \/ Promote(u) \/ ClearNext(u) \/ CheckNext(u) \/ GenerateNext(u)
               \/ CheckCurrent(u) \/ GenerateCurrent(u)
      <4>1. UNCHANGED <<now, start, clock>>
        BY <3>3 DEF NextEpoch, Promote, ClearNext, CheckNext, GenerateNext, CheckCurrent,
                    GenerateCurrent, updating, schedule
      <4>2. Pending' = Pending
        BY <3>3 DEF NextEpoch, Promote, ClearNext, CheckNext, GenerateNext, CheckCurrent,
                    GenerateCurrent, AtUpdate, GotoUpdate, Pending, TypeOK
      <4> QED
        BY <4>1, <4>2 DEF Counted
    <3> QED
      BY <2>2, <3>1, <3>2, <3>3 DEF UpdateStep
  <2>3. CASE SnapshotStep
    <3>1. UNCHANGED <<now, update>> /\ (clock' = "snapshot" \/ UNCHANGED <<start, clock>>)
      BY <2>3 DEF SnapshotStep, SnapshotEpoch, SnapshotTable, SnapshotStart, applying
    <3>2. Pending' = Pending
      BY <3>1 DEF Pending
    <3> QED
      BY <3>1, <3>2 DEF Counted
  <2>4. CASE ProducerStep \/ UNCHANGED vars
    <3>1. UNCHANGED <<now, start, clock, update>>
      BY <2>4 DEF ProducerStep, ReadSlot, ReadLeader, ProposeBlock, MarkProduced, WaitForNextSlot,
                  WakeUp, producing, schedule, vars
    <3>2. Pending' = Pending
      BY <3>1 DEF Pending
    <3> QED
      BY <3>1, <3>2 DEF Counted
  <2> QED
    BY <1>2, <2>1, <2>2, <2>3, <2>4 DEF Next
<1>3. TypeOK /\ Counted => SkipsBounded
  <2> SUFFICES ASSUME TypeOK, Counted, clock # "snapshot"
               PROVE  start < now + SlotTicks + (Cardinality(Updater) - 1) * EpochTicks
    BY DEF SkipsBounded
  <2> DEFINE some == Cardinality(Pending) * EpochTicks
             bound == now + SlotTicks + (Cardinality(Updater) - 1) * EpochTicks
  <2>1. some \in Nat /\ bound \in Int /\ start + some < bound /\ start \in Int
    BY PendingSize, Multiples, ClockAssumption DEF Counted, TypeOK
  <2> HIDE DEF some, bound
  <2>2. start < bound
    BY <2>1
  <2> QED
    BY <2>2 DEF bound
<1> QED
  BY <1>1, <1>2, <1>3, TypeCorrect, PTL DEF Spec

-----------------------------------------------------------------------------
(* One proposal per slot                                                   *)

\* A proposal before another: by the clock the node had before, of an earlier epoch,
\* or of an earlier slot.
Before(p, q) ==
  \/ p.clock # q.clock /\ q.clock = "snapshot"
  \/ p.clock = q.clock /\ (p.start < q.start \/ (p.start = q.start /\ p.slot < q.slot))

\* When slot s begins, of the epoch that began at the time given.
Boundary(at, s) == at + s * SlotTicks

Past(p) ==
  \/ p.clock # clock /\ clock = "snapshot"
  \/ p.clock = clock /\ p.start < start
Present(p) == p.clock = clock /\ p.start = start

\* The producer has slept past the end of every slot of this epoch it proposed
\* in before it reads the clock for the next one.
SleptPast(s) ==
  /\ producer \in {"mark", "wait"} => Boundary(start, s) <= now
  /\ producer = "sleep" => Boundary(start, s + 1) <= wake
  /\ producer \in {"slot", "leader", "propose"} => Boundary(start, s + 1) <= now

Slept ==
  \A i \in DOMAIN proposals :
    \/ Past(proposals[i])
    \/ Present(proposals[i]) /\ SleptPast(proposals[i].slot)

InOrder == \A i, j \in DOMAIN proposals : i < j => Before(proposals[i], proposals[j])

LEMMA ProposalTypes ==
  ASSUME TypeOK, NEW i \in DOMAIN proposals
  PROVE  i \in Int /\ proposals[i].start \in Int /\ proposals[i].slot \in Int
<1> DEFINE P == [clock : Clock, start : Int, slot : Int]
<1>1. proposals \in Seq(P)
  BY DEF TypeOK
<1> HIDE DEF P
<1>2. i \in Int /\ proposals[i] \in P
  BY <1>1
<1> QED
  BY <1>2 DEF P

LEMMA Boundaries ==
  ASSUME NEW at \in Int
  PROVE  \A s \in Int : /\ Boundary(at, s) \in Int /\ Boundary(at, s + 1) \in Int
                        /\ Boundary(at, s) <= Boundary(at, s + 1)
<1> SUFFICES ASSUME NEW s \in Int
             PROVE  /\ Boundary(at, s) \in Int /\ Boundary(at, s + 1) \in Int
                    /\ Boundary(at, s) <= Boundary(at, s + 1)
  OBVIOUS
<1> DEFINE x == s * SlotTicks
<1>1. x \in Int /\ (s + 1) * SlotTicks = x + SlotTicks
  BY ClockAssumption
<1>2. Boundary(at, s) = at + x /\ Boundary(at, s + 1) = at + (s + 1) * SlotTicks
  BY DEF Boundary
<1> HIDE DEF x
<1> QED
  BY <1>1, <1>2, ClockAssumption

\* Slots follow each other in time.
LEMMA SlotOfTime ==
  ASSUME now \in Nat, start \in Int
  PROVE  /\ CurrentSlot \in Int
         /\ Boundary(start, CurrentSlot) <= now /\ now < Boundary(start, CurrentSlot + 1)
         /\ \A s \in Int : Boundary(start, s) <= now => s <= CurrentSlot
<1> DEFINE q == CurrentSlot
<1>1. q \in Int /\ q * SlotTicks <= now - start /\ now - start < q * SlotTicks + SlotTicks
  BY DivBounds, ClockAssumption DEF CurrentSlot
<1> HIDE DEF q
<1>2. (q + 1) * SlotTicks = q * SlotTicks + SlotTicks
  BY <1>1, ClockAssumption
<1>3. ASSUME NEW s \in Int, s * SlotTicks <= now - start
      PROVE  s <= q
  <2>1. SUFFICES ASSUME q + 1 <= s PROVE FALSE
    BY <1>1
  <2>2. (q + 1) * SlotTicks <= s * SlotTicks
    BY <1>1, <2>1, ClockAssumption
  <2> QED
    BY <1>1, <1>2, <1>3, <2>2, ClockAssumption
<1>4. q = CurrentSlot
  BY DEF q
<1> QED
  BY <1>1, <1>2, <1>3, <1>4, ClockAssumption DEF Boundary

\* The sleep ends at the next boundary or later.
LEMMA SleepsToBoundary ==
  ASSUME now \in Nat, start \in Int
  PROVE  WaitTicks \in Nat /\ now + WaitTicks >= Boundary(start, CurrentSlot + 1)
<1> DEFINE d == now - start
           q == d \div SlotTicks
           r == d % SlotTicks
<1>1. q \in Int /\ r \in 0 .. SlotTicks - 1 /\ d = q * SlotTicks + r
  BY ClockAssumption
<1>2. WaitTicks >= SlotTicks - r /\ WaitTicks \in Nat
  BY <1>1, ClockAssumption DEF WaitTicks
<1>3. Boundary(start, CurrentSlot + 1) = start + (q + 1) * SlotTicks
  BY DEF Boundary, CurrentSlot
<1> HIDE DEF q, r
<1>4. (q + 1) * SlotTicks = q * SlotTicks + SlotTicks
  BY <1>1, ClockAssumption
<1> QED
  BY <1>1, <1>2, <1>3, <1>4, ClockAssumption

\* While the epoch and the proposals stay, the duty of the producer may be read
\* slot by slot.
LEMMA SleptKept ==
  ASSUME TypeOK, Slept, InOrder, UNCHANGED <<start, clock, proposals>>,
         ASSUME NEW s \in Int, SleptPast(s) PROVE SleptPast(s)'
  PROVE  Slept' /\ InOrder'
<1>1. \A i \in DOMAIN proposals : proposals[i].slot \in Int
  BY ProposalTypes
<1>2. InOrder'
  BY DEF InOrder, Before
<1>3. Slept'
  <2> SUFFICES ASSUME NEW i \in DOMAIN proposals
               PROVE  Past(proposals[i])' \/ (Present(proposals[i])' /\ SleptPast(proposals[i].slot)')
    BY DEF Slept
  <2>1. Past(proposals[i])' = Past(proposals[i]) /\ Present(proposals[i])' = Present(proposals[i])
    BY DEF Past, Present
  <2>2. SleptPast(proposals[i].slot) => SleptPast(proposals[i].slot)'
    <3> DEFINE s == proposals[i].slot
    <3>1. s \in Int /\ s' = s
      BY <1>1
    <3> HIDE DEF s
    <3>2. SleptPast(s) => SleptPast(s)'
      BY <3>1
    <3> QED
      BY <3>2 DEF s
  <2> QED
    BY <2>1, <2>2 DEF Slept
<1> QED
  BY <1>2, <1>3

LEMMA ProposeInOrder ==
  ASSUME TypeOK, Slept, InOrder, ProposeBlock
  PROVE  Slept' /\ InOrder'
<1> DEFINE q == [clock |-> clock, start |-> start, slot |-> CurrentSlot]
<1>1. UNCHANGED <<now, start, clock>> /\ producer = "propose" /\ producer' = "mark"
  BY DEF ProposeBlock, producing, schedule
<1>2. /\ CurrentSlot \in Int /\ Boundary(start, CurrentSlot) <= now
      /\ \A s \in Int : Boundary(start, s) <= now => s <= CurrentSlot
      /\ start \in Int /\ now \in Nat
  BY SlotOfTime DEF TypeOK
<1>3. ASSUME NEW i \in DOMAIN proposals
      PROVE  /\ Before(proposals[i], q)
             /\ \/ Past(proposals[i])
                \/ Present(proposals[i]) /\ Boundary(start, proposals[i].slot) <= now
  <2> DEFINE s == proposals[i].slot
  <2>1. proposals[i].start \in Int /\ s \in Int
    BY ProposalTypes
  <2>2. CASE Past(proposals[i])
    BY <2>2 DEF Past, Before
  <2>3. CASE Present(proposals[i]) /\ SleptPast(s)
    <3>1. Boundary(start, s + 1) <= now
      BY <1>1, <2>3 DEF SleptPast
    <3>2. s + 1 <= CurrentSlot
      BY <1>2, <2>1, <3>1
    <3>3. /\ Boundary(start, s) \in Int /\ Boundary(start, s + 1) \in Int
          /\ Boundary(start, s) <= Boundary(start, s + 1)
      BY <1>2, <2>1, Boundaries
    <3>4. Boundary(start, s) <= now
      BY <1>2, <3>1, <3>3
    <3>5. s < CurrentSlot
      BY <1>2, <2>1, <3>2
    <3> QED
      BY <2>3, <3>4, <3>5 DEF Present, Before
  <2> QED
    BY <2>2, <2>3 DEF Slept
<1>4. \A i \in DOMAIN proposals :
        \/ Past(proposals[i])
        \/ Present(proposals[i]) /\ Boundary(start, proposals[i].slot) <= now
  BY <1>3
<1>5. Present(q) /\ Boundary(start, q.slot) <= now
  BY <1>2 DEF Present
\* What the producer owes after the step to a proposal the sequence then holds.
<1>6. Slept' = \A i \in DOMAIN proposals' :
                 \/ Past(proposals'[i])
                 \/ Present(proposals'[i]) /\ Boundary(start, proposals'[i].slot) <= now
  BY <1>1 DEF Slept, SleptPast, Past, Present, Boundary
<1>7. CASE proposals' = proposals
  BY <1>4, <1>6, <1>7 DEF InOrder, Before
<1>8. CASE proposals' = Append(proposals, q)
  <2> DEFINE n == Len(proposals)
  <2>1. /\ n \in Nat /\ DOMAIN proposals = 1 .. n /\ DOMAIN proposals' = 1 .. n + 1
        /\ \A i \in 1 .. n : proposals'[i] = proposals[i]
        /\ proposals'[n + 1] = q
    <3>1. proposals \in Seq([clock : Clock, start : Int, slot : Int])
      BY DEF TypeOK
    <3> HIDE DEF q
    <3> QED
      BY <1>8, <3>1
  <2> HIDE DEF n, q
  <2>2. \A i \in DOMAIN proposals' : i = n + 1 \/ i \in DOMAIN proposals
    BY <2>1
  <2>3. Slept'
    BY <1>4, <1>5, <1>6, <2>1, <2>2
  <2>4. InOrder'
    <3>1. SUFFICES ASSUME NEW i \in DOMAIN proposals', NEW j \in DOMAIN proposals', i < j
                   PROVE  Before(proposals'[i], proposals'[j])
      BY DEF InOrder, Before
    <3>2. i \in DOMAIN proposals /\ proposals'[i] = proposals[i]
      BY <2>1, <3>1
    <3>3. CASE j = n + 1
      BY <1>3, <2>1, <3>2, <3>3
    <3>4. CASE j \in DOMAIN proposals
      <4>1. proposals'[j] = proposals[j]
        BY <2>1, <3>4
      <4> QED
        BY <3>1, <3>2, <3>4, <4>1 DEF InOrder
    <3> QED
      BY <2>2, <3>3, <3>4
  <2> QED
    BY <2>3, <2>4
<1> QED
  BY <1>7, <1>8 DEF ProposeBlock

\* No two proposals of a node are for one slot of one epoch, whatever the number
\* of updaters, whatever clock comes with a snapshot and however long each step
\* takes: a proposal may come after the slot its thread had read, but the sleep
\* after it is counted from the time it ends.
THEOREM ProposesOnce == Spec => []OneProposalPerSlot
<1> DEFINE Inv == Slept /\ InOrder
<1>1. Init => Inv
  BY DEF Init, Slept, InOrder
<1>2. ASSUME TypeOK, Inv, [Next]_vars
      PROVE  Inv'
  <2> USE <1>2
  <2>0. /\ start \in Int /\ now \in Nat /\ wake \in Int
        /\ \A s \in Int : /\ Boundary(start, s) \in Int /\ Boundary(start, s + 1) \in Int
                          /\ Boundary(start, s) <= Boundary(start, s + 1)
    BY Boundaries DEF TypeOK
  <2>1. CASE Tick
    <3>1. UNCHANGED <<start, clock, producer, wake, proposals>> /\ now' = now + 1
      BY <2>1 DEF Tick, schedule, slotThread
    <3>2. ASSUME NEW s \in Int, SleptPast(s)
          PROVE  SleptPast(s)'
      <4>1. Boundary(start, s)' = Boundary(start, s) /\ Boundary(start, s + 1)' = Boundary(start, s + 1)
        BY <3>1 DEF Boundary
      <4> QED
        BY <2>0, <3>1, <3>2, <4>1 DEF SleptPast
    <3> QED
      BY <3>1, <3>2, SleptKept
  <2>2. ASSUME NEW u \in Updater, UpdateStep(u)
        PROVE  Inv'
    <3>1. CASE AdvanceStart(u)
      <4>1. UNCHANGED <<now, clock, producer, wake, proposals>> /\ start' = start + EpochTicks
        BY <3>1 DEF AdvanceStart, updating, slotThread
      <4>2. \A i \in DOMAIN proposals : proposals[i].start \in Int
        BY ProposalTypes
      <4>3. ASSUME NEW i \in DOMAIN proposals PROVE Past(proposals[i])'
        BY <2>0, <4>1, <4>2, <4>3, ClockAssumption DEF Slept, Past, Present
      <4> QED
        BY <4>1, <4>3 DEF Slept, InOrder, Before
    <3>2. CASE ~ AdvanceStart(u)
      <4>1. UNCHANGED <<now, start, clock, producer, wake, proposals>>
        BY <2>2, <3>2 DEF UpdateStep, CheckTransition, NextEpoch, Promote, ClearNext, CheckNext,
             GenerateNext, CheckCurrent, GenerateCurrent, updating, schedule, slotThread
      <4> QED
        BY <4>1 DEF Slept, InOrder, SleptPast, Past, Present, Before, Boundary
    <3> QED
      BY <3>1, <3>2
  <2>3. CASE ProposeBlock
    BY <2>3, ProposeInOrder
  <2>4. CASE WaitForNextSlot
    <3>1. /\ UNCHANGED <<now, start, clock, proposals>> /\ producer = "wait" /\ producer' = "sleep"
          /\ wake' = now + WaitTicks
      BY <2>4 DEF WaitForNextSlot, producing, schedule
    <3>2. /\ now + WaitTicks >= Boundary(start, CurrentSlot + 1) /\ WaitTicks \in Nat
          /\ CurrentSlot \in Int /\ \A s \in Int : Boundary(start, s) <= now => s <= CurrentSlot
      BY SlotOfTime, SleepsToBoundary DEF TypeOK
    <3>3. \A s \in Int : s <= CurrentSlot => Boundary(start, s + 1) <= Boundary(start, CurrentSlot + 1)
      BY <3>2, ClockAssumption DEF Boundary, TypeOK
    <3>4. ASSUME NEW s \in Int, SleptPast(s)
          PROVE  SleptPast(s)'
      <4>1. Boundary(start, s) <= now
        BY <3>1, <3>4 DEF SleptPast
      <4>2. Boundary(start, s + 1) <= now + WaitTicks
        BY <2>0, <3>2, <3>3, <4>1
      <4>3. Boundary(start, s + 1)' = Boundary(start, s + 1)
        BY <3>1 DEF Boundary
      <4> QED
        BY <3>1, <4>2, <4>3 DEF SleptPast
    <3> QED
      BY <3>1, <3>4, SleptKept
  <2>5. CASE ReadSlot \/ ReadLeader \/ MarkProduced \/ WakeUp
    <3>1. UNCHANGED <<now, start, clock, proposals>>
      BY <2>5 DEF ReadSlot, ReadLeader, MarkProduced, WakeUp, producing, schedule
    <3>2. ASSUME NEW s \in Int, SleptPast(s)
          PROVE  SleptPast(s)'
      <4>1. Boundary(start, s)' = Boundary(start, s) /\ Boundary(start, s + 1)' = Boundary(start, s + 1)
        BY <3>1 DEF Boundary
      <4>2. CASE ReadSlot \/ ReadLeader
        <5>1. producer \in {"slot", "leader"} /\ producer' \in {"leader", "propose", "wait"}
          BY <4>2 DEF ReadSlot, ReadLeader
        <5> QED
          BY <2>0, <3>1, <3>2, <4>1, <5>1 DEF SleptPast
      <4>3. CASE MarkProduced
        BY <3>1, <3>2, <4>1, <4>3 DEF MarkProduced, SleptPast
      <4>4. CASE WakeUp
        <5>1. producer = "sleep" /\ producer' = "slot" /\ now >= wake
          BY <4>4 DEF WakeUp
        <5> QED
          BY <2>0, <3>1, <3>2, <4>1, <5>1 DEF SleptPast
      <4> QED
        BY <2>5, <4>2, <4>3, <4>4
    <3> QED
      BY <3>1, <3>2, SleptKept
  <2>6. CASE SnapshotStart /\ clock = "own"
    <3>1. UNCHANGED <<now, producer, wake, proposals>> /\ clock' = "snapshot"
      BY <2>6 DEF SnapshotStart, applying, slotThread
    <3>2. \A i \in DOMAIN proposals : Past(proposals[i])'
      BY <2>6, <3>1 DEF Slept, Past, Present
    <3> QED
      BY <3>1, <3>2 DEF Slept, InOrder, Before
  <2>7. CASE SnapshotEpoch \/ SnapshotTable \/ (SnapshotStart /\ clock # "own") \/ UNCHANGED vars
    <3>1. UNCHANGED <<now, start, clock, producer, wake, proposals>>
      BY <2>7 DEF SnapshotEpoch, SnapshotTable, SnapshotStart, applying, vars, schedule, slotThread
    <3> QED
      BY <3>1 DEF Slept, InOrder, SleptPast, Past, Present, Before, Boundary
  <2> HIDE DEF Inv
  <2>8. CASE SnapshotStep
    <3>1. CASE SnapshotStart
      BY <2>6, <2>7, <3>1
    <3>2. CASE SnapshotEpoch
      BY <2>7, <3>2
    <3>3. CASE SnapshotTable
      BY <2>7, <3>3
    <3> QED
      BY <2>8, <3>1, <3>2, <3>3 DEF SnapshotStep
  <2>9. CASE ProducerStep
    BY <2>3, <2>4, <2>5, <2>9 DEF ProducerStep
  <2>10. CASE UNCHANGED vars
    BY <2>7, <2>10
  <2> QED
    BY <1>2, <2>1, <2>2, <2>8, <2>9, <2>10 DEF Next
<1>3. TypeOK /\ Inv => OneProposalPerSlot
  <2> SUFFICES ASSUME TypeOK, Inv, NEW i \in DOMAIN proposals, NEW j \in DOMAIN proposals, i # j
               PROVE  proposals[i] # proposals[j]
    BY DEF OneProposalPerSlot
  <2>1. i \in Int /\ j \in Int /\ proposals[i].start \in Int /\ proposals[i].slot \in Int
    BY ProposalTypes
  <2>2. Before(proposals[i], proposals[j]) \/ Before(proposals[j], proposals[i])
    BY <2>1 DEF InOrder
  <2> QED
    BY <2>1, <2>2 DEF Before
<1> QED
  BY <1>1, <1>2, <1>3, TypeCorrect, PTL DEF Spec

-----------------------------------------------------------------------------
(* The tables are there                                                    *)

\* Some updater has yet to test the table.
WillTestNext == \E u \in Updater : update[u] \in {"check_next", "generate_next"}
WillTestCurrent ==
  \E u \in Updater :
    update[u] \in {"clear", "check_next", "generate_next", "check_current", "generate_current"}

\* Before the first update has come to the test of the current table.
NoneTested ==
  ~ updated /\ \A u \in Updater : update[u] \notin {"check_current", "generate_current"}

Missing ==
  /\ next = Empty => WillTestNext \/ NoneTested
  /\ current = Empty => WillTestCurrent \/ ~ updated

LEMMA GeneratedIsThere == \A table \in Schedules : table # Empty
<1> SUFFICES ASSUME NEW table \in Schedules PROVE table # Empty
  OBVIOUS
<1>1. DOMAIN table = Slots /\ DOMAIN Empty = {}
  BY ClockAssumption DEF Empty
<1>2. SlotsPerEpoch \in Int /\ SlotsPerEpoch >= 1
  <2> DEFINE p == EpochTicks \div SlotTicks
  <2>1. p \in Int /\ EpochTicks < p * SlotTicks + SlotTicks
    BY DivBounds, ClockAssumption
  <2>2. p = SlotsPerEpoch
    BY DEF SlotsPerEpoch
  <2> HIDE DEF p
  <2>3. ASSUME p <= 0 PROVE FALSE
    <3>1. p * SlotTicks <= 0
      BY <2>1, <2>3, ClockAssumption
    <3> QED
      BY <2>1, <3>1, ClockAssumption
  <2> QED
    BY <2>1, <2>2, <2>3
<1>3. 0 \in Slots
  BY <1>2 DEF Slots
<1> QED
  BY <1>1, <1>3

LEMMA UpdateMissing ==
  ASSUME TypeOK, Missing, NEW u \in Updater, UpdateStep(u)
  PROVE  Missing'
<1> HIDE DEF Empty
<1>1. CASE CheckTransition(u) \/ NextEpoch(u) \/ AdvanceStart(u)
  <2>1. /\ UNCHANGED <<current, next, updated>>
        /\ update'[u] \in {"epoch", "start", "promote", "check_next"}
        /\ update[u] \in {"idle", "epoch", "start"}
        /\ \A v \in Updater : v # u => update'[v] = update[v]
    BY <1>1 DEF CheckTransition, NextEpoch, AdvanceStart, AtUpdate, GotoUpdate, schedule, TypeOK
  <2> QED
    BY <2>1 DEF Missing, WillTestNext, WillTestCurrent, NoneTested
<1>2. CASE Promote(u)
  <2>1. /\ UNCHANGED <<next, updated>>
        /\ update[u] = "promote" /\ update'[u] = "clear"
        /\ \A v \in Updater : v # u => update'[v] = update[v]
    BY <1>2 DEF Promote, AtUpdate, GotoUpdate, TypeOK
  <2> QED
    BY <2>1 DEF Missing, WillTestNext, WillTestCurrent, NoneTested
<1>3. CASE ClearNext(u)
  <2>1. UNCHANGED <<current, updated>> /\ update'[u] = "check_next"
    BY <1>3 DEF ClearNext, AtUpdate, GotoUpdate, TypeOK
  <2> QED
    BY <2>1 DEF Missing, WillTestNext, WillTestCurrent, NoneTested
<1>4. CASE CheckNext(u)
  <2>1. /\ UNCHANGED <<current, next, updated>>
        /\ update'[u] = IF next = Empty THEN "generate_next" ELSE "check_current"
    BY <1>4 DEF CheckNext, GotoUpdate, schedule, TypeOK
  <2> QED
    BY <2>1 DEF Missing, WillTestNext, WillTestCurrent, NoneTested
<1>5. CASE GenerateNext(u)
  <2>1. next' # Empty /\ UNCHANGED <<current, updated>> /\ update'[u] = "check_current"
    BY <1>5, GeneratedIsThere DEF GenerateNext, GotoUpdate, TypeOK
  <2> QED
    BY <2>1 DEF Missing, WillTestCurrent
<1>6. CASE CheckCurrent(u)
  <2>1. /\ UNCHANGED <<current, next>> /\ updated' = (updated \/ current # Empty)
        /\ update[u] = "check_current"
        /\ update'[u] = IF current = Empty THEN "generate_current" ELSE "idle"
        /\ \A v \in Updater : v # u => update'[v] = update[v]
    BY <1>6 DEF CheckCurrent, AtUpdate, GotoUpdate, schedule, TypeOK
  <2>2. WillTestNext => WillTestNext'
    BY <2>1 DEF WillTestNext
  <2>3. ~ NoneTested
    BY <2>1 DEF NoneTested
  <2>4. current = Empty => WillTestCurrent'
    BY <2>1 DEF WillTestCurrent
  <2> QED
    BY <2>1, <2>2, <2>3, <2>4 DEF Missing
<1>7. CASE GenerateCurrent(u)
  <2>1. /\ next' = next /\ current' # Empty
        /\ update[u] = "generate_current"
        /\ \A v \in Updater : v # u => update'[v] = update[v]
    BY <1>7, GeneratedIsThere DEF GenerateCurrent, AtUpdate, GotoUpdate, TypeOK
  <2>2. WillTestNext => WillTestNext'
    BY <2>1 DEF WillTestNext
  <2>3. ~ NoneTested
    BY <2>1 DEF NoneTested
  <2> QED
    BY <2>1, <2>2, <2>3 DEF Missing
<1> QED
  BY <1>1, <1>2, <1>3, <1>4, <1>5, <1>6, <1>7 DEF UpdateStep

\* Updaters may promote a table twice, and clear and generate it in any order, and a
\* snapshot may take the current one away: when all of them have ended, the last
\* one after the snapshot, both tables are there, for any number of updaters.
THEOREM TablesAreReady == Spec => []TablesReady
<1>1. Init => Missing
  BY DEF Init, Missing, NoneTested
<1>2. ASSUME TypeOK, Missing, [Next]_vars
      PROVE  Missing'
  <2> USE <1>2
  <2>1. CASE \E u \in Updater : UpdateStep(u)
    BY <2>1, UpdateMissing
  <2>2. CASE SnapshotTable
    <3>1. UNCHANGED <<next, update>> /\ updated' = (updated /\ current' # Empty)
      BY <2>2 DEF SnapshotTable, applying
    <3> QED
      BY <3>1 DEF Missing, WillTestNext, WillTestCurrent, NoneTested
  <2>3. CASE Tick \/ ProducerStep \/ SnapshotEpoch \/ SnapshotStart \/ UNCHANGED vars
    <3>1. UNCHANGED <<current, next, update, updated>>
      BY <2>3 DEF Tick, ProducerStep, ReadSlot, ReadLeader, ProposeBlock, MarkProduced,
                  WaitForNextSlot, WakeUp, SnapshotEpoch, SnapshotStart, applying, producing,
                  schedule, vars
    <3> QED
      BY <3>1 DEF Missing, WillTestNext, WillTestCurrent, NoneTested
  <2> QED
    BY <1>2, <2>1, <2>2, <2>3 DEF Next, SnapshotStep
<1>3. Missing => TablesReady
  BY DEF Missing, WillTestNext, WillTestCurrent, NoneTested, TablesReady, AtUpdate
<1> QED
  BY <1>1, <1>2, <1>3, TypeCorrect, PTL DEF Spec
=============================================================================
