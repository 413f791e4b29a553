----------------------------- MODULE SlotClock ------------------------------
(***************************************************************************)
(* The clock of one node: its leader schedule (leader_schedule.py), the    *)
(* threads that update it and the thread that produces blocks by it        *)
(* (slot_producer.py).                                                     *)
(*                                                                         *)
(* The schedule is two tables, for this epoch and the next one, and the    *)
(* time this epoch started.  update_schedule is called by the thread of    *)
(* _start_continuous_leader_updates and by every thread that submits a     *)
(* transaction; no lock is taken, so each of its statements is a step.  So *)
(* is each statement with which a snapshot that another node has sent      *)
(* replaces the schedule (apply_snapshot).                                 *)
(*                                                                         *)
(* Time is counted in ticks from the cluster start time.  An epoch is not  *)
(* a whole number of slots: 600 s holds 1333 slots of 0.45 s and 0.15 s    *)
(* more.                                                                   *)
(***************************************************************************)
EXTENDS Integers, Sequences, FiniteSets

CONSTANTS
  Updater,     \* threads that call update_schedule
  Leader,      \* public keys
  Me,          \* the key of this node
  Schedules,   \* the tables generate_epoch_schedule may return
  Epochs,      \* current_epoch ...
  Starts,      \* ... and epoch_start_time of the snapshots that may come
  SlotTicks,   \* slot_duration_seconds
  EpochTicks,  \* epoch_duration_seconds
  Buffer,      \* the 0.1 s _wait_for_next_slot adds
  MaxTime      \* bound on the clock

SlotsPerEpoch == EpochTicks \div SlotTicks

Slots == 0 .. SlotsPerEpoch - 1
Nobody == "nobody"
Empty == [s \in {} |-> Me]  \* {}, before a table is generated

\* A table that came with a snapshot: its keys went through JSON, which makes them
\* strings, so that no slot number is found in it.
Unreadable == [s \in Slots |-> Nobody]

ASSUME ClockAssumption ==
  /\ SlotTicks \in Nat \ {0} /\ EpochTicks \in Nat \ {0} /\ SlotTicks <= EpochTicks
  /\ Buffer \in Nat /\ Buffer < SlotTicks
  /\ MaxTime \in Nat
  /\ Me \in Leader /\ Nobody \notin Leader
  /\ IsFiniteSet(Updater) /\ Updater # {}
  \* never empty: the genesis validators are registered before the first update
  /\ Schedules \subseteq [Slots -> Leader]
  /\ Epochs \subseteq Nat /\ Starts \subseteq Int

VARIABLES
  now,
  epoch, start,   \* current_epoch and epoch_start_time
  clock,          \* where the start is from: "own" time, "shared" file or "snapshot"
  current, next,  \* current_schedule and next_schedule
  update,         \* what each updater does next
  snapshot,       \* what the thread that applies a snapshot does next
  updated,        \* history: an update ended since the last table that came was empty
  producer,       \* what the slot thread does next
  slot,           \* current_slot of the slot production loop, 0 when it is of no use
  produced,       \* last_slot_produced
  wake,           \* when the slot thread's sleep ends, 0 when it is awake
  proposals       \* history: clock, start and slot of the moment of each proposal

schedule == <<epoch, start, clock, current, next>>
slotThread == <<producer, slot, produced, wake, proposals>>
vars == <<now, schedule, update, snapshot, updated, slotThread>>

Init ==
  /\ now = 0
  /\ epoch = 0 /\ start = 0
  /\ clock \in {"own", "shared"}
  /\ current = Empty /\ next = Empty
  /\ update = [u \in Updater |-> "idle"]
  /\ snapshot = "idle"
  /\ updated = FALSE
  /\ producer = "slot"
  /\ slot = 0
  /\ produced = -1
  /\ wake = 0
  /\ proposals = <<>>

Tick ==
  /\ now < MaxTime
  /\ now' = now + 1
  /\ UNCHANGED <<schedule, update, snapshot, updated, slotThread>>

-----------------------------------------------------------------------------
(* Reading the schedule *)

\* The entry of a table, or Nobody outside of it.
Entry(table, s) == IF s \in DOMAIN table THEN table[s] ELSE Nobody

\* get_current_slot: // rounds down, so a time before the start is in slot -1.
CurrentSlot == (now - start) \div SlotTicks

CurrentLeader == Entry(current, CurrentSlot)

-----------------------------------------------------------------------------
(* update_schedule, statement by statement *)

AtUpdate(u, l) == update[u] = l
GotoUpdate(u, l) == update' = [update EXCEPT ![u] = l]
updating == <<now, snapshot, slotThread>>

\* (A bug for comparison: the last slot is not waited for.)
BugTransitionNeeded == CurrentSlot >= SlotsPerEpoch - 1

TransitionNeeded == CurrentSlot >= SlotsPerEpoch

CheckTransition(u) ==
  /\ AtUpdate(u, "idle")
  /\ GotoUpdate(u, IF TransitionNeeded THEN "epoch" ELSE "check_next")
  /\ UNCHANGED <<updating, schedule, updated>>

\* transition_to_next_epoch.
NextEpoch(u) ==
  /\ AtUpdate(u, "epoch")
  /\ epoch' = epoch + 1
  /\ GotoUpdate(u, "start")
  /\ UNCHANGED <<updating, start, clock, current, next, updated>>

AdvanceStart(u) ==
  /\ AtUpdate(u, "start")
  /\ start' = start + EpochTicks
  /\ GotoUpdate(u, "promote")
  /\ UNCHANGED <<updating, epoch, clock, current, next, updated>>

Promote(u) ==
  /\ AtUpdate(u, "promote")
  /\ current' = next
  /\ GotoUpdate(u, "clear")
  /\ UNCHANGED <<updating, epoch, start, clock, next, updated>>

ClearNext(u) ==
  /\ AtUpdate(u, "clear")
  /\ next' = Empty
  /\ GotoUpdate(u, "check_next")
  /\ UNCHANGED <<updating, epoch, start, clock, current, updated>>

CheckNext(u) ==
  /\ AtUpdate(u, "check_next")
  /\ GotoUpdate(u, IF next = Empty THEN "generate_next" ELSE "check_current")
  /\ UNCHANGED <<updating, schedule, updated>>

\* The table depends on the node's own metrics and registered nodes.
GenerateNext(u) ==
  /\ AtUpdate(u, "generate_next")
  /\ next' \in Schedules
  /\ GotoUpdate(u, "check_current")
  /\ UNCHANGED <<updating, epoch, start, clock, current, updated>>

\* (A bug for comparison: only the first epoch's table is generated, as the comment
\* "(initialization)" has it.)
BugCheckCurrent(u) ==
  /\ AtUpdate(u, "check_current")
  /\ GotoUpdate(u, IF current = Empty /\ epoch = 0 THEN "generate_current" ELSE "idle")
  /\ updated' = (updated \/ current # Empty \/ epoch # 0)
  /\ UNCHANGED <<updating, schedule>>

CheckCurrent(u) ==
  /\ AtUpdate(u, "check_current")
  /\ GotoUpdate(u, IF current = Empty THEN "generate_current" ELSE "idle")
  /\ updated' = (updated \/ current # Empty)
  /\ UNCHANGED <<updating, schedule>>

\* (A bug for comparison: slots are numbered from one.)
BugGenerateCurrent(u) ==
  /\ AtUpdate(u, "generate_current")
  /\ \E table \in Schedules : current' = [s \in 1 .. SlotsPerEpoch |-> table[s - 1]]
  /\ GotoUpdate(u, "idle")
  /\ updated' = TRUE
  /\ UNCHANGED <<updating, epoch, start, clock, next>>

GenerateCurrent(u) ==
  /\ AtUpdate(u, "generate_current")
  /\ current' \in Schedules
  /\ GotoUpdate(u, "idle")
  /\ updated' = TRUE
  /\ UNCHANGED <<updating, epoch, start, clock, next>>

UpdateStep(u) ==
  \/ CheckTransition(u) \/ NextEpoch(u) \/ AdvanceStart(u) \/ Promote(u) \/ ClearNext(u)
  \/ CheckNext(u) \/ GenerateNext(u) \/ CheckCurrent(u) \/ GenerateCurrent(u)

-----------------------------------------------------------------------------
(* The end of apply_snapshot, statement by statement *)

applying == <<now, update, slotThread>>

SnapshotEpoch ==
  /\ snapshot = "idle"
  /\ epoch' \in Epochs
  /\ snapshot' = "table"
  /\ UNCHANGED <<applying, start, clock, current, next, updated>>

\* The sender's table, or none if it was just without one.
SnapshotTable ==
  /\ snapshot = "table"
  /\ current' \in {Empty, Unreadable}
  /\ updated' = (updated /\ current' # Empty)
  /\ snapshot' = "start"
  /\ UNCHANGED <<applying, epoch, start, clock, next>>

\* Without a shared start time the first one that comes is taken.
SnapshotStart ==
  /\ snapshot = "start"
  /\ IF clock = "own" THEN start' \in Starts /\ clock' = "snapshot"
     ELSE UNCHANGED <<start, clock>>
  /\ snapshot' = "idle"
  /\ UNCHANGED <<applying, epoch, current, next, updated>>

SnapshotStep == SnapshotEpoch \/ SnapshotTable \/ SnapshotStart

-----------------------------------------------------------------------------
(* _slot_production_loop: each call reads the time for itself *)

producing == <<now, schedule, update, snapshot, updated>>

ReadSlot ==
  /\ producer = "slot"
  /\ slot' = CurrentSlot
  /\ producer' = "leader"
  /\ UNCHANGED <<producing, produced, wake, proposals>>

ReadLeader ==
  /\ producer = "leader"
  /\ producer' = IF slot # produced /\ CurrentLeader = Me THEN "propose" ELSE "wait"
  /\ UNCHANGED <<producing, slot, produced, wake, proposals>>

\* propose_block looks the leader up again; a node that does not lead any more
\* returns, and the slot counts as produced all the same.
ProposeBlock ==
  /\ producer = "propose"
  /\ proposals' = IF CurrentLeader = Me
                  THEN Append(proposals, [clock |-> clock, start |-> start, slot |-> CurrentSlot])
                  ELSE proposals
  /\ producer' = "mark"
  /\ UNCHANGED <<producing, slot, produced, wake>>

MarkProduced ==
  /\ producer = "mark"
  /\ produced' = slot
  /\ producer' = "wait"
  /\ UNCHANGED <<producing, slot, wake, proposals>>

\* (A bug for comparison: the producer only pauses.)
BugWaitTicks == Buffer

\* _wait_for_next_slot: to the next boundary and a little more, but never more
\* than one slot.
WaitTicks ==
  LET left == SlotTicks - ((now - start) % SlotTicks)
  IN  IF left + Buffer > SlotTicks THEN SlotTicks ELSE left + Buffer

WaitForNextSlot ==
  /\ producer = "wait"
  /\ wake' = now + WaitTicks
  /\ slot' = 0
  /\ producer' = "sleep"
  /\ UNCHANGED <<producing, produced, proposals>>

\* sleep returns at its time or later.
WakeUp ==
  /\ producer = "sleep"
  /\ now >= wake
  /\ wake' = 0
  /\ producer' = "slot"
  /\ UNCHANGED <<producing, slot, produced, proposals>>

ProducerStep ==
  ReadSlot \/ ReadLeader \/ ProposeBlock \/ MarkProduced \/ WaitForNextSlot \/ WakeUp

-----------------------------------------------------------------------------
Next == Tick \/ ProducerStep \/ SnapshotStep \/ \E u \in Updater : UpdateStep(u)

Spec == Init /\ [][Next]_vars

-----------------------------------------------------------------------------
(* Properties *)

Table == [Slots -> Leader \cup {Nobody}] \cup {Empty}
Clock == {"own", "shared", "snapshot"}

TypeOK ==
  /\ now \in Nat /\ epoch \in Nat /\ start \in Int /\ clock \in Clock
  /\ current \in Table /\ next \in Table
  /\ update \in [Updater -> {"idle", "epoch", "start", "promote", "clear", "check_next",
                             "generate_next", "check_current", "generate_current"}]
  /\ snapshot \in {"idle", "table", "start"} /\ updated \in BOOLEAN
  /\ producer \in {"slot", "leader", "propose", "mark", "wait", "sleep"}
  /\ slot \in Int /\ produced \in Int /\ wake \in Int
  /\ proposals \in Seq([clock : Clock, start : Int, slot : Int])

\* "Deterministic epoch boundary progression" (transition_to_next_epoch), as far as
\* it goes: the check that the epoch is over and the advance of its start are apart,
\* so every updater that finds the same epoch over advances it.  The node's clock
\* runs ahead by less than a slot and an epoch for each updater but one, however
\* late the updates come and whatever their steps' order; nothing adds up over the
\* epochs.  (A start taken from a snapshot is as good as its sender's.)
SkipsBounded ==
  clock # "snapshot" =>
    start < now + SlotTicks + (Cardinality(Updater) - 1) * EpochTicks

\* The slot production thread proposes at most once in a slot, though it notes the
\* slot it read before it proposed and the proposal may come after the boundary,
\* while other threads move the epoch or replace the clock.
OneProposalPerSlot ==
  \A i, j \in DOMAIN proposals : i # j => proposals[i] # proposals[j]

\* "Leaders known 600 seconds (10 minutes) in advance": once the node has updated its
\* schedule, both tables are there whenever no update is under way.  Updaters that
\* advance one epoch twice promote the table that was just cleared, and those that
\* find the same table missing replace each other's; whoever empties a table tests
\* it again before it ends.
TablesReady ==
  updated /\ (\A u \in Updater : AtUpdate(u, "idle")) => current # Empty /\ next # Empty
=============================================================================
