---------------------------- MODULE MCSlotClock -----------------------------
(* The instances of SlotClock TLC checks. *)
EXTENDS SlotClock, TLC

CONSTANTS
  MaxBusy,  \* a bound on the threads that are in the middle of something,
  MaxEpoch, \* on the epochs begun,
  MaxProposals  \* and on the proposals made

mcLeader == {"me"}

\* This node in every slot; a snapshot's table has it in none.
mcSchedules == {[s \in Slots |-> "me"]}

\* A clock out of step with the node's.
mcStarts == {3}

Symmetric == Permutations(Updater)

Busy == Cardinality({u \in Updater : ~ AtUpdate(u, "idle")})
        + (IF snapshot = "idle" THEN 0 ELSE 1)
        + (IF producer \in {"leader", "propose", "mark", "wait"} THEN 1 ELSE 0)

FewBusy == Busy <= MaxBusy /\ epoch <= MaxEpoch /\ Len(proposals) <= MaxProposals
=============================================================================
