--------------------------- MODULE MCNodeThreads ----------------------------
(* The instances of NodeThreads TLC checks. *)
EXTENDS NodeThreads, TLC

CONSTANT MaxBusy  \* a bound on the threads that work on a block at the same time

\* Bound: a state with a block above this height is not explored further.
MaxHeight == 2
LowBlocks == \A b \in made : Height(b) <= MaxHeight

FewBusy == Cardinality({t \in Thread : pc[t] # "idle"}) <= MaxBusy

Symmetry == Permutations(PeerBlock) \cup Permutations(OwnBlock) \cup Permutations(P2P)
=============================================================================
