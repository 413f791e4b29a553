----------------------------- MODULE MCNetwork ------------------------------
(* The instances of Network TLC checks. *)
EXTENDS Network

CONSTANTS A, B, C  \* accounts; C does not exist at first

mcAccount == {A, B, C}

\* "pay" moves funds; "big" is above the free limit and its sender has nothing;
\* "all" is above it too, and is covered once.
mcTx == {"pay", "big"}
mcFrom == [t \in Tx |-> IF t = "big" THEN C ELSE A]
mcTo == [t \in Tx |-> B]
mcAmount == [t \in Tx |-> IF t = "pay" THEN 1 ELSE 5]
mcFunds == A :> 3 @@ B :> 0
mcRich == A :> 5 @@ B :> 0

mcOneTx == {"pay"}
mcOnce == {"all"}

Symmetry == Permutations(Block \ {Genesis})
=============================================================================
