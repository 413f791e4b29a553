----------------------------- MODULE MCSealevel -----------------------------
(* The instances of Sealevel that TLC checks.                              *)
EXTENDS Sealevel

CONSTANTS
  A, B, C, D, E,  \* accounts; E is in no ledger before execution
  MaxLen          \* length of a block

mcAccount == {A, B, C, D, E}
mcTx == {"ab", "cd", "bc", "ad", "be", "bb", "da"}
mcFrom == [t \in mcTx |-> CASE t \in {"ab", "ad"} -> A [] t = "cd" -> C [] t = "da" -> D
                            [] OTHER -> B]
mcTo == [t \in mcTx |-> CASE t \in {"ab", "bb"} -> B [] t \in {"cd", "ad"} -> D
                          [] t = "bc" -> C [] t = "be" -> E [] t = "da" -> A]
mcAmount == [t \in mcTx |-> CASE t = "ab" -> 3 [] t \in {"bc", "ad"} -> 2 [] t = "da" -> -2
                              [] OTHER -> 1]

\* A can pay "ab" or "ad" but not both, B pays out of what A sends it; "da" has a
\* negative amount, which A may be unable to pay.
mcLedgers == {A :> 4 @@ B :> 0 @@ C :> 1 @@ D :> 0, A :> 2 @@ B :> 1}

Blocks == [slot |-> <<>>, p2p |-> <<>>]

\* One thread executes a list of at most MaxLen different transactions.  The
\* batches have up to three workers, and one of them may find its sender short.
mcOneBlock ==
  {[Blocks EXCEPT !.slot = w] : w \in {w \in SeqOf(mcTx, MaxLen) : IsInjective(w)}}

\* Two threads of one node execute a block each at the same time.
mcTwoBlocks ==
  {[slot |-> v, p2p |-> w] :
     v \in {<<"ab">>, <<"ad", "bc">>, <<"bb", "da">>},
     w \in {<<"ad">>, <<"ab", "cd">>, <<"be", "da">>}}

mcWorks == mcOneBlock \cup mcTwoBlocks
=============================================================================
