----------------------------- MODULE MCBlockExec -----------------------------
(* The instance of BlockLists that TLC checks.                             *)
EXTENDS BlockLists

CONSTANTS
  A, B, C, D,  \* accounts; D is in no genesis ledger
  MaxFunds     \* a bound on the balances of the others

\* A chain of transfers, a second payment out of A, a self-transfer, and a negative
\* amount, which C "pays" to A.
mcAccount == {A, B, C, D}
mcTx == {"ab", "bc", "cd", "ac", "bb", "ca"}
mcFrom == [t \in mcTx |-> CASE t \in {"ab", "ac"} -> A [] t \in {"bc", "bb"} -> B [] OTHER -> C]
mcTo == [t \in mcTx |-> CASE t \in {"ab", "bb"} -> B [] t \in {"bc", "ac"} -> C
                          [] t = "cd" -> D [] t = "ca" -> A]
mcAmount == [t \in mcTx |-> CASE t = "ac" -> 2 [] t = "ca" -> -2 [] OTHER -> 1]
mcGenesisLedgers == [{A, B, C} -> 0 .. MaxFunds]
=============================================================================
