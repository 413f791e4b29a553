----------------------------- MODULE BlockLists -----------------------------
(***************************************************************************)
(* The executor's algorithm over every list of at most MaxLen transactions *)
(* and every genesis ledger of a set.  The list grows one transaction at a *)
(* time, so every list is a state.                                         *)
(***************************************************************************)
EXTENDS BlockExec

CONSTANTS
  GenesisLedgers,  \* the choices of a ledger
  MaxLen           \* a bound on the length of a list

ASSUME BlockListsAssumption == \A b \in GenesisLedgers : IsLedger(b)

VARIABLES list, genesis

ListInit == list = <<>> /\ genesis \in GenesisLedgers

Extend(t) == Len(list) < MaxLen /\ list' = Append(list, t) /\ UNCHANGED genesis

ListNext == \E t \in Tx : Extend(t)

ListSpec == ListInit /\ [][ListNext]_<<list, genesis>>

-----------------------------------------------------------------------------
\* What a transaction that passes its check adds to the funds: nothing, unless it
\* is a transfer to oneself, of which only the receiver's delta is left, or its
\* receiver cannot pay a negative amount, which the sender gets all the same.
Made(b, t) ==
  IF Balance(b, From[t]) < Amount[t] THEN 0
  ELSE IF Balance(b, To[t]) + Amount[t] >= 0
       THEN IF SelfTransfer(t) THEN Amount[t] ELSE 0
       ELSE IF SelfTransfer(t) THEN 0 ELSE -Amount[t]

\* The same for batches executed one transaction after the other.
Mint(acc, t) ==
  [ledger |-> ExecuteOne(acc.ledger, t), minted |-> acc.minted + Made(acc.ledger, t)]
MintBatch(acc, batch) == FoldLeft(Mint, acc, batch)
Minted(b, batches) == FoldLeft(MintBatch, [ledger |-> b, minted |-> 0], batches).minted

\* Serializability: executing a block in parallel batches, every balance read
\* before any delta of the batch is applied, gives the very ledger (accounts
\* created by reads included) that executing its transactions one at a time
\* gives, each as often as the block holds it, in the order of the batches.
Serializable ==
  /\ Execute(genesis, list) = FoldLeft(ExecuteInOrder, genesis, Batches(list))
  /\ \A t \in Tx : OccursIn(Batches(list), t) = Occurs(list, t)

\* A block moves funds between accounts: no debit whose balance was checked before
\* the batch is refused when it is applied.  What it makes or destroys is
\* exactly what its transfers to oneself and its negative amounts do (Made), whose
\* debits were not checked.
SupplyAccounted ==
  Total(Execute(genesis, list)) = Total(genesis) + Minted(genesis, Batches(list))
=============================================================================
