------------------------------- MODULE Ledger -------------------------------
(***************************************************************************)
(* The account state of a node (account_model.py) and what one transaction *)
(* does to it.  A ledger is a function from the accounts that exist to     *)
(* their balances: reading an account that does not exist creates it with  *)
(* balance 0, so the set of existing accounts is part of the state (and of *)
(* the state root, which hashes every existing account).                   *)
(*                                                                         *)
(* Amounts are integers of either sign, as nothing in the code looks at    *)
(* the sign of one; the code uses Python floats.                           *)
(***************************************************************************)
EXTENDS Integers, Sequences

CONSTANTS
  Account,  \* account identifiers (public keys)
  Tx,       \* transaction ids
  From,     \* sender of each transaction
  To,       \* receiver of each transaction
  Amount    \* amount of each transaction

ASSUME LedgerAssumption ==
  /\ From \in [Tx -> Account]
  /\ To \in [Tx -> Account]
  /\ Amount \in [Tx -> Int]

\* Some accounts exist, each with a balance that is not negative.
IsLedger(b) == DOMAIN b \subseteq Account /\ b \in [DOMAIN b -> Nat]

\* AccountModel.get_balance: the value it returns ...
Balance(b, a) == IF a \in DOMAIN b THEN b[a] ELSE 0

\* ... and its side effect: the accounts A exist afterwards.
Touch(b, A) == [x \in DOMAIN b \cup A |-> Balance(b, x)]

\* AccountModel.update_balance: refused when the result would be negative, an
\* account that does not exist counting as 0 and being created by a credit.
UpdateBalance(b, a, delta) ==
  IF Balance(b, a) + delta < 0
  THEN b
  ELSE [x \in DOMAIN b \cup {a} |-> Balance(b, x) + (IF x = a THEN delta ELSE 0)]

\* The accounts a transaction reads and writes.
Accesses(t) == {From[t], To[t]}

\* (A bug for comparison: only two spends of one account are told apart.)
BugConflict(t, u) == From[t] = From[u]

\* TransactionDependency.conflicts_with: every access is both a read and a write.
Conflict(t, u) == Accesses(t) \cap Accesses(u) # {}

\* can_add_transaction: t conflicts with nothing in the batch.
CanAdd(batch, t) == \A i \in DOMAIN batch : ~ Conflict(t, batch[i])

\* The deltas of a transaction are a dict {sender: -amount, receiver: amount}:
\* when sender and receiver are one account the second entry replaces the first.
SelfTransfer(t) == From[t] = To[t]

\* Both deltas of a successful transaction, applied in the order of the dict.
\* With a negative amount the sender is credited and the receiver debited, whose
\* balance nobody has checked.
ApplyDeltas(b, t) ==
  LET debited == IF SelfTransfer(t) THEN b ELSE UpdateBalance(b, From[t], -Amount[t])
  IN  UpdateBalance(debited, To[t], Amount[t])
=============================================================================
