------------------------------ MODULE Sealevel ------------------------------
(***************************************************************************)
(* execute_transactions_parallel step by step (sealevel_executor.py).      *)
(*                                                                         *)
(* An executor is a thread that runs the method: the slot thread in        *)
(* create_block, a P2P connection thread or the API thread in add_block.   *)
(* Nothing serialises them: they share the account model, whose            *)
(* get_balance and update_balance are atomic, and nothing else.  Within an *)
(* executor, the transactions of a batch read the accounts in worker       *)
(* threads, in any order; the executor then applies their deltas one       *)
(* update_balance at a time.                                               *)
(***************************************************************************)
EXTENDS BlockExec

CONSTANTS
  Executor,  \* threads that execute a block
  Works,     \* the choices of a list of transactions for each executor
  Ledgers    \* the choices of a ledger before execution

ASSUME SealevelAssumption ==
  /\ Works \subseteq [Executor -> Seq(Tx)]
  /\ \A b \in Ledgers : IsLedger(b)

VARIABLES
  input,      \* the lists and the ledger of this behaviour; never changes
  accounts,   \* the shared account model
  stage,      \* what each executor is doing
  remaining,  \* transactions not yet scanned in this pass
  skipped,    \* transactions scanned and left for a later batch
  open,       \* current_batch, being filled
  queue,      \* batches formed and not finished; the head is the one executing
  result,     \* progress of the worker of each transaction of the head batch
  cursor,     \* position in the head batch while applying
  half,       \* which of the two deltas at the cursor is next
  drawn       \* (history) the accounts the other executors have lowered since an
              \* executor checked a transfer from them

vars ==
  <<input, accounts, stage, remaining, skipped, open, queue, result, cursor, half, drawn>>

grouping == <<remaining, skipped, open>>

Stages == {"group", "read", "apply", "done"}
Results == {"none", "enough", "short", "ok", "failed"}
NoResult == [t \in Tx |-> "none"]

TypeOK ==
  /\ input \in [work : Works, ledger : Ledgers]
  /\ IsLedger(accounts)
  /\ stage \in [Executor -> Stages]
  /\ remaining \in [Executor -> Seq(Tx)]
  /\ skipped \in [Executor -> Seq(Tx)]
  /\ open \in [Executor -> Seq(Tx)]
  /\ queue \in [Executor -> Seq(Seq(Tx))]
  /\ result \in [Executor -> [Tx -> Results]]
  /\ cursor \in [Executor -> Nat \ {0}]
  /\ half \in [Executor -> {"debit", "credit"}]
  /\ drawn \in [Executor -> SUBSET Account]

\* An executor with an empty list returns at once.
Init ==
  /\ input \in [work : Works, ledger : Ledgers]
  /\ accounts = input.ledger
  /\ stage = [e \in Executor |-> IF input.work[e] = <<>> THEN "done" ELSE "group"]
  /\ remaining = input.work
  /\ skipped = [e \in Executor |-> <<>>]
  /\ open = [e \in Executor |-> <<>>]
  /\ queue = [e \in Executor |-> <<>>]
  /\ result = [e \in Executor |-> NoResult]
  /\ cursor = [e \in Executor |-> 1]
  /\ half = [e \in Executor |-> "debit"]
  /\ drawn = [e \in Executor |-> {}]

-----------------------------------------------------------------------------
(* Grouping: _create_parallel_batches                                      *)

\* (A bug for comparison: what is skipped comes back in reverse.)
BugScan(e) ==
  /\ stage[e] = "group"
  /\ remaining[e] # <<>>
  /\ LET t == Head(remaining[e]) IN
       IF CanAdd(open[e], t)
       THEN /\ open' = [open EXCEPT ![e] = Append(@, t)]
            /\ UNCHANGED skipped
       ELSE /\ skipped' = [skipped EXCEPT ![e] = <<t>> \o @]
            /\ UNCHANGED open
  /\ remaining' = [remaining EXCEPT ![e] = Tail(@)]
  /\ UNCHANGED <<input, accounts, stage, queue, result, cursor, half, drawn>>

\* The for loop over remaining_transactions: the next one joins the batch
\* unless it conflicts with a transaction already IN THE BATCH; those skipped
\* before it are not looked at.
Scan(e) ==
  /\ stage[e] = "group"
  /\ remaining[e] # <<>>
  /\ LET t == Head(remaining[e]) IN
       IF CanAdd(open[e], t)
       THEN /\ open' = [open EXCEPT ![e] = Append(@, t)]
            /\ UNCHANGED skipped
       ELSE /\ skipped' = [skipped EXCEPT ![e] = Append(@, t)]
            /\ UNCHANGED open
  /\ remaining' = [remaining EXCEPT ![e] = Tail(@)]
  /\ UNCHANGED <<input, accounts, stage, queue, result, cursor, half, drawn>>

\* The end of a pass: the batch is complete and the skipped transactions are
\* what remains; when none remains the batches are executed.
CloseBatch(e) ==
  /\ stage[e] = "group"
  /\ remaining[e] = <<>>
  /\ queue' = [queue EXCEPT ![e] = Append(@, open[e])]
  /\ open' = [open EXCEPT ![e] = <<>>]
  /\ remaining' = [remaining EXCEPT ![e] = skipped[e]]
  /\ skipped' = [skipped EXCEPT ![e] = <<>>]
  /\ stage' = [stage EXCEPT ![e] = IF skipped[e] = <<>> THEN "read" ELSE "group"]
  /\ UNCHANGED <<input, accounts, result, cursor, half, drawn>>

-----------------------------------------------------------------------------
(* Executing the head batch: execute_batch and _execute_single_transaction *)

InBatch(e, t) == \E i \in DOMAIN Head(queue[e]) : Head(queue[e])[i] = t

\* (A bug for comparison: any positive balance will do.)
BugReadSender(e, t) ==
  /\ stage[e] = "read"
  /\ InBatch(e, t)
  /\ result[e][t] = "none"
  /\ accounts' = Touch(accounts, {From[t]})
  /\ result' = [result EXCEPT ![e][t] =
                  IF Balance(accounts, From[t]) = 0 THEN "short" ELSE "enough"]
  /\ drawn' = [drawn EXCEPT ![e] = @ \ {From[t]}]
  /\ UNCHANGED <<input, stage, grouping, queue, cursor, half>>

\* A worker reads the sender's balance, which decides the outcome.
ReadSender(e, t) ==
  /\ stage[e] = "read"
  /\ InBatch(e, t)
  /\ result[e][t] = "none"
  /\ accounts' = Touch(accounts, {From[t]})
  /\ result' = [result EXCEPT ![e][t] =
                  IF Balance(accounts, From[t]) < Amount[t] THEN "short" ELSE "enough"]
  /\ drawn' = [drawn EXCEPT ![e] = @ \ {From[t]}]
  /\ UNCHANGED <<input, stage, grouping, queue, cursor, half>>

\* (A bug for comparison: the outcome of the check is dropped.)
BugReadReceiver(e, t) ==
  /\ stage[e] = "read"
  /\ InBatch(e, t)
  /\ result[e][t] \in {"enough", "short"}
  /\ accounts' = Touch(accounts, {To[t]})
  /\ result' = [result EXCEPT ![e][t] = "ok"]
  /\ UNCHANGED <<input, stage, grouping, queue, cursor, half, drawn>>

\* It reads the receiver's balance too, only to create the account.
ReadReceiver(e, t) ==
  /\ stage[e] = "read"
  /\ InBatch(e, t)
  /\ result[e][t] \in {"enough", "short"}
  /\ accounts' = Touch(accounts, {To[t]})
  /\ result' = [result EXCEPT ![e][t] = IF @ = "enough" THEN "ok" ELSE "failed"]
  /\ UNCHANGED <<input, stage, grouping, queue, cursor, half, drawn>>

\* (Bugs for comparison: the wait is for successes only; the first position is 0.)
BugBatchReadOk(e) ==
  /\ stage[e] = "read"
  /\ \A t \in Tx : InBatch(e, t) => result[e][t] = "ok"
  /\ stage' = [stage EXCEPT ![e] = "apply"]
  /\ cursor' = [cursor EXCEPT ![e] = 1]
  /\ half' = [half EXCEPT ![e] = "debit"]
  /\ UNCHANGED <<input, accounts, grouping, queue, result, drawn>>

BugBatchReadZero(e) ==
  /\ stage[e] = "read"
  /\ \A t \in Tx : InBatch(e, t) => result[e][t] \in {"ok", "failed"}
  /\ stage' = [stage EXCEPT ![e] = "apply"]
  /\ cursor' = [cursor EXCEPT ![e] = 0]
  /\ half' = [half EXCEPT ![e] = "debit"]
  /\ UNCHANGED <<input, accounts, grouping, queue, result, drawn>>

\* as_completed has returned every future: the deltas are applied.
BatchRead(e) ==
  /\ stage[e] = "read"
  /\ \A t \in Tx : InBatch(e, t) => result[e][t] \in {"ok", "failed"}
  /\ stage' = [stage EXCEPT ![e] = "apply"]
  /\ cursor' = [cursor EXCEPT ![e] = 1]
  /\ half' = [half EXCEPT ![e] = "debit"]
  /\ UNCHANGED <<input, accounts, grouping, queue, result, drawn>>

-----------------------------------------------------------------------------
(* Applying the head batch: _apply_batch_state_changes                     *)

Applying(e) == stage[e] = "apply" /\ cursor[e] \in DOMAIN Head(queue[e])
Current(e) == Head(queue[e])[cursor[e]]

\* What e lowers is drawn for the other executors.
Draws(e) ==
  drawn' = [f \in Executor |->
              IF f = e THEN drawn[f]
              ELSE drawn[f] \cup {a \in DOMAIN accounts : accounts'[a] < accounts[a]}]

\* (A bug for comparison: the loop goes on to the next transaction.)
BugApplyDebit(e) ==
  /\ Applying(e)
  /\ result[e][Current(e)] = "ok"
  /\ ~ SelfTransfer(Current(e))
  /\ half[e] = "debit"
  /\ accounts' = UpdateBalance(accounts, From[Current(e)], -Amount[Current(e)])
  /\ cursor' = [cursor EXCEPT ![e] = @ + 1]
  /\ Draws(e)
  /\ UNCHANGED <<input, stage, grouping, queue, result, half>>

\* The sender's delta.  The value update_balance returns is ignored.
ApplyDebit(e) ==
  /\ Applying(e)
  /\ result[e][Current(e)] = "ok"
  /\ ~ SelfTransfer(Current(e))
  /\ half[e] = "debit"
  /\ accounts' = UpdateBalance(accounts, From[Current(e)], -Amount[Current(e)])
  /\ half' = [half EXCEPT ![e] = "credit"]
  /\ Draws(e)
  /\ UNCHANGED <<input, stage, grouping, queue, result, cursor>>

\* The receiver's delta; the only one of a transfer to oneself.
ApplyCredit(e) ==
  /\ Applying(e)
  /\ result[e][Current(e)] = "ok"
  /\ half[e] = "credit" \/ SelfTransfer(Current(e))
  /\ accounts' = UpdateBalance(accounts, To[Current(e)], Amount[Current(e)])
  /\ half' = [half EXCEPT ![e] = "debit"]
  /\ cursor' = [cursor EXCEPT ![e] = @ + 1]
  /\ Draws(e)
  /\ UNCHANGED <<input, stage, grouping, queue, result>>

SkipFailed(e) ==
  /\ Applying(e)
  /\ result[e][Current(e)] = "failed"
  /\ cursor' = [cursor EXCEPT ![e] = @ + 1]
  /\ UNCHANGED <<input, accounts, stage, grouping, queue, result, half, drawn>>

\* The next batch, or the end of execute_transactions_parallel.
NextBatch(e) ==
  /\ stage[e] = "apply"
  /\ ~ Applying(e)
  /\ queue' = [queue EXCEPT ![e] = Tail(@)]
  /\ result' = [result EXCEPT ![e] = NoResult]
  /\ stage' = [stage EXCEPT ![e] = IF Tail(queue[e]) = <<>> THEN "done" ELSE "read"]
  /\ UNCHANGED <<input, accounts, grouping, cursor, half, drawn>>

-----------------------------------------------------------------------------
Step(e) ==
  \/ Scan(e)
  \/ CloseBatch(e)
  \/ \E t \in Tx : ReadSender(e, t) \/ ReadReceiver(e, t)
  \/ BatchRead(e)
  \/ ApplyDebit(e)
  \/ ApplyCredit(e)
  \/ SkipFailed(e)
  \/ NextBatch(e)

Next == \E e \in Executor : Step(e)

Spec == Init /\ [][Next]_vars

\* Every thread keeps running.
FairSpec == Spec /\ \A e \in Executor : WF_vars(Step(e))
-----------------------------------------------------------------------------
(* Properties *)

\* The debit of the current transaction, checked before the batch, is next.
Debiting(e) ==
  /\ Applying(e)
  /\ result[e][Current(e)] = "ok"
  /\ half[e] = "debit"
  /\ ~ SelfTransfer(Current(e))

\* The check and the debit are separate accesses to the account, and any number
\* of threads execute on it at once: a debit that passed the check finds its funds,
\* unless another thread has taken from this very account in between.  Its own
\* batch never does.
RefusedInRaceOnly ==
  \A e \in Executor :
    LET t == Current(e) IN
      Debiting(e) => Balance(accounts, From[t]) >= Amount[t] \/ From[t] \in drawn[e]

\* An amount that has left the sender and not yet reached the receiver.
InFlight(e) ==
  IF Applying(e) /\ half[e] = "credit" THEN Amount[Current(e)] ELSE 0

\* A step of e makes the funds m.
Makes(e, m) ==
  /\ \A f \in Executor \ {e} : InFlight(f)' = InFlight(f)
  /\ Total(accounts') + InFlight(e)' = Total(accounts) + InFlight(e) + m

\* The ways to make funds out of nothing: the debit was refused because another
\* thread took the funds after the check, and update_balance returned False in
\* vain; a transfer to oneself has lost its debit; a receiver who cannot pay a
\* negative amount is not debited, after its sender was credited.
Unpaid(e) ==
  LET t == Current(e) IN
    \/ /\ Debiting(e) /\ From[t] \in drawn[e] /\ Balance(accounts, From[t]) < Amount[t]
       /\ Makes(e, Amount[t])
    \/ /\ Applying(e) /\ SelfTransfer(t)
       /\ Makes(e, Amount[t])
    \/ /\ Applying(e) /\ half[e] = "credit" /\ Balance(accounts, To[t]) + Amount[t] < 0
       /\ Makes(e, -Amount[t])

\* However many threads execute, a step moves funds between accounts and adds or
\* loses none, in these three cases excepted: the balances and the amounts
\* between their debit and their credit are accounted for one step at a time.
FundsKept == [][\E e \in Executor : Makes(e, 0) \/ Unpaid(e)]_vars

\* No other thread has anything to execute.
Alone(e) == \A f \in Executor \ {e} : input.work[f] = <<>>

\* When the executor returns, whatever order its workers read in, the ledger
\* is the one the batches define: the state root is deterministic, which is
\* what re-execution by the validators relies on.  They execute on an account
\* model of their own, no other thread on it.
MatchesExecute ==
  \A e \in Executor :
    stage[e] = "done" /\ Alone(e) => accounts = Execute(input.ledger, input.work[e])

\* The batches formed step by step are those of the function Batches.
FormsBatches ==
  \A e \in Executor :
    (stage[e] = "read" /\ result[e] = NoResult) => IsSuffix(queue[e], Batches(input.work[e]))

\* Every executor returns: no batch waits forever and no transaction is left
\* out of the batches.
Terminates == <>(\A e \in Executor : stage[e] = "done")
=============================================================================
