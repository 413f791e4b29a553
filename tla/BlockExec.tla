----------------------------- MODULE BlockExec ------------------------------
(***************************************************************************)
(* The Sealevel executor as functions of its input: how a list of          *)
(* transactions is split into batches and what executing it does to a      *)
(* ledger.  Sealevel.tla models the same executor step by step with its    *)
(* worker threads; the run Sealevel_threads shows that the two agree.      *)
(***************************************************************************)
EXTENDS Ledger, SequencesExt, FiniteSets

\* The next transaction of a pass joins the new batch or waits for a later one.
Place(acc, t) ==
  IF CanAdd(acc.batch, t) THEN [acc EXCEPT !.batch = Append(@, t)]
                          ELSE [acc EXCEPT !.rest = Append(@, t)]

\* One pass of the while loop of _create_parallel_batches: the transactions
\* taken into the new batch and those that remain, both in order.
Peel(txs) == FoldLeft(Place, [batch |-> <<>>, rest |-> <<>>], txs)

NextPass(acc, t) ==
  IF acc.rest = <<>> THEN acc
  ELSE [done |-> Append(acc.done, Peel(acc.rest).batch), rest |-> Peel(acc.rest).rest]

\* _create_parallel_batches: peel until nothing remains.  A pass takes at
\* least one transaction, so Len(txs) passes are enough.
Batches(txs) == FoldLeft(NextPass, [done |-> <<>>, rest |-> txs], txs).done

\* A transaction of a batch is checked on the ledger b from before the batch; its
\* deltas are applied to the ledger the results before it have led to.
ApplyResult(b, ledger, t) ==
  IF Balance(b, From[t]) >= Amount[t] THEN ApplyDeltas(ledger, t) ELSE ledger

\* The accounts read by the transactions of a list.
Reads(txs) == UNION {Accesses(txs[i]) : i \in DOMAIN txs}

\* (A bug for comparison: the deltas of failed transactions are applied too.)
BugExecuteBatch(b, batch) == FoldLeft(ApplyDeltas, b, batch)

\* execute_batch followed by _apply_batch_state_changes: every transaction of
\* the batch reads the ledger as it was before the batch; then the deltas of
\* those that had enough balance are applied in batch order.
ExecuteBatch(b, batch) ==
  FoldLeft(LAMBDA ledger, t : ApplyResult(b, ledger, t), Touch(b, Reads(batch)), batch)

\* execute_transactions_parallel: the ledger after all the batches.  The state
\* root is a hash of every existing account and its balance, so it stands for
\* the resulting ledger itself.
Execute(b, txs) == FoldLeft(ExecuteBatch, b, Batches(txs))

\* Reference: the transactions executed one after the other in list order.
ExecuteOne(b, t) ==
  LET read == Touch(b, Accesses(t))
  IN  IF read[From[t]] >= Amount[t] THEN ApplyDeltas(read, t) ELSE read

ExecuteInOrder(b, txs) == FoldLeft(ExecuteOne, b, txs)

\* How often a transaction is in a list, and in the lists of a list.
Occurs(txs, t) == Cardinality({i \in DOMAIN txs : txs[i] = t})
OccursIn(batches, t) == FoldLeft(LAMBDA n, batch : n + Occurs(batch, t), 0, batches)

\* The funds of a ledger.
Total(b) == FoldFunction(+, 0, b)
=============================================================================
