--------------------------- MODULE SealevelProofs ---------------------------
(***************************************************************************)
(* Proofs about the executor, for every set of threads, accounts,          *)
(* transactions, lists and ledgers: the type invariant; a debit is refused *)
(* only in a race; the batches formed are those of the function Batches;   *)
(* the ledger a thread ends with, when no other executes, is the one the   *)
(* function Execute gives; what a step makes of the funds.                 *)
(***************************************************************************)
EXTENDS Sealevel, BlockExecProofs, SequenceTheorems, TLAPS

\* An update keeps the ledger a ledger (no balance becomes negative).
LEMMA UpdateLedger ==
  ASSUME NEW b, IsLedger(b), NEW a \in Account, NEW d \in Int
  PROVE  IsLedger(UpdateBalance(b, a, d))
<1>1. CASE Balance(b, a) + d < 0
  BY <1>1 DEF UpdateBalance
<1>2. CASE ~ (Balance(b, a) + d < 0)
  <2> DEFINE new == [x \in DOMAIN b \cup {a} |-> Balance(b, x) + (IF x = a THEN d ELSE 0)]
  <2>1. \A x \in DOMAIN b \cup {a} : Balance(b, x) \in Nat
    BY DEF IsLedger, Balance
  <2>2. \A x \in DOMAIN b \cup {a} : new[x] \in Nat
    BY <2>1, <1>2
  <2>3. IsLedger(new)
    BY <2>2 DEF IsLedger
  <2> QED
    BY <1>2, <2>3 DEF UpdateBalance
<1> QED
  BY <1>1, <1>2

\* An update lowers no balance but the one it debits.
LEMMA UpdateKeeps ==
  ASSUME NEW b, IsLedger(b), NEW a \in Account, NEW d \in Int,
         NEW x \in Account, x # a \/ d >= 0
  PROVE  Balance(UpdateBalance(b, a, d), x) >= Balance(b, x)
<1>1. Balance(b, x) \in Nat /\ Balance(b, a) \in Nat
  BY DEF IsLedger, Balance
<1>2. CASE Balance(b, a) + d < 0
  BY <1>1, <1>2 DEF UpdateBalance
<1>3. CASE ~ (Balance(b, a) + d < 0)
  BY <1>1, <1>3 DEF UpdateBalance, Balance
<1> QED
  BY <1>2, <1>3

-----------------------------------------------------------------------------
(* Type correctness *)

USE DEF Stages, Results, grouping

\* What has to be known of the head batch to use it.
Shape == \A e \in Executor : stage[e] \in {"read", "apply"} => queue[e] # <<>>

LEMMA TypeInit == Init => TypeOK /\ Shape
<1> SUFFICES ASSUME Init PROVE TypeOK /\ Shape
  OBVIOUS
<1>1. input.work \in [Executor -> Seq(Tx)] /\ IsLedger(input.ledger)
  BY SealevelAssumption DEF Init
<1>2. \A e \in Executor : stage[e] \in {"done", "group"}
  BY DEF Init
<1> QED
  BY <1>1, <1>2 DEF Init, TypeOK, Shape, NoResult

LEMMA TypeStep == TypeOK /\ Shape /\ [Next]_vars => TypeOK' /\ Shape'
<1> SUFFICES ASSUME TypeOK, Shape, [Next]_vars PROVE TypeOK' /\ Shape'
  OBVIOUS
<1>1. CASE UNCHANGED vars
  BY <1>1 DEF vars, TypeOK, Shape
<1>2. ASSUME NEW e \in Executor, Scan(e) PROVE TypeOK' /\ Shape'
  <2>1. Head(remaining[e]) \in Tx /\ Tail(remaining[e]) \in Seq(Tx)
    BY <1>2 DEF TypeOK, Scan
  <2>2. /\ Append(open[e], Head(remaining[e])) \in Seq(Tx)
        /\ Append(skipped[e], Head(remaining[e])) \in Seq(Tx)
    BY <2>1 DEF TypeOK
  <2>3. open' \in [Executor -> Seq(Tx)] /\ skipped' \in [Executor -> Seq(Tx)]
    <3>1. open \in [Executor -> Seq(Tx)] /\ skipped \in [Executor -> Seq(Tx)]
      BY DEF TypeOK
    <3>2. \/ /\ open' = [open EXCEPT ![e] = Append(@, Head(remaining[e]))]
             /\ skipped' = skipped
          \/ /\ skipped' = [skipped EXCEPT ![e] = Append(@, Head(remaining[e]))]
             /\ open' = open
      BY <1>2 DEF Scan
    <3> QED
      BY <2>2, <3>1, <3>2
  <2> QED
    BY <1>2, <2>1, <2>3 DEF TypeOK, Shape, Scan
<1>3. ASSUME NEW e \in Executor, CloseBatch(e) PROVE TypeOK' /\ Shape'
  <2>1. queue[e] \in Seq(Seq(Tx)) /\ open[e] \in Seq(Tx)
    BY DEF TypeOK
  <2>2. Append(queue[e], open[e]) \in Seq(Seq(Tx)) /\ Append(queue[e], open[e]) # <<>>
    BY <2>1, AppendProperties
  <2> QED
    BY <1>3, <2>2 DEF TypeOK, Shape, CloseBatch
<1>4. ASSUME NEW e \in Executor, NEW t \in Tx, ReadSender(e, t) PROVE TypeOK' /\ Shape'
  <2>1. IsLedger(accounts')
    BY <1>4, TouchLemma, TxTypes DEF TypeOK, ReadSender
  <2> QED
    BY <1>4, <2>1 DEF TypeOK, Shape, ReadSender
<1>5. ASSUME NEW e \in Executor, NEW t \in Tx, ReadReceiver(e, t) PROVE TypeOK' /\ Shape'
  <2>1. IsLedger(accounts')
    BY <1>5, TouchLemma, TxTypes DEF TypeOK, ReadReceiver
  <2> QED
    BY <1>5, <2>1 DEF TypeOK, Shape, ReadReceiver
<1>6. ASSUME NEW e \in Executor, BatchRead(e) PROVE TypeOK' /\ Shape'
  BY <1>6 DEF TypeOK, Shape, BatchRead
<1>7. ASSUME NEW e \in Executor, Applying(e) PROVE Current(e) \in Tx
  <2>1. Head(queue[e]) \in Seq(Tx)
    BY <1>7 DEF TypeOK, Shape, Applying
  <2> QED
    BY <1>7, <2>1 DEF Applying, Current
<1>d. ASSUME NEW e \in Executor, Draws(e) PROVE drawn' \in [Executor -> SUBSET Account]
  <2>1. DOMAIN accounts \subseteq Account /\ drawn \in [Executor -> SUBSET Account]
    BY DEF TypeOK, IsLedger
  <2> QED
    BY <1>d, <2>1 DEF Draws
<1>8. ASSUME NEW e \in Executor, ApplyDebit(e) PROVE TypeOK' /\ Shape'
  <2>1. Current(e) \in Tx
    BY <1>7, <1>8 DEF ApplyDebit
  <2>2. IsLedger(accounts')
    BY <1>8, <2>1, UpdateLedger, TxTypes DEF TypeOK, ApplyDebit
  <2>3. drawn' \in [Executor -> SUBSET Account]
    BY <1>8, <1>d DEF ApplyDebit
  <2> QED
    BY <1>8, <2>2, <2>3 DEF TypeOK, Shape, ApplyDebit
<1>9. ASSUME NEW e \in Executor, ApplyCredit(e) PROVE TypeOK' /\ Shape'
  <2>1. Current(e) \in Tx
    BY <1>7, <1>9 DEF ApplyCredit
  <2>2. IsLedger(accounts')
    BY <1>9, <2>1, UpdateLedger, TxTypes DEF TypeOK, ApplyCredit
  <2>3. drawn' \in [Executor -> SUBSET Account]
    BY <1>9, <1>d DEF ApplyCredit
  <2> QED
    <3>1. half' \in [Executor -> {"debit", "credit"}] /\ cursor' \in [Executor -> Nat \ {0}]
      BY <1>9 DEF TypeOK, ApplyCredit
    <3> QED
      BY <1>9, <2>2, <2>3, <3>1 DEF TypeOK, Shape, ApplyCredit
<1>10. ASSUME NEW e \in Executor, SkipFailed(e) PROVE TypeOK' /\ Shape'
  BY <1>10 DEF TypeOK, Shape, SkipFailed
<1>11. ASSUME NEW e \in Executor, NextBatch(e) PROVE TypeOK' /\ Shape'
  <2>1. Tail(queue[e]) \in Seq(Seq(Tx))
    BY <1>11 DEF TypeOK, Shape, NextBatch
  <2> QED
    BY <1>11, <2>1 DEF TypeOK, Shape, NextBatch, NoResult
<1> QED
  BY <1>1, <1>2, <1>3, <1>4, <1>5, <1>6, <1>8, <1>9, <1>10, <1>11 DEF Next, Step

\* Any number of threads may execute at once: every balance stays a natural
\* number, whatever the interleaving (update_balance refuses what would make
\* one negative).
THEOREM TypeCorrect == Spec => []TypeOK
BY TypeInit, TypeStep, PTL DEF Spec

-----------------------------------------------------------------------------
(* A debit is refused only in a race                                       *)

\* No two transactions of the list touch one account.
Clear(s) == \A i, j \in DOMAIN s : i # j => ~ Conflict(s[i], s[j])

OpenClear == \A e \in Executor : Clear(open[e])
QueueClear == \A e \in Executor : \A k \in DOMAIN queue[e] : Clear(queue[e][k])

\* No result before the first batch starts.
Fresh == \A e \in Executor : stage[e] = "group" => result[e] = NoResult

\* The debit of the i-th transaction of the head batch is still to come.
DebitAhead(e, i) ==
  \/ stage[e] = "read"
  \/ stage[e] = "apply" /\ (i > cursor[e] \/ (i = cursor[e] /\ half[e] = "debit"))

\* t has its funds, or another thread than e has taken from its sender.
Covered(e, t) == Balance(accounts, From[t]) >= Amount[t] \/ From[t] \in drawn[e]

\* Whoever passed the check and has not been debited is covered.
Funded ==
  \A e \in Executor : \A i \in DOMAIN Head(queue[e]) :
    DebitAhead(e, i) /\ result[e][Head(queue[e])[i]] \in {"enough", "ok"}
      => Covered(e, Head(queue[e])[i])

SafeInv == TypeOK /\ Shape /\ OpenClear /\ QueueClear /\ Fresh /\ Funded

\* The head batch is a list of transactions that do not conflict.
LEMMA HeadBatch ==
  ASSUME TypeOK, Shape, QueueClear, NEW e \in Executor, stage[e] \in {"read", "apply"}
  PROVE  Head(queue[e]) \in Seq(Tx) /\ Clear(Head(queue[e]))
<1>1. queue[e] # <<>> /\ queue[e] \in Seq(Seq(Tx))
  BY DEF TypeOK, Shape
<1>2. 1 \in DOMAIN queue[e] /\ Head(queue[e]) = queue[e][1]
  BY <1>1
<1> QED
  BY <1>1, <1>2 DEF QueueClear

\* Appending a transaction that can be added keeps a batch free of conflicts.
LEMMA AppendClear ==
  ASSUME NEW s \in Seq(Tx), NEW t \in Tx, Clear(s), CanAdd(s, t)
  PROVE  Clear(Append(s, t))
<1>1. \A i \in DOMAIN s : ~ Conflict(t, s[i]) /\ ~ Conflict(s[i], t)
  BY DEF CanAdd, Conflict
<1>2. DOMAIN Append(s, t) = 1 .. Len(s) + 1
  OBVIOUS
<1>3. \A i \in 1 .. Len(s) : i \in DOMAIN s /\ Append(s, t)[i] = s[i]
  OBVIOUS
<1>4. Append(s, t)[Len(s) + 1] = t
  OBVIOUS
<1> SUFFICES ASSUME NEW i \in 1 .. Len(s) + 1, NEW j \in 1 .. Len(s) + 1, i # j
             PROVE  ~ Conflict(Append(s, t)[i], Append(s, t)[j])
  BY <1>2 DEF Clear
<1>5. CASE i \in 1 .. Len(s) /\ j \in 1 .. Len(s)
  BY <1>3, <1>5 DEF Clear
<1>6. CASE i \in 1 .. Len(s) /\ j = Len(s) + 1
  BY <1>1, <1>3, <1>4, <1>6
<1>7. CASE i = Len(s) + 1 /\ j \in 1 .. Len(s)
  BY <1>1, <1>3, <1>4, <1>7
<1> QED
  BY <1>5, <1>6, <1>7

LEMMA SafeInit == Init => SafeInv
<1> SUFFICES ASSUME Init PROVE SafeInv
  OBVIOUS
<1>1. OpenClear /\ QueueClear
  BY DEF Init, OpenClear, QueueClear, Clear
<1>2. Fresh /\ Funded
  BY DEF Init, Fresh, Funded, DebitAhead
<1> QED
  BY <1>1, <1>2, TypeInit DEF SafeInv

\* The batches formed stay free of conflicts.
LEMMA ClearStep ==
  SafeInv /\ [Next]_vars => OpenClear' /\ QueueClear'
<1> SUFFICES ASSUME SafeInv, [Next]_vars PROVE OpenClear' /\ QueueClear'
  OBVIOUS
<1> USE DEF SafeInv
<1>1. ASSUME NEW e \in Executor, Scan(e) PROVE OpenClear' /\ QueueClear'
  <2>1. open[e] \in Seq(Tx) /\ Head(remaining[e]) \in Tx
    BY <1>1 DEF TypeOK, Scan
  <2>2. CASE CanAdd(open[e], Head(remaining[e]))
    <3>1. Clear(Append(open[e], Head(remaining[e])))
      BY <2>1, <2>2, AppendClear DEF OpenClear
    <3> QED
      BY <1>1, <2>2, <3>1 DEF Scan, OpenClear, QueueClear, TypeOK
  <2>3. CASE ~ CanAdd(open[e], Head(remaining[e]))
    BY <1>1, <2>3 DEF Scan, OpenClear, QueueClear
  <2> QED
    BY <2>2, <2>3
<1>2. ASSUME NEW e \in Executor, CloseBatch(e) PROVE OpenClear' /\ QueueClear'
  <2>1. queue[e] \in Seq(Seq(Tx)) /\ open[e] \in Seq(Tx)
    BY DEF TypeOK
  <2>2. \A k \in DOMAIN Append(queue[e], open[e]) :
          \/ k \in DOMAIN queue[e] /\ Append(queue[e], open[e])[k] = queue[e][k]
          \/ Append(queue[e], open[e])[k] = open[e]
    BY <2>1
  <2>3. \A k \in DOMAIN Append(queue[e], open[e]) : Clear(Append(queue[e], open[e])[k])
    BY <2>2 DEF OpenClear, QueueClear
  <2>4. Clear(<<>>)
    BY DEF Clear
  <2> QED
    BY <1>2, <2>3, <2>4 DEF CloseBatch, OpenClear, QueueClear, TypeOK
<1>3. ASSUME NEW e \in Executor, NextBatch(e) PROVE OpenClear' /\ QueueClear'
  <2>1. queue[e] \in Seq(Seq(Tx)) /\ queue[e] # <<>>
    BY <1>3 DEF TypeOK, Shape, NextBatch
  <2>2. \A k \in DOMAIN Tail(queue[e]) :
          k + 1 \in DOMAIN queue[e] /\ Tail(queue[e])[k] = queue[e][k + 1]
    BY <2>1
  <2>3. \A k \in DOMAIN Tail(queue[e]) : Clear(Tail(queue[e])[k])
    BY <2>2 DEF QueueClear
  <2> QED
    BY <1>3, <2>3 DEF NextBatch, OpenClear, QueueClear, TypeOK
<1>4. CASE UNCHANGED <<open, queue>>
  BY <1>4 DEF OpenClear, QueueClear
<1>5. CASE UNCHANGED vars
  BY <1>4, <1>5 DEF vars
<1>6. ASSUME NEW e \in Executor, NEW t \in Tx, ReadSender(e, t) \/ ReadReceiver(e, t)
      PROVE  UNCHANGED <<open, queue>>
  BY <1>6 DEF ReadSender, ReadReceiver
<1>7. ASSUME NEW e \in Executor,
             BatchRead(e) \/ ApplyDebit(e) \/ ApplyCredit(e) \/ SkipFailed(e)
      PROVE  UNCHANGED <<open, queue>>
  BY <1>7 DEF BatchRead, ApplyDebit, ApplyCredit, SkipFailed
<1> QED
  BY <1>1, <1>2, <1>3, <1>4, <1>5, <1>6, <1>7 DEF Next, Step

LEMMA FreshStep == SafeInv /\ [Next]_vars => Fresh'
<1> SUFFICES ASSUME SafeInv, [Next]_vars PROVE Fresh'
  OBVIOUS
<1> USE DEF SafeInv, Fresh, TypeOK
<1>1. CASE UNCHANGED vars
  BY <1>1 DEF vars
<1>2. ASSUME NEW e \in Executor, Scan(e) \/ CloseBatch(e) PROVE Fresh'
  BY <1>2 DEF Scan, CloseBatch
<1>3. ASSUME NEW e \in Executor, NEW t \in Tx, ReadSender(e, t) \/ ReadReceiver(e, t)
      PROVE  Fresh'
  BY <1>3 DEF ReadSender, ReadReceiver
<1>4. ASSUME NEW e \in Executor, BatchRead(e) \/ NextBatch(e) PROVE Fresh'
  BY <1>4 DEF BatchRead, NextBatch
<1>5. ASSUME NEW e \in Executor, ApplyDebit(e) \/ ApplyCredit(e) \/ SkipFailed(e)
      PROVE  Fresh'
  BY <1>5 DEF ApplyDebit, ApplyCredit, SkipFailed
<1> QED
  BY <1>1, <1>2, <1>3, <1>4, <1>5 DEF Next, Step

\* A step of one executor moves no other.
LEMMA OthersStay ==
  ASSUME TypeOK, NEW e \in Executor, Step(e), NEW f \in Executor, f # e
  PROVE  /\ stage'[f] = stage[f] /\ remaining'[f] = remaining[f] /\ skipped'[f] = skipped[f]
         /\ open'[f] = open[f] /\ queue'[f] = queue[f]
         /\ result'[f] = result[f] /\ cursor'[f] = cursor[f] /\ half'[f] = half[f]
<1> USE DEF TypeOK
<1>1. CASE Scan(e)
  BY <1>1 DEF Scan
<1>2. CASE CloseBatch(e)
  BY <1>2 DEF CloseBatch
<1>3. CASE \E t \in Tx : ReadSender(e, t) \/ ReadReceiver(e, t)
  BY <1>3 DEF ReadSender, ReadReceiver
<1>4. CASE BatchRead(e) \/ ApplyDebit(e) \/ ApplyCredit(e) \/ SkipFailed(e)
  BY <1>4 DEF BatchRead, ApplyDebit, ApplyCredit, SkipFailed
<1>5. CASE NextBatch(e)
  BY <1>5 DEF NextBatch
<1> QED
  BY <1>1, <1>2, <1>3, <1>4, <1>5 DEF Step

\* A read changes no balance.
LEMMA ReadKeeps ==
  ASSUME TypeOK, NEW a \in Account, accounts' = Touch(accounts, {a})
  PROVE  \A x : Balance(accounts', x) = Balance(accounts, x)
<1>1. IsLedger(accounts) /\ {a} \subseteq Account
  BY DEF TypeOK
<1> QED
  BY <1>1, TouchLemma

\* Whatever the others lower is drawn for an executor.
LEMMA OthersDraw ==
  ASSUME TypeOK, TypeOK', NEW e \in Executor, Step(e), NEW f \in Executor, f # e
  PROVE  /\ drawn[f] \subseteq drawn'[f]
         /\ \A a \in Account : Balance(accounts', a) >= Balance(accounts, a) \/ a \in drawn'[f]
<1>0. \A x : Balance(accounts, x) \in Nat /\ Balance(accounts', x) \in Nat
  BY BalanceTyped DEF TypeOK
<1>1. ASSUME drawn'[f] = drawn[f], \A x : Balance(accounts', x) = Balance(accounts, x)
      PROVE  /\ drawn[f] \subseteq drawn'[f]
             /\ \A a \in Account : Balance(accounts', a) >= Balance(accounts, a) \/ a \in drawn'[f]
  BY <1>0, <1>1
<1>2. CASE Scan(e) \/ CloseBatch(e) \/ BatchRead(e) \/ SkipFailed(e) \/ NextBatch(e)
  <2>1. accounts' = accounts /\ drawn' = drawn
    BY <1>2 DEF Scan, CloseBatch, BatchRead, SkipFailed, NextBatch
  <2> QED
    BY <1>1, <2>1
<1>3. CASE \E t \in Tx : ReadSender(e, t) \/ ReadReceiver(e, t)
  <2>1. PICK a \in Account : accounts' = Touch(accounts, {a})
    BY <1>3, TxTypes DEF ReadSender, ReadReceiver
  <2>2. drawn'[f] = drawn[f]
    BY <1>3 DEF ReadSender, ReadReceiver, TypeOK
  <2> QED
    BY <1>1, <2>1, <2>2, ReadKeeps
<1>4. CASE ApplyDebit(e) \/ ApplyCredit(e)
  <2>1. Draws(e)
    BY <1>4 DEF ApplyDebit, ApplyCredit
  <2>2. drawn'[f] = drawn[f] \cup {a \in DOMAIN accounts : accounts'[a] < accounts[a]}
    BY <2>1 DEF Draws
  <2>3. ASSUME NEW a \in Account, ~ (Balance(accounts', a) >= Balance(accounts, a))
        PROVE  a \in drawn'[f]
    <3>1. a \in DOMAIN accounts
      BY <1>0, <2>3 DEF Balance
    <3>2. a \in DOMAIN accounts'
      <4>1. DOMAIN accounts \subseteq DOMAIN accounts'
        BY <1>4 DEF ApplyDebit, ApplyCredit, UpdateBalance
      <4> QED
        BY <3>1, <4>1
    <3>3. accounts'[a] < accounts[a]
      BY <1>0, <2>3, <3>1, <3>2 DEF Balance
    <3> QED
      BY <2>2, <3>1, <3>3
  <2> QED
    BY <2>2, <2>3
<1> QED
  BY <1>2, <1>3, <1>4 DEF Step

\* The heart of the argument: a batch is free of conflicts, so the deltas of a
\* transaction take nothing from the senders of those after it.
LEMMA FundedOwn ==
  ASSUME SafeInv, TypeOK', Shape', NEW e \in Executor, Step(e), NEW i \in DOMAIN Head(queue'[e]),
         DebitAhead(e, i)', result'[e][Head(queue'[e])[i]] \in {"enough", "ok"}
  PROVE  Covered(e, Head(queue[e])[i])'
<1> USE DEF SafeInv
<1>0. TypeOK' /\ Shape'
  OBVIOUS
<1>2. /\ i \in DOMAIN Head(queue'[e]) /\ DebitAhead(e, i)' /\ Step(e)
      /\ result'[e][Head(queue'[e])[i]] \in {"enough", "ok"}
  OBVIOUS
<1>3. CASE Scan(e)
  BY <1>2, <1>3 DEF Scan, TypeOK, DebitAhead
<1>4. CASE CloseBatch(e)
  <2>1. Head(queue'[e])[i] \in Tx
    <3>1. queue[e] \in Seq(Seq(Tx)) /\ open[e] \in Seq(Tx)
      BY DEF TypeOK
    <3> DEFINE new == Append(queue[e], open[e])
    <3>2. new # <<>> /\ new \in Seq(Seq(Tx))
      BY <3>1, AppendProperties
    <3>3. queue'[e] = new
      BY <1>4 DEF CloseBatch, TypeOK
    <3>4. Head(queue'[e]) \in Seq(Tx)
      BY <3>2, <3>3
    <3> QED
      BY <1>2, <3>4
  <2>2. result'[e] = NoResult
    BY <1>4 DEF CloseBatch, Fresh
  <2> QED
    BY <1>2, <2>1, <2>2 DEF NoResult
<1> DEFINE batch == Head(queue[e])
<1>5. ASSUME stage[e] \in {"read", "apply"}
      PROVE  batch \in Seq(Tx) /\ Clear(batch)
  BY <1>5, HeadBatch
<1>6. CASE \E t \in Tx : ReadSender(e, t)
  <2> PICK t \in Tx : ReadSender(e, t)
    BY <1>6
  <2>1. accounts' = Touch(accounts, {From[t]}) /\ drawn'[e] = drawn[e] \ {From[t]}
    BY DEF ReadSender, TypeOK
  <2>2. queue' = queue /\ stage[e] = "read" /\ stage' = stage
    BY DEF ReadSender
  <2>3. batch \in Seq(Tx) /\ Clear(batch) /\ i \in DOMAIN batch
    BY <1>2, <1>5, <2>2
  <2>4. \A x : Balance(accounts', x) = Balance(accounts, x)
    BY <2>1, ReadKeeps, TxTypes
  <2>5. CASE batch[i] = t
    <3>1. ~ (Balance(accounts, From[t]) < Amount[t])
      BY <1>2, <2>2, <2>5 DEF ReadSender, TypeOK
    <3>2. Balance(accounts, From[t]) \in Nat /\ Amount[t] \in Int
      BY TxTypes, BalanceTyped DEF TypeOK
    <3>3. Balance(accounts', From[t]) >= Amount[t]
      BY <2>4, <3>1, <3>2
    <3> QED
      BY <2>2, <2>5, <3>3 DEF Covered
  <2>6. CASE batch[i] # t
    <3>1. result'[e][batch[i]] = result[e][batch[i]]
      BY <2>3, <2>6 DEF ReadSender, TypeOK
    <3>2. Covered(e, batch[i])
      BY <1>2, <2>2, <2>3, <3>1 DEF Funded, DebitAhead
    <3>3. From[batch[i]] # From[t]
      <4>1. PICK k \in DOMAIN batch : batch[k] = t
        BY DEF ReadSender, InBatch
      <4> QED
        BY <2>3, <2>6, <4>1 DEF Clear, Conflict, Accesses
    <3> QED
      BY <2>1, <2>2, <2>4, <3>2, <3>3 DEF Covered
  <2> QED
    BY <2>5, <2>6
<1>7. CASE \E t \in Tx : ReadReceiver(e, t)
  <2> PICK t \in Tx : ReadReceiver(e, t)
    BY <1>7
  <2>1. accounts' = Touch(accounts, {To[t]}) /\ drawn' = drawn
    BY DEF ReadReceiver
  <2>2. queue' = queue /\ stage[e] = "read" /\ stage' = stage
    BY DEF ReadReceiver
  <2>3. batch \in Seq(Tx) /\ i \in DOMAIN batch
    BY <1>2, <1>5, <2>2
  <2>4. \A x : Balance(accounts', x) = Balance(accounts, x)
    BY <2>1, ReadKeeps, TxTypes
  <2>5. result[e][batch[i]] \in {"enough", "ok"}
    BY <1>2, <2>2, <2>3 DEF ReadReceiver, TypeOK
  <2>6. Covered(e, batch[i])
    BY <1>2, <2>2, <2>3, <2>5 DEF Funded, DebitAhead
  <2> QED
    BY <2>1, <2>2, <2>4, <2>6 DEF Covered
<1>8. CASE BatchRead(e)
  <2>1. /\ queue' = queue /\ stage[e] = "read" /\ accounts' = accounts /\ result' = result
        /\ drawn' = drawn
    BY <1>8 DEF BatchRead
  <2>2. Covered(e, Head(queue[e])[i])
    BY <1>2, <2>1 DEF Funded, DebitAhead
  <2> QED
    BY <2>1, <2>2 DEF Covered
<1>9. ASSUME Applying(e)
      PROVE  /\ Current(e) \in Tx
             /\ cursor[e] \in Nat /\ i \in Nat
             /\ \A k \in DOMAIN batch : k # cursor[e] => ~ Conflict(batch[k], Current(e))
  <2>1. batch \in Seq(Tx) /\ Clear(batch) /\ cursor[e] \in DOMAIN batch
    BY <1>5, <1>9 DEF Applying
  <2>2. queue' = queue
    BY <1>2, <1>9 DEF Step, Applying, Scan, CloseBatch, ReadSender, ReadReceiver,
                      BatchRead, ApplyDebit, ApplyCredit, SkipFailed, NextBatch
  <2> QED
    BY <1>2, <2>1, <2>2 DEF Current, Clear
<1>k. ASSUME Applying(e), queue' = queue, stage' = stage, result' = result, drawn'[e] = drawn[e],
             i > cursor[e], NEW a \in Account, a \in Accesses(Current(e)), NEW d \in Int,
             accounts' = UpdateBalance(accounts, a, d)
      PROVE  Covered(e, batch[i])'
  <2>1. batch[i] \in Tx /\ i # cursor[e]
    BY <1>2, <1>5, <1>9, <1>k DEF Applying
  <2>2. From[batch[i]] # a /\ From[batch[i]] \in Account /\ Amount[batch[i]] \in Int
    BY <1>2, <1>9, <1>k, <2>1, TxTypes DEF Conflict, Accesses
  <2>3. Balance(accounts', From[batch[i]]) >= Balance(accounts, From[batch[i]])
    BY <1>k, <2>2, UpdateKeeps DEF TypeOK
  <2>4. Covered(e, batch[i])
    BY <1>2, <1>k DEF Funded, DebitAhead, Applying
  <2>5. Balance(accounts, From[batch[i]]) \in Nat /\ Balance(accounts', From[batch[i]]) \in Nat
    BY BalanceTyped DEF TypeOK
  <2> QED
    BY <1>k, <2>2, <2>3, <2>4, <2>5 DEF Covered
<1>10. CASE ApplyDebit(e)
  <2>1. Applying(e) /\ queue' = queue /\ stage' = stage /\ stage[e] = "apply" /\ result' = result
    BY <1>10 DEF ApplyDebit, Applying
  <2>2. half'[e] = "credit" /\ cursor' = cursor /\ drawn'[e] = drawn[e]
    BY <1>10 DEF ApplyDebit, Draws, TypeOK
  <2>3. i > cursor[e]
    BY <1>2, <2>1, <2>2 DEF DebitAhead
  <2>4. /\ From[Current(e)] \in Account /\ From[Current(e)] \in Accesses(Current(e))
        /\ -Amount[Current(e)] \in Int
    BY <1>9, <2>1, TxTypes DEF Accesses
  <2>5. accounts' = UpdateBalance(accounts, From[Current(e)], -Amount[Current(e)])
    BY <1>10 DEF ApplyDebit
  <2>6. Covered(e, batch[i])'
    BY <1>k, <2>1, <2>2, <2>3, <2>4, <2>5
  <2> QED
    BY <2>1, <2>6
<1>11. CASE ApplyCredit(e)
  <2>1. Applying(e) /\ queue' = queue /\ stage' = stage /\ stage[e] = "apply" /\ result' = result
    BY <1>11 DEF ApplyCredit, Applying
  <2>2. cursor'[e] = cursor[e] + 1 /\ drawn'[e] = drawn[e]
    BY <1>11 DEF ApplyCredit, Draws, TypeOK
  <2>3. i > cursor[e]
    BY <1>2, <1>9, <2>1, <2>2 DEF DebitAhead
  <2>4. /\ To[Current(e)] \in Account /\ To[Current(e)] \in Accesses(Current(e))
        /\ Amount[Current(e)] \in Int
    BY <1>9, <2>1, TxTypes DEF Accesses
  <2>5. accounts' = UpdateBalance(accounts, To[Current(e)], Amount[Current(e)])
    BY <1>11 DEF ApplyCredit
  <2>6. Covered(e, batch[i])'
    BY <1>k, <2>1, <2>2, <2>3, <2>4, <2>5
  <2> QED
    BY <2>1, <2>6
<1>12. CASE SkipFailed(e)
  <2>1. /\ Applying(e) /\ queue' = queue /\ stage' = stage /\ stage[e] = "apply"
        /\ result' = result /\ accounts' = accounts /\ drawn' = drawn
    BY <1>12 DEF SkipFailed, Applying
  <2>2. cursor'[e] = cursor[e] + 1
    BY <1>12 DEF SkipFailed, TypeOK
  <2>3. i > cursor[e]
    BY <1>2, <1>9, <2>1, <2>2 DEF DebitAhead
  <2>4. Covered(e, Head(queue[e])[i])
    BY <1>2, <2>1, <2>3 DEF Funded, DebitAhead
  <2> QED
    BY <2>1, <2>4 DEF Covered
<1>13. CASE NextBatch(e)
  <2>1. stage'[e] = "read" /\ result'[e] = NoResult
    BY <1>2, <1>13 DEF NextBatch, TypeOK, DebitAhead
  <2>2. queue'[e] # <<>> /\ queue'[e] \in Seq(Seq(Tx))
    BY <1>0, <2>1 DEF TypeOK, Shape
  <2>3. Head(queue'[e])[i] \in Tx
    BY <1>2, <2>2
  <2> QED
    BY <1>2, <2>1, <2>3 DEF NoResult
<1> QED
  BY <1>2, <1>3, <1>4, <1>6, <1>7, <1>8, <1>10, <1>11, <1>12, <1>13 DEF Step

\* Another executor's step leaves it covered, or draws from its sender.
LEMMA FundedStep == SafeInv /\ [Next]_vars => Funded'
<1> SUFFICES ASSUME SafeInv, [Next]_vars PROVE Funded'
  OBVIOUS
<1>0. TypeOK /\ TypeOK' /\ Shape /\ Shape' /\ QueueClear /\ Funded
  BY TypeStep DEF SafeInv
<1>1. CASE UNCHANGED vars
  BY <1>0, <1>1 DEF vars, Funded, Covered, DebitAhead
<1>2. ASSUME NEW f \in Executor, Step(f) PROVE Funded'
  <2> SUFFICES ASSUME NEW e \in Executor, NEW i \in DOMAIN Head(queue'[e]),
                      DebitAhead(e, i)', result'[e][Head(queue'[e])[i]] \in {"enough", "ok"}
               PROVE  Covered(e, Head(queue[e])[i])'
    BY DEF Funded
  <2>1. CASE e = f
    BY <1>0, <1>2, <2>1, FundedOwn
  <2>2. CASE e # f
    <3> DEFINE t == Head(queue[e])[i]
    <3>1. /\ stage'[e] = stage[e] /\ queue'[e] = queue[e] /\ result'[e] = result[e]
          /\ cursor'[e] = cursor[e] /\ half'[e] = half[e]
      BY <1>0, <1>2, <2>2, OthersStay
    <3>2. stage[e] \in {"read", "apply"} /\ DebitAhead(e, i)
      BY <3>1 DEF DebitAhead
    <3>3. t \in Tx
      BY <1>0, <3>1, <3>2, HeadBatch
    <3>4. Covered(e, t)
      BY <1>0, <3>1, <3>2 DEF Funded
    <3>5. From[t] \in Account /\ Amount[t] \in Int
      BY <3>3, TxTypes
    <3>6. /\ drawn[e] \subseteq drawn'[e]
          /\ Balance(accounts', From[t]) >= Balance(accounts, From[t]) \/ From[t] \in drawn'[e]
      BY <1>0, <1>2, <2>2, <3>5, OthersDraw
    <3>7. Balance(accounts, From[t]) \in Nat /\ Balance(accounts', From[t]) \in Nat
      BY <1>0, BalanceTyped DEF TypeOK
    <3>8. Balance(accounts', From[t]) >= Amount[t] \/ From[t] \in drawn'[e]
      <4> HIDE DEF t
      <4> QED
        BY <3>4, <3>5, <3>6, <3>7 DEF Covered
    <3> QED
      BY <3>1, <3>8 DEF Covered
  <2> QED
    BY <2>1, <2>2
<1> QED
  BY <1>1, <1>2 DEF Next

LEMMA SafeStep == SafeInv /\ [Next]_vars => SafeInv'
BY TypeStep, ClearStep, FreshStep, FundedStep DEF SafeInv

\* Whatever the other threads do, the balance a transaction was checked against is
\* there when its debit is applied, unless one of them has lowered it in between:
\* only then is the value update_balance returns, which
\* _apply_batch_state_changes drops, False for a debit.
THEOREM RefusalIsRace == Spec => []RefusedInRaceOnly
<1>1. SafeInv => RefusedInRaceOnly
  <2> SUFFICES ASSUME SafeInv, NEW e \in Executor, Debiting(e) PROVE Covered(e, Current(e))
    BY DEF RefusedInRaceOnly, Covered
  <2>1. DebitAhead(e, cursor[e]) /\ cursor[e] \in DOMAIN Head(queue[e])
    BY DEF Debiting, DebitAhead, Applying
  <2> QED
    BY <2>1 DEF SafeInv, Funded, Debiting, Current
<1> QED
  BY <1>1, SafeInit, SafeStep, PTL DEF Spec

-----------------------------------------------------------------------------
(* Lists in steps                                                          *)

\* What is left of a list after its first i elements.
Rest(s, i) == SubSeq(s, i + 1, Len(s))

\* The elements of a list up to the i-th and those after it.
LEMMA Parts ==
  ASSUME NEW E, NEW s \in Seq(E), NEW i \in 0 .. Len(s)
  PROVE  /\ SubSeq(s, 1, i) \in Seq(E) /\ Len(SubSeq(s, 1, i)) = i
         /\ SubSeq(s, 1, 0) = <<>> /\ SubSeq(s, 1, Len(s)) = s
         /\ Rest(s, i) \in Seq(E) /\ Rest(s, 0) = s
         /\ Rest(s, i) = <<>> <=> i = Len(s)
         /\ i < Len(s) => /\ i + 1 \in 1 .. Len(s) /\ s[i + 1] \in E
                          /\ SubSeq(s, 1, i + 1) = Append(SubSeq(s, 1, i), s[i + 1])
                          /\ Head(Rest(s, i)) = s[i + 1]
                          /\ Tail(Rest(s, i)) = Rest(s, i + 1)
<1>1. Len(s) \in Nat /\ i \in Nat /\ i <= Len(s)
  OBVIOUS
<1>2. SubSeq(s, 1, i) \in Seq(E) /\ Len(SubSeq(s, 1, i)) = i /\ SubSeq(s, 1, 0) = <<>>
  BY <1>1
<1>3. SubSeq(s, 1, Len(s)) = s
  BY <1>1
<1>4. Rest(s, i) \in Seq(E) /\ Len(Rest(s, i)) = Len(s) - i
  BY <1>1 DEF Rest
<1>5. Rest(s, 0) = s
  BY <1>3 DEF Rest
<1>6. Rest(s, i) = <<>> <=> i = Len(s)
  BY <1>1, <1>4
<1>7. ASSUME i < Len(s)
      PROVE  /\ i + 1 \in 1 .. Len(s) /\ s[i + 1] \in E
             /\ SubSeq(s, 1, i + 1) = Append(SubSeq(s, 1, i), s[i + 1])
             /\ Head(Rest(s, i)) = s[i + 1]
             /\ Tail(Rest(s, i)) = Rest(s, i + 1)
  <2>1. i + 1 \in 1 .. Len(s) /\ s[i + 1] \in E
    BY <1>1, <1>7
  <2>2. SubSeq(s, 1, i + 1) = Append(SubSeq(s, 1, i), s[i + 1])
    BY <1>1, <1>7
  <2>3. Head(Rest(s, i)) = s[i + 1]
    BY <1>1, <1>7 DEF Rest
  <2>4. Tail(Rest(s, i)) = Rest(s, i + 1)
    BY <1>1, <1>7 DEF Rest
  <2> QED
    BY <2>1, <2>2, <2>3, <2>4
<1> QED
  BY <1>2, <1>3, <1>4, <1>5, <1>6, <1>7

\* After i passes over the list w, and after j transactions of a pass over r.
Pass(w, i) == FPass!Fold(0, Whole(w), SubSeq(w, 1, i))
Taken(r, j) == FPlace!Fold(0, Empty, SubSeq(r, 1, j))

\* The passes start with the whole list, each takes at least one transaction, and
\* after as many passes as there are transactions the batches are complete.
LEMMA PassTyped ==
  ASSUME NEW w \in Seq(Tx), NEW i \in 0 .. Len(w)
  PROVE  /\ Pass(w, i).rest \in Seq(Tx)
         /\ Pass(w, i).rest # <<>> => i < Len(w)
         /\ Pass(w, 0) = Whole(w)
         /\ Pass(w, Len(w)).done = Batches(w)
<1> DEFINE s == SubSeq(w, 1, i)
<1>1. s \in Seq(Tx) /\ Len(s) = i /\ SubSeq(w, 1, 0) = <<>> /\ SubSeq(w, 1, Len(w)) = w
  BY Parts
<1>2. PICK done, rest : /\ FPass!Fold(0, Whole(w), s) = [done |-> done, rest |-> rest]
                        /\ Passed(w, s, done, rest)
  BY <1>1, PassedAlways
<1>3. Pass(w, i).rest = rest /\ rest \in Seq(Tx) /\ (rest = <<>> \/ Len(rest) + i <= Len(w))
  BY <1>1, <1>2 DEF Pass, Passed
<1>4. rest # <<>> => i < Len(w)
  <2>1. rest # <<>> => Len(rest) > 0 /\ Len(rest) \in Nat
    BY <1>3
  <2>2. Len(w) \in Nat /\ i \in Nat
    OBVIOUS
  <2> QED
    BY <1>3, <2>1, <2>2
<1>5. Pass(w, 0) = Whole(w)
  BY <1>1, FPass!FoldNothing DEF Pass
<1>6. Pass(w, Len(w)).done = Batches(w)
  BY <1>1, BatchesFold DEF Pass, Whole
<1> QED
  BY <1>3, <1>4, <1>5, <1>6

\* One more pass.
LEMMA PassAgain ==
  ASSUME NEW w \in Seq(Tx), NEW i \in 0 .. Len(w), i < Len(w)
  PROVE  Pass(w, i + 1) = NextPass(Pass(w, i), w[i + 1])
<1>1. /\ SubSeq(w, 1, i) \in Seq(Tx) /\ w[i + 1] \in Tx
      /\ SubSeq(w, 1, i + 1) = Append(SubSeq(w, 1, i), w[i + 1])
  BY Parts
<1> DEFINE s == SubSeq(w, 1, i)
<1> HIDE DEF s
<1>2. s \in Seq(Tx) /\ w[i + 1] \in Tx /\ SubSeq(w, 1, i + 1) = Append(s, w[i + 1])
  BY <1>1 DEF s
<1>3. FPass!Fold(0, Whole(w), Append(s, w[i + 1])) = NextPass(FPass!Fold(0, Whole(w), s), w[i + 1])
  BY <1>2, FPass!FoldAppend DEF PassNext
<1> QED
  BY <1>2, <1>3 DEF Pass, s

\* When nothing remains, the batches are complete.
LEMMA PassesOver ==
  ASSUME NEW w \in Seq(Tx), NEW i \in 0 .. Len(w), Pass(w, i).rest = <<>>
  PROVE  Pass(w, i).done = Batches(w)
<1> DEFINE T == {d \in Nat : i + d <= Len(w) => Pass(w, i + d) = Pass(w, i)}
<1>1. 0 \in T
  OBVIOUS
<1>2. ASSUME NEW d \in Nat, d \in T PROVE d + 1 \in T
  <2> SUFFICES ASSUME i + (d + 1) <= Len(w) PROVE Pass(w, i + (d + 1)) = Pass(w, i)
    OBVIOUS
  <2>1. /\ i + d \in 0 .. Len(w) /\ i + d < Len(w) /\ i + (d + 1) = (i + d) + 1
        /\ i + d <= Len(w)
    OBVIOUS
  <2>2. Pass(w, i + d) = Pass(w, i)
    BY <1>2, <2>1
  <2>3. Pass(w, (i + d) + 1) = NextPass(Pass(w, i + d), w[(i + d) + 1])
    BY <2>1, PassAgain
  <2>4. NextPass(Pass(w, i), w[(i + d) + 1]) = Pass(w, i)
    BY DEF NextPass
  <2> QED
    BY <2>1, <2>2, <2>3, <2>4
<1> HIDE DEF T
<1>3. Nat \subseteq T
  BY <1>1, <1>2, FPass!NatInSteps
<1>4. Len(w) - i \in T
  BY <1>3
<1>5. Pass(w, i + (Len(w) - i)) = Pass(w, i) /\ i + (Len(w) - i) = Len(w)
  BY <1>4 DEF T
<1> QED
  BY <1>5, PassTyped

\* One more transaction of a pass.
LEMMA TakenLemma ==
  ASSUME NEW r \in Seq(Tx), NEW j \in 0 .. Len(r)
  PROVE  /\ Taken(r, 0) = Empty
         /\ Taken(r, Len(r)) = Peel(r)
         /\ Taken(r, j) = [batch |-> Taken(r, j).batch, rest |-> Taken(r, j).rest]
         /\ j < Len(r) => Taken(r, j + 1) = Place(Taken(r, j), r[j + 1])
<1>1. /\ SubSeq(r, 1, j) \in Seq(Tx) /\ SubSeq(r, 1, 0) = <<>> /\ SubSeq(r, 1, Len(r)) = r
      /\ j < Len(r) => /\ r[j + 1] \in Tx
                       /\ SubSeq(r, 1, j + 1) = Append(SubSeq(r, 1, j), r[j + 1])
  BY Parts
<1>2. Taken(r, 0) = Empty
  BY <1>1, FPlace!FoldNothing DEF Taken
<1>3. Taken(r, Len(r)) = Peel(r)
  BY <1>1, PeelFolds DEF Taken, Empty
<1>4. PICK b, x : Taken(r, j) = [batch |-> b, rest |-> x]
  BY <1>1, PlacedAlways DEF Taken
<1>5. ASSUME j < Len(r) PROVE Taken(r, j + 1) = Place(Taken(r, j), r[j + 1])
  <2> DEFINE s == SubSeq(r, 1, j)
  <2> HIDE DEF s
  <2>1. s \in Seq(Tx) /\ r[j + 1] \in Tx /\ SubSeq(r, 1, j + 1) = Append(s, r[j + 1])
    BY <1>1, <1>5 DEF s
  <2>2. FPlace!Fold(0, Empty, Append(s, r[j + 1])) = Place(FPlace!Fold(0, Empty, s), r[j + 1])
    BY <2>1, FPlace!FoldAppend DEF PlaceNext
  <2> QED
    BY <2>1, <2>2 DEF Taken, s
<1> QED
  BY <1>2, <1>3, <1>4, <1>5

-----------------------------------------------------------------------------
(* The batches formed step by step are those of Batches                    *)

Work(e) == input.work[e]
All(e) == Batches(Work(e))

\* In the pass i + 1 over its list, e has scanned j transactions.
Grouped(e, i, j) ==
  /\ i \in 0 .. Len(Work(e))
  /\ Pass(Work(e), i).rest # <<>>
  /\ j \in 0 .. Len(Pass(Work(e), i).rest)
  /\ queue[e] = Pass(Work(e), i).done
  /\ remaining[e] = Rest(Pass(Work(e), i).rest, j)
  /\ open[e] = Taken(Pass(Work(e), i).rest, j).batch
  /\ skipped[e] = Taken(Pass(Work(e), i).rest, j).rest

\* It has executed the first k batches of its list.
Queued(e, k) ==
  /\ k \in 0 .. Len(All(e))
  /\ queue[e] = Rest(All(e), k)

Formed(e) ==
  IF stage[e] = "group" THEN \E i, j \in Nat : Grouped(e, i, j) ELSE \E k \in Nat : Queued(e, k)

FormInv == \A e \in Executor : Formed(e)

\* The list of an executor and its batches.
LEMMA WorkTyped ==
  ASSUME TypeOK, NEW e \in Executor
  PROVE  /\ Work(e) \in Seq(Tx) /\ Len(Work(e)) \in Nat
         /\ All(e) \in Seq(Batch) /\ IsLedger(input.ledger)
<1>1. Work(e) \in Seq(Tx) /\ IsLedger(input.ledger)
  BY SealevelAssumption DEF TypeOK, Work
<1> QED
  BY <1>1, BatchesLemma DEF All

\* The lists and the ledger of a behaviour never change.
LEMMA InputStays == [Next]_vars => input' = input
BY DEF Next, Step, vars, Scan, CloseBatch, ReadSender, ReadReceiver, BatchRead, ApplyDebit,
       ApplyCredit, SkipFailed, NextBatch

\* The grouping starts, goes on and ends as the folds do.
LEMMA FormInit == Init => FormInv
<1> SUFFICES ASSUME Init, NEW e \in Executor PROVE Formed(e)
  BY DEF FormInv
<1>1. TypeOK
  BY TypeInit
<1>2. Work(e) \in Seq(Tx) /\ 0 \in 0 .. Len(Work(e)) /\ IsLedger(input.ledger)
  BY <1>1, WorkTyped
<1>3. Pass(Work(e), 0) = Whole(Work(e))
  BY <1>2, PassTyped
<1>4. Taken(Work(e), 0) = Empty /\ Rest(Work(e), 0) = Work(e)
  BY <1>2, TakenLemma, Parts
<1>5. CASE Work(e) # <<>>
  <2>1. Grouped(e, 0, 0)
    BY <1>2, <1>3, <1>4, <1>5 DEF Init, Grouped, Whole, Empty, Work
  <2>2. stage[e] = "group"
    BY <1>5 DEF Init, Work
  <2> QED
    BY <2>1, <2>2 DEF Formed
<1>6. CASE Work(e) = <<>>
  <2>1. All(e) = <<>> /\ stage[e] = "done" /\ queue[e] = <<>>
    <3>1. Batches(<<>>) = <<>>
      BY <1>2, ExecuteNothing
    <3> QED
      BY <1>6, <3>1 DEF All, Init, Work
  <2>2. All(e) \in Seq(Batch) /\ 0 \in 0 .. Len(All(e))
    BY <1>1, <2>1, WorkTyped
  <2>3. Rest(All(e), 0) = All(e)
    BY <2>2, Parts
  <2>4. Queued(e, 0)
    BY <2>1, <2>2, <2>3 DEF Queued
  <2> QED
    BY <2>1, <2>4 DEF Formed
<1> QED
  BY <1>5, <1>6

\* Place, with its argument spelled out.
LEMMA PlaceRecord ==
  ASSUME NEW b, NEW x, NEW t
  PROVE  Place([batch |-> b, rest |-> x], t) =
           IF CanAdd(b, t) THEN [batch |-> Append(b, t), rest |-> x]
                           ELSE [batch |-> b, rest |-> Append(x, t)]
<1>1. CASE CanAdd(b, t)
  BY <1>1 DEF Place
<1>2. CASE ~ CanAdd(b, t)
  BY <1>2 DEF Place
<1> QED
  BY <1>1, <1>2

LEMMA ScanForms ==
  ASSUME TypeOK, NEW e \in Executor, Scan(e), Formed(e)
  PROVE  Formed(e)'
<1>1. stage[e] = "group" /\ stage' = stage /\ input' = input /\ queue' = queue
  BY DEF Scan
<1>2. PICK i, j \in Nat : Grouped(e, i, j)
  BY <1>1 DEF Formed
<1> DEFINE w == Work(e)
           r == Pass(w, i).rest
<1>3. w \in Seq(Tx) /\ i \in 0 .. Len(w) /\ r # <<>> /\ j \in 0 .. Len(r)
  BY <1>2, WorkTyped DEF Grouped
<1>4. r \in Seq(Tx)
  BY <1>3, PassTyped
<1>5. /\ queue[e] = Pass(w, i).done /\ remaining[e] = Rest(r, j)
      /\ open[e] = Taken(r, j).batch /\ skipped[e] = Taken(r, j).rest
  BY <1>2 DEF Grouped
<1>w. Work(e)' = w
  BY <1>1 DEF Work
<1> HIDE DEF r, w
<1>6. j < Len(r) /\ j + 1 \in 0 .. Len(r) /\ j + 1 \in Nat
  <2>1. remaining[e] # <<>>
    BY DEF Scan
  <2>2. j # Len(r)
    BY <1>3, <1>4, <1>5, <2>1, Parts
  <2> QED
    BY <1>3, <1>4, <2>2
<1>7. /\ Head(remaining[e]) = r[j + 1] /\ Tail(remaining[e]) = Rest(r, j + 1)
  BY <1>3, <1>4, <1>5, <1>6, Parts
<1>8. Taken(r, j + 1) = Place(Taken(r, j), r[j + 1])
  BY <1>3, <1>4, <1>6, TakenLemma
<1>9. Taken(r, j) = [batch |-> open[e], rest |-> skipped[e]]
  BY <1>3, <1>4, <1>5, TakenLemma
<1>10. open'[e] = Taken(r, j + 1).batch /\ skipped'[e] = Taken(r, j + 1).rest
  <2>1. CASE CanAdd(open[e], r[j + 1])
    <3>1. Taken(r, j + 1) = [batch |-> Append(open[e], r[j + 1]), rest |-> skipped[e]]
      BY <1>8, <1>9, <2>1, PlaceRecord
    <3>2. open'[e] = Append(open[e], r[j + 1]) /\ skipped'[e] = skipped[e]
      BY <1>7, <2>1 DEF Scan, TypeOK
    <3> QED
      BY <3>1, <3>2
  <2>2. CASE ~ CanAdd(open[e], r[j + 1])
    <3>1. Taken(r, j + 1) = [batch |-> open[e], rest |-> Append(skipped[e], r[j + 1])]
      BY <1>8, <1>9, <2>2, PlaceRecord
    <3>2. skipped'[e] = Append(skipped[e], r[j + 1]) /\ open'[e] = open[e]
      BY <1>7, <2>2 DEF Scan, TypeOK
    <3> QED
      BY <3>1, <3>2
  <2> QED
    BY <2>1, <2>2
<1>11. remaining'[e] = Rest(r, j + 1) /\ queue'[e] = Pass(w, i).done
  BY <1>1, <1>5, <1>7 DEF Scan, TypeOK
<1>12. Grouped(e, i, j + 1)'
  BY <1>3, <1>6, <1>10, <1>11, <1>w DEF Grouped, r
<1> QED
  BY <1>1, <1>6, <1>12 DEF Formed

LEMMA CloseForms ==
  ASSUME TypeOK, NEW e \in Executor, CloseBatch(e), Formed(e)
  PROVE  Formed(e)' /\ (stage'[e] = "read" => Queued(e, 0)')
<1>1. stage[e] = "group" /\ remaining[e] = <<>> /\ input' = input
  BY DEF CloseBatch
<1>2. PICK i, j \in Nat : Grouped(e, i, j)
  BY <1>1 DEF Formed
<1> DEFINE w == Work(e)
           r == Pass(w, i).rest
<1>3. w \in Seq(Tx) /\ i \in 0 .. Len(w) /\ r # <<>> /\ j \in 0 .. Len(r)
  BY <1>2, WorkTyped DEF Grouped
<1>4. r \in Seq(Tx) /\ i < Len(w)
  BY <1>3, PassTyped
<1>5. /\ queue[e] = Pass(w, i).done /\ remaining[e] = Rest(r, j)
      /\ open[e] = Taken(r, j).batch /\ skipped[e] = Taken(r, j).rest
  BY <1>2 DEF Grouped
<1>w. Work(e)' = w /\ All(e)' = Batches(w)
  BY <1>1 DEF Work, All
<1>6. i + 1 \in 0 .. Len(w) /\ i + 1 \in Nat /\ w \in Seq(Tx)
  BY <1>3, <1>4
<1> HIDE DEF w
<1>7. Pass(w, i + 1) = NextPass(Pass(w, i), w[i + 1])
  BY <1>3, <1>4, PassAgain
<1>p. r = Pass(w, i).rest
  OBVIOUS
<1> HIDE DEF r
<1>8. Peel(r).batch = open[e] /\ Peel(r).rest = skipped[e]
  <2>1. j = Len(r)
    BY <1>1, <1>3, <1>4, <1>5, Parts
  <2> QED
    BY <1>3, <1>4, <1>5, <2>1, TakenLemma
<1>9. Pass(w, i + 1) = [done |-> Append(queue[e], open[e]), rest |-> skipped[e]]
  BY <1>3, <1>5, <1>7, <1>8, <1>p DEF NextPass
<1>10. /\ queue'[e] = Append(queue[e], open[e]) /\ remaining'[e] = skipped[e]
       /\ open'[e] = <<>> /\ skipped'[e] = <<>>
       /\ stage'[e] = IF skipped[e] = <<>> THEN "read" ELSE "group"
  BY DEF CloseBatch, TypeOK
<1>11. CASE skipped[e] = <<>>
  <2>1. Pass(w, i + 1).rest = <<>> /\ Pass(w, i + 1).done = queue'[e]
    BY <1>9, <1>10, <1>11
  <2>2. queue'[e] = Batches(w)
    BY <1>6, <2>1, PassesOver
  <2>3. Batches(w) \in Seq(Batch)
    BY <1>6, BatchesLemma
  <2>4. 0 \in 0 .. Len(Batches(w)) /\ Rest(Batches(w), 0) = Batches(w)
    BY <2>3, Parts
  <2>5. Queued(e, 0)'
    BY <2>2, <2>4, <1>w DEF Queued
  <2> QED
    BY <1>10, <1>11, <2>5 DEF Formed
<1>12. CASE skipped[e] # <<>>
  <2> DEFINE q == Pass(w, i + 1).rest
  <2>1. q = skipped[e] /\ q \in Seq(Tx)
    BY <1>6, <1>9, PassTyped
  <2>2. 0 \in 0 .. Len(q) /\ Rest(q, 0) = q /\ Taken(q, 0) = Empty
    BY <2>1, Parts, TakenLemma
  <2>3. Grouped(e, i + 1, 0)'
    BY <1>6, <1>9, <1>10, <1>12, <2>1, <2>2, <1>w DEF Grouped, Empty
  <2> QED
    BY <1>6, <1>10, <1>12, <2>3 DEF Formed
<1> QED
  BY <1>11, <1>12

LEMMA FormStep == TypeOK /\ Shape /\ FormInv /\ [Next]_vars => FormInv'
<1> SUFFICES ASSUME TypeOK, Shape, FormInv, [Next]_vars, NEW f \in Executor PROVE Formed(f)'
  BY DEF FormInv
<1>1. input' = input /\ Formed(f)
  BY InputStays DEF FormInv
<1>2. ASSUME /\ stage'[f] = stage[f] /\ remaining'[f] = remaining[f]
             /\ skipped'[f] = skipped[f] /\ open'[f] = open[f] /\ queue'[f] = queue[f]
      PROVE  Formed(f)'
  BY <1>1, <1>2 DEF Formed, Grouped, Queued, Work, All
<1>3. CASE UNCHANGED vars
  BY <1>2, <1>3 DEF vars
<1>4. ASSUME NEW e \in Executor, Step(e), e # f PROVE Formed(f)'
  BY <1>2, <1>4, OthersStay
<1>5. CASE Step(f)
  <2>1. CASE Scan(f)
    BY <1>1, <2>1, ScanForms
  <2>2. CASE CloseBatch(f)
    BY <1>1, <2>2, CloseForms
  <2>3. CASE \E t \in Tx : ReadSender(f, t) \/ ReadReceiver(f, t)
    BY <1>2, <2>3 DEF ReadSender, ReadReceiver
  <2>4. CASE ApplyDebit(f) \/ ApplyCredit(f) \/ SkipFailed(f)
    BY <1>2, <2>4 DEF ApplyDebit, ApplyCredit, SkipFailed
  <2>5. CASE BatchRead(f)
    <3>1. stage[f] = "read" /\ stage'[f] = "apply" /\ queue'[f] = queue[f]
      BY <2>5 DEF BatchRead, TypeOK
    <3> QED
      BY <1>1, <3>1 DEF Formed, Queued, Work, All
  <2>6. CASE NextBatch(f)
    <3>1. stage[f] = "apply" /\ stage'[f] # "group" /\ queue'[f] = Tail(queue[f])
      BY <2>6 DEF NextBatch, TypeOK
    <3>2. queue[f] # <<>>
      BY <3>1 DEF Shape
    <3>3. PICK k \in Nat : Queued(f, k)
      BY <1>1, <3>1 DEF Formed
    <3>4. All(f) \in Seq(Batch) /\ k \in 0 .. Len(All(f)) /\ queue[f] = Rest(All(f), k)
      BY <3>3, WorkTyped DEF Queued
    <3>5. k < Len(All(f)) /\ k + 1 \in 0 .. Len(All(f)) /\ k + 1 \in Nat
      <4>1. k # Len(All(f))
        BY <3>2, <3>4, Parts
      <4> QED
        BY <3>4, <4>1
    <3>6. Tail(queue[f]) = Rest(All(f), k + 1)
      BY <3>4, <3>5, Parts
    <3>7. Queued(f, k + 1)'
      BY <1>1, <3>1, <3>5, <3>6 DEF Queued, Work, All
    <3> QED
      BY <3>1, <3>5, <3>7 DEF Formed
  <2> QED
    BY <1>5, <2>1, <2>2, <2>3, <2>4, <2>5, <2>6 DEF Step
<1> QED
  BY <1>3, <1>4, <1>5 DEF Next

\* What is left of a list is a suffix of it.
LEMMA RestIsSuffix ==
  ASSUME NEW E, NEW s \in Seq(E), NEW k \in 0 .. Len(s)
  PROVE  IsSuffix(Rest(s, k), s)
<1> DEFINE t == Rest(s, k)
           n == Len(s)
<1>1. n \in Nat /\ k \in Nat /\ k <= n
  OBVIOUS
<1>2. t \in Seq(E) /\ Len(t) = n - k /\ \A i \in 1 .. n - k : t[i] = s[k + i]
  BY <1>1 DEF Rest
<1>3. Len(Reverse(t)) = n - k /\ Len(Reverse(s)) = n
  BY <1>1, <1>2 DEF Reverse
<1>4. \A i \in 1 .. n - k : Reverse(t)[i] = s[n - i + 1] /\ Reverse(s)[i] = s[n - i + 1]
  <2> TAKE i \in 1 .. n - k
  <2>1. Reverse(t)[i] = t[(Len(t) - i) + 1] /\ Reverse(s)[i] = s[(n - i) + 1]
    BY <1>1, <1>2 DEF Reverse
  <2>2. (Len(t) - i) + 1 \in 1 .. n - k /\ k + ((Len(t) - i) + 1) = n - i + 1
    BY <1>1, <1>2
  <2> QED
    BY <1>2, <2>1, <2>2
<1>5. SubSeq(Reverse(s), 1, n - k) = Reverse(t)
  BY <1>1, <1>2, <1>3, <1>4 DEF Reverse
<1> QED
  BY <1>1, <1>3, <1>4, <1>5 DEF IsSuffix, IsPrefix

\* Whatever the other threads do, the batches an executor forms one transaction at
\* a time are those of the function Batches, and it executes them in their order.
THEOREM BatchesFormed == Spec => []FormsBatches
<1>1. ASSUME TypeOK, FormInv PROVE FormsBatches
  <2> SUFFICES ASSUME NEW e \in Executor, stage[e] = "read"
               PROVE  IsSuffix(queue[e], Batches(input.work[e]))
    BY DEF FormsBatches
  <2>1. PICK k \in Nat : Queued(e, k)
    BY <1>1 DEF FormInv, Formed
  <2>2. All(e) \in Seq(Batch) /\ k \in 0 .. Len(All(e)) /\ queue[e] = Rest(All(e), k)
    BY <1>1, <2>1, WorkTyped DEF Queued
  <2> QED
    BY <2>2, RestIsSuffix DEF All, Work
<1> QED
  BY <1>1, TypeInit, TypeStep, FormInit, FormStep, PTL DEF Spec

-----------------------------------------------------------------------------
(* A thread alone computes Execute                                         *)

\* The ledger after the first k of the batches all, ...
After(b, all, k) == FBatch!Fold(0, b, SubSeq(all, 1, k))

\* ... and after the first n results of the batch s are applied too.
Partial(b, s, n) == FResult!Fold(b, Touch(b, Reads(s)), SubSeq(s, 1, n))

\* The workers of the batch s have come to the results r on the ledger b, ...
Judged(r, b, s) ==
  \A t \in Tx : /\ r[t] # "none" => (\E i \in DOMAIN s : s[i] = t)
                /\ r[t] \in {"enough", "ok"} => Balance(b, From[t]) >= Amount[t]
                /\ r[t] \in {"short", "failed"} => ~ (Balance(b, From[t]) >= Amount[t])

\* ... for which they have read these accounts.
Seen(r) ==
  {From[t] : t \in {u \in Tx : r[u] # "none"}}
    \cup {To[t] : t \in {u \in Tx : r[u] \in {"ok", "failed"}}}

Reading(e, b, s) == Judged(result[e], b, s) /\ accounts = Touch(b, Seen(result[e]))

Applied(e, b, s) ==
  /\ Judged(result[e], b, s)
  /\ \A i \in DOMAIN s : result[e][s[i]] \in {"ok", "failed"}
  /\ cursor[e] \in 1 .. Len(s) + 1
  /\ half[e] = "debit" => accounts = Partial(b, s, cursor[e] - 1)
  /\ half[e] = "credit" =>
       /\ cursor[e] <= Len(s)
       /\ result[e][s[cursor[e]]] = "ok"
       /\ ~ SelfTransfer(s[cursor[e]])
       /\ accounts = UpdateBalance(Partial(b, s, cursor[e] - 1),
                                   From[s[cursor[e]]], -Amount[s[cursor[e]]])

\* What e, alone, has computed when it is in the batch k + 1.
InBatchOf(e, k) ==
  /\ Queued(e, k) /\ k < Len(All(e))
  /\ stage[e] = "read" => Reading(e, After(input.ledger, All(e), k), All(e)[k + 1])
  /\ stage[e] = "apply" => Applied(e, After(input.ledger, All(e), k), All(e)[k + 1])

Computed(e) ==
  /\ stage[e] = "group" => accounts = input.ledger /\ result[e] = NoResult
  /\ stage[e] \in {"read", "apply"} => \E k \in Nat : InBatchOf(e, k)
  /\ stage[e] = "done" => accounts = Execute(input.ledger, Work(e))

ComputeInv == \A e \in Executor : Alone(e) => Computed(e)

\* A thread with nothing to execute has returned.
Idle == \A e \in Executor : Work(e) = <<>> => stage[e] = "done"

\* Reading accounts, then others, is reading them together.
LEMMA TouchTwice ==
  ASSUME NEW b, IsLedger(b), NEW A \in SUBSET Account, NEW B \in SUBSET Account
  PROVE  Touch(Touch(b, A), B) = Touch(b, A \cup B) /\ Touch(b, {}) = b
<1>1. /\ IsLedger(Touch(b, A)) /\ DOMAIN Touch(b, A) = DOMAIN b \cup A
      /\ \A x : Balance(Touch(b, A), x) = Balance(b, x)
  BY TouchLemma
<1>2. Touch(Touch(b, A), B) = Touch(b, A \cup B)
  <2>1. DOMAIN Touch(b, A) \cup B = DOMAIN b \cup (A \cup B)
    BY <1>1
  <2>2. Touch(Touch(b, A), B) = [x \in DOMAIN b \cup (A \cup B) |-> Balance(Touch(b, A), x)]
    BY <2>1 DEF Touch
  <2> QED
    BY <1>1, <2>2 DEF Touch
<1>3. Touch(b, {}) = b
  <2>1. Touch(b, {}) = [x \in DOMAIN b |-> b[x]]
    BY DEF Touch, Balance
  <2> QED
    BY <2>1 DEF IsLedger
<1> QED
  BY <1>2, <1>3

\* One more batch.
LEMMA AfterLemma ==
  ASSUME NEW b, IsLedger(b), NEW all \in Seq(Batch), NEW k \in 0 .. Len(all)
  PROVE  /\ IsLedger(After(b, all, k))
         /\ After(b, all, 0) = b
         /\ k < Len(all) => After(b, all, k + 1) = ExecuteBatch(After(b, all, k), all[k + 1])
<1> DEFINE T == {s \in Seq(Batch) : IsLedger(FBatch!Fold(0, b, s))}
<1>1. <<>> \in T
  BY FBatch!FoldNothing
<1>2. ASSUME NEW s \in Seq(Batch), s \in T, NEW batch \in Batch
      PROVE  Append(s, batch) \in T
  <2>1. FBatch!Fold(0, b, Append(s, batch)) = ExecuteBatch(FBatch!Fold(0, b, s), batch)
    BY FBatch!FoldAppend DEF BatchNext
  <2>2. IsLedger(ExecuteBatch(FBatch!Fold(0, b, s), batch))
    BY <1>2, BatchIsSerial
  <2>3. Append(s, batch) \in Seq(Batch)
    OBVIOUS
  <2> QED
    BY <2>1, <2>2, <2>3
<1> HIDE DEF T
<1>3. Seq(Batch) \subseteq T
  BY <1>1, <1>2, FBatch!SeqInSteps
<1>4. SubSeq(all, 1, k) \in Seq(Batch) /\ SubSeq(all, 1, 0) = <<>>
  BY Parts
<1>5. IsLedger(After(b, all, k))
  BY <1>3, <1>4 DEF T, After
<1>6. After(b, all, 0) = b
  BY <1>4, FBatch!FoldNothing DEF After
<1>7. ASSUME k < Len(all)
      PROVE  After(b, all, k + 1) = ExecuteBatch(After(b, all, k), all[k + 1])
  <2> DEFINE s == SubSeq(all, 1, k)
  <2> HIDE DEF s
  <2>1. s \in Seq(Batch) /\ all[k + 1] \in Batch /\ SubSeq(all, 1, k + 1) = Append(s, all[k + 1])
    BY <1>7, Parts DEF s
  <2>2. FBatch!Fold(0, b, Append(s, all[k + 1])) = ExecuteBatch(FBatch!Fold(0, b, s), all[k + 1])
    BY <2>1, FBatch!FoldAppend DEF BatchNext
  <2> QED
    BY <2>1, <2>2 DEF After, s
<1> QED
  BY <1>5, <1>6, <1>7

\* One more result of a batch; all of them make ExecuteBatch.
LEMMA PartialLemma ==
  ASSUME NEW b, NEW s \in Seq(Tx), NEW n \in 0 .. Len(s)
  PROVE  /\ Partial(b, s, 0) = Touch(b, Reads(s))
         /\ Partial(b, s, Len(s)) = ExecuteBatch(b, s)
         /\ n < Len(s) => Partial(b, s, n + 1) = ApplyResult(b, Partial(b, s, n), s[n + 1])
<1>1. SubSeq(s, 1, n) \in Seq(Tx) /\ SubSeq(s, 1, 0) = <<>> /\ SubSeq(s, 1, Len(s)) = s
  BY Parts
<1>2. Partial(b, s, 0) = Touch(b, Reads(s))
  BY <1>1, FResult!FoldNothing DEF Partial
<1>3. Partial(b, s, Len(s)) = ExecuteBatch(b, s)
  BY <1>1, ExecuteBatchFolds DEF Partial
<1>4. ASSUME n < Len(s)
      PROVE  Partial(b, s, n + 1) = ApplyResult(b, Partial(b, s, n), s[n + 1])
  <2> DEFINE u == SubSeq(s, 1, n)
             v == Touch(b, Reads(s))
  <2> HIDE DEF u, v
  <2>1. u \in Seq(Tx) /\ s[n + 1] \in Tx /\ SubSeq(s, 1, n + 1) = Append(u, s[n + 1])
    BY <1>4, Parts DEF u
  <2>2. FResult!Fold(b, v, Append(u, s[n + 1])) = ApplyResult(b, FResult!Fold(b, v, u), s[n + 1])
    BY <2>1, FResult!FoldAppend
  <2> QED
    BY <2>1, <2>2 DEF Partial, u, v
<1> QED
  BY <1>2, <1>3, <1>4

\* What one more read adds to the accounts read.
LEMMA SeenLemma ==
  ASSUME NEW r \in [Tx -> Results]
  PROVE  /\ Seen(r) \in SUBSET Account
         /\ Seen(NoResult) = {}
         /\ \A t \in Tx, v \in {"enough", "short"} :
              r[t] = "none" => Seen([r EXCEPT ![t] = v]) = Seen(r) \cup {From[t]}
         /\ \A t \in Tx, v \in {"ok", "failed"} :
              r[t] \in {"enough", "short"} => Seen([r EXCEPT ![t] = v]) = Seen(r) \cup {To[t]}
<1>1. Seen(r) \in SUBSET Account
  BY TxTypes DEF Seen
<1>2. Seen(NoResult) = {}
  BY DEF Seen, NoResult
<1>3. ASSUME NEW t \in Tx, NEW v \in {"enough", "short"}, r[t] = "none"
      PROVE  Seen([r EXCEPT ![t] = v]) = Seen(r) \cup {From[t]}
  <2> DEFINE q == [r EXCEPT ![t] = v]
  <2>1. {u \in Tx : q[u] # "none"} = {u \in Tx : r[u] # "none"} \cup {t}
    BY <1>3
  <2>2. {u \in Tx : q[u] \in {"ok", "failed"}} = {u \in Tx : r[u] \in {"ok", "failed"}}
    BY <1>3
  <2> HIDE DEF q
  <2> QED
    BY <2>1, <2>2 DEF Seen, q
<1>4. ASSUME NEW t \in Tx, NEW v \in {"ok", "failed"}, r[t] \in {"enough", "short"}
      PROVE  Seen([r EXCEPT ![t] = v]) = Seen(r) \cup {To[t]}
  <2> DEFINE q == [r EXCEPT ![t] = v]
  <2>1. {u \in Tx : q[u] # "none"} = {u \in Tx : r[u] # "none"}
    BY <1>4
  <2>2. {u \in Tx : q[u] \in {"ok", "failed"}} = {u \in Tx : r[u] \in {"ok", "failed"}} \cup {t}
    BY <1>4
  <2> HIDE DEF q
  <2> QED
    BY <2>1, <2>2 DEF Seen, q
<1> QED
  BY <1>1, <1>2, <1>3, <1>4

\* When every transaction of the batch has its outcome, all its accounts are read.
LEMMA SeenAll ==
  ASSUME NEW s \in Seq(Tx), NEW r \in [Tx -> Results], NEW b, Judged(r, b, s),
         \A i \in DOMAIN s : r[s[i]] \in {"ok", "failed"}
  PROVE  Seen(r) = Reads(s)
<1>1. ASSUME NEW x \in Seen(r) PROVE x \in Reads(s)
  <2>1. PICK t \in Tx : r[t] # "none" /\ x \in Accesses(t)
    BY <1>1 DEF Seen, Accesses
  <2>2. PICK i \in DOMAIN s : s[i] = t
    BY <2>1 DEF Judged
  <2> QED
    BY <2>1, <2>2 DEF Reads
<1>2. ASSUME NEW x \in Reads(s) PROVE x \in Seen(r)
  <2>1. PICK i \in DOMAIN s : x \in Accesses(s[i])
    BY <1>2 DEF Reads
  <2>2. s[i] \in Tx /\ r[s[i]] \in {"ok", "failed"}
    OBVIOUS
  <2> QED
    BY <2>1, <2>2 DEF Seen, Accesses
<1> QED
  BY <1>1, <1>2

\* Each step computes its part of Execute.
LEMMA ComputeInit == Init => ComputeInv /\ Idle
<1> SUFFICES ASSUME Init PROVE ComputeInv /\ Idle
  OBVIOUS
<1>1. Idle
  BY DEF Init, Idle, Work
<1>2. IsLedger(input.ledger)
  BY TypeInit DEF TypeOK, Init
<1> SUFFICES ASSUME NEW e \in Executor PROVE Computed(e)
  BY <1>1 DEF ComputeInv
<1>3. CASE Work(e) = <<>>
  BY <1>2, <1>3, ExecuteNothing DEF Init, Computed, Work
<1>4. CASE Work(e) # <<>>
  BY <1>4 DEF Init, Computed, Work
<1> QED
  BY <1>3, <1>4

\* What the head batch is, and the ledger it is executed on.
LEMMA HeadOf ==
  ASSUME TypeOK, NEW e \in Executor, NEW k \in Nat, Queued(e, k), k < Len(All(e))
  PROVE  /\ All(e)[k + 1] \in Batch /\ All(e)[k + 1] \in Seq(Tx)
         /\ Head(queue[e]) = All(e)[k + 1] /\ Tail(queue[e]) = Rest(All(e), k + 1)
         /\ IsLedger(After(input.ledger, All(e), k))
<1>1. All(e) \in Seq(Batch) /\ k \in 0 .. Len(All(e)) /\ queue[e] = Rest(All(e), k)
      /\ IsLedger(input.ledger)
  BY WorkTyped DEF Queued
<1>2. /\ All(e)[k + 1] \in Batch /\ Head(queue[e]) = All(e)[k + 1]
      /\ Tail(queue[e]) = Rest(All(e), k + 1)
  BY <1>1, Parts
<1>3. IsLedger(After(input.ledger, All(e), k))
  BY <1>1, AfterLemma
<1> QED
  BY <1>2, <1>3 DEF Batch

\* A batch starts with no result and the ledger the batches before it left.
LEMMA BatchStarts ==
  ASSUME TypeOK, NEW e \in Executor, input' = input, NEW k \in Nat, Queued(e, k)', k < Len(All(e)),
         accounts' = After(input.ledger, All(e), k), result'[e] = NoResult, stage'[e] = "read"
  PROVE  Computed(e)'
<1> DEFINE b == After(input.ledger, All(e), k)
           s == All(e)[k + 1]
<1>1. IsLedger(b) /\ NoResult \in [Tx -> Results] /\ All(e)' = All(e)
  <2>1. All(e) \in Seq(Batch) /\ IsLedger(input.ledger) /\ All(e)' = All(e)
    BY WorkTyped DEF All, Work
  <2>2. k \in 0 .. Len(All(e))
    BY <2>1
  <2> QED
    BY <2>1, <2>2, AfterLemma DEF NoResult
<1>2. b' = b /\ s' = s
  BY <1>1
<1> HIDE DEF b, s
<1>3. Judged(NoResult, b, s)
  BY DEF Judged, NoResult
<1>4. Touch(b, Seen(NoResult)) = b
  BY <1>1, SeenLemma, TouchTwice
<1>5. Reading(e, b, s)'
  BY <1>2, <1>3, <1>4 DEF Reading, b
<1>6. InBatchOf(e, k)'
  BY <1>1, <1>5 DEF InBatchOf, b, s
<1> QED
  BY <1>6 DEF Computed

LEMMA CloseComputes ==
  ASSUME TypeOK, Shape, TypeOK', Shape', NEW e \in Executor, Formed(e), CloseBatch(e), Computed(e)
  PROVE  Computed(e)'
<1>1. /\ stage[e] = "group" /\ stage'[e] \in {"read", "group"} /\ input' = input
      /\ accounts' = accounts /\ result' = result /\ accounts = input.ledger /\ result[e] = NoResult
  BY DEF CloseBatch, Computed, TypeOK
<1>2. CASE stage'[e] = "group"
  BY <1>1, <1>2 DEF Computed
<1>3. CASE stage'[e] = "read"
  <2>1. Queued(e, 0)'
    BY <1>3, CloseForms
  <2>2. All(e) \in Seq(Batch) /\ IsLedger(input.ledger) /\ All(e)' = All(e)
    BY <1>1, WorkTyped DEF All, Work
  <2>3. 0 < Len(All(e))
    <3>1. queue'[e] = Rest(All(e), 0) /\ queue'[e] # <<>>
      BY <1>3, <2>1, <2>2 DEF Queued, Shape
    <3>2. Rest(All(e), 0) = All(e)
      BY <2>2, Parts
    <3> QED
      BY <2>2, <3>1, <3>2
  <2>4. After(input.ledger, All(e), 0) = input.ledger
    BY <2>2, <2>3, AfterLemma
  <2> QED
    BY <1>1, <1>3, <2>1, <2>3, <2>4, BatchStarts
<1> QED
  BY <1>1, <1>2, <1>3

LEMMA ReadComputes ==
  ASSUME TypeOK, Shape, TypeOK', NEW e \in Executor, NEW t \in Tx,
         ReadSender(e, t) \/ ReadReceiver(e, t), Computed(e)
  PROVE  Computed(e)'
<1>1. /\ stage[e] = "read" /\ stage' = stage /\ input' = input /\ queue' = queue /\ InBatch(e, t)
  BY DEF ReadSender, ReadReceiver
<1>2. PICK k \in Nat : InBatchOf(e, k)
  BY <1>1 DEF Computed
<1> DEFINE b == After(input.ledger, All(e), k)
           s == All(e)[k + 1]
           r == result[e]
           q == result'[e]
<1>3. /\ Queued(e, k) /\ k < Len(All(e)) /\ Judged(r, b, s) /\ accounts = Touch(b, Seen(r))
  BY <1>1, <1>2 DEF InBatchOf, Reading
<1>4. IsLedger(b) /\ s \in Seq(Tx) /\ Head(queue[e]) = s
  BY <1>3, HeadOf
<1>5. /\ r \in [Tx -> Results] /\ Seen(r) \in SUBSET Account
      /\ {From[t]} \in SUBSET Account /\ {To[t]} \in SUBSET Account
  BY SeenLemma, TxTypes DEF TypeOK
<1>6. \E i \in DOMAIN s : s[i] = t
  BY <1>1, <1>4 DEF InBatch
<1>7. Queued(e, k)' /\ All(e)' = All(e) /\ stage'[e] = "read"
  BY <1>1, <1>3 DEF Queued, All, Work
<1>8. /\ Balance(accounts, From[t]) = Balance(b, From[t])
      /\ Balance(b, From[t]) \in Nat /\ Amount[t] \in Int
  <2>1. Balance(Touch(b, Seen(r)), From[t]) = Balance(b, From[t])
    BY <1>4, <1>5, TouchLemma
  <2>2. Balance(b, From[t]) \in Nat
    BY <1>4, BalanceTyped
  <2> QED
    BY <1>3, <2>1, <2>2, TxTypes
<1> SUFFICES Judged(q, b, s) /\ accounts' = Touch(b, Seen(q))
  <2>1. b' = b /\ s' = s
    BY <1>1, <1>7
  <2>2. Reading(e, b, s)'
    BY <2>1 DEF Reading
  <2>3. InBatchOf(e, k)'
    BY <1>3, <1>7, <2>2 DEF InBatchOf
  <2> QED
    BY <1>7, <2>3 DEF Computed
<1> HIDE DEF b, s
<1>9. CASE ReadSender(e, t)
  <2> DEFINE v == IF Balance(accounts, From[t]) < Amount[t] THEN "short" ELSE "enough"
  <2>1. q = [r EXCEPT ![t] = v] /\ r[t] = "none" /\ accounts' = Touch(accounts, {From[t]})
    BY <1>9 DEF ReadSender, TypeOK
  <2>2. v \in {"enough", "short"} /\ (v = "enough" <=> Balance(b, From[t]) >= Amount[t])
    BY <1>8
  <2> HIDE DEF q, r, v
  <2>3. Judged(q, b, s)
    <3> SUFFICES ASSUME NEW u \in Tx
                 PROVE  /\ q[u] # "none" => (\E i \in DOMAIN s : s[i] = u)
                        /\ q[u] \in {"enough", "ok"} => Balance(b, From[u]) >= Amount[u]
                        /\ q[u] \in {"short", "failed"} => ~ (Balance(b, From[u]) >= Amount[u])
      BY DEF Judged
    <3>1. CASE u = t
      BY <1>5, <1>6, <2>1, <2>2, <3>1
    <3>2. CASE u # t
      <4>1. q[u] = r[u]
        BY <1>5, <2>1, <3>2
      <4> QED
        BY <1>3, <4>1 DEF Judged
    <3> QED
      BY <3>1, <3>2
  <2>4. Seen(q) = Seen(r) \cup {From[t]}
    BY <1>5, <2>1, <2>2, SeenLemma
  <2>5. Touch(Touch(b, Seen(r)), {From[t]}) = Touch(b, Seen(r) \cup {From[t]})
    BY <1>4, <1>5, TouchTwice
  <2> QED
    BY <1>3, <2>1, <2>3, <2>4, <2>5
<1>10. CASE ReadReceiver(e, t)
  <2> DEFINE v == IF r[t] = "enough" THEN "ok" ELSE "failed"
  <2>1. /\ q = [r EXCEPT ![t] = v] /\ r[t] \in {"enough", "short"}
        /\ accounts' = Touch(accounts, {To[t]})
    BY <1>10 DEF ReadReceiver, TypeOK
  <2>2. v \in {"ok", "failed"} /\ (v = "ok" <=> Balance(b, From[t]) >= Amount[t])
    BY <1>3, <2>1 DEF Judged
  <2> HIDE DEF q, r, v
  <2>3. Judged(q, b, s)
    <3> SUFFICES ASSUME NEW u \in Tx
                 PROVE  /\ q[u] # "none" => (\E i \in DOMAIN s : s[i] = u)
                        /\ q[u] \in {"enough", "ok"} => Balance(b, From[u]) >= Amount[u]
                        /\ q[u] \in {"short", "failed"} => ~ (Balance(b, From[u]) >= Amount[u])
      BY DEF Judged
    <3>1. CASE u = t
      BY <1>5, <1>6, <2>1, <2>2, <3>1
    <3>2. CASE u # t
      <4>1. q[u] = r[u]
        BY <1>5, <2>1, <3>2
      <4> QED
        BY <1>3, <4>1 DEF Judged
    <3> QED
      BY <3>1, <3>2
  <2>4. Seen(q) = Seen(r) \cup {To[t]}
    BY <1>5, <2>1, <2>2, SeenLemma
  <2>5. Touch(Touch(b, Seen(r)), {To[t]}) = Touch(b, Seen(r) \cup {To[t]})
    BY <1>4, <1>5, TouchTwice
  <2> QED
    BY <1>3, <2>1, <2>3, <2>4, <2>5
<1> QED
  BY <1>9, <1>10

LEMMA BatchReadComputes ==
  ASSUME TypeOK, Shape, NEW e \in Executor, BatchRead(e), Computed(e)
  PROVE  Computed(e)'
<1>1. /\ stage[e] = "read" /\ stage'[e] = "apply" /\ input' = input /\ queue' = queue
      /\ accounts' = accounts /\ result' = result /\ cursor'[e] = 1 /\ half'[e] = "debit"
      /\ \A t \in Tx : InBatch(e, t) => result[e][t] \in {"ok", "failed"}
  BY DEF BatchRead, TypeOK
<1>2. PICK k \in Nat : InBatchOf(e, k)
  BY <1>1 DEF Computed
<1> DEFINE b == After(input.ledger, All(e), k)
           s == All(e)[k + 1]
           r == result[e]
<1>3. /\ Queued(e, k) /\ k < Len(All(e)) /\ Judged(r, b, s) /\ accounts = Touch(b, Seen(r))
      /\ r \in [Tx -> Results]
  BY <1>1, <1>2 DEF InBatchOf, Reading, TypeOK
<1>4. s \in Seq(Tx) /\ Head(queue[e]) = s
  BY <1>3, HeadOf
<1>5. Queued(e, k)' /\ All(e)' = All(e) /\ b' = b /\ s' = s
  BY <1>1, <1>3 DEF Queued, All, Work
<1> HIDE DEF b, s
<1>6. \A i \in DOMAIN s : r[s[i]] \in {"ok", "failed"}
  BY <1>1, <1>4 DEF InBatch
<1>7. accounts = Partial(b, s, 0)
  <2>1. Seen(r) = Reads(s)
    BY <1>3, <1>4, <1>6, SeenAll
  <2>2. Partial(b, s, 0) = Touch(b, Reads(s))
    BY <1>4, PartialLemma
  <2> QED
    BY <1>3, <2>1, <2>2
<1>8. Applied(e, b, s)'
  <2>1. 1 \in 1 .. Len(s) + 1 /\ 1 - 1 = 0
    BY <1>4
  <2> QED
    BY <1>1, <1>3, <1>5, <1>6, <1>7, <2>1 DEF Applied
<1>9. InBatchOf(e, k)'
  BY <1>1, <1>3, <1>5, <1>8 DEF InBatchOf, b, s
<1> QED
  BY <1>1, <1>9 DEF Computed

LEMMA ApplyComputes ==
  ASSUME TypeOK, Shape, NEW e \in Executor, Computed(e),
         ApplyDebit(e) \/ ApplyCredit(e) \/ SkipFailed(e)
  PROVE  Computed(e)'
<1>1. /\ stage[e] = "apply" /\ stage' = stage /\ input' = input /\ queue' = queue
      /\ result' = result /\ Applying(e)
  BY DEF ApplyDebit, ApplyCredit, SkipFailed, Applying
<1>2. PICK k \in Nat : InBatchOf(e, k)
  BY <1>1 DEF Computed
<1> DEFINE b == After(input.ledger, All(e), k)
           s == All(e)[k + 1]
           c == cursor[e]
           v == Partial(b, s, c - 1)
<1>3. Queued(e, k) /\ k < Len(All(e)) /\ Applied(e, b, s)
  BY <1>1, <1>2 DEF InBatchOf
<1>4. s \in Seq(Tx) /\ Head(queue[e]) = s
  BY <1>3, HeadOf
<1>5. Queued(e, k)' /\ All(e)' = All(e) /\ b' = b /\ s' = s
  BY <1>1, <1>3 DEF Queued, All, Work
<1> SUFFICES Applied(e, b, s)'
  <2>1. InBatchOf(e, k)'
    BY <1>1, <1>3, <1>5 DEF InBatchOf
  <2> QED
    BY <1>1, <2>1 DEF Computed
<1> HIDE DEF b, s
<1> DEFINE t == s[c]
<1>6. /\ c \in 1 .. Len(s) /\ t = Current(e) /\ t \in Tx
      /\ c - 1 \in 0 .. Len(s) /\ c - 1 < Len(s) /\ (c - 1) + 1 = c
      /\ c + 1 \in 1 .. Len(s) + 1 /\ (c + 1) - 1 = c
  <2>1. c \in 1 .. Len(s) /\ t = Current(e)
    BY <1>1, <1>4 DEF Applying, Current
  <2>2. Len(s) \in Nat /\ t \in Tx
    BY <1>4, <2>1
  <2> QED
    BY <2>1, <2>2
<1>7. Partial(b, s, c) = ApplyResult(b, v, t)
  <2>1. Partial(b, s, (c - 1) + 1) = ApplyResult(b, Partial(b, s, c - 1), s[(c - 1) + 1])
    BY <1>4, <1>6, PartialLemma
  <2> QED
    BY <1>6, <2>1
<1>8. /\ Judged(result[e], b, s)
      /\ \A i \in DOMAIN s : result[e][s[i]] \in {"ok", "failed"}
  BY <1>3 DEF Applied
<1>9. /\ half[e] = "debit" => accounts = v
      /\ half[e] = "credit" =>
           /\ result[e][t] = "ok" /\ ~ SelfTransfer(t)
           /\ accounts = UpdateBalance(v, From[t], -Amount[t])
  BY <1>3 DEF Applied
<1>10. /\ result[e][t] = "ok" => Balance(b, From[t]) >= Amount[t]
       /\ result[e][t] = "failed" => ~ (Balance(b, From[t]) >= Amount[t])
       /\ half[e] \in {"debit", "credit"}
  BY <1>6, <1>8 DEF Judged, TypeOK
<1> HIDE DEF v, t, c
<1>11. CASE ApplyDebit(e)
  <2>1. /\ cursor'[e] = c /\ half'[e] = "credit" /\ result[e][t] = "ok" /\ ~ SelfTransfer(t)
        /\ accounts' = UpdateBalance(v, From[t], -Amount[t])
    BY <1>6, <1>9, <1>11 DEF ApplyDebit, TypeOK, c
  <2>2. cursor'[e] \in 1 .. Len(s) + 1 /\ cursor'[e] <= Len(s)
    BY <1>6, <2>1
  <2> QED
    BY <1>1, <1>5, <1>8, <2>1, <2>2 DEF Applied, t, v
<1>12. ASSUME cursor'[e] = c + 1, half'[e] = "debit", accounts' = Partial(b, s, c)
       PROVE  Applied(e, b, s)'
  BY <1>1, <1>5, <1>6, <1>8, <1>12 DEF Applied
<1>13. CASE ApplyCredit(e)
  <2>1. /\ cursor'[e] = c + 1 /\ half'[e] = "debit" /\ result[e][t] = "ok"
        /\ half[e] = "credit" \/ SelfTransfer(t)
        /\ accounts' = UpdateBalance(accounts, To[t], Amount[t])
    BY <1>6, <1>13 DEF ApplyCredit, TypeOK, c
  <2>2. accounts' = ApplyDeltas(v, t)
    BY <1>9, <1>10, <2>1 DEF ApplyDeltas
  <2>3. accounts' = Partial(b, s, c)
    BY <1>7, <1>10, <2>1, <2>2 DEF ApplyResult
  <2> QED
    BY <1>12, <2>1, <2>3
<1>14. CASE SkipFailed(e)
  <2>1. cursor'[e] = c + 1 /\ half' = half /\ result[e][t] = "failed" /\ accounts' = accounts
    BY <1>6, <1>14 DEF SkipFailed, TypeOK, c
  <2>2. half[e] = "debit"
    BY <1>9, <1>10, <2>1
  <2>3. accounts' = Partial(b, s, c)
    BY <1>7, <1>9, <1>10, <2>1, <2>2 DEF ApplyResult
  <2> QED
    BY <1>12, <2>1, <2>2, <2>3
<1> QED
  BY <1>11, <1>13, <1>14

LEMMA NextComputes ==
  ASSUME TypeOK, Shape, NEW e \in Executor, Computed(e), NextBatch(e)
  PROVE  Computed(e)'
<1>1. /\ stage[e] = "apply" /\ ~ Applying(e) /\ input' = input /\ accounts' = accounts
      /\ queue'[e] = Tail(queue[e]) /\ result'[e] = NoResult
      /\ stage'[e] = IF Tail(queue[e]) = <<>> THEN "done" ELSE "read"
  BY DEF NextBatch, TypeOK
<1>2. PICK k \in Nat : InBatchOf(e, k)
  BY <1>1 DEF Computed
<1> DEFINE all == All(e)
           b == After(input.ledger, all, k)
           s == all[k + 1]
<1>3. Queued(e, k) /\ k < Len(all) /\ Applied(e, b, s)
  BY <1>1, <1>2 DEF InBatchOf
<1>4. s \in Seq(Tx) /\ Head(queue[e]) = s /\ Tail(queue[e]) = Rest(all, k + 1)
  BY <1>3, HeadOf
<1>5. all \in Seq(Batch) /\ IsLedger(input.ledger) /\ all' = all /\ Len(all) \in Nat
  BY <1>1, WorkTyped DEF All, Work
<1>6. k \in 0 .. Len(all) /\ k + 1 \in 0 .. Len(all) /\ k + 1 \in Nat
  BY <1>3, <1>5
<1>7. accounts = After(input.ledger, all, k + 1)
  <2>1. /\ cursor[e] \notin DOMAIN s /\ cursor[e] \in 1 .. Len(s) + 1
        /\ half[e] \in {"debit", "credit"}
    BY <1>1, <1>3, <1>4 DEF Applying, Applied, TypeOK
  <2>2. cursor[e] - 1 = Len(s) /\ ~ (cursor[e] <= Len(s)) /\ 0 \in 0 .. Len(s)
    BY <1>4, <2>1
  <2>3. accounts = Partial(b, s, Len(s))
    BY <1>3, <2>1, <2>2 DEF Applied
  <2>4. Partial(b, s, Len(s)) = ExecuteBatch(b, s)
    BY <1>4, <2>2, PartialLemma
  <2>5. After(input.ledger, all, k + 1) = ExecuteBatch(b, s)
    BY <1>3, <1>5, <1>6, AfterLemma
  <2> QED
    BY <2>3, <2>4, <2>5
<1>8. Queued(e, k + 1)'
  BY <1>1, <1>4, <1>5, <1>6 DEF Queued
<1>r. Rest(all, k + 1) = <<>> <=> k + 1 = Len(all)
  BY <1>5, <1>6, Parts
<1>9. CASE k + 1 = Len(all)
  <2>1. stage'[e] = "done"
    BY <1>1, <1>4, <1>9, <1>r
  <2>2. After(input.ledger, all, Len(all)) = Execute(input.ledger, Work(e))
    <3>1. SubSeq(all, 1, Len(all)) = all
      BY <1>5, <1>6, Parts
    <3> QED
      BY <3>1, ExecuteFolds DEF After, All
  <2> QED
    BY <1>1, <1>7, <1>9, <2>1, <2>2 DEF Computed, Work
<1>10. CASE k + 1 < Len(all)
  <2>1. stage'[e] = "read"
    <3>1. k + 1 # Len(all)
      BY <1>5, <1>6, <1>10
    <3> QED
      BY <1>1, <1>4, <1>r, <3>1
  <2> QED
    BY <1>1, <1>5, <1>6, <1>7, <1>8, <1>10, <2>1, BatchStarts
<1> QED
  BY <1>5, <1>6, <1>9, <1>10

LEMMA IdleStep == TypeOK /\ Idle /\ [Next]_vars => Idle'
<1> SUFFICES ASSUME TypeOK, Idle, [Next]_vars, NEW e \in Executor, Work(e)' = <<>>
             PROVE  stage'[e] = "done"
  BY DEF Idle
<1>1. stage[e] = "done"
  BY InputStays DEF Idle, Work
<1>2. CASE UNCHANGED vars
  BY <1>1, <1>2 DEF vars
<1>3. ASSUME NEW f \in Executor, Step(f) PROVE stage'[e] = "done"
  <2>1. f # e
    BY <1>1, <1>3 DEF Step, Scan, CloseBatch, ReadSender, ReadReceiver, BatchRead, ApplyDebit,
       ApplyCredit, SkipFailed, NextBatch, Applying
  <2> QED
    BY <1>1, <1>3, <2>1, OthersStay
<1> QED
  BY <1>2, <1>3 DEF Next

LEMMA ComputeStep ==
  TypeOK /\ Shape /\ FormInv /\ Idle /\ ComputeInv /\ [Next]_vars => ComputeInv'
<1> SUFFICES ASSUME TypeOK, Shape, FormInv, Idle, ComputeInv, [Next]_vars,
                    NEW e \in Executor, Alone(e)' PROVE Computed(e)'
  BY DEF ComputeInv
<1>0. Alone(e)
  BY InputStays DEF Alone
<1>1. TypeOK' /\ Shape' /\ Formed(e) /\ Computed(e)
  BY <1>0, TypeStep DEF FormInv, ComputeInv
<1>2. CASE UNCHANGED vars
  BY <1>1, <1>2 DEF vars, Computed, InBatchOf, Reading, Applied, Queued, Work, All
<1>3. CASE Scan(e)
  BY <1>1, <1>3 DEF Scan, Computed
<1>4. CASE CloseBatch(e)
  BY <1>1, <1>4, CloseComputes
<1>5. CASE \E t \in Tx : ReadSender(e, t) \/ ReadReceiver(e, t)
  BY <1>1, <1>5, ReadComputes
<1>6. CASE BatchRead(e)
  BY <1>1, <1>6, BatchReadComputes
<1>7. CASE ApplyDebit(e) \/ ApplyCredit(e) \/ SkipFailed(e)
  BY <1>1, <1>7, ApplyComputes
<1>8. CASE NextBatch(e)
  BY <1>1, <1>8, NextComputes
<1>9. CASE Next
  <2>1. PICK f \in Executor : Step(f)
    BY <1>9 DEF Next
  <2>2. stage[f] # "done"
    BY <2>1 DEF Step, Scan, CloseBatch, ReadSender, ReadReceiver, BatchRead, ApplyDebit,
       ApplyCredit, SkipFailed, NextBatch, Applying
  <2>3. f = e
    BY <1>0, <2>2 DEF Alone, Idle, Work
  <2> QED
    BY <2>1, <2>3, <1>3, <1>4, <1>5, <1>6, <1>7, <1>8 DEF Step
<1> QED
  BY <1>2, <1>9

\* While no other executes, a thread whose workers read in any order and whose
\* deltas are applied one by one ends with the ledger that Execute defines: the
\* state root is a function of the block and the ledger before it.
THEOREM ResultIsExecute == Spec => []MatchesExecute
<1>1. ComputeInv => MatchesExecute
  BY DEF ComputeInv, Computed, MatchesExecute, Work
<1> QED
  BY <1>1, TypeInit, TypeStep, FormInit, FormStep, ComputeInit, IdleStep, ComputeStep, PTL DEF Spec

-----------------------------------------------------------------------------
(* What a step makes of the funds                                          *)

\* Only a transfer between two accounts that succeeded is between its two deltas,
\* and there are finitely many accounts.
Crediting ==
  \A e \in Executor :
    Applying(e) /\ half[e] = "credit" => result[e][Current(e)] = "ok" /\ ~ SelfTransfer(Current(e))

KeptInv == SafeInv /\ Crediting /\ IsFiniteSet(DOMAIN accounts)

LEMMA KeptInit ==
  ASSUME \A b \in Ledgers : IsFiniteSet(DOMAIN b)
  PROVE  Init => KeptInv
<1> SUFFICES ASSUME Init PROVE KeptInv
  OBVIOUS
<1>1. Crediting
  BY DEF Init, Crediting, Applying
<1>2. IsFiniteSet(DOMAIN accounts)
  BY DEF Init
<1> QED
  BY <1>1, <1>2, SafeInit DEF KeptInv

LEMMA CreditingStep == KeptInv /\ [Next]_vars => Crediting'
<1> SUFFICES ASSUME KeptInv, [Next]_vars PROVE Crediting'
  OBVIOUS
<1>0. TypeOK /\ Crediting
  BY DEF KeptInv, SafeInv
<1> SUFFICES ASSUME NEW f \in Executor, Applying(f)', half'[f] = "credit"
             PROVE  result'[f][Current(f)'] = "ok" /\ ~ SelfTransfer(Current(f)')
  BY DEF Crediting, SelfTransfer
<1>1. stage'[f] = "apply" /\ cursor'[f] \in DOMAIN Head(queue'[f])
  BY DEF Applying
<1>2. CASE /\ stage'[f] = stage[f] /\ queue'[f] = queue[f] /\ cursor'[f] = cursor[f]
           /\ half'[f] = half[f] /\ result'[f] = result[f]
  BY <1>0, <1>1, <1>2 DEF Crediting, Applying, Current
<1>3. CASE UNCHANGED vars
  BY <1>2, <1>3 DEF vars
<1>4. ASSUME NEW e \in Executor, Step(e), e # f
      PROVE  result'[f][Current(f)'] = "ok" /\ ~ SelfTransfer(Current(f)')
  BY <1>0, <1>2, <1>4, OthersStay
<1>5. ASSUME Step(f) PROVE result'[f][Current(f)'] = "ok" /\ ~ SelfTransfer(Current(f)')
  <2>1. CASE Scan(f) \/ CloseBatch(f) \/ (\E t \in Tx : ReadSender(f, t) \/ ReadReceiver(f, t))
             \/ NextBatch(f)
    BY <1>0, <1>1, <2>1 DEF Scan, CloseBatch, ReadSender, ReadReceiver, NextBatch, TypeOK
  <2>2. CASE BatchRead(f) \/ ApplyCredit(f)
    BY <1>0, <2>2 DEF BatchRead, ApplyCredit, TypeOK
  <2>3. CASE ApplyDebit(f)
    <3>1. Current(f)' = Current(f) /\ result' = result
      BY <2>3 DEF ApplyDebit, Current
    <3> QED
      BY <2>3, <3>1 DEF ApplyDebit
  <2>4. CASE SkipFailed(f)
    <3>1. half[f] = "credit" /\ Applying(f) /\ result[f][Current(f)] = "failed"
      BY <2>4 DEF SkipFailed
    <3> QED
      BY <1>0, <3>1 DEF Crediting
  <2> QED
    BY <1>5, <2>1, <2>2, <2>3, <2>4 DEF Step
<1> QED
  BY <1>3, <1>4, <1>5 DEF Next

LEMMA CurrentTyped ==
  ASSUME TypeOK, Shape, NEW e \in Executor, Applying(e)
  PROVE  /\ Current(e) \in Tx /\ Amount[Current(e)] \in Int /\ -Amount[Current(e)] \in Int
         /\ From[Current(e)] \in Account /\ To[Current(e)] \in Account
<1>1. queue[e] # <<>> /\ queue[e] \in Seq(Seq(Tx))
  BY DEF TypeOK, Shape, Applying
<1>2. Head(queue[e]) \in Seq(Tx) /\ cursor[e] \in DOMAIN Head(queue[e])
  BY <1>1 DEF Applying
<1>3. Current(e) \in Tx
  BY <1>2 DEF Current
<1> QED
  BY <1>3, TxTypes

\* An update that is refused leaves the funds, one that is not adds its delta.
LEMMA FundsUpdated ==
  ASSUME IsLedger(accounts), IsFiniteSet(DOMAIN accounts), NEW a \in Account, NEW d \in Int,
         accounts' = UpdateBalance(accounts, a, d)
  PROVE  /\ IsFiniteSet(DOMAIN accounts') /\ Total(accounts) \in Int
         /\ Balance(accounts, a) + d >= 0 => Total(accounts') = Total(accounts) + d
         /\ Balance(accounts, a) + d < 0 => Total(accounts') = Total(accounts)
<1>1. Balance(accounts, a) \in Nat
  BY BalanceTyped
<1>2. CASE Balance(accounts, a) + d >= 0
  <2>1. ~ (Balance(accounts, a) + d < 0)
    BY <1>1, <1>2
  <2> QED
    BY <1>2, <2>1, TotalUpdated
<1>3. CASE Balance(accounts, a) + d < 0
  <2>1. accounts' = accounts /\ ~ (Balance(accounts, a) + d >= 0)
    BY <1>1, <1>3 DEF UpdateBalance
  <2> QED
    BY <2>1, TotalInt
<1> QED
  BY <1>1, <1>2, <1>3

\* What each step makes.
LEMMA FundsStep ==
  ASSUME KeptInv, NEW e \in Executor, Step(e)
  PROVE  IsFiniteSet(DOMAIN accounts') /\ (Makes(e, 0) \/ Unpaid(e))
<1>0. /\ TypeOK /\ Shape /\ Funded /\ Crediting
      /\ IsLedger(accounts) /\ IsFiniteSet(DOMAIN accounts) /\ Total(accounts) \in Int
  BY TotalInt DEF KeptInv, SafeInv, TypeOK
<1>1. \A f \in Executor \ {e} : InFlight(f)' = InFlight(f)
  <2> TAKE f \in Executor \ {e}
  <2>1. /\ stage'[f] = stage[f] /\ queue'[f] = queue[f] /\ cursor'[f] = cursor[f]
        /\ half'[f] = half[f]
    BY <1>0, OthersStay
  <2> QED
    BY <2>1 DEF InFlight, Applying, Current
<1>2. ASSUME IsFiniteSet(DOMAIN accounts'), Total(accounts') = Total(accounts),
             InFlight(e) = 0, InFlight(e)' = 0
      PROVE  IsFiniteSet(DOMAIN accounts') /\ Makes(e, 0)
  BY <1>0, <1>1, <1>2 DEF Makes
<1>3. CASE Scan(e) \/ CloseBatch(e)
  <2>1. accounts' = accounts /\ stage[e] # "apply" /\ stage'[e] # "apply"
    BY <1>0, <1>3 DEF Scan, CloseBatch, TypeOK
  <2>2. InFlight(e) = 0 /\ InFlight(e)' = 0
    BY <2>1 DEF InFlight, Applying
  <2> QED
    BY <1>0, <1>2, <2>1, <2>2
<1>4. CASE \E t \in Tx : ReadSender(e, t) \/ ReadReceiver(e, t)
  <2>1. PICK a \in Account : accounts' = Touch(accounts, {a})
    BY <1>4, TxTypes DEF ReadSender, ReadReceiver
  <2>2. IsFiniteSet(DOMAIN accounts') /\ Total(accounts') = Total(accounts)
    BY <1>0, <2>1, TotalRead
  <2>3. stage[e] = "read" /\ stage' = stage
    BY <1>4 DEF ReadSender, ReadReceiver
  <2>4. InFlight(e) = 0 /\ InFlight(e)' = 0
    BY <2>3 DEF InFlight, Applying
  <2> QED
    BY <1>2, <2>2, <2>4
<1>5. CASE BatchRead(e)
  <2>1. accounts' = accounts /\ stage[e] = "read" /\ half'[e] = "debit"
    BY <1>0, <1>5 DEF BatchRead, TypeOK
  <2>2. InFlight(e) = 0 /\ InFlight(e)' = 0
    BY <2>1 DEF InFlight, Applying
  <2> QED
    BY <1>0, <1>2, <2>1, <2>2
<1> DEFINE t == Current(e)
<1>6. CASE ApplyDebit(e)
  <2>1. Applying(e) /\ result[e][t] = "ok" /\ ~ SelfTransfer(t) /\ half[e] = "debit"
    BY <1>6 DEF ApplyDebit
  <2>2. Debiting(e)
    BY <2>1 DEF Debiting
  <2>3. Applying(e)' /\ Current(e)' = t /\ half'[e] = "credit"
    BY <1>0, <1>6 DEF ApplyDebit, Applying, Current, TypeOK
  <2>4. InFlight(e) = 0 /\ InFlight(e)' = Amount[t]
    BY <2>1, <2>3 DEF InFlight
  <2>5. accounts' = UpdateBalance(accounts, From[t], -Amount[t])
    BY <1>6 DEF ApplyDebit
  <2>6. From[t] \in Account /\ Amount[t] \in Int /\ -Amount[t] \in Int
    BY <1>0, <2>1, CurrentTyped
  <2>7. Balance(accounts, From[t]) >= Amount[t] \/ From[t] \in drawn[e]
    <3>1. DebitAhead(e, cursor[e]) /\ cursor[e] \in DOMAIN Head(queue[e])
      BY <2>1 DEF DebitAhead, Applying
    <3> QED
      BY <1>0, <2>1, <3>1 DEF Funded, Covered, Current
  <2>8. Balance(accounts, From[t]) \in Nat
    BY <1>0, BalanceTyped
  <2> HIDE DEF t
  <2>9. /\ IsFiniteSet(DOMAIN accounts')
        /\ Balance(accounts, From[t]) + -Amount[t] >= 0 =>
             Total(accounts') = Total(accounts) + -Amount[t]
        /\ Balance(accounts, From[t]) + -Amount[t] < 0 => Total(accounts') = Total(accounts)
    BY <1>0, <2>5, <2>6, FundsUpdated
  <2>10. CASE Balance(accounts, From[t]) >= Amount[t]
    <3>1. Total(accounts') = Total(accounts) + -Amount[t]
      BY <2>6, <2>8, <2>9, <2>10
    <3>2. Total(accounts') + InFlight(e)' = Total(accounts) + InFlight(e) + 0
      BY <1>0, <2>4, <2>6, <3>1
    <3> QED
      BY <1>1, <2>9, <3>2 DEF Makes
  <2>11. CASE ~ (Balance(accounts, From[t]) >= Amount[t])
    <3>1. Total(accounts') = Total(accounts) /\ Balance(accounts, From[t]) < Amount[t]
      BY <2>6, <2>8, <2>9, <2>11
    <3>2. Total(accounts') + InFlight(e)' = Total(accounts) + InFlight(e) + Amount[t]
      BY <1>0, <2>4, <2>6, <3>1
    <3>3. Makes(e, Amount[t])
      BY <1>1, <3>2 DEF Makes
    <3> QED
      BY <2>2, <2>7, <2>9, <2>11, <3>1, <3>3 DEF Unpaid, t
  <2> QED
    BY <2>10, <2>11
<1>7. CASE ApplyCredit(e)
  <2>1. Applying(e) /\ (half[e] = "credit" \/ SelfTransfer(t))
    BY <1>7 DEF ApplyCredit
  <2>2. InFlight(e)' = 0
    BY <1>0, <1>7 DEF InFlight, ApplyCredit, TypeOK
  <2>3. accounts' = UpdateBalance(accounts, To[t], Amount[t])
    BY <1>7 DEF ApplyCredit
  <2>4. To[t] \in Account /\ Amount[t] \in Int /\ -Amount[t] \in Int
    BY <1>0, <2>1, CurrentTyped
  <2>5. Balance(accounts, To[t]) \in Nat
    BY <1>0, BalanceTyped
  <2>6. half[e] = "credit" => ~ SelfTransfer(t) /\ InFlight(e) = Amount[t]
    BY <1>0, <2>1 DEF Crediting, InFlight
  <2>7. half[e] # "credit" => SelfTransfer(t) /\ InFlight(e) = 0
    BY <2>1 DEF InFlight
  <2> HIDE DEF t
  <2>8. /\ IsFiniteSet(DOMAIN accounts')
        /\ Balance(accounts, To[t]) + Amount[t] >= 0 =>
             Total(accounts') = Total(accounts) + Amount[t]
        /\ Balance(accounts, To[t]) + Amount[t] < 0 => Total(accounts') = Total(accounts)
    BY <1>0, <2>3, <2>4, FundsUpdated
  <2>9. CASE Balance(accounts, To[t]) + Amount[t] >= 0 /\ half[e] = "credit"
    <3>1. Total(accounts') + InFlight(e)' = Total(accounts) + InFlight(e) + 0
      BY <1>0, <2>2, <2>4, <2>6, <2>8, <2>9
    <3> QED
      BY <1>1, <2>8, <3>1 DEF Makes
  <2>10. CASE Balance(accounts, To[t]) + Amount[t] >= 0 /\ half[e] # "credit"
    <3>1. Total(accounts') + InFlight(e)' = Total(accounts) + InFlight(e) + Amount[t]
      BY <1>0, <2>2, <2>4, <2>7, <2>8, <2>10
    <3>2. Makes(e, Amount[t])
      BY <1>1, <3>1 DEF Makes
    <3> QED
      BY <2>1, <2>7, <2>8, <2>10, <3>2 DEF Unpaid, t
  <2>11. CASE Balance(accounts, To[t]) + Amount[t] < 0 /\ half[e] = "credit"
    <3>1. Total(accounts') + InFlight(e)' = Total(accounts) + InFlight(e) + -Amount[t]
      BY <1>0, <2>2, <2>4, <2>6, <2>8, <2>11
    <3>2. Makes(e, -Amount[t])
      BY <1>1, <3>1 DEF Makes
    <3> QED
      BY <2>1, <2>8, <2>11, <3>2 DEF Unpaid, t
  <2>12. CASE Balance(accounts, To[t]) + Amount[t] < 0 /\ half[e] # "credit"
    BY <1>2, <2>2, <2>7, <2>8, <2>12
  <2> QED
    BY <2>4, <2>5, <2>9, <2>10, <2>11, <2>12
<1>8. CASE SkipFailed(e)
  <2>1. accounts' = accounts /\ half[e] # "credit" /\ half' = half
    BY <1>0, <1>8 DEF SkipFailed, Crediting
  <2>2. InFlight(e) = 0 /\ InFlight(e)' = 0
    BY <2>1 DEF InFlight
  <2> QED
    BY <1>0, <1>2, <2>1, <2>2
<1>9. CASE NextBatch(e)
  <2>1. accounts' = accounts /\ ~ Applying(e) /\ stage'[e] # "apply"
    BY <1>0, <1>9 DEF NextBatch, TypeOK
  <2>2. InFlight(e) = 0 /\ InFlight(e)' = 0
    BY <2>1 DEF InFlight, Applying
  <2> QED
    BY <1>0, <1>2, <2>1, <2>2
<1> QED
  BY <1>3, <1>4, <1>5, <1>6, <1>7, <1>8, <1>9 DEF Step

\* Any number of threads: a step makes funds only by a debit refused in a race, by a
\* transfer to oneself or by a negative amount its receiver cannot pay, and exactly
\* that amount; no step of any thread loses any.
THEOREM FundsAccounted ==
  (\A b \in Ledgers : IsFiniteSet(DOMAIN b)) => (Spec => FundsKept)
<1> SUFFICES ASSUME \A b \in Ledgers : IsFiniteSet(DOMAIN b) PROVE Spec => FundsKept
  OBVIOUS
<1>1. Init => KeptInv
  BY KeptInit
<1>2. KeptInv /\ [Next]_vars => KeptInv'
  <2> SUFFICES ASSUME KeptInv, [Next]_vars PROVE IsFiniteSet(DOMAIN accounts')
    BY SafeStep, CreditingStep DEF KeptInv
  <2>1. CASE UNCHANGED vars
    BY <2>1 DEF vars, KeptInv
  <2>2. CASE Next
    BY <2>2, FundsStep DEF Next
  <2> QED
    BY <2>1, <2>2
<1>3. KeptInv /\ [Next]_vars => [\E e \in Executor : Makes(e, 0) \/ Unpaid(e)]_vars
  BY FundsStep DEF Next
<1> QED
  BY <1>1, <1>2, <1>3, PTL DEF Spec, FundsKept
=============================================================================
