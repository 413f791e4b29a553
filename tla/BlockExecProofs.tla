-------------------------- MODULE BlockExecProofs ---------------------------
(***************************************************************************)
(* What executing a list of transactions does to a ledger, for every       *)
(* ledger and every list: it is the serial execution of the batches, it    *)
(* depends on the balances only, and it keeps the sum of the funds.        *)
(*                                                                         *)
(* The functions of BlockExec are folds; each is one of Folding's, over    *)
(* an operator with a parameter, and the facts of Folding apply to it.     *)
(***************************************************************************)
EXTENDS BlockLists, FiniteSetTheorems, TLAPS

PlaceNext(p, acc, t) == Place(acc, t)
PassNext(p, acc, t) == NextPass(acc, t)
ExecuteNext(p, b, t) == ExecuteOne(b, t)
BatchNext(p, b, batch) == ExecuteBatch(b, batch)
SerialNext(p, b, batch) == ExecuteInOrder(b, batch)
CountNext(t, n, batch) == n + Occurs(batch, t)
MintNext(p, acc, t) == Mint(acc, t)
MintBatchNext(p, acc, batch) == MintBatch(acc, batch)

FPlace == INSTANCE Folding WITH Op <- PlaceNext
FPass == INSTANCE Folding WITH Op <- PassNext
FResult == INSTANCE Folding WITH Op <- ApplyResult
FOne == INSTANCE Folding WITH Op <- ExecuteNext
FBatch == INSTANCE Folding WITH Op <- BatchNext
FSerial == INSTANCE Folding WITH Op <- SerialNext
FCount == INSTANCE Folding WITH Op <- CountNext
FMint == INSTANCE Folding WITH Op <- MintNext
FMinted == INSTANCE Folding WITH Op <- MintBatchNext

\* Its sums are the same for any operator.
FSum == INSTANCE Folding WITH Op <- PlaceNext

LEMMA PeelFolds ==
  ASSUME NEW txs
  PROVE  Peel(txs) = FPlace!Fold(0, [batch |-> <<>>, rest |-> <<>>], txs)
BY DEF Peel, PlaceNext, FPlace!Fold, FoldLeft, MapThenFoldSet, Max,
       FPlace!FoldLeft, FPlace!MapThenFoldSet, FPlace!Max

LEMMA BatchesFold ==
  ASSUME NEW txs
  PROVE  Batches(txs) = FPass!Fold(0, [done |-> <<>>, rest |-> txs], txs).done
BY DEF Batches, PassNext, FPass!Fold, FoldLeft, MapThenFoldSet, Max,
       FPass!FoldLeft, FPass!MapThenFoldSet, FPass!Max

LEMMA ExecuteBatchFolds ==
  ASSUME NEW b, NEW batch
  PROVE  ExecuteBatch(b, batch) = FResult!Fold(b, Touch(b, Reads(batch)), batch)
BY DEF ExecuteBatch, FResult!Fold, FoldLeft, MapThenFoldSet, Max,
       FResult!FoldLeft, FResult!MapThenFoldSet, FResult!Max

LEMMA ExecuteInOrderFolds ==
  ASSUME NEW b, NEW txs
  PROVE  ExecuteInOrder(b, txs) = FOne!Fold(0, b, txs)
BY DEF ExecuteInOrder, ExecuteNext, FOne!Fold, FoldLeft, MapThenFoldSet, Max,
       FOne!FoldLeft, FOne!MapThenFoldSet, FOne!Max

LEMMA ExecuteFolds ==
  ASSUME NEW b, NEW txs
  PROVE  Execute(b, txs) = FBatch!Fold(0, b, Batches(txs))
BY DEF Execute, BatchNext, FBatch!Fold, FoldLeft, MapThenFoldSet, Max,
       FBatch!FoldLeft, FBatch!MapThenFoldSet, FBatch!Max

LEMMA SerialFolds ==
  ASSUME NEW b, NEW batches
  PROVE  FoldLeft(ExecuteInOrder, b, batches) = FSerial!Fold(0, b, batches)
BY DEF SerialNext, FSerial!Fold, FoldLeft, MapThenFoldSet, Max,
       FSerial!FoldLeft, FSerial!MapThenFoldSet, FSerial!Max

LEMMA OccursFolds ==
  ASSUME NEW batches, NEW t
  PROVE  OccursIn(batches, t) = FCount!Fold(t, 0, batches)
BY DEF OccursIn, CountNext, FCount!Fold, FoldLeft, MapThenFoldSet, Max,
       FCount!FoldLeft, FCount!MapThenFoldSet, FCount!Max

LEMMA MintFolds ==
  ASSUME NEW acc, NEW batch
  PROVE  MintBatch(acc, batch) = FMint!Fold(0, acc, batch)
BY DEF MintBatch, MintNext, FMint!Fold, FoldLeft, MapThenFoldSet, Max,
       FMint!FoldLeft, FMint!MapThenFoldSet, FMint!Max

LEMMA MintedFolds ==
  ASSUME NEW b, NEW batches
  PROVE  Minted(b, batches) = FMinted!Fold(0, [ledger |-> b, minted |-> 0], batches).minted
BY DEF Minted, MintBatchNext, FMinted!Fold, FoldLeft, MapThenFoldSet, Max,
       FMinted!FoldLeft, FMinted!MapThenFoldSet, FMinted!Max

-----------------------------------------------------------------------------
(* Ledgers *)

\* The ledgers, as a set.
LedgerSet == UNION {[D -> Nat] : D \in SUBSET Account}

LEMMA LedgerIsMember ==
  ASSUME NEW b
  PROVE  IsLedger(b) <=> b \in LedgerSet
<1>1. ASSUME IsLedger(b) PROVE b \in LedgerSet
  BY <1>1 DEF IsLedger, LedgerSet
<1>2. ASSUME b \in LedgerSet PROVE IsLedger(b)
  <2>1. PICK D \in SUBSET Account : b \in [D -> Nat]
    BY <1>2 DEF LedgerSet
  <2>2. DOMAIN b = D
    BY <2>1
  <2> QED
    BY <2>1, <2>2 DEF IsLedger
<1> QED
  BY <1>1, <1>2

\* The type of the transaction data.
LEMMA TxTypes ==
  \A t \in Tx : /\ From[t] \in Account
                /\ To[t] \in Account
                /\ Amount[t] \in Int
BY LedgerAssumption

LEMMA BalanceTyped ==
  ASSUME NEW b, IsLedger(b)
  PROVE  /\ \A x : Balance(b, x) \in Nat
         /\ \A x : Balance(b, x) > 0 => x \in DOMAIN b
         /\ \A x \in DOMAIN b : b[x] = Balance(b, x)
         /\ DOMAIN b \subseteq Account
BY DEF IsLedger, Balance

\* A ledger is its accounts and their balances.
LEMMA SameLedger ==
  ASSUME NEW b, IsLedger(b), NEW c, IsLedger(c), DOMAIN b = DOMAIN c,
         \A x \in DOMAIN b : Balance(b, x) = Balance(c, x)
  PROVE  b = c
<1>1. \A x \in DOMAIN b : b[x] = c[x]
  BY DEF Balance
<1>2. b = [x \in DOMAIN b |-> b[x]] /\ c = [x \in DOMAIN c |-> c[x]]
  BY DEF IsLedger
<1> QED
  BY <1>1, <1>2

\* Reading accounts creates some and changes no balance.
LEMMA TouchLemma ==
  ASSUME NEW b, IsLedger(b), NEW A \in SUBSET Account
  PROVE  /\ IsLedger(Touch(b, A))
         /\ DOMAIN Touch(b, A) = DOMAIN b \cup A
         /\ \A x : Balance(Touch(b, A), x) = Balance(b, x)
<1>1. \A x \in DOMAIN b \cup A : Balance(b, x) \in Nat
  BY DEF IsLedger, Balance
<1>2. DOMAIN Touch(b, A) = DOMAIN b \cup A
  BY DEF Touch
<1>3. IsLedger(Touch(b, A))
  BY <1>1, <1>2 DEF IsLedger, Touch
<1>4. \A x : Balance(Touch(b, A), x) = Balance(b, x)
  BY <1>2 DEF Touch, Balance
<1> QED
  BY <1>2, <1>3, <1>4

\* An update keeps the ledger a ledger, and changes the balance of its account
\* unless that would become negative.
LEMMA UpdateLemma ==
  ASSUME NEW b, IsLedger(b), NEW a \in Account, NEW d \in Int
  PROVE  /\ IsLedger(UpdateBalance(b, a, d))
         /\ Balance(b, a) + d < 0 => UpdateBalance(b, a, d) = b
         /\ Balance(b, a) + d >= 0 =>
              /\ DOMAIN UpdateBalance(b, a, d) = DOMAIN b \cup {a}
              /\ \A x : Balance(UpdateBalance(b, a, d), x) =
                          Balance(b, x) + (IF x = a THEN d ELSE 0)
<1>1. CASE Balance(b, a) + d < 0
  <2>1. Balance(b, a) \in Nat
    BY BalanceTyped
  <2> QED
    BY <1>1, <2>1 DEF UpdateBalance
<1>2. CASE ~ (Balance(b, a) + d < 0)
  <2> DEFINE new == [x \in DOMAIN b \cup {a} |-> Balance(b, x) + (IF x = a THEN d ELSE 0)]
  <2>1. \A x : Balance(b, x) \in Nat
    BY BalanceTyped
  <2>2. \A x \in DOMAIN b \cup {a} : new[x] \in Nat
    BY <2>1, <1>2
  <2>3. IsLedger(new) /\ DOMAIN new = DOMAIN b \cup {a}
    BY <2>2, BalanceTyped DEF IsLedger
  <2>4. ASSUME NEW x PROVE Balance(new, x) = Balance(b, x) + (IF x = a THEN d ELSE 0)
    <3>1. CASE x \in DOMAIN b \cup {a}
      BY <2>3, <3>1 DEF Balance
    <3>2. CASE x \notin DOMAIN b \cup {a}
      BY <2>3, <3>2 DEF Balance
    <3> QED
      BY <3>1, <3>2
  <2>5. UpdateBalance(b, a, d) = new
    BY <1>2 DEF UpdateBalance
  <2> HIDE DEF new
  <2> QED
    BY <1>2, <2>1, <2>3, <2>4, <2>5
<1> QED
  BY <1>1, <1>2

\* What is left of a delta on an account with the balance given.
Granted(d, has) == IF has + d >= 0 THEN d ELSE 0

\* What a transaction adds to an account x that has the balance given.
Gain(t, x, has) ==
  (IF x = To[t] THEN Granted(Amount[t], has) ELSE 0)
    + (IF x = From[t] /\ ~ SelfTransfer(t) THEN Granted(-Amount[t], has) ELSE 0)

LEMMA GrantedLemma ==
  ASSUME NEW b, IsLedger(b), NEW a \in Account, NEW d \in Int
  PROVE  /\ IsLedger(UpdateBalance(b, a, d))
         /\ a \in DOMAIN b => DOMAIN UpdateBalance(b, a, d) = DOMAIN b
         /\ \A x : Balance(UpdateBalance(b, a, d), x) =
                     Balance(b, x) + (IF x = a THEN Granted(d, Balance(b, x)) ELSE 0)
<1>1. \A x : Balance(b, x) \in Nat
  BY BalanceTyped
<1>2. CASE Balance(b, a) + d < 0
  <2>1. UpdateBalance(b, a, d) = b
    BY <1>2, UpdateLemma
  <2>2. \A x : (IF x = a THEN Granted(d, Balance(b, x)) ELSE 0) = 0
    BY <1>1, <1>2 DEF Granted
  <2> QED
    BY <1>1, <2>1, <2>2
<1>3. CASE ~ (Balance(b, a) + d < 0)
  <2>1. Balance(b, a) + d >= 0
    BY <1>1, <1>3
  <2>2. /\ IsLedger(UpdateBalance(b, a, d))
        /\ DOMAIN UpdateBalance(b, a, d) = DOMAIN b \cup {a}
        /\ \A x : Balance(UpdateBalance(b, a, d), x) = Balance(b, x) + (IF x = a THEN d ELSE 0)
    BY <2>1, UpdateLemma
  <2>3. \A x : (IF x = a THEN Granted(d, Balance(b, x)) ELSE 0) = (IF x = a THEN d ELSE 0)
    BY <2>1 DEF Granted
  <2> QED
    BY <2>2, <2>3
<1> QED
  BY <1>2, <1>3

LEMMA ApplyLemma ==
  ASSUME NEW b, IsLedger(b), NEW t \in Tx
  PROVE  /\ IsLedger(ApplyDeltas(b, t))
         /\ Accesses(t) \subseteq DOMAIN b => DOMAIN ApplyDeltas(b, t) = DOMAIN b
         /\ \A x : Balance(ApplyDeltas(b, t), x) = Balance(b, x) + Gain(t, x, Balance(b, x))
<1> DEFINE v == Amount[t]
           debited == IF SelfTransfer(t) THEN b ELSE UpdateBalance(b, From[t], -v)
           after == UpdateBalance(debited, To[t], v)
           paid(x) == IF x = From[t] /\ ~ SelfTransfer(t) THEN Granted(-v, Balance(b, x)) ELSE 0
           got(x) == IF x = To[t] THEN Granted(v, Balance(b, x)) ELSE 0
<1>1. From[t] \in Account /\ To[t] \in Account /\ v \in Int /\ -v \in Int
  BY TxTypes
<1>2. \A x : Balance(b, x) \in Nat
  BY BalanceTyped
<1>3. /\ ApplyDeltas(b, t) = after
      /\ \A x : Gain(t, x, Balance(b, x)) = got(x) + paid(x)
      /\ From[t] \in Accesses(t) /\ To[t] \in Accesses(t)
      /\ SelfTransfer(t) <=> From[t] = To[t]
  BY DEF ApplyDeltas, Gain, Accesses, SelfTransfer
<1>4. \A x : paid(x) \in Int /\ got(x) \in Int
  BY <1>1 DEF Granted
<1> HIDE DEF v
<1>5. /\ IsLedger(debited)
      /\ From[t] \in DOMAIN b => DOMAIN debited = DOMAIN b
      /\ \A x : Balance(debited, x) = Balance(b, x) + paid(x)
  <2>1. CASE SelfTransfer(t)
    BY <1>2, <2>1
  <2>2. CASE ~ SelfTransfer(t)
    BY <1>1, <2>2, GrantedLemma
  <2> QED
    BY <2>1, <2>2
<1> HIDE DEF debited
<1>6. /\ IsLedger(after)
      /\ To[t] \in DOMAIN debited => DOMAIN after = DOMAIN debited
      /\ \A x : Balance(after, x) =
                  Balance(debited, x) + (IF x = To[t] THEN Granted(v, Balance(debited, x)) ELSE 0)
  BY <1>1, <1>5, GrantedLemma
<1>7. \A x : x = To[t] => paid(x) = 0
  BY <1>3
<1> HIDE DEF paid, after
<1>8. ASSUME NEW x PROVE Balance(after, x) = Balance(b, x) + Gain(t, x, Balance(b, x))
  <2>1. /\ Balance(b, x) \in Nat /\ paid(x) \in Int /\ got(x) \in Int
        /\ Balance(debited, x) = Balance(b, x) + paid(x)
        /\ Gain(t, x, Balance(b, x)) = got(x) + paid(x)
    BY <1>2, <1>3, <1>4, <1>5
  <2>2. CASE x = To[t]
    <3>1. Balance(debited, x) = Balance(b, x)
      BY <1>7, <2>1, <2>2
    <3>2. Balance(after, x) = Balance(b, x) + got(x)
      BY <1>6, <2>2, <3>1
    <3> QED
      BY <1>7, <2>1, <2>2, <3>2
  <2>3. CASE x # To[t]
    <3>1. got(x) = 0 /\ Balance(after, x) = Balance(debited, x) + 0
      BY <1>6, <2>3
    <3> HIDE DEF got
    <3> QED
      BY <2>1, <3>1
  <2> QED
    BY <2>2, <2>3
<1> QED
  BY <1>3, <1>5, <1>6, <1>8

\* The same, after a check that found the sender with the balance given.
Due(t, x, found, has) == IF found >= Amount[t] THEN Gain(t, x, has) ELSE 0

\* A transaction is executed if its sender has the amount before.
LEMMA OneLemma ==
  ASSUME NEW b, IsLedger(b), NEW t \in Tx
  PROVE  /\ IsLedger(ExecuteOne(b, t))
         /\ DOMAIN ExecuteOne(b, t) = DOMAIN b \cup Accesses(t)
         /\ \A x : Balance(ExecuteOne(b, t), x) =
              Balance(b, x) + Due(t, x, Balance(b, From[t]), Balance(b, x))
<1> DEFINE read == Touch(b, Accesses(t))
<1>1. Accesses(t) \in SUBSET Account /\ From[t] \in Accesses(t) /\ To[t] \in Accesses(t)
  BY TxTypes DEF Accesses
<1>2. /\ IsLedger(read) /\ DOMAIN read = DOMAIN b \cup Accesses(t)
      /\ \A x : Balance(read, x) = Balance(b, x)
  BY <1>1, TouchLemma
<1>3. read[From[t]] = Balance(b, From[t]) /\ \A x : Balance(b, x) \in Nat
  BY <1>1, <1>2, BalanceTyped
<1>4. ExecuteOne(b, t) = IF read[From[t]] >= Amount[t] THEN ApplyDeltas(read, t) ELSE read
  BY DEF ExecuteOne
<1> HIDE DEF read
<1>5. CASE Balance(b, From[t]) >= Amount[t]
  <2>1. /\ IsLedger(ApplyDeltas(read, t)) /\ DOMAIN ApplyDeltas(read, t) = DOMAIN read
        /\ \A x : Balance(ApplyDeltas(read, t), x) = Balance(read, x) + Gain(t, x, Balance(read, x))
    BY <1>2, ApplyLemma
  <2> QED
    BY <1>1, <1>2, <1>3, <1>4, <1>5, <2>1 DEF Due
<1>6. CASE ~ (Balance(b, From[t]) >= Amount[t])
  <2>1. ExecuteOne(b, t) = read
    BY <1>3, <1>4, <1>6
  <2>2. \A x : Balance(b, x) = Balance(b, x) + 0
    BY <1>3
  <2> QED
    BY <1>2, <1>6, <2>1, <2>2 DEF Due
<1> QED
  BY <1>5, <1>6

\* In a batch it is if its sender had the amount in the ledger the batch read.
LEMMA ResultLemma ==
  ASSUME NEW b, NEW w, IsLedger(w), NEW t \in Tx
  PROVE  /\ IsLedger(ApplyResult(b, w, t))
         /\ Accesses(t) \subseteq DOMAIN w => DOMAIN ApplyResult(b, w, t) = DOMAIN w
         /\ \A x : Balance(ApplyResult(b, w, t), x) =
              Balance(w, x) + Due(t, x, Balance(b, From[t]), Balance(w, x))
<1>1. /\ IsLedger(ApplyDeltas(w, t))
      /\ Accesses(t) \subseteq DOMAIN w => DOMAIN ApplyDeltas(w, t) = DOMAIN w
      /\ \A x : Balance(ApplyDeltas(w, t), x) = Balance(w, x) + Gain(t, x, Balance(w, x))
  BY ApplyLemma
<1>2. \A x : Balance(w, x) \in Nat
  BY BalanceTyped
<1>3. CASE Balance(b, From[t]) >= Amount[t]
  BY <1>1, <1>3 DEF ApplyResult, Accesses, Due
<1>4. CASE ~ (Balance(b, From[t]) >= Amount[t])
  <2>1. ApplyResult(b, w, t) = w
    BY <1>4 DEF ApplyResult
  <2>2. \A x : Balance(w, x) = Balance(w, x) + 0
    BY <1>2
  <2> QED
    BY <1>4, <2>1, <2>2 DEF Due
<1> QED
  BY <1>3, <1>4

-----------------------------------------------------------------------------
(* A batch without conflicts is serial *)

\* No two transactions of a batch conflict.
Batch == {s \in Seq(Tx) : \A i, j \in 1 .. Len(s) : i < j => ~ Conflict(s[j], s[i])}

LEMMA ReadsAppend ==
  ASSUME NEW s \in Seq(Tx), NEW t \in Tx
  PROVE  /\ Append(s, t) \in Seq(Tx)
         /\ Reads(Append(s, t)) = Reads(s) \cup Accesses(t)
         /\ Append(s, t) \in Batch <=> s \in Batch /\ CanAdd(s, t)
         /\ CanAdd(s, t) <=> Accesses(t) \cap Reads(s) = {}
<1> DEFINE r == Append(s, t)
           n == Len(s)
<1>1. /\ r \in Seq(Tx) /\ n \in Nat /\ Len(r) = n + 1 /\ DOMAIN s = 1 .. n /\ DOMAIN r = 1 .. n + 1
      /\ r[n + 1] = t /\ \A i \in 1 .. n : r[i] = s[i]
  OBVIOUS
<1> HIDE DEF r, n
<1>2. Reads(r) = Reads(s) \cup Accesses(t)
  <2>1. ASSUME NEW x PROVE x \in Reads(r) <=> x \in Reads(s) \/ x \in Accesses(t)
    <3>1. x \in Reads(r) <=> \E i \in 1 .. n + 1 : x \in Accesses(r[i])
      BY <1>1 DEF Reads
    <3>2. x \in Reads(s) <=> \E i \in 1 .. n : x \in Accesses(s[i])
      BY <1>1 DEF Reads
    <3>3. (1 .. n + 1) = (1 .. n) \cup {n + 1}
      BY <1>1
    <3> QED
      BY <1>1, <3>1, <3>2, <3>3
  <2> QED
    BY <2>1
<1>3. CanAdd(s, t) <=> Accesses(t) \cap Reads(s) = {}
  BY <1>1 DEF CanAdd, Conflict, Reads
<1>4. r \in Batch <=> s \in Batch /\ CanAdd(s, t)
  <2>1. ASSUME r \in Batch PROVE s \in Batch /\ CanAdd(s, t)
    BY <1>1, <2>1 DEF Batch, CanAdd, n
  <2>2. ASSUME s \in Batch, CanAdd(s, t) PROVE r \in Batch
    <3> SUFFICES ASSUME NEW i \in 1 .. n + 1, NEW j \in 1 .. n + 1, i < j
                 PROVE  ~ Conflict(r[j], r[i])
      BY <1>1 DEF Batch
    <3>1. i \in 1 .. n /\ r[i] = s[i]
      BY <1>1
    <3>2. CASE j = n + 1
      BY <1>1, <2>2, <3>1, <3>2 DEF CanAdd
    <3>3. CASE j # n + 1
      <4>1. j \in 1 .. n /\ r[j] = s[j]
        BY <1>1, <3>3
      <4> QED
        BY <2>2, <3>1, <4>1 DEF Batch, n
    <3> QED
      BY <3>2, <3>3
  <2> QED
    BY <2>1, <2>2
<1> QED
  BY <1>1, <1>2, <1>3, <1>4 DEF r

\* The two ways to execute s agree: w is the ledger of the batch, whose reads
\* created the accounts U before, and o the one of the serial execution.
Agree(b, U, s, w, o) ==
  /\ IsLedger(w) /\ DOMAIN w = DOMAIN b \cup U
  /\ IsLedger(o) /\ DOMAIN o = DOMAIN b \cup Reads(s)
  /\ \A x : Balance(w, x) = Balance(o, x)
  /\ \A x : x \notin Reads(s) => Balance(o, x) = Balance(b, x)

LEMMA AgreeNext ==
  ASSUME NEW b, IsLedger(b), NEW U \in SUBSET Account, NEW s \in Seq(Tx), NEW t \in Tx,
         NEW w, NEW o, Agree(b, U, s, w, o), CanAdd(s, t), Accesses(t) \subseteq U
  PROVE  Agree(b, U, Append(s, t), ApplyResult(b, w, t), ExecuteOne(o, t))
<1> DEFINE w2 == ApplyResult(b, w, t)
           o2 == ExecuteOne(o, t)
<1>1. Reads(Append(s, t)) = Reads(s) \cup Accesses(t) /\ Accesses(t) \cap Reads(s) = {}
  BY ReadsAppend
<1>2. From[t] \in Accesses(t) /\ To[t] \in Accesses(t)
  BY DEF Accesses
<1>3. Balance(o, From[t]) = Balance(b, From[t]) /\ Balance(w, From[t]) = Balance(b, From[t])
  BY <1>1, <1>2 DEF Agree
<1>4. /\ IsLedger(w2) /\ DOMAIN w2 = DOMAIN w
      /\ \A x : Balance(w2, x) =
           Balance(w, x) + Due(t, x, Balance(b, From[t]), Balance(w, x))
  <2>1. IsLedger(w) /\ Accesses(t) \subseteq DOMAIN w
    BY DEF Agree
  <2> HIDE DEF w2
  <2>2. w2 = ApplyResult(b, w, t)
    BY DEF w2
  <2> QED
    BY <2>1, <2>2, ResultLemma
<1>5. /\ IsLedger(o2) /\ DOMAIN o2 = DOMAIN o \cup Accesses(t)
      /\ \A x : Balance(o2, x) =
           Balance(o, x) + Due(t, x, Balance(o, From[t]), Balance(o, x))
  BY OneLemma DEF Agree
<1> HIDE DEF w2, o2
<1>6. ASSUME NEW x PROVE Balance(w2, x) = Balance(o2, x)
  <2>1. Balance(w, x) = Balance(o, x)
    BY DEF Agree
  <2> QED
    BY <1>3, <1>4, <1>5, <2>1
<1>7. ASSUME NEW x, x \notin Reads(Append(s, t))
      PROVE  Balance(o2, x) = Balance(b, x)
  <2>1. Balance(o, x) = Balance(b, x) /\ Balance(b, x) \in Nat
    BY <1>1, <1>7, BalanceTyped DEF Agree
  <2>2. Due(t, x, Balance(o, From[t]), Balance(o, x)) = 0
    <3>1. x # To[t] /\ x # From[t]
      BY <1>1, <1>2, <1>7
    <3> QED
      BY <3>1 DEF Gain, Due
  <2> QED
    BY <1>5, <2>1, <2>2
<1> QED
  BY <1>1, <1>4, <1>5, <1>6, <1>7 DEF Agree, w2, o2

LEMMA BatchAgrees ==
  ASSUME NEW b, IsLedger(b), NEW U \in SUBSET Account
  PROVE  \A s \in Seq(Tx) : s \in Batch /\ Reads(s) \subseteq U =>
           Agree(b, U, s, FResult!Fold(b, Touch(b, U), s), ExecuteInOrder(b, s))
<1> DEFINE w(s) == FResult!Fold(b, Touch(b, U), s)
           o(s) == FOne!Fold(0, b, s)
           T == {s \in Seq(Tx) : s \in Batch /\ Reads(s) \subseteq U => Agree(b, U, s, w(s), o(s))}
<1>1. <<>> \in T
  <2>1. w(<<>>) = Touch(b, U) /\ o(<<>>) = b
    BY FResult!FoldNothing, FOne!FoldNothing
  <2>2. Reads(<<>>) = {} /\ <<>> \in Seq(Tx)
    BY DEF Reads
  <2>3. Agree(b, U, <<>>, Touch(b, U), b)
    BY <2>2, TouchLemma DEF Agree
  <2> QED
    BY <2>1, <2>2, <2>3
<1>2. ASSUME NEW s \in Seq(Tx), s \in T, NEW t \in Tx
      PROVE  Append(s, t) \in T
  <2> SUFFICES ASSUME Append(s, t) \in Batch, Reads(Append(s, t)) \subseteq U
               PROVE  Agree(b, U, Append(s, t), w(Append(s, t)), o(Append(s, t)))
    BY ReadsAppend
  <2>1. s \in Batch /\ CanAdd(s, t) /\ Reads(s) \subseteq U /\ Accesses(t) \subseteq U
    BY ReadsAppend
  <2>2. Agree(b, U, s, w(s), o(s))
    BY <1>2, <2>1
  <2>3. w(Append(s, t)) = ApplyResult(b, w(s), t)
    BY FResult!FoldAppend
  <2>4. o(Append(s, t)) = ExecuteOne(o(s), t)
    BY FOne!FoldAppend DEF ExecuteNext
  <2> HIDE DEF w, o, T
  <2> QED
    BY <2>1, <2>2, <2>3, <2>4, AgreeNext
<1> HIDE DEF T
<1>3. Seq(Tx) \subseteq T
  BY <1>1, <1>2, FOne!SeqInSteps
<1> QED
  BY <1>3, ExecuteInOrderFolds DEF T

LEMMA ReadsTyped ==
  ASSUME NEW s \in Seq(Tx)
  PROVE  Reads(s) \in SUBSET Account
<1>1. \A i \in DOMAIN s : s[i] \in Tx
  OBVIOUS
<1> QED
  BY <1>1, TxTypes DEF Reads, Accesses

\* A batch without conflicts leads to the ledger of its serial execution.
LEMMA BatchIsSerial ==
  ASSUME NEW b, IsLedger(b), NEW s \in Batch
  PROVE  /\ ExecuteBatch(b, s) = ExecuteInOrder(b, s)
         /\ IsLedger(ExecuteBatch(b, s))
<1>1. s \in Seq(Tx) /\ Reads(s) \in SUBSET Account
  BY ReadsTyped DEF Batch
<1>2. Agree(b, Reads(s), s, ExecuteBatch(b, s), ExecuteInOrder(b, s))
  BY <1>1, BatchAgrees, ExecuteBatchFolds
<1> QED
  BY <1>2, SameLedger DEF Agree

-----------------------------------------------------------------------------
(* The batches of a list *)

LEMMA OccursAppend ==
  ASSUME NEW s \in Seq(Tx), NEW u \in Tx, NEW t \in Tx
  PROVE  /\ Occurs(<<>>, t) = 0
         /\ Occurs(s, t) \in Nat
         /\ Occurs(Append(s, u), t) = Occurs(s, t) + (IF u = t THEN 1 ELSE 0)
<1> DEFINE r == Append(s, u)
           n == Len(s)
           at == {i \in DOMAIN s : s[i] = t}
           after == {i \in DOMAIN r : r[i] = t}
<1>1. /\ n \in Nat /\ DOMAIN s = 1 .. n /\ DOMAIN r = 1 .. n + 1
      /\ r[n + 1] = u /\ \A i \in 1 .. n : r[i] = s[i]
  OBVIOUS
<1> HIDE DEF r, n
<1>2. IsFiniteSet(at) /\ Cardinality(at) \in Nat
  <2>1. at \subseteq 1 .. n /\ IsFiniteSet(1 .. n)
    BY <1>1, FS_Interval
  <2> HIDE DEF at
  <2> QED
    BY <2>1, FS_Subset, FS_CardinalityType
<1>3. after = IF u = t THEN at \cup {n + 1} ELSE at
  <2>1. (1 .. n + 1) = (1 .. n) \cup {n + 1} /\ n + 1 \notin 1 .. n
    BY <1>1
  <2> QED
    BY <1>1, <2>1
<1>4. n + 1 \notin at
  BY <1>1
<1>5. Occurs(s, t) = Cardinality(at) /\ Occurs(r, t) = Cardinality(after)
  BY DEF Occurs
<1>6. {i \in DOMAIN <<>> : <<>>[i] = t} = {}
  OBVIOUS
<1>7. Occurs(<<>>, t) = 0
  BY <1>6, FS_EmptySet DEF Occurs
<1> HIDE DEF at, after
<1>8. CASE u = t
  <2>1. Cardinality(at \cup {n + 1}) = Cardinality(at) + 1
    BY <1>2, <1>4, FS_AddElement
  <2> QED
    BY <1>2, <1>3, <1>5, <1>7, <1>8, <2>1 DEF r
<1>9. CASE u # t
  BY <1>2, <1>3, <1>5, <1>7, <1>9 DEF r
<1> QED
  BY <1>8, <1>9

\* After the transactions s of a pass, those taken do not conflict, and they and
\* those left are s.
Placed(s, batch, rest) ==
  /\ batch \in Batch /\ rest \in Seq(Tx)
  /\ Len(batch) + Len(rest) = Len(s)
  /\ s # <<>> => batch # <<>>
  /\ \A t \in Tx : Occurs(batch, t) + Occurs(rest, t) = Occurs(s, t)

LEMMA PlaceLemma ==
  ASSUME NEW s \in Seq(Tx), NEW batch, NEW rest, Placed(s, batch, rest), NEW u \in Tx
  PROVE  \E b2, r2 : /\ Place([batch |-> batch, rest |-> rest], u) = [batch |-> b2, rest |-> r2]
                     /\ Placed(Append(s, u), b2, r2)
<1>1. batch \in Batch /\ batch \in Seq(Tx) /\ rest \in Seq(Tx)
  BY DEF Placed, Batch
<1>2. /\ Append(batch, u) \in Seq(Tx) /\ Append(rest, u) \in Seq(Tx)
      /\ Len(Append(batch, u)) = Len(batch) + 1 /\ Len(Append(rest, u)) = Len(rest) + 1
      /\ Len(Append(s, u)) = Len(s) + 1
      /\ Len(batch) \in Nat /\ Len(rest) \in Nat /\ Len(s) \in Nat
      /\ Len(batch) + Len(rest) = Len(s)
  BY <1>1 DEF Placed
<1>3. ASSUME NEW t \in Tx
      PROVE  /\ Occurs(Append(s, u), t) = Occurs(s, t) + (IF u = t THEN 1 ELSE 0)
             /\ Occurs(Append(batch, u), t) = Occurs(batch, t) + (IF u = t THEN 1 ELSE 0)
             /\ Occurs(Append(rest, u), t) = Occurs(rest, t) + (IF u = t THEN 1 ELSE 0)
             /\ Occurs(s, t) \in Nat /\ Occurs(batch, t) \in Nat /\ Occurs(rest, t) \in Nat
             /\ Occurs(batch, t) + Occurs(rest, t) = Occurs(s, t)
  BY <1>1, OccursAppend DEF Placed
<1>4. CASE CanAdd(batch, u)
  <2>1. Place([batch |-> batch, rest |-> rest], u) = [batch |-> Append(batch, u), rest |-> rest]
    BY <1>4 DEF Place
  <2>2. Append(batch, u) \in Batch
    BY <1>1, <1>4, ReadsAppend
  <2>3. Append(batch, u) # <<>>
    BY <1>1
  <2>4. ASSUME NEW t \in Tx
        PROVE  Occurs(Append(batch, u), t) + Occurs(rest, t) = Occurs(Append(s, u), t)
    <3> DEFINE d == IF u = t THEN 1 ELSE 0
    <3>1. d \in Nat
      OBVIOUS
    <3>2. /\ Occurs(Append(s, u), t) = Occurs(s, t) + d
          /\ Occurs(Append(batch, u), t) = Occurs(batch, t) + d
          /\ Occurs(s, t) \in Nat /\ Occurs(batch, t) \in Nat /\ Occurs(rest, t) \in Nat
          /\ Occurs(batch, t) + Occurs(rest, t) = Occurs(s, t)
      BY <1>3
    <3> HIDE DEF d
    <3> QED
      BY <3>1, <3>2
  <2>5. Placed(Append(s, u), Append(batch, u), rest)
    BY <1>1, <1>2, <2>2, <2>3, <2>4 DEF Placed
  <2> QED
    BY <2>1, <2>5
<1>5. CASE ~ CanAdd(batch, u)
  <2>1. Place([batch |-> batch, rest |-> rest], u) = [batch |-> batch, rest |-> Append(rest, u)]
    BY <1>5 DEF Place
  <2>2. batch # <<>>
    BY <1>5 DEF CanAdd
  <2>3. ASSUME NEW t \in Tx
        PROVE  Occurs(batch, t) + Occurs(Append(rest, u), t) = Occurs(Append(s, u), t)
    <3> DEFINE d == IF u = t THEN 1 ELSE 0
    <3>1. d \in Nat
      OBVIOUS
    <3>2. /\ Occurs(Append(s, u), t) = Occurs(s, t) + d
          /\ Occurs(Append(rest, u), t) = Occurs(rest, t) + d
          /\ Occurs(s, t) \in Nat /\ Occurs(batch, t) \in Nat /\ Occurs(rest, t) \in Nat
          /\ Occurs(batch, t) + Occurs(rest, t) = Occurs(s, t)
      BY <1>3
    <3> HIDE DEF d
    <3> QED
      BY <3>1, <3>2
  <2>4. Placed(Append(s, u), batch, Append(rest, u))
    BY <1>1, <1>2, <2>2, <2>3 DEF Placed
  <2> QED
    BY <2>1, <2>4
<1> QED
  BY <1>4, <1>5

\* A pass over the transactions s.
Empty == [batch |-> <<>>, rest |-> <<>>]

LEMMA PlacedAlways ==
  ASSUME NEW s \in Seq(Tx)
  PROVE  \E batch, rest : /\ FPlace!Fold(0, Empty, s) = [batch |-> batch, rest |-> rest]
                          /\ Placed(s, batch, rest)
<1> DEFINE T == {u \in Seq(Tx) :
                   \E batch, rest : /\ FPlace!Fold(0, Empty, u) = [batch |-> batch, rest |-> rest]
                                    /\ Placed(u, batch, rest)}
<1>1. <<>> \in T
  <2>1. FPlace!Fold(0, Empty, <<>>) = Empty
    BY FPlace!FoldNothing
  <2>2. <<>> \in Batch /\ <<>> \in Seq(Tx) /\ Len(<<>>) = 0
    BY DEF Batch
  <2>3. \A t \in Tx : Occurs(<<>>, t) = 0
    BY <2>2, OccursAppend
  <2>4. Placed(<<>>, <<>>, <<>>)
    BY <2>2, <2>3 DEF Placed
  <2> QED
    BY <2>1, <2>2, <2>4 DEF Empty
<1>2. ASSUME NEW r \in Seq(Tx), r \in T, NEW u \in Tx
      PROVE  Append(r, u) \in T
  <2>1. FPlace!Fold(0, Empty, Append(r, u)) = Place(FPlace!Fold(0, Empty, r), u)
    BY FPlace!FoldAppend DEF PlaceNext
  <2>2. Append(r, u) \in Seq(Tx)
    OBVIOUS
  <2>3. PICK batch, rest : /\ FPlace!Fold(0, Empty, r) = [batch |-> batch, rest |-> rest]
                           /\ Placed(r, batch, rest)
    BY <1>2
  <2>4. PICK b2, r2 : /\ Place([batch |-> batch, rest |-> rest], u) = [batch |-> b2, rest |-> r2]
                      /\ Placed(Append(r, u), b2, r2)
    BY <2>3, PlaceLemma
  <2> QED
    BY <2>1, <2>2, <2>3, <2>4
<1> HIDE DEF T
<1>3. Seq(Tx) \subseteq T
  BY <1>1, <1>2, FPlace!SeqInSteps
<1> QED
  BY <1>3 DEF T

\* A pass over a list takes at least one of its transactions, and leaves the others.
LEMMA PeelLemma ==
  ASSUME NEW txs \in Seq(Tx)
  PROVE  \E batch, rest : /\ Peel(txs) = [batch |-> batch, rest |-> rest]
                          /\ Placed(txs, batch, rest)
BY PlacedAlways, PeelFolds DEF Empty

\* After some passes over txs, the batches done and what remains are its
\* transactions, and each pass has taken one at least.
Passed(txs, s, done, rest) ==
  /\ done \in Seq(Batch) /\ rest \in Seq(Tx)
  /\ rest = <<>> \/ Len(rest) + Len(s) <= Len(txs)
  /\ \A t \in Tx : /\ OccursIn(done, t) \in Nat
                   /\ OccursIn(done, t) + Occurs(rest, t) = Occurs(txs, t)

LEMMA PassLemma ==
  ASSUME NEW txs \in Seq(Tx), NEW s \in Seq(Tx), NEW done, NEW rest, Passed(txs, s, done, rest),
         NEW u \in Tx
  PROVE  \E d2, r2 : /\ NextPass([done |-> done, rest |-> rest], u) = [done |-> d2, rest |-> r2]
                     /\ Passed(txs, Append(s, u), d2, r2)
<1>1. Len(s) \in Nat /\ Len(Append(s, u)) = Len(s) + 1 /\ Len(txs) \in Nat
  OBVIOUS
<1>2. CASE rest = <<>>
  <2>1. NextPass([done |-> done, rest |-> rest], u) = [done |-> done, rest |-> rest]
    BY <1>2 DEF NextPass
  <2>2. Passed(txs, Append(s, u), done, rest)
    BY <1>2 DEF Passed
  <2> QED
    BY <2>1, <2>2
<1>3. CASE rest # <<>>
  <2>1. rest \in Seq(Tx) /\ done \in Seq(Batch)
    BY DEF Passed
  <2>2. PICK batch, r2 : Peel(rest) = [batch |-> batch, rest |-> r2] /\ Placed(rest, batch, r2)
    BY <2>1, PeelLemma
  <2> DEFINE d2 == Append(done, batch)
  <2>3. NextPass([done |-> done, rest |-> rest], u) = [done |-> d2, rest |-> r2]
    <3> DEFINE acc == [done |-> done, rest |-> rest]
    <3>1. acc.done = done /\ acc.rest = rest
      OBVIOUS
    <3>2. Peel(rest).batch = batch /\ Peel(rest).rest = r2
      BY <2>2
    <3> HIDE DEF acc
    <3>3. NextPass(acc, u) = [done |-> d2, rest |-> r2]
      BY <1>3, <3>1, <3>2 DEF NextPass
    <3> QED
      BY <3>3 DEF acc
  <2>4. batch \in Batch /\ batch \in Seq(Tx) /\ r2 \in Seq(Tx) /\ d2 \in Seq(Batch)
    BY <2>1, <2>2 DEF Placed, Batch
  <2>5. Len(r2) + Len(Append(s, u)) <= Len(txs)
    <3>1. Len(batch) \in Nat /\ Len(batch) # 0 /\ Len(r2) \in Nat /\ Len(rest) \in Nat
      BY <1>3, <2>1, <2>2, <2>4 DEF Placed
    <3>2. Len(batch) + Len(r2) = Len(rest) /\ Len(rest) + Len(s) <= Len(txs)
      BY <1>3, <2>2 DEF Placed, Passed
    <3> QED
      BY <1>1, <3>1, <3>2
  <2>6. ASSUME NEW t \in Tx
        PROVE  OccursIn(d2, t) \in Nat /\ OccursIn(d2, t) + Occurs(r2, t) = Occurs(txs, t)
    <3>1. OccursIn(Append(done, batch), t) = OccursIn(done, t) + Occurs(batch, t)
      BY <2>1, <2>4, OccursFolds, FCount!FoldAppend DEF CountNext
    <3>2. Occurs(batch, t) \in Nat /\ Occurs(r2, t) \in Nat /\ Occurs(rest, t) \in Nat
      BY <2>1, <2>4, OccursAppend
    <3>3. /\ OccursIn(done, t) \in Nat
          /\ OccursIn(done, t) + Occurs(rest, t) = Occurs(txs, t)
          /\ Occurs(batch, t) + Occurs(r2, t) = Occurs(rest, t)
      BY <2>2 DEF Passed, Placed
    <3> QED
      BY <3>1, <3>2, <3>3
  <2> HIDE DEF d2
  <2>7. Passed(txs, Append(s, u), d2, r2)
    BY <2>4, <2>5, <2>6 DEF Passed
  <2> QED
    BY <2>3, <2>7
<1> QED
  BY <1>2, <1>3

\* Before the first pass over txs.
Whole(txs) == [done |-> <<>>, rest |-> txs]

LEMMA PassedAlways ==
  ASSUME NEW txs \in Seq(Tx), NEW s \in Seq(Tx)
  PROVE  \E done, rest : /\ FPass!Fold(0, Whole(txs), s) = [done |-> done, rest |-> rest]
                         /\ Passed(txs, s, done, rest)
<1> DEFINE T == {r \in Seq(Tx) :
                   \E done, rest : /\ FPass!Fold(0, Whole(txs), r) = [done |-> done, rest |-> rest]
                                   /\ Passed(txs, r, done, rest)}
<1>1. <<>> \in T
  <2>1. FPass!Fold(0, Whole(txs), <<>>) = Whole(txs)
    BY FPass!FoldNothing
  <2>2. \A t \in Tx : OccursIn(<<>>, t) = 0 /\ Occurs(txs, t) \in Nat
    BY OccursFolds, FCount!FoldNothing, OccursAppend
  <2>3. <<>> \in Seq(Batch) /\ Len(txs) \in Nat /\ <<>> \in Seq(Tx) /\ Len(<<>>) = 0
    OBVIOUS
  <2>4. Passed(txs, <<>>, <<>>, txs)
    BY <2>2, <2>3 DEF Passed
  <2> QED
    BY <2>1, <2>3, <2>4 DEF Whole
<1>2. ASSUME NEW r \in Seq(Tx), r \in T, NEW u \in Tx
      PROVE  Append(r, u) \in T
  <2>1. FPass!Fold(0, Whole(txs), Append(r, u)) = NextPass(FPass!Fold(0, Whole(txs), r), u)
    BY FPass!FoldAppend DEF PassNext
  <2>2. Append(r, u) \in Seq(Tx)
    OBVIOUS
  <2>3. PICK done, rest : /\ FPass!Fold(0, Whole(txs), r) = [done |-> done, rest |-> rest]
                          /\ Passed(txs, r, done, rest)
    BY <1>2
  <2>4. PICK d2, r2 : /\ NextPass([done |-> done, rest |-> rest], u) = [done |-> d2, rest |-> r2]
                      /\ Passed(txs, Append(r, u), d2, r2)
    BY <2>3, PassLemma
  <2> QED
    BY <2>1, <2>2, <2>3, <2>4
<1> HIDE DEF T
<1>3. Seq(Tx) \subseteq T
  BY <1>1, <1>2, FPass!SeqInSteps
<1> QED
  BY <1>3 DEF T

\* The batches of a list are without conflicts and hold its transactions, each as
\* often as the list.
LEMMA BatchesLemma ==
  ASSUME NEW txs \in Seq(Tx)
  PROVE  /\ Batches(txs) \in Seq(Batch)
         /\ \A t \in Tx : OccursIn(Batches(txs), t) = Occurs(txs, t)
<1>1. PICK done, rest : /\ FPass!Fold(0, Whole(txs), txs) = [done |-> done, rest |-> rest]
                        /\ Passed(txs, txs, done, rest)
  BY PassedAlways
<1>2. Batches(txs) = done
  BY <1>1, BatchesFold DEF Whole
<1>3. rest = <<>>
  <2>1. rest \in Seq(Tx) /\ Len(rest) \in Nat /\ Len(txs) \in Nat
    BY <1>1 DEF Passed
  <2>2. rest = <<>> \/ Len(rest) + Len(txs) <= Len(txs)
    BY <1>1 DEF Passed
  <2>3. Len(rest) = 0 => rest = <<>>
    BY <2>1
  <2> QED
    BY <2>1, <2>2, <2>3
<1>4. \A t \in Tx : Occurs(<<>>, t) = 0
  BY OccursAppend
<1> QED
  BY <1>1, <1>2, <1>3, <1>4 DEF Passed

-----------------------------------------------------------------------------
(* Execution of a list *)

\* The transactions of a block are executed as if one after the other, in the order
\* of the batches: every balance is read before any delta of the batch is applied,
\* which makes no difference because no two of its transactions share an account.
THEOREM ExecuteIsSerial ==
  ASSUME NEW b, IsLedger(b), NEW txs \in Seq(Tx)
  PROVE  /\ Execute(b, txs) = FoldLeft(ExecuteInOrder, b, Batches(txs))
         /\ IsLedger(Execute(b, txs))
<1> DEFINE x(s) == FBatch!Fold(0, b, s)
           T == {s \in Seq(Batch) : x(s) = FSerial!Fold(0, b, s) /\ IsLedger(x(s))}
<1>1. <<>> \in T
  BY FBatch!FoldNothing, FSerial!FoldNothing
<1>2. ASSUME NEW s \in Seq(Batch), s \in T, NEW batch \in Batch
      PROVE  Append(s, batch) \in T
  <2>1. x(Append(s, batch)) = ExecuteBatch(x(s), batch)
    BY FBatch!FoldAppend DEF BatchNext
  <2>2. FSerial!Fold(0, b, Append(s, batch)) = ExecuteInOrder(FSerial!Fold(0, b, s), batch)
    BY FSerial!FoldAppend DEF SerialNext
  <2>3. Append(s, batch) \in Seq(Batch)
    OBVIOUS
  <2>4. x(s) = FSerial!Fold(0, b, s) /\ IsLedger(x(s))
    BY <1>2
  <2> HIDE DEF x
  <2>5. /\ ExecuteBatch(x(s), batch) = ExecuteInOrder(x(s), batch)
        /\ IsLedger(ExecuteBatch(x(s), batch))
    BY <2>4, BatchIsSerial
  <2> QED
    BY <2>1, <2>2, <2>3, <2>4, <2>5
<1> HIDE DEF T
<1>3. Batches(txs) \in T
  BY <1>1, <1>2, BatchesLemma, FBatch!SeqInSteps
<1> QED
  BY <1>3, ExecuteFolds, SerialFolds DEF T

\* Lists of transactions over ledgers.
ListsTyped == list \in Seq(Tx) /\ IsLedger(genesis)

\* Whatever transactions a block holds, and in whatever order: the batches hold
\* the same ones, and executing them in parallel is executing them in turn.
THEOREM ParallelIsSerial == ListSpec => []Serializable
<1>1. ListInit => ListsTyped
  BY BlockListsAssumption DEF ListInit, ListsTyped
<1>2. ListsTyped /\ [ListNext]_<<list, genesis>> => ListsTyped'
  BY DEF ListsTyped, ListNext, Extend
<1>3. ListsTyped => Serializable
  BY ExecuteIsSerial, BatchesLemma DEF ListsTyped, Serializable
<1> QED
  BY <1>1, <1>2, <1>3, PTL DEF ListSpec

\* Two ledgers with the same balances, whatever accounts without funds exist.
SameBalances(b, c) == \A x : Balance(b, x) = Balance(c, x)

LEMMA ResultsAlike ==
  ASSUME NEW b, NEW c, SameBalances(b, c),
         NEW v, IsLedger(v), NEW w, IsLedger(w), SameBalances(v, w)
  PROVE  \A s \in Seq(Tx) : /\ IsLedger(FResult!Fold(b, v, s)) /\ IsLedger(FResult!Fold(c, w, s))
                            /\ SameBalances(FResult!Fold(b, v, s), FResult!Fold(c, w, s))
<1> DEFINE f(s) == FResult!Fold(b, v, s)
           g(s) == FResult!Fold(c, w, s)
           T == {s \in Seq(Tx) : IsLedger(f(s)) /\ IsLedger(g(s)) /\ SameBalances(f(s), g(s))}
<1>1. <<>> \in T
  BY FResult!FoldNothing
<1>2. ASSUME NEW s \in Seq(Tx), s \in T, NEW t \in Tx
      PROVE  Append(s, t) \in T
  <2>1. f(Append(s, t)) = ApplyResult(b, f(s), t) /\ g(Append(s, t)) = ApplyResult(c, g(s), t)
    BY FResult!FoldAppend
  <2>2. Append(s, t) \in Seq(Tx)
    OBVIOUS
  <2>3. IsLedger(f(s)) /\ IsLedger(g(s)) /\ SameBalances(f(s), g(s))
    BY <1>2
  <2> HIDE DEF f, g
  <2>4. /\ IsLedger(ApplyResult(b, f(s), t))
        /\ \A x : Balance(ApplyResult(b, f(s), t), x) =
             Balance(f(s), x) + Due(t, x, Balance(b, From[t]), Balance(f(s), x))
    BY <2>3, ResultLemma
  <2>5. /\ IsLedger(ApplyResult(c, g(s), t))
        /\ \A x : Balance(ApplyResult(c, g(s), t), x) =
             Balance(g(s), x) + Due(t, x, Balance(c, From[t]), Balance(g(s), x))
    BY <2>3, ResultLemma
  <2>6. SameBalances(ApplyResult(b, f(s), t), ApplyResult(c, g(s), t))
    BY <2>3, <2>4, <2>5 DEF SameBalances
  <2> QED
    BY <2>1, <2>2, <2>4, <2>5, <2>6
<1> HIDE DEF T
<1>3. Seq(Tx) \subseteq T
  BY <1>1, <1>2, FResult!SeqInSteps
<1> QED
  BY <1>3 DEF T

LEMMA BatchAlike ==
  ASSUME NEW b, IsLedger(b), NEW c, IsLedger(c), SameBalances(b, c), NEW s \in Seq(Tx)
  PROVE  /\ IsLedger(ExecuteBatch(b, s)) /\ IsLedger(ExecuteBatch(c, s))
         /\ SameBalances(ExecuteBatch(b, s), ExecuteBatch(c, s))
<1> DEFINE v == Touch(b, Reads(s))
           w == Touch(c, Reads(s))
<1>1. /\ IsLedger(v) /\ \A x : Balance(v, x) = Balance(b, x)
      /\ IsLedger(w) /\ \A x : Balance(w, x) = Balance(c, x)
  BY ReadsTyped, TouchLemma
<1> HIDE DEF v, w
<1>2. SameBalances(v, w)
  BY <1>1 DEF SameBalances
<1>3. /\ IsLedger(FResult!Fold(b, v, s)) /\ IsLedger(FResult!Fold(c, w, s))
      /\ SameBalances(FResult!Fold(b, v, s), FResult!Fold(c, w, s))
  BY <1>1, <1>2, ResultsAlike
<1> QED
  BY <1>3, ExecuteBatchFolds DEF v, w

\* What a block does to the balances depends on the balances only, not on which
\* accounts without funds happen to exist.
THEOREM ExecuteAlike ==
  ASSUME NEW b, IsLedger(b), NEW c, IsLedger(c), SameBalances(b, c), NEW txs \in Seq(Tx)
  PROVE  SameBalances(Execute(b, txs), Execute(c, txs))
<1> DEFINE f(s) == FBatch!Fold(0, b, s)
           g(s) == FBatch!Fold(0, c, s)
           T == {s \in Seq(Batch) : IsLedger(f(s)) /\ IsLedger(g(s)) /\ SameBalances(f(s), g(s))}
<1>1. <<>> \in T
  BY FBatch!FoldNothing
<1>2. ASSUME NEW s \in Seq(Batch), s \in T, NEW batch \in Batch
      PROVE  Append(s, batch) \in T
  <2>1. /\ f(Append(s, batch)) = ExecuteBatch(f(s), batch)
        /\ g(Append(s, batch)) = ExecuteBatch(g(s), batch)
    BY FBatch!FoldAppend DEF BatchNext
  <2>2. Append(s, batch) \in Seq(Batch) /\ batch \in Seq(Tx)
    BY DEF Batch
  <2>3. IsLedger(f(s)) /\ IsLedger(g(s)) /\ SameBalances(f(s), g(s))
    BY <1>2
  <2> HIDE DEF f, g
  <2>4. /\ IsLedger(ExecuteBatch(f(s), batch)) /\ IsLedger(ExecuteBatch(g(s), batch))
        /\ SameBalances(ExecuteBatch(f(s), batch), ExecuteBatch(g(s), batch))
    BY <2>2, <2>3, BatchAlike
  <2> QED
    BY <2>1, <2>2, <2>4
<1> HIDE DEF T
<1>3. Batches(txs) \in T
  BY <1>1, <1>2, BatchesLemma, FBatch!SeqInSteps
<1> QED
  BY <1>3, ExecuteFolds DEF T

\* A block without transactions changes nothing.
LEMMA ExecuteNothing ==
  ASSUME NEW b, IsLedger(b)
  PROVE  /\ Execute(b, <<>>) = b /\ SameBalances(Execute(b, <<>>), b)
         /\ Batches(<<>>) = <<>>
<1> DEFINE acc == [done |-> <<>>, rest |-> <<>>]
<1>1. FPass!Fold(0, acc, <<>>) = acc
  BY FPass!FoldNothing
<1>2. Batches(<<>>) = <<>>
  BY <1>1, BatchesFold
<1>3. Execute(b, <<>>) = b
  BY <1>2, ExecuteFolds, FBatch!FoldNothing
<1> QED
  BY <1>2, <1>3 DEF SameBalances

-----------------------------------------------------------------------------
(* Sums over the accounts of a ledger                                      *)

\* An instance has finiteness and cardinality of its own.
LEMMA SameSizes == \A S : /\ FSum!IsFiniteSet(S) <=> IsFiniteSet(S)
                          /\ FSum!Cardinality(S) = Cardinality(S)
<1>1. \A S : FSum!IsFiniteSet(S) <=> IsFiniteSet(S)
  BY DEF FSum!IsFiniteSet, IsFiniteSet
<1>2. \A S : FSum!Cardinality(S) = Cardinality(S)
  BY DEF FSum!Cardinality, Cardinality
<1> QED
  BY <1>1, <1>2

LEMMA TotalIsChosen ==
  ASSUME NEW f
  PROVE  Total(f) = (CHOOSE g : FSum!Sums(g, f, SUBSET DOMAIN f))[DOMAIN f]
BY DEF Total, FoldFunction, FoldFunctionOnSet, MapThenFoldSet, FSum!Sums, FSum!Pick

\* The funds of a ledger are such a sum.
LEMMA TotalIsSum ==
  ASSUME NEW b, IsLedger(b), IsFiniteSet(DOMAIN b)
  PROVE  \E g : FSum!SumsUp(g, b, DOMAIN b) /\ Total(b) = g[DOMAIN b]
<1> DEFINE g == CHOOSE g : FSum!Sums(g, b, SUBSET DOMAIN b)
<1>1. FSum!Sums(g, b, SUBSET DOMAIN b)
  BY FSum!SumsExist, SameSizes
<1>2. \A x \in DOMAIN b : b[x] \in Int
  BY DEF IsLedger
<1>3. Total(b) = g[DOMAIN b]
  BY TotalIsChosen
<1> HIDE DEF g
<1>4. FSum!SumsUp(g, b, DOMAIN b)
  <2> DEFINE D == DOMAIN b
  <2>1. FSum!Sums(g, b, SUBSET D) /\ IsFiniteSet(D) /\ \A x \in D : b[x] \in Int
    BY <1>1, <1>2
  <2> HIDE DEF D
  <2>2. FSum!SumsUp(g, b, D)
    BY <2>1, FSum!SumsAny, SameSizes
  <2> QED
    BY <2>2 DEF D
<1> QED
  BY <1>3, <1>4

LEMMA TotalInt ==
  ASSUME NEW b, IsLedger(b), IsFiniteSet(DOMAIN b)
  PROVE  Total(b) \in Int
<1>1. PICK g : FSum!SumsUp(g, b, DOMAIN b) /\ Total(b) = g[DOMAIN b]
  BY TotalIsSum
<1>2. DOMAIN b \in SUBSET DOMAIN b
  OBVIOUS
<1> QED
  BY <1>1, <1>2 DEF FSum!SumsUp

\* c is b with d added to the balance of a, which exists afterwards.
Shifts(b, c, a, d) ==
  /\ DOMAIN c = DOMAIN b \cup {a}
  /\ \A x \in DOMAIN c : Balance(c, x) = Balance(b, x) + (IF x = a THEN d ELSE 0)

\* The funds change by as much.
LEMMA TotalChanges ==
  ASSUME NEW b, IsLedger(b), IsFiniteSet(DOMAIN b), NEW c, IsLedger(c), NEW a, NEW d \in Int, Shifts(b, c, a, d)
  PROVE  /\ IsFiniteSet(DOMAIN c)
         /\ Total(b) \in Int
         /\ Total(c) = Total(b) + d
<1>0. /\ DOMAIN c = DOMAIN b \cup {a}
      /\ \A x \in DOMAIN c : Balance(c, x) = Balance(b, x) + (IF x = a THEN d ELSE 0)
  BY DEF Shifts
<1>1. IsFiniteSet(DOMAIN c)
  BY <1>0, FS_AddElement
<1>2. PICK g : FSum!SumsUp(g, b, DOMAIN b) /\ Total(b) = g[DOMAIN b]
  BY TotalIsSum
<1>3. PICK h : FSum!SumsUp(h, c, DOMAIN c) /\ Total(c) = h[DOMAIN c]
  BY <1>1, TotalIsSum
<1> DEFINE R == DOMAIN b \ {a}
<1>4. IsFiniteSet(R) /\ R \subseteq DOMAIN b /\ R \subseteq DOMAIN c /\ DOMAIN c \ {a} = R /\ a \in DOMAIN c
  BY <1>0, FS_RemoveElement
<1>5. FSum!SumsUp(g, b, R) /\ FSum!SumsUp(h, c, R)
  BY <1>2, <1>3, <1>4 DEF FSum!SumsUp
<1>6. \A x \in R : b[x] = c[x]
  <2> TAKE x \in R
  <2>1. x \in DOMAIN b /\ x \in DOMAIN c /\ x # a
    BY <1>4
  <2>2. b[x] \in Nat
    BY <2>1 DEF IsLedger
  <2> QED
    BY <1>0, <2>1, <2>2 DEF Balance
<1>7. g[R] = h[R] /\ g[R] \in Int
  <2> HIDE DEF R
  <2>1. g[R] = h[R]
    BY <1>4, <1>5, <1>6, FSum!SumsUpAgree, SameSizes
  <2>2. R \in SUBSET R
    OBVIOUS
  <2>3. g[R] \in Int
    BY <1>5, <2>2 DEF FSum!SumsUp
  <2> QED
    BY <2>1, <2>3
<1>8. h[DOMAIN c] = c[a] + h[R]
  BY <1>3, <1>4 DEF FSum!SumsUp
<1>9. c[a] = Balance(b, a) + d
  BY <1>0, <1>4 DEF Balance
<1>10. g[DOMAIN b] = Balance(b, a) + g[R] /\ Balance(b, a) \in Int
  <2>1. CASE a \in DOMAIN b
    <3>1. DOMAIN b \in SUBSET DOMAIN b
      OBVIOUS
    <3>2. g[DOMAIN b] = b[a] + g[DOMAIN b \ {a}]
      BY <1>2, <2>1, <3>1 DEF FSum!SumsUp
    <3>3. Balance(b, a) = b[a] /\ b[a] \in Nat
      BY <2>1 DEF Balance, IsLedger
    <3> QED
      BY <3>2, <3>3
  <2>2. CASE a \notin DOMAIN b
    <3>1. R = DOMAIN b
      BY <2>2
    <3>2. Balance(b, a) = 0
      BY <2>2 DEF Balance
    <3> HIDE DEF R
    <3> QED
      BY <1>7, <3>1, <3>2
  <2> QED
    BY <2>1, <2>2
<1>11. Total(b) \in Int
  BY <1>2 DEF FSum!SumsUp
<1> QED
  <2> HIDE DEF R
  <2> QED
    BY <1>1, <1>2, <1>3, <1>7, <1>8, <1>9, <1>10, <1>11

\* A credit, or a debit that is not refused, changes the funds by its amount;
LEMMA TotalUpdated ==
  ASSUME NEW b, IsLedger(b), IsFiniteSet(DOMAIN b), NEW a \in Account, NEW d \in Int,
         Balance(b, a) + d >= 0
  PROVE  /\ IsFiniteSet(DOMAIN UpdateBalance(b, a, d))
         /\ Total(b) \in Int
         /\ Total(UpdateBalance(b, a, d)) = Total(b) + d
<1> DEFINE c == UpdateBalance(b, a, d)
<1>1. \A x : Balance(b, x) \in Nat
  BY BalanceTyped
<1>2. c = [x \in DOMAIN b \cup {a} |-> Balance(b, x) + (IF x = a THEN d ELSE 0)]
  BY <1>1 DEF UpdateBalance
<1>3. DOMAIN c = DOMAIN b \cup {a}
  BY <1>2
<1>4. \A x \in DOMAIN c : Balance(c, x) = Balance(b, x) + (IF x = a THEN d ELSE 0)
  BY <1>2, <1>3 DEF Balance
<1>5. IsLedger(c)
  <2>1. \A x \in DOMAIN c : c[x] \in Nat
    BY <1>1, <1>2, <1>3
  <2>2. DOMAIN c \subseteq Account
    BY <1>3 DEF IsLedger
  <2>3. c = [x \in DOMAIN c |-> c[x]]
    BY <1>2
  <2> HIDE DEF c
  <2> QED
    BY <2>1, <2>2, <2>3 DEF IsLedger
<1> HIDE DEF c
<1>6. Shifts(b, c, a, d)
  BY <1>3, <1>4 DEF Shifts
<1>7. IsFiniteSet(DOMAIN c) /\ Total(b) \in Int /\ Total(c) = Total(b) + d
  BY <1>5, <1>6, TotalChanges
<1> QED
  BY <1>7 DEF c

\* a read does not change them.
LEMMA TotalRead ==
  ASSUME NEW b, IsLedger(b), IsFiniteSet(DOMAIN b), NEW a \in Account
  PROVE  /\ IsFiniteSet(DOMAIN Touch(b, {a}))
         /\ Total(b) \in Int
         /\ Total(Touch(b, {a})) = Total(b)
<1> DEFINE c == Touch(b, {a})
<1>1. IsLedger(c) /\ DOMAIN c = DOMAIN b \cup {a} /\ \A x : Balance(c, x) = Balance(b, x)
  BY TouchLemma
<1> HIDE DEF c
<1>2. \A x \in DOMAIN c : Balance(c, x) = Balance(b, x) + (IF x = a THEN 0 ELSE 0)
  BY <1>1, BalanceTyped
<1> DEFINE d == 0
<1>3. d \in Int /\ Shifts(b, c, a, d)
  BY <1>1, <1>2 DEF Shifts
<1> HIDE DEF d
<1>4. IsFiniteSet(DOMAIN c) /\ Total(b) \in Int /\ Total(c) = Total(b) + d
  BY <1>1, <1>3, TotalChanges
<1> QED
  BY <1>4 DEF c, d

-----------------------------------------------------------------------------
(* The funds after a list *)

\* A transaction changes the funds by what it makes.
LEMMA TotalOne ==
  ASSUME NEW b, IsLedger(b), IsFiniteSet(DOMAIN b), NEW t \in Tx
  PROVE  /\ IsFiniteSet(DOMAIN ExecuteOne(b, t))
         /\ Total(b) \in Int
         /\ Made(b, t) \in Int
         /\ Total(ExecuteOne(b, t)) = Total(b) + Made(b, t)
<1> DEFINE c == ExecuteOne(b, t)
           has == Balance(b, From[t])
           d == Due(t, From[t], has, has)
           k == IF SelfTransfer(t) THEN 0 ELSE Due(t, To[t], has, Balance(b, To[t]))
           m == [x \in DOMAIN b \cup {From[t]} |-> Balance(b, x) + (IF x = From[t] THEN d ELSE 0)]
<1>1. From[t] \in Account /\ To[t] \in Account /\ Amount[t] \in Int
  BY TxTypes
<1>2. /\ IsLedger(c) /\ DOMAIN c = DOMAIN b \cup Accesses(t)
      /\ \A x : Balance(c, x) = Balance(b, x) + Due(t, x, has, Balance(b, x))
  BY OneLemma
<1>3. \A x : Balance(b, x) \in Nat /\ Balance(c, x) \in Nat
  BY <1>2, BalanceTyped
<1>4. d \in Int /\ k \in Int
  BY <1>1 DEF Due, Gain, Granted
<1>5. d + k = Made(b, t) /\ Made(b, t) \in Int
  <2> DEFINE v == Amount[t]
             got == Balance(b, To[t])
  <2>1. has \in Nat /\ got \in Nat /\ v \in Int /\ (has < v <=> ~ (has >= v))
    BY <1>1, <1>3
  <2>2. Made(b, t) = IF has < v THEN 0
                     ELSE IF got + v >= 0 THEN IF SelfTransfer(t) THEN v ELSE 0
                          ELSE IF SelfTransfer(t) THEN 0 ELSE -v
    BY DEF Made
  <2>3. CASE has < v
    <3>1. d = 0 /\ k = 0 /\ Made(b, t) = 0
      BY <2>1, <2>2, <2>3 DEF Due
    <3> HIDE DEF d, k
    <3> QED
      BY <3>1
  <2>4. CASE has >= v /\ SelfTransfer(t)
    <3>1. got = has /\ k = 0
      BY <2>4 DEF SelfTransfer
    <3>2. CASE got + v >= 0
      <4>1. d = v + 0 /\ Made(b, t) = v
        BY <2>1, <2>2, <2>4, <3>1, <3>2 DEF Due, Gain, Granted, SelfTransfer
      <4> HIDE DEF d, k, v
      <4> QED
        BY <2>1, <3>1, <4>1
    <3>3. CASE ~ (got + v >= 0)
      <4>1. d = 0 + 0 /\ Made(b, t) = 0
        BY <2>1, <2>2, <2>4, <3>1, <3>3 DEF Due, Gain, Granted, SelfTransfer
      <4> HIDE DEF d, k, v
      <4> QED
        BY <2>1, <3>1, <4>1
    <3> QED
      BY <3>2, <3>3
  <2>5. CASE has >= v /\ ~ SelfTransfer(t)
    <3>1. has + (-v) >= 0
      BY <2>1, <2>5
    <3>2. d = 0 + (-v)
      BY <2>5, <3>1 DEF Due, Gain, Granted, SelfTransfer
    <3>3. CASE got + v >= 0
      <4>1. k = v + 0 /\ Made(b, t) = 0
        BY <2>1, <2>2, <2>5, <3>3 DEF Due, Gain, Granted, SelfTransfer
      <4> HIDE DEF d, k, v
      <4> QED
        BY <2>1, <3>2, <4>1
    <3>4. CASE ~ (got + v >= 0)
      <4>1. k = 0 + 0 /\ Made(b, t) = -v
        BY <2>1, <2>2, <2>5, <3>4 DEF Due, Gain, Granted, SelfTransfer
      <4> HIDE DEF d, k, v
      <4> QED
        BY <2>1, <3>2, <4>1
    <3> QED
      BY <3>3, <3>4
  <2> QED
    BY <2>1, <2>3, <2>4, <2>5
<1>6. \A x : x # From[t] /\ x # To[t] => Due(t, x, has, Balance(b, x)) = 0
  BY <1>1 DEF Due, Gain
<1>7. SelfTransfer(t) <=> From[t] = To[t]
  BY DEF SelfTransfer
<1> HIDE DEF c, has, d, k
<1>8. DOMAIN m = DOMAIN b \cup {From[t]} /\ DOMAIN c = DOMAIN m \cup {To[t]}
  BY <1>2 DEF Accesses
<1>9. \A x : Balance(m, x) = Balance(b, x) + (IF x = From[t] THEN d ELSE 0)
  <2> TAKE x
  <2>1. CASE x \in DOMAIN m
    BY <2>1 DEF Balance
  <2>2. CASE x \notin DOMAIN m
    BY <1>8, <2>2 DEF Balance
  <2> QED
    BY <2>1, <2>2
<1>10. Balance(m, From[t]) = Balance(c, From[t])
  BY <1>2, <1>9 DEF d, has
<1>11. IsLedger(m)
  <2>1. \A x \in DOMAIN m : m[x] \in Nat
    <3> TAKE x \in DOMAIN m
    <3>1. m[x] = Balance(m, x)
      BY DEF Balance
    <3>2. CASE x = From[t]
      BY <1>3, <1>10, <3>1, <3>2
    <3>3. CASE x # From[t]
      <4>1. Balance(m, x) = Balance(b, x)
        BY <1>3, <1>9, <3>3
      <4> QED
        BY <1>3, <3>1, <4>1
    <3> QED
      BY <3>2, <3>3
  <2>2. DOMAIN m \subseteq Account
    BY <1>1, <1>8 DEF IsLedger
  <2>3. m = [x \in DOMAIN m |-> m[x]]
    BY <1>8
  <2> HIDE DEF m
  <2> QED
    BY <2>1, <2>2, <2>3 DEF IsLedger
<1> HIDE DEF m
<1>12. IsFiniteSet(DOMAIN m) /\ Total(b) \in Int /\ Total(m) = Total(b) + d
  <2>1. Shifts(b, m, From[t], d)
    BY <1>8, <1>9 DEF Shifts
  <2> QED
    BY <1>4, <1>11, <2>1, TotalChanges
<1>13. IsFiniteSet(DOMAIN c) /\ Total(c) = Total(m) + k
  <2>1. \A x \in DOMAIN c : Balance(c, x) = Balance(m, x) + (IF x = To[t] THEN k ELSE 0)
    <3> TAKE x \in DOMAIN c
    <3>0. Balance(b, x) \in Nat /\ Balance(m, x) \in Nat /\ Balance(c, x) \in Nat
      BY <1>3, <1>11, BalanceTyped
    <3>1. CASE x = From[t] /\ x = To[t]
      <4>1. k = 0
        BY <1>7, <3>1 DEF k
      <4> QED
        BY <1>10, <3>0, <3>1, <4>1
    <3>2. CASE x = From[t] /\ x # To[t]
      BY <1>10, <3>0, <3>2
    <3>3. CASE x # From[t] /\ x = To[t]
      <4>1. k = Due(t, x, has, Balance(b, x))
        BY <1>7, <3>3 DEF k
      <4> QED
        BY <1>2, <1>9, <3>0, <3>3, <4>1
    <3>4. CASE x # From[t] /\ x # To[t]
      BY <1>2, <1>6, <1>9, <3>0, <3>4
    <3> QED
      BY <3>1, <3>2, <3>3, <3>4
  <2>2. Shifts(m, c, To[t], k)
    BY <1>8, <2>1 DEF Shifts
  <2> QED
    BY <1>2, <1>4, <1>11, <1>12, <2>2, TotalChanges
<1>14. Total(c) = Total(b) + Made(b, t)
  BY <1>4, <1>5, <1>12, <1>13
<1> QED
  BY <1>5, <1>12, <1>13, <1>14 DEF c

\* acc holds a ledger with the funds of b and what was minted.
Balanced(acc, b) ==
  /\ acc = [ledger |-> acc.ledger, minted |-> acc.minted]
  /\ IsLedger(acc.ledger) /\ IsFiniteSet(DOMAIN acc.ledger)
  /\ acc.minted \in Int
  /\ Total(acc.ledger) = Total(b) + acc.minted

LEMMA MintOne ==
  ASSUME NEW b, IsLedger(b), IsFiniteSet(DOMAIN b), NEW acc, Balanced(acc, b), NEW t \in Tx
  PROVE  Balanced(Mint(acc, t), b) /\ Mint(acc, t).ledger = ExecuteOne(acc.ledger, t)
<1>1. /\ IsFiniteSet(DOMAIN ExecuteOne(acc.ledger, t))
      /\ Made(acc.ledger, t) \in Int
      /\ Total(ExecuteOne(acc.ledger, t)) = Total(acc.ledger) + Made(acc.ledger, t)
      /\ IsLedger(ExecuteOne(acc.ledger, t))
  BY TotalOne, OneLemma DEF Balanced
<1>2. Mint(acc, t) = [ledger |-> ExecuteOne(acc.ledger, t),
                      minted |-> acc.minted + Made(acc.ledger, t)]
  BY DEF Mint
<1>3. Total(b) \in Int
  BY TotalInt
<1> DEFINE l == ExecuteOne(acc.ledger, t)
           n == acc.minted + Made(acc.ledger, t)
<1>4. n \in Int /\ Total(l) = Total(b) + n
  BY <1>1, <1>3 DEF Balanced
<1>5. Mint(acc, t) = [ledger |-> l, minted |-> n] /\ IsLedger(l) /\ IsFiniteSet(DOMAIN l)
  BY <1>1, <1>2
<1> HIDE DEF l, n
<1>6. Balanced(Mint(acc, t), b) /\ Mint(acc, t).ledger = l
  BY <1>4, <1>5 DEF Balanced
<1> QED
  BY <1>6 DEF l

LEMMA MintList ==
  ASSUME NEW b, IsLedger(b), IsFiniteSet(DOMAIN b), NEW acc, Balanced(acc, b), NEW txs \in Seq(Tx)
  PROVE  /\ Balanced(MintBatch(acc, txs), b)
         /\ MintBatch(acc, txs).ledger = ExecuteInOrder(acc.ledger, txs)
<1> DEFINE f(s) == FMint!Fold(0, acc, s)
           T == {s \in Seq(Tx) : Balanced(f(s), b) /\ f(s).ledger = FOne!Fold(0, acc.ledger, s)}
<1>1. <<>> \in T
  BY FMint!FoldNothing, FOne!FoldNothing
<1>2. ASSUME NEW s \in Seq(Tx), s \in T, NEW t \in Tx
      PROVE  Append(s, t) \in T
  <2>1. f(Append(s, t)) = Mint(f(s), t)
    BY FMint!FoldAppend DEF MintNext
  <2>2. FOne!Fold(0, acc.ledger, Append(s, t)) = ExecuteOne(FOne!Fold(0, acc.ledger, s), t)
    BY FOne!FoldAppend DEF ExecuteNext
  <2>3. Append(s, t) \in Seq(Tx)
    OBVIOUS
  <2>4. Balanced(f(s), b) /\ f(s).ledger = FOne!Fold(0, acc.ledger, s)
    BY <1>2
  <2> HIDE DEF f
  <2>5. Balanced(Mint(f(s), t), b) /\ Mint(f(s), t).ledger = ExecuteOne(f(s).ledger, t)
    BY <2>4, MintOne
  <2> QED
    BY <2>1, <2>2, <2>3, <2>4, <2>5
<1> HIDE DEF T
<1>3. txs \in T
  BY <1>1, <1>2, FMint!SeqInSteps
<1> QED
  BY <1>3, MintFolds, ExecuteInOrderFolds DEF T

LEMMA MintAll ==
  ASSUME NEW b, IsLedger(b), IsFiniteSet(DOMAIN b), NEW batches \in Seq(Batch)
  PROVE  Total(FoldLeft(ExecuteInOrder, b, batches)) = Total(b) + Minted(b, batches)
<1> DEFINE acc == [ledger |-> b, minted |-> 0]
           f(s) == FMinted!Fold(0, acc, s)
           T == {s \in Seq(Batch) : Balanced(f(s), b) /\ f(s).ledger = FSerial!Fold(0, b, s)}
<1>0. Balanced(acc, b) /\ acc.ledger = b
  BY TotalInt DEF Balanced
<1>1. <<>> \in T
  BY <1>0, FMinted!FoldNothing, FSerial!FoldNothing
<1>2. ASSUME NEW s \in Seq(Batch), s \in T, NEW batch \in Batch
      PROVE  Append(s, batch) \in T
  <2>1. f(Append(s, batch)) = MintBatch(f(s), batch)
    BY FMinted!FoldAppend DEF MintBatchNext
  <2>2. FSerial!Fold(0, b, Append(s, batch)) = ExecuteInOrder(FSerial!Fold(0, b, s), batch)
    BY FSerial!FoldAppend DEF SerialNext
  <2>3. Append(s, batch) \in Seq(Batch) /\ batch \in Seq(Tx)
    BY DEF Batch
  <2>4. Balanced(f(s), b) /\ f(s).ledger = FSerial!Fold(0, b, s)
    BY <1>2
  <2> HIDE DEF f
  <2>5. /\ Balanced(MintBatch(f(s), batch), b)
        /\ MintBatch(f(s), batch).ledger = ExecuteInOrder(f(s).ledger, batch)
    BY <2>3, <2>4, MintList
  <2> QED
    BY <2>1, <2>2, <2>3, <2>4, <2>5
<1> HIDE DEF T
<1>3. batches \in T
  BY <1>1, <1>2, FMinted!SeqInSteps
<1>4. Balanced(f(batches), b) /\ f(batches).ledger = FSerial!Fold(0, b, batches)
  BY <1>3 DEF T
<1>5. Minted(b, batches) = f(batches).minted
  BY MintedFolds
<1> HIDE DEF f
<1> QED
  BY <1>4, <1>5, SerialFolds DEF Balanced

\* A block keeps the funds of any ledger with finitely many accounts, but for what
\* its transfers to oneself and its negative amounts make when its batches are
\* executed, for amounts of either sign.
THEOREM BlockKeepsSupply ==
  (\A b \in GenesisLedgers : IsFiniteSet(DOMAIN b)) => (ListSpec => []SupplyAccounted)
<1> SUFFICES ASSUME \A b \in GenesisLedgers : IsFiniteSet(DOMAIN b)
             PROVE  ListSpec => []SupplyAccounted
  OBVIOUS
<1> DEFINE Typed == ListsTyped /\ IsFiniteSet(DOMAIN genesis)
<1>1. ListInit => Typed
  BY BlockListsAssumption DEF ListInit, ListsTyped
<1>2. Typed /\ [ListNext]_<<list, genesis>> => Typed'
  BY DEF ListsTyped, ListNext, Extend
<1>3. Typed => SupplyAccounted
  BY ExecuteIsSerial, BatchesLemma, MintAll DEF ListsTyped, SupplyAccounted
<1> QED
  BY <1>1, <1>2, <1>3, PTL DEF ListSpec
=============================================================================
