--------------------------- MODULE RecoveryProofs ---------------------------
(***************************************************************************)
(* Theorems about Recovery, for every window, every number of blocks and   *)
(* any blocks with transactions.                                           *)
(***************************************************************************)
EXTENDS Recovery, SequenceTheorems, TLAPS

\* What the copied balances may be ahead of, before the blocks are copied.
CopiedInTime ==
  /\ height \in Nat
  /\ snapPc = "balances" =>
       \A e \in Effect : snap.done[e] > 0 => e[1] <= height + 1

\* A whole snapshot, whatever the source has done since.
IInv ==
  /\ CopiedInTime
  /\ snap = [height |-> snap.height, done |-> snap.done, named |-> snap.named, blocks |-> snap.blocks]
  /\ AheadByOne

\* An effect is one of a block after the genesis.
LEMMA EffectOfBlock == \A e \in Effect : e[1] \in Full /\ e[1] \in Nat /\ e[1] > 0
<1> SUFFICES ASSUME NEW e \in Effect PROVE e[1] \in Full /\ e[1] \in Nat /\ e[1] > 0
  OBVIOUS
<1>1. e[1] \in Full
  BY DEF Effect
<1>2. \A b \in Full : b \in Nat /\ b > 0
  <2>1. Full \subseteq Nat \ {0}
    BY RecoveryAssumption
  <2>2. ASSUME NEW b \in Full PROVE b \in Nat /\ b # 0
    BY <2>1, Zenon
  <2> QED BY <2>2
<1>3. e[1] \in Nat /\ e[1] > 0
  <2> DEFINE b == e[1]
  <2>1. b \in Full BY <1>1
  <2> HIDE DEF b
  <2>2. b \in Nat /\ b > 0 BY <1>2, <2>1
  <2> QED BY <2>2 DEF b
<1> QED BY <1>1, <1>3

\* The last of the copied blocks is the tip of that moment.
LEMMA RecentEndsAtTip ==
  ASSUME height \in Nat
  PROVE  Recent # <<>> /\ Last(Recent) = height
<1> DEFINE first == IF height + 1 > Window THEN height + 1 - Window ELSE 0
           len == height + 1 - first
<1>1. first \in Nat /\ len \in Nat /\ len >= 1
  BY RecoveryAssumption
<1>2. Recent = [i \in 1 .. len |-> first + i - 1]
  BY DEF Recent
<1> HIDE DEF first
<1>3. Recent \in Seq(Int) /\ Len(Recent) = len
  <2>1. \A i \in 1 .. len : first + i - 1 \in Int
    BY <1>1
  <2> HIDE DEF len
  <2>2. Recent \in [1 .. len -> Int]
    BY <1>2, <2>1
  <2>3. Recent \in Seq(Int)
    BY <1>1, <2>2
  <2> QED BY <1>1, <1>2, <2>2, <2>3, LenProperties
<1>4. Recent[len] = height
  BY <1>1, <1>2
<1> QED BY <1>1, <1>3, <1>4 DEF Last

LEMMA NextIInv == IInv /\ [Next]_vars => IInv'
<1> SUFFICES ASSUME IInv, [Next]_vars PROVE IInv'
  OBVIOUS
<1> USE DEF IInv, CopiedInTime, AheadByOne
<1>1. CASE ExecuteHalf
  BY <1>1 DEF ExecuteHalf, snapshot
<1>2. CASE AppendAndPost
  <2>1. UNCHANGED snapshot /\ height' = height + 1
    BY <1>2 DEF AppendAndPost
  <2>2. CopiedInTime'
    <3> SUFFICES ASSUME snapPc = "balances", NEW e \in Effect, snap.done[e] > 0
                 PROVE  e[1] <= height + 1 + 1
      BY <2>1 DEF snapshot
    <3>1. e[1] \in Nat /\ height \in Nat /\ e[1] <= height + 1
      BY EffectOfBlock
    <3> QED BY <3>1
  <2>3. UNCHANGED <<snap, snapPc>>
    BY <2>1 DEF snapshot
  <2> QED BY <2>2, <2>3
<1>3. CASE SnapHeight
  BY <1>3 DEF SnapHeight, NoSnap, source
<1>4. CASE SnapBalances
  <2>1. PICK others \in SUBSET Effect :
          snap' = [snap EXCEPT !.done = [e \in Effect |-> IF e \in Executed THEN 1 ELSE 0],
                               !.named = Executed \cup others]
    BY <1>4 DEF SnapBalances
  <2>2. snap'.done = [e \in Effect |-> IF e \in Executed THEN 1 ELSE 0]
    BY <2>1
  <2>3. \A e \in Executed : e[1] <= height + 1
    <3> SUFFICES ASSUME NEW e \in Executed PROVE e[1] <= height + 1
      OBVIOUS
    <3>1. e[1] \in Full /\ (e[1] <= height \/ e[1] = height + 1)
      BY DEF Executed, Effect
    <3> QED BY <3>1, RecoveryAssumption
  <2>4. \A e \in Effect : snap'.done[e] > 0 => e[1] <= height + 1
    BY <2>2, <2>3
  <2>5. snap' = [height |-> snap'.height, done |-> snap'.done, named |-> snap'.named, blocks |-> snap'.blocks]
    BY <2>1
  <2>6. height' = height /\ snapPc' = "balances"
    BY <1>4 DEF SnapBalances, source
  <2> QED BY <2>4, <2>5, <2>6
<1>5. CASE SnapBlocks
  <2>1. /\ height' = height /\ snapPc = "balances" /\ snapPc' = "held"
        /\ snap' = [snap EXCEPT !.blocks = Recent]
    BY <1>5 DEF SnapBlocks, source
  <2>2. snap'.blocks = Recent /\ snap'.done = snap.done
    BY <2>1
  <2>3. snap' = [height |-> snap'.height, done |-> snap'.done, named |-> snap'.named, blocks |-> snap'.blocks]
    BY <2>1
  <2> QED BY <2>1, <2>2, <2>3, RecentEndsAtTip
<1>6. CASE ApplyDone
  BY <1>6 DEF ApplyDone, source, NoSnap
<1>7. CASE Restart
  BY <1>7 DEF Restart, source, NoSnap
<1>8. ASSUME UNCHANGED <<source, snapshot>> PROVE IInv'
  BY <1>8 DEF source, snapshot
<1>9. CASE \E b \in Block : SyncCheck(b) \/ P2PCheck(b)
  BY <1>8, <1>9 DEF SyncCheck, P2PCheck
<1>10. CASE SyncAdd \/ ApplyBalances \/ ApplyClear \/ ApplyBlock \/ P2PReject \/ P2PAdd
  BY <1>8, <1>10 DEF SyncAdd, ApplyBalances, ApplyClear, ApplyBlock, P2PReject, P2PAdd
<1>11. CASE UNCHANGED vars
  BY <1>8, <1>11 DEF vars
<1> QED BY <1>1, <1>2, <1>3, <1>4, <1>5, <1>6, <1>7, <1>9, <1>10, <1>11 DEF Next, Apply

\* The balances of a snapshot hold at most the one block that was being executed
\* beyond the blocks that come with them.
THEOREM SnapshotAheadByOne == Spec => []AheadByOne
<1>1. Init => IInv
  BY DEF Init, IInv, CopiedInTime, AheadByOne, NoSnap
<1>2. IInv => AheadByOne
  BY DEF IInv
<1> QED BY <1>1, <1>2, NextIInv, PTL DEF Spec
-----------------------------------------------------------------------------
(* Types                                                                   *)

\* The event loop's step is a whole record, and holds a block while it syncs.
LoopOK ==
  /\ loop \in [task : {"idle", "sync", "clear", "refill"}, at : Nat]
  /\ loop.task = "sync" => loop.at \in Block

SnapType == [height : 0 .. MaxHeight + 1, done : [Effect -> {0, 1}],
             named : SUBSET Effect, blocks : Seq(Block)]

TInv == TypeOK /\ LoopOK

\* The blocks of a snapshot are blocks of the source, in a row.
LEMMA RecentInARow ==
  ASSUME height \in Block
  PROVE  /\ Recent \in Seq(Block)
         /\ \A i \in 1 .. Len(Recent) - 1 : Recent[i + 1] = Recent[i] + 1
<1> DEFINE first == IF height + 1 > Window THEN height + 1 - Window ELSE 0
           len == height + 1 - first
<1>1. first \in Nat /\ len \in Nat /\ len >= 1 /\ first + len = height + 1 /\ height \in 0 .. MaxHeight
  BY RecoveryAssumption DEF Block
<1>2. Recent = [i \in 1 .. len |-> first + i - 1]
  BY DEF Recent
<1> HIDE DEF first, len
<1>3. \A i \in 1 .. len : first + i - 1 \in Block
  BY <1>1, RecoveryAssumption DEF Block
<1>4. Recent \in [1 .. len -> Block]
  BY <1>2, <1>3
<1>5. Recent \in Seq(Block) /\ Len(Recent) = len
  BY <1>1, <1>4, LenProperties
<1>6. \A i \in 1 .. len - 1 : Recent[i + 1] = Recent[i] + 1
  BY <1>1, <1>2
<1> QED
  BY <1>5, <1>6

LEMMA NoSnapOK ==
  ASSUME MaxHeight \in Nat
  PROVE  NoSnap \in SnapType
<1>1. [e \in Effect |-> 0] \in [Effect -> {0, 1}] /\ 0 \in 0 .. MaxHeight + 1
  OBVIOUS
<1> QED
  BY <1>1 DEF NoSnap, SnapType

LEMMA DisturbedIsBoolean == SyncAdd => disturbed' \in BOOLEAN
BY DEF SyncAdd

LEMMA NextTInv == TInv /\ [Next]_vars => TInv'
<1> SUFFICES ASSUME TInv, [Next]_vars PROVE TInv'
  OBVIOUS
<1> USE DEF TInv, TypeOK, LoopOK, SnapType
<1>0. 0 \in Block /\ height \in Nat /\ MaxHeight \in Nat
  BY RecoveryAssumption DEF Block
<1>17. NoSnap \in SnapType
  BY <1>0, NoSnapOK
<1>18. ASSUME NEW t \in {"idle", "clear", "refill"}, loop' = [task |-> t, at |-> 0]
       PROVE  LoopOK' /\ loop'.task \in {"idle", "sync", "clear", "refill"} /\ loop'.at \in Nat
  BY <1>18
<1>1. CASE ExecuteHalf
  BY <1>1 DEF ExecuteHalf, snapshot, chain, history
<1>2. CASE AppendAndPost
  <2>1. height + 1 \in Block \ {0}
    BY <1>2, RecoveryAssumption DEF AppendAndPost, Block
  <2> QED
    BY <1>2, <2>1 DEF AppendAndPost, snapshot, chain, history
<1>3. CASE SnapHeight
  <2>1. snap' \in SnapType
    <3>1. height + 1 \in 0 .. MaxHeight + 1
      BY RecoveryAssumption DEF Block
    <3> QED
      BY <1>3, <1>17, <3>1 DEF SnapHeight, NoSnap
  <2>2. snapshots' \in 0 .. MaxSnapshots
    BY <1>3, RecoveryAssumption DEF SnapHeight
  <2> QED
    BY <1>3, <2>1, <2>2 DEF SnapHeight, source, chain, history
<1>4. CASE SnapBalances
  <2>1. PICK others \in SUBSET Effect :
          snap' = [snap EXCEPT !.done = [e \in Effect |-> IF e \in Executed THEN 1 ELSE 0],
                               !.named = Executed \cup others]
    BY <1>4 DEF SnapBalances
  <2>3. /\ [e \in Effect |-> IF e \in Executed THEN 1 ELSE 0] \in [Effect -> {0, 1}]
        /\ Executed \cup others \in SUBSET Effect
    BY DEF Executed
  <2>2. snap' \in SnapType
    BY <2>1, <2>3
  <2> QED
    BY <1>4, <2>2 DEF SnapBalances, source, chain, history
<1>5. CASE SnapBlocks
  <2>1. snap' \in SnapType
    BY <1>5, RecentInARow DEF SnapBlocks
  <2> QED
    BY <1>5, <2>1 DEF SnapBlocks, source, chain, history
<1>6. ASSUME NEW b \in Block, SyncCheck(b)
      PROVE  TInv'
  <2>1. loop' \in [task : {"idle", "sync", "clear", "refill"}, at : Nat]
    BY <1>6, RecoveryAssumption DEF SyncCheck, Block
  <2> QED
    BY <1>6, <2>1 DEF SyncCheck, source, snapshot, chain, history
<1>7. CASE SyncAdd
  <2>1. done' \in [Effect -> Nat]
    BY <1>7 DEF SyncAdd
  <2>2. blocks' \in Seq(Block)
    BY <1>7 DEF SyncAdd
  <2>3. LoopOK' /\ loop'.task \in {"idle", "sync", "clear", "refill"} /\ loop'.at \in Nat
    BY <1>7, <1>18 DEF SyncAdd, Idle
  <2>4. disturbed' \in BOOLEAN
    BY <1>7, DisturbedIsBoolean
  <2> QED
    BY <1>7, <2>1, <2>2, <2>3, <2>4 DEF SyncAdd, source, snapshot
<1>8. CASE ApplyBalances
  <2>1. done' \in [Effect -> Nat]
    <3>1. /\ done' = [e \in Effect |-> IF e \in snap.named THEN snap.done[e] ELSE done[e]]
          /\ snap.done \in [Effect -> {0, 1}] /\ done \in [Effect -> Nat]
      BY <1>8 DEF ApplyBalances
    <3> HIDE DEF TInv, TypeOK, SnapType
    <3> QED
      BY <3>1
  <2>3. skew' \subseteq Full /\ left' \subseteq Full
    BY <1>8 DEF ApplyBalances
  <2>2. LoopOK' /\ loop'.task \in {"idle", "sync", "clear", "refill"} /\ loop'.at \in Nat
    BY <1>8, <1>18 DEF ApplyBalances
  <2> QED
    BY <1>8, <2>1, <2>2, <2>3 DEF ApplyBalances, source, snapshot
<1>9. CASE ApplyClear
  <2>1. blocks' \in Seq(Block)
    BY <1>9 DEF ApplyClear
  <2>2. LoopOK' /\ loop'.task \in {"idle", "sync", "clear", "refill"} /\ loop'.at \in Nat
    BY <1>9, <1>18 DEF ApplyClear
  <2> QED
    BY <1>9, <2>1, <2>2 DEF ApplyClear, source, snapshot
<1>10. CASE ApplyBlock
  <2>1. snap.blocks[loop.at + 1] \in Block
    BY <1>10 DEF ApplyBlock
  <2>2. blocks' \in Seq(Block)
    BY <1>10, <2>1 DEF ApplyBlock
  <2>3. loop' \in [task : {"idle", "sync", "clear", "refill"}, at : Nat] /\ loop'.task = "refill"
    <3>1. loop' = [loop EXCEPT !.at = @ + 1] /\ loop.task = "refill"
      BY <1>10 DEF ApplyBlock
    <3> QED
      BY <3>1
  <2> QED
    BY <1>10, <2>2, <2>3 DEF ApplyBlock, source, snapshot, history
<1>11. CASE ApplyDone
  <2>1. LoopOK' /\ loop'.task \in {"idle", "sync", "clear", "refill"} /\ loop'.at \in Nat
    BY <1>11, <1>18 DEF ApplyDone, Idle
  <2> QED
    BY <1>11, <1>17, <2>1 DEF ApplyDone, source, chain, history
<1>12. ASSUME NEW b \in Block, P2PCheck(b)
       PROVE  TInv'
  <2>1. b \in Block \ Full
    BY <1>12 DEF P2PCheck
  <2> QED
    BY <1>0, <1>12, <2>1 DEF P2PCheck, source, snapshot, chain, history
<1>13. CASE P2PReject
  BY <1>0, <1>13 DEF P2PReject, source, snapshot, chain, history
<1>14. CASE P2PAdd
  BY <1>0, <1>14 DEF P2PAdd, source, snapshot, Extends
<1>15. CASE Restart
  <2>1. LoopOK' /\ loop'.task \in {"idle", "sync", "clear", "refill"} /\ loop'.at \in Nat
    BY <1>15, <1>18 DEF Restart, Idle
  <2>2. restarts' \in 0 .. MaxRestarts
    BY <1>15, RecoveryAssumption DEF Restart
  <2>3. snap' \in SnapType
        /\ snapPc' \in {"none", "height", "balances", "held"}
    BY <1>15, <1>17 DEF Restart
  <2>4. blocks' \in Seq(Block) /\ done' \in [Effect -> Nat]
    BY <1>0, <1>15 DEF Restart
  <2> QED
    BY <1>0, <1>15, <2>1, <2>2, <2>3, <2>4 DEF Restart, source
<1>16. CASE UNCHANGED vars
  BY <1>16 DEF vars, source, snapshot, chain, history
<1> QED
  BY <1>1, <1>2, <1>3, <1>4, <1>5, <1>6, <1>7, <1>8, <1>9, <1>10, <1>11, <1>12, <1>13, <1>14,
     <1>15, <1>16 DEF Next, Apply

LEMMA InitTInv == Init => TInv
<1>1. 0 \in Block /\ MaxSnapshots \in Nat /\ MaxRestarts \in Nat /\ MaxHeight \in Nat
  BY RecoveryAssumption DEF Block
<1>2. ASSUME Init
      PROVE  blocks \in Seq(Block) /\ done \in [Effect -> Nat] /\ LoopOK
  <2>1. blocks = <<0>> /\ done = [e \in Effect |-> 0] /\ loop = [task |-> "idle", at |-> 0]
    BY <1>2 DEF Init, Idle
  <2> QED
    BY <1>1, <2>1 DEF LoopOK
<1> SUFFICES ASSUME Init PROVE TInv
  OBVIOUS
<1>3. snap = NoSnap /\ snapshots = 0 /\ restarts = 0 /\ height = 0 /\ p2p = 0
  BY DEF Init
<1>4. snap \in SnapType
      /\ snapshots \in 0 .. MaxSnapshots /\ restarts \in 0 .. MaxRestarts
      /\ height \in Block /\ p2p \in Block
  BY <1>1, <1>3, NoSnapOK
<1>5. /\ half \in 0 .. 2 /\ posts \subseteq Block \ {0}
      /\ snapPc \in {"none", "height", "balances", "held"}
      /\ seen \subseteq Block \ Full
      /\ skew \subseteq Full /\ left \subseteq Full
  <2>1. half = 0 /\ posts = {} /\ snapPc = "none" /\ seen = {} /\ skew = {} /\ left = {}
    BY DEF Init
  <2> QED
    BY <2>1
<1>6. loop.task \in {"idle", "sync", "clear", "refill"} /\ loop.at \in Nat
  BY <1>2 DEF LoopOK
<1>7. disturbed \in BOOLEAN
  BY Zenon DEF Init
<1> QED
  BY <1>2, <1>4, <1>5, <1>6, <1>7 DEF TInv, TypeOK, SnapType

\* The state of the two nodes, of the snapshot and of the requests under way.
THEOREM TypeCorrect == Spec => []TypeOK
<1>1. Init => TInv
  BY InitTInv
<1>2. TInv => TypeOK
  BY DEF TInv
<1> QED
  BY <1>1, <1>2, NextTInv, PTL DEF Spec
-----------------------------------------------------------------------------
(* The ledger and the tip                                                  *)

InARow(s) == \A i \in 1 .. Len(s) - 1 : s[i + 1] = s[i] + 1

\* The ledger is the one of the chain s, but for the blocks on which the
\* snapshot of the node disagreed with itself or left something behind.
LedgerOf(s) == \A b \in Full \ (skew \cup left) : Agrees(done, b, Last(s))

\* A whole snapshot is a piece of the source's chain.
HeldInARow == snapPc = "held" => snap.blocks # <<>> /\ InARow(snap.blocks)

\* From the balances to the last block the snapshot is held, the ledger is its
\* own, and the chain is as much of it as was filled in, unless another thread
\* appended meanwhile.
Applying ==
  loop.task \in {"clear", "refill"} =>
    /\ snapPc = "held"
    /\ LedgerOf(snap.blocks)
    /\ loop.task = "refill" => loop.at <= Len(snap.blocks)
    /\ loop.task = "refill" /\ ~ disturbed => blocks = SubSeq(snap.blocks, 1, loop.at)

\* The effects in the balances of a snapshot are on accounts that it names.
InNamed == \A e \in Effect \ snap.named : snap.done[e] = 0

LInv == HeldInARow /\ InNamed /\ Applying /\ LedgerMatchesTip

LEMMA NextInARow ==
  ASSUME NEW s \in Seq(Block), s # <<>>, InARow(s), NEW x \in Block, Last(s) = x - 1
  PROVE  Append(s, x) # <<>> /\ InARow(Append(s, x)) /\ Last(Append(s, x)) = x
<1> DEFINE n == Len(s)
<1>1. n \in Nat /\ n >= 1 /\ s[n] = x - 1
  BY DEF Last
<1>2. /\ Len(Append(s, x)) = n + 1 /\ Append(s, x)[n + 1] = x
      /\ \A i \in 1 .. n : Append(s, x)[i] = s[i]
  OBVIOUS
<1>3. x \in Int
  BY RecoveryAssumption DEF Block
<1> HIDE DEF n
<1>4. ASSUME NEW i \in 1 .. n
      PROVE  Append(s, x)[i + 1] = Append(s, x)[i] + 1
  <2>1. CASE i = n
    BY <1>1, <1>2, <1>3, <2>1
  <2>2. CASE i < n
    <3>1. i \in 1 .. Len(s) - 1 /\ i + 1 \in 1 .. n
      BY <1>1, <2>2 DEF n
    <3> QED
      BY <1>2, <3>1 DEF InARow
  <2>3. i = n \/ i < n
    BY <1>1
  <2> QED
    BY <2>1, <2>2, <2>3
<1>5. InARow(Append(s, x))
  <2>1. Len(Append(s, x)) - 1 = n
    BY <1>1, <1>2
  <2> QED
    BY <1>4, <2>1 DEF InARow
<1>6. Append(s, x) # <<>> /\ Last(Append(s, x)) = x
  BY <1>1, <1>2 DEF Last
<1> QED
  BY <1>5, <1>6

LEMMA PrefixGrows ==
  ASSUME NEW s \in Seq(Block), NEW n \in Nat, n < Len(s)
  PROVE  SubSeq(s, 1, n + 1) = Append(SubSeq(s, 1, n), s[n + 1])
<1>1. /\ SubSeq(s, 1, n) \in Seq(Block) /\ Len(SubSeq(s, 1, n)) = n
      /\ SubSeq(s, 1, n + 1) \in Seq(Block) /\ Len(SubSeq(s, 1, n + 1)) = n + 1
      /\ \A i \in 1 .. n : SubSeq(s, 1, n)[i] = s[i]
      /\ \A i \in 1 .. n + 1 : SubSeq(s, 1, n + 1)[i] = s[i]
  BY SubSeqProperties
<1>2. /\ Append(SubSeq(s, 1, n), s[n + 1]) \in Seq(Block)
      /\ Len(Append(SubSeq(s, 1, n), s[n + 1])) = n + 1
      /\ \A i \in 1 .. n + 1 : Append(SubSeq(s, 1, n), s[n + 1])[i] = s[i]
  BY <1>1
<1> QED
  BY <1>1, <1>2, SeqEqual

\* A thread that appends the block after the tip, whose transactions have been
\* executed by then, keeps the ledger and the tip together.
LEMMA AppendedInStep ==
  ASSUME TypeOK, NEW x \in Block, Extends(x), blocks' = Append(blocks, x), UNCHANGED <<skew, left>>,
         InARow(blocks),
         \A b \in Full \ (skew \cup left) : Agrees(done', b, x)
  PROVE  LedgerMatchesTip'
<1>1. blocks \in Seq(Block) /\ blocks # <<>> /\ Last(blocks) = x - 1
  BY DEF TypeOK, Extends
<1>2. blocks' # <<>> /\ InARow(blocks') /\ Last(blocks') = x
  BY <1>1, NextInARow
<1> QED
  BY <1>2 DEF LedgerMatchesTip, InARow

LEMMA NextHeld ==
  ASSUME TInv, AheadByOne', HeldInARow, [Next]_vars
  PROVE  HeldInARow'
<1>1. CASE SnapBlocks
  <2>1. snap'.blocks = Recent
    BY <1>1 DEF SnapBlocks, TInv, TypeOK
  <2>2. InARow(Recent)
    BY RecentInARow DEF TInv, TypeOK, InARow
  <2> QED
    BY <2>1, <2>2 DEF HeldInARow, AheadByOne
<1>2. CASE SnapHeight \/ SnapBalances
  BY <1>2 DEF SnapHeight, SnapBalances, HeldInARow
<1>3. CASE ApplyDone \/ Restart
  BY <1>3 DEF ApplyDone, Restart, HeldInARow
<1>4. ASSUME UNCHANGED snapshot
      PROVE  HeldInARow'
  BY <1>4 DEF snapshot, HeldInARow
<1>5. CASE ExecuteHalf \/ AppendAndPost \/ SyncAdd
  BY <1>4, <1>5 DEF ExecuteHalf, AppendAndPost, SyncAdd
<1>6. CASE ApplyBalances \/ ApplyClear \/ ApplyBlock
  BY <1>4, <1>6 DEF ApplyBalances, ApplyClear, ApplyBlock
<1>7. CASE P2PReject \/ P2PAdd \/ UNCHANGED vars
  BY <1>4, <1>7 DEF P2PReject, P2PAdd, vars
<1>8. CASE \E b \in Block : SyncCheck(b) \/ P2PCheck(b)
  BY <1>4, <1>8 DEF SyncCheck, P2PCheck
<1> QED
  BY <1>1, <1>2, <1>3, <1>5, <1>6, <1>7, <1>8 DEF Next, Apply

LEMMA NextNamed ==
  ASSUME TInv, InNamed, [Next]_vars
  PROVE  InNamed'
<1>1. CASE SnapBalances
  <2>1. PICK others \in SUBSET Effect :
          snap' = [snap EXCEPT !.done = [e \in Effect |-> IF e \in Executed THEN 1 ELSE 0],
                               !.named = Executed \cup others]
    BY <1>1 DEF SnapBalances
  <2>2. /\ snap'.done = [e \in Effect |-> IF e \in Executed THEN 1 ELSE 0]
        /\ snap'.named = Executed \cup others
    BY <2>1 DEF TInv, TypeOK
  <2> QED
    BY <2>2 DEF InNamed
<1>2. ASSUME snap' = NoSnap \/ snap'.done = NoSnap.done
      PROVE  InNamed'
  BY <1>2 DEF InNamed, NoSnap
<1>3. CASE SnapHeight
  BY <1>2, <1>3 DEF SnapHeight, NoSnap
<1>4. ASSUME snap'.done = snap.done, snap'.named = snap.named
      PROVE  InNamed'
  BY <1>4 DEF InNamed
<1>5. CASE SnapBlocks
  BY <1>4, <1>5 DEF SnapBlocks, TInv, TypeOK
<1>6. CASE ApplyDone \/ Restart
  BY <1>2, <1>4, <1>6 DEF ApplyDone, Restart
<1>7. CASE ExecuteHalf \/ AppendAndPost \/ SyncAdd
  BY <1>4, <1>7 DEF ExecuteHalf, AppendAndPost, SyncAdd, snapshot
<1>8. CASE ApplyBalances \/ ApplyClear \/ ApplyBlock
  BY <1>4, <1>8 DEF ApplyBalances, ApplyClear, ApplyBlock, snapshot
<1>9. CASE P2PReject \/ P2PAdd \/ UNCHANGED vars
  BY <1>4, <1>9 DEF P2PReject, P2PAdd, vars, snapshot
<1>10. CASE \E b \in Block : SyncCheck(b) \/ P2PCheck(b)
  BY <1>4, <1>10 DEF SyncCheck, P2PCheck, snapshot
<1> QED
  BY <1>1, <1>3, <1>5, <1>6, <1>7, <1>8, <1>9, <1>10 DEF Next, Apply

LEMMA NextLInv == TInv /\ LInv /\ AheadByOne' /\ [Next]_vars => LInv'
<1> SUFFICES ASSUME TInv, LInv, AheadByOne', [Next]_vars PROVE LInv'
  OBVIOUS
<1> USE DEF LInv
<1>0. HeldInARow' /\ InNamed'
  BY NextHeld, NextNamed
<1>1. ASSUME UNCHANGED <<blocks, done, loop, skew, left, disturbed>>,
             snapPc = "held" => UNCHANGED <<snapPc, snap>>
      PROVE  LInv'
  <2>1. LedgerMatchesTip'
    BY <1>1 DEF LedgerMatchesTip
  <2>2. Applying'
    BY <1>1 DEF Applying, LedgerOf
  <2> QED
    BY <1>0, <2>1, <2>2
<1>2. CASE ExecuteHalf \/ AppendAndPost
  BY <1>1, <1>2 DEF ExecuteHalf, AppendAndPost, snapshot, chain, history
<1>3. CASE SnapHeight \/ SnapBalances \/ SnapBlocks
  BY <1>1, <1>3 DEF SnapHeight, SnapBalances, SnapBlocks, chain, history
<1>4. ASSUME NEW b \in Block, SyncCheck(b)
      PROVE  LInv'
  <2>1. UNCHANGED <<blocks, done, skew, left, disturbed, snapPc, snap>>
    BY <1>4 DEF SyncCheck, chain, history, snapshot
  <2>2. loop.task = "idle" /\ loop'.task \in {"idle", "sync"}
    BY <1>4 DEF SyncCheck, Idle
  <2> QED
    BY <1>0, <2>1, <2>2 DEF LedgerMatchesTip, Applying
<1>5. CASE SyncAdd
  <2>1. /\ loop.task = "sync" /\ loop'.task = "idle" /\ UNCHANGED <<skew, left>>
        /\ blocks' = Append(blocks, loop.at) /\ loop.at \in Block
        /\ done' = [e \in Effect |-> IF e[1] = loop.at THEN done[e] + 1 ELSE done[e]]
        /\ ~ disturbed' => ~ disturbed /\ Extends(loop.at)
    BY <1>5 DEF SyncAdd, Idle, TInv, LoopOK
  <2>2. Applying'
    BY <2>1 DEF Applying
  <2>3. CASE ~ disturbed'
    <3>1. /\ blocks # <<>> /\ InARow(blocks) /\ Last(blocks) = loop.at - 1
          /\ \A b \in Full \ (skew \cup left) : Agrees(done, b, loop.at - 1)
      BY <2>1, <2>3 DEF LedgerMatchesTip, InARow, Extends
    <3>2. \A b \in Full \ (skew \cup left) : Agrees(done', b, loop.at)
      <4> SUFFICES ASSUME NEW b \in Full \ (skew \cup left), NEW e \in Effect, e[1] = b
                   PROVE  done'[e] = IF b <= loop.at THEN 1 ELSE 0
        BY DEF Agrees
      <4>1. b \in Int /\ loop.at \in Int
        BY <2>1, EffectOfBlock DEF Block
      <4>2. done[e] = IF b <= loop.at - 1 THEN 1 ELSE 0
        BY <3>1 DEF Agrees
      <4>3. done'[e] = IF b = loop.at THEN done[e] + 1 ELSE done[e]
        BY <2>1
      <4> QED
        BY <4>1, <4>2, <4>3
    <3> QED
      BY <1>0, <2>1, <2>2, <2>3, <3>1, <3>2, AppendedInStep DEF TInv
  <2>4. CASE disturbed'
    BY <1>0, <2>2, <2>4 DEF LedgerMatchesTip
  <2> QED
    BY <2>3, <2>4
<1>6. CASE ApplyBalances
  <2>1. /\ snapPc = "held" /\ UNCHANGED <<snapPc, snap>> /\ loop'.task = "clear"
        /\ skew' = {b \in Full : ~ Agrees(snap.done, b, Last(snap.blocks))}
        /\ left' = {b \in Full : b > Last(snap.blocks) /\ \E e \in Kept(snap) : e[1] = b}
        /\ done' = [e \in Effect |-> IF e \in snap.named THEN snap.done[e] ELSE done[e]]
    BY <1>6 DEF ApplyBalances, snapshot
  <2>2. LedgerOf(snap.blocks)'
    <3> SUFFICES ASSUME NEW b \in Full \ (skew' \cup left'), NEW e \in Effect, e[1] = b
                 PROVE  done'[e] = IF b <= Last(snap.blocks) THEN 1 ELSE 0
      BY <2>1 DEF LedgerOf, Agrees
    <3>1. snap.done[e] = IF b <= Last(snap.blocks) THEN 1 ELSE 0
      BY <2>1 DEF Agrees
    <3>2. CASE e \in snap.named
      BY <2>1, <3>1, <3>2
    <3>3. CASE e \notin snap.named
      <4>1. snap.done[e] = 0 /\ done[e] \in Nat
        BY <3>3 DEF InNamed, TInv, TypeOK
      <4>2. b \in Int /\ Last(snap.blocks) \in Int
        <5>1. snap.blocks \in Seq(Block) /\ snap.blocks # <<>>
          BY <2>1 DEF TInv, TypeOK, HeldInARow
        <5>2. Last(snap.blocks) \in Block
          BY <5>1 DEF Last
        <5> QED
          BY <5>2, EffectOfBlock DEF Block
      <4>3. b > Last(snap.blocks)
        BY <3>1, <4>1, <4>2
      <4>4. e \notin Kept(snap)
        BY <2>1, <4>3
      <4>5. done[e] = 0
        BY <3>3, <4>1, <4>4 DEF Kept
      <4> QED
        BY <2>1, <3>3, <4>2, <4>3, <4>5
    <3> QED
      BY <3>2, <3>3
  <2> QED
    BY <1>0, <2>1, <2>2 DEF LedgerMatchesTip, Applying
<1>7. CASE ApplyClear
  <2>1. /\ loop.task = "clear" /\ loop'.task = "refill" /\ loop'.at = 0 /\ blocks' = <<>>
        /\ UNCHANGED <<snapPc, snap, done, skew, left>>
    BY <1>7 DEF ApplyClear, snapshot
  <2>2. snap.blocks \in Seq(Block) /\ Len(snap.blocks) \in Nat
    BY DEF TInv, TypeOK
  <2>3. SubSeq(snap.blocks, 1, 0) = <<>>
    BY <2>2
  <2> QED
    BY <1>0, <2>1, <2>2, <2>3 DEF LedgerMatchesTip, Applying, LedgerOf
<1>8. CASE ApplyBlock
  <2>1. /\ loop.task = "refill" /\ loop'.task = "refill" /\ loop'.at = loop.at + 1
        /\ loop.at < Len(snap.blocks) /\ blocks' = Append(blocks, snap.blocks[loop.at + 1])
        /\ UNCHANGED <<snapPc, snap, done, skew, left, disturbed>>
    BY <1>8 DEF ApplyBlock, snapshot, history, TInv, LoopOK
  <2>2. snap.blocks \in Seq(Block) /\ Len(snap.blocks) \in Nat /\ loop.at \in Nat
    BY DEF TInv, TypeOK
  <2>3. SubSeq(snap.blocks, 1, loop.at + 1) =
          Append(SubSeq(snap.blocks, 1, loop.at), snap.blocks[loop.at + 1])
    BY <2>1, <2>2, PrefixGrows
  <2>4. LedgerMatchesTip'
    BY <2>1 DEF LedgerMatchesTip
  <2>5. LedgerOf(snap.blocks)'
    BY <2>1 DEF Applying, LedgerOf
  <2>6. loop'.at <= Len(snap'.blocks) /\ (~ disturbed' => blocks' = SubSeq(snap'.blocks, 1, loop'.at))
    BY <2>1, <2>2, <2>3 DEF Applying
  <2>7. Applying'
    BY <2>1, <2>5, <2>6 DEF Applying
  <2> QED
    BY <1>0, <2>4, <2>7
<1>9. CASE ApplyDone
  <2>1. /\ loop.task = "refill" /\ loop'.task = "idle" /\ loop.at = Len(snap.blocks)
        /\ UNCHANGED <<blocks, done, skew, left, disturbed>>
    BY <1>9 DEF ApplyDone, Idle, chain, history
  <2>2. Applying'
    BY <2>1 DEF Applying
  <2>3. ASSUME ~ disturbed
        PROVE  blocks = snap.blocks
    <3>1. snap.blocks \in Seq(Block)
      BY DEF TInv, TypeOK
    <3> QED
      BY <2>1, <2>3, <3>1 DEF Applying
  <2> QED
    BY <1>0, <2>1, <2>2, <2>3 DEF LedgerMatchesTip, Applying, HeldInARow, LedgerOf, InARow
<1>10. CASE (\E b \in Block : P2PCheck(b)) \/ P2PReject
  BY <1>1, <1>10 DEF P2PCheck, P2PReject, snapshot, chain, history
<1>11. CASE P2PAdd
  <2>1. /\ p2p \in Block /\ blocks' = Append(blocks, p2p) /\ RootMatches(p2p)
        /\ UNCHANGED <<done, loop, skew, left, snapPc, snap>>
        /\ ~ disturbed' => ~ disturbed /\ Extends(p2p) /\ loop.task # "refill"
    BY <1>11 DEF P2PAdd, snapshot, TInv, TypeOK
  <2>2. Applying'
    BY <2>1 DEF Applying, LedgerOf
  <2>3. CASE ~ disturbed' /\ loop.task \in {"idle", "sync"}
    <3>1. InARow(blocks)
      BY <2>1, <2>3 DEF LedgerMatchesTip, InARow
    <3>2. \A b \in Full \ (skew \cup left) : Agrees(done', b, p2p)
      BY <2>1 DEF RootMatches
    <3> QED
      BY <1>0, <2>1, <2>2, <2>3, <3>1, <3>2, AppendedInStep DEF TInv
  <2>4. CASE disturbed' \/ loop.task \notin {"idle", "sync"}
    BY <1>0, <2>1, <2>2, <2>4 DEF LedgerMatchesTip
  <2> QED
    BY <2>3, <2>4
<1>12. CASE Restart
  <2>1. /\ blocks' = <<0>> /\ done' = [e \in Effect |-> 0] /\ loop'.task = "idle"
    BY <1>12 DEF Restart, Idle
  <2>2. Last(<<0>>) = 0 /\ <<0>> # <<>> /\ Len(<<0>>) = 1 /\ \A e \in Effect : e[1] \in Nat /\ e[1] > 0
    BY EffectOfBlock DEF Last
  <2> QED
    BY <1>0, <2>1, <2>2 DEF LedgerMatchesTip, Applying, Agrees
<1>13. CASE UNCHANGED vars
  BY <1>1, <1>13 DEF vars, snapshot, chain, history
<1> QED
  BY <1>2, <1>3, <1>4, <1>5, <1>6, <1>7, <1>8, <1>9, <1>10, <1>11, <1>12, <1>13 DEF Next, Apply

\* Snapshots that tear, blocks on two transports, restarts: between its requests
\* the node has executed the blocks of its chain and no others, each once, but for
\* those on which the snapshot was torn, unless a thread appended unchecked.
THEOREM LedgerKeepsToTip == Spec => []LedgerMatchesTip
<1>1. Init => LInv
  <2> SUFFICES ASSUME Init PROVE LInv
    OBVIOUS
  <2>1. /\ blocks = <<0>> /\ done = [e \in Effect |-> 0] /\ loop.task = "idle" /\ snapPc = "none"
        /\ \A e \in Effect : snap.done[e] = 0
    BY DEF Init, Idle, NoSnap
  <2>2. Last(<<0>>) = 0 /\ <<0>> # <<>> /\ Len(<<0>>) = 1 /\ \A e \in Effect : e[1] \in Nat /\ e[1] > 0
    BY EffectOfBlock DEF Last
  <2> QED
    BY <2>1, <2>2 DEF LInv, HeldInARow, InNamed, Applying, LedgerMatchesTip, Agrees
<1>2. Init => TInv
  BY InitTInv
<1>3. LInv => LedgerMatchesTip
  BY DEF LInv
<1> QED
  BY <1>1, <1>2, <1>3, NextTInv, NextLInv, SnapshotAheadByOne, PTL DEF Spec
=============================================================================
