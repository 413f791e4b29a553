-------------------------- MODULE NodeThreadsProofs -------------------------
(***************************************************************************)
(* Proofs about the threads of a node, for any sets of blocks and any      *)
(* number of connection and API threads: the types, the facts that survive *)
(* the lack of a lock (Rooted, CountNeverAhead, ExecutedBeforeAdded), and  *)
(* that the votes of each connection thread climb.                         *)
(***************************************************************************)
EXTENDS NodeThreads, SequenceTheorems, TLAPS

Receiver == P2P \cup Api

USE DEF Block, Thread, Receiver, At, Goto, Finish, Begin, chain, world, outbox, receiving

LEMMA TypeInit == Init => TypeOK
BY DEF Init, TypeOK, Label

LEMMA TypeStep == TypeOK /\ [Next]_vars => TypeOK'
<1> SUFFICES ASSUME TypeOK, [Next]_vars PROVE TypeOK'
  OBVIOUS
<1> USE DEF TypeOK, Label
<1>0. Tip \in Block
  BY DEF Tip
<1>1. CASE UNCHANGED vars
  BY <1>1 DEF vars
<1>2. ASSUME NEW b \in PeerBlock, NEW p \in Block, PeerMakes(b, p) PROVE TypeOK'
  BY <1>2 DEF PeerMakes, Height
<1>3. ASSUME NEW b \in OwnBlock, StartProposal(b) PROVE TypeOK'
  BY <1>3 DEF StartProposal
<1>4. CASE ReadTip
  <2>1. header' \in [Block -> [parent : Block, count : Nat]]
    <3>1. header \in [Block -> [parent : Block, count : Nat]] /\ item[Slot] \in Block
      OBVIOUS
    <3>2. header' = [header EXCEPT ![item[Slot]].parent = Tip]
      BY <1>4 DEF ReadTip
    <3> HIDE DEF TypeOK
    <3> QED
      BY <1>0, <3>1, <3>2
  <2> QED
    BY <1>4, <2>1 DEF ReadTip
<1>5. CASE ExecuteOwn
  <2>1. Append(executed, item[Slot]) \in Seq(Block)
    BY AppendProperties
  <2> QED
    BY <1>5, <2>1 DEF ExecuteOwn
<1>6. CASE CreateOwn
  <2>1. Len(blocks) \in Nat
    OBVIOUS
  <2>2. header' \in [Block -> [parent : Block, count : Nat]]
    <3>1. header \in [Block -> [parent : Block, count : Nat]] /\ item[Slot] \in Block
      OBVIOUS
    <3>2. header' = [header EXCEPT ![item[Slot]].count = Len(blocks)]
      BY <1>6 DEF CreateOwn
    <3> HIDE DEF TypeOK
    <3> QED
      BY <2>1, <3>1, <3>2
  <2> QED
    BY <1>6, <2>2 DEF CreateOwn
<1>7. CASE AppendOwn
  <2>1. blocks \in Seq(Block) /\ item[Slot] \in Block
    OBVIOUS
  <2> HIDE DEF Block, TypeOK
  <2>2. Append(blocks, item[Slot]) \in Seq(Block) /\ Append(blocks, item[Slot]) # <<>>
    BY <2>1, AppendProperties
  <2> QED
    BY <1>7, <2>2 DEF AppendOwn, TypeOK
<1>10. CASE PostOwn \/ Abort \/ MarkOwn \/ CleanUpFails \/ Announce
  <2>1. pc[Slot] # "idle" => item[Slot] \in Block
    OBVIOUS
  <2> QED
    BY <1>10, <2>1 DEF PostOwn, Abort, MarkOwn, CleanUpFails, Announce
<1>11. ASSUME NEW t \in Receiver, CheckCount(t) \/ CheckHash(t) PROVE TypeOK'
  BY <1>11 DEF CheckCount, CheckHash
<1>12. ASSUME NEW t \in Receiver, ExecuteReceived(t) PROVE TypeOK'
  <2>1. Append(executed, item[t]) \in Seq(Block)
    BY AppendProperties
  <2> QED
    BY <1>12, <2>1 DEF ExecuteReceived
<1>13. ASSUME NEW t \in Receiver, AppendReceived(t) PROVE TypeOK'
  <2>1. blocks \in Seq(Block) /\ item[t] \in Block
    OBVIOUS
  <2> HIDE DEF Block, TypeOK
  <2>2. Append(blocks, item[t]) \in Seq(Block) /\ Append(blocks, item[t]) # <<>>
    BY <2>1, AppendProperties
  <2>3. /\ blocks' = Append(blocks, item[t]) /\ UNCHANGED <<receiving, executed>>
        /\ pc' = [pc EXCEPT ![t] = "idle"] /\ item' = [item EXCEPT ![t] = Genesis]
    BY <1>13 DEF AppendReceived
  <2>4. Genesis \in Block
    BY DEF Block
  <2>5. pc' \in [Thread -> Label] /\ item' \in [Thread -> Block]
    BY <2>3, <2>4 DEF TypeOK
  <2> QED
    BY <2>2, <2>3, <2>5 DEF TypeOK
<1>14. ASSUME NEW t \in Receiver, NEW b \in Block, ReceiveBlock(t, b) \/ ReceiveSync(t, b)
       PROVE TypeOK'
  <2>1. \E l \in {"mark", "check_count"} : Begin(t, b, l)
    BY <1>14 DEF ReceiveBlock, ReceiveSync
  <2>2. pc' \in [Thread -> Label] /\ item' \in [Thread -> Block]
    BY <1>14, <2>1
  <2>3. UNCHANGED <<world, chain, votes, seen, outbox, expected>>
    BY <1>14 DEF ReceiveBlock, ReceiveSync
  <2> HIDE DEF Block, Thread
  <2> QED
    BY <2>2, <2>3
<1>15. ASSUME NEW t \in Receiver, MarkSeen(t) \/ CheckLength(t) \/ FastCount(t) \/ FastHash(t) \/ RejectRoot(t) PROVE TypeOK'
  <2>1. CASE MarkSeen(t)
    <3>1. seen' \subseteq seen \cup {item[t]}
      BY <2>1 DEF MarkSeen, Kept
    <3> QED
      BY <2>1, <3>1 DEF MarkSeen
  <2>2. CASE CheckLength(t)
    BY <2>2 DEF CheckLength
  <2>3. CASE FastCount(t)
    BY <2>3 DEF FastCount
  <2>4. CASE FastHash(t)
    BY <2>4 DEF FastHash
  <2>5. CASE RejectRoot(t)
    BY <2>5 DEF RejectRoot
  <2> QED
    BY <1>15, <2>1, <2>2, <2>3, <2>4, <2>5
<1>16. ASSUME NEW t \in Receiver, Vote(t) PROVE TypeOK'
  <2>1. t \in P2P => Append(votes[t], item[t]) \in Seq(Block)
    BY AppendProperties
  <2>2. votes' \in [P2P -> Seq(Block)]
    BY <1>16, <2>1 DEF Vote
  <2> QED
    BY <1>16, <2>2 DEF Vote
<1> QED
  BY <1>1, <1>2, <1>3, <1>4, <1>5, <1>6, <1>7, <1>10, <1>11, <1>12, <1>13, <1>14, <1>15, <1>16
  DEF Next, SlotStep, P2PStep, ApiStep, AddStep

\* The state of a node and its threads has the declared types, for any number
\* of threads.
THEOREM TypeCorrect == Spec => []TypeOK
BY TypeInit, TypeStep, PTL DEF Spec

-----------------------------------------------------------------------------
(* Rooted and CountNeverAhead                                              *)

InChain(b) == \E j \in 1 .. Len(blocks) : blocks[j] = b

\* The own block gets its header before it exists; after that, and for every
\* other block from the start, the header is fixed.
Making == {"read_tip", "execute", "create"}

ItemsMade ==
  /\ Genesis \in made
  /\ \A i \in 1 .. Len(blocks) : blocks[i] \in made
  /\ posted \cup announced \subseteq made
  /\ \A t \in Receiver : item[t] \in made
  /\ pc[Slot] \in Making => item[Slot] \in OwnBlock \ made
  /\ pc[Slot] \notin Making => item[Slot] \in made

\* A block whose hash was checked, or that was built on the tip, has its parent
\* in the chain: the tip it was compared with stays there.
ParentKept ==
  /\ \A t \in Receiver :
       pc[t] \in {"re_execute", "execute", "append"} => InChain(header[item[t]].parent)
  /\ pc[Slot] \in {"execute", "create", "append"} => InChain(header[item[Slot]].parent)

\* A block whose number was checked, or that was numbered, is not ahead of the
\* chain, which only grows.
CountKept ==
  /\ \A t \in Receiver :
       pc[t] \in {"check_hash", "re_execute", "execute", "append"} => Height(item[t]) <= Len(blocks)
  /\ pc[Slot] = "append" => Height(item[Slot]) <= Len(blocks)

ThreadInv == TypeOK /\ ItemsMade /\ ParentKept /\ CountKept /\ Rooted /\ CountNeverAhead

LEMMA ThreadInit == Init => ThreadInv
<1> SUFFICES ASSUME Init PROVE ThreadInv
  OBVIOUS
<1>1. ItemsMade /\ ParentKept /\ CountKept
  BY ThreadsAssumption DEF Init, ItemsMade, ParentKept, CountKept, Making
<1>2. Rooted /\ CountNeverAhead
  BY DEF Init, Rooted, CountNeverAhead, Height
<1> QED
  BY <1>1, <1>2, TypeInit DEF ThreadInv

\* The actions that read the chain and do not write it, and those that write it.
LEMMA ChainGrows ==
  ASSUME TypeOK, [Next]_vars
  PROVE  \/ blocks' = blocks
         \/ \E t \in Receiver : AppendReceived(t)
         \/ AppendOwn
BY DEF Next, vars, SlotStep, P2PStep, ApiStep, AddStep, PeerMakes, StartProposal, ReadTip,
       ExecuteOwn, CreateOwn, PostOwn, Abort, MarkOwn, CleanUpFails, Announce, CheckCount, CheckHash,
       ExecuteReceived, ReceiveBlock, MarkSeen, CheckLength, FastCount, FastHash, RejectRoot, Vote, ReceiveSync

\* What is in the chain stays where it is.
LEMMA ChainKept ==
  ASSUME TypeOK, [Next]_vars
  PROVE  /\ Len(blocks') >= Len(blocks)
         /\ \A i \in 1 .. Len(blocks) : blocks'[i] = blocks[i]
         /\ \A b : InChain(b) => InChain(b)'
<1>1. blocks \in Seq(Block) /\ \A t \in Thread : item[t] \in Block
  BY DEF TypeOK
<1>2. \A t \in Thread : /\ Len(Append(blocks, item[t])) = Len(blocks) + 1
                        /\ \A i \in 1 .. Len(blocks) : Append(blocks, item[t])[i] = blocks[i]
  BY <1>1
<1>3. /\ Len(blocks') >= Len(blocks)
      /\ \A i \in 1 .. Len(blocks) : blocks'[i] = blocks[i]
  BY <1>1, <1>2, ChainGrows DEF AppendReceived, AppendOwn
<1>4. Len(blocks) \in Nat /\ Len(blocks') \in Nat
  BY <1>1, TypeStep DEF TypeOK
<1>5. \A b : InChain(b) => InChain(b)'
  BY <1>3, <1>4 DEF InChain
<1> QED
  BY <1>3, <1>5

\* The headers of the blocks that exist do not change.
LEMMA HeadersKept ==
  ASSUME TypeOK, ItemsMade, [Next]_vars
  PROVE  made \subseteq made' /\ \A b \in made : header'[b] = header[b]
<1>1. CASE UNCHANGED world
  BY <1>1
<1>2. ASSUME NEW b \in PeerBlock, NEW p \in Block, PeerMakes(b, p)
      PROVE  made \subseteq made' /\ \A c \in made : header'[c] = header[c]
  BY <1>2 DEF PeerMakes, TypeOK
<1>3. CASE ReadTip
  BY <1>3 DEF ReadTip, TypeOK, ItemsMade, Making
<1>4. CASE CreateOwn
  BY <1>4 DEF CreateOwn, TypeOK, ItemsMade, Making
<1> QED
  BY <1>1, <1>2, <1>3, <1>4
  DEF Next, vars, SlotStep, P2PStep, ApiStep, AddStep, StartProposal, AppendOwn,
      ExecuteOwn, PostOwn, Abort, MarkOwn, CleanUpFails, Announce, CheckCount, CheckHash, AppendReceived,
      ExecuteReceived, ReceiveBlock, MarkSeen, CheckLength, FastCount, FastHash, RejectRoot, Vote, ReceiveSync

LEMMA ItemsMadeStep == TypeOK /\ ItemsMade /\ [Next]_vars => ItemsMade'
<1> SUFFICES ASSUME TypeOK, ItemsMade, [Next]_vars PROVE ItemsMade'
  OBVIOUS
<1> USE DEF Making
<1>a. made \subseteq made'
  BY HeadersKept
<1>b. blocks \in Seq(Block) /\ \A t \in Thread : item[t] \in Block
  BY DEF TypeOK
<1>c. \A b \in made' : (\A i \in 1 .. Len(blocks) : blocks[i] \in made)
        => \A i \in 1 .. Len(Append(blocks, b)) : Append(blocks, b)[i] \in made'
  BY <1>a, <1>b
<1>1. CASE UNCHANGED vars
  BY <1>1 DEF vars, ItemsMade
<1>2. ASSUME NEW b \in PeerBlock, NEW p \in Block, PeerMakes(b, p) PROVE ItemsMade'
  BY <1>2, ThreadsAssumption DEF PeerMakes, ItemsMade
<1>3. ASSUME NEW b \in OwnBlock, StartProposal(b) PROVE ItemsMade'
  BY <1>3, ThreadsAssumption DEF StartProposal, ItemsMade, TypeOK
<1>4. CASE ReadTip \/ ExecuteOwn
  BY <1>4, ThreadsAssumption DEF ReadTip, ExecuteOwn, ItemsMade, TypeOK
<1>5. CASE CreateOwn
  BY <1>5, ThreadsAssumption DEF CreateOwn, ItemsMade, TypeOK
<1>6. CASE AppendOwn
  <2>1. item[Slot] \in made /\ made' = made
    BY <1>6 DEF AppendOwn, ItemsMade
  <2>2. \A i \in 1 .. Len(blocks') : blocks'[i] \in made'
    BY <1>6, <1>c, <2>1 DEF AppendOwn, ItemsMade
  <2> QED
    BY <1>6, <2>1, <2>2, ThreadsAssumption DEF AppendOwn, ItemsMade, TypeOK
<1>7. CASE PostOwn \/ Abort \/ MarkOwn \/ CleanUpFails \/ Announce
  <2>1. item[Slot] \in made /\ made' = made /\ blocks' = blocks
    BY <1>7 DEF PostOwn, Abort, MarkOwn, CleanUpFails, Announce, ItemsMade
  <2>2. posted' \cup announced' \subseteq made'
    BY <1>7, <2>1 DEF PostOwn, Abort, MarkOwn, CleanUpFails, Announce, ItemsMade
  <2>3. \A t \in Receiver : item'[t] = item[t]
    BY <1>7, ThreadsAssumption DEF PostOwn, Abort, MarkOwn, CleanUpFails, Announce, TypeOK
  <2>4. pc'[Slot] \notin Making /\ item'[Slot] \in {item[Slot], Genesis}
    BY <1>7 DEF PostOwn, Abort, MarkOwn, CleanUpFails, Announce, TypeOK
  <2> QED
    BY <2>1, <2>2, <2>3, <2>4 DEF ItemsMade
<1>8. ASSUME NEW t \in Receiver,
             \/ CheckCount(t) \/ CheckHash(t) \/ ExecuteReceived(t)
             \/ MarkSeen(t) \/ CheckLength(t) \/ FastCount(t) \/ FastHash(t) \/ RejectRoot(t) \/ Vote(t)
      PROVE  ItemsMade'
  <2>1. UNCHANGED <<made, blocks, posted, announced>>
    BY <1>8 DEF CheckCount, CheckHash, ExecuteReceived, MarkSeen, CheckLength, FastCount, FastHash, RejectRoot, Vote
  <2>2. \A u \in Receiver : item'[u] \in {item[u], Genesis}
    BY <1>8 DEF CheckCount, CheckHash, ExecuteReceived, MarkSeen, CheckLength, FastCount, FastHash, RejectRoot, Vote, TypeOK
  <2>3. pc'[Slot] = pc[Slot] /\ item'[Slot] = item[Slot]
    BY <1>8, ThreadsAssumption
    DEF CheckCount, CheckHash, ExecuteReceived, MarkSeen, CheckLength, FastCount, FastHash, RejectRoot, Vote, TypeOK
  <2> QED
    BY <2>1, <2>2, <2>3 DEF ItemsMade
<1>9. ASSUME NEW t \in Receiver, AppendReceived(t) PROVE ItemsMade'
  <2>1. item[t] \in made /\ made' = made
    BY <1>9 DEF AppendReceived, ItemsMade
  <2>2. \A i \in 1 .. Len(blocks') : blocks'[i] \in made'
    BY <1>9, <1>c, <2>1 DEF AppendReceived, ItemsMade
  <2> QED
    BY <1>9, <2>1, <2>2, ThreadsAssumption DEF AppendReceived, ItemsMade, TypeOK
<1>10. ASSUME NEW t \in Receiver, NEW b \in Block, ReceiveBlock(t, b) \/ ReceiveSync(t, b)
       PROVE  ItemsMade'
  <2>1. b \in made
    BY <1>10 DEF ReceiveBlock, ReceiveSync, OverP2P, OverHttp, ItemsMade
  <2>2. /\ UNCHANGED <<made, blocks, posted, announced>>
        /\ item' = [item EXCEPT ![t] = b] /\ pc'[Slot] = pc[Slot]
    BY <1>10, ThreadsAssumption DEF ReceiveBlock, ReceiveSync, TypeOK
  <2>3. item'[Slot] = item[Slot] /\ \A u \in Receiver : item'[u] \in {item[u], b}
    BY <2>2, ThreadsAssumption DEF TypeOK
  <2> QED
    BY <2>1, <2>2, <2>3 DEF ItemsMade
<1> QED
  BY <1>1, <1>2, <1>3, <1>4, <1>5, <1>6, <1>7, <1>8, <1>9, <1>10
  DEF Next, SlotStep, P2PStep, ApiStep, AddStep

\* What a receiver's step does to it: it keeps its block, or drops it.
LEMMA ReceiverStep ==
  ASSUME TypeOK, [Next]_vars, NEW t \in Receiver
  PROVE  \/ item'[t] = item[t] /\ pc'[t] = pc[t]
         \/ pc'[t] \in {"idle", "mark", "length", "fast_count", "fast_hash", "check_count"}
         \/ CheckCount(t) /\ CountValid(item[t]) /\ pc'[t] = "check_hash" /\ item'[t] = item[t]
         \/ CheckHash(t) /\ HashValid(item[t]) /\ item'[t] = item[t]
         \/ pc[t] = "re_execute" /\ pc'[t] = "execute" /\ item'[t] = item[t]
         \/ pc[t] = "execute" /\ pc'[t] = "append" /\ item'[t] = item[t]
<1> USE DEF TypeOK
<1>1. CASE UNCHANGED <<pc, item>>
  BY <1>1
<1>2. CASE SlotStep
  BY <1>2, ThreadsAssumption
  DEF SlotStep, StartProposal, ReadTip, ExecuteOwn, CreateOwn, AppendOwn, PostOwn, Abort,
      MarkOwn, CleanUpFails, Announce
<1>3. ASSUME NEW u \in Receiver, AddStep(u)
      PROVE  \/ item'[t] = item[t] /\ pc'[t] = pc[t]
             \/ pc'[t] = "idle"
             \/ CheckCount(t) /\ CountValid(item[t]) /\ pc'[t] = "check_hash" /\ item'[t] = item[t]
             \/ CheckHash(t) /\ HashValid(item[t]) /\ item'[t] = item[t]
             \/ pc[t] = "execute" /\ pc'[t] = "append" /\ item'[t] = item[t]
  BY <1>3 DEF AddStep, CheckCount, CheckHash, ExecuteReceived, AppendReceived
<1>4. ASSUME NEW u \in Receiver, P2PStep(u) \/ ApiStep(u)
      PROVE  \/ item'[t] = item[t] /\ pc'[t] = pc[t]
             \/ pc'[t] \in {"idle", "mark", "length", "fast_count", "fast_hash", "check_count"}
             \/ pc[t] = "re_execute" /\ pc'[t] = "execute" /\ item'[t] = item[t]
  BY <1>4 DEF P2PStep, ApiStep, ReceiveBlock, MarkSeen, CheckLength, FastCount, FastHash, RejectRoot, Vote, ReceiveSync
<1> QED
  BY <1>1, <1>2, <1>3, <1>4 DEF Next, vars, PeerMakes

\* What a step of the slot thread, or of another thread, does to its proposal.
LEMMA SlotThreadStep ==
  ASSUME TypeOK, ItemsMade, [Next]_vars
  PROVE  \/ /\ item'[Slot] = item[Slot] /\ pc'[Slot] = pc[Slot]
            /\ header'[item[Slot]] = header[item[Slot]]
         \/ pc'[Slot] \in {"idle", "read_tip", "post", "race_check", "announce"}
         \/ ReadTip /\ pc'[Slot] = "execute" /\ item'[Slot] = item[Slot]
         \/ ExecuteOwn /\ pc'[Slot] = "create" /\ item'[Slot] = item[Slot]
         \/ CreateOwn /\ pc'[Slot] = "append" /\ item'[Slot] = item[Slot]
<1> USE DEF TypeOK
<1>1. CASE UNCHANGED vars
  BY <1>1 DEF vars
<1>2. CASE SlotStep
  BY <1>2
  DEF SlotStep, StartProposal, ReadTip, ExecuteOwn, CreateOwn, AppendOwn, PostOwn, Abort,
      MarkOwn, CleanUpFails, Announce
<1>3. ASSUME NEW b \in PeerBlock, NEW p \in Block, PeerMakes(b, p)
      PROVE  /\ item'[Slot] = item[Slot] /\ pc'[Slot] = pc[Slot]
             /\ header'[item[Slot]] = header[item[Slot]]
  <2>1. item[Slot] # b
    BY <1>3, ThreadsAssumption DEF PeerMakes, ItemsMade, Making
  <2> QED
    BY <1>3, <2>1 DEF PeerMakes
<1>4. ASSUME NEW u \in Receiver, AddStep(u) \/ P2PStep(u) \/ ApiStep(u)
      PROVE  /\ item'[Slot] = item[Slot] /\ pc'[Slot] = pc[Slot]
             /\ header'[item[Slot]] = header[item[Slot]]
  <2>1. u # Slot
    BY ThreadsAssumption
  <2> QED
    BY <1>4, <2>1 DEF AddStep, P2PStep, ApiStep, CheckCount, CheckHash, ExecuteReceived,
      AppendReceived, ReceiveBlock, MarkSeen, CheckLength, FastCount, FastHash, RejectRoot, Vote, ReceiveSync
<1> QED
  BY <1>1, <1>2, <1>3, <1>4 DEF Next

LEMMA TipInChain == TypeOK => InChain(Tip) /\ Len(blocks) \in Nat \ {0}
BY DEF TypeOK, InChain, Tip

LEMMA ParentStep ==
  TypeOK /\ ItemsMade /\ ParentKept /\ [Next]_vars => ParentKept'
<1> SUFFICES ASSUME TypeOK, ItemsMade, ParentKept, [Next]_vars PROVE ParentKept'
  OBVIOUS
<1>1. ASSUME NEW t \in Receiver, pc'[t] \in {"re_execute", "execute", "append"}
      PROVE  InChain(header[item[t]].parent)'
  <2>1. item'[t] = item[t] /\ InChain(header[item[t]].parent)
    BY <1>1, ReceiverStep, TipInChain DEF ParentKept, HashValid, CheckHash
  <2>2. header'[item[t]] = header[item[t]]
    BY HeadersKept DEF ItemsMade
  <2> QED
    BY <2>1, <2>2, ChainKept
<1>2. ASSUME pc'[Slot] \in {"execute", "create", "append"}
      PROVE  InChain(header[item[Slot]].parent)'
  <2>1. CASE ReadTip /\ item'[Slot] = item[Slot]
    <3>1. header'[item[Slot]].parent = Tip
      BY <2>1 DEF ReadTip, TypeOK
    <3> QED
      BY <2>1, <3>1, TipInChain, ChainKept
  <2>2. CASE (ExecuteOwn \/ CreateOwn) /\ item'[Slot] = item[Slot]
    <3>1. header'[item[Slot]].parent = header[item[Slot]].parent
      BY <2>2 DEF ExecuteOwn, CreateOwn, TypeOK
    <3>2. InChain(header[item[Slot]].parent)
      BY <2>2 DEF ExecuteOwn, CreateOwn, ParentKept
    <3> QED
      BY <2>2, <3>1, <3>2, ChainKept
  <2>3. CASE /\ item'[Slot] = item[Slot] /\ pc'[Slot] = pc[Slot]
             /\ header'[item[Slot]] = header[item[Slot]]
    <3>1. InChain(header[item[Slot]].parent)
      BY <1>2, <2>3 DEF ParentKept
    <3> QED
      BY <2>3, <3>1, ChainKept
  <2> QED
    BY <1>2, <2>1, <2>2, <2>3, SlotThreadStep
<1> QED
  BY <1>1, <1>2 DEF ParentKept

LEMMA CountStep ==
  TypeOK /\ ItemsMade /\ CountKept /\ CountNeverAhead /\ [Next]_vars => CountKept'
<1> SUFFICES ASSUME TypeOK, ItemsMade, CountKept, CountNeverAhead, [Next]_vars PROVE CountKept'
  OBVIOUS
<1>0. /\ Len(blocks) \in Nat \ {0} /\ Len(blocks') \in Nat
      /\ Len(blocks') >= Len(blocks)
      /\ \A b \in Block : Height(b) \in Nat
  <2>1. Len(blocks) \in Nat \ {0}
    BY TipInChain DEF TypeOK
  <2>2. Len(blocks') \in Nat
    BY TypeStep DEF TypeOK
  <2>3. Len(blocks') >= Len(blocks)
    BY ChainKept
  <2>4. \A b \in Block : Height(b) \in Nat
    BY DEF TypeOK, Height
  <2> QED
    BY <2>1, <2>2, <2>3, <2>4
<1>1. Height(Tip) + 1 <= Len(blocks)
  <2> DEFINE n == Len(blocks)
  <2>1. n \in Nat \ {0} /\ n \in 1 .. n
    BY <1>0
  <2>2. Height(blocks[n]) <= n - 1
    BY <2>1 DEF CountNeverAhead
  <2>3. Height(blocks[n]) \in Nat
    BY <1>0, <2>1 DEF TypeOK
  <2> HIDE DEF n
  <2>4. Height(blocks[n]) + 1 <= n
    BY <2>1, <2>2, <2>3
  <2> QED
    BY <2>4 DEF n, Tip
<1>2. ASSUME NEW t \in Receiver,
             pc'[t] \in {"check_hash", "re_execute", "execute", "append"}
      PROVE  Height(item[t])' <= Len(blocks')
  <2>1. item'[t] = item[t] /\ Height(item[t]) <= Len(blocks)
    BY <1>0, <1>1, <1>2, ReceiverStep DEF CountKept, CountValid, CheckHash, TypeOK
  <2>2. header'[item[t]] = header[item[t]] /\ Height(item[t]) \in Nat
    BY <1>0, HeadersKept DEF ItemsMade, Height, TypeOK
  <2> QED
    BY <1>0, <2>1, <2>2 DEF Height
<1>3. ASSUME pc'[Slot] = "append"
      PROVE  Height(item[Slot])' <= Len(blocks')
  <2>1. CASE CreateOwn /\ item'[Slot] = item[Slot]
    BY <1>0, <2>1 DEF CreateOwn, Height, TypeOK
  <2>2. CASE /\ item'[Slot] = item[Slot] /\ pc'[Slot] = pc[Slot]
             /\ header'[item[Slot]] = header[item[Slot]]
    BY <1>0, <1>3, <2>2 DEF CountKept, Height, TypeOK
  <2> QED
    BY <1>3, <2>1, <2>2, SlotThreadStep
<1> QED
  BY <1>2, <1>3 DEF CountKept

LEMMA RootedStep ==
  TypeOK /\ ItemsMade /\ ParentKept /\ Rooted /\ [Next]_vars => Rooted'
<1> SUFFICES ASSUME TypeOK, ItemsMade, ParentKept, Rooted, [Next]_vars PROVE Rooted'
  OBVIOUS
<1>1. blocks \in Seq(Block) /\ Len(blocks) \in Nat \ {0}
  BY TipInChain DEF TypeOK
<1>2. \A i \in 1 .. Len(blocks) : header'[blocks[i]] = header[blocks[i]]
  BY HeadersKept DEF ItemsMade
<1>3. CASE blocks' = blocks
  BY <1>1, <1>2, <1>3 DEF Rooted
<1>4. ASSUME NEW x \in Block, blocks' = Append(blocks, x), header'[x] = header[x],
             InChain(header[x].parent)
      PROVE  Rooted'
  <2>1. Len(blocks') = Len(blocks) + 1 /\ blocks'[Len(blocks) + 1] = x
    BY <1>1, <1>4
  <2>2. \A i \in 1 .. Len(blocks) : blocks'[i] = blocks[i]
    BY <1>1, <1>4
  <2>3. \E j \in 1 .. Len(blocks) : blocks'[j] = header'[x].parent
    BY <1>4, <2>2 DEF InChain
  <2>4. \A i \in 2 .. Len(blocks) : \E j \in 1 .. i - 1 : blocks'[j] = header'[blocks'[i]].parent
    <3> TAKE i \in 2 .. Len(blocks)
    <3>1. PICK j \in 1 .. i - 1 : blocks[j] = header[blocks[i]].parent
      BY DEF Rooted
    <3>2. i \in 1 .. Len(blocks) /\ j \in 1 .. Len(blocks)
      BY <1>1
    <3> QED
      BY <1>2, <2>2, <3>1, <3>2
  <2>5. \A i \in 2 .. Len(blocks') : i \in 2 .. Len(blocks) \/ i = Len(blocks) + 1
    BY <1>1, <2>1
  <2>6. 1 .. Len(blocks) = 1 .. (Len(blocks) + 1) - 1
    BY <1>1
  <2> QED
    BY <2>1, <2>3, <2>4, <2>5, <2>6 DEF Rooted
<1>5. ASSUME NEW t \in Receiver, AppendReceived(t) PROVE Rooted'
  <2>1. header' = header /\ blocks' = Append(blocks, item[t])
    BY <1>5 DEF AppendReceived
  <2>2. InChain(header[item[t]].parent) /\ item[t] \in Block
    BY <1>5 DEF AppendReceived, ParentKept, TypeOK
  <2> QED
    BY <1>4, <2>1, <2>2
<1>6. CASE AppendOwn
  <2>1. header' = header /\ blocks' = Append(blocks, item[Slot])
    BY <1>6 DEF AppendOwn
  <2>2. InChain(header[item[Slot]].parent) /\ item[Slot] \in Block
    BY <1>6 DEF AppendOwn, ParentKept, TypeOK
  <2> QED
    BY <1>4, <2>1, <2>2
<1> QED
  BY <1>3, <1>5, <1>6, ChainGrows

LEMMA CountNeverAheadStep ==
  TypeOK /\ ItemsMade /\ CountKept /\ CountNeverAhead /\ [Next]_vars => CountNeverAhead'
<1> SUFFICES ASSUME TypeOK, ItemsMade, CountKept, CountNeverAhead, [Next]_vars
             PROVE  CountNeverAhead'
  OBVIOUS
<1>1. blocks \in Seq(Block) /\ Len(blocks) \in Nat \ {0}
  BY TipInChain DEF TypeOK
<1>2. \A i \in 1 .. Len(blocks) : header'[blocks[i]] = header[blocks[i]]
  BY HeadersKept DEF ItemsMade
<1>3. CASE blocks' = blocks
  BY <1>1, <1>2, <1>3 DEF CountNeverAhead, Height
<1>4. ASSUME NEW x \in Block, blocks' = Append(blocks, x), header' = header,
             Height(x) <= Len(blocks)
      PROVE  CountNeverAhead'
  <2>1. Len(blocks') = Len(blocks) + 1 /\ blocks'[Len(blocks) + 1] = x
    BY <1>1, <1>4
  <2>2. \A i \in 1 .. Len(blocks) : blocks'[i] = blocks[i]
    BY <1>1, <1>4
  <2>3. \A i \in 1 .. Len(blocks') : i \in 1 .. Len(blocks) \/ i = Len(blocks) + 1
    BY <1>1, <2>1
  <2> SUFFICES ASSUME NEW i \in 1 .. Len(blocks') PROVE Height(blocks[i])' <= i - 1
    BY DEF CountNeverAhead
  <2>4. CASE i \in 1 .. Len(blocks)
    BY <1>4, <2>2, <2>4 DEF CountNeverAhead, Height
  <2>5. CASE i = Len(blocks) + 1
    BY <1>1, <1>4, <2>1, <2>5 DEF Height
  <2> QED
    BY <2>3, <2>4, <2>5
<1>5. ASSUME NEW t \in Receiver, AppendReceived(t) PROVE CountNeverAhead'
  <2>1. header' = header /\ blocks' = Append(blocks, item[t])
    BY <1>5 DEF AppendReceived
  <2>2. Height(item[t]) <= Len(blocks) /\ item[t] \in Block
    BY <1>5 DEF AppendReceived, CountKept, TypeOK
  <2> QED
    BY <1>4, <2>1, <2>2
<1>6. CASE AppendOwn
  <2>1. header' = header /\ blocks' = Append(blocks, item[Slot])
    BY <1>6 DEF AppendOwn
  <2>2. Height(item[Slot]) <= Len(blocks) /\ item[Slot] \in Block
    BY <1>6 DEF AppendOwn, CountKept, TypeOK
  <2> QED
    BY <1>4, <2>1, <2>2
<1> QED
  BY <1>3, <1>5, <1>6, ChainGrows

LEMMA ThreadStep == ThreadInv /\ [Next]_vars => ThreadInv'
BY TypeStep, ItemsMadeStep, ParentStep, CountStep, RootedStep, CountNeverAheadStep DEF ThreadInv

\* However many threads race, every block of the chain comes after the block
\* it was built on: the unlocked check-then-append of create_block and
\* add_block can interleave blocks of several branches, but not lose a parent.
THEOREM ChainIsRooted == Spec => []Rooted
<1>1. ThreadInv => Rooted
  BY DEF ThreadInv
<1> QED
  BY <1>1, ThreadInit, ThreadStep, PTL DEF Spec

\* However many threads race, the number of a block never exceeds its position.
THEOREM NumbersStayBehind == Spec => []CountNeverAhead
<1>1. ThreadInv => CountNeverAhead
  BY DEF ThreadInv
<1> QED
  BY <1>1, ThreadInit, ThreadStep, PTL DEF Spec

-----------------------------------------------------------------------------
(* ExecutedBeforeAdded                                                     *)

WasExecuted(b) == \E j \in 1 .. Len(executed) : executed[j] = b

\* A thread that is past the executor has had its block executed.
ExecutedItems == \A t \in Thread : pc[t] \in {"create", "append"} => WasExecuted(item[t])

ExecutedInv == ExecutedItems /\ ExecutedBeforeAdded

LEMMA ExecutedGrows ==
  ASSUME TypeOK, NEW b \in Block, executed' = Append(executed, b)
  PROVE  /\ \A c \in Block : WasExecuted(c) => WasExecuted(c)'
         /\ WasExecuted(b)'
<1>1. /\ executed \in Seq(Block) /\ Len(executed) \in Nat
      /\ Len(executed') = Len(executed) + 1 /\ executed'[Len(executed) + 1] = b
      /\ \A j \in 1 .. Len(executed) : executed'[j] = executed[j]
  BY DEF TypeOK
<1>2. ASSUME NEW c \in Block, WasExecuted(c)
      PROVE  WasExecuted(c)'
  <2>1. PICK j \in 1 .. Len(executed) : executed[j] = c
    BY <1>2 DEF WasExecuted
  <2>2. j \in 1 .. Len(executed') /\ executed'[j] = c
    BY <1>1, <2>1
  <2> QED
    BY <2>2 DEF WasExecuted
<1>3. Len(executed) + 1 \in 1 .. Len(executed')
  BY <1>1
<1> QED
  BY <1>1, <1>2, <1>3 DEF WasExecuted

\* A step that executes and appends nothing, and brings no thread past the executor.
LEMMA ExecutedStays ==
  ASSUME ExecutedInv, UNCHANGED chain,
         \A t \in Thread : pc'[t] \in {"create", "append"} =>
           pc[t] \in {"create", "append"} /\ item'[t] = item[t]
  PROVE  ExecutedInv'
BY DEF ExecutedInv, ExecutedItems, ExecutedBeforeAdded, WasExecuted

\* A step of the executor for thread t.
LEMMA ExecutedByOne ==
  ASSUME TypeOK, ExecutedInv, NEW t \in Thread, executed' = Append(executed, item[t]),
         UNCHANGED <<blocks, item>>, \A u \in Thread \ {t} : pc'[u] = pc[u]
  PROVE  ExecutedInv'
<1>1. item[t] \in Block /\ \A u \in Thread : item[u] \in Block
  BY DEF TypeOK
<1>2. /\ \A c \in Block : WasExecuted(c) => WasExecuted(c)'
      /\ WasExecuted(item[t])'
  BY <1>1, ExecutedGrows
<1>3. ExecutedItems'
  BY <1>1, <1>2 DEF ExecutedInv, ExecutedItems, WasExecuted
<1>4. ExecutedBeforeAdded'
  <2> SUFFICES ASSUME NEW i \in 2 .. Len(blocks)
               PROVE  WasExecuted(blocks[i])'
    BY DEF ExecutedBeforeAdded, WasExecuted
  <2>1. blocks[i] \in Block
    BY DEF TypeOK
  <2>2. WasExecuted(blocks[i])
    BY DEF ExecutedInv, ExecutedBeforeAdded, WasExecuted
  <2> QED
    BY <1>2, <2>1, <2>2 DEF WasExecuted
<1> QED
  BY <1>3, <1>4 DEF ExecutedInv

\* Thread t appends its block.
LEMMA AppendedByOne ==
  ASSUME TypeOK, ExecutedInv, NEW t \in Thread, pc[t] = "append",
         blocks' = Append(blocks, item[t]), executed' = executed,
         pc'[t] \notin {"create", "append"},
         \A u \in Thread \ {t} : pc'[u] = pc[u] /\ item'[u] = item[u]
  PROVE  ExecutedInv'
<1>1. ExecutedItems'
  BY DEF ExecutedInv, ExecutedItems, WasExecuted
<1>2. /\ blocks \in Seq(Block) /\ Len(blocks) \in Nat
      /\ Len(blocks') = Len(blocks) + 1 /\ blocks'[Len(blocks) + 1] = item[t]
      /\ \A i \in 1 .. Len(blocks) : blocks'[i] = blocks[i]
  BY DEF TypeOK
<1>3. ExecutedBeforeAdded'
  <2> SUFFICES ASSUME NEW i \in 2 .. Len(blocks')
               PROVE  \E j \in 1 .. Len(executed) : executed[j] = blocks'[i]
    BY DEF ExecutedBeforeAdded
  <2>1. CASE i = Len(blocks) + 1
    BY <1>2, <2>1 DEF ExecutedInv, ExecutedItems, WasExecuted
  <2>2. CASE i # Len(blocks) + 1
    <3>1. i \in 2 .. Len(blocks) /\ i \in 1 .. Len(blocks)
      BY <1>2, <2>2
    <3> QED
      BY <1>2, <3>1 DEF ExecutedInv, ExecutedBeforeAdded
  <2> QED
    BY <2>1, <2>2
<1> QED
  BY <1>1, <1>3 DEF ExecutedInv

\* However many threads race, the transactions of a block in the chain have gone
\* to the accounts: between a thread's executor and its append others may execute
\* and append, but nothing is appended unexecuted.
THEOREM NoneUnexecuted == Spec => []ExecutedBeforeAdded
<1>1. Init => ExecutedInv
  BY DEF Init, ExecutedInv, ExecutedItems, ExecutedBeforeAdded
<1>2. ASSUME TypeOK, ExecutedInv, [Next]_vars
      PROVE  ExecutedInv'
  <2> USE <1>2
  <2>1. CASE ExecuteOwn
    <3>1. executed' = Append(executed, item[Slot]) /\ UNCHANGED <<blocks, item>>
          /\ \A u \in Thread \ {Slot} : pc'[u] = pc[u]
      BY <2>1 DEF ExecuteOwn, TypeOK
    <3> QED
      BY <3>1, ExecutedByOne
  <2>2. CASE AppendOwn
    <3>1. /\ pc[Slot] = "append" /\ blocks' = Append(blocks, item[Slot]) /\ executed' = executed
          /\ pc'[Slot] \notin {"create", "append"}
          /\ \A u \in Thread \ {Slot} : pc'[u] = pc[u] /\ item'[u] = item[u]
      BY <2>2 DEF AppendOwn, TypeOK
    <3> QED
      BY <3>1, AppendedByOne
  <2>3. ASSUME NEW t \in Receiver, ExecuteReceived(t)
        PROVE  ExecutedInv'
    <3>1. t \in Thread /\ executed' = Append(executed, item[t]) /\ UNCHANGED <<blocks, item>>
          /\ \A u \in Thread \ {t} : pc'[u] = pc[u]
      BY <2>3 DEF ExecuteReceived, TypeOK
    <3> QED
      BY <3>1, ExecutedByOne
  <2>4. ASSUME NEW t \in Receiver, AppendReceived(t)
        PROVE  ExecutedInv'
    <3>1. /\ t \in Thread /\ pc[t] = "append"
          /\ blocks' = Append(blocks, item[t]) /\ executed' = executed
          /\ pc'[t] \notin {"create", "append"}
          /\ \A u \in Thread \ {t} : pc'[u] = pc[u] /\ item'[u] = item[u]
      BY <2>4 DEF AppendReceived, TypeOK
    <3> QED
      BY <3>1, AppendedByOne
  <2>5. CASE CreateOwn
    <3>1. UNCHANGED <<chain, item>> /\ pc[Slot] = "create" /\ \A u \in Thread \ {Slot} : pc'[u] = pc[u]
      BY <2>5 DEF CreateOwn, TypeOK
    <3> QED
      BY <3>1, ExecutedStays
  <2>6. CASE UNCHANGED vars
    BY <2>6, ExecutedStays DEF vars
  <2>7. ASSUME NEW b \in PeerBlock, NEW p \in Block, PeerMakes(b, p)
        PROVE  ExecutedInv'
    BY <2>7, ExecutedStays DEF PeerMakes
  <2>8. CASE \/ \E b \in OwnBlock : StartProposal(b)
             \/ ReadTip \/ PostOwn \/ Abort \/ MarkOwn \/ CleanUpFails \/ Announce
    <3>1. /\ UNCHANGED chain
          /\ pc'[Slot] \notin {"create", "append"}
          /\ \A u \in Thread \ {Slot} : pc'[u] = pc[u] /\ item'[u] = item[u]
      BY <2>8 DEF StartProposal, ReadTip, PostOwn, Abort, MarkOwn, CleanUpFails, Announce, TypeOK
    <3> QED
      BY <3>1, ExecutedStays
  <2>9. ASSUME NEW t \in Receiver,
               \/ CheckCount(t) \/ CheckHash(t) \/ MarkSeen(t) \/ CheckLength(t) \/ FastCount(t) \/ FastHash(t) \/ RejectRoot(t) \/ Vote(t)
               \/ \E b \in Block : ReceiveBlock(t, b) \/ ReceiveSync(t, b)
        PROVE  ExecutedInv'
    <3>1. /\ UNCHANGED chain /\ t \in Thread
          /\ pc'[t] \notin {"create", "append"}
          /\ \A u \in Thread \ {t} : pc'[u] = pc[u] /\ item'[u] = item[u]
      BY <2>9 DEF CheckCount, CheckHash, MarkSeen, CheckLength, FastCount, FastHash, RejectRoot, Vote, ReceiveBlock, ReceiveSync, TypeOK
    <3> QED
      BY <3>1, ExecutedStays
  <2> QED
    BY <2>1, <2>2, <2>3, <2>4, <2>5, <2>6, <2>7, <2>8, <2>9 DEF Next, SlotStep, P2PStep, ApiStep, AddStep
<1>3. ExecutedInv => ExecutedBeforeAdded
  BY DEF ExecutedInv
<1> QED
  BY <1>1, <1>2, <1>3, TypeCorrect, PTL DEF Spec

-----------------------------------------------------------------------------
(* Votes of a connection thread                                            *)

Checked == {"fast_count", "fast_hash", "check_count", "check_hash", "re_execute"}
Adding == {"execute", "append"}

Climbing(t) ==
  \A i, j \in 1 .. Len(votes[t]) : i < j => Height(votes[t][i]) < Height(votes[t][j])

\* The height of a block the thread voted for is below len(blocks), unless it is
\* still adding it; a block that passed the length test is above them all,
\* because its height was compared with len(blocks) and not with the tip's.
VotedBelow(t) ==
  /\ \A i \in 1 .. Len(votes[t]) : votes[t][i] \in made
  /\ pc[t] \in Checked => \A i \in 1 .. Len(votes[t]) : Height(votes[t][i]) < Height(item[t])
  /\ \A i \in 1 .. Len(votes[t]) :
       \/ Height(votes[t][i]) < Len(blocks)
       \/ pc[t] \in Adding /\ item[t] = votes[t][i]

VoteInv == ThreadInv /\ \A t \in P2P : VotedBelow(t) /\ Climbing(t)

LEMMA VoteInit == Init => VoteInv
BY ThreadInit DEF Init, VoteInv, VotedBelow, Climbing

\* The steps that leave the thread alone.
LEMMA VoteOthers ==
  ASSUME VoteInv, [Next]_vars, NEW t \in P2P,
         votes'[t] = votes[t], pc'[t] = pc[t], item'[t] = item[t]
  PROVE  VotedBelow(t)' /\ Climbing(t)'
<1> USE DEF VoteInv, ThreadInv
<1>1. /\ \A i \in 1 .. Len(votes[t]) :
           votes[t][i] \in made' /\ Height(votes[t][i])' = Height(votes[t][i])
      /\ Height(item[t])' = Height(item[t])
  BY HeadersKept DEF VotedBelow, ItemsMade, Height
<1>2. /\ Len(blocks) \in Nat /\ Len(blocks') \in Nat /\ Len(blocks') >= Len(blocks)
      /\ \A i \in 1 .. Len(votes[t]) : Height(votes[t][i]) \in Nat
  BY ChainKept, TypeStep DEF TypeOK, Height
<1>3. Climbing(t)'
  BY <1>1 DEF Climbing
<1>4. /\ \A i \in 1 .. Len(votes[t]) : votes[t][i] \in made'
      /\ pc'[t] \in Checked =>
           \A i \in 1 .. Len(votes[t]) : Height(votes[t][i])' < Height(item[t])'
  BY <1>1 DEF VotedBelow
<1>5. \A i \in 1 .. Len(votes[t]) :
        \/ Height(votes[t][i])' < Len(blocks')
        \/ pc'[t] \in Adding /\ item'[t] = votes[t][i]
  BY <1>1, <1>2 DEF VotedBelow
<1>6. UNCHANGED <<votes[t], pc[t], item[t]>>
  OBVIOUS
<1>7. VotedBelow(t)'
  <2>1. /\ \A i \in 1 .. Len(votes'[t]) : votes'[t][i] \in made'
        /\ pc'[t] \in Checked =>
             \A i \in 1 .. Len(votes'[t]) : Height(votes[t][i])' < Height(item[t])'
    BY <1>4, <1>6
  <2>2. \A i \in 1 .. Len(votes'[t]) :
          \/ Height(votes[t][i])' < Len(blocks')
          \/ pc'[t] \in Adding /\ item'[t] = votes'[t][i]
    BY <1>5, <1>6
  <2> QED
    BY <2>1, <2>2 DEF VotedBelow
<1> QED
  BY <1>3, <1>7

\* The steps of the thread itself.
LEMMA VoterStep ==
  ASSUME VoteInv, NEW t \in P2P, [Next]_vars, P2PStep(t) \/ AddStep(t)
  PROVE  VotedBelow(t)' /\ Climbing(t)'
<1> USE DEF VoteInv, ThreadInv
<1>0. t \in Thread
  OBVIOUS
<1>1. /\ votes \in [P2P -> Seq(Block)] /\ votes[t] \in Seq(Block)
      /\ Len(votes[t]) \in Nat /\ Len(blocks) \in Nat
      /\ \A b \in Block : Height(b) \in Nat
      /\ \A i \in 1 .. Len(votes[t]) : votes[t][i] \in Block
      /\ item[t] \in Block /\ item[t] \in made
  BY <1>0 DEF TypeOK, Height, ItemsMade
<1>2. CASE \/ \E b \in Block : ReceiveBlock(t, b)
           \/ MarkSeen(t) \/ RejectRoot(t)
  <2>1. /\ votes' = votes /\ header' = header /\ blocks' = blocks /\ made' = made
        /\ pc'[t] \notin Checked \cup Adding /\ pc[t] \notin Adding
    BY <1>0, <1>2 DEF ReceiveBlock, MarkSeen, RejectRoot, TypeOK, Checked, Adding
  <2> QED
    BY <1>0, <1>1, <2>1 DEF VotedBelow, Climbing, Height
<1>3. CASE CheckLength(t)
  <2>1. /\ votes' = votes /\ header' = header /\ blocks' = blocks /\ made' = made
        /\ pc[t] \notin Adding /\ pc'[t] \notin Adding
        /\ pc'[t] \in Checked => item'[t] = item[t] /\ Height(item[t]) >= Len(blocks)
    BY <1>0, <1>3 DEF CheckLength, TypeOK, Checked, Adding
  <2>2. \A i \in 1 .. Len(votes[t]) : Height(votes[t][i]) < Len(blocks)
    BY <1>0, <2>1 DEF VotedBelow
  <2>3. pc'[t] \in Checked =>
          \A i \in 1 .. Len(votes[t]) : Height(votes[t][i]) < Height(item[t])
    BY <1>1, <2>1, <2>2
  <2> QED
    BY <1>0, <1>1, <2>1, <2>2, <2>3 DEF VotedBelow, Climbing, Height
<1>4. CASE FastCount(t) \/ FastHash(t) \/ CheckCount(t) \/ CheckHash(t)
  <2>1. /\ votes' = votes /\ header' = header /\ blocks' = blocks /\ made' = made
        /\ pc[t] \in Checked /\ pc'[t] \notin Adding
        /\ pc'[t] \in Checked => item'[t] = item[t]
    BY <1>0, <1>4, ThreadsAssumption
    DEF FastCount, FastHash, CheckCount, CheckHash, TypeOK, Checked, Adding
  <2> QED
    BY <1>0, <1>1, <2>1 DEF VotedBelow, Climbing, Height, Checked, Adding
<1>5. CASE Vote(t)
  <2>1. /\ header' = header /\ blocks' = blocks /\ made' = made
        /\ votes'[t] = Append(votes[t], item[t]) /\ pc[t] = "re_execute"
        /\ pc'[t] = "execute" /\ item'[t] = item[t]
    BY <1>0, <1>1, <1>5 DEF Vote, TypeOK
  <2>2. /\ Len(votes'[t]) = Len(votes[t]) + 1 /\ votes'[t][Len(votes[t]) + 1] = item[t]
        /\ \A i \in 1 .. Len(votes[t]) : votes'[t][i] = votes[t][i]
    BY <1>1, <2>1
  <2>3. \A i \in 1 .. Len(votes'[t]) : i \in 1 .. Len(votes[t]) \/ i = Len(votes[t]) + 1
    BY <1>1, <2>2
  <2>4. \A i \in 1 .. Len(votes[t]) :
          Height(votes[t][i]) < Height(item[t]) /\ Height(votes[t][i]) < Len(blocks)
    BY <1>0, <2>1 DEF VotedBelow, Checked, Adding
  <2>5. Climbing(t)'
    <3>1. \A b : header'[b].count = Height(b)
      BY <2>1 DEF Height
    <3>2. ASSUME NEW i \in 1 .. Len(votes'[t]), NEW j \in 1 .. Len(votes'[t]), i < j
          PROVE  header'[votes'[t][i]].count < header'[votes'[t][j]].count
      <4>1. i \in 1 .. Len(votes[t]) /\ votes'[t][i] = votes[t][i] /\ votes[t][i] \in Block
        BY <1>1, <2>2, <2>3, <3>2
      <4>2. CASE j = Len(votes[t]) + 1
        BY <1>1, <2>2, <2>4, <3>1, <4>1, <4>2
      <4>3. CASE j \in 1 .. Len(votes[t])
        BY <2>2, <3>1, <3>2, <4>1, <4>3 DEF Climbing
      <4> QED
        BY <2>3, <4>2, <4>3
    <3> QED
      BY <3>2 DEF Climbing, Height
  <2>6. \A i \in 1 .. Len(votes'[t]) :
          /\ votes'[t][i] \in made'
          /\ header'[votes'[t][i]].count < Len(blocks') \/ item'[t] = votes'[t][i]
    BY <1>1, <2>1, <2>2, <2>3, <2>4 DEF VotedBelow, Height
  <2>7. pc'[t] \in Adding /\ pc'[t] \notin Checked
    BY <2>1 DEF Adding, Checked
  <2> QED
    BY <1>0, <2>5, <2>6, <2>7 DEF VotedBelow, Height
<1>6. CASE ExecuteReceived(t)
  <2>1. /\ votes' = votes /\ header' = header /\ blocks' = blocks /\ made' = made
        /\ pc[t] \in Adding /\ pc'[t] \in Adding /\ pc'[t] \notin Checked /\ item'[t] = item[t]
    BY <1>0, <1>6 DEF ExecuteReceived, TypeOK, Checked, Adding
  <2> QED
    BY <1>0, <1>1, <2>1 DEF VotedBelow, Climbing, Height
<1>7. CASE AppendReceived(t)
  <2>1. /\ votes' = votes /\ header' = header /\ made' = made
        /\ Len(blocks') = Len(blocks) + 1
        /\ pc'[t] \notin Adding /\ pc'[t] \notin Checked
    <3>1. votes' = votes /\ header' = header /\ made' = made /\ pc'[t] = "idle"
      BY <1>0, <1>7 DEF AppendReceived, TypeOK
    <3>2. blocks' = Append(blocks, item[t]) /\ blocks \in Seq(Block)
      BY <1>7 DEF AppendReceived, TypeOK
    <3>3. Len(blocks') = Len(blocks) + 1
      BY <1>1, <3>2
    <3> QED
      BY <3>1, <3>3 DEF Adding, Checked
  <2>2. Height(item[t]) <= Len(blocks)
    BY <1>7 DEF AppendReceived, CountKept
  <2>3. \A i \in 1 .. Len(votes[t]) : Height(votes[t][i]) < Len(blocks')
    BY <1>0, <1>1, <2>1, <2>2 DEF VotedBelow
  <2> QED
    BY <1>0, <1>1, <2>1, <2>3 DEF VotedBelow, Climbing, Height
<1> QED
  BY <1>2, <1>3, <1>4, <1>5, <1>6, <1>7 DEF P2PStep, AddStep

LEMMA VoteStep == VoteInv /\ [Next]_vars => VoteInv'
<1> SUFFICES ASSUME VoteInv, [Next]_vars PROVE VoteInv'
  OBVIOUS
<1>0. ThreadInv' /\ TypeOK
  BY ThreadStep DEF VoteInv, ThreadInv
<1> SUFFICES ASSUME NEW t \in P2P PROVE VotedBelow(t)' /\ Climbing(t)'
  BY <1>0 DEF VoteInv
<1>1. CASE P2PStep(t) \/ AddStep(t)
  BY <1>1, VoterStep
<1>2. ASSUME votes'[t] = votes[t], pc'[t] = pc[t] /\ item'[t] = item[t]
      PROVE  VotedBelow(t)' /\ Climbing(t)'
  BY <1>2, VoteOthers
<1>3. CASE UNCHANGED vars \/ \E b \in PeerBlock, p \in Block : PeerMakes(b, p)
  BY <1>2, <1>3 DEF vars, PeerMakes
<1>4. CASE SlotStep
  <2>1. votes' = votes
    BY <1>4 DEF SlotStep, StartProposal, ReadTip, ExecuteOwn, CreateOwn, AppendOwn, PostOwn,
                Abort, MarkOwn, CleanUpFails, Announce
  <2>2. pc'[t] = pc[t] /\ item'[t] = item[t]
    BY <1>0, <1>4, ThreadsAssumption
    DEF SlotStep, StartProposal, ReadTip, ExecuteOwn, CreateOwn, AppendOwn, PostOwn,
        Abort, MarkOwn, CleanUpFails, Announce, TypeOK
  <2> QED
    BY <1>2, <2>1, <2>2
<1>5. ASSUME NEW u \in Receiver, u # t, ApiStep(u) \/ AddStep(u)
      PROVE  VotedBelow(t)' /\ Climbing(t)'
  <2>1. votes' = votes
    BY <1>5 DEF ApiStep, ReceiveSync, AddStep, CheckCount, CheckHash, ExecuteReceived, AppendReceived
  <2>2. pc'[t] = pc[t] /\ item'[t] = item[t]
    BY <1>0, <1>5
    DEF ApiStep, ReceiveSync, AddStep, CheckCount, CheckHash, ExecuteReceived, AppendReceived, TypeOK
  <2> QED
    BY <1>2, <2>1, <2>2
<1>6. ASSUME NEW u \in P2P, u # t, P2PStep(u) PROVE VotedBelow(t)' /\ Climbing(t)'
  <2>1. votes'[t] = votes[t]
    BY <1>0, <1>6 DEF P2PStep, ReceiveBlock, MarkSeen, CheckLength, FastCount, FastHash, RejectRoot, Vote, TypeOK
  <2>2. pc'[t] = pc[t] /\ item'[t] = item[t]
    BY <1>0, <1>6
    DEF P2PStep, ReceiveBlock, MarkSeen, CheckLength, FastCount, FastHash, RejectRoot, Vote, TypeOK
  <2> QED
    BY <1>2, <2>1, <2>2
<1> QED
  BY <1>1, <1>3, <1>4, <1>5, <1>6, ThreadsAssumption DEF Next

\* However many connections a node has, none of their threads votes twice at one
\* height or goes back to a lower one, although the other threads append to the
\* chain behind the back of handle_block and may lower the number of the tip.
THEOREM EachVoterClimbs == Spec => []VotesClimb
<1>1. VoteInv => VotesClimb
  BY DEF VoteInv, VotesClimb, Climbing
<1> QED
  BY <1>1, VoteInit, VoteStep, PTL DEF Spec
=============================================================================
