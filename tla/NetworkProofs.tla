---------------------------- MODULE NetworkProofs ---------------------------
(***************************************************************************)
(* For any nodes, blocks and transactions, under forks, late posts and     *)
(* dropped connections: the network implements ChainAbs, a node votes for  *)
(* one block of a height, and its balances are those of its chain.         *)
(*                                                                         *)
(* For the chains and the votes, what the executor does to the ledgers     *)
(* plays no part; what does is that the number of a chain's last block is  *)
(* its position, so that a block whose number and parent pass the checks   *)
(* extends the chain.  The ledgers rest on BlockExecProofs.                *)
(***************************************************************************)
EXTENDS Network, BlockExecProofs, SequenceTheorems, WellFoundedInduction, TLAPS

LEMMA AppendTyped ==
  ASSUME NEW S, NEW s \in Seq(S), NEW e \in S
  PROVE  /\ Append(s, e) \in Seq(S) /\ Append(s, e) # <<>>
         /\ Len(Append(s, e)) = Len(s) + 1
         /\ Append(s, e)[Len(Append(s, e))] = e
BY AppendProperties, LenProperties

LEMMA SeqMonotone ==
  ASSUME NEW S, NEW T, S \subseteq T
  PROVE  Seq(S) \subseteq Seq(T)
OBVIOUS

-----------------------------------------------------------------------------
Msg == [kind : {"BLOCK", "BLOCKCHAINREQUEST", "BLOCKCHAIN"}, block : made]

\* Only blocks that exist are in chains, in transit and waiting.
OnlyMade ==
  /\ made \subseteq Block /\ Genesis \in made
  /\ chain \in [Node -> Seq(made)]
  /\ wire \in [Node -> [Node -> Seq(Msg)]]
  /\ proposal \in [Node -> [block : made, todo : SUBSET Node]]
  /\ late \subseteq Node \X made

\* The last block of a chain is numbered by its position.
TipNumbered ==
  \A n \in Node : chain[n] # <<>> /\ header[Tip(n)].count = Len(chain[n]) - 1

ChainInv == OnlyMade /\ TipNumbered

LEMMA ChainInit == Init => ChainInv /\ Abs!Init
<1> SUFFICES ASSUME Init PROVE ChainInv /\ Abs!Init
  OBVIOUS
<1> USE NetworkAssumption DEF Init
<1>1. made = {Genesis}
  BY DEF made
<1>2. OnlyMade
  BY <1>1 DEF OnlyMade, Msg, NoBlock
<1>3. TipNumbered
  BY DEF TipNumbered, Tip
<1>4. Abs!Init
  BY <1>1 DEF Abs!Init, links
<1> QED
  BY <1>2, <1>3, <1>4 DEF ChainInv

\* A step that adds no block leaves the abstract state alone.
LEMMA Quiet ==
  ASSUME ChainInv, UNCHANGED <<header, chain>>
  PROVE  TipNumbered' /\ UNCHANGED <<links, chain>>
BY DEF ChainInv, TipNumbered, Tip, links, made

\* A block that passes the checks of its number and its parent extends the chain.
LEMMA AddAccepts ==
  ASSUME ChainInv, NEW n \in Node, NEW b \in made, CountValid(n, b), HashValid(n, b),
         header' = header, chain' = [chain EXCEPT ![n] = Append(@, b)]
  PROVE  /\ chain' \in [Node -> Seq(made)]
         /\ TipNumbered'
         /\ Abs!Accept(n, b)
<1> USE DEF ChainInv, OnlyMade
<1>1. chain[n] \in Seq(made) /\ Len(chain[n]) \in Nat /\ b \in Block
  OBVIOUS
<1>2. header[b].count = Len(chain[n]) /\ header[b].parent = Tip(n)
  BY <1>1 DEF CountValid, HashValid, TipNumbered
<1>3. /\ Append(chain[n], b) \in Seq(made) /\ Append(chain[n], b) # <<>>
      /\ Len(Append(chain[n], b)) = Len(chain[n]) + 1
      /\ Append(chain[n], b)[Len(Append(chain[n], b))] = b
  BY <1>1, AppendTyped
<1>4. chain' \in [Node -> Seq(made)]
  BY <1>3
<1>5. TipNumbered'
  <2> SUFFICES ASSUME NEW m \in Node
               PROVE  chain'[m] # <<>> /\ header[chain'[m][Len(chain'[m])]].count = Len(chain'[m]) - 1
    BY DEF TipNumbered, Tip
  <2>1. CASE m = n
    BY <1>1, <1>2, <1>3, <2>1
  <2>2. CASE m # n
    BY <2>2 DEF TipNumbered, Tip
  <2> QED
    BY <2>1, <2>2
<1>6. Abs!Accept(n, b)
  <2>1. links[b] = [parent |-> chain[n][Len(chain[n])], count |-> Len(chain[n])] /\ b \in DOMAIN links
    BY <1>2 DEF links, Tip
  <2>2. links' = links
    BY DEF links, made
  <2> QED
    BY <2>1, <2>2 DEF Abs!Accept, Abs!Extends, Abs!Grow
<1> QED
  BY <1>4, <1>5, <1>6

\* A block that is created extends the creator's chain.
LEMMA CreateProposes ==
  ASSUME ChainInv, NEW n \in Node, NEW b \in Block, CreateBlock(n, b)
  PROVE  ChainInv' /\ Abs!Propose(n, b)
<1> USE DEF ChainInv, OnlyMade
<1>0. /\ chain[n] \in Seq(made) /\ chain[n] # <<>> /\ Len(chain[n]) \in Nat /\ Tip(n) \in made
      /\ b \notin made
  BY DEF TipNumbered, Tip, CreateBlock
<1>1. PICK txs, after :
        header' = [c \in made \cup {b} |->
                    IF c = b THEN [parent |-> Tip(n), count |-> Len(chain[n]), txs |-> txs, root |-> after]
                    ELSE header[c]]
  <2> HIDE DEF ChainInv, OnlyMade
  <2> QED
    BY DEF CreateBlock
<1>2. /\ chain' = [chain EXCEPT ![n] = Append(@, b)]
      /\ proposal' = [proposal EXCEPT ![n] = [block |-> b, todo |-> HttpPorts \ {n}]]
      /\ wire' = wire /\ late' = late
  BY DEF CreateBlock
<1>3. /\ made' = made \cup {b} /\ made \subseteq made' /\ b \in made'
      /\ header'[b].count = Len(chain[n]) /\ header'[b].parent = Tip(n)
      /\ \A c \in made : header'[c] = header[c]
  BY <1>0, <1>1 DEF made
<1>4. Seq(made) \subseteq Seq(made') /\ Msg \subseteq Msg'
  BY <1>3, SeqMonotone DEF Msg
<1>5. Seq(Msg) \subseteq Seq(Msg')
  BY <1>4, SeqMonotone
<1>6. /\ Append(chain[n], b) \in Seq(made') /\ Append(chain[n], b) # <<>>
      /\ Len(Append(chain[n], b)) = Len(chain[n]) + 1
      /\ Append(chain[n], b)[Len(Append(chain[n], b))] = b
  <2> DEFINE S == made'
  <2>1. chain[n] \in Seq(S) /\ b \in S
    BY <1>0, <1>3, <1>4
  <2> HIDE DEF S
  <2>2. /\ Append(chain[n], b) \in Seq(S) /\ Append(chain[n], b) # <<>>
        /\ Len(Append(chain[n], b)) = Len(chain[n]) + 1
        /\ Append(chain[n], b)[Len(Append(chain[n], b))] = b
    BY <2>1, AppendTyped
  <2> QED
    BY <2>2 DEF S
<1>7. OnlyMade'
  <2>1. chain' \in [Node -> Seq(made')]
    BY <1>2, <1>4, <1>6
  <2>2. wire' \in [Node -> [Node -> Seq(Msg')]]
    BY <1>2, <1>5
  <2>3. proposal' \in [Node -> [block : made', todo : SUBSET Node]]
    BY <1>2, <1>3, NetworkAssumption
  <2>4. late' \subseteq Node \X made' /\ made' \subseteq Block /\ Genesis \in made'
    BY <1>2, <1>3
  <2> QED
    BY <2>1, <2>2, <2>3, <2>4
<1>8. TipNumbered'
  <2> SUFFICES ASSUME NEW m \in Node
               PROVE  chain'[m] # <<>> /\ header'[chain'[m][Len(chain'[m])]].count = Len(chain'[m]) - 1
    BY DEF TipNumbered, Tip
  <2>1. CASE m = n
    BY <1>0, <1>2, <1>3, <1>6, <2>1
  <2>2. CASE m # n
    <3>1. chain[m] \in Seq(made) /\ chain[m] # <<>> /\ chain'[m] = chain[m]
      BY <1>2, <2>2 DEF TipNumbered
    <3>2. chain[m][Len(chain[m])] \in made
      BY <3>1
    <3> QED
      BY <1>3, <3>1, <3>2 DEF TipNumbered, Tip
  <2> QED
    BY <2>1, <2>2
<1>9. Abs!Propose(n, b)
  <2>1. Tip(n) = chain[n][Len(chain[n])] /\ header[Tip(n)].count = Len(chain[n]) - 1
    BY DEF TipNumbered, Tip
  <2>2. links[Tip(n)].count + 1 = Len(chain[n])
    BY <1>0, <2>1 DEF links
  <2>3. links' = [c \in DOMAIN links \cup {b} |->
                   IF c = b THEN [parent |-> Tip(n), count |-> Len(chain[n])] ELSE links[c]]
    BY <1>0, <1>3 DEF links
  <2>4. b \notin DOMAIN links /\ b \in DOMAIN links'
        /\ links'[b] = [parent |-> Tip(n), count |-> Len(chain[n])]
    BY <1>0, <2>3 DEF links
  <2> QED
    BY <1>2, <2>1, <2>2, <2>3, <2>4 DEF Abs!Propose, Abs!Make, Abs!Extends, Abs!Grow
<1> QED
  BY <1>7, <1>8, <1>9

-----------------------------------------------------------------------------
\* What a step that makes no block has to show of the variables it changes.
LEMMA Kept ==
  ASSUME ChainInv, header' = header,
         chain' \in [Node -> Seq(made)], TipNumbered',
         wire' \in [Node -> [Node -> Seq(Msg)]],
         proposal' \in [Node -> [block : made, todo : SUBSET Node]],
         late' \subseteq Node \X made
  PROVE  ChainInv'
<1>1. made' = made
  BY DEF made
<1>2. Msg' = Msg
  BY <1>1 DEF Msg
<1> QED
  BY <1>1, <1>2 DEF ChainInv, OnlyMade

LEMMA BroadcastTyped ==
  ASSUME NEW w \in [Node -> [Node -> Seq(Msg)]], NEW n \in Node, NEW msg \in Msg
  PROVE  Broadcast(w, n, msg) \in [Node -> [Node -> Seq(Msg)]]
<1>1. \A m \in Node : w[n][m] \in Seq(Msg) /\ Append(w[n][m], msg) \in Seq(Msg)
  OBVIOUS
<1>2. [m \in Node |-> IF m = n THEN w[n][m] ELSE Append(w[n][m], msg)] \in [Node -> Seq(Msg)]
  BY <1>1
<1> QED
  BY <1>2 DEF Broadcast

\* Handling a message takes it off the wire; its block exists.
LEMMA TakenTyped ==
  ASSUME ChainInv, NEW n \in Node, NEW p \in Node, wire[p][n] # <<>>
  PROVE  /\ Taken(n, p) \in [Node -> [Node -> Seq(Msg)]]
         /\ Incoming(n, p) \in made
<1> USE DEF ChainInv, OnlyMade
<1>1. wire[p][n] \in Seq(Msg)
  OBVIOUS
<1>2. Head(wire[p][n]) \in Msg /\ Tail(wire[p][n]) \in Seq(Msg)
  BY <1>1, HeadTailProperties
<1>3. Taken(n, p) \in [Node -> [Node -> Seq(Msg)]]
  BY <1>2 DEF Taken
<1>4. Incoming(n, p) \in made
  BY <1>2 DEF Incoming, Msg
<1> QED
  BY <1>3, <1>4

Steps == (\E n \in Node, b \in Block : Abs!Accept(n, b)) \/ UNCHANGED <<links, chain>>

\* A block that comes over HTTP extends the chain or leaves it alone.
LEMMA SyncSteps ==
  ASSUME ChainInv, NEW n \in Node, NEW b \in made, header' = header, Sync(n, b)
  PROVE  chain' \in [Node -> Seq(made)] /\ TipNumbered' /\ Steps
<1>1. CASE UNCHANGED chain
  BY <1>1, Quiet DEF Steps, ChainInv, OnlyMade
<1>2. CASE /\ CountValid(n, b) /\ HashValid(n, b)
           /\ chain' = [chain EXCEPT ![n] = Append(@, b)]
  <2>1. chain' \in [Node -> Seq(made)] /\ TipNumbered' /\ Abs!Accept(n, b)
    BY <1>2, AddAccepts
  <2>2. b \in Block
    BY DEF ChainInv, OnlyMade
  <2> QED
    BY <2>1, <2>2 DEF Steps
<1> QED
  BY <1>1, <1>2 DEF Sync, AddBlock, store

LEMMA PostSteps ==
  ASSUME ChainInv, NEW n \in Node, NEW m \in Node, PostBlock(n, m) \/ PostTimesOut(n, m)
  PROVE  ChainInv' /\ Steps
<1> USE DEF ChainInv, OnlyMade
<1>1. /\ header' = header /\ wire' = wire /\ proposal[n].block \in made
      /\ proposal' \in [Node -> [block : made, todo : SUBSET Node]]
  <2>1. proposal[n] \in [block : made, todo : SUBSET Node]
    OBVIOUS
  <2>2. [proposal[n] EXCEPT !.todo = @ \ {m}] \in [block : made, todo : SUBSET Node]
    BY <2>1
  <2>3. proposal' = [proposal EXCEPT ![n] = [proposal[n] EXCEPT !.todo = @ \ {m}]]
    BY DEF PostBlock, PostTimesOut
  <2> QED
    BY <2>1, <2>2, <2>3 DEF PostBlock, PostTimesOut
<1>2. CASE PostBlock(n, m)
  <2>1. Sync(m, proposal[n].block) /\ late' = late
    BY <1>2 DEF PostBlock
  <2>2. chain' \in [Node -> Seq(made)] /\ TipNumbered' /\ Steps
    BY <1>1, <2>1, SyncSteps
  <2> QED
    BY <1>1, <2>1, <2>2, Kept
<1>3. CASE PostTimesOut(n, m)
  <2>1. late' \subseteq Node \X made /\ UNCHANGED <<header, chain>>
    BY <1>1, <1>3 DEF PostTimesOut, store
  <2> QED
    BY <1>1, <2>1, Kept, Quiet DEF Steps
<1> QED
  BY <1>2, <1>3

LEMMA LateSteps ==
  ASSUME ChainInv, NEW n \in Node, NEW b \in Block, LateSync(n, b)
  PROVE  ChainInv' /\ Steps
<1> USE DEF ChainInv, OnlyMade
<1>1. /\ b \in made /\ Sync(n, b) /\ late' \subseteq Node \X made
      /\ UNCHANGED <<header, wire, proposal>>
  BY DEF LateSync
<1>2. chain' \in [Node -> Seq(made)] /\ TipNumbered' /\ Steps
  BY <1>1, SyncSteps
<1> QED
  BY <1>1, <1>2, Kept

LEMMA HandleSteps ==
  ASSUME ChainInv, NEW n \in Node, NEW p \in Node, Handle(n, p)
  PROVE  ChainInv' /\ Steps
<1> DEFINE b == Incoming(n, p)
<1>1. /\ wire[p][n] # <<>>
      /\ UNCHANGED <<header, proposal, late>>
  BY DEF Handle, IgnoreSeen, IgnoreOld, RequestChain, Validate, FreshBlock,
         HandleBlockchainRequest, HandleBlockchain, Arrived
<1>2. Taken(n, p) \in [Node -> [Node -> Seq(Msg)]] /\ b \in made
  BY <1>1, TakenTyped
<1>3. /\ Message("BLOCK", b) \in Msg /\ Message("BLOCKCHAINREQUEST", NoBlock) \in Msg
      /\ Message("BLOCKCHAIN", NoBlock) \in Msg
  BY <1>2 DEF Message, Msg, NoBlock, ChainInv, OnlyMade
<1>4. wire' \in [Node -> [Node -> Seq(Msg)]]
  <2>1. CASE wire' = Taken(n, p)
    BY <1>2, <2>1
  <2>2. CASE \E msg \in Msg : wire' = Broadcast(Taken(n, p), n, msg)
    <3>1. PICK msg \in Msg : wire' = Broadcast(Taken(n, p), n, msg)
      BY <2>2
    <3>2. Broadcast(Taken(n, p), n, msg) \in [Node -> [Node -> Seq(Msg)]]
      BY <1>2, BroadcastTyped
    <3> QED
      BY <3>1, <3>2
  <2>3. CASE HandleBlockchainRequest(n, p)
    <3> DEFINE w == Taken(n, p)
    <3>1. w[n][p] \in Seq(Msg)
      BY <1>2
    <3>2. Append(w[n][p], Message("BLOCKCHAIN", NoBlock)) \in Seq(Msg)
      BY <1>3, <3>1
    <3>3. wire' = [w EXCEPT ![n][p] = Append(@, Message("BLOCKCHAIN", NoBlock))]
      BY <2>3 DEF HandleBlockchainRequest
    <3> HIDE DEF w
    <3>4. w \in [Node -> [Node -> Seq(Msg)]]
      BY <1>2 DEF w
    <3> QED
      BY <3>2, <3>3, <3>4
  <2>4. CASE RequestChain(n, p)
    BY <1>3, <2>2, <2>4 DEF RequestChain
  <2>5. CASE Validate(n, p)
    <3>1. \/ wire' = Taken(n, p)
          \/ wire' = Broadcast(Taken(n, p), n, Message("BLOCK", b))
      BY <2>5 DEF Validate
    <3> QED
      BY <1>3, <2>1, <2>2, <3>1
  <2>6. CASE IgnoreSeen(n, p) \/ IgnoreOld(n, p) \/ HandleBlockchain(n, p)
    BY <2>1, <2>6 DEF IgnoreSeen, IgnoreOld, HandleBlockchain
  <2> QED
    BY <2>3, <2>4, <2>5, <2>6 DEF Handle
<1>5. chain' \in [Node -> Seq(made)] /\ TipNumbered' /\ Steps
  <2>1. CASE UNCHANGED chain
    BY <1>1, <2>1, Quiet DEF Steps, ChainInv, OnlyMade
  <2>2. CASE /\ CountValid(n, b) /\ HashValid(n, b)
             /\ chain' = [chain EXCEPT ![n] = Append(@, b)]
    <3>1. chain' \in [Node -> Seq(made)] /\ TipNumbered' /\ Abs!Accept(n, b)
      BY <1>1, <1>2, <2>2, AddAccepts
    <3>2. b \in Block
      BY <1>2 DEF ChainInv, OnlyMade
    <3> QED
      BY <3>1, <3>2 DEF Steps
  <2> QED
    BY <2>1, <2>2
    DEF Handle, IgnoreSeen, IgnoreOld, RequestChain, Validate, AddBlock,
        HandleBlockchainRequest, HandleBlockchain, store
<1> QED
  BY <1>1, <1>4, <1>5, Kept DEF ChainInv, OnlyMade

LEMMA OtherSteps ==
  ASSUME ChainInv,
         \/ \E n \in Node, t \in Tx : SubmitTransaction(n, t)
         \/ \E n \in Node : AnnounceBlock(n) \/ AnnounceFails(n)
         \/ \E n, p \in Node : Disconnect(n, p)
  PROVE  ChainInv' /\ Steps
<1> USE DEF ChainInv, OnlyMade
<1>1. UNCHANGED <<header, chain, late>>
  BY DEF SubmitTransaction, AnnounceBlock, AnnounceFails, Disconnect, store
<1>2. wire' \in [Node -> [Node -> Seq(Msg)]]
  <2>1. CASE \E n \in Node, t \in Tx : SubmitTransaction(n, t)
    BY <2>1 DEF SubmitTransaction
  <2>2. CASE \E n \in Node : AnnounceBlock(n)
    <3>1. PICK n \in Node : AnnounceBlock(n)
      BY <2>2
    <3>2. Message("BLOCK", proposal[n].block) \in Msg
      BY DEF Message, Msg
    <3> QED
      BY <3>1, <3>2, BroadcastTyped DEF AnnounceBlock
  <2>3. CASE \E n, p \in Node : Disconnect(n, p)
    BY <2>3 DEF Disconnect
  <2>4. CASE \E n \in Node : AnnounceFails(n)
    BY <2>4 DEF AnnounceFails
  <2> QED
    BY <2>1, <2>2, <2>3, <2>4
<1>3. proposal' \in [Node -> [block : made, todo : SUBSET Node]]
  <2>1. CASE \E n \in Node : AnnounceBlock(n) \/ AnnounceFails(n)
    <3>1. PICK n \in Node : proposal' = [proposal EXCEPT ![n] = [proposal[n] EXCEPT !.block = NoBlock]]
      BY <2>1 DEF AnnounceBlock, AnnounceFails
    <3>2. proposal[n] \in [block : made, todo : SUBSET Node] /\ NoBlock \in made
      BY DEF NoBlock
    <3>3. [proposal[n] EXCEPT !.block = NoBlock] \in [block : made, todo : SUBSET Node]
      BY <3>2
    <3> QED
      BY <3>1, <3>3
  <2>2. CASE UNCHANGED proposal
    BY <2>2
  <2> QED
    BY <2>1, <2>2 DEF SubmitTransaction, Disconnect
<1> QED
  BY <1>1, <1>2, <1>3, Kept, Quiet DEF Steps

-----------------------------------------------------------------------------
LEMMA NextSteps == ChainInv /\ [Next]_vars => ChainInv' /\ [Abs!Next]_<<links, chain>>
<1> SUFFICES ASSUME ChainInv, [Next]_vars
             PROVE  ChainInv' /\ [Abs!Next]_<<links, chain>>
  OBVIOUS
<1>1. CASE \E n \in Node, b \in Block : CreateBlock(n, b)
  BY <1>1, CreateProposes DEF Abs!Next
<1>2. CASE \E n \in Node, b \in Block : LateSync(n, b)
  BY <1>2, LateSteps DEF Abs!Next, Steps
<1>3. CASE \E n, m \in Node : PostBlock(n, m) \/ PostTimesOut(n, m)
  BY <1>3, PostSteps DEF Abs!Next, Steps
<1>4. CASE \E n, p \in Node : Handle(n, p)
  BY <1>4, HandleSteps DEF Abs!Next, Steps
<1>5. CASE \/ \E n \in Node, t \in Tx : SubmitTransaction(n, t)
           \/ \E n \in Node : AnnounceBlock(n) \/ AnnounceFails(n)
           \/ \E n, p \in Node : Disconnect(n, p)
  BY <1>5, OtherSteps DEF Abs!Next, Steps
<1>6. CASE UNCHANGED vars
  <2>1. UNCHANGED <<header, chain, wire, proposal, late>>
    BY <1>6 DEF vars, store
  <2> QED
    BY <2>1, Kept, Quiet DEF ChainInv, OnlyMade
<1> QED
  BY <1>1, <1>2, <1>3, <1>4, <1>5, <1>6 DEF Next, Connected

\* The chains of the nodes only ever grow, by one block that names the last
\* one as its parent and has its position as its number, whichever way the
\* block came (handle_block, sync_blockchain, create_block).
THEOREM NetworkImplementsChains == Spec => ImplementsChains
<1>1. Spec => [][Abs!Next]_<<links, chain>> /\ (Init => Abs!Init)
  BY ChainInit, NextSteps, PTL DEF Spec
<1> QED
  BY <1>1, ChainInit, PTL DEF Spec, ImplementsChains, Abs!Spec

-----------------------------------------------------------------------------
\* Every block of a chain is numbered by its position, so that a chain has at
\* most one block of each height.
Numbered ==
  \A n \in Node : \A i \in 1 .. Len(chain[n]) : header[chain[n][i]].count = i - 1

\* What was voted for has been added.
VotesAdded ==
  /\ votes \subseteq Node \X made
  /\ \A v \in votes : \E i \in 1 .. Len(chain[v[1]]) : chain[v[1]][i] = v[2]

VoteInv == Numbered /\ VotesAdded

LEMMA VoteInit == Init => VoteInv
BY NetworkAssumption DEF Init, VoteInv, Numbered, VotesAdded

\* One block at most joins one chain at its end; no header changes.
LEMMA Growth ==
  ASSUME ChainInv, Abs!Next
  PROVE  /\ made \subseteq made' /\ \A c \in made : header'[c].count = header[c].count
         /\ \E n \in Node, b \in Block :
              /\ chain' = [chain EXCEPT ![n] = Append(@, b)]
              /\ header'[b].count = Len(chain[n])
<1>1. PICK n \in Node, b \in Block : Abs!Propose(n, b) \/ Abs!Accept(n, b)
  BY DEF Abs!Next
<1>2. /\ b \in DOMAIN links' /\ links'[b].count = Len(chain[n])
      /\ chain' = [chain EXCEPT ![n] = Append(@, b)]
  BY <1>1 DEF Abs!Propose, Abs!Accept, Abs!Extends, Abs!Grow
<1>3. DOMAIN links \subseteq DOMAIN links' /\ \A c \in DOMAIN links : links'[c] = links[c]
  BY <1>1 DEF Abs!Propose, Abs!Accept, Abs!Make
<1>4. /\ DOMAIN links = made /\ \A c \in made : links[c].count = header[c].count
      /\ DOMAIN links' = made' /\ \A c \in made' : links'[c].count = header'[c].count
  BY DEF links
<1> QED
  BY <1>2, <1>3, <1>4

LEMMA NumberedKept ==
  ASSUME ChainInv, Numbered, [Abs!Next]_<<links, chain>>
  PROVE  Numbered'
<1>1. chain \in [Node -> Seq(made)]
  BY DEF ChainInv, OnlyMade
<1>2. CASE Abs!Next
  <2>1. PICK n \in Node, b \in Block :
          /\ chain' = [chain EXCEPT ![n] = Append(@, b)]
          /\ header'[b].count = Len(chain[n])
    BY <1>2, Growth
  <2>2. \A c \in made : header'[c].count = header[c].count
    BY <1>2, Growth
  <2> SUFFICES ASSUME NEW m \in Node, NEW i \in 1 .. Len(chain'[m])
               PROVE  header'[chain'[m][i]].count = i - 1
    BY DEF Numbered
  <2>3. chain[m] \in Seq(made) /\ Len(chain[m]) \in Nat
    BY <1>1
  <2>4. CASE i \in 1 .. Len(chain[m])
    <3>1. chain'[m][i] = chain[m][i] /\ chain[m][i] \in made
      BY <1>1, <2>1, <2>3, <2>4
    <3> QED
      BY <2>2, <2>4, <3>1 DEF Numbered
  <2>5. CASE i \notin 1 .. Len(chain[m])
    <3>1. m = n /\ chain'[m] = Append(chain[m], b) /\ i = Len(chain[m]) + 1
      BY <1>1, <2>1, <2>3, <2>5
    <3>2. chain'[m][i] = b
      BY <2>3, <3>1
    <3> QED
      BY <2>1, <2>3, <3>1, <3>2
  <2> QED
    BY <2>4, <2>5
<1>3. CASE UNCHANGED <<links, chain>>
  <2>1. \A c \in made : header'[c].count = header[c].count
    <3>1. \A c \in made : links[c].count = header[c].count
      BY DEF links
    <3>2. made' = made /\ \A c \in made' : links'[c].count = header'[c].count
      BY <1>3 DEF links
    <3> QED
      BY <1>3, <3>1, <3>2
  <2> SUFFICES ASSUME NEW m \in Node, NEW i \in 1 .. Len(chain[m])
               PROVE  header'[chain[m][i]].count = i - 1
    BY <1>3 DEF Numbered
  <2>2. chain[m][i] \in made
    BY <1>1
  <2> QED
    BY <2>1, <2>2 DEF Numbered
<1> QED
  BY <1>2, <1>3

\* Only Validate votes, and it adds the block it votes for.
LEMMA VoteStep ==
  ASSUME ChainInv, [Next]_vars
  PROVE  \/ votes' = votes
         \/ \E n \in Node, b \in made : /\ votes' = votes \cup {<<n, b>>}
                                       /\ chain' = [chain EXCEPT ![n] = Append(@, b)]
<1>1. CASE \E n, p \in Node : Validate(n, p)
  <2>1. PICK n \in Node, p \in Node : Validate(n, p)
    BY <1>1
  <2>2. Incoming(n, p) \in made
    BY <2>1, TakenTyped DEF Validate, FreshBlock, Arrived
  <2> QED
    BY <2>1, <2>2 DEF Validate, AddBlock
<1>2. CASE ~ \E n, p \in Node : Validate(n, p)
  BY <1>2 DEF Next, Connected, SubmitTransaction, CreateBlock, LateSync, AnnounceBlock,
       AnnounceFails, PostBlock, PostTimesOut, Handle, IgnoreSeen, IgnoreOld, RequestChain,
       HandleBlockchainRequest, HandleBlockchain, Disconnect, vars
<1> QED
  BY <1>1, <1>2

LEMMA VotesKept ==
  ASSUME ChainInv, VotesAdded, [Next]_vars, [Abs!Next]_<<links, chain>>
  PROVE  VotesAdded'
<1>1. /\ chain \in [Node -> Seq(made)]
      /\ votes \subseteq Node \X made
  BY DEF ChainInv, OnlyMade, VotesAdded
<1>2. made \subseteq made'
  BY Growth DEF links
<1>3. \A n \in Node : \A i \in 1 .. Len(chain[n]) :
        i \in 1 .. Len(chain'[n]) /\ chain'[n][i] = chain[n][i]
  <2>1. CASE UNCHANGED chain
    BY <2>1
  <2>2. CASE Abs!Next
    <3>1. PICK n \in Node, b \in Block : chain' = [chain EXCEPT ![n] = Append(@, b)]
      BY <2>2, Growth
    <3> SUFFICES ASSUME NEW m \in Node, NEW i \in 1 .. Len(chain[m])
                 PROVE  i \in 1 .. Len(chain'[m]) /\ chain'[m][i] = chain[m][i]
      OBVIOUS
    <3>2. chain[m] \in Seq(made)
      BY <1>1
    <3> QED
      BY <1>1, <3>1, <3>2
  <2> QED
    BY <2>1, <2>2
<1>4. \A v \in votes : \E i \in 1 .. Len(chain'[v[1]]) : chain'[v[1]][i] = v[2]
  <2> SUFFICES ASSUME NEW v \in votes
               PROVE  \E i \in 1 .. Len(chain'[v[1]]) : chain'[v[1]][i] = v[2]
    OBVIOUS
  <2>1. PICK i \in 1 .. Len(chain[v[1]]) : chain[v[1]][i] = v[2]
    BY DEF VotesAdded
  <2>2. v[1] \in Node
    BY <1>1
  <2> QED
    BY <1>3, <2>1, <2>2
<1>5. CASE votes' = votes
  BY <1>1, <1>2, <1>4, <1>5 DEF VotesAdded
<1>6. CASE \E n \in Node, b \in made : /\ votes' = votes \cup {<<n, b>>}
                                     /\ chain' = [chain EXCEPT ![n] = Append(@, b)]
  <2>1. PICK n \in Node, b \in made : /\ votes' = votes \cup {<<n, b>>}
                                     /\ chain' = [chain EXCEPT ![n] = Append(@, b)]
    BY <1>6
  <2>2. chain[n] \in Seq(made) /\ chain'[n] = Append(chain[n], b)
    BY <1>1, <2>1
  <2>3. Len(chain[n]) + 1 \in 1 .. Len(chain'[n]) /\ chain'[n][Len(chain[n]) + 1] = b
    BY <2>2
  <2>4. \A v \in votes' : \E i \in 1 .. Len(chain'[v[1]]) : chain'[v[1]][i] = v[2]
    BY <1>4, <2>1, <2>3
  <2> QED
    BY <1>1, <1>2, <2>1, <2>4 DEF VotesAdded
<1> QED
  BY <1>5, <1>6, VoteStep

\* The votes of a node are for blocks of its chain, which has one block of
\* each height.
LEMMA VoteInvSuffices == ChainInv /\ VoteInv => OneVotePerHeight
<1> SUFFICES ASSUME ChainInv, VoteInv PROVE OneVotePerHeight
  OBVIOUS
<1> USE DEF VoteInv, VotesAdded
<1>1. ASSUME NEW v \in votes, NEW w \in votes, v[1] = w[1], header[v[2]].count = header[w[2]].count
      PROVE  v = w
  <2>1. PICK i \in 1 .. Len(chain[v[1]]) : chain[v[1]][i] = v[2]
    OBVIOUS
  <2>2. PICK j \in 1 .. Len(chain[v[1]]) : chain[v[1]][j] = w[2]
    BY <1>1
  <2>3. v[1] \in Node /\ chain[v[1]] \in Seq(made)
    BY DEF ChainInv, OnlyMade
  <2>4. i - 1 = j - 1
    <3> HIDE DEF VotesAdded
    <3>1. header[chain[v[1]][i]].count = i - 1 /\ header[chain[v[1]][j]].count = j - 1
      BY <2>3 DEF Numbered
    <3> QED
      BY <1>1, <2>1, <2>2, <3>1
  <2>5. i = j
    BY <2>3, <2>4
  <2>6. v = <<v[1], v[2]>> /\ w = <<w[1], w[2]>>
    OBVIOUS
  <2> QED
    BY <1>1, <2>1, <2>2, <2>5, <2>6
<1>2. ASSUME NEW v \in votes
      PROVE  Contains(chain[v[1]], v[2])
  <2>1. v[1] \in Node /\ chain[v[1]] \in Seq(made)
    BY DEF ChainInv, OnlyMade
  <2>2. PICK i \in 1 .. Len(chain[v[1]]) : chain[v[1]][i] = v[2]
    OBVIOUS
  <2> QED
    BY <2>1, <2>2 DEF Contains
<1> QED
  BY <1>1, <1>2 DEF OneVotePerHeight

LEMMA VoteNext == ChainInv /\ VoteInv /\ [Next]_vars => VoteInv'
BY NextSteps, NumberedKept, VotesKept DEF VoteInv

\* No node votes for two blocks of one height, nor for a block it has not
\* added: handle_block votes before add_block runs, and the number it compared
\* with the chain's last block is that of the place where the block then goes.
THEOREM OneVoteOnly == Spec => []OneVotePerHeight
<1>1. Init => ChainInv /\ VoteInv
  BY ChainInit, VoteInit
<1>2. ChainInv /\ VoteInv /\ [Next]_vars => (ChainInv /\ VoteInv)'
  BY NextSteps, VoteNext
<1> QED
  BY <1>1, <1>2, VoteInvSuffices, PTL DEF Spec

-----------------------------------------------------------------------------
(* Ledgers *)

FReplay == INSTANCE Folding WITH Op <- ReplayBlock
FCover == INSTANCE Folding WITH Op <- AddCovered

LEMMA ReplayFolds ==
  ASSUME NEW h, NEW s
  PROVE  FoldLeft(LAMBDA b, x : ReplayBlock(h, b, x), Funds, s) = FReplay!Fold(h, Funds, s)
BY DEF FReplay!Fold, FoldLeft, MapThenFoldSet, Max,
       FReplay!FoldLeft, FReplay!MapThenFoldSet, FReplay!Max

LEMMA CoveredFolds ==
  ASSUME NEW b, NEW txs
  PROVE  CoveredSet(b, txs) = FCover!Fold(b, <<>>, txs)
BY DEF CoveredSet, FCover!Fold, FoldLeft, MapThenFoldSet, Max,
       FCover!FoldLeft, FCover!MapThenFoldSet, FCover!Max

LEMMA CoveredTyped ==
  ASSUME NEW b, NEW txs \in Seq(Tx)
  PROVE  CoveredSet(b, txs) \in Seq(Tx)
<1>1. \A covered \in Seq(Tx), t \in Tx : AddCovered(b, covered, t) \in Seq(Tx)
  BY DEF AddCovered
<1>2. <<>> \in Seq(Tx)
  OBVIOUS
<1> QED
  BY <1>1, <1>2, CoveredFolds, FCover!FoldKeeps

\* Looking a balance up changes none.
LEMMA ConsultLemma ==
  ASSUME NEW b, IsLedger(b), NEW txs \in Seq(Tx)
  PROVE  IsLedger(Consult(b, txs)) /\ SameBalances(Consult(b, txs), b)
<1> DEFINE A == {From[txs[i]] : i \in {i \in DOMAIN txs : Large(txs[i])}}
<1>1. \A i \in DOMAIN txs : txs[i] \in Tx
  OBVIOUS
<1>2. A \in SUBSET Account
  BY <1>1, TxTypes
<1>3. Consult(b, txs) = Touch(b, A)
  BY DEF Consult
<1> HIDE DEF A
<1>4. IsLedger(Touch(b, A)) /\ \A x : Balance(Touch(b, A), x) = Balance(b, x)
  BY <1>2, TouchLemma
<1> QED
  BY <1>3, <1>4 DEF SameBalances

LEMMA MinIsMember ==
  ASSUME NEW I \in SUBSET Nat, I # {}
  PROVE  Min(I) \in I
<1>1. PICK x \in I : \A y \in I : ~ (<<y, x>> \in OpToRel(<, Nat))
  BY NatLessThanWellFounded, WFMin
<1>2. ASSUME NEW y \in I PROVE x <= y
  <2>1. x \in Nat /\ y \in Nat
    OBVIOUS
  <2> SUFFICES ASSUME y < x PROVE FALSE
    BY <2>1
  <2>2. <<y, x>> \in OpToRel(<, Nat)
    BY <2>1 DEF OpToRel
  <2> QED
    BY <1>1, <2>2
<1>3. \E z \in I : \A y \in I : z <= y
  BY <1>2
<1> QED
  BY <1>3, Zenon DEF Min

LEMMA ConsultUntilBadLemma ==
  ASSUME NEW b, IsLedger(b), NEW txs \in Seq(Tx)
  PROVE  IsLedger(ConsultUntilBad(b, txs)) /\ SameBalances(ConsultUntilBad(b, txs), b)
<1> DEFINE bad == SelectInSeq(txs, LAMBDA t : ~ Covered(b, t))
<1>1. ConsultUntilBad(b, txs) = Consult(b, IF bad = 0 THEN txs ELSE SubSeq(txs, 1, bad))
  BY DEF ConsultUntilBad
<1>2. bad = 0 \/ bad \in 1 .. Len(txs)
  <2> DEFINE I == {i \in 1 .. Len(txs) : ~ Covered(b, txs[i])}
  <2>1. bad = IF I # {} THEN Min(I) ELSE 0
    BY DEF SelectInSeq
  <2>2. I \in SUBSET Nat /\ I \subseteq 1 .. Len(txs)
    OBVIOUS
  <2> HIDE DEF I, bad
  <2> QED
    BY <2>1, <2>2, MinIsMember
<1> HIDE DEF bad
<1>3. (IF bad = 0 THEN txs ELSE SubSeq(txs, 1, bad)) \in Seq(Tx)
  BY <1>2
<1> QED
  BY <1>1, <1>3, ConsultLemma

\* Headers hold lists of transactions and the ledgers they lead to, and every node
\* has a ledger and a pool without copies.
Typed ==
  /\ \A b \in made : /\ header[b].parent \in made /\ header[b].count \in Nat
                     /\ header[b].txs \in Seq(Tx) /\ IsLedger(header[b].root)
  /\ ledger \in [Node -> LedgerSet]
  /\ pool \in [Node -> Seq(Tx)] /\ \A n \in Node : IsInjective(pool[n])
  /\ seen \in [Node -> SUBSET made]
  /\ \A n \in Node : proposal[n].todo \subseteq HttpPorts
  /\ refused \subseteq Node \X made

\* The balances of every node are those its chain gives.
Follows == \A n \in Node : SameBalances(ledger[n], Replay(n))

LedgerInv == Typed /\ Follows

\* What one step may do to the chain and the ledger of a node: nothing to the
\* balances, or the addition of a block with its execution.
Quietly(n) == chain'[n] = chain[n] /\ IsLedger(ledger'[n]) /\ SameBalances(ledger'[n], ledger[n])
Adds(n) ==
  \E b \in made' : \E c : /\ IsLedger(c) /\ SameBalances(c, ledger[n])
                          /\ chain'[n] = Append(chain[n], b)
                          /\ ledger'[n] = Execute(c, header'[b].txs)
StoreStep == ledger' \in [Node -> LedgerSet] /\ \A n \in Node : Quietly(n) \/ Adds(n)

HeadersKept ==
  /\ made \subseteq made' /\ \A b \in made : header'[b] = header[b]
  /\ \A b \in made' : /\ header'[b].parent \in made' /\ header'[b].count \in Nat
                      /\ header'[b].txs \in Seq(Tx) /\ IsLedger(header'[b].root)

LEMMA LedgersTyped ==
  ASSUME Typed, NEW n \in Node
  PROVE  IsLedger(ledger[n])
BY LedgerIsMember DEF Typed

LEMMA NothingStored ==
  ASSUME Typed, UNCHANGED store
  PROVE  StoreStep
BY LedgersTyped DEF Typed, StoreStep, Quietly, SameBalances, store

\* One node's store changes.
LEMMA OneStores ==
  ASSUME ChainInv, Typed, NEW n \in Node, NEW new, IsLedger(new), ledger' = [ledger EXCEPT ![n] = new],
         \/ chain' = chain /\ SameBalances(new, ledger[n])
         \/ \E b \in made' : \E c :
              /\ IsLedger(c) /\ SameBalances(c, ledger[n])
              /\ chain' = [chain EXCEPT ![n] = Append(@, b)]
              /\ new = Execute(c, header'[b].txs)
  PROVE  StoreStep
<1>1. ledger \in [Node -> LedgerSet] /\ chain \in [Node -> Seq(made)]
  BY DEF Typed, ChainInv, OnlyMade
<1>2. ledger' \in [Node -> LedgerSet] /\ ledger'[n] = new
  BY <1>1, LedgerIsMember
<1>3. ASSUME NEW m \in Node, m # n PROVE Quietly(m)
  <2>1. ledger'[m] = ledger[m] /\ chain'[m] = chain[m]
    BY <1>1, <1>3
  <2> QED
    BY <2>1, LedgersTyped DEF Quietly, SameBalances
<1>4. Quietly(n) \/ Adds(n)
  <2>1. CASE chain' = chain /\ SameBalances(new, ledger[n])
    BY <1>2, <2>1 DEF Quietly
  <2>2. CASE \E b \in made' : \E c :
               /\ IsLedger(c) /\ SameBalances(c, ledger[n])
               /\ chain' = [chain EXCEPT ![n] = Append(@, b)]
               /\ new = Execute(c, header'[b].txs)
    <3>0. PICK b \in made' : \E c : /\ IsLedger(c) /\ SameBalances(c, ledger[n])
                                    /\ chain' = [chain EXCEPT ![n] = Append(@, b)]
                                    /\ new = Execute(c, header'[b].txs)
      BY <2>2
    <3>1. PICK c : /\ IsLedger(c) /\ SameBalances(c, ledger[n])
                   /\ chain' = [chain EXCEPT ![n] = Append(@, b)]
                   /\ new = Execute(c, header'[b].txs)
      BY <3>0
    <3>2. chain'[n] = Append(chain[n], b)
      BY <1>1, <3>1
    <3> QED
      BY <1>2, <3>1, <3>2 DEF Adds
  <2> QED
    BY <2>1, <2>2
<1> QED
  BY <1>2, <1>3, <1>4 DEF StoreStep

\* The transactions of a block are looked up, then executed as it is added.
LEMMA AddStores ==
  ASSUME ChainInv, Typed, NEW n \in Node, NEW b \in made, header' = header,
         AddBlock(n, b, ConsultUntilBad(ledger[n], header[b].txs))
  PROVE  StoreStep
<1> DEFINE c == ConsultUntilBad(ledger[n], header[b].txs)
           new == Execute(c, header[b].txs)
<1>1. header[b].txs \in Seq(Tx) /\ b \in made'
  BY DEF Typed, made
<1>2. IsLedger(c) /\ SameBalances(c, ledger[n])
  BY <1>1, LedgersTyped, ConsultUntilBadLemma
<1> HIDE DEF c
<1>3. IsLedger(new)
  BY <1>1, <1>2, ExecuteIsSerial
<1>4. ledger' = [ledger EXCEPT ![n] = new] /\ chain' = [chain EXCEPT ![n] = Append(@, b)]
  BY DEF AddBlock, c
<1>5. new = Execute(c, header'[b].txs)
  OBVIOUS
<1> HIDE DEF new
<1> QED
  BY <1>1, <1>2, <1>3, <1>4, <1>5, OneStores

LEMMA LookupStores ==
  ASSUME ChainInv, Typed, NEW n \in Node, NEW b \in made, UNCHANGED chain,
         ledger' = [ledger EXCEPT ![n] = ConsultUntilBad(ledger[n], header[b].txs)]
  PROVE  StoreStep
<1>1. header[b].txs \in Seq(Tx)
  BY DEF Typed
<1>2. /\ IsLedger(ConsultUntilBad(ledger[n], header[b].txs))
      /\ SameBalances(ConsultUntilBad(ledger[n], header[b].txs), ledger[n])
  BY <1>1, LedgersTyped, ConsultUntilBadLemma
<1> QED
  BY <1>2, OneStores

LEMMA SyncStores ==
  ASSUME ChainInv, Typed, NEW n \in Node, NEW b \in made, header' = header, Sync(n, b)
  PROVE  StoreStep
<1>1. CASE UNCHANGED store
  BY <1>1, NothingStored
<1>2. CASE AddBlock(n, b, ConsultUntilBad(ledger[n], header[b].txs))
  BY <1>2, AddStores
<1>3. CASE /\ ledger' = [ledger EXCEPT ![n] = ConsultUntilBad(ledger[n], header[b].txs)]
           /\ UNCHANGED chain
  BY <1>3, LookupStores
<1> QED
  BY <1>1, <1>2, <1>3 DEF Sync

LEMMA SameHeaders ==
  ASSUME Typed, header' = header
  PROVE  HeadersKept /\ made' = made
BY DEF Typed, HeadersKept, made

\* The creator executes what the ledger covers, then appends the block.
LEMMA CreateStores ==
  ASSUME ChainInv, Typed, NEW n \in Node, NEW b \in Block, CreateBlock(n, b)
  PROVE  StoreStep /\ HeadersKept
<1> DEFINE txs == CoveredSet(ledger[n], pool[n])
           c == Consult(ledger[n], pool[n])
           after == Execute(c, txs)
           new == [parent |-> Tip(n), count |-> Len(chain[n]), txs |-> txs, root |-> after]
<1>1. /\ header' = [x \in made \cup {b} |-> IF x = b THEN new ELSE header[x]]
      /\ ledger' = [ledger EXCEPT ![n] = after]
      /\ chain' = [chain EXCEPT ![n] = Append(@, b)]
      /\ b \notin made
  BY DEF CreateBlock
<1>2. pool[n] \in Seq(Tx)
  BY DEF Typed
<1>3. IsLedger(c) /\ SameBalances(c, ledger[n])
  BY <1>2, LedgersTyped, ConsultLemma
<1>4. txs \in Seq(Tx)
  BY <1>2, CoveredTyped
<1> HIDE DEF txs, c
<1>5. IsLedger(after)
  BY <1>3, <1>4, ExecuteIsSerial
<1> HIDE DEF after
<1>6. chain[n] \in Seq(made) /\ chain[n] # <<>>
  BY DEF ChainInv, OnlyMade, TipNumbered
<1>7. Tip(n) \in made /\ Len(chain[n]) \in Nat
  BY <1>6 DEF Tip
<1>8. /\ made' = made \cup {b} /\ b \in made' /\ header'[b] = new
      /\ \A x \in made : header'[x] = header[x]
  BY <1>1 DEF made
<1>9. HeadersKept
  <2>1. ASSUME NEW x \in made'
        PROVE  /\ header'[x].parent \in made' /\ header'[x].count \in Nat
               /\ header'[x].txs \in Seq(Tx) /\ IsLedger(header'[x].root)
    <3>1. CASE x = b
      BY <1>4, <1>5, <1>7, <1>8, <3>1
    <3>2. CASE x # b
      BY <1>8, <3>2 DEF Typed
    <3> QED
      BY <3>1, <3>2
  <2> QED
    BY <1>8, <2>1 DEF HeadersKept
<1>10. after = Execute(c, header'[b].txs)
  BY <1>8 DEF after
<1>11. StoreStep
  BY <1>1, <1>3, <1>5, <1>8, <1>10, OneStores
<1> QED
  BY <1>9, <1>11

LEMMA HandleStores ==
  ASSUME ChainInv, Typed, NEW n \in Node, NEW p \in Node, Handle(n, p)
  PROVE  StoreStep /\ header' = header
<1> DEFINE b == Incoming(n, p)
<1>1. header' = header
  BY DEF Handle, IgnoreSeen, IgnoreOld, RequestChain, Validate, FreshBlock,
         HandleBlockchainRequest, HandleBlockchain
<1>2. CASE Validate(n, p)
  <2>1. wire[p][n] # <<>>
    BY <1>2 DEF Validate, FreshBlock, Arrived
  <2>2. b \in made
    BY <2>1, TakenTyped
  <2>3. \/ AddBlock(n, b, ConsultUntilBad(ledger[n], header[b].txs))
        \/ /\ ledger' = [ledger EXCEPT ![n] = ConsultUntilBad(ledger[n], header[b].txs)]
           /\ UNCHANGED chain
    BY <1>2 DEF Validate
  <2> QED
    BY <1>1, <2>2, <2>3, AddStores, LookupStores
<1>3. CASE ~ Validate(n, p)
  <2>1. UNCHANGED store
    BY <1>3 DEF Handle, IgnoreSeen, IgnoreOld, RequestChain, HandleBlockchainRequest, HandleBlockchain
  <2> QED
    BY <1>1, <2>1, NothingStored
<1> QED
  BY <1>2, <1>3

\* Every step of the network.
LEMMA NextStores ==
  ASSUME ChainInv, Typed, [Next]_vars
  PROVE  StoreStep /\ HeadersKept
<1>1. CASE \E n \in Node, b \in Block : CreateBlock(n, b)
  BY <1>1, CreateStores
<1>2. CASE \E n \in Node, b \in Block : LateSync(n, b)
  <2>1. PICK n \in Node, b \in Block : LateSync(n, b)
    BY <1>2
  <2>2. b \in made /\ header' = header /\ Sync(n, b)
    BY <2>1 DEF LateSync, ChainInv, OnlyMade
  <2> QED
    BY <2>2, SyncStores, SameHeaders
<1>3. CASE \E n, m \in Node : PostBlock(n, m)
  <2>1. PICK n \in Node, m \in Node : PostBlock(n, m)
    BY <1>3
  <2>2. proposal[n].block \in made /\ header' = header /\ Sync(m, proposal[n].block)
    BY <2>1 DEF PostBlock, ChainInv, OnlyMade
  <2> QED
    BY <2>2, SyncStores, SameHeaders
<1>4. CASE \E n, p \in Node : Handle(n, p)
  BY <1>4, HandleStores, SameHeaders
<1>5. CASE \/ \E n \in Node, t \in Tx : SubmitTransaction(n, t)
           \/ \E n \in Node : AnnounceBlock(n) \/ AnnounceFails(n)
           \/ \E n, p \in Node : Disconnect(n, p) \/ PostTimesOut(n, p)
           \/ UNCHANGED vars
  <2>1. UNCHANGED <<header, store>>
    BY <1>5 DEF SubmitTransaction, AnnounceBlock, AnnounceFails, Disconnect, PostTimesOut, vars
  <2> QED
    BY <2>1, NothingStored, SameHeaders
<1> QED
  BY <1>1, <1>2, <1>3, <1>4, <1>5 DEF Next, Connected

-----------------------------------------------------------------------------
\* Blocks once made stay as they are, so a list of them replays the same.
LEMMA ReplayKept ==
  ASSUME Typed, HeadersKept
  PROVE  \A s \in Seq(made) : /\ FReplay!Fold(header', Funds, s) = FReplay!Fold(header, Funds, s)
                              /\ IsLedger(FReplay!Fold(header, Funds, s))
<1> DEFINE new(s) == FReplay!Fold(header', Funds, s)
           old(s) == FReplay!Fold(header, Funds, s)
           T == {s \in Seq(made) : new(s) = old(s) /\ IsLedger(old(s))}
<1>1. <<>> \in T
  BY FReplay!FoldNothing, NetworkAssumption
<1>2. ASSUME NEW s \in Seq(made), s \in T, NEW b \in made
      PROVE  Append(s, b) \in T
  <2>1. new(Append(s, b)) = ReplayBlock(header', new(s), b)
    BY FReplay!FoldAppend
  <2>2. old(Append(s, b)) = ReplayBlock(header, old(s), b)
    BY FReplay!FoldAppend
  <2>3. Append(s, b) \in Seq(made) /\ new(s) = old(s) /\ IsLedger(old(s))
    BY <1>2
  <2>4. header'[b] = header[b] /\ header[b].txs \in Seq(Tx)
    BY DEF HeadersKept, Typed
  <2> HIDE DEF new, old
  <2>5. ReplayBlock(header', old(s), b) = ReplayBlock(header, old(s), b)
    BY <2>4 DEF ReplayBlock
  <2>6. IsLedger(ReplayBlock(header, old(s), b))
    BY <2>3, <2>4, ExecuteIsSerial DEF ReplayBlock
  <2> QED
    BY <2>1, <2>2, <2>3, <2>5, <2>6
<1> HIDE DEF T
<1>3. Seq(made) \subseteq T
  BY <1>1, <1>2, FReplay!SeqInSteps
<1> QED
  BY <1>3 DEF T

\* A block added is executed by the replay as by the node.
LEMMA FollowsKept ==
  ASSUME ChainInv, LedgerInv, StoreStep, HeadersKept
  PROVE  Follows'
<1> SUFFICES ASSUME NEW n \in Node PROVE SameBalances(ledger'[n], Replay(n)')
  BY DEF Follows, SameBalances
<1> DEFINE old == FReplay!Fold(header, Funds, chain[n])
<1>1. Replay(n)' = FReplay!Fold(header', Funds, chain'[n])
  BY DEF Replay, FReplay!Fold, FoldLeft, MapThenFoldSet, Max,
         FReplay!FoldLeft, FReplay!MapThenFoldSet, FReplay!Max
<1>2. chain[n] \in Seq(made)
  BY DEF ChainInv, OnlyMade
<1>3. /\ FReplay!Fold(header', Funds, chain[n]) = old
      /\ IsLedger(old) /\ SameBalances(ledger[n], old)
  BY <1>2, ReplayKept, ReplayFolds DEF LedgerInv, Follows, Replay
<1> HIDE DEF old
<1>4. CASE Quietly(n)
  BY <1>1, <1>3, <1>4 DEF Quietly, SameBalances
<1>5. CASE Adds(n)
  <2>0. PICK b \in made' : \E c : /\ IsLedger(c) /\ SameBalances(c, ledger[n])
                                  /\ chain'[n] = Append(chain[n], b)
                                  /\ ledger'[n] = Execute(c, header'[b].txs)
    BY <1>5 DEF Adds
  <2>1. PICK c : /\ IsLedger(c) /\ SameBalances(c, ledger[n])
                 /\ chain'[n] = Append(chain[n], b)
                 /\ ledger'[n] = Execute(c, header'[b].txs)
    BY <2>0
  <2>2. chain[n] \in Seq(made') /\ header'[b].txs \in Seq(Tx)
    BY <1>2, SeqMonotone DEF HeadersKept
  <2>3. FReplay!Fold(header', Funds, chain'[n]) = Execute(old, header'[b].txs)
    BY <1>3, <2>1, <2>2, FReplay!FoldAppend DEF ReplayBlock
  <2>4. SameBalances(c, old)
    BY <1>3, <2>1 DEF SameBalances
  <2>5. SameBalances(ledger'[n], Execute(old, header'[b].txs))
    BY <1>3, <2>1, <2>2, <2>4, ExecuteAlike
  <2> QED
    BY <1>1, <2>3, <2>5
<1> QED
  BY <1>4, <1>5 DEF StoreStep

-----------------------------------------------------------------------------
LEMMA AppendOnce ==
  ASSUME NEW S, NEW s \in Seq(S), IsInjective(s), NEW e \in S, ~ Contains(s, e)
  PROVE  IsInjective(Append(s, e))
<1>1. \A i, j \in 1 .. Len(s) : s[i] = s[j] => i = j
  BY DEF IsInjective
<1> QED
  BY <1>1 DEF IsInjective, Contains

LEMMA HandleLeaves ==
  ASSUME NEW n, NEW p, Handle(n, p)
  PROVE  wire[p][n] # <<>> /\ UNCHANGED <<pool, proposal>>
BY DEF Handle, IgnoreSeen, IgnoreOld, RequestChain, Validate, FreshBlock,
       HandleBlockchainRequest, HandleBlockchain, Arrived

\* A transaction joins the pool once.
LEMMA PoolKept ==
  ASSUME Typed, [Next]_vars
  PROVE  pool' \in [Node -> Seq(Tx)] /\ \A n \in Node : IsInjective(pool'[n])
<1>1. pool \in [Node -> Seq(Tx)] /\ \A n \in Node : IsInjective(pool[n])
  BY DEF Typed
<1>2. CASE \E n \in Node, t \in Tx : SubmitTransaction(n, t)
  <2>1. PICK n \in Node, t \in Tx :
          ~ Contains(pool[n], t) /\ pool' = [pool EXCEPT ![n] = Append(@, t)]
    BY <1>2 DEF SubmitTransaction
  <2>2. Append(pool[n], t) \in Seq(Tx) /\ pool[n] \in Seq(Tx)
    BY <1>1
  <2>3. IsInjective(Append(pool[n], t))
    BY <1>1, <2>1, <2>2, AppendOnce
  <2>4. pool' \in [Node -> Seq(Tx)] /\ pool'[n] = Append(pool[n], t)
    BY <1>1, <2>1, <2>2
  <2>5. \A m \in Node : m # n => pool'[m] = pool[m]
    BY <1>1, <2>1
  <2> QED
    BY <1>1, <2>3, <2>4, <2>5
<1>3. CASE pool' = pool
  BY <1>1, <1>3
<1> QED
  BY <1>2, <1>3, HandleLeaves DEF Next, Connected, CreateBlock, LateSync, AnnounceBlock,
       AnnounceFails, PostBlock, PostTimesOut, Disconnect, vars

\* Only blocks that exist are marked seen or refused.
LEMMA MarksKept ==
  ASSUME ChainInv, Typed, [Next]_vars, made \subseteq made'
  PROVE  seen' \in [Node -> SUBSET made'] /\ refused' \subseteq Node \X made'
<1>1. /\ seen \in [Node -> SUBSET made] /\ refused \subseteq Node \X made
      /\ \A n \in Node : proposal[n].block \in made
  BY DEF Typed, ChainInv, OnlyMade
<1>2. CASE \E n \in Node, p \in Node : Handle(n, p)
  <2>1. PICK n \in Node, p \in Node : Handle(n, p)
    BY <1>2
  <2>2. wire[p][n] # <<>>
    BY <2>1, HandleLeaves
  <2>3. Incoming(n, p) \in made
    BY <2>2, TakenTyped
  <2>4. seen' = seen \/ seen' = [seen EXCEPT ![n] = @ \cup {Incoming(n, p)}]
    BY <2>1 DEF Handle, IgnoreSeen, IgnoreOld, RequestChain, Validate, FreshBlock,
         HandleBlockchainRequest, HandleBlockchain
  <2>5. refused' = refused \/ refused' = refused \cup {<<n, Incoming(n, p)>>}
    BY <2>1 DEF Handle, IgnoreSeen, IgnoreOld, RequestChain, Validate,
         HandleBlockchainRequest, HandleBlockchain
  <2> QED
    BY <1>1, <2>3, <2>4, <2>5
<1>3. CASE \E n \in Node : AnnounceBlock(n)
  BY <1>1, <1>3 DEF AnnounceBlock
<1>4. CASE UNCHANGED <<seen, refused>>
  BY <1>1, <1>4
<1> QED
  BY <1>2, <1>3, <1>4 DEF Next, Connected, SubmitTransaction, CreateBlock, LateSync, AnnounceFails,
       PostBlock, PostTimesOut, Disconnect, vars

\* A proposer posts to the nodes whose port is tried.
LEMMA TodoKept ==
  ASSUME ChainInv, Typed, [Next]_vars
  PROVE  \A n \in Node : proposal'[n].todo \subseteq HttpPorts
<1>1. /\ proposal \in [Node -> [block : made, todo : SUBSET Node]]
      /\ \A n \in Node : proposal[n].todo \subseteq HttpPorts
  BY DEF Typed, ChainInv, OnlyMade
<1>2. CASE \E n \in Node, b \in Block : CreateBlock(n, b)
  BY <1>1, <1>2 DEF CreateBlock
<1>3. CASE \E n \in Node, m \in Node : PostBlock(n, m) \/ PostTimesOut(n, m)
  <2>1. PICK n \in Node, m \in Node : proposal' = [proposal EXCEPT ![n].todo = @ \ {m}]
    BY <1>3 DEF PostBlock, PostTimesOut
  <2> QED
    BY <1>1, <2>1
<1>4. CASE \E n \in Node : AnnounceBlock(n) \/ AnnounceFails(n)
  <2>1. PICK n \in Node : proposal' = [proposal EXCEPT ![n].block = NoBlock]
    BY <1>4 DEF AnnounceBlock, AnnounceFails
  <2> QED
    BY <1>1, <2>1
<1>5. CASE UNCHANGED proposal
  BY <1>1, <1>5
<1> QED
  BY <1>2, <1>3, <1>4, <1>5, HandleLeaves DEF Next, Connected, SubmitTransaction, LateSync,
       Disconnect, vars

LEMMA LedgerNext == ChainInv /\ LedgerInv /\ [Next]_vars => LedgerInv'
<1> SUFFICES ASSUME ChainInv, LedgerInv, [Next]_vars PROVE LedgerInv'
  OBVIOUS
<1>1. StoreStep /\ HeadersKept
  BY NextStores DEF LedgerInv
<1>2. Follows'
  BY <1>1, FollowsKept
<1>3. Typed'
  <2>1. seen' \in [Node -> SUBSET made'] /\ refused' \subseteq Node \X made'
    BY <1>1, MarksKept DEF LedgerInv, HeadersKept
  <2>2. pool' \in [Node -> Seq(Tx)] /\ \A n \in Node : IsInjective(pool'[n])
    BY PoolKept DEF LedgerInv
  <2>3. \A n \in Node : proposal'[n].todo \subseteq HttpPorts
    BY TodoKept DEF LedgerInv
  <2> QED
    BY <1>1, <2>1, <2>2, <2>3 DEF Typed, StoreStep, HeadersKept
<1> QED
  BY <1>2, <1>3 DEF LedgerInv

LEMMA LedgerInit == Init => LedgerInv
<1> SUFFICES ASSUME Init PROVE LedgerInv
  OBVIOUS
<1>1. made = {Genesis} /\ IsLedger(Funds)
  BY NetworkAssumption DEF Init, made
<1>2. Typed
  <2>1. <<>> \in Seq(Tx) /\ IsInjective(<<>>)
    BY DEF IsInjective
  <2>2. \A b \in made : /\ header[b].parent \in made /\ header[b].count \in Nat
                        /\ header[b].txs \in Seq(Tx) /\ IsLedger(header[b].root)
    BY <1>1, <2>1 DEF Init
  <2>3. ledger \in [Node -> LedgerSet]
    BY <1>1, LedgerIsMember DEF Init
  <2> QED
    BY <2>1, <2>2, <2>3 DEF Typed, Init
<1>3. ASSUME NEW n \in Node PROVE SameBalances(ledger[n], Replay(n))
  <2>1. chain[n] = <<Genesis>> /\ ledger[n] = Funds
    BY <1>3 DEF Init
  <2>2. Replay(n) = ReplayBlock(header, Funds, Genesis)
    <3>1. FReplay!Fold(header, Funds, <<Genesis>>) = ReplayBlock(header, Funds, Genesis)
      BY FReplay!FoldOne
    <3>2. Replay(n) = FReplay!Fold(header, Funds, chain[n])
      BY ReplayFolds DEF Replay
    <3> QED
      BY <2>1, <3>1, <3>2
  <2>3. header[Genesis].txs = <<>>
    BY DEF Init
  <2>4. SameBalances(Execute(Funds, <<>>), Funds)
    BY <1>1, ExecuteNothing
  <2> QED
    BY <2>1, <2>2, <2>3, <2>4 DEF ReplayBlock, SameBalances
<1> QED
  BY <1>2, <1>3 DEF LedgerInv, Follows

LEMMA LedgerSpec == Spec => [](ChainInv /\ VoteInv /\ LedgerInv)
<1>1. Init => ChainInv /\ VoteInv /\ LedgerInv
  BY ChainInit, VoteInit, LedgerInit
<1>2. ChainInv /\ VoteInv /\ LedgerInv /\ [Next]_vars => (ChainInv /\ VoteInv /\ LedgerInv)'
  BY NextSteps, VoteNext, LedgerNext
<1> QED
  BY <1>1, <1>2, PTL DEF Spec

\* Every block named anywhere exists, pools hold no transaction twice, and ledgers
\* and state roots never have a negative balance.
THEOREM TypeCorrect == Spec => []TypeOK
<1>1. ChainInv /\ VoteInv /\ LedgerInv => TypeOK
  <2> SUFFICES ASSUME ChainInv, VoteInv, LedgerInv PROVE TypeOK
    OBVIOUS
  <2>1. \A b \in made : /\ header[b].parent \in made
                        /\ header[b].count \in Nat
                        /\ \A i \in DOMAIN header[b].txs : header[b].txs[i] \in Tx
                        /\ IsLedger(header[b].root)
    BY DEF LedgerInv, Typed
  <2>2. ASSUME NEW n \in Node
        PROVE  /\ chain[n] # <<>> /\ \A i \in DOMAIN chain[n] : chain[n][i] \in made
               /\ IsLedger(ledger[n])
               /\ IsInjective(pool[n]) /\ \A i \in DOMAIN pool[n] : pool[n][i] \in Tx
               /\ seen[n] \subseteq made
               /\ proposal[n].block \in made /\ proposal[n].todo \subseteq HttpPorts
    <3>1. chain[n] \in Seq(made) /\ chain[n] # <<>> /\ proposal[n].block \in made
      BY DEF ChainInv, OnlyMade, TipNumbered
    <3>2. pool[n] \in Seq(Tx) /\ IsInjective(pool[n]) /\ seen[n] \subseteq made
          /\ proposal[n].todo \subseteq HttpPorts
      BY DEF LedgerInv, Typed
    <3> QED
      BY <3>1, <3>2, LedgersTyped DEF LedgerInv
  <2> QED
    BY <2>1, <2>2 DEF TypeOK, ChainInv, OnlyMade, VoteInv, VotesAdded, LedgerInv, Typed
<1> QED
  BY <1>1, LedgerSpec, PTL

\* The ledger of a node gives every account the balance that executing the blocks
\* of its chain on the genesis ledger gives: the trial runs of block_valid, the
\* look-ups of transactions_valid for blocks it refuses, and blocks that come over
\* both transports leave no trace in the balances.
THEOREM LedgersFollow == Spec => []LedgerFollowsChain
<1>1. LedgerInv => LedgerFollowsChain
  <2> SUFFICES ASSUME LedgerInv, NEW n \in Node, NEW a \in Account
               PROVE  Balance(ledger[n], a) = Balance(Replay(n), a)
    BY DEF LedgerFollowsChain
  <2> QED
    BY DEF LedgerInv, Follows, SameBalances
<1> QED
  BY <1>1, LedgerSpec, PTL
=============================================================================
