----------------------------- MODULE NodeThreads ----------------------------
(***************************************************************************)
(* The threads of ONE node that write its chain, blockchain.blocks.        *)
(*                                                                         *)
(*   Slot      the slot production thread: SlotProducer -> propose_block   *)
(*             -> create_block;                                            *)
(*   P2P       the connection threads, which run handle_block;             *)
(*   Api       the HTTP server thread, which runs sync_blockchain.         *)
(*                                                                         *)
(* None of them takes a lock: each check and each append reads the chain   *)
(* as it is at that moment.  A block is an identifier with a header; its   *)
(* transactions are abstracted to the fact that executing it changes the   *)
(* accounts, so the history "executed" stands for the account state.       *)
(***************************************************************************)
EXTENDS Integers, Sequences, FiniteSets

CONSTANTS
  OwnBlock,   \* blocks this node may create
  PeerBlock,  \* blocks other nodes may create
  Genesis,    \* the genesis block
  Slot, P2P, Api, \* the slot thread and the sets of threads of the other kinds
  SeenLimit,  \* 1000: above it seen_blocks is cut ...
  SeenCut     \* ... by this many, 200

Block == OwnBlock \cup PeerBlock \cup {Genesis}
Thread == {Slot} \cup P2P \cup Api

ASSUME ThreadsAssumption ==
  /\ OwnBlock \cap PeerBlock = {}
  /\ Genesis \notin OwnBlock \cup PeerBlock
  /\ Slot \notin P2P \cup Api
  /\ P2P \cap Api = {}
  /\ SeenLimit \in Nat /\ SeenCut \in 1 .. SeenLimit

VARIABLES
  made,      \* blocks that exist
  header,    \* parent and block_count of those
  blocks,    \* blockchain.blocks
  executed,  \* blocks whose transactions were applied to account_model, in order
  votes,     \* blocks each connection thread voted for, in order
  seen,      \* node.seen_blocks
  posted,    \* own blocks sent over HTTP (_force_block_distribution)
  announced, \* own blocks broadcast over P2P
  pc,        \* what each thread does next
  item,      \* the block each thread works on
  expected   \* expected_block_count of propose_block

chain == <<blocks, executed>>
world == <<made, header>>
outbox == <<posted, announced>>
vars == <<world, chain, votes, seen, outbox, pc, item, expected>>

Tip == blocks[Len(blocks)]
Height(b) == header[b].count

Init ==
  /\ made = {Genesis}
  /\ header = [b \in Block |-> [parent |-> Genesis, count |-> 0]]
  /\ blocks = <<Genesis>>
  /\ executed = <<>>
  /\ votes = [t \in P2P |-> <<>>]
  /\ seen = {}
  /\ posted = {} /\ announced = {}
  /\ pc = [t \in Thread |-> "idle"]
  /\ item = [t \in Thread |-> Genesis]
  /\ expected = 0

At(t, l) == pc[t] = l

\* The thread goes on at l with the same block, or is done with it (the block
\* is forgotten: the local variable dies).
Goto(t, l) == pc' = [pc EXCEPT ![t] = l] /\ UNCHANGED item
Finish(t) == pc' = [pc EXCEPT ![t] = "idle"] /\ item' = [item EXCEPT ![t] = Genesis]
Begin(t, b, l) == pc' = [pc EXCEPT ![t] = l] /\ item' = [item EXCEPT ![t] = b]

-----------------------------------------------------------------------------
(* Other nodes *)

\* A peer extends any block it knows of.  (header is meaningful for blocks
\* in made only.)
PeerMakes(b, p) ==
  /\ b \in PeerBlock \ made
  /\ p \in made
  /\ p \in OwnBlock => p \in posted \cup announced
  /\ made' = made \cup {b}
  /\ header' = [header EXCEPT ![b] = [parent |-> p, count |-> Height(p) + 1]]
  /\ UNCHANGED <<chain, votes, seen, outbox, pc, item, expected>>

\* What the transports may deliver, any number of times and in any order:
\* every peer rebroadcasts what it accepts.
OverP2P == (made \cap PeerBlock) \cup announced
OverHttp == (made \cap PeerBlock) \cup posted

-----------------------------------------------------------------------------
(* propose_block and create_block *)

\* (A bug for comparison: the number expected is the one before the tip's.)
BugStartProposal(b) ==
  /\ At(Slot, "idle")
  /\ b \in OwnBlock \ made
  /\ expected' = Height(Tip) - 1
  /\ Begin(Slot, b, "read_tip")
  /\ UNCHANGED <<world, chain, votes, seen, outbox>>

\* propose_block notes the length of the chain; the new block will be b.
StartProposal(b) ==
  /\ At(Slot, "idle")
  /\ b \in OwnBlock \ made
  /\ expected' = Len(blocks)
  /\ Begin(Slot, b, "read_tip")
  /\ UNCHANGED <<world, chain, votes, seen, outbox>>

\* create_block hashes the last block before it executes anything.
ReadTip ==
  /\ At(Slot, "read_tip")
  /\ header' = [header EXCEPT ![item[Slot]].parent = Tip]
  /\ Goto(Slot, "execute")
  /\ UNCHANGED <<made, chain, votes, seen, outbox, expected>>

ExecuteOwn ==
  /\ At(Slot, "execute")
  /\ executed' = Append(executed, item[Slot])
  /\ Goto(Slot, "create")
  /\ UNCHANGED <<world, blocks, votes, seen, outbox, expected>>

\* (A bug for comparison: blocks are numbered from one.)
BugCreateOwn ==
  /\ At(Slot, "create")
  /\ header' = [header EXCEPT ![item[Slot]].count = Len(blocks) + 1]
  /\ made' = made \cup {item[Slot]}
  /\ Goto(Slot, "append")
  /\ UNCHANGED <<chain, votes, seen, outbox, expected>>

\* The block gets its number, the length of the chain NOW, and is signed.
CreateOwn ==
  /\ At(Slot, "create")
  /\ header' = [header EXCEPT ![item[Slot]].count = Len(blocks)]
  /\ made' = made \cup {item[Slot]}
  /\ Goto(Slot, "append")
  /\ UNCHANGED <<chain, votes, seen, outbox, expected>>

AppendOwn ==
  /\ At(Slot, "append")
  /\ blocks' = Append(blocks, item[Slot])
  /\ Goto(Slot, "post")
  /\ UNCHANGED <<world, executed, votes, seen, outbox, expected>>

\* _force_block_distribution posts to ports 11001..11009, the node's own
\* among them unless it is the first node.
PostOwn ==
  /\ At(Slot, "post")
  /\ posted' = posted \cup {item[Slot]}
  /\ Goto(Slot, "race_check")
  /\ UNCHANGED <<world, chain, votes, seen, announced, expected>>

\* Back in propose_block: "Double-check that no block was added".
Abort ==
  /\ At(Slot, "race_check")
  /\ Height(item[Slot]) # expected
  /\ Finish(Slot)
  /\ UNCHANGED <<world, chain, votes, seen, outbox, expected>>

MarkOwn ==
  /\ At(Slot, "race_check")
  /\ Height(item[Slot]) = expected
  /\ seen' = seen \cup {item[Slot]}
  /\ Goto(Slot, "announce")
  /\ UNCHANGED <<world, chain, votes, outbox, expected>>

\* The clean-up before that raises when the block has transactions, and the mark
\* itself while the constructor, which has started this thread, has not come to
\* seen_blocks yet: the block is neither marked nor broadcast.
CleanUpFails ==
  /\ At(Slot, "race_check")
  /\ Height(item[Slot]) = expected
  /\ Finish(Slot)
  /\ UNCHANGED <<world, chain, votes, seen, outbox, expected>>

Announce ==
  /\ At(Slot, "announce")
  /\ announced' = announced \cup {item[Slot]}
  /\ Finish(Slot)
  /\ UNCHANGED <<world, chain, votes, seen, posted, expected>>

SlotStep ==
  \/ \E b \in OwnBlock : StartProposal(b)
  \/ ReadTip \/ ExecuteOwn \/ CreateOwn \/ AppendOwn \/ PostOwn
  \/ Abort \/ MarkOwn \/ CleanUpFails \/ Announce

-----------------------------------------------------------------------------
(* Validation and addition, common to handle_block and sync_blockchain *)

receiving == <<world, votes, seen, outbox, expected>>

CountValid(b) == Height(b) = Height(Tip) + 1
HashValid(b) == header[b].parent = Tip

\* block_count_valid, then last_block_hash_valid: two reads of the tip.
CheckCount(t) ==
  /\ At(t, "check_count")
  /\ IF CountValid(item[t]) THEN Goto(t, "check_hash") ELSE Finish(t)
  /\ UNCHANGED <<receiving, chain>>

\* (Bugs for comparison: the parent is not checked; blocks synced over HTTP are
\* added without being executed.)
BugCheckHash(t) ==
  /\ At(t, "check_hash")
  /\ Goto(t, IF t \in P2P THEN "re_execute" ELSE "execute")
  /\ UNCHANGED <<receiving, chain>>

BugCheckHashOnly(t) ==
  /\ At(t, "check_hash")
  /\ IF HashValid(item[t])
     THEN Goto(t, IF t \in P2P THEN "re_execute" ELSE "append")
     ELSE Finish(t)
  /\ UNCHANGED <<receiving, chain>>

CheckHash(t) ==
  /\ At(t, "check_hash")
  /\ IF HashValid(item[t])
     THEN Goto(t, IF t \in P2P THEN "re_execute" ELSE "execute")
     ELSE Finish(t)
  /\ UNCHANGED <<receiving, chain>>

\* add_block: the executor first, then the append.
ExecuteReceived(t) ==
  /\ At(t, "execute")
  /\ executed' = Append(executed, item[t])
  /\ Goto(t, "append")
  /\ UNCHANGED <<receiving, blocks>>

AppendReceived(t) ==
  /\ At(t, "append")
  /\ blocks' = Append(blocks, item[t])
  /\ Finish(t)
  /\ UNCHANGED <<receiving, executed>>

-----------------------------------------------------------------------------
(* handle_block *)

\* The test of seen_blocks ...
ReceiveBlock(t, b) ==
  /\ At(t, "idle")
  /\ b \in OverP2P
  /\ b \notin seen
  /\ Begin(t, b, "mark")
  /\ UNCHANGED <<world, chain, votes, seen, outbox, expected>>

\* The cut takes any entries, as a set has no oldest ones.
Kept(hashes) ==
  IF Cardinality(hashes) <= SeenLimit THEN {hashes}
  ELSE {S \in SUBSET hashes : Cardinality(S) = Cardinality(hashes) - SeenCut}

\* ... and its update.
MarkSeen(t) ==
  /\ At(t, "mark")
  /\ seen' \in Kept(seen \cup {item[t]})
  /\ Goto(t, "length")
  /\ UNCHANGED <<world, chain, votes, outbox, expected>>

\* (A bug for comparison: heights the chain has already are not refused.)
BugCheckLength(t) ==
  /\ At(t, "length")
  /\ Goto(t, "fast_count")
  /\ UNCHANGED <<receiving, chain>>

\* "Check if we already have a block with this block_count".
CheckLength(t) ==
  /\ At(t, "length")
  /\ IF Height(item[t]) >= Len(blocks) THEN Goto(t, "fast_count") ELSE Finish(t)
  /\ UNCHANGED <<receiving, chain>>

\* The fast checks of count and hash, which block_valid repeats later: each reads
\* the chain anew.  A failure asks the peers for their chain, which changes
\* nothing here.
FastCount(t) ==
  /\ At(t, "fast_count")
  /\ IF CountValid(item[t]) THEN Goto(t, "fast_hash") ELSE Finish(t)
  /\ UNCHANGED <<receiving, chain>>

FastHash(t) ==
  /\ At(t, "fast_hash")
  /\ IF HashValid(item[t]) THEN Goto(t, "check_count") ELSE Finish(t)
  /\ UNCHANGED <<receiving, chain>>

\* block_valid re-executes the block on a copy of the accounts and compares
\* state roots: it rejects the block or votes for it.
RejectRoot(t) ==
  /\ At(t, "re_execute")
  /\ Finish(t)
  /\ UNCHANGED <<receiving, chain>>

Vote(t) ==
  /\ At(t, "re_execute")
  /\ votes' = [votes EXCEPT ![t] = Append(@, item[t])]
  /\ Goto(t, "execute")
  /\ UNCHANGED <<world, chain, seen, outbox, expected>>

P2PStep(t) ==
  \/ \E b \in Block : ReceiveBlock(t, b)
  \/ MarkSeen(t) \/ CheckLength(t) \/ FastCount(t) \/ FastHash(t)
  \/ RejectRoot(t) \/ Vote(t)

-----------------------------------------------------------------------------
(* sync_blockchain *)

ReceiveSync(t, b) ==
  /\ At(t, "idle")
  /\ b \in OverHttp
  /\ Begin(t, b, "check_count")
  /\ UNCHANGED <<world, chain, votes, seen, outbox, expected>>

ApiStep(t) == \E b \in Block : ReceiveSync(t, b)

-----------------------------------------------------------------------------
AddStep(t) == CheckCount(t) \/ CheckHash(t) \/ ExecuteReceived(t) \/ AppendReceived(t)

Next ==
  \/ \E b \in PeerBlock, p \in Block : PeerMakes(b, p)
  \/ SlotStep
  \/ \E t \in P2P : P2PStep(t) \/ AddStep(t)
  \/ \E t \in Api : ApiStep(t) \/ AddStep(t)

Spec == Init /\ [][Next]_vars

-----------------------------------------------------------------------------
(* Properties *)

Label == {"idle", "read_tip", "execute", "create", "append", "post", "race_check",
          "announce", "mark", "length", "fast_count", "fast_hash", "check_count", "check_hash",
          "re_execute"}

TypeOK ==
  /\ made \in SUBSET Block
  /\ header \in [Block -> [parent : Block, count : Nat]]
  /\ blocks \in Seq(Block) /\ blocks # <<>>
  /\ executed \in Seq(Block)
  /\ votes \in [P2P -> Seq(Block)]
  /\ seen \in SUBSET Block
  /\ posted \in SUBSET Block /\ announced \in SUBSET Block
  /\ pc \in [Thread -> Label]
  /\ item \in [Thread -> Block]
  /\ expected \in Nat

\* Whatever the threads do, a block enters the chain after its parent: the
\* chain may branch inside the list, but it has no orphan, because the tip a
\* block was built on or checked against stays in the list.
Rooted ==
  \A i \in 2 .. Len(blocks) : \E j \in 1 .. i - 1 : blocks[j] = header[blocks[i]].parent

\* Whatever the threads do, no block has a number above its position (counted
\* from 0): late appends make numbers repeat, never skip ahead, so the numbers
\* stay below len(blocks), which handle_block compares them with.
CountNeverAhead == \A i \in 1 .. Len(blocks) : Height(blocks[i]) <= i - 1

\* No block is in the chain whose transactions were not applied first.
ExecutedBeforeAdded ==
  \A i \in 2 .. Len(blocks) : \E j \in 1 .. Len(executed) : executed[j] = blocks[i]

\* The chain is a hash chain: each block names the one before it.
LinkedChain == \A i \in 2 .. Len(blocks) : header[blocks[i]].parent = blocks[i - 1]

\* Whatever the other threads append meanwhile, a connection thread never votes
\* twice at one height, nor goes back to a lower one: two votes of a node at one
\* height come from two threads, which found the block unseen at the same time.
VotesClimb ==
  \A t \in P2P : \A i, j \in 1 .. Len(votes[t]) :
    i < j => Height(votes[t][i]) < Height(votes[t][j])
=============================================================================
