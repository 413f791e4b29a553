------------------------------ MODULE Recovery ------------------------------
(***************************************************************************)
(* A node that was restarted, or is new, comes back with a snapshot of a   *)
(* running one.                                                            *)
(*                                                                         *)
(* The source is the leader; its slot thread executes a block on the live  *)
(* accounts, appends it and posts it, while an API request copies a        *)
(* snapshot in between.  The snapshot reaches the other node as a request  *)
(* of its own, in the event loop that also takes the posted blocks.        *)
(* Blocks without transactions come over P2P as well, in another thread;   *)
(* those with transactions never do (Network, AnnounceFails).              *)
(*                                                                         *)
(* Nothing is on disk, so a node restarts with the genesis block.  With    *)
(* one leader there are no forks and a block is its number.                *)
(***************************************************************************)
EXTENDS Integers, Sequences, SequencesExt

CONSTANTS
  Full,        \* the blocks that have transactions
  Window,      \* 100: a snapshot carries the last blocks only
  MaxHeight,   \* a bound on the source's chain,
  MaxSnapshots,\* on the snapshots taken
  MaxRestarts  \* and on the restarts

ASSUME RecoveryAssumption ==
  /\ Full \subseteq Nat \ {0}
  /\ Window \in Nat \ {0}
  /\ {MaxHeight, MaxSnapshots, MaxRestarts} \subseteq Nat

Block == 0 .. MaxHeight

\* What a block with transactions does to the accounts: it debits the senders,
\* and then credits the receivers.
Effect == Full \X {"debit", "credit"}

VARIABLES
  height,    \* the source: the number of its last block
  half,      \* 0, 1 (debits) or 2 (credits too): how far the next one is executed
  posts,     \* blocks posted to the node and not handled yet
  snapPc,    \* the snapshot: "none", "height", "balances", "held"
  snap,      \* its block_height, balances (the effects in them, and those
             \* whose accounts they name) and recent_blocks
  snapshots, \* how many were begun
  blocks,    \* the node: its chain,
  done,      \* how often each effect is in its balances,
  seen,      \* seen_blocks,
  loop,      \* what its event loop does
  p2p,       \* the block its P2P thread has checked; 0 if none
  restarts,  \* how often it was restarted
  skew,      \* blocks on which balances and blocks of its snapshot disagree,
  left,      \* blocks its snapshot took from the chain and not from all accounts
  disturbed  \* a thread appended to another chain than it had checked

source == <<height, half>>
snapshot == <<snapPc, snap, snapshots>>
chain == <<blocks, done>>
history == <<skew, left, disturbed>>
vars == <<source, posts, snapshot, chain, seen, loop, p2p, restarts, history>>

NoSnap == [height |-> 0, done |-> [e \in Effect |-> 0], named |-> {}, blocks |-> <<>>]
Idle == [task |-> "idle", at |-> 0]

\* The node starts at any time, the source with it here.
Init ==
  /\ height = 0 /\ half = 0 /\ posts = {}
  /\ snapPc = "none" /\ snap = NoSnap /\ snapshots = 0
  /\ blocks = <<0>> /\ done = [e \in Effect |-> 0]
  /\ seen = {} /\ loop = Idle /\ p2p = 0
  /\ restarts = 0 /\ skew = {} /\ left = {} /\ disturbed = FALSE

-----------------------------------------------------------------------------
(* The source *)

\* (A bug for comparison: nothing stops at the last delta.)
BugExecuteHalf ==
  /\ height < MaxHeight
  /\ height + 1 \in Full
  /\ half' = half + 1
  /\ UNCHANGED <<height, posts, snapshot, chain, seen, loop, p2p, restarts, history>>

\* create_block: the deltas of the transactions go to the live accounts.
ExecuteHalf ==
  /\ height < MaxHeight
  /\ height + 1 \in Full /\ half < 2
  /\ half' = half + 1
  /\ UNCHANGED <<height, posts, snapshot, chain, seen, loop, p2p, restarts, history>>

\* ... and the block goes to the chain, and to the node.
AppendAndPost ==
  /\ height < MaxHeight
  /\ height + 1 \in Full => half = 2
  /\ height' = height + 1
  /\ half' = 0
  /\ posts' = posts \cup {height + 1}
  /\ UNCHANGED <<snapshot, chain, seen, loop, p2p, restarts, history>>

\* The effects in the source's balances, while a block is half executed as well.
Executed ==
  {e \in Effect : \/ e[1] <= height
                  \/ e[1] = height + 1 /\ half >= (IF e[2] = "debit" THEN 1 ELSE 2)}
Recent == LET first == IF height + 1 > Window THEN height + 1 - Window ELSE 0
          IN  [i \in 1 .. height + 1 - first |-> first + i - 1]

\* create_snapshot reads the height, ...
SnapHeight ==
  /\ snapPc = "none" /\ snapshots < MaxSnapshots
  /\ snapPc' = "height"
  /\ snap' = [NoSnap EXCEPT !.height = height + 1]
  /\ snapshots' = snapshots + 1
  /\ UNCHANGED <<source, posts, chain, seen, loop, p2p, restarts, history>>

\* ... copies the balances of the accounts there are by now: those of the effects
\* in them, and of others: genesis accounts, and those whose balance somebody has
\* asked for, which creates them ...
SnapBalances ==
  /\ snapPc = "height"
  /\ snapPc' = "balances"
  /\ \E others \in SUBSET Effect :
       snap' = [snap EXCEPT !.done = [e \in Effect |-> IF e \in Executed THEN 1 ELSE 0],
                            !.named = Executed \cup others]
  /\ UNCHANGED <<source, posts, snapshots, chain, seen, loop, p2p, restarts, history>>

\* (A bug for comparison: the blocks are copied with the height.)
BugSnapBlocks ==
  /\ snapPc = "balances"
  /\ snapPc' = "held"
  /\ snap' = [snap EXCEPT !.blocks = [i \in 1 .. snap.height |-> i - 1]]
  /\ UNCHANGED <<source, posts, snapshots, chain, seen, loop, p2p, restarts, history>>

\* ... and then the last blocks, without a lock.
SnapBlocks ==
  /\ snapPc = "balances"
  /\ snapPc' = "held"
  /\ snap' = [snap EXCEPT !.blocks = Recent]
  /\ UNCHANGED <<source, posts, snapshots, chain, seen, loop, p2p, restarts, history>>

-----------------------------------------------------------------------------
(* The node's event loop *)

\* block_count_valid and last_block_hash_valid; on an empty chain they raise.
Extends(b) == blocks # <<>> /\ Last(blocks) = b - 1

\* sync_blockchain: a posted block is checked ...
SyncCheck(b) ==
  /\ loop = Idle
  /\ b \in posts
  /\ posts' = posts \ {b}
  /\ loop' = IF Extends(b) THEN [task |-> "sync", at |-> b] ELSE loop
  /\ UNCHANGED <<source, snapshot, chain, seen, p2p, restarts, history>>

\* ... and executed and appended.
SyncAdd ==
  /\ loop.task = "sync"
  /\ done' = [e \in Effect |-> IF e[1] = loop.at THEN done[e] + 1 ELSE done[e]]
  /\ blocks' = Append(blocks, loop.at)
  /\ loop' = Idle
  /\ disturbed' = (disturbed \/ ~ Extends(loop.at))
  /\ UNCHANGED <<source, posts, snapshot, seen, p2p, restarts, skew, left>>

\* In the balances d, the block b is executed once if it is not after tip, else never.
Agrees(d, b, tip) ==
  \A e \in Effect : e[1] = b => d[e] = IF b <= tip THEN 1 ELSE 0

\* Effects the node has on accounts that the snapshot s does not name.
Kept(s) == {e \in Effect \ s.named : done[e] > 0}

\* apply_snapshot sets the balances it names; other accounts stay as they are, ...
ApplyBalances ==
  /\ loop = Idle
  /\ snapPc = "held"
  /\ done' = [e \in Effect |-> IF e \in snap.named THEN snap.done[e] ELSE done[e]]
  /\ skew' = {b \in Full : ~ Agrees(snap.done, b, Last(snap.blocks))}
  /\ left' = {b \in Full : b > Last(snap.blocks) /\ \E e \in Kept(snap) : e[1] = b}
  /\ loop' = [task |-> "clear", at |-> 0]
  /\ UNCHANGED <<source, posts, snapshot, blocks, seen, p2p, restarts, disturbed>>

\* (A bug for comparison: the old blocks stay.)
BugApplyClear ==
  /\ loop.task = "clear"
  /\ loop' = [task |-> "refill", at |-> 0]
  /\ UNCHANGED <<source, posts, snapshot, chain, seen, p2p, restarts, history>>

\* ... empties the chain ...
ApplyClear ==
  /\ loop.task = "clear"
  /\ blocks' = <<>>
  /\ loop' = [task |-> "refill", at |-> 0]
  /\ disturbed' = FALSE
  /\ UNCHANGED <<source, posts, snapshot, done, seen, p2p, restarts, skew, left>>

\* (A bug for comparison: newest first.)
BugApplyBlock ==
  /\ loop.task = "refill"
  /\ loop.at < Len(snap.blocks)
  /\ blocks' = Append(blocks, snap.blocks[Len(snap.blocks) - loop.at])
  /\ loop' = [loop EXCEPT !.at = @ + 1]
  /\ UNCHANGED <<source, posts, snapshot, done, seen, p2p, restarts, history>>

\* ... and fills it again, block by block.
ApplyBlock ==
  /\ loop.task = "refill"
  /\ loop.at < Len(snap.blocks)
  /\ blocks' = Append(blocks, snap.blocks[loop.at + 1])
  /\ loop' = [loop EXCEPT !.at = @ + 1]
  /\ UNCHANGED <<source, posts, snapshot, done, seen, p2p, restarts, history>>

\* The schedule follows; the request is answered and the snapshot forgotten.
ApplyDone ==
  /\ loop.task = "refill"
  /\ loop.at = Len(snap.blocks)
  /\ loop' = Idle
  /\ snapPc' = "none" /\ snap' = NoSnap
  /\ UNCHANGED <<source, posts, snapshots, chain, seen, p2p, restarts, history>>

-----------------------------------------------------------------------------
(* The node's P2P thread *)

\* handle_block for a block without transactions.  It is marked seen before
\* the checks, also when they raise because the chain is just empty.
P2PCheck(b) ==
  /\ p2p = 0
  /\ b \in 1 .. height \ Full
  /\ b \notin seen
  /\ seen' = seen \cup {b}
  /\ p2p' = IF b >= Len(blocks) /\ Extends(b) THEN b ELSE 0
  /\ UNCHANGED <<source, posts, snapshot, chain, loop, restarts, history>>

\* block_valid compares the state roots ...
RootMatches(b) == \A f \in Full : Agrees(done, f, b)

P2PReject ==
  /\ p2p # 0
  /\ ~ RootMatches(p2p)
  /\ p2p' = 0
  /\ UNCHANGED <<source, posts, snapshot, chain, seen, loop, restarts, history>>

\* ... votes, executes nothing and appends the block.
P2PAdd ==
  /\ p2p # 0
  /\ RootMatches(p2p)
  /\ blocks' = Append(blocks, p2p)
  /\ p2p' = 0
  /\ disturbed' = (disturbed \/ ~ Extends(p2p) \/ loop.task = "refill")
  /\ UNCHANGED <<source, posts, snapshot, done, seen, loop, restarts, skew, left>>

-----------------------------------------------------------------------------
\* The node is killed and started again; requests in hand fail.
Restart ==
  /\ restarts < MaxRestarts
  /\ restarts' = restarts + 1
  /\ blocks' = <<0>> /\ done' = [e \in Effect |-> 0]
  /\ seen' = {} /\ loop' = Idle /\ p2p' = 0 /\ posts' = {}
  /\ skew' = {} /\ left' = {} /\ disturbed' = FALSE
  /\ IF loop.task \in {"clear", "refill"}
     THEN snapPc' = "none" /\ snap' = NoSnap
     ELSE UNCHANGED <<snapPc, snap>>
  /\ UNCHANGED <<source, snapshots>>

Apply == ApplyBalances \/ ApplyClear \/ ApplyBlock \/ ApplyDone

Next ==
  \/ ExecuteHalf \/ AppendAndPost
  \/ SnapHeight \/ SnapBalances \/ SnapBlocks
  \/ \E b \in Block : SyncCheck(b) \/ P2PCheck(b)
  \/ SyncAdd \/ Apply
  \/ P2PReject \/ P2PAdd
  \/ Restart

\* The event loop takes up a request it has received, and ends what it began.
Fairness == WF_vars(SyncAdd) /\ WF_vars(Apply)

Spec == Init /\ [][Next]_vars /\ Fairness

-----------------------------------------------------------------------------
(* Properties *)

\* The types of the two nodes and of the snapshot.
TypeOK ==
  /\ height \in Block /\ half \in 0 .. 2
  /\ posts \subseteq Block \ {0}
  /\ snapPc \in {"none", "height", "balances", "held"}
  /\ snap \in [height : 0 .. MaxHeight + 1, done : [Effect -> {0, 1}],
               named : SUBSET Effect, blocks : Seq(Block)]
  /\ snapshots \in 0 .. MaxSnapshots
  /\ blocks \in Seq(Block) /\ done \in [Effect -> Nat]
  /\ seen \subseteq Block \ Full
  /\ loop.task \in {"idle", "sync", "clear", "refill"} /\ loop.at \in Nat
  /\ p2p \in Block
  /\ restarts \in 0 .. MaxRestarts
  /\ skew \subseteq Full /\ left \subseteq Full /\ disturbed \in BOOLEAN

\* The balances of a snapshot are never ahead of its blocks by more than the
\* block that was being executed when they were copied, however the source's
\* thread interleaves with the copying.  (They may be behind by any number.)
AheadByOne ==
  snapPc = "held" =>
    /\ snap.blocks # <<>>
    /\ \A e \in Effect : snap.done[e] > 0 => e[1] <= Last(snap.blocks) + 1

\* Between requests the balances of the node are those of the blocks up to its
\* tip, each executed once, unless a thread appended to a chain it had not
\* checked, and but for two kinds of blocks: those on which the snapshot it came
\* back with disagreed with itself, and those it had executed beyond that
\* snapshot, on accounts that the snapshot does not name.
LedgerMatchesTip ==
  loop.task \in {"idle", "sync"} /\ ~ disturbed =>
    /\ blocks # <<>>
    /\ \A i \in 1 .. Len(blocks) - 1 : blocks[i + 1] = blocks[i] + 1
    /\ \A b \in Full \ (skew \cup left) : Agrees(done, b, Last(blocks))

\* A snapshot of the whole chain brings the node to its tip, unless the node is
\* restarted or another thread disturbs the refilling: it need not have been in
\* step before.
SnapshotBrings ==
  \A k \in 0 .. MaxRestarts :
    /\ snapPc = "held" /\ snap.blocks # <<>>
    /\ Last(snap.blocks) = MaxHeight /\ restarts = k
    ~> restarts # k \/ disturbed \/ (loop = Idle /\ Last(blocks) = MaxHeight)
=============================================================================
