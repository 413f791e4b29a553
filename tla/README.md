# VOSCS_Consensus: a TLA+ model

The repository is a blockchain node in Python, `src/blockchain/`: a leader
chosen by a schedule packs transactions into a block, executes them with a
parallel executor, and sends the block to the other nodes over HTTP and over
TCP; they validate it, vote and add it. This directory models the parts of the
node that decide what its chain and its accounts are. TLC checks each model on
a small instance; TLAPS proves the main invariants for every value of the
constants.

Paths below are relative to `src/blockchain/blockchain/` unless they start with
`src/`.

## 1. The system

### Components

| Component | State | Operations | Correct when |
|---|---|---|---|
| **Accounts** `account_model.py` | the accounts that exist and their balances, a lock per account | `get_balance` (creates the account), `update_balance` (refuses to go below 0) | no balance is negative; funds only move |
| **Sealevel executor** `sealevel_executor.py` | the batches of a block, the results of its workers | group a block into batches, read balances in worker threads, apply deltas | the result is that of a serial order, the same on every node; funds are conserved |
| **Chain** `blockchain.py` | `blocks`, `account_model`, `vote_tracker` | `create_block`, `add_block`, `block_valid`, `create_and_broadcast_vote` | the chain is linked and numbered; the accounts are those of the chain; one vote per height |
| **Node** `node.py` | `seen_blocks`, pools, threads | `propose_block`, `handle_block`, `handle_transaction`, `request_chain`, `handle_blockchain` | a valid block reaches every node; a node behind catches up |
| **HTTP** `src/blockchain/api/api_v1/blockchain/views.py` | none | `sync_blockchain` (blocks or a snapshot) | as for the chain |
| **Leader schedule** `consensus/leader_schedule.py` | epoch, its start time, tables of this and the next epoch | `update_schedule`, `get_current_slot`, `get_current_leader` | epochs come in turn; an announced table is used |
| **Slot producer** `slot_producer.py` | `last_slot_produced` | the production loop | one proposal per slot |
| **P2P** `p2p/socket_communication.py` | `_message_batch` shared by the connections | `node_message`, `_process_message_batch` | every message is handled |
| **Gulf Stream** `gulf_stream.py`, `fast_gulf_stream.py`, `consensus/gulf_stream.py`; **TPU** `consensus/tpu_listener.py` | local pool, forwarded and per-slot transactions | submit, forward over UDP, collect for a slot, remove after a block | a transaction is packed once |
| **Turbine** `turbine_protocol.py` | received shreds | shred, forward along a tree, recover, reassemble | a block is rebuilt from enough shreds |
| **Snapshots** `blockchain.py` | none of its own | `create_snapshot`, `apply_snapshot`, a restart from nothing | accounts and chain of the node that applies one agree |
| **Gossip** `src/blockchain/gossip_protocol/` | CRDS table, health records, active set, pruned peers | insert, push, pull, answer, prune, clean up | newer values win; a dead peer leaves, a pruned one stays out |
| **Inventory** `p2p/transaction_mempool.py` | transactions, pending requests | INV, GETDATA, TX | an announced transaction is fetched |
| **Quantum consensus: choice** `quantum_consensus/` | none | formulate a QUBO, anneal, repair, elect a leader | a committee of the size asked for, the best one when the annealer finds the lowest energy |
| **Quantum consensus: registry** `quantum_consensus/` | nodes, when each was seen | register, heartbeat (legacy mode only), filter the active ones, elect, clean up | who is healthy may vote, who is active may be elected, and an absence ends |
| **Vote tally** `blockchain.py` | `vote_tracker` | vote, count against two thirds of the healthy | consensus means that others agree |
| **Discovery** `p2p/peer_discovery_handler.py` | known peers | DISCOVERY rounds | the node graph connects |
| **Proof of History** `poh_sequencer.py` | a hash chain | append, verify | a correct block verifies |

### How they interact

A thread per job runs in each node: the slot thread (`propose_block` ->
`create_block` -> HTTP posts -> P2P broadcast), a thread for each TCP connection
(`node_message` -> `handle_block`), the threads of the HTTP server
(`sync_blockchain`, transaction submission), and helpers that update the
schedule. They share `blockchain.blocks`, the account model, `seen_blocks`, the registry
and the schedule. Single accounts have locks; nothing else that matters here has.
The schedule asks the registry for a leader of each slot; a vote asks it
whether the voter is healthy, and the tally how many are.

A block leaves its proposer twice. `_force_block_distribution` posts it to fixed
local ports from inside `create_block`, after the append; the receiver's
`sync_blockchain` checks number and parent and adds it, without a vote and
without marking it seen. Then `propose_block` broadcasts it over P2P; a receiver
of `handle_block` drops it when seen or old, checks number and parent,
re-executes it on a copy of the accounts, votes, adds it and rebroadcasts it.
For a block with transactions the second way does not exist: the clean-up before the
broadcast raises (section 5).

### What is hard here

 * every step of the slot, P2P and HTTP threads may fall between two of another;
 * two transports bring one block, late, twice or in the wrong order;
 * reading a balance creates an account, and the state root hashes every account;
 * the executor checks a balance at one moment and debits it at another, and any thread of a node may execute;
 * two nodes may both believe they lead a slot;
 * the schedule is advanced by whoever calls it, and time passes between its statements;
 * nothing is on disk, and a snapshot is copied and applied while blocks are made and taken;
 * who is healthy, active or pruned depends on clocks, and nobody tells the others.

`PROJECT.json` lists each of these hazards at its line, with the properties
that cover it or the reason why none does.

## 2. The modules

| Module | Models | How |
|---|---|---|
| `Ledger` | accounts, what a transaction reads and writes | A ledger is a function from the accounts **that exist** to their balances, so the accounts a read creates are part of the state. The state root is a hash of exactly this function and is modelled by it. |
| `BlockExec` | the executor as a function of ledger and block | `Batches` is `_create_parallel_batches`, `Execute` the whole of `execute_transactions_parallel`. |
| `BlockLists` | every list of transactions | a list that grows one transaction at a time, so that what holds of every list is an invariant. |
| `Folding` | nothing of the code | facts about `FoldLeft` for any operator and about sums over finite sets, which the proofs use; see section 4. |
| `Sealevel` | the executor step by step | grouping scan by scan, each worker's two reads, each delta an action; any number of executors share the accounts. |
| `NodeThreads` | the threads of one node on its chain | each read of the tip, each check and each append is an action, the three quick tests of handle_block included; a thread for each connection; other nodes extend any block they know and the transports deliver anything, any number of times. |
| `Network` | all the nodes | a handler is an action; HTTP posts (answered, or late, or never) and a FIFO of P2P messages for each connection; ledgers, pools and votes are full state. |
| `ChainAbs` | what the network promises of chains | a chain grows by one block that names its tip and has the next number. Nothing more: in particular not that chains agree. |
| `SlotClock` | schedule and slot producer | each statement of `update_schedule`, in any number of threads, and each write of `apply_snapshot` to the schedule is an action; time passes between any two. |
| `MessageBatch` | P2P intake | a thread for each connection; lists are objects: a thread goes on with the list it iterates over after it has been replaced. |
| `Committee` | the choice of a committee, or of one representative | one call: the annealer is external and returns any set, or raises; each removal or addition of the repair is an action; candidates are positions of the list, scores and risks integers. |
| `Registry` | the validators a node knows, elections, votes and their tally | one node in either P2P mode and a clock; the heartbeat, which may sleep longer or fail, is the legacy mode's; the other validators are entries of its table, since no message of theirs reaches it. |
| `Recovery` | snapshots, restart | the leader executes a block in halves and copies a snapshot in between; the node applies it statement by statement and keeps the accounts it does not name, while its P2P thread takes blocks; it may restart at any step. |
| `Peers` | the node itself and the others it knows | constants of `Registry` and `Gossip`. |
| `Gossip` | one gossip node among its peers | peers send any values in any order, crash and restart; handlers run to their end (one asyncio thread, no await in them that yields). |
| `MC*` | instances for TLC | constants and symmetry. |
| `*Proofs` | theorems | see section 4. |

`NodeThreads` and `Network` look at the same code from two sides. The first has
one node, every interleaving, and abstract transactions (the history `executed`
stands for the accounts). The second has several nodes and real ledgers, and runs each
handler to its end. `Sealevel` opens up the one step "execute" of both, and
`BlockExec` is the function that `Network` uses for it; the run `Sealevel_threads`
shows that the function and the steps agree for an executor that nobody else executes next to
(`MatchesExecute`, `FormsBatches`), and what still holds when somebody does.
`SlotClock` says when a node proposes; `Network` allows any node of `Leaders` to
propose at any time, which includes whatever schedules the nodes compute.
`Committee` is the function behind `Registry!Elect`, which takes any candidate;
`Registry` the guard of the vote. It may refuse: in the default mode a node that handles no transaction for
90 s is not healthy. `Network` and `NodeThreads` always grant it, and so allow every vote the code casts and more, which is safe
for what they say of votes (`OneVotePerHeight`, `VotesClimb`). `Recovery` continues `Network` for a node that lost its memory, with what
`Network` found about P2P: only blocks without transactions come that way.

Operators named `Bug...` are no part of the models. Each is a definition with a
plausible mistake in it (a check left out, an index off by one, a wrong order);
put in place of the real one, it makes a property fail, which shows that the
property says something about that definition.

### Variables and code

| Model | Code |
|---|---|
| `NodeThreads.blocks`, `Network.chain[n]` | `blockchain.blocks` |
| `NodeThreads.executed`, `Network.ledger[n]` | `blockchain.account_model` |
| `header` | `last_hash` (as the identifier of the parent), `block_count`, `transactions`, `state_root_hash` |
| `seen` | `node.seen_blocks` |
| `votes` | the calls of `create_and_broadcast_vote` |
| `pool[n]` | `blockchain.gulf_stream_node.local_transaction_pool`, which `create_block` reads |
| `proposal[n]` | the local variables of `_force_block_distribution`: the block and the ports not tried yet |
| `wire[n][m]`, `late` | messages on a TCP connection; posts that have timed out |
| `expected`, `item`, `pc` | `expected_block_count`, the local block, the program counter of a thread |
| `epoch`, `start`, `current`, `next` | `current_epoch`, `epoch_start_time`, `current_schedule`, `next_schedule` |
| `clock` | where `epoch_start_time` is from: `_shared_epoch_start_time` is set from the file (`"shared"`), by a snapshot, or not yet (`"own"`) |
| `update`, `snapshot` | the next statement of each thread in `update_schedule`, and of `apply_snapshot` |
| `slot`, `produced`, `wake` | `current_slot` and `last_slot_produced` of the loop, the end of its sleep |
| `lists`, `batch`, `stale` | the list objects, which of them is `_message_batch`, whether 0.5 s have passed |
| `Committee.size`, `wanted`, `score`, `risk`, `selected`, `leader` | the number of candidates, `k`, `effective_scores`, `total_penalty` of a pair, `selected_indices`, `primary_leader` |
| `Registry.mode`, `nodes`, `first`, `lastSeen`, `registered` | `p2p_mode`, the keys of `quantum_consensus.nodes` and the first of them, `last_seen` and `last_registration` of each |
| `Recovery.half`, `done` | the accounts of the source: how far the block in progress is executed; those of the node: how often the debits and the credits of each block are in them |
| `Recovery.snap`, `loop` | the dict of `create_snapshot` / `apply_snapshot` (`named`: whose accounts are keys of its balances), and where the event loop is in it |
| `Gossip.table`, `health` | `CRDS.table` (the wall clock of each key), `health_tracker` (no record, heard, not heard for 300 s, failed) |

`drawn`, `executed`, `proposals`, `updated`, `handled`, `probed`, `skew`, `left` and `disturbed` are histories; no guard reads them.

### Abstractions

 * **Identifiers.** A block's hash is its identifier, so two blocks never have the same hash; keys and
   transactions are model values or strings.
 * **Checks that always succeed.** Signatures, proof of history and the check of
   the proposer hold between correct nodes and are left out. `NodeThreads` lets
   re-execution fail or succeed freely; `Network` computes it.
 * **Amounts** are any integers; the code uses floats and checks their sign nowhere.
 * **Distribution.** `Network` leaves out the node's post to itself (refused by the
   number, as the block is appended by then) and the abort in `propose_block`,
   which needs a block to arrive between the append and the check; both are in
   `NodeThreads`, where the post to itself is `OverHttp`.
 * **The pool.** A transaction is submitted to a node; `forward_transaction_fast`
   raises and forwards nothing, so the pool of a node is filled by its own submissions only.
   The code keeps a second copy of a transaction and drops it when the pool is read; here it does not enter.
 * **`seen_blocks`** is cut in `NodeThreads` (above `SeenLimit`, by `SeenCut` entries, whichever the
   order of the set puts first); `Network` has too few blocks to cut it.
 * **Schedules.** `generate_epoch_schedule` returns any table of a given set: the
   score it is computed from is floating point over the node's own measurements.
 * **`node_message`** appends to the batch in one step, as one bytecode does.
 * **Scores** of validators are integers (`Committee`) or unknown (`Registry`: any of the active
   ones may rank first); `penalty_coefficient` outweighs them, as 1000.0 does in the code.
 * **Accounts of `Recovery`** are abstracted to the effects of blocks on them, the debits and the credits of each block: what
   matters is whether a snapshot catches a block in the middle, whether it names the accounts of an effect (those of
   genesis, and all that anybody has asked for, so any others beside those it holds effects of), and whether an effect is there twice.
 * **Times of `Registry`** are a few ticks in the order of the code's; the clock may pass any of them before a thread moves.
 * **Snapshots of `SlotClock`** come at any time, with any epoch of a set, a start of a set and a table whose keys JSON has made
   strings (`Unreadable`), or without one.
 * **Time of `Gossip`**: a value has a wall clock up to `MaxClock`; five minutes of silence and an hour
   of age are events that may come at any time. The bloom filter and the limit of three values make an answer any
   set of at most `PullLimit` values.

## 3. The runs

Each run asks one question. "Pass" runs find no violation; a "violation" run
shows a disagreement between the code and what the repository says of it
(section 5).

| Run | Question | Bounds, and why they are enough |
|---|---|---|
| `BlockExec_pass` | Is parallel execution serial execution, and where do funds come from? `Serializable`, `SupplyAccounted` | Every list of up to 4 transfers (`MaxLen`) out of six (a chain A-B-C-D, a second payment out of A, a self-transfer, a negative amount), repeats included, over every genesis balance up to 2 (`MaxFunds`). Four are enough for three batches, for a transfer overtaking one it conflicts with through a third, for one paid out of what another brings, and for a negative amount its receiver can or cannot pay. |
| `Sealevel_threads` | What do the workers' order, the split of the debit from its check, and a second thread do? `TypeOK`, `RefusedInRaceOnly`, `FundsKept`, `MatchesExecute`, `FormsBatches`, and `Terminates` | Two executors. One of them alone executes every list of up to 4 **different** transfers of seven, a self-transfer and a negative amount among them; or both execute at once, in nine pairs of lists that contend for the funds of one account. Two ledgers, one with missing accounts: batches of up to three workers, failed transfers, accounts created by reads, debits refused after a race. |
| `NodeThreads_all` | What of the chain survives the missing lock? `TypeOK`, `Rooted`, `CountNeverAhead`, `ExecutedBeforeAdded`, `VotesClimb` | Slot thread, two P2P threads, one HTTP thread, any two of them busy at once (`MaxBusy`); one own block, three of peers, no block above height 2 (`MaxHeight`; both are state constraints); `seen_blocks` forgets one of more than two. Two heights and four blocks give a fork, a late append, a chain in which a height repeats, two votes at one height by two threads, and a second height to vote on. |
| `Network_forks` | Are chains, ledgers and votes right under forks and loss? `TypeOK`, `LedgerFollowsChain`, `OneVotePerHeight`, `ImplementsChains` | Two nodes that both lead, one reachable over HTTP, late posts and broken connections, three new blocks, a transaction that pays and one that is not covered. Three blocks allow a fork and one more block on a branch. Block identifiers are symmetric. |
| `Network_delivery` | Does a block reach everyone it can? `Delivered` | Three nodes, one leader, one of the others on HTTP, two blocks, one transaction: a block that comes over HTTP and P2P in either order, one that comes over P2P alone, and one with a transaction, which P2P never brings. |
| `Network_catchup` | Does a node that missed a block catch up? `CatchUp` is violated | Two nodes, one leader, no HTTP, one transaction, two blocks: the first is not broadcast, the second cannot be added. |
| `SlotClock_threads` | Epochs, tables and slots. `TypeOK`, `SkipsBounded`, `OneProposalPerSlot`, `TablesReady` | Two updaters, the thread that applies snapshots and the slot thread, any two in the middle of something (`MaxBusy`). Slots of 2 ticks, epochs of 5, so that an epoch is two slots and a rest as in the code (600 s = 1333 x 0.45 s + 0.15 s); the clock stops at 9 (`MaxTime`), no epoch above 3 (`MaxEpoch`) and no state with more than two proposals (`MaxProposals`) is explored further. The node's table has itself in every slot, a snapshot's in none; a snapshot's start is 3, within an epoch. |
| `MessageBatch_threads` | How may a message be dropped? `BatchTypeOK`, `DroppedByRace` | Two connections, three messages each, batches of 2: batches that end by size and by time, lists replaced under a thread that works on them, and messages added in the last moment. |
| `Committee_small` | Is it a committee, and the right one? `CommitteeTypeOK`, `ExactlyK`, `GroundStateIsExact`, `Returns` | Up to four candidates, two scores, two risks for each pair, 0, 2, 3 or 5 asked for, with and without the repair; penalty 10. Four candidates leave room to remove two, to add two, and to rank by pairs; scores of 0 and 2 give ties and differences. |
| `Registry_modes` | Who is healthy, elected, decisive? `TypeOK`, `DecidesAlone`, `ElectionHinders`, `InactiveForGood` | One node in either mode, two peers, any of the three registered at the start, one block. The gap, the retry, the pause, the tolerance, the activity and the memory are 1, 1, 2, 3, 4 and 5 ticks (30, 10, 60, 90, 300, 3600 s in the code), the clock stops at 9: a node falls unhealthy, inactive and out of the registry, with elections, heartbeats, failed ones and none before and after; one clean-up candidate (`ManyNodes` 1, `CandidateLimit` 2). |
| `Recovery_one` | Does a node come back, with the right accounts? `TypeOK`, `AheadByOne`, `LedgerMatchesTip`, `SnapshotBrings` | Three blocks, the second with transactions, a window of 2 (so a snapshot that is cut and one that is not), two snapshots, one restart: a snapshot before, within and behind the execution, one that is older than the node and does not name all its accounts, and a second one to repair the first. |
| `Gossip_one` | Do values only get newer, and dead peers go? `GossipTypeOK`, `PrunedStaysOut`, `NewestWins`, `CrashedLeaves` | Two peers, one of them a bootstrap peer, two clock values, messages of up to two values, all size limits 1: enough for the three ways into the active set, a pruned peer next to a healthy one, and an old value after a new one. |

Deadlock is not checked in the runs: the models stop by design (the
blocks, transactions, messages or ticks are used up, the executor and the selection return).
`Delivered`, `Terminates`, `Returns`, `SnapshotBrings` and `CatchUp` say what must not be cut short.

### Fairness

 * `Sealevel!FairSpec`: each executor goes on. Its threads wait for nothing but
   their own workers.
 * `Network!FairSpec`: a proposer goes on with its posts and its broadcast (one
   thread, straight-line code), a late post is handled in the end (the request is
   in the receiver's socket), and each node handles the messages that reach it.
   The last one rests on the periodic DISCOVERY message: a batch is looked at
   only when a message comes. Nobody has to submit or to propose.
   Connections do not break under `FairSpec`: nothing is sent again, so after a break
   delivery is not promised by anything in the code. `Network_delivery` has
   `HttpLate = FALSE` as well; `Network_forks` has both kinds of loss, and asks
   for safety only.
 * `Committee!CommitteeFairSpec`: the call goes on; it is straight-line code with loops, and waits for the sampler only.
 * `Recovery!Fairness`: the event loop ends an addition and an application it has begun and takes up a
   snapshot it has received (requests are queued in its socket). Nothing else is fair: the source need not make a
   block, the P2P thread need not move.
 * `Gossip!Fairness`: the maintenance loop goes round (`Prune`), and a peer that is silent is in the end silent for five
   minutes. Nothing is assumed of the network; no message need arrive.
 * `SlotClock`, `MessageBatch` and `Registry` state no fairness; their properties are safety.

### Findings by other constants

The same modules, with other constants, show these. They are not runs of the
project; each takes a `.cfg` with the constants named and the property alone, and takes seconds:

 * `NodeThreads` with one own block, one of a peer, `P2P = {c1}`, `Api = {}`: `LinkedChain` fails. A block that
   arrives while `create_block` runs is appended on the tip that the new block has
   already hashed; the check in `propose_block` (`node.py:1261`) comes after the append and the posts.
 * `Network` with `Leaders = {n1}`, `HttpPorts = {n2}`, `HttpLate = FALSE`, `Tx <- mcOneTx`, two blocks:
   `IncludedOnce` fails. Block creation reads `blockchain.gulf_stream_node`, which nothing empties.
 * `Network` with `Leaders = {n1}`, `HttpPorts = {}`, `Tx <- mcTx`, one block: `HonestBlockAccepted` fails. A transaction
   that the leader leaves out of its block has created an empty account on the leader, and no
   validator computes the state root of the (empty) block that it broadcasts.
 * `Recovery`: `LedgerMatchesTip` needs each of its exceptions. Without `skew`, a snapshot taken while a block is
   executed brings its debits, and the post of that block executes it again; without `left`, a node ahead of the snapshot
   keeps credits of the later block on accounts the snapshot does not name, and gets them again with that block; without
   `disturbed`, a P2P block checked before the application is appended into the middle of it.

The races themselves are in the runs of the project, and each property there says what the race can do and what it cannot:

 * Two threads check one balance, one debit is refused by `update_balance`, `_apply_batch_state_changes` ignores the
   refusal (`sealevel_executor.py:343`), and the credit makes funds. `RefusedInRaceOnly` and `FundsKept` say that this takes another
   thread that has lowered that very account since the check, and makes exactly the amount.
 * Two connection threads test `seen_blocks` before either updates it, and the node votes twice at one height; `VotesClimb` says that no
   thread does so by itself.
 * Two updaters find one epoch over and both advance it; `SkipsBounded` says that this adds up to an epoch for each further
   updater, not more with time, and `TablesReady` that the promoted empty table is generated.
 * One thread replaces the list just after another has appended to it; `DroppedByRace` says that a message is dropped in no other way.

Also part of the models: the 0.15 s of an epoch after its last slot have no table entry, and a
transition that falls into them starts the new epoch in the future, so that the slot is -1
until then. Batching may let a transaction overtake one it conflicts with, though the docstring
(`sealevel_executor.py:298`) speaks of "respecting dependencies"; the outcome is serial in batch
order, the same on every node.

## 4. The proofs

| Theorem | States | Assumes |
|---|---|---|
| `SealevelProofs!TypeCorrect` | `Spec => []TypeOK` | `LedgerAssumption`, `SealevelAssumption` |
| `SealevelProofs!RefusalIsRace` | `Spec => []RefusedInRaceOnly` | any number of executors |
| `SealevelProofs!BatchesFormed` | `Spec => []FormsBatches` | any number of executors |
| `SealevelProofs!ResultIsExecute` | `Spec => []MatchesExecute` | any number of executors; the property is about one that nobody else executes next to |
| `BlockExecProofs!ExecuteIsSerial` | `Execute(b, txs)` is the serial execution of `Batches(txs)` | a ledger `b`, a list `txs` |
| `BlockExecProofs!ParallelIsSerial` | `ListSpec => []Serializable` | `BlockListsAssumption` |
| `BlockExecProofs!ExecuteAlike` | equal balances before `Execute` give equal balances after it | two ledgers, a list |
| `SealevelProofs!FundsAccounted` | `Spec => FundsKept` | any number of executors; the accounts of each ledger are finitely many |
| `BlockExecProofs!BlockKeepsSupply` | `ListSpec => []SupplyAccounted` | the accounts of each genesis ledger are finitely many |
| `NodeThreadsProofs!TypeCorrect` | `Spec => []TypeOK` | `ThreadsAssumption` |
| `NodeThreadsProofs!ChainIsRooted` | `Spec => []Rooted` | any number of threads |
| `NodeThreadsProofs!NumbersStayBehind` | `Spec => []CountNeverAhead` | any number of threads |
| `NodeThreadsProofs!EachVoterClimbs` | `Spec => []VotesClimb` | any number of threads |
| `NodeThreadsProofs!NoneUnexecuted` | `Spec => []ExecutedBeforeAdded` | any number of threads |
| `NetworkProofs!NetworkImplementsChains` | `Spec => ImplementsChains` | `NetworkAssumption` |
| `NetworkProofs!OneVoteOnly` | `Spec => []OneVotePerHeight` | `NetworkAssumption` |
| `NetworkProofs!TypeCorrect`, `LedgersFollow` | `Spec => []TypeOK`, `Spec => []LedgerFollowsChain` | `NetworkAssumption` |
| `SlotClockProofs!TypeCorrect` | `Spec => []TypeOK` | `ClockAssumption` |
| `SlotClockProofs!EpochsInTurn` | `Spec => []SkipsBounded` | any number of updaters, finitely many |
| `SlotClockProofs!ProposesOnce` | `Spec => []OneProposalPerSlot` | any number of updaters |
| `SlotClockProofs!TablesAreReady` | `Spec => []TablesReady` | any number of updaters |
| `PeerProofs!CommitteeTyped`, `CommitteeHasK` | `CommitteeSpec => []CommitteeTypeOK`, `CommitteeSpec => []ExactlyK` | `CommitteeAssumption` |
| `PeerProofs!LowestIsExact` | `CommitteeSpec => []GroundStateIsExact` | for some bound of the risks, `Outweighs` |
| `PeerProofs!RegistryTyped`, `ConsensusIsLonely`, `ElectionsHinder` | `Spec => []TypeOK`, `Spec => []DecidesAlone`, `Spec => []ElectionHinders` | `RegistryAssumption`: a finite set of peers, and a tolerance, an activity and a memory in this order |
| `PeerProofs!InactiveStaysOut` | `Spec => InactiveForGood` | `RegistryAssumption` |
| `RecoveryProofs!SnapshotAheadByOne` | `Spec => []AheadByOne` | `RecoveryAssumption` |
| `RecoveryProofs!TypeCorrect`, `LedgerKeepsToTip` | `Spec => []TypeOK`, `Spec => []LedgerMatchesTip` | `RecoveryAssumption` |
| `PeerProofs!GossipTyped`, `PrunedForGood` | `GossipSpec => []GossipTypeOK`, `GossipSpec => []PrunedStaysOut` | `GossipAssumption` |
| `PeerProofs!NewestStays` | `GossipSpec => NewestWins` | `GossipAssumption` |
| `PeerProofs!BatchTyped` | `BatchSpec => []BatchTypeOK` | `BatchAssumption`, any number of connections |
| `PeerProofs!RacesDropOnly` | `BatchSpec => DroppedByRace` | any number of connections |

None assumes a single thread. Where a statement fails once a second thread runs, the property says how it fails and what remains;
only `MatchesExecute` speaks of an executor alone, since two that interleave on one account model compute no function of either's block.

**Refused in a race only.** `RefusedInRaceOnly` is about the current debit only, and is not inductive: why should the balance still be
there? The invariant `SafeInv` adds that no two transactions of a batch touch one account (`OpenClear` while it is filled, `QueueClear`
afterwards, from `can_add_transaction`), that results are fresh when a batch starts, and `Funded`: whoever passed the check and
has not been debited is `Covered`, it still has the amount or another executor has lowered its sender's balance. A debit or credit of
another transaction of the batch leaves that account alone, by `QueueClear`; one of another executor that lowers it is `drawn`; a worker's
read changes no balance.

**Folds.** The executor's functions are folds over lists, and a fold is a recursive function that exists by a `CHOOSE`. `Folding` proves
for any operator that this function exists (it is extended position by position), that it is determined, and from that
the two facts the other proofs use: folding nothing gives the base, and the last element is folded last
(`FoldNothing`, `FoldAppend`). What holds of the empty list and is kept by an append holds of every list (`SeqInSteps`,
from the well-foundedness of `<` on the naturals). `BlockExecProofs` takes an instance of `Folding` for each fold of `BlockExec`.

**Parallel is serial.** Within a batch, `BatchIsSerial`: no account is touched by two transactions, so the balance a transaction
reads before the batch is the one it would read in its turn, and the accounts created by reads are those created in turn. Over
the batches by induction. That the batches hold what the list holds is `Placed` and `Passed`, which count every
transaction in what is done and what is left; each pass takes at least one, so as many passes as transactions suffice.

**The steps compute the functions.** `Grouped(e, i, j)` says that an executor is in pass `i + 1` and has scanned `j` transactions:
its three lists are then what the folds of `Place` and `NextPass` give, and later `Queued(e, k)` that `k` batches are done.
These hold for any number of executors, as the lists are their own. The accounts are not: for one executor alone, `Reading` says that
they are the ledger `b` before the batch plus the accounts the workers have read so far, in whatever order, and that each
result is the one `b` gives; `Applied` that they are what `ApplyResult` gives on the results up to the cursor, or are half-way through the
next one. A self-transfer never stops half-way.

**Sums.** The sum over a finite set (`Folding`), a fold of the community modules, takes the elements in the order of a `CHOOSE`. The proofs
need the other ones too: `SumsUp` states the sum as a function that, on each set, is the value of **any** element and the
sum of the rest, which `OneLess` shows by induction on the size. From it: a balance that changes by `d` changes the sum by `d`
(`TotalChanges`), and one that appears empty leaves it alone.

**Funds after a list.** By `ExecuteIsSerial` a list is executed one transaction after the other, in the order of its batches. `TotalOne`
says what one of them does to the sum, `Made`: nothing, unless it is a funded self-transfer, which adds its amount, or a negative amount its
receiver cannot pay, whose sender is credited all the same. `Balanced` carries this through the folds of the batches, of which `Execute`
and `Minted` keep pace.

**Funds while a block runs.** `FundsKept` is about steps. `FundsStep` follows the two deltas of a transfer: the sum and the amounts between debit and credit
(`InFlight`) change by as much, unless `update_balance` refuses one of them. A refused debit has met a race, by `SafeInv`; a refused credit
is that of a negative amount; a self-transfer has one delta. `Crediting` says that only a successful transfer between two accounts is between
its deltas. A worker creates accounts with nothing in them.

**Chain of a node.** `ThreadInv` says of every thread where the facts its next
step relies on come from: the block it works on is made (`ItemsMade`), the
parent it noted or checked is in the chain (`ParentKept`), and the number it took or
checked is at most the length of the chain (`CountKept`). The chain only grows and
headers of made blocks are fixed (`ChainGrows`, `HeadersKept`), so these hold whatever
the other threads append, and an append keeps `Rooted` and `CountNeverAhead`.

**Executed first.** Three threads of a node execute and append without a common lock. `ExecutedItems` says that a thread
between the executor and the append has its own block in `executed`, a list that only grows; a P2P thread that skips the
executor skips the append as well.

**Votes.** `VotedBelow` bounds the heights a thread has voted for by what it has checked since: every vote is for a height below the length of
the chain, except that of a block the voter is about to add, and a block that passed the length test is above them all. The comparison of the
block's number with `len(blocks)` gives the bound, and `CountNeverAhead` makes it last: the tip's number may fall, the length never does. What
other threads do only lengthens the chain (`VoteOthers`). This is the reason why that early return matters for safety, and not only for speed.

**Refinement.** `links` maps a block to its parent and number, `chain` to
`chains`. `ChainInv` holds `OnlyMade` (chains, messages, late posts and proposals name
blocks that exist) and `TipNumbered` (a chain's tip has the number of its
position, which turns the comparison with the tip's number into one with the position).
A proposal implements `Propose`; an HTTP or P2P addition
implements `Accept`; everything else stutters.

**One vote per height.** A vote is not kept from repeating by any record of votes, but by the chain: `VoteInv` says that every
block of a chain is numbered by its position (`Numbered`, kept by every step of the abstract `Next`) and that
a voted block is in the voter's chain (`VotesAdded`), so two votes for one height are for the block at one position.
The handlers are atomic here; `EachVoterClimbs` is the counterpart when the threads of a node interleave.

**Ledgers of the network.** `LedgerInv` says that the balances of every node are those of its chain, executed from genesis
(`Follows`). Accounts without funds may differ from node to node: the trial run of `block_valid` and the look-ups of `transactions_valid` create
them. `ExecuteAlike` is why this does no harm: what a block does to the balances depends on the balances only.
Every step either leaves chain and balances of a node alone (`Quietly`) or appends a block and executes it once (`Adds`).

**Epochs.** `Counted` adds to `start` what the updaters that have found the epoch over will add (`Pending`), and bounds the sum. When an updater finds
the epoch over, `DivBounds` turns the slot number into a bound on time: the epoch has ended but for less than a slot, and even if all updaters
are pending then, one of their advances is due and only the others count against the bound. An advance moves its part of the sum into `start`,
and time only helps. An epoch of `EpochTicks` holds `SlotsPerEpoch` slots and a rest of less than one slot, which is how early the next one may start.

**One proposal.** An updater may move `start` while the producer sleeps, and a snapshot may replace it, so that the slot number it noted is compared
with a slot of another epoch. `InOrder` therefore says that the proposals are ordered by clock, epoch start and slot, and `Slept` that the
boundary after the last one has passed whenever the producer may propose (or will have when it wakes): the
sleep is computed to the next boundary of the epoch then current. A clock is replaced once at most, as it is the snapshot's afterwards, and `start`
only grows otherwise.

**Tables ready.** A table may be missing only while an updater has yet to test it (`Missing`): the one that promotes an empty table, or clears the next one, goes on to
the tests, and a table is only taken away before them. Before the first update nothing has been tested (`NoneTested`), and after a snapshot without a
table `updated` is false until an update has come to its end.

**Committee.** `CommitteeInv` says for each stage of the call what the size of `selected` can be (`Staged`): one candidate
if one is wanted, whatever the sampler said; any set of candidates before the repair; exactly `k` after it. The repair can end
for want of candidates only when it holds them all, and `k` is at most their number.

**Ground state.** `EnergyIs` says that the energy of a set is its objective less `Penalty` times the square of the number
wanted: the linear terms sum to their constant times the size, the quadratic ones to theirs times the number of pairs, which is
n(n - 1)/2 (`OneMore`, `PairsOf`, by adding one candidate after the other). A set of another size has a neighbour of lower objective (`LowerThere`), as one step
towards the number wanted saves at least the penalty (`StepSaves`). A least set exists (`LeastExists`), has the size wanted, and
is therefore what the exhaustive search finds. The hypothesis `Outweighs` asks that the penalty exceed every score, and the risks of
one candidate with all others less its score. The code's 1000 does for scores of about 1 and pair risks of at most 4.5 (the default weights) up to
some 220 candidates; `select_committee` takes any number when it is called without a list. In `Committee_small` it holds with risks bounded by 1.

**Registry.** With two validators healthy the threshold is two, and the tracker holds one vote (`TwoAreTooMany`). An election with two candidates renews both;
`ProbedSeen` says that two validators seen since stay registered for as long as nobody is forgotten, which is longer than the tolerance, whatever is
registered or cleaned up. An inactive validator is no candidate, and nothing but a candidacy renews the time it was seen.

**Snapshot.** The chain of the source only grows between the copying of the balances and that of the blocks, and the balances
hold nothing beyond the block in progress; the window always keeps the last block.

**Ledger and tip.** While a snapshot is applied, the balances are of its last block, but for the blocks in `skew` and `left` (`LedgerOf`), and the chain is a growing prefix of it
(`Applying`); the blocks held are consecutive (`HeldInARow`), so the ledger and the tip meet again when the last
block is refilled. An effect that the snapshot holds is on an account that it names (`InNamed`), so those it leaves as they were are of blocks it has not executed: what the
node has of them is in `left` if they are beyond its last block, and in `skew` otherwise.

**Message batches.** A message in the batch is lost when its list is replaced. `RaceInv` says of a thread that works on the batch that it has found it ready (`ReadyFor`) and has
handled all it has passed (`PassedIsDone`), and of one about to replace it that each message of the list is handled, will be by another thread that still iterates, or was added
by a thread that has yet to look whether the batch is ready (`TakenAway`): whoever has looked found it ready, as the list only grows, and is iterating. `LossByReset` draws the
conclusion from it.

**Gossip.** `active` is only ever set by `ActiveSets(pruned)`, whose three parts each leave the pruned ones out, or
made smaller; and `pruned` grows only where `active` is set again.

Only model-checked: liveness (`Terminates`, `Delivered`, `Returns`, `SnapshotBrings`, `CrashedLeaves`), which is out of the
prover's reach. Every invariant and every other action property of the passing runs is a theorem.

## 5. Findings

Both are shown by `Network_catchup`, under fairness: every message is handled and every chain
asked for is received.

1. **A block with transactions is not broadcast.** The clean-up after the block (`node.py:1292`) calls
   `GulfStreamProcessor.remove_transactions`, which reads `self.transaction_timestamps`
   (`consensus/gulf_stream.py:409`), an attribute no code sets. `propose_block` ends there, without marking the block as
   seen and without the broadcast "for maximum reach". Only nodes on the fixed HTTP ports get the block.
2. **A node behind stays behind.** `handle_blockchain` (`node.py:1136`) deep-copies an object
   that holds locks, raises, and the message loop drops the exception, so a longer chain
   is never adopted; the same after a fork.

What the models of this project also say of the code, found while writing them:

 * Consensus on a block is found only by a node that takes one validator at most to be healthy (`DecidesAlone`), since a vote is stored
   with its voter only, though `get_block_vote_status` speaks of a "2/3 + 1 majority of HEALTHY nodes". The threshold is computed when it is asked for, so
   a decision comes and goes: each election among several candidates undoes it for 90 s (`ElectionHinders`), whether they run or not.
   `calculate_uptime` compares with `<=`, the tally with `<`.
 * The heartbeat is started by `start_p2p_legacy` only (`node.py:268-277`), not by the default `start_p2p_enhanced` (`node.py:712`): a node that handles no
   transaction for 90 s does not vote, and after 300 s, less than an epoch of 600 s, it is inactive for its own elections. In the legacy mode 30 s
   (registrations ignored) and 60 s (sleep) add up to the 90 s of the tolerance, without slack for a sleep that returns late.
 * A validator that was inactive once (no election among a node's candidates for 300 s) is no candidate of that node again
   (`InactiveForGood`): the tables of two nodes differ for good. When nobody is active the first of the registry is elected, running or not.
   Dead peers that stay candidates stay electable.
 * A snapshot's table of leaders has gone through JSON, which makes its slot numbers strings (`Unreadable`): the node that applies it finds no
   leader until the epoch ends, since the table is not empty and so not generated again.
 * A negative amount passes every check (`blockchain.py:516`, `sealevel_executor.py:172`); when its receiver cannot pay, its sender is credited all the same
   (`SupplyAccounted`, `FundsKept`). A transfer to oneself mints its amount.
 * A snapshot replaces the balances of the accounts it names and no others (`account_model.py:210-219`): a node that was ahead of it keeps the rest (`left`).
 * With `use_qubo_solver` off (an ablation), and when the sampler raises for a committee, candidates are sorted by `-linear`:
   the **lowest** scores come first (`Before`).
 * A snapshot's accounts may be ahead of its blocks by the block in progress (`AheadByOne`), or behind by any number. A
   snapshot of more than 100 blocks leaves a chain shorter than its block numbers, so that an own block gets a
   wrong number and old heights are no longer refused by length; a P2P block that arrives
   while the chain is empty raises after it was marked seen, and is lost.
 * Pruned gossip peers are never taken back, even after they restart. A pull answer is the first three values the bloom filter lacks,
   cut to three, so values behind them starve; a push is the newest value, nearly always a health record.
   A contact keeps the wall clock of its registration and is removed an hour after it, that of a running peer too. A node that still holds it
   can send it again, nothing refuses a value for its age, and so the contact of a crashed peer may come back and make it healthy: `CrashedLeaves` asks
   that this end, and says that nothing else brings the peer back.

## 6. Not modelled, and why

| Part | Why |
|---|---|
| Gulf Stream forwarding, caches of `fast_gulf_stream.py` | `forward_transaction_fast` raises for the dict it is given, `receive_transaction` fills a pool that is never emptied; what block creation sees of it is in `Network`. |
| TPU listener | Its handler is called with `from_tpu=True`, which it does not take: a `TypeError` for each packet. What it collected is not read by block creation. |
| Turbine | Shreds are logged, not forwarded; a reconstructed block is not added to a chain (`process_turbine_shred`). |
| Inventory (`p2p/transaction_mempool.py`) | `add_transaction`, `mark_request_fulfilled` and `cleanup_peer` have no callers; the mempool stays empty and requests nothing. |
| Peer discovery | Which connections exist is an input of `Network`. `max_peers` is assigned only for a new sender (`p2p/peer_discovery_handler.py:120`), so a message of a known sender that names an unknown peer raises `UnboundLocalError`, which is caught and logged. |
| Proof of History, signatures, the proposer check | They hold between correct nodes: functions of the block. |
| Scores: probes, witnesses, latency, throughput, correlations, nonces and caches of `quantum_annealing_consensus.py` | Floating point over random simulated measurements; the result is any score here. |
| Gossip in the running node | `initialize_gossip_node` is called only when a gossip node exists already; `Gossip` models the package as it would run. EpochSlots values are stored like votes. |
| `AccountModel.transfer`, `set_balance`, `cleanup_empty_accounts`, `execute_transactions` | No callers in the node. |
| Operations: dashboards, load generators, evaluation scripts, clients, tests, `src/archive/` | No state of the protocol; the archive is older copies of the same files. These make up most of the repository, so that the definitions cover a small share of all its lines. |

Further steps, were the project to go on: the handlers behind `MessageBatch`, and what a snapshot of more than
100 blocks does to the votes that follow it.
