------------------------------ MODULE Network -------------------------------
(***************************************************************************)
(* The nodes of the network: proposing blocks out of the Gulf Stream pool, *)
(* posting them over HTTP, broadcasting them over P2P, validating, voting  *)
(* for and adding those of others, and asking for the chain of a peer.     *)
(*                                                                         *)
(* One step of a node is one handler (handle_block, sync_blockchain,       *)
(* create_block ...) run to its end; NodeThreads.tla shows what happens    *)
(* when the handlers of one node interleave.  Time and the leader schedule *)
(* are in SlotClock.tla: here the nodes in Leaders may propose at any time *)
(* (each node computes the schedule from its own view, so two may believe  *)
(* they lead).                                                             *)
(***************************************************************************)
EXTENDS BlockExec

CONSTANTS
  Node,
  Leaders,    \* nodes that may believe they lead
  HttpPorts,  \* nodes whose API port is one that _force_block_distribution tries
  HttpLate,   \* TRUE when a post may time out and be handled later
  Block,      \* identifiers of blocks (the hash of the payload)
  Genesis,    \* the genesis block
  Funds,      \* the ledger of the genesis block
  FreeLimit   \* transaction_covered accepts any amount up to this one

ASSUME NetworkAssumption ==
  /\ Leaders \subseteq Node /\ HttpPorts \subseteq Node
  /\ HttpLate \in BOOLEAN
  /\ Genesis \in Block
  /\ IsLedger(Funds)
  /\ FreeLimit \in Nat

NoBlock == Genesis  \* the block of a node that is not proposing

VARIABLES
  header,   \* for each block made: parent, count, txs and root (state_root_hash)
  chain,    \* blockchain.blocks of each node
  ledger,   \* its account_model
  pool,     \* its gulf_stream_node.local_transaction_pool
  seen,     \* its seen_blocks
  votes,    \* <<node, block>> for each vote created
  proposal, \* the block a node is distributing and the nodes it has yet to post it to
  wire,     \* P2P messages in transit: one FIFO connection from node to node
  late,     \* <<node, block>>: HTTP posts that timed out and are not handled yet
  refused   \* <<node, block>>: blocks on the node's tip that failed block_valid

store == <<chain, ledger>>
vars == <<header, store, pool, seen, votes, proposal, wire, late, refused>>

Init ==
  /\ header = [b \in {Genesis} |-> [parent |-> Genesis, count |-> 0, txs |-> <<>>, root |-> Funds]]
  /\ chain = [n \in Node |-> <<Genesis>>]
  /\ ledger = [n \in Node |-> Funds]
  /\ pool = [n \in Node |-> <<>>]
  /\ seen = [n \in Node |-> {}]
  /\ votes = {}
  /\ proposal = [n \in Node |-> [block |-> NoBlock, todo |-> {}]]
  /\ wire = [n \in Node |-> [m \in Node |-> <<>>]]
  /\ late = {}
  /\ refused = {}

made == DOMAIN header
Tip(n) == chain[n][Len(chain[n])]

\* wire[n][m] carries what n sends to m, in order.
Message(kind, b) == [kind |-> kind, block |-> b]
Broadcast(w, n, msg) ==
  [w EXCEPT ![n] = [m \in Node |-> IF m = n THEN @[m] ELSE Append(@[m], msg)]]

\* The next message on the wire from p to n, and the wire without it.
Arrived(n, p, kind) == wire[p][n] # <<>> /\ Head(wire[p][n]).kind = kind
Incoming(n, p) == Head(wire[p][n]).block
Taken(n, p) == [wire EXCEPT ![p][n] = Tail(@)]

-----------------------------------------------------------------------------
(* Coverage of transactions *)

\* transaction_covered: a small amount is accepted without a look at the
\* balance; for a large one get_balance is called.
Large(t) == Amount[t] > FreeLimit
Covered(b, t) == ~ Large(t) \/ Balance(b, From[t]) >= Amount[t]

\* ... and creates the sender's account if it does not exist.
Consult(b, txs) == Touch(b, {From[txs[i]] : i \in {i \in DOMAIN txs : Large(txs[i])}})

\* get_covered_transaction_set: those covered, in order.
AddCovered(b, covered, t) == IF Covered(b, t) THEN Append(covered, t) ELSE covered
CoveredSet(b, txs) == FoldLeft(LAMBDA covered, t : AddCovered(b, covered, t), <<>>, txs)

\* transactions_valid stops at the first transaction that is not covered.
AllCovered(b, txs) == \A i \in DOMAIN txs : Covered(b, txs[i])
ConsultUntilBad(b, txs) ==
  LET bad == SelectInSeq(txs, LAMBDA t : ~ Covered(b, t))
  IN  Consult(b, IF bad = 0 THEN txs ELSE SubSeq(txs, 1, bad))

-----------------------------------------------------------------------------
(* Transactions *)

\* transaction_exists: some block of the chain holds it.
InChain(n, t) ==
  \E i \in DOMAIN chain[n] : \E j \in DOMAIN header[chain[n][i]].txs :
    header[chain[n][i]].txs[j] = t

\* (A bug for comparison: copies are kept.)
BugSubmitTransaction(n, t) ==
  /\ ~ InChain(n, t)
  /\ pool' = [pool EXCEPT ![n] = Append(@, t)]
  /\ UNCHANGED <<header, store, seen, votes, proposal, wire, late, refused>>

\* handle_transaction, up to submit_transaction: the transaction joins the
\* local pool (a second copy there is dropped when the pool is read).  What
\* follows raises in forward_transaction_fast and changes nothing.
SubmitTransaction(n, t) ==
  /\ ~ InChain(n, t)
  /\ ~ Contains(pool[n], t)
  /\ pool' = [pool EXCEPT ![n] = Append(@, t)]
  /\ UNCHANGED <<header, store, seen, votes, proposal, wire, late, refused>>

-----------------------------------------------------------------------------
(* propose_block *)

\* create_block: the pool is read and not emptied; what is covered is executed
\* on the live accounts, and the block is appended at once.
CreateBlock(n, b) ==
  /\ n \in Leaders
  /\ proposal[n].block = NoBlock
  /\ b \in Block \ made
  /\ LET txs == CoveredSet(ledger[n], pool[n])
         after == Execute(Consult(ledger[n], pool[n]), txs)
         new == [parent |-> Tip(n), count |-> Len(chain[n]), txs |-> txs, root |-> after]
     IN  /\ header' = [c \in made \cup {b} |-> IF c = b THEN new ELSE header[c]]
         /\ ledger' = [ledger EXCEPT ![n] = after]
  /\ chain' = [chain EXCEPT ![n] = Append(@, b)]
  /\ proposal' = [proposal EXCEPT ![n] = [block |-> b, todo |-> HttpPorts \ {n}]]
  /\ UNCHANGED <<pool, seen, votes, wire, late, refused>>

\* (A bug for comparison: the block is marked seen and not broadcast.)
BugAnnounceBlock(n) ==
  /\ proposal[n].block # NoBlock
  /\ proposal[n].todo = {}
  /\ header[proposal[n].block].txs = <<>>
  /\ seen' = [seen EXCEPT ![n] = @ \cup {proposal[n].block}]
  /\ proposal' = [proposal EXCEPT ![n].block = NoBlock]
  /\ UNCHANGED <<header, store, pool, votes, wire, late, refused>>

\* The P2P broadcast follows when every post has been answered or given up.
AnnounceBlock(n) ==
  /\ proposal[n].block # NoBlock
  /\ proposal[n].todo = {}
  /\ header[proposal[n].block].txs = <<>>
  /\ seen' = [seen EXCEPT ![n] = @ \cup {proposal[n].block}]
  /\ wire' = Broadcast(wire, n, Message("BLOCK", proposal[n].block))
  /\ proposal' = [proposal EXCEPT ![n].block = NoBlock]
  /\ UNCHANGED <<header, store, pool, votes, late, refused>>

\* Between the two, GulfStreamProcessor.remove_transactions reads, for each
\* transaction of the block, an attribute that its constructor never sets: it
\* raises, and propose_block ends before it marks or broadcasts the block.
AnnounceFails(n) ==
  /\ proposal[n].block # NoBlock
  /\ proposal[n].todo = {}
  /\ header[proposal[n].block].txs # <<>>
  /\ proposal' = [proposal EXCEPT ![n].block = NoBlock]
  /\ UNCHANGED <<header, store, pool, seen, votes, wire, late, refused>>

-----------------------------------------------------------------------------
(* Blocks received *)

CountValid(n, b) == header[b].count = header[Tip(n)].count + 1
\* (A bug for comparison: the number alone is compared.)
BugHashValid(n, b) == CountValid(n, b)

HashValid(n, b) == header[b].parent = Tip(n)

\* (A bug for comparison: the executor runs for the check and for the addition.)
BugAddBlock(n, b, before) ==
  /\ ledger' = [ledger EXCEPT ![n] = Execute(Execute(before, header[b].txs), header[b].txs)]
  /\ chain' = [chain EXCEPT ![n] = Append(@, b)]

\* add_block.
AddBlock(n, b, before) ==
  /\ ledger' = [ledger EXCEPT ![n] = Execute(before, header[b].txs)]
  /\ chain' = [chain EXCEPT ![n] = Append(@, b)]

\* sync_blockchain for one block: no signature of the state, no vote, and the
\* block is not marked seen.
Sync(n, b) ==
  LET before == ConsultUntilBad(ledger[n], header[b].txs) IN
    IF ~ (CountValid(n, b) /\ HashValid(n, b))
    THEN UNCHANGED store
    ELSE IF AllCovered(ledger[n], header[b].txs)
    THEN AddBlock(n, b, before)
    ELSE ledger' = [ledger EXCEPT ![n] = before] /\ UNCHANGED chain

\* requests.post: the receiver handles the block while the proposer waits ...
PostBlock(n, m) ==
  /\ m \in proposal[n].todo
  /\ Sync(m, proposal[n].block)
  /\ proposal' = [proposal EXCEPT ![n].todo = @ \ {m}]
  /\ UNCHANGED <<header, pool, seen, votes, wire, late, refused>>

\* ... or after the five seconds it waits, if at all.
PostTimesOut(n, m) ==
  /\ HttpLate
  /\ m \in proposal[n].todo
  /\ late' = late \cup {<<m, proposal[n].block>>}
  /\ proposal' = [proposal EXCEPT ![n].todo = @ \ {m}]
  /\ UNCHANGED <<header, store, pool, seen, votes, wire, refused>>

LateSync(n, b) ==
  /\ <<n, b>> \in late
  /\ Sync(n, b)
  /\ late' = late \ {<<n, b>>}
  /\ UNCHANGED <<header, pool, seen, votes, proposal, wire, refused>>

\* handle_block, one action per way out.  Node n handles the block that peer p
\* sent; a block not seen before is marked seen whatever becomes of it.
IgnoreSeen(n, p) ==
  /\ Arrived(n, p, "BLOCK")
  /\ Incoming(n, p) \in seen[n]
  /\ wire' = Taken(n, p)
  /\ UNCHANGED <<header, store, pool, seen, votes, proposal, late, refused>>

FreshBlock(n, p) ==
  /\ Arrived(n, p, "BLOCK")
  /\ Incoming(n, p) \notin seen[n]
  /\ seen' = [seen EXCEPT ![n] = @ \cup {Incoming(n, p)}]
  /\ UNCHANGED <<header, pool, proposal, late>>

IgnoreOld(n, p) ==
  /\ FreshBlock(n, p)
  /\ header[Incoming(n, p)].count < Len(chain[n])
  /\ wire' = Taken(n, p)
  /\ UNCHANGED <<store, votes, refused>>

\* (A bug for comparison: the vote comes before the fast checks.)
BugRequestChain(n, p) ==
  /\ FreshBlock(n, p)
  /\ header[Incoming(n, p)].count >= Len(chain[n])
  /\ ~ (CountValid(n, Incoming(n, p)) /\ HashValid(n, Incoming(n, p)))
  /\ votes' = votes \cup {<<n, Incoming(n, p)>>}
  /\ wire' = Broadcast(Taken(n, p), n, Message("BLOCKCHAINREQUEST", NoBlock))
  /\ UNCHANGED <<store, refused>>

RequestChain(n, p) ==
  /\ FreshBlock(n, p)
  /\ header[Incoming(n, p)].count >= Len(chain[n])
  /\ ~ (CountValid(n, Incoming(n, p)) /\ HashValid(n, Incoming(n, p)))
  /\ wire' = Broadcast(Taken(n, p), n, Message("BLOCKCHAINREQUEST", NoBlock))
  /\ UNCHANGED <<store, votes, refused>>

\* The block extends the node's chain: transactions_valid, then block_valid
\* re-executes it on a copy of the accounts and compares the state roots.
\* When they agree the node votes, adds the block and rebroadcasts it.
Validate(n, p) ==
  LET b == Incoming(n, p)
      before == ConsultUntilBad(ledger[n], header[b].txs)
      valid == /\ AllCovered(ledger[n], header[b].txs)
               /\ Execute(before, header[b].txs) = header[b].root
  IN  /\ FreshBlock(n, p)
      /\ header[b].count >= Len(chain[n])
      /\ CountValid(n, b) /\ HashValid(n, b)
      /\ \/ /\ valid
            /\ votes' = votes \cup {<<n, b>>}
            /\ AddBlock(n, b, before)
            /\ wire' = Broadcast(Taken(n, p), n, Message("BLOCK", b))
            /\ UNCHANGED refused
         \/ /\ ~ valid
            /\ refused' = refused \cup {<<n, b>>}
            /\ ledger' = [ledger EXCEPT ![n] = before]
            /\ wire' = Taken(n, p)
            /\ UNCHANGED <<chain, votes>>

-----------------------------------------------------------------------------
(* Asking a peer for its chain *)

HandleBlockchainRequest(n, p) ==
  /\ Arrived(n, p, "BLOCKCHAINREQUEST")
  /\ wire' = [Taken(n, p) EXCEPT ![n][p] = Append(@, Message("BLOCKCHAIN", NoBlock))]
  /\ UNCHANGED <<header, store, pool, seen, votes, proposal, late, refused>>

\* handle_blockchain starts with copy.deepcopy(self.blockchain), which raises
\* TypeError (the account locks cannot be copied); the message loop drops the
\* exception and with it the chain received.
HandleBlockchain(n, p) ==
  /\ Arrived(n, p, "BLOCKCHAIN")
  /\ wire' = Taken(n, p)
  /\ UNCHANGED <<header, store, pool, seen, votes, proposal, late, refused>>

\* A connection breaks: what it carried is gone.
Disconnect(n, p) ==
  /\ wire[p][n] # <<>>
  /\ wire' = [wire EXCEPT ![p][n] = <<>>]
  /\ UNCHANGED <<header, store, pool, seen, votes, proposal, late, refused>>

-----------------------------------------------------------------------------
Handle(n, p) ==
  \/ IgnoreSeen(n, p) \/ IgnoreOld(n, p) \/ RequestChain(n, p) \/ Validate(n, p)
  \/ HandleBlockchainRequest(n, p) \/ HandleBlockchain(n, p)

Connected ==
  \/ \E n \in Node, t \in Tx : SubmitTransaction(n, t)
  \/ \E n \in Node, b \in Block : CreateBlock(n, b) \/ LateSync(n, b)
  \/ \E n \in Node : AnnounceBlock(n) \/ AnnounceFails(n)
  \/ \E n, m \in Node : PostBlock(n, m) \/ PostTimesOut(n, m)
  \/ \E n, p \in Node : Handle(n, p)

Next == Connected \/ \E n, p \in Node : Disconnect(n, p)

Spec == Init /\ [][Next]_vars

\* Nodes stay up, messages in transit are handled, a proposer goes on; nobody
\* has to submit or to propose.  Connections do not break.
FairSpec ==
  /\ Init /\ [][Connected]_vars
  /\ \A n \in Node : WF_vars(AnnounceBlock(n) \/ AnnounceFails(n))
  /\ \A n, m \in Node : WF_vars(PostBlock(n, m))
  /\ \A n \in Node, b \in Block : WF_vars(LateSync(n, b))
  /\ \A n, p \in Node : WF_vars(Handle(n, p))

-----------------------------------------------------------------------------
(* Properties *)

TypeOK ==
  /\ made \subseteq Block
  /\ \A b \in made : /\ header[b].parent \in made
                     /\ header[b].count \in Nat
                     /\ \A i \in DOMAIN header[b].txs : header[b].txs[i] \in Tx
                     /\ IsLedger(header[b].root)
  /\ \A n \in Node : /\ chain[n] # <<>> /\ \A i \in DOMAIN chain[n] : chain[n][i] \in made
                     /\ IsLedger(ledger[n])
                     /\ IsInjective(pool[n]) /\ \A i \in DOMAIN pool[n] : pool[n][i] \in Tx
                     /\ seen[n] \subseteq made
                     /\ proposal[n].block \in made /\ proposal[n].todo \subseteq HttpPorts
  /\ votes \subseteq Node \X made
  /\ late \subseteq Node \X made
  /\ refused \subseteq Node \X made

\* What the nodes promise one by one (ChainAbs.tla): forks, reordered blocks,
\* and blocks arriving on both transports included.
links == [b \in made |-> [parent |-> header[b].parent, count |-> header[b].count]]
Abs == INSTANCE ChainAbs WITH headers <- links, chains <- chain

ImplementsChains == Abs!Spec

\* The ledger of a node is that of its chain: executing the chain's blocks on
\* the genesis ledger gives every account the balance it has.  (Accounts with
\* balance 0 may exist besides.)
ReplayBlock(headers, b, x) == Execute(b, headers[x].txs)
Replay(n) == FoldLeft(LAMBDA b, x : ReplayBlock(header, b, x), Funds, chain[n])
LedgerFollowsChain ==
  \A n \in Node : LET r == Replay(n) IN \A a \in Account : Balance(ledger[n], a) = Balance(r, a)

\* A node votes for at most one block of each height, and only for blocks it
\* has added, although a vote precedes the addition and a block may come over
\* HTTP and P2P.
OneVotePerHeight ==
  /\ \A v, w \in votes : v[1] = w[1] /\ header[v[2]].count = header[w[2]].count => v = w
  /\ \A v \in votes : Contains(chain[v[1]], v[2])

\* With one leader, a block reaches every node whose port is tried over HTTP;
\* P2P carries blocks without transactions only, so the other nodes follow up
\* to the first block that has one.
AllEmpty(b) == \A i \in 0 .. header[b].count :
  \E c \in made : header[c].count = i /\ header[c].txs = <<>>
Delivered ==
  \A b \in Block, n \in Node :
    b \in made /\ (n \in HttpPorts \/ AllEmpty(b)) ~> Contains(chain[n], b)

\* The transactions of a block leave the pool they were taken from ("Remove only
\* the transactions that were included in the block", propose_block): no chain
\* executes a transaction twice.
IncludedOnce ==
  \A n \in Node : LET all == FlattenSeq([i \in DOMAIN chain[n] |-> header[chain[n][i]].txs])
                  IN IsInjective(all)

\* A block made by an honest leader on the tip of another honest node is valid
\* there; a transaction that is not covered is "excluded, not causing full
\* rejection" (get_covered_transaction_set).
HonestBlockAccepted == refused = {}

\* A node that receives a block it cannot add asks for "the network's longest
\* chain" (handle_block): a node to which a longer chain is sent has one at
\* least as long in the end.
CatchUp ==
  \A n, p \in Node :
    (\E i \in DOMAIN wire[p][n] : wire[p][n][i].kind = "BLOCKCHAIN" /\ Len(chain[p]) > Len(chain[n]))
    ~> Len(chain[n]) >= Len(chain[p])
=============================================================================
