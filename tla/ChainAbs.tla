------------------------------ MODULE ChainAbs ------------------------------
(***************************************************************************)
(* What the network promises of the chains of its nodes, and no more: each *)
(* chain grows one block at a time, by a block that exists, names the last *)
(* block of the chain as its parent and is numbered by its position.       *)
(* Nothing is promised about two chains agreeing.                          *)
(***************************************************************************)
EXTENDS Integers, Sequences

CONSTANTS Node, Block, Genesis

VARIABLES
  headers,  \* parent and number of the blocks made so far
  chains    \* the chain of each node

Init ==
  /\ headers = [b \in {Genesis} |-> [parent |-> Genesis, count |-> 0]]
  /\ chains = [n \in Node |-> <<Genesis>>]

\* A new block comes into being; the headers of the others are fixed.
Make(b, parent) ==
  /\ b \notin DOMAIN headers
  /\ headers' = [c \in DOMAIN headers \cup {b} |->
                   IF c = b THEN [parent |-> parent, count |-> headers[parent].count + 1]
                   ELSE headers[c]]

Extends(n, b, hs) ==
  /\ b \in DOMAIN hs
  /\ hs[b] = [parent |-> chains[n][Len(chains[n])], count |-> Len(chains[n])]

Grow(n, b) == chains' = [chains EXCEPT ![n] = Append(@, b)]

\* A node makes a block and adds it, or adds a block made by another.
Propose(n, b) ==
  /\ Make(b, chains[n][Len(chains[n])])
  /\ Extends(n, b, headers')
  /\ Grow(n, b)

Accept(n, b) ==
  /\ Extends(n, b, headers)
  /\ Grow(n, b)
  /\ UNCHANGED headers

Next == \E n \in Node, b \in Block : Propose(n, b) \/ Accept(n, b)

Spec == Init /\ [][Next]_<<headers, chains>>
=============================================================================
