---------------------------- MODULE MessageBatch ----------------------------
(***************************************************************************)
(* SocketCommunication.node_message: messages of all connections of a node *)
(* are collected in one list, self._message_batch, and handled together.   *)
(*                                                                         *)
(* Each connection has a thread of its own, which calls node_message for   *)
(* one message after the other; the list and the time of the last batch    *)
(* are shared and no lock is taken.  A list is an object: a thread that    *)
(* iterates over it goes on with it after another has replaced it, and     *)
(* sees what is appended to it meanwhile.                                  *)
(* The model starts with the list that the first message creates.          *)
(***************************************************************************)
EXTENDS Integers, Sequences

CONSTANTS
  Connection,
  Carried,    \* how many messages each connection carries
  BatchSize   \* 10 in the code

ASSUME BatchAssumption == Carried \in Nat /\ BatchSize \in Nat \ {0}

VARIABLES
  sent,     \* messages each connection has delivered to node_message
  lists,    \* the list objects, in the order they were created
  batch,    \* the one that is self._message_batch
  stale,    \* 0.5 s have passed since _last_batch_process
  at,       \* what each thread does next
  object,   \* the list each thread iterates over
  index,    \* the position of its next message
  handled   \* history: the messages that have been handled

shared == <<lists, batch, stale>>
batchVars == <<sent, shared, at, object, index, handled>>

BatchInit ==
  /\ sent = [c \in Connection |-> 0]
  /\ lists = <<<<>>>>
  /\ batch = 1
  /\ stale = FALSE
  /\ at = [c \in Connection |-> "idle"]
  /\ object = [c \in Connection |-> 1]
  /\ index = [c \in Connection |-> 1]
  /\ handled = {}

Elapse ==
  /\ ~ stale
  /\ stale' = TRUE
  /\ UNCHANGED <<sent, lists, batch, at, object, index, handled>>

\* node_message adds the message to the batch ...
Receive(c) ==
  /\ at[c] = "idle"
  /\ sent[c] < Carried
  /\ sent' = [sent EXCEPT ![c] = @ + 1]
  /\ lists' = [lists EXCEPT ![batch] = Append(@, <<c, sent[c] + 1>>)]
  /\ at' = [at EXCEPT ![c] = "test"]
  /\ UNCHANGED <<batch, stale, object, index, handled>>

\* ... and looks whether the batch is ready, which may be another one by now.
BatchReady == Len(lists[batch]) >= BatchSize \/ stale

\* (A bug for comparison: positions are counted from 0.)
BugTestReady(c) ==
  /\ at[c] = "test"
  /\ IF BatchReady
     THEN /\ at' = [at EXCEPT ![c] = "process"]
          /\ object' = [object EXCEPT ![c] = batch]
          /\ index' = [index EXCEPT ![c] = 0]
     ELSE /\ at' = [at EXCEPT ![c] = "idle"]
          /\ UNCHANGED <<object, index>>
  /\ UNCHANGED <<sent, shared, handled>>

TestReady(c) ==
  /\ at[c] = "test"
  /\ IF BatchReady
     THEN /\ at' = [at EXCEPT ![c] = "process"]
          /\ object' = [object EXCEPT ![c] = batch]
          /\ index' = [index EXCEPT ![c] = 1]
     ELSE /\ at' = [at EXCEPT ![c] = "idle"]
          /\ UNCHANGED <<object, index>>
  /\ UNCHANGED <<sent, shared, handled>>

\* _process_message_batch: one turn of the for loop, or its end.
HandleNext(c) ==
  /\ at[c] = "process"
  /\ index[c] <= Len(lists[object[c]])
  /\ handled' = handled \cup {lists[object[c]][index[c]]}
  /\ index' = [index EXCEPT ![c] = @ + 1]
  /\ UNCHANGED <<sent, shared, at, object>>

\* (A bug for comparison: the last message is left out.)
BugEndOfBatch(c) ==
  /\ at[c] = "process"
  /\ index[c] >= Len(lists[object[c]])
  /\ at' = [at EXCEPT ![c] = "reset"]
  /\ UNCHANGED <<sent, shared, object, index, handled>>

EndOfBatch(c) ==
  /\ at[c] = "process"
  /\ index[c] > Len(lists[object[c]])
  /\ at' = [at EXCEPT ![c] = "reset"]
  /\ UNCHANGED <<sent, shared, object, index, handled>>

\* A new empty list takes the place of the batch.
ResetBatch(c) ==
  /\ at[c] = "reset"
  /\ lists' = Append(lists, <<>>)
  /\ batch' = Len(lists) + 1
  /\ stale' = FALSE
  /\ at' = [at EXCEPT ![c] = "idle"]
  /\ UNCHANGED <<sent, object, index, handled>>

Working(c) == TestReady(c) \/ HandleNext(c) \/ EndOfBatch(c) \/ ResetBatch(c)

BatchNext == Elapse \/ \E c \in Connection : Receive(c) \/ Working(c)

BatchSpec == BatchInit /\ [][BatchNext]_batchVars

-----------------------------------------------------------------------------
(* Properties *)

Message == Connection \X (1 .. Carried)

BatchTypeOK ==
  /\ sent \in [Connection -> 0 .. Carried]
  /\ lists \in Seq(Seq(Message))
  /\ batch \in 1 .. Len(lists)
  /\ stale \in BOOLEAN
  /\ at \in [Connection -> {"idle", "test", "process", "reset"}]
  /\ object \in [Connection -> 1 .. Len(lists)]
  /\ index \in [Connection -> Nat \ {0}]
  /\ handled \subseteq Message

Received(m) == m[2] <= sent[m[1]]
Done(m) == m \in handled

\* Still to be handled: in the batch, or ahead of a thread that iterates.
Pending(m) ==
  \/ \E i \in DOMAIN lists[batch] : lists[batch][i] = m
  \/ \E c \in Connection : /\ at[c] = "process"
                           /\ \E i \in index[c] .. Len(lists[object[c]]) : lists[object[c]][i] = m

Lost(m) == Received(m) /\ ~ Done(m) /\ ~ Pending(m)

\* Thread c replaces the batch and m with it: either the list c has worked through is
\* not the batch any more, or m was added after c had reached the end of the list, by
\* a thread that has not looked whether the batch is ready yet.
Drops(c, m) ==
  /\ at[c] = "reset" /\ at'[c] = "idle"
  /\ \/ object[c] # batch
     \/ m[1] # c /\ at[m[1]] = "test" /\ m[2] = sent[m[1]]

\* The list is replaced by an empty one after every batch, and a message on it that
\* nobody will look at any more is dropped.  That takes two threads: whatever the
\* number of connections, no message is dropped in any other way than the two of
\* Drops, and at most one message of each thread in the second.
DroppedByRace ==
  [][\A m \in Message : ~ Lost(m) /\ Lost(m)' => \E c \in Connection : Drops(c, m)]_batchVars
=============================================================================
