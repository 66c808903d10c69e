------------------------------ MODULE MsgFifo ------------------------------
(***************************************************************************)
(* What a message queue of the OpenMAX IL components promises: messages    *)
(* come out in the order in which they were committed, each exactly once,  *)
(* and the event a component thread sleeps on is signalled exactly while   *)
(* there is something to fetch.  MsgQueue implements it with a linked list *)
(* that several threads share.                                             *)
(***************************************************************************)
EXTENDS Sequences

CONSTANTS Msgs,     \* the messages (CMD blocks) that may be queued
          NULL      \* no message

VARIABLES fifo,     \* the committed messages, oldest first
          ready,    \* is the queue's event signalled?
          out       \* what the last fetch returned

fifoVars == <<fifo, ready, out>>

Init == fifo = <<>> /\ ready = FALSE /\ out = NULL

\* A message is committed at the end of the queue and wakes the reader.
Commit(m) == /\ fifo' = Append(fifo, m)
             /\ ready' = TRUE
             /\ UNCHANGED out

\* The oldest message is fetched; the event is reset with the last one.
Fetch == /\ fifo # <<>>
         /\ out' = Head(fifo)
         /\ fifo' = Tail(fifo)
         /\ ready' = (Tail(fifo) # <<>>)

\* A fetch from the empty queue returns at once, with no message.
FetchNothing == fifo = <<>> /\ out' = NULL /\ UNCHANGED <<fifo, ready>>

\* The queue is destroyed: what it still held is discarded.
Discard == fifo' = <<>> /\ ready' = FALSE /\ UNCHANGED out

Next == \/ \E m \in Msgs : Commit(m)
        \/ Fetch \/ FetchNothing
        \/ Discard

Spec == Init /\ [][Next]_fifoVars
=============================================================================
