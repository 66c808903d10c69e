------------------------------ MODULE MsgQueue ------------------------------
(***************************************************************************)
(* The message queue of a component (msgque.c) on top of the OSAL event    *)
(* (OSAL.c): a doubly linked list of heap nodes, a mutex and an event that *)
(* the component thread sleeps on.                                         *)
(*                                                                         *)
(* A critical section is one step: everything it touches is touched by     *)
(* others only under the same mutex, with one exception.  push_back reads  *)
(* q->tail BEFORE it takes the mutex, so a push is two steps, and what it  *)
(* stored in the new node's `next' may be stale when it links the node.    *)
(*                                                                         *)
(* OSAL_EventSet and OSAL_EventReset may fail (write or read on the pipe); *)
(* both then return without unlocking the event's own mutex.  MaxFaults    *)
(* bounds such failures.                                                   *)
(***************************************************************************)
EXTENDS Naturals, Sequences, FiniteSets

CONSTANTS Threads,    \* threads that call into the queue
          Nodes,      \* heap cells malloc can return for a msg_node
          Msgs,       \* messages
          NULL,       \* the null pointer
          MaxFaults   \* bound on failing reads and writes of the event pipe

ASSUME ConstantsOK == /\ NULL \notin Nodes /\ NULL \notin Msgs /\ NULL \notin Threads
                      /\ Msgs # {}
                      /\ MaxFaults \in Nat

VARIABLES
  head, tail, size,   \* struct msgque
  next, prev, data,   \* the fields of every msg_node
  alloc,              \* nodes that malloc has handed out and nobody has freed
  signaled,           \* the event's bSignaled (a byte is in the pipe)
  evLocked,           \* the event's mutex was left locked by a failing call
  qmutex,             \* NULL, or the thread that blocks for ever inside q->mutex
  got,                \* *ptr of the last get_front
  pc, node,           \* per thread: where it is in push_back, and its new node
  life,               \* "live", "destroying", "dead"
  badAccess,          \* destroy touched or freed a node that was not allocated
  faults,             \* pipe failures so far
  order               \* history: the linked nodes, oldest first

list == <<head, tail, size, next, prev, data, alloc, order>>
event == <<signaled, evLocked, faults>>
vars == <<head, tail, size, next, prev, data, alloc, signaled, evLocked,
          qmutex, got, pc, node, life, badAccess, faults, order>>

Pointer == Nodes \cup {NULL}

Init ==
  /\ head = NULL /\ tail = NULL /\ size = 0
  /\ next = [n \in Nodes |-> NULL]
  /\ prev = [n \in Nodes |-> NULL]
  /\ data = [n \in Nodes |-> NULL]
  /\ alloc = {} /\ order = <<>>
  /\ signaled = FALSE /\ evLocked = FALSE /\ faults = 0
  /\ qmutex = NULL /\ got = NULL
  /\ pc = [t \in Threads |-> "idle"]
  /\ node = [t \in Threads |-> NULL]
  /\ life = "live" /\ badAccess = FALSE
-----------------------------------------------------------------------------
(* HantroOmx_msgque_push_back *)

\* malloc a node, fill it, and read q->tail without the mutex.  (A failing
\* malloc returns OMX_ErrorInsufficientResources and changes nothing.)
PushPrepare(t, m) ==
  /\ life = "live" /\ pc[t] = "idle"
  /\ \E n \in Nodes \ alloc :
       /\ alloc' = alloc \cup {n}
       /\ next' = [next EXCEPT ![n] = tail]
       /\ prev' = [prev EXCEPT ![n] = NULL]
       /\ data' = [data EXCEPT ![n] = m]
       /\ node' = [node EXCEPT ![t] = n]
  /\ pc' = [pc EXCEPT ![t] = "linking"]
  /\ UNCHANGED <<head, tail, size, order, event, qmutex, got, life, badAccess>>

\* The critical section when the event does not fail; `last' is the node the
\* new one is hooked to.
Link(t, last) ==
  /\ pc[t] = "linking" /\ qmutex = NULL
  /\ size = 0 => ~evLocked
  /\ signaled' = IF size = 0 THEN TRUE ELSE signaled
  /\ size' = size + 1
  /\ prev' = IF last # NULL THEN [prev EXCEPT ![last] = node[t]] ELSE prev
  /\ tail' = node[t]
  /\ head' = IF head = NULL THEN node[t] ELSE head
  /\ order' = Append(order, node[t])
  /\ pc' = [pc EXCEPT ![t] = "idle"]
  /\ node' = [node EXCEPT ![t] = NULL]
  /\ UNCHANGED <<next, data, alloc, evLocked, faults, qmutex, got, life, badAccess>>

\* Mutation: the reader is not woken.
PushLink_NoSignal(t) ==
  /\ pc[t] = "linking" /\ qmutex = NULL
  /\ size' = size + 1
  /\ prev' = IF tail # NULL THEN [prev EXCEPT ![tail] = node[t]] ELSE prev
  /\ tail' = node[t]
  /\ head' = IF head = NULL THEN node[t] ELSE head
  /\ order' = Append(order, node[t])
  /\ pc' = [pc EXCEPT ![t] = "idle"]
  /\ node' = [node EXCEPT ![t] = NULL]
  /\ UNCHANGED <<next, data, alloc, event, qmutex, got, life, badAccess>>

\* Mutation: the neighbour is the one read before the mutex was held.
PushLink_StaleNext(t) == pc[t] = "linking" /\ Link(t, next[node[t]])

\* The neighbour is q->tail, read again under the mutex.
PushLink(t) == Link(t, tail)

\* OSAL_EventSet fails: push_back unlocks and returns, the node is not freed
\* and the event's mutex stays locked.
PushEventFails(t) ==
  /\ pc[t] = "linking" /\ qmutex = NULL
  /\ size = 0 /\ ~evLocked /\ ~signaled
  /\ faults < MaxFaults /\ faults' = faults + 1
  /\ evLocked' = TRUE
  /\ pc' = [pc EXCEPT ![t] = "idle"]
  /\ node' = [node EXCEPT ![t] = NULL]
  /\ UNCHANGED <<list, signaled, qmutex, got, life, badAccess>>

\* OSAL_EventSet waits for the event's mutex that nobody will unlock, inside
\* the queue's critical section.
PushBlocks(t) ==
  /\ pc[t] = "linking" /\ qmutex = NULL
  /\ size = 0 /\ evLocked
  /\ qmutex' = t
  /\ pc' = [pc EXCEPT ![t] = "stuck"]
  /\ UNCHANGED <<list, event, node, got, life, badAccess>>
-----------------------------------------------------------------------------
(* HantroOmx_msgque_get_front *)

\* The critical section on a queue that is not empty: the nodes freed, the
\* message returned, and the size at which the event is reset.
Unlink(freed, m, resetAt) ==
  /\ life = "live" /\ qmutex = NULL
  /\ size > 0 /\ got' = m
  /\ size = 1 => ~evLocked
  /\ signaled' = IF size = resetAt THEN FALSE ELSE signaled
  /\ size' = size - 1
  /\ head' = prev[head]
  /\ next' = IF prev[head] # NULL THEN [next EXCEPT ![prev[head]] = NULL] ELSE next
  /\ tail' = IF prev[head] # NULL THEN tail ELSE NULL
  /\ alloc' = alloc \ freed
  /\ order' = Tail(order)
  /\ UNCHANGED <<prev, data, evLocked, faults, qmutex, pc, node, life, badAccess>>

\* Mutations: the event is reset one message early; the newest message is
\* returned; the node is not freed; its successor is freed instead; the empty
\* queue is popped as well.
GetFront_EarlyReset(t) == pc[t] = "idle" /\ Unlink({head}, data[head], 2)
GetFront_Newest(t) == pc[t] = "idle" /\ size > 0 /\ Unlink({head}, data[tail], 1)
GetFront_Leak(t) == pc[t] = "idle" /\ Unlink({}, data[head], 1)
GetEmpty_Decrements(t) ==
  /\ life = "live" /\ pc[t] = "idle" /\ qmutex = NULL
  /\ size = 0
  /\ got' = NULL /\ size' = size - 1
  /\ UNCHANGED <<head, tail, next, prev, data, alloc, order, event, qmutex, pc, node,
                 life, badAccess>>

\* An empty queue: *ptr = 0.  The queue does not change.
GetEmpty(t) ==
  /\ life = "live" /\ pc[t] = "idle" /\ qmutex = NULL
  /\ size = 0
  /\ got' = NULL
  /\ UNCHANGED <<list, event, qmutex, pc, node, life, badAccess>>

\* The oldest message is unlinked and its node freed.
GetFront(t) == pc[t] = "idle" /\ Unlink({head}, data[head], 1)

\* OSAL_EventReset fails: the message stays queued, the event's mutex locked.
GetEventFails(t) ==
  /\ life = "live" /\ pc[t] = "idle" /\ qmutex = NULL
  /\ size = 1 /\ ~evLocked /\ signaled
  /\ faults < MaxFaults /\ faults' = faults + 1
  /\ evLocked' = TRUE
  /\ UNCHANGED <<list, signaled, qmutex, got, pc, node, life, badAccess>>

\* OSAL_EventReset blocks on the event's mutex inside the critical section.
GetBlocks(t) ==
  /\ life = "live" /\ pc[t] = "idle" /\ qmutex = NULL
  /\ size = 1 /\ evLocked
  /\ qmutex' = t
  /\ pc' = [pc EXCEPT ![t] = "stuck"]
  /\ UNCHANGED <<list, event, node, got, life, badAccess>>
-----------------------------------------------------------------------------
(* HantroOmx_msgque_destroy: called once no thread uses the queue any more *)

DestroyBegin ==
  /\ life = "live" /\ qmutex = NULL
  /\ \A t \in Threads : pc[t] = "idle"
  /\ life' = "destroying"
  /\ UNCHANGED <<list, event, qmutex, got, pc, node, badAccess>>

\* One turn of the loop: free the tail and go on with the `next' it holds.
DestroyStep ==
  /\ life = "destroying" /\ tail \in alloc
  /\ alloc' = alloc \ {tail}
  /\ tail' = next[tail]
  /\ UNCHANGED <<head, size, next, prev, data, order, event, qmutex, got, pc, node,
                 life, badAccess>>

\* The loop reads and frees a node that was freed before.
DestroyBadAccess ==
  /\ life = "destroying" /\ tail # NULL /\ tail \notin alloc
  /\ badAccess' = TRUE /\ life' = "dead"
  /\ UNCHANGED <<list, event, qmutex, got, pc, node>>

DestroyEnd ==
  /\ life = "destroying" /\ tail = NULL
  /\ life' = "dead"
  /\ UNCHANGED <<list, event, qmutex, got, pc, node, badAccess>>
-----------------------------------------------------------------------------
Push(t) == \/ \E m \in Msgs : PushPrepare(t, m)
           \/ PushLink(t) \/ PushEventFails(t) \/ PushBlocks(t)

Get(t) == \/ GetEmpty(t)
          \/ GetFront(t)
          \/ GetEventFails(t) \/ GetBlocks(t)

Destroy == DestroyBegin \/ DestroyStep \/ DestroyBadAccess \/ DestroyEnd

Next == (\E t \in Threads : Push(t) \/ Get(t)) \/ Destroy

Spec == Init /\ [][Next]_vars
-----------------------------------------------------------------------------
(* Properties *)

Linking == {t \in Threads : pc[t] = "linking"}

TypeOK ==
  /\ head \in Pointer /\ tail \in Pointer /\ size \in Nat
  /\ next \in [Nodes -> Pointer] /\ prev \in [Nodes -> Pointer]
  /\ data \in [Nodes -> Msgs \cup {NULL}]
  /\ alloc \in SUBSET Nodes /\ order \in Seq(Nodes)
  /\ signaled \in BOOLEAN /\ evLocked \in BOOLEAN /\ faults \in 0..MaxFaults
  /\ qmutex \in Threads \cup {NULL} /\ got \in Msgs \cup {NULL}
  /\ pc \in [Threads -> {"idle", "linking", "stuck"}]
  /\ node \in [Threads -> Pointer]
  /\ life \in {"live", "destroying", "dead"} /\ badAccess \in BOOLEAN

\* The list that get_front follows (head, then prev) is exactly the messages
\* committed and not yet fetched, oldest first, and tail is the last of them:
\* the stale `next' of a racing push_back never makes get_front lose,
\* repeat or reorder a message (msgque.c:118-123, 159-169).
ListInOrder ==
  life = "live" =>
    /\ size = Len(order)
    /\ head = IF order = <<>> THEN NULL ELSE order[1]
    /\ tail = IF order = <<>> THEN NULL ELSE order[Len(order)]
    /\ \A i \in 1..Len(order) :
          prev[order[i]] = IF i = Len(order) THEN NULL ELSE order[i + 1]

\* Nobody sleeps on a queue that holds a message, and nobody is woken for an
\* empty one: the event is signalled exactly while the queue holds a message,
\* also after a set or reset of the event failed (msgque.c:108-116, 141-150).
EventMatchesQueue == life = "live" => (signaled <=> size > 0)

\* A node is in the queue at most once and the queue holds only live memory;
\* nodes that pushes are about to link are distinct and not yet queued.
NodesSeparate ==
  life = "live" =>
    /\ \A i, j \in 1..Len(order) : order[i] = order[j] => i = j
    /\ \A i \in 1..Len(order) : order[i] \in alloc /\ data[order[i]] \in Msgs
    /\ \A t \in Threads : pc[t] = "linking" =>
          /\ node[t] \in alloc /\ prev[node[t]] = NULL /\ data[node[t]] \in Msgs
          /\ \A i \in 1..Len(order) : order[i] # node[t]
          /\ \A u \in Threads : pc[u] = "linking" /\ u # t => node[u] # node[t]

\* "Function provides commit/rollback semantics" (msgque.h:66, 71): a call that
\* returned leaves no node behind that is not in the queue, and leaves the
\* event usable.
CommitOrRollback ==
  life = "live" =>
    /\ alloc = {order[i] : i \in 1..Len(order)} \cup {node[t] : t \in Linking}
    /\ ~evLocked

\* Without a failing pipe no call ever leaks a node or blocks the event.
NoFaultNoLeak == faults = 0 => CommitOrRollback

\* "Destroy the message queue instance, free allocated resources"
\* (msgque.h:61): destroy frees every node once and touches no freed one.
DestroyFreesAll == life = "dead" => alloc = {} /\ ~badAccess

\* The linked list implements the queue a component thread relies on.
Contents == IF life = "live" THEN [i \in 1..Len(order) |-> data[order[i]]] ELSE <<>>
Fifo == INSTANCE MsgFifo WITH fifo <- Contents, ready <- life = "live" /\ signaled,
                             out <- got

\* Every behaviour of the queue is one of MsgFifo: first in, first out, each
\* message exactly once, the event in step with the content.
ImplementsFifo == Fifo!Spec
=============================================================================
