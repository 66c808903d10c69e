--------------------------- MODULE MsgQueueProofs ---------------------------
(***************************************************************************)
(* Proofs about the message queue, for any number of threads, nodes,       *)
(* messages and failures.  The inductive invariant Inv ties the linked     *)
(* list to the history variable `order'; type correctness needs it because *)
(* get_front dereferences q->head, which must be a node when size > 0.     *)
(***************************************************************************)
EXTENDS MsgQueue, SequenceTheorems, TLAPS

\* The inductive invariant.
Inv == TypeOK /\ ListInOrder /\ EventMatchesQueue /\ NodesSeparate

\* The initial state of an initialised queue satisfies the invariant.
LEMMA InitInv == Init => Inv
<1> SUFFICES ASSUME Init PROVE Inv
  OBVIOUS
<1> USE ConstantsOK DEF ConstantsOK, Init
<1>1. order = <<>> /\ Len(order) = 0
  OBVIOUS
<1>4. <<>> \in Seq(Nodes)
  OBVIOUS
<1>2. TypeOK
  <2>1. /\ next \in [Nodes -> Pointer] /\ prev \in [Nodes -> Pointer]
        /\ data \in [Nodes -> Msgs \cup {NULL}] /\ node \in [Threads -> Pointer]
    BY DEF Pointer
  <2>2. pc \in [Threads -> {"idle", "linking", "stuck"}]
    OBVIOUS
  <2>3. signaled \in BOOLEAN /\ evLocked \in BOOLEAN /\ badAccess \in BOOLEAN
    BY Zenon
  <2>4. size \in Nat /\ faults \in 0..MaxFaults
    OBVIOUS
  <2> QED BY <1>1, <1>4, <2>1, <2>2, <2>3, <2>4 DEF TypeOK, Pointer
<1>3. ListInOrder /\ EventMatchesQueue /\ NodesSeparate
  BY <1>1 DEF ListInOrder, EventMatchesQueue, NodesSeparate
<1> QED BY <1>2, <1>3 DEF Inv

\* Filling a new node outside the mutex does not disturb the linked nodes.
LEMMA PushPrepareInv ==
  ASSUME Inv, NEW t \in Threads, NEW m \in Msgs, PushPrepare(t, m)
  PROVE  Inv'
<1> USE ConstantsOK DEF ConstantsOK, Inv, PushPrepare, event, Pointer
<1>1. PICK n \in Nodes \ alloc :
        /\ alloc' = alloc \cup {n}
        /\ next' = [next EXCEPT ![n] = tail]
        /\ prev' = [prev EXCEPT ![n] = NULL]
        /\ data' = [data EXCEPT ![n] = m]
        /\ node' = [node EXCEPT ![t] = n]
  OBVIOUS
<1>2. \A i \in 1..Len(order) : order[i] \in Nodes /\ order[i] # n
  BY DEF TypeOK, NodesSeparate
<1>3. TypeOK'
  BY <1>1 DEF TypeOK
<1>4. ListInOrder'
  BY <1>1, <1>2 DEF ListInOrder, TypeOK
<1>5. EventMatchesQueue'
  BY DEF EventMatchesQueue
<1>6. NodesSeparate'
  BY <1>1, <1>2 DEF NodesSeparate, TypeOK
<1> QED
  BY <1>3, <1>4, <1>5, <1>6

\* Linking a prepared node appends it to the list.
LEMMA PushLinkInv ==
  ASSUME Inv, NEW t \in Threads, PushLink(t), life = "live"
  PROVE  Inv'
<1> USE ConstantsOK DEF ConstantsOK, Inv, PushLink, Link, Pointer
<1> DEFINE n == node[t]
<1>1. n \in Nodes /\ n \in alloc /\ n # NULL /\ prev[n] = NULL /\ data[n] \in Msgs
  BY DEF TypeOK, NodesSeparate
<1>2. \A i \in 1..Len(order) : order[i] \in Nodes /\ order[i] # n /\ order[i] # NULL
  BY DEF TypeOK, NodesSeparate
<1>3. /\ order' = Append(order, n) /\ order' \in Seq(Nodes)
      /\ Len(order') = Len(order) + 1 /\ Len(order) \in Nat
      /\ \A i \in 1..Len(order) : order'[i] = order[i]
      /\ order'[Len(order) + 1] = n
  BY <1>1 DEF TypeOK
<1>4. size = Len(order) /\ (order = <<>> <=> size = 0)
  BY DEF ListInOrder, TypeOK
<1>5. TypeOK'
  <2>1. signaled' \in BOOLEAN
    BY Zenon DEF TypeOK
  <2>2. prev' \in [Nodes -> Pointer] /\ head' \in Pointer /\ tail' \in Pointer /\ size' \in Nat
    BY <1>1 DEF TypeOK
  <2> QED BY <2>1, <2>2, <1>3 DEF TypeOK
<1>6. ListInOrder'
  <2>1. CASE order = <<>>
    BY <2>1, <1>1, <1>3, <1>4 DEF ListInOrder, TypeOK
  <2>2. CASE order # <<>>
    <3>1. tail = order[Len(order)] /\ tail \in Nodes /\ tail # NULL /\ head = order[1] /\ Len(order) > 0
      BY <2>2, <1>2, <1>4 DEF ListInOrder, TypeOK
    <3>2. prev' = [prev EXCEPT ![tail] = n] /\ head' = head /\ tail' = n
      BY <3>1, <1>2
    <3>3. \A i \in 1..Len(order) : prev'[order[i]] = IF i = Len(order) THEN n ELSE order[i + 1]
      BY <3>1, <3>2, <1>2 DEF ListInOrder, NodesSeparate, TypeOK
    <3>4. prev'[n] = NULL
      BY <3>1, <3>2, <1>1, <1>2 DEF TypeOK
    <3> QED
      BY <3>1, <3>2, <3>3, <3>4, <1>2, <1>3, <1>4 DEF ListInOrder
  <2> QED BY <2>1, <2>2
<1>7. EventMatchesQueue'
  BY <1>4 DEF EventMatchesQueue, TypeOK
<1>8. NodesSeparate'
  <2>1. \A u \in Threads : pc'[u] = "linking" => u # t /\ pc[u] = "linking" /\ node'[u] = node[u]
    BY DEF TypeOK
  <2>2. \A i, j \in 1..Len(order') : order'[i] = order'[j] => i = j
    BY <1>2, <1>3 DEF NodesSeparate
  <2>3. \A i \in 1..Len(order') : order'[i] \in alloc' /\ data'[order'[i]] \in Msgs
    BY <1>1, <1>3 DEF NodesSeparate
  <2>4. ASSUME NEW u \in Threads, pc'[u] = "linking"
        PROVE  /\ node'[u] \in alloc' /\ prev'[node'[u]] = NULL /\ data'[node'[u]] \in Msgs
               /\ \A i \in 1..Len(order') : order'[i] # node'[u]
               /\ \A w \in Threads : pc'[w] = "linking" /\ w # u => node'[w] # node'[u]
    <3>1. u # t /\ pc[u] = "linking" /\ node'[u] = node[u] /\ node[u] # n
      BY <2>1, <2>4 DEF NodesSeparate
    <3>2. tail = NULL \/ tail # node[u]
      BY <3>1 DEF NodesSeparate, ListInOrder, TypeOK
    <3>3. prev'[node[u]] = NULL
      BY <3>1, <3>2 DEF NodesSeparate, TypeOK
    <3> QED BY <2>1, <3>1, <3>3, <1>3 DEF NodesSeparate
  <2> QED BY <2>2, <2>3, <2>4 DEF NodesSeparate
<1> QED
  BY <1>5, <1>6, <1>7, <1>8

\* Unlinking the head leaves the rest of the list, in order.
LEMMA GetFrontInv ==
  ASSUME Inv, NEW t \in Threads, GetFront(t)
  PROVE  Inv'
<1> USE ConstantsOK DEF ConstantsOK, Inv, GetFront, Unlink, Pointer
<1>1. /\ size = Len(order) /\ Len(order) > 0 /\ order # <<>>
      /\ head = order[1] /\ tail = order[Len(order)]
  BY DEF ListInOrder, TypeOK
<1>2. \A i \in 1..Len(order) : order[i] \in Nodes /\ order[i] # NULL
  BY DEF TypeOK
<1>3. /\ order' = Tail(order) /\ order' \in Seq(Nodes) /\ Len(order) \in Nat
      /\ Len(order') = Len(order) - 1
      /\ \A i \in 1..Len(order') : order'[i] = order[i + 1]
  BY <1>1 DEF TypeOK
<1>4. prev[head] = IF Len(order) = 1 THEN NULL ELSE order[2]
  BY <1>1, <1>3 DEF ListInOrder
<1>5. TypeOK'
  <2>1. data[head] \in Msgs /\ prev[head] \in Pointer
    BY <1>1, <1>2 DEF NodesSeparate, TypeOK
  <2>2. next' \in [Nodes -> Pointer] /\ head' \in Pointer /\ tail' \in Pointer
    BY <2>1 DEF TypeOK
  <2>3. signaled' \in BOOLEAN
    BY Zenon DEF TypeOK
  <2>4. size' \in Nat
    BY <1>1 DEF TypeOK
  <2>5. alloc' \in SUBSET Nodes
    BY DEF TypeOK
  <2> QED BY <2>1, <2>2, <2>3, <2>4, <2>5, <1>3 DEF TypeOK
<1>6. ListInOrder'
  <2>1. CASE Len(order) = 1
    BY <2>1, <1>1, <1>3, <1>4 DEF ListInOrder
  <2>2. CASE Len(order) > 1
    <3>1. prev[head] = order[2] /\ order[2] # NULL /\ head' = order[2] /\ tail' = tail
      BY <2>2, <1>1, <1>2, <1>3, <1>4
    <3>2. order' # <<>> /\ order'[1] = order[2] /\ order'[Len(order')] = order[Len(order)]
      <4>1. Len(order') > 0 /\ 1 \in 1..Len(order') /\ Len(order') \in 1..Len(order') /\ Len(order') + 1 = Len(order)
        BY <2>2, <1>3
      <4>2. order'[1] = order[1 + 1] /\ order'[Len(order')] = order[Len(order') + 1]
        BY <4>1, <1>3
      <4>3. order' # <<>>
        <5>1. \A s : s = <<>> => Len(s) = 0
          OBVIOUS
        <5> HIDE DEF GetFront, Unlink
        <5> QED BY <4>1, <5>1
      <4> QED BY <4>1, <4>2, <4>3, <1>3
    <3>3. \A i \in 1..Len(order') :
            prev'[order'[i]] = IF i = Len(order') THEN NULL ELSE order'[i + 1]
      BY <2>2, <1>3 DEF ListInOrder
    <3> QED BY <3>1, <3>2, <3>3, <1>1, <1>3 DEF ListInOrder
  <2> QED BY <2>1, <2>2, <1>1, <1>3
<1>7. EventMatchesQueue'
  BY <1>1 DEF EventMatchesQueue, TypeOK
<1>8. NodesSeparate'
  <2>1. \A i \in 1..Len(order') : order'[i] # head /\ order'[i] \in alloc' /\ data'[order'[i]] \in Msgs
    BY <1>1, <1>3 DEF NodesSeparate
  <2>2. \A u \in Threads : pc[u] = "linking" => node[u] # head
    BY <1>1, <1>3 DEF NodesSeparate
  <2> QED BY <1>1, <1>3, <2>1, <2>2 DEF NodesSeparate
<1> QED
  BY <1>5, <1>6, <1>7, <1>8

\* No thread is inside push_back once destroy has begun.
IdleWhenDestroyed == life # "live" => \A t \in Threads : pc[t] # "linking"

\* The invariant with the fact that destroy runs alone.
FullInv == Inv /\ IdleWhenDestroyed

\* Every step of every thread, failing ones included, preserves the invariant.
LEMMA NextInv == FullInv /\ [Next]_vars => FullInv'
<1> SUFFICES ASSUME FullInv, [Next]_vars PROVE FullInv'
  OBVIOUS
<1> USE DEF FullInv
<1>1. ASSUME NEW t \in Threads, NEW m \in Msgs, PushPrepare(t, m) PROVE FullInv'
  BY <1>1, PushPrepareInv DEF IdleWhenDestroyed, PushPrepare
<1>2. ASSUME NEW t \in Threads, PushLink(t) PROVE FullInv'
  <2>1. life = "live"
    BY <1>2 DEF PushLink, Link, IdleWhenDestroyed
  <2> QED BY <1>2, <2>1, PushLinkInv DEF IdleWhenDestroyed, PushLink, Link
<1>3. ASSUME NEW t \in Threads, PushEventFails(t) PROVE FullInv'
  BY <1>3, ConstantsOK DEF ConstantsOK, Inv, PushEventFails, list, TypeOK, ListInOrder, EventMatchesQueue,
     NodesSeparate, IdleWhenDestroyed, Pointer
<1>4. ASSUME NEW t \in Threads, PushBlocks(t) PROVE FullInv'
  BY <1>4 DEF Inv, PushBlocks, list, event, TypeOK, ListInOrder, EventMatchesQueue,
     NodesSeparate, IdleWhenDestroyed
<1>5. ASSUME NEW t \in Threads, GetEmpty(t) PROVE FullInv'
  BY <1>5 DEF Inv, GetEmpty, list, event, TypeOK, ListInOrder, EventMatchesQueue,
     NodesSeparate, IdleWhenDestroyed
<1>6. ASSUME NEW t \in Threads, GetFront(t) PROVE FullInv'
  BY <1>6, GetFrontInv DEF IdleWhenDestroyed, GetFront, Unlink
<1>7. ASSUME NEW t \in Threads, GetEventFails(t) PROVE FullInv'
  BY <1>7, ConstantsOK DEF ConstantsOK, Inv, GetEventFails, list, TypeOK, ListInOrder, EventMatchesQueue,
     NodesSeparate, IdleWhenDestroyed
<1>8. ASSUME NEW t \in Threads, GetBlocks(t) PROVE FullInv'
  BY <1>8 DEF Inv, GetBlocks, list, event, TypeOK, ListInOrder, EventMatchesQueue,
     NodesSeparate, IdleWhenDestroyed
<1>9. ASSUME Destroy PROVE FullInv'
  <2>1. CASE DestroyBegin
    BY <2>1 DEF DestroyBegin, Inv, list, event, TypeOK, ListInOrder, EventMatchesQueue,
       NodesSeparate, IdleWhenDestroyed
  <2>2. CASE DestroyStep
    BY <2>2 DEF DestroyStep, Inv, list, event, TypeOK, ListInOrder, EventMatchesQueue,
       NodesSeparate, IdleWhenDestroyed, Pointer
  <2>3. CASE DestroyBadAccess
    BY <2>3 DEF DestroyBadAccess, Inv, list, event, TypeOK, ListInOrder, EventMatchesQueue,
       NodesSeparate, IdleWhenDestroyed
  <2>4. CASE DestroyEnd
    BY <2>4 DEF DestroyEnd, Inv, list, event, TypeOK, ListInOrder, EventMatchesQueue,
       NodesSeparate, IdleWhenDestroyed
  <2> QED BY <1>9, <2>1, <2>2, <2>3, <2>4 DEF Destroy
<1>10. CASE UNCHANGED vars
  BY <1>10 DEF vars, Inv, TypeOK, ListInOrder, EventMatchesQueue, NodesSeparate, IdleWhenDestroyed
<1> QED
  BY <1>1, <1>2, <1>3, <1>4, <1>5, <1>6, <1>7, <1>8, <1>9, <1>10 DEF Next, Push, Get

\* The queue is type correct, its list is the committed messages in order, its
\* event is signalled exactly while it holds one, and no node is shared,
\* whatever the interleaving of push_back, get_front and destroy.
THEOREM QueueInvariant == Spec => [](TypeOK /\ ListInOrder /\ EventMatchesQueue /\ NodesSeparate)
<1>1. Init => FullInv
  BY InitInv DEF FullInv, IdleWhenDestroyed, Init
<1>2. FullInv => TypeOK /\ ListInOrder /\ EventMatchesQueue /\ NodesSeparate
  BY DEF FullInv, Inv
<1> QED
  BY <1>1, <1>2, NextInv, PTL DEF Spec

\* A thread that waits on the event of the queue sleeps only while the queue is
\* empty and is woken only when there is a message, whatever fails: no command is
\* left unseen in get_front.
THEOREM QueueEvent == Spec => []EventMatchesQueue
BY QueueInvariant, PTL

\* The fields of the queue keep their types: in particular head and tail are nodes
\* or NULL although get_front follows a link that push_back wrote without the
\* mutex, and size never falls below zero.
THEOREM QueueTyped == Spec => []TypeOK
BY QueueInvariant, PTL

-----------------------------------------------------------------------------
(* Memory *)

Queued == {order[i] : i \in 1..Len(order)}
Prepared == {node[t] : t \in Linking}

\* A step without a failing pipe keeps the heap exact: what it allocates is
\* being linked, what it links is queued, what it unlinks is freed.
LEMMA LeakStep == FullInv /\ NoFaultNoLeak /\ [Next]_vars => NoFaultNoLeak'
<1> SUFFICES ASSUME FullInv, NoFaultNoLeak, [Next]_vars, faults' = 0, life' = "live"
             PROVE  alloc' = Queued' \cup Prepared' /\ ~evLocked'
  BY DEF NoFaultNoLeak, CommitOrRollback, Queued, Prepared
<1> USE DEF FullInv, Inv
<1>0. faults = 0 /\ life = "live" => alloc = Queued \cup Prepared /\ ~evLocked
  BY DEF NoFaultNoLeak, CommitOrRollback, Queued, Prepared
<1>1. ASSUME NEW t \in Threads, NEW m \in Msgs, PushPrepare(t, m)
      PROVE  alloc' = Queued' \cup Prepared' /\ ~evLocked'
  <2>1. PICK n \in Nodes \ alloc : alloc' = alloc \cup {n} /\ node' = [node EXCEPT ![t] = n]
    BY <1>1 DEF PushPrepare
  <2>2. Queued' = Queued /\ alloc = Queued \cup Prepared /\ ~evLocked'
    BY <1>0, <1>1 DEF PushPrepare, event, Queued
  <2>3. Prepared' = Prepared \cup {n}
    BY <1>1, <2>1 DEF PushPrepare, Prepared, Linking, TypeOK
  <2> QED BY <2>1, <2>2, <2>3
<1>2. ASSUME NEW t \in Threads, PushLink(t)
      PROVE  alloc' = Queued' \cup Prepared' /\ ~evLocked'
  <2>1. alloc' = alloc /\ alloc = Queued \cup Prepared /\ ~evLocked'
    BY <1>0, <1>2 DEF PushLink, Link
  <2>2. node[t] \in Nodes /\ order \in Seq(Nodes)
    BY <1>2, ConstantsOK DEF PushLink, Link, TypeOK, NodesSeparate, IdleWhenDestroyed
  <2>3. Queued' = Queued \cup {node[t]}
    <3>1. /\ order' = Append(order, node[t]) /\ Len(order') = Len(order) + 1 /\ Len(order) \in Nat
          /\ \A i \in 1..Len(order) : order'[i] = order[i]
          /\ order'[Len(order) + 1] = node[t]
      BY <1>2, <2>2 DEF PushLink, Link
    <3>2. 1..Len(order') = 1..Len(order) \cup {Len(order) + 1}
      BY <3>1
    <3> QED BY <3>1, <3>2 DEF Queued
  <2>4. Prepared = Prepared' \cup {node[t]}
    BY <1>2 DEF PushLink, Link, Prepared, Linking, TypeOK
  <2> QED BY <2>1, <2>3, <2>4
<1>3. ASSUME NEW t \in Threads, PushEventFails(t) PROVE FALSE
  BY <1>3 DEF PushEventFails, TypeOK
<1>4. ASSUME NEW t \in Threads, PushBlocks(t) PROVE FALSE
  BY <1>0, <1>4 DEF PushBlocks, event
<1>5. ASSUME NEW t \in Threads, GetEmpty(t)
      PROVE  alloc' = Queued' \cup Prepared' /\ ~evLocked'
  BY <1>0, <1>5 DEF GetEmpty, list, event, Queued, Prepared, Linking
<1>6. ASSUME NEW t \in Threads, GetFront(t)
      PROVE  alloc' = Queued' \cup Prepared' /\ ~evLocked'
  <2>1. alloc' = alloc \ {head} /\ alloc = Queued \cup Prepared /\ ~evLocked'
    BY <1>0, <1>6 DEF GetFront, Unlink
  <2>2. Prepared' = Prepared /\ order' = Tail(order) /\ life = "live" /\ size > 0
    BY <1>6 DEF GetFront, Unlink, Prepared, Linking
  <2>3. order \in Seq(Nodes) /\ order # <<>> /\ head = order[1] /\ Len(order) \in Nat \ {0}
    BY <2>2, EmptySeq DEF ListInOrder, TypeOK
  <2>4. /\ Len(order') = Len(order) - 1
        /\ \A i \in 1..Len(order') : order'[i] = order[i + 1]
    BY <2>2, <2>3, HeadTailProperties
  <2>5. Queued' = {order[i] : i \in 2..Len(order)}
    <3>1. ASSUME NEW x \in Queued' PROVE x \in {order[i] : i \in 2..Len(order)}
      <4>1. PICK i \in 1..Len(order') : x = order'[i]
        BY DEF Queued
      <4> QED BY <4>1, <2>3, <2>4
    <3>2. ASSUME NEW i \in 2..Len(order) PROVE order[i] \in Queued'
      <4>1. i - 1 \in 1..Len(order') /\ order'[i - 1] = order[i]
        BY <2>3, <2>4
      <4> QED BY <4>1 DEF Queued
    <3> QED BY <3>1, <3>2
  <2>6. head \notin Queued' /\ Queued = Queued' \cup {head}
    <3>1. \A i \in 2..Len(order) : order[i] # order[1]
      BY <2>2, <2>3 DEF NodesSeparate
    <3>2. 1..Len(order) = 2..Len(order) \cup {1}
      BY <2>3
    <3> QED BY <3>1, <3>2, <2>3, <2>5 DEF Queued
  <2>7. head \notin Prepared
    BY <2>2, <2>3 DEF NodesSeparate, Prepared, Linking
  <2> QED BY <2>1, <2>2, <2>6, <2>7
<1>7. ASSUME NEW t \in Threads, GetEventFails(t) PROVE FALSE
  BY <1>7 DEF GetEventFails, TypeOK
<1>8. ASSUME NEW t \in Threads, GetBlocks(t) PROVE FALSE
  BY <1>0, <1>8 DEF GetBlocks, event
<1>9. ASSUME Destroy PROVE FALSE
  BY <1>9 DEF Destroy, DestroyBegin, DestroyStep, DestroyBadAccess, DestroyEnd
<1>10. ASSUME UNCHANGED vars PROVE alloc' = Queued' \cup Prepared' /\ ~evLocked'
  BY <1>0, <1>10 DEF vars, Queued, Prepared, Linking
<1> QED
  BY <1>1, <1>2, <1>3, <1>4, <1>5, <1>6, <1>7, <1>8, <1>9, <1>10 DEF Next, Push, Get

\* As long as the pipe of the event does not fail, every allocated node is
\* queued or about to be, and the event can be used: push_back and get_front
\* neither leak a node nor free one twice.
THEOREM QueueLeaksNothing == Spec => []NoFaultNoLeak
<1>1. Init => FullInv
  BY InitInv DEF FullInv, IdleWhenDestroyed, Init
<1>2. Init => NoFaultNoLeak
  BY DEF Init, NoFaultNoLeak, CommitOrRollback, Linking
<1> QED
  BY <1>1, <1>2, NextInv, LeakStep, PTL DEF Spec

-----------------------------------------------------------------------------
(* Refinement *)

Step == [Fifo!Next]_(Fifo!fifoVars)

\* What MsgFifo sees of a live queue.
LEMMA ContentsLive ==
  ASSUME FullInv, life = "live"
  PROVE  /\ Contents \in Seq(Msgs) /\ Len(Contents) = Len(order) /\ Len(order) \in Nat
         /\ \A i \in 1..Len(order) : Contents[i] = data[order[i]]
         /\ Contents = <<>> <=> size = 0
<1> USE DEF FullInv, Inv
<1>1. order \in Seq(Nodes) /\ Len(order) \in Nat /\ size = Len(order)
  BY DEF TypeOK, ListInOrder
<1>2. \A i \in 1..Len(order) : data[order[i]] \in Msgs
  BY DEF NodesSeparate
<1>3. Contents = [i \in 1..Len(order) |-> data[order[i]]]
  BY DEF Contents
<1>4. Contents \in [1..Len(order) -> Msgs]
  BY <1>2, <1>3
<1>5. Contents \in Seq(Msgs) /\ Len(Contents) = Len(order)
  BY <1>1, <1>4
<1>6. Contents = <<>> <=> Len(Contents) = 0
  BY <1>5, EmptySeq
<1> QED BY <1>1, <1>3, <1>5, <1>6

\* A step that leaves the queue's content, its event and the result alone.
LEMMA Stutter ==
  ASSUME UNCHANGED <<Contents, life, signaled, got>> PROVE Step
BY DEF Step, Fifo!fifoVars

\* Filling a node that is not queued is not seen.
LEMMA PrepareStep ==
  ASSUME FullInv, FullInv', NEW t \in Threads, NEW m \in Msgs, PushPrepare(t, m)
  PROVE  Step
<1>1. life = "live" /\ UNCHANGED <<life, order, signaled, got>>
  BY DEF PushPrepare, event
<1>2. PICK n \in Nodes \ alloc : data' = [data EXCEPT ![n] = m]
  BY DEF PushPrepare
<1>3. \A i \in 1..Len(order) : data'[order[i]] = data[order[i]]
  BY <1>1, <1>2 DEF FullInv, Inv, NodesSeparate, TypeOK
<1>4. Contents' = Contents
  BY <1>1, <1>3 DEF Contents
<1> QED BY <1>1, <1>4, Stutter

\* Linking a node commits its message.
LEMMA LinkStep ==
  ASSUME FullInv, FullInv', NEW t \in Threads, PushLink(t)
  PROVE  Step
<1> DEFINE m == data[node[t]]
<1>1. life = "live" /\ life' = "live" /\ UNCHANGED <<data, got>>
  BY DEF FullInv, IdleWhenDestroyed, PushLink, Link
<1>2. m \in Msgs /\ node[t] \in Nodes /\ order \in Seq(Nodes)
  BY <1>1 DEF FullInv, Inv, NodesSeparate, TypeOK, PushLink, Link
<1>3. /\ Len(order') = Len(order) + 1
      /\ \A i \in 1..Len(order) : order'[i] = order[i]
      /\ order'[Len(order) + 1] = node[t]
  BY <1>2 DEF PushLink, Link
<1>4. /\ Contents \in Seq(Msgs) /\ Len(Contents) = Len(order) /\ Len(order) \in Nat
      /\ \A i \in 1..Len(order) : Contents[i] = data[order[i]]
  BY <1>1, ContentsLive
<1>5. /\ Contents' \in Seq(Msgs) /\ Len(Contents') = Len(order) + 1
      /\ \A i \in 1..(Len(order) + 1) : Contents'[i] = data[order'[i]]
  <2>1. Contents' = [i \in 1..Len(order') |-> data'[order'[i]]]
    BY <1>1 DEF Contents
  <2>2. \A i \in 1..(Len(order) + 1) : data[order'[i]] \in Msgs
    BY <1>2, <1>3, <1>4, ElementOfSeq
  <2>3. Contents' \in [1..(Len(order) + 1) -> Msgs]
    BY <2>1, <2>2, <1>1, <1>3
  <2> QED BY <2>1, <2>3, <1>1, <1>3, <1>4
<1>6. /\ Append(Contents, m) \in Seq(Msgs) /\ Len(Append(Contents, m)) = Len(order) + 1
      /\ \A i \in 1..(Len(order) + 1) :
           Append(Contents, m)[i] = IF i <= Len(order) THEN Contents[i] ELSE m
  BY <1>2, <1>4
<1>7. \A i \in 1..(Len(order) + 1) : Contents'[i] = Append(Contents, m)[i]
  BY <1>3, <1>4, <1>5, <1>6
<1>8. Contents' = Append(Contents, m)
  <2> HIDE DEF m
  <2> QED BY <1>5, <1>6, <1>7, SeqEqual
<1>9. (life = "live" /\ signaled)' = TRUE
  <2>1. signaled' /\ signaled' \in BOOLEAN
    BY <1>1, <1>3, <1>4 DEF FullInv, Inv, EventMatchesQueue, ListInOrder, TypeOK
  <2> QED BY <1>1, <2>1
<1> QED BY <1>1, <1>2, <1>8, <1>9 DEF Step, Fifo!Next, Fifo!Commit

\* get_front fetches the oldest message.
LEMMA FetchStep ==
  ASSUME FullInv, FullInv', NEW t \in Threads, GetFront(t)
  PROVE  Step
<1>1. /\ life = "live" /\ life' = "live" /\ size > 0 /\ size' = size - 1
      /\ order' = Tail(order) /\ got' = data[head] /\ data' = data
  BY DEF GetFront, Unlink
<1>2. /\ Contents \in Seq(Msgs) /\ Len(Contents) = Len(order) /\ Len(order) \in Nat
      /\ \A i \in 1..Len(order) : Contents[i] = data[order[i]]
      /\ Contents # <<>>
  BY <1>1, ContentsLive
<1>3. /\ Contents' \in Seq(Msgs) /\ Len(Contents') = Len(order') /\ Len(order') \in Nat
      /\ \A i \in 1..Len(order') : Contents'[i] = data'[order'[i]]
      /\ Contents' = <<>> <=> size' = 0
  <2>1. life' = "live" /\ FullInv'
    BY <1>1
  <2>2. \A i \in 1..Len(order') : data'[order'[i]] \in Msgs
    BY <2>1 DEF FullInv, Inv, NodesSeparate
  <2>3. Contents' = [i \in 1..Len(order') |-> data'[order'[i]]]
    BY <2>1 DEF Contents
  <2>4. order' \in Seq(Nodes) /\ size' = Len(order') /\ Len(order') \in Nat
    BY <2>1 DEF FullInv, Inv, TypeOK, ListInOrder
  <2>5. Contents' \in Seq(Msgs) /\ Len(Contents') = Len(order')
    <3>1. Contents' \in [1..Len(order') -> Msgs]
      BY <2>2, <2>3
    <3> QED BY <3>1, <2>4
  <2>6. Contents' = <<>> <=> Len(Contents') = 0
    BY <2>5, EmptySeq
  <2> QED BY <2>3, <2>4, <2>5, <2>6
<1>4. /\ order \in Seq(Nodes) /\ order # <<>> /\ head = order[1] /\ Len(order) > 0
      /\ Len(order') = Len(order) - 1
      /\ \A i \in 1..Len(order') : order'[i] = order[i + 1]
  <2>1. order \in Seq(Nodes) /\ size = Len(order) /\ Len(order) > 0
    BY <1>1 DEF FullInv, Inv, TypeOK, ListInOrder
  <2>2. order # <<>>
    BY <2>1
  <2>3. head = order[1]
    BY <1>1, <2>2 DEF FullInv, Inv, ListInOrder
  <2> QED BY <1>1, <2>1, <2>2, <2>3, HeadTailProperties
<1>5. /\ Tail(Contents) \in Seq(Msgs) /\ Len(Tail(Contents)) = Len(Contents) - 1
      /\ \A i \in 1..Len(Tail(Contents)) : Tail(Contents)[i] = Contents[i + 1]
  BY <1>2, HeadTailProperties
<1>6. Contents' = Tail(Contents)
  <2>1. ASSUME NEW i \in 1..Len(Contents') PROVE Contents'[i] = Tail(Contents)[i]
    <3>1. i \in 1..Len(order') /\ i \in 1..Len(Tail(Contents)) /\ i + 1 \in 1..Len(order)
      BY <1>2, <1>3, <1>4, <1>5
    <3>2. Contents'[i] = data[order[i + 1]]
      BY <1>1, <1>3, <1>4, <3>1
    <3> QED BY <1>2, <1>5, <3>1, <3>2
  <2> QED BY <1>2, <1>3, <1>4, <1>5, <2>1, SeqEqual
<1>7. got' = Head(Contents)
  <2>1. Head(Contents) = Contents[1]
    BY <1>2
  <2> QED BY <1>1, <1>2, <1>4, <2>1
<1>8. (life = "live" /\ signaled)' = (Tail(Contents) # <<>>)
  <2>1. signaled' <=> size' > 0
    BY <1>1 DEF FullInv, Inv, EventMatchesQueue
  <2>2. size' \in Nat /\ signaled' \in BOOLEAN
    BY DEF FullInv, Inv, TypeOK
  <2>3. signaled' <=> Tail(Contents) # <<>>
    BY <1>3, <1>6, <2>1, <2>2
  <2> QED BY <1>1, <2>2, <2>3
<1> QED BY <1>2, <1>6, <1>7, <1>8 DEF Step, Fifo!Next, Fifo!Fetch

\* Every step of the linked list is a step of the abstract queue, or none.
LEMMA RefinementStep == FullInv /\ FullInv' /\ [Next]_vars => Step
<1> SUFFICES ASSUME FullInv, FullInv', [Next]_vars PROVE Step
  OBVIOUS
<1>1. ASSUME UNCHANGED <<list, life, signaled, got>> PROVE Step
  BY <1>1, Stutter DEF list, Contents
<1>2. ASSUME NEW t \in Threads, PushEventFails(t) \/ PushBlocks(t) \/ GetEventFails(t) \/ GetBlocks(t)
      PROVE  Step
  BY <1>1, <1>2 DEF PushEventFails, PushBlocks, GetEventFails, GetBlocks, event
<1>3. ASSUME NEW t \in Threads, GetEmpty(t) PROVE Step
  <2>1. life = "live" /\ size = 0 /\ UNCHANGED <<list, life, signaled>> /\ got' = NULL
    BY <1>3 DEF GetEmpty, event
  <2>2. Contents = <<>> /\ Contents' = Contents
    BY <2>1, ContentsLive DEF Contents, list
  <2> QED BY <2>1, <2>2 DEF Step, Fifo!Next, Fifo!FetchNothing
<1>4. ASSUME DestroyBegin PROVE Step
  <2>1. life' = "destroying" /\ got' = got
    BY <1>4 DEF DestroyBegin
  <2>2. Contents' = <<>> /\ (life = "live" /\ signaled)' = FALSE
    BY <2>1 DEF Contents
  <2> QED BY <2>1, <2>2 DEF Step, Fifo!Next, Fifo!Discard
<1>5. ASSUME DestroyStep \/ DestroyBadAccess \/ DestroyEnd PROVE Step
  <2>1. life # "live" /\ life' # "live" /\ got' = got
    BY <1>5 DEF DestroyStep, DestroyBadAccess, DestroyEnd
  <2>2. Contents' = Contents /\ (life = "live" /\ signaled)' = (life = "live" /\ signaled)
    BY <2>1 DEF Contents
  <2> QED BY <2>1, <2>2 DEF Step, Fifo!fifoVars
<1>6. CASE UNCHANGED vars
  BY <1>1, <1>6 DEF vars, list
<1> QED
  BY <1>2, <1>3, <1>4, <1>5, <1>6, PrepareStep, LinkStep, FetchStep DEF Next, Push, Get, Destroy

\* The linked list that threads share implements the queue a component relies
\* on: every message committed is fetched once, in order, and the event is in
\* step with the content, whatever push_back's unlocked read of the tail sees.
THEOREM QueueImplementsFifo == Spec => ImplementsFifo
<1>1. Init => FullInv
  BY InitInv DEF FullInv, IdleWhenDestroyed, Init
<1>2. Init => Fifo!Init
  <2> SUFFICES ASSUME Init PROVE Fifo!Init
    OBVIOUS
  <2>1. Contents = <<>>
    BY DEF Init, Contents
  <2>2. (life = "live" /\ signaled) = FALSE /\ got = NULL
    BY DEF Init
  <2> QED BY <2>1, <2>2 DEF Fifo!Init
<1>3. FullInv /\ FullInv' /\ [Next]_vars => [Fifo!Next]_(Fifo!fifoVars)
  BY RefinementStep DEF Step
<1> QED
  BY <1>1, <1>2, <1>3, NextInv, PTL DEF Spec, ImplementsFifo, Fifo!Spec
=============================================================================
