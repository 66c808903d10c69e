-------------------------------- MODULE Port --------------------------------
(***************************************************************************)
(* The data structure of a component's port (port.c): the list of the      *)
(* buffers allocated for the port and the queue of the buffers handed to   *)
(* the component, both arrays that grow by doubling, and the event that    *)
(* the component thread sleeps on.  A port is a record and an operation of *)
(* port.c is an operator from the port before to the port after; who calls *)
(* them, and under which lock, is the business of the modules that EXTEND  *)
(* this one.                                                               *)
(*                                                                         *)
(* Indices are the code's plus one.  malloc does not fail here.            *)
(***************************************************************************)
EXTENDS Naturals, Sequences, SequencesExt

\* HantroOmx_port_init(p, ..., nBuffers, ...), nBuffers > 0, of an enabled
\* port.  bufferRdy is set and reset together with bPopulated: one field.
NewPort(nBuffers) ==
  [buffers |-> <<>>, bcap |-> nBuffers, queue |-> <<>>, qcap |-> nBuffers,
   event |-> FALSE, enabled |-> TRUE, populated |-> FALSE]

\* bufferlist_push_back: a full list refuses the buffer.
ListPush(list, cap, b) == IF Len(list) = cap THEN list ELSE Append(list, b)

-----------------------------------------------------------------------------
(* The queue *)

\* push_buffer when OSAL_EventSet succeeds.  A full queue is reserved twice
\* its capacity first; twice nothing is nothing, and then the second
\* push_back is refused too and its result is not looked at.
PushBuffer(p, b) ==
  LET cap == IF Len(p.queue) = p.qcap THEN p.qcap * 2 ELSE p.qcap
  IN [p EXCEPT !.queue = ListPush(@, cap, b), !.qcap = cap, !.event = TRUE]

\* Mutant of PopBufferAt: the event of an emptied queue stays set.
PopBufferAt_NoReset(p, i) == [p EXCEPT !.queue = RemoveAt(@, i)]

\* pop_buffer_at(i) with i < size; the event is reset when the only element goes.
PopBufferAt(p, i) ==
  [p EXCEPT !.queue = RemoveAt(@, i), !.event = IF Len(p.queue) = 1 THEN FALSE ELSE @]

\* pop_buffer: nothing happens on an empty queue.
PopBuffer(p) == IF p.queue = <<>> THEN p ELSE PopBufferAt(p, 1)

\* Mutant of PopBufferByFrameId: the event is reset whatever is left.
PopBufferByFrameId_EventAlways(p, id, f) ==
  LET i == SelectInSeq(p.queue, LAMBDA b : id[b] = f)
      q == [p EXCEPT !.event = FALSE]
  IN IF i = 0 THEN q ELSE [q EXCEPT !.queue = RemoveAt(@, i)]

\* get_buffer_by_frame_id: the place of the first buffer with frame id f, or 0
PlaceOfFrame(p, id, f) == SelectInSeq(p.queue, LAMBDA b : id[b] = f)

\* pop_buffer_by_frame_id.  The event is reset whenever one buffer is queued,
\* the one that is looked for or another.
PopBufferByFrameId(p, id, f) ==
  LET i == PlaceOfFrame(p, id, f)
      q == [p EXCEPT !.event = IF Len(p.queue) = 1 THEN FALSE ELSE @]
  IN IF i = 0 THEN q ELSE [q EXCEPT !.queue = RemoveAt(@, i)]

\* buffer_queue_clear
QueueClear(p) == IF p.queue = <<>> THEN p ELSE [p EXCEPT !.queue = <<>>, !.event = FALSE]

-----------------------------------------------------------------------------
(* The allocated buffers *)

\* allocate_next_buffer; an empty list without capacity is given room for ten.
AllocateNextBuffer(p, b) ==
  LET cap == IF Len(p.buffers) # p.bcap THEN p.bcap
             ELSE IF p.bcap = 0 THEN 10 ELSE p.bcap * 2
  IN [p EXCEPT !.buffers = ListPush(@, cap, b), !.bcap = cap]

\* The locked half of release_buffer: what index i holds NOW is removed.
RemoveBufferAt(p, i) == [p EXCEPT !.buffers = RemoveAt(@, i)]

\* find_buffer, as the index of the buffer object in the list
FindBuffer(p, b) == CHOOSE i \in DOMAIN p.buffers : p.buffers[i] = b

\* The event of a port says whether buffers are queued: what the component
\* thread's wait relies on.
EventInStep(p) == p.event <=> p.queue # <<>>
=============================================================================
