--------------------------- MODULE FrameBufferList --------------------------
(***************************************************************************)
(* The frame buffer list of the HEVC decoder library (hevc_fb_mngr.c), as  *)
(* operators on a record fb:                                               *)
(*                                                                         *)
(*   rc[id], used[id]  n_ref_count and the set of flags b_used             *)
(*   free              free_buffers, a counter kept beside the flags       *)
(*   fifo, sem         out_fifo and the semaphore that counts its entries  *)
(*   abort, flushAll   the flags the output thread looks at                *)
(*   failed            an assert of this file or of hevc_dpb.c has failed  *)
(*                                                                         *)
(* An operator that holds ref_count_mutex is one critical section.         *)
(***************************************************************************)
EXTENDS Integers, Sequences, FiniteSets

CONSTANT Ids        \* ids of the frame buffers the client has added

ASSUME IdsAssumption == Ids \subseteq Nat /\ IsFiniteSet(Ids)

Flags == {"free", "alloc", "temp", "out", "hw"}

FrameBufferLists ==
  [rc : [Ids -> Nat], used : [Ids -> SUBSET Flags], free : Int, fifo : Seq(Ids),
   sem : Nat, abort : BOOLEAN, flushAll : BOOLEAN, failed : BOOLEAN]

NoId == -1

Asserting(fb, P) == [fb EXCEPT !.failed = @ \/ ~P]

Decremented(n) == IF n > 0 THEN n - 1 ELSE n

\* A buffer is free when it is marked FB_FREE, and nothing else, and unreferenced.
IsFree(fb, id) == fb.used[id] = {"free"} /\ fb.rc[id] = 0

\* if (n_ref_count == 0 && b_used == FB_FREE) free_buffers++, after a decrement
CountIfFree(fb, id) == IF IsFree(fb, id) THEN [fb EXCEPT !.free = @ + 1] ELSE fb
-----------------------------------------------------------------------------
AllocateIdUsed(fb, id) ==
  [fb EXCEPT !.used[id] = {"alloc"}, !.rc[id] = 0]

AllocateIdFree(fb, id) ==
  [fb EXCEPT !.used[id] = {"free"}, !.rc[id] = 0, !.free = @ + 1]

\* ReleaseId of every id; HevcEmptyDpb then sets free_buffers to 0 itself.
ReleaseAllIds(fb) ==
  LET free == {id \in Ids : fb.used[id] = {"free"}} IN
  [Asserting(fb, fb.free >= Cardinality(free) /\ \A id \in Ids : fb.rc[id] = 0)
     EXCEPT !.free = @ - Cardinality(free), !.used = [id \in Ids |-> {}]]

\* IncrementRefUsage and DecrementRefUsage of the ids of one picture's references.
\* The decrement counts a buffer as free even if its count was 0 already.
IncrementRefs(fb, ids) ==
  [fb EXCEPT !.rc = [id \in Ids |-> IF id \in ids THEN @[id] + 1 ELSE @[id]]]

DecrementRefs(fb, ids) ==
  LET rc == [id \in Ids |-> IF id \in ids THEN Decremented(fb.rc[id]) ELSE fb.rc[id]]
  IN [fb EXCEPT !.rc = rc,
        !.free = @ + Cardinality({id \in ids : rc[id] = 0 /\ fb.used[id] = {"free"}})]

MarkHWOutput(fb, id) ==
  [Asserting(fb, "alloc" \in fb.used[id]) EXCEPT !.rc[id] = @ + 1, !.used[id] = @ \cup {"hw"}]

\* mutant
ClearHWOutputKeepsCount(fb, id) ==
  [Asserting(fb, fb.used[id] \cap {"hw", "alloc"} # {}) EXCEPT !.used[id] = @ \ {"hw"}]

ClearHWOutput(fb, id) ==
  CountIfFree([Asserting(fb, fb.used[id] \cap {"hw", "alloc"} # {})
                 EXCEPT !.rc[id] = Decremented(@), !.used[id] = @ \ {"hw"}], id)

MarkTempOutput(fb, id) ==
  [Asserting(fb, "alloc" \in fb.used[id]) EXCEPT !.rc[id] = @ + 1, !.used[id] = @ \cup {"temp"}]

FinalizeOutputAll(fb) ==
  [fb EXCEPT !.used = [id \in Ids |-> IF "temp" \in @[id] THEN (@[id] \cup {"out"}) \ {"temp"}
                                      ELSE @[id]]]

\* mutant
ClearOutputKeepsCount(fb, id) ==
  [Asserting(fb, fb.used[id] \cap {"out", "temp"} # {}) EXCEPT !.used[id] = @ \ {"out", "temp"}]

\* A buffer whose count has been zeroed keeps its flags: the early return.
ClearOutput(fb, id) ==
  LET checked == Asserting(fb, fb.used[id] \cap {"out", "temp"} # {}) IN
  IF fb.rc[id] = 0 THEN checked
  ELSE CountIfFree([checked EXCEPT !.rc[id] = @ - 1, !.used[id] = @ \ {"out", "temp"}], id)

\* ClearOutput of every buffer with one of the flags (RemoveTempOutputAll,
\* RemoveOutputAll); each is in the list once, so the order does not matter.
RemoveAll(fb, flags) ==
  LET marked == {id \in Ids : fb.used[id] \cap flags # {} /\ fb.rc[id] > 0}
      used == [id \in Ids |-> IF id \in marked THEN fb.used[id] \ {"out", "temp"} ELSE fb.used[id]]
  IN [fb EXCEPT !.used = used,
        !.rc = [id \in Ids |-> IF id \in marked THEN @[id] - 1 ELSE @[id]],
        !.free = @ + Cardinality({id \in marked : fb.rc[id] = 1 /\ used[id] = {"free"}})]
-----------------------------------------------------------------------------
\* PopFreeBuffer takes the first free buffer.  With none it fails an assertion.
FirstFree(fb) ==
  LET free == {id \in Ids : IsFree(fb, id)} IN
  IF free = {} THEN NoId ELSE CHOOSE id \in free : \A j \in free : id <= j

PopFreeBuffer(fb) ==
  IF FirstFree(fb) = NoId THEN Asserting(fb, FALSE)
  ELSE [fb EXCEPT !.used[FirstFree(fb)] = {"alloc"}, !.free = @ - 1]

\* mutant
PushFreeBufferCounts(fb, id) ==
  [fb EXCEPT !.used[id] = (@ \ {"alloc"}) \cup {"free"}, !.free = @ + 1]

PushFreeBuffer(fb, id) ==
  [Asserting(fb, "alloc" \in fb.used[id])
     EXCEPT !.used[id] = (@ \ {"alloc"}) \cup {"free"},
            !.free = IF fb.rc[id] = 0 THEN @ + 1 ELSE @]

\* The condition GetFreePicBuffer waits for.
BufferAvailable(fb, old) == fb.free # 0 \/ fb.rc[old] = 0 \/ fb.abort
-----------------------------------------------------------------------------
\* mutant
PushOutputPicPostsFirst(fb, id) ==
  IF "out" \in fb.used[id]
    THEN [fb EXCEPT !.fifo = Append(@, id), !.sem = IF fb.fifo = <<>> THEN @ + 1 ELSE @]
    ELSE fb

\* PushOutputPic of a picture drops one that is no longer marked for output.
PushOutputPic(fb, id) ==
  IF "out" \in fb.used[id]
    THEN [fb EXCEPT !.fifo = Append(@, id), !.sem = @ + 1]
    ELSE fb

PushWakeupUnposted(fb) == fb                                     \* mutant
PushMarker(fb) == [fb EXCEPT !.flushAll = TRUE, !.sem = @ + 1]   \* id == -2
PushWakeup(fb) == [fb EXCEPT !.sem = @ + 1]                      \* id == -1

MarkListNotInUse(fb) == [fb EXCEPT !.rc = [id \in Ids |-> 0]]
ListNotInUse(fb) == fb.abort \/ \A id \in Ids : fb.rc[id] = 0

SetAbortStatusUnposted(fb) == [fb EXCEPT !.abort = TRUE]    \* mutant
SetAbortStatus(fb) == [fb EXCEPT !.abort = TRUE, !.sem = @ + 1]
ResetOutFifo(fb) == [fb EXCEPT !.fifo = <<>>]
=============================================================================
