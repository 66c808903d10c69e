----------------------------- MODULE HevcDecoder ----------------------------
(***************************************************************************)
(* The HEVC decoder library as codec_hevc.c uses it (hevcdecapi.c): the    *)
(* thread that decodes (dec), the thread that fetches pictures (out), the  *)
(* client that consumes them (held, cons) and, with several cores, the     *)
(* hardware (cores) and the thread that calls back when one is ready (cb). *)
(* Output is tiled: the frame buffers are the client's.                    *)
(*                                                                         *)
(* A step of dec ends where the code leaves a critical section of the      *)
(* frame buffer list, which the other threads share.                       *)
(***************************************************************************)
EXTENDS HevcDpb

CONSTANTS Cores,      \* hardware cores used when decoding is multi-core
          Modes,      \* values of b_mc to consider
          Allow,      \* what the run allows beyond the simplest use (below)
          MaxSem,     \* bound on the posts nobody has waited for
          MaxPics     \* bound on the pictures decoded

(* Allow:  "reinit"   new headers that keep the buffers while the client     *)
(*                    has pictures                                           *)
(*         "cra"      random access pictures that leave older ones out       *)
(*         "late"     AbortAfter while a callback or PictureConsumed is      *)
(*                    half done                                              *)
(*         "hdrabort" an abort while new headers wait for the output         *)

ASSUME HevcAssumption ==
  /\ Modes \subseteq BOOLEAN /\ IsFiniteSet(Cores) /\ MaxSem \in Nat /\ MaxPics \in Nat
  /\ Allow \subseteq {"reinit", "cra", "late", "hdrabort"}

VARIABLES b_mc, fb, dpb, dec, out, held, cons, cores, cb

vars == <<b_mc, fb, dpb, dec, out, held, cons, cores, cb>>

None == [busy |-> FALSE, id |-> 0, refs |-> {}, next |-> "none"]
Jobs == [busy : BOOLEAN, id : Ids, refs : SUBSET Ids, next : {"none", "clear", "decrement"}]

(* dec.pc is the place in the call dec.call, dec.slot the current picture's  *)
(* slot, dec.refs the ref_id kept for it; running is asic_running, eos       *)
(* dec_state = HEVCDEC_EOS, phase "ready", "reset" (HEVCDEC_WAITING_FOR_     *)
(* BUFFER before HevcResetDpb) or "add"; added is buffer_index;              *)
(* pics counts the pictures for MaxPics.                                     *)
DecPcs == {"idle", "outall", "remove", "update", "alloc", "get", "swap", "count", "start",
           "hw", "failed", "bump", "final", "push", "mark", "drain", "eos", "wake", "zero"}

TypeOK ==
  /\ b_mc \in Modes /\ fb \in FrameBufferLists /\ dpb \in Dpbs
  /\ dec \in [pc : DecPcs, call : {"none", "pic", "idr", "noout", "cra", "eos", "hdrs"}, slot : Slots, id : Ids,
              refs : SUBSET Ids, running : BOOLEAN, eos : BOOLEAN,
              phase : {"ready", "reset", "add"}, added : Nat, pics : 0 .. MaxPics]
  /\ out \in [pc : {"call", "sem", "peek", "sleep", "pop", "end"}, id : Ids]
  /\ held \subseteq Ids
  /\ cons \in Ids \cup {NoId}
  /\ cores \in [Cores -> Jobs]
  /\ cb \in Jobs

Start == [pc |-> "idle", call |-> "none", slot |-> 0, id |-> 0, refs |-> {},
          running |-> FALSE, eos |-> FALSE, phase |-> "add", added |-> 0, pics |-> 0]

Init ==
  /\ b_mc \in Modes
  /\ fb = [rc |-> [id \in Ids |-> 0], used |-> [id \in Ids |-> {}], free |-> 0,
           fifo |-> <<>>, sem |-> 0, abort |-> FALSE, flushAll |-> FALSE, failed |-> FALSE]
  /\ dpb = EmptyDpb
  /\ dec = Start
  /\ out = [pc |-> "call", id |-> 0]
  /\ held = {} /\ cons = NoId
  /\ cores = [c \in Cores |-> None] /\ cb = None

At(pc) == dec.pc = pc
Goto(pc) == dec' = [dec EXCEPT !.pc = pc]
Call(call, pc) == dec' = [dec EXCEPT !.call = call, !.pc = pc]
DecodePicture(call, pc) ==
  /\ dec.pics < MaxPics
  /\ dec' = [dec EXCEPT !.call = call, !.pc = pc, !.pics = @ + 1]
\* The decoder is not called once releaseBuffers is set, which is before the abort.
Ready == At("idle") /\ dec.phase = "ready" /\ ~dec.eos /\ ~fb.abort
Idle == Ready /\ ~dec.running

others == <<out, held, cons, cores, cb>>
-----------------------------------------------------------------------------
(* HevcDecAddBuffer: the first dpb_size + 1 buffers belong to the slots, the *)
(* others are free.  Decoding goes on when all have been added.              *)

AddBuffer ==
  /\ At("idle") /\ dec.phase = "add" /\ dec.added \in Ids
  /\ fb' = IF dec.added <= DpbSize THEN AllocateIdUsed(fb, dec.added)
                                   ELSE AllocateIdFree(fb, dec.added)
  /\ dec' = [dec EXCEPT !.added = @ + 1,
                        !.phase = IF dec.added + 1 \in Ids THEN "add" ELSE "ready"]
  /\ UNCHANGED <<b_mc, dpb, others>>
-----------------------------------------------------------------------------
(* HevcDecDecode of a picture.                                               *)

\* An ordinary slice: its reference pictures, then HevcDpbUpdateOutputList.
DecodeSlice ==
  /\ Idle
  /\ \E S \in SUBSET Refs(dpb) :
       /\ Cardinality(S) <= MaxRefs
       /\ dpb' = SetRefPics(dpb, S)
  /\ DecodePicture("pic", "update")
  /\ UNCHANGED <<b_mc, fb, others>>

\* IDR: all pictures are output, or dropped if no_output_of_prior_pics_flag is set.
DecodeIdr ==
  /\ Idle
  /\ dpb' = Unreference(dpb, Refs(dpb))
  /\ \E call \in {"idr", "noout"} : DecodePicture(call, "outall")
  /\ UNCHANGED <<b_mc, fb, others>>

\* CRA with no_rasl_output: older pictures are dropped, the others output.
DecodeCra ==
  /\ "cra" \in Allow /\ Idle
  /\ \E S \in OlderSets(dpb) : dpb' = MarkOlderUnused(dpb, S)
  /\ DecodePicture("cra", "outall")
  /\ UNCHANGED <<b_mc, fb, others>>

\* The loops of OutputPicture change marks, counts and free_buffers, and fail asserts.
Output(o) ==
  /\ dpb' = o.dpb
  /\ fb' = [fb EXCEPT !.rc = o.fb.rc, !.used = o.fb.used, !.free = o.fb.free, !.failed = o.fb.failed]

\* The loops of OutputPicture add marks that no other thread looks at until they
\* are finalized: each is one step.
OutputAll ==
  /\ At("outall")
  /\ Output(OutputAllPictures(dpb, fb))
  /\ Goto(CASE dec.call = "noout" -> "remove"
            [] dec.call \in {"idr", "cra"} -> "update"
            [] dec.call \in {"eos", "hdrs"} -> "final")
  /\ UNCHANGED <<b_mc, others>>

\* mutant
RemovePriorMarks ==
  /\ At("remove")
  /\ fb' = RemoveAll(fb, {"temp"})
  /\ Goto("update")
  /\ UNCHANGED <<b_mc, dpb, others>>

\* RemoveTempOutputAll, num_out = 0
RemovePrior ==
  /\ At("remove")
  /\ fb' = RemoveAll(fb, {"temp"})
  /\ dpb' = [dpb EXCEPT !.outbuf = <<>>]
  /\ Goto("update")
  /\ UNCHANGED <<b_mc, others>>

UpdateOutput ==
  /\ At("update")
  /\ Output(UpdateOutputList(dpb, fb))
  /\ Goto("alloc")
  /\ UNCHANGED <<b_mc, others>>
-----------------------------------------------------------------------------
\* The picture may be anywhere in display order and need not be output.
Store(i, id) ==
  \E k \in 1 .. Len(Undisplay(dpb, {i}).disp) + 1, outf \in BOOLEAN :
    dpb' = StorePicture(dpb, i, id, k, outf)

\* mutant
AllocateDpbImageOwn ==
  /\ At("alloc")
  /\ Store(AllocSlot(dpb), dpb.slot[AllocSlot(dpb)].mem)
  /\ dec' = [dec EXCEPT !.pc = "count", !.slot = AllocSlot(dpb)]
  /\ UNCHANGED <<b_mc, fb, others>>

\* HevcAllocateDpbImage: the slot's own buffer if nobody refers to it
AllocateDpbImage ==
  /\ At("alloc")
  /\ LET i == AllocSlot(dpb) IN
     IF fb.rc[dpb.slot[i].mem] = 0
       THEN Store(i, dpb.slot[i].mem) /\ dec' = [dec EXCEPT !.pc = "count", !.slot = i]
       ELSE dec' = [dec EXCEPT !.pc = "get", !.slot = i] /\ dpb' = [dpb EXCEPT !.slot[i].ref = FALSE]
  /\ UNCHANGED <<b_mc, fb, others>>

\* GetFreePicBuffer waits for a free buffer, or for the slot's own, or for an abort,
\* after which there is no picture: HEVC_ABORTED.
GetFreePicBuffer ==
  /\ At("get")
  /\ LET old == dpb.slot[dec.slot].mem IN
     /\ BufferAvailable(fb, old)
     /\ CASE fb.abort -> Goto("idle") /\ UNCHANGED <<fb, dpb>>
          [] ~fb.abort /\ fb.rc[old] = 0 -> Store(dec.slot, old) /\ Goto("count") /\ UNCHANGED fb
          [] OTHER -> /\ fb' = PopFreeBuffer(fb)
                      /\ dec' = [dec EXCEPT !.pc = "swap",
                                            !.id = IF FirstFree(fb) = NoId THEN @ ELSE FirstFree(fb)]
                      /\ UNCHANGED dpb
  /\ UNCHANGED <<b_mc, others>>

\* SetFreePicBuffer of the buffer the slot had
SwapBuffer ==
  /\ At("swap")
  /\ fb' = PushFreeBuffer(fb, dpb.slot[dec.slot].mem)
  /\ Store(dec.slot, dec.id)
  /\ dec' = [dec EXCEPT !.pc = "count", !.id = 0]
  /\ UNCHANGED <<b_mc, others>>

IncrementDPBRefCount ==
  /\ At("count")
  /\ fb' = IncrementRefs(fb, RefIds(dpb))
  /\ dec' = [dec EXCEPT !.refs = RefIds(dpb), !.pc = IF b_mc THEN "start" ELSE "hw",
                        !.running = ~b_mc]
  /\ UNCHANGED <<b_mc, dpb, others>>

\* The picture is the hardware's or it is decoded.
Bumping == dec' = [dec EXCEPT !.pc = "bump", !.running = FALSE, !.slot = 0, !.refs = {}]

\* HevcRunAsic with several cores: reserve one, set its callback, start it.
StartCore ==
  /\ At("start")
  /\ \E c \in Cores :
       /\ ~cores[c].busy
       /\ cores' = [cores EXCEPT ![c] = [busy |-> TRUE, id |-> dpb.slot[dec.slot].mem,
                                         refs |-> dec.refs, next |-> "clear"]]
  /\ fb' = MarkHWOutput(fb, dpb.slot[dec.slot].mem)
  /\ Bumping
  /\ UNCHANGED <<b_mc, dpb, out, held, cons, cb>>

\* HevcRunAsic with one core returns when the picture is decoded, with an error (the
\* picture is dropped), or when the hardware needs more data.
HwReady ==
  /\ At("hw")
  /\ fb' = DecrementRefs(fb, dec.refs)
  /\ dpb' \in {dpb, DropPicture(dpb, dec.slot)}
  /\ Bumping
  /\ UNCHANGED <<b_mc, others>>

\* A software timeout, a system or a bus error, or no core: HevcDecDecode returns at
\* once, with pictures left in out_buf.  decoder.c then decodes no more, it aborts.
HwError ==
  /\ At("hw")
  /\ fb' = DecrementRefs(fb, dec.refs)
  /\ dec' = [dec EXCEPT !.pc = "failed", !.running = FALSE, !.slot = 0, !.refs = {}]
  /\ UNCHANGED <<b_mc, dpb, others>>

HwBufferEmpty == At("hw") /\ Goto("idle") /\ UNCHANGED <<b_mc, fb, dpb, others>>
DecodeMore ==
  /\ Ready /\ dec.running
  /\ Goto("hw")
  /\ UNCHANGED <<b_mc, fb, dpb, others>>
-----------------------------------------------------------------------------
\* HevcDpbCheckMaxLatency, after the picture
Bump ==
  /\ At("bump")
  /\ Output(CheckMaxLatency(dpb, fb))
  /\ Goto("final")
  /\ UNCHANGED <<b_mc, others>>

Finalize ==
  /\ At("final")
  /\ fb' = FinalizeOutputAll(fb)
  /\ Goto("push")
  /\ UNCHANGED <<b_mc, dpb, others>>

\* HevcDecNextPictureInternal until out_buf is empty
Push ==
  /\ At("push")
  /\ IF dpb.outbuf # <<>>
       THEN /\ fb' = PushOutputPic(fb, Head(dpb.outbuf))
            /\ dpb' = [dpb EXCEPT !.outbuf = Tail(@)]
            /\ UNCHANGED dec
       ELSE /\ Goto(CASE dec.call = "eos" -> "eos" [] dec.call = "hdrs" -> "mark" [] OTHER -> "idle")
            /\ UNCHANGED <<fb, dpb>>
  /\ UNCHANGED <<b_mc, others>>
-----------------------------------------------------------------------------
(* New headers (HEVC_HDRS_RDY): pictures are flushed, or bumped if the new   *)
(* sequence does not want them; then the list is declared unused.            *)

NewHeaders ==
  /\ Idle /\ fb.sem < MaxSem
  /\ \/ Call("hdrs", "outall") /\ UNCHANGED <<dpb, fb>>
     \/ Call("hdrs", "final") /\ Output(UpdateOutputList2(dpb, fb))
  /\ UNCHANGED <<b_mc, others>>

\* With several cores the pictures are waited for; then n_ref_count = 0 for all.
MarkUnused ==
  /\ At("mark")
  /\ b_mc => ListNotInUse(fb)
  /\ fb' = MarkListNotInUse(fb)
  /\ Goto("drain")
  /\ UNCHANGED <<b_mc, dpb, others>>

\* WaitListNotInUse and WaitOutputEmpty, then the flush marker
DrainOutput ==
  /\ At("drain") /\ ListNotInUse(fb) /\ fb.fifo = <<>>
  /\ fb' = PushMarker(fb)
  /\ dec' = [dec EXCEPT !.pc = "idle", !.phase = "reset"]
  /\ UNCHANGED <<b_mc, dpb, others>>

\* HevcReInitDpb drops what is left and keeps the buffers: the pictures are marked for
\* output and the marks removed again.
ReInitDpb ==
  /\ "reinit" \in Allow \/ (held = {} /\ cons = NoId)
  /\ LET left == {dpb.slot[i].mem : i \in {j \in Range(dpb.disp) : dpb.slot[j].outf}} IN
     /\ fb' = [fb EXCEPT !.used = [id \in Ids |-> IF id \in left THEN @[id] \ {"out", "temp"} ELSE @[id]]]
     /\ dpb' = [EmptyDpb EXCEPT !.slot = [i \in Slots |-> [dpb.slot[i] EXCEPT !.ref = FALSE]]]
  /\ dec' = [dec EXCEPT !.phase = "ready"]
  /\ UNCHANGED <<held, cons>>

\* HevcFreeDpbExt and HevcInitDpb: the client returns all buffers and adds new ones.
FreeAndInitDpb ==
  /\ cons = NoId
  /\ fb' = ReleaseAllIds(fb)
  /\ dpb' = EmptyDpb
  /\ dec' = [dec EXCEPT !.phase = "add", !.added = 0]
  /\ held' = {} /\ UNCHANGED cons

ResetDpb ==
  /\ At("idle") /\ dec.phase = "reset" /\ ~fb.abort
  /\ ReInitDpb \/ FreeAndInitDpb
  /\ UNCHANGED <<b_mc, out, cores, cb>>
-----------------------------------------------------------------------------
(* HevcDecEndOfStream, under protect_mutex: stop the hardware, output all,   *)
(* say so, and zero the counts of the buffers the client still has.          *)

CoresIdle == \A c \in Cores : ~cores[c].busy

EndOfStream ==
  /\ Ready /\ fb.sem < MaxSem
  /\ CoresIdle
  /\ fb' = IF dec.running THEN DecrementRefs(fb, dec.refs) ELSE fb
  /\ dec' = [dec EXCEPT !.running = FALSE, !.slot = 0, !.refs = {}, !.call = "eos", !.pc = "outall"]
  /\ UNCHANGED <<b_mc, dpb, others>>

EosState ==
  /\ At("eos")
  /\ dec' = [dec EXCEPT !.eos = TRUE, !.pc = "wake"]
  /\ UNCHANGED <<b_mc, fb, dpb, others>>

EosWake ==
  /\ At("wake")
  /\ fb' = PushWakeup(fb)
  /\ Goto("zero")
  /\ UNCHANGED <<b_mc, dpb, others>>

\* n_ref_count = 0 for all; WaitListNotInUse then has nothing to wait for.
EosZero ==
  /\ At("zero")
  /\ fb' = MarkListNotInUse(fb)
  /\ Goto("idle")
  /\ UNCHANGED <<b_mc, dpb, others>>
-----------------------------------------------------------------------------
(* HevcDecAbort by the client's thread; protect_mutex keeps it out of        *)
(* EndOfStream.  codec_hevc's user joins the output thread before            *)
(* HevcDecAbortAfter and starts it again afterwards.                         *)

Abort ==
  /\ ~fb.abort /\ fb.sem < MaxSem
  /\ ~(dec.call = "eos" /\ dec.pc # "idle")
  /\ "hdrabort" \notin Allow => ~(dec.call = "hdrs" /\ dec.pc # "idle")
  /\ fb' = SetAbortStatus(fb)
  /\ UNCHANGED <<b_mc, dpb, dec, others>>

Quiet == cb = None /\ cons = NoId

AbortAfter ==
  /\ fb.abort /\ (At("idle") \/ At("failed")) /\ out.pc = "end"
  /\ b_mc => CoresIdle
  /\ "late" \notin Allow => Quiet
  /\ LET stopped == IF dec.running THEN DecrementRefs(fb, dec.refs) ELSE fb
         emptied == ReleaseAllIds(RemoveAll(RemoveAll(stopped, {"temp"}), {"out"}))
     IN fb' = [MarkListNotInUse(ResetOutFifo(emptied)) EXCEPT !.free = 0, !.abort = FALSE]
  /\ dpb' = EmptyDpb
  /\ dec' = [Start EXCEPT !.pics = dec.pics]
  /\ out' = [out EXCEPT !.pc = "call"]
  /\ held' = {}
  /\ UNCHANGED <<b_mc, cons, cores, cb>>
-----------------------------------------------------------------------------
(* The output thread: HevcDecNextPicture.  After an abort, releaseBuffers is *)
(* set and the thread ends at the next test of its loop.                     *)

mine == <<b_mc, dpb, dec, cons, cores, cb>>
OutGoto(pc) == out' = [out EXCEPT !.pc = pc]

NextPicture ==
  /\ out.pc = "call"
  /\ OutGoto(IF (dec.eos /\ fb.fifo = <<>>) \/ fb.abort THEN "end" ELSE "sem")
  /\ UNCHANGED <<fb, held, mine>>

\* sem_wait, then the markers and the number of pictures
PeekSem ==
  /\ out.pc = "sem" /\ fb.sem > 0
  /\ fb' = [fb EXCEPT !.sem = @ - 1, !.flushAll = @ /\ fb.abort]
  /\ out' = CASE fb.abort -> [out EXCEPT !.pc = "end"]
              [] ~fb.abort /\ (fb.flushAll \/ fb.fifo = <<>>) -> [out EXCEPT !.pc = "call"]
              [] OTHER -> [out EXCEPT !.pc = "peek", !.id = Head(fb.fifo)]
  /\ UNCHANGED <<held, mine>>

\* while (FB_HW_ONGOING) pthread_cond_wait(&hw_rdy_cv)
PeekHw ==
  /\ out.pc = "peek"
  /\ OutGoto(IF "hw" \in fb.used[out.id] THEN "sleep" ELSE "pop")
  /\ UNCHANGED <<fb, held, mine>>

PeekPop ==
  /\ out.pc = "pop"
  /\ fb' = [fb EXCEPT !.fifo = Tail(@)]
  /\ held' = held \cup {out.id}
  /\ out' = [pc |-> "call", id |-> 0]
  /\ UNCHANGED mine
-----------------------------------------------------------------------------
(* HevcDecPictureConsumed: PopOutputPic tests and clears in two critical     *)
(* sections.                                                                 *)

Consume ==
  /\ cons = NoId
  /\ \E id \in held :
       /\ held' = held \ {id}
       /\ cons' = IF "out" \in fb.used[id] THEN id ELSE NoId
  /\ UNCHANGED <<b_mc, fb, dpb, dec, out, cores, cb>>

ConsumeClear ==
  /\ cons # NoId
  /\ fb' = ClearOutput(fb, cons)
  /\ cons' = NoId
  /\ UNCHANGED <<b_mc, dpb, dec, out, held, cores, cb>>
-----------------------------------------------------------------------------
(* HevcMCHwRdyCallback, called by one thread for all cores: it releases the  *)
(* core before it gives up the buffers.                                      *)

Callback ==
  /\ cb = None
  /\ \E c \in Cores :
       /\ cores[c].busy
       /\ cb' = cores[c]
       /\ cores' = [cores EXCEPT ![c] = None]
  /\ UNCHANGED <<b_mc, fb, dpb, dec, out, held, cons>>

\* hw_rdy_cv is signalled only for a picture that is marked for output.
CallbackClear ==
  /\ cb.next = "clear"
  /\ fb' = ClearHWOutput(fb, cb.id)
  /\ cb' = [cb EXCEPT !.next = "decrement"]
  /\ out' = IF out.pc = "sleep" /\ "out" \in fb.used[cb.id] THEN [out EXCEPT !.pc = "peek"] ELSE out
  /\ UNCHANGED <<b_mc, dpb, dec, held, cons, cores>>

CallbackDecrement ==
  /\ cb.next = "decrement"
  /\ fb' = DecrementRefs(fb, cb.refs)
  /\ cb' = None
  /\ UNCHANGED <<b_mc, dpb, dec, out, held, cons, cores>>
-----------------------------------------------------------------------------
DecodeStep ==
  \/ AddBuffer \/ OutputAll \/ RemovePrior \/ UpdateOutput \/ AllocateDpbImage
  \/ GetFreePicBuffer \/ SwapBuffer
  \/ IncrementDPBRefCount \/ StartCore \/ HwReady \/ HwError \/ HwBufferEmpty
  \/ DecodeMore \/ Bump \/ Finalize \/ Push \/ MarkUnused \/ DrainOutput \/ ResetDpb
  \/ EosState \/ EosWake \/ EosZero \/ AbortAfter

OutStep == NextPicture \/ PeekSem \/ PeekHw \/ PeekPop
CallbackStep == Callback \/ CallbackClear \/ CallbackDecrement

Next ==
  \/ DecodeSlice \/ DecodeIdr \/ DecodeCra \/ NewHeaders \/ EndOfStream \/ Abort
  \/ DecodeStep \/ OutStep \/ Consume \/ ConsumeClear \/ CallbackStep

Spec == Init /\ [][Next]_vars

FairSpec ==
  /\ Spec
  /\ WF_vars(DecodeStep) /\ SF_vars(HwReady) /\ WF_vars(OutStep) /\ WF_vars(CallbackStep)
  /\ WF_vars(Consume) /\ WF_vars(ConsumeClear)
-----------------------------------------------------------------------------
(* An assert of hevc_fb_mngr.c or hevc_dpb.c never fails: ids are released    *)
(* unreferenced, marks are put on allocated buffers and taken off marked      *)
(* ones, and there is a picture for each that is counted as waiting (with the *)
(* asserts compiled out HevcDpbCheckMaxLatency would loop for ever).          *)
NoAssertFails == ~fb.failed

\* From MarkListNotInUse on, and after the end of the stream, the counts are 0.
Counting == ~dec.eos /\ dec.phase = "ready" /\ dec.pc \notin {"drain", "zero"}

(* free_buffers, which GetFreePicBuffer waits for, is the number of buffers   *)
(* PopFreeBuffer can find, although five places keep it up to date.           *)
FreeCount == Counting => fb.free = Cardinality({id \in Ids : IsFree(fb, id)})

One(P) == IF P THEN 1 ELSE 0
Peeked == IF out.pc \in {"peek", "sleep", "pop"} THEN {out.id} ELSE {}
Outputs == Range(dpb.outbuf) \cup Range(fb.fifo) \cup Peeked \cup held \cup {cons}
Writing(id) ==
  Cardinality({c \in Cores : cores[c].busy /\ id = cores[c].id}) + One(cb.next = "clear" /\ id = cb.id)
Reading(id) ==
  Cardinality({c \in Cores : cores[c].busy /\ id \in cores[c].refs})
  + One(cb.next # "none" /\ id \in cb.refs)
  + One((dec.running \/ At("start")) /\ id \in dec.refs)

(* n_ref_count of a buffer is the number of its users: its output, the core   *)
(* that writes it and each picture in flight that may read it, whatever the   *)
(* order in which cores, client and output let go of it.                      *)
CountsExact == Counting => \A id \in Ids : fb.rc[id] = One(id \in Outputs) + Writing(id) + Reading(id)

Target == dpb.slot[dec.slot].mem
InUse ==
  Outputs
  \cup UNION {cores[c].refs \cup {cores[c].id} : c \in {d \in Cores : cores[d].busy}}
  \cup {dpb.slot[i].mem : i \in (Range(dpb.disp) \cup Refs(dpb)) \ {dec.slot}}

(* The buffer HevcAllocateDpbImage picks for a picture is nobody's: not the   *)
(* client's, not waiting for output or display, no reference, and no core     *)
(* reads or writes it.                                                        *)
DecodesIntoUnused == dec.pc \in {"count", "start", "hw"} => Target \notin InUse

(* A picture that PushOutputPic queues is queued once and is marked for       *)
(* output, so PictureConsumed will release it once; no entry of out_buf has   *)
(* lost its mark, also when no_output_of_prior_pics_flag removes the marks.   *)
OutputOnce ==
  /\ IsInjective(dpb.outbuf \o fb.fifo)
  /\ \A id \in Range(fb.fifo) : "out" \in fb.used[id]
  /\ \A id \in Range(dpb.outbuf) : fb.used[id] \cap {"temp", "out"} # {}

(* Every picture in the output fifo has its post on out_count_sem, although   *)
(* flush markers and wake-ups are posted on it too.                           *)
WakeupNotLost == ~fb.abort => Len(fb.fifo) <= fb.sem + Cardinality(Peeked)

Kept == Cardinality(Refs(dpb) \cup Range(dpb.disp))

(* fullness and num_out_pics_buffered, which decide when pictures are output, *)
(* are kept by a dozen functions of hevc_dpb.c: fullness never falls behind   *)
(* the pictures that are kept, so that output starts in time and there is a   *)
(* slot for the next picture, and the second is the pictures to be output.    *)
FullnessCovers ==
  /\ dpb.full >= Kept
  /\ dpb.waiting = Cardinality({i \in Range(dpb.disp) : dpb.slot[i].outf})
  /\ At("alloc") => FreeSlots(dpb) # {}

(* "Updates DPB ref frame count (and fullness) after marking a ref pic as     *)
(* unused": DpbBufFree.  fullness is the number of pictures kept.             *)
FullnessExact == dpb.full = Kept

(* GetFreePicBuffer returns: a client that consumes its pictures, or a core   *)
(* that becomes ready, gives the decoder a buffer.                            *)
AllocServed == At("get") ~> ~At("get")

(* After HevcDecEndOfStream the output thread gets the pictures that are left *)
(* and then DEC_END_OF_STREAM; it is not left waiting on out_count_sem.       *)
EosDelivered == dec.eos ~> out.pc = "end"

(* An abort ends: whatever the decoding and output threads wait for, they     *)
(* stop, so that HevcDecAbortAfter is called.                                 *)
AbortEnds == fb.abort ~> ~fb.abort

(* "Make sure that all frame buffers are not in use before reseting DPB (i.e. *)
(* all HW cores are idle and all output processed)": HevcDecDecode, new       *)
(* headers.                                                                   *)
ResetUnused == dec.phase = "reset" => CoresIdle /\ held = {} /\ cons = NoId
=============================================================================
