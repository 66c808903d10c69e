----------------------------- MODULE HevcProofs -----------------------------
(***************************************************************************)
(* Proofs about the output fifo of the HEVC decoder library: the thread    *)
(* that fetches pictures is woken for each of them.                        *)
(*                                                                         *)
(* out_count_sem counts more than the entries of the fifo: a flush marker, *)
(* the end of the stream and an abort are posted on it too, and each is    *)
(* one post that finds no picture.  The invariant counts the marker that   *)
(* is pending, and keeps a post for the abort until the thread has ended,  *)
(* so that HevcDecAbortAfter leaves a semaphore that is not behind.        *)
(***************************************************************************)
EXTENDS HevcDecoder, FiniteSetTheorems, TLAPS

\* A frame buffer list, whatever its marks and counts, and a sequence of anything
Listed(f) == {"fifo", "sem", "abort", "flushAll"} \subseteq DOMAIN f
Sequential(s) == \E S : s \in Seq(S)

\* What the output thread looks at
SameOutput(f, g) ==
  f.fifo = g.fifo /\ f.sem = g.sem /\ f.abort = g.abort /\ f.flushAll = g.flushAll

\* The inductive invariant
Peeks == out.pc \in {"peek", "sleep", "pop"}
WakeInv ==
  /\ Listed(fb) /\ Sequential(fb.fifo) /\ fb.sem \in Nat
  /\ fb.abort \in BOOLEAN /\ fb.flushAll \in BOOLEAN
  /\ "pc" \in DOMAIN out
  /\ Peeks => fb.fifo # <<>>
  /\ ~fb.abort => Len(fb.fifo) + One(fb.flushAll) <= fb.sem + One(Peeks)
  /\ fb.abort => One(fb.flushAll) + One(out.pc # "end") <= fb.sem

-----------------------------------------------------------------------------
(* The operations of hevc_fb_mngr.c *)

\* Marks and counts
LEMMA MarkOps ==
  ASSUME NEW f, Listed(f), NEW id, NEW ids
  PROVE  /\ \A P : Listed(Asserting(f, P)) /\ SameOutput(Asserting(f, P), f)
         /\ Listed(CountIfFree(f, id)) /\ SameOutput(CountIfFree(f, id), f)
         /\ Listed(AllocateIdUsed(f, id)) /\ SameOutput(AllocateIdUsed(f, id), f)
         /\ Listed(AllocateIdFree(f, id)) /\ SameOutput(AllocateIdFree(f, id), f)
         /\ Listed(IncrementRefs(f, ids)) /\ SameOutput(IncrementRefs(f, ids), f)
         /\ Listed(DecrementRefs(f, ids)) /\ SameOutput(DecrementRefs(f, ids), f)
         /\ Listed(FinalizeOutputAll(f)) /\ SameOutput(FinalizeOutputAll(f), f)
         /\ Listed(RemoveAll(f, ids)) /\ SameOutput(RemoveAll(f, ids), f)
         /\ Listed(MarkListNotInUse(f)) /\ SameOutput(MarkListNotInUse(f), f)
<1>1. \A P : Listed(Asserting(f, P)) /\ SameOutput(Asserting(f, P), f)
  BY DEF Listed, SameOutput, Asserting
<1>2. Listed(CountIfFree(f, id)) /\ SameOutput(CountIfFree(f, id), f)
  BY DEF Listed, SameOutput, CountIfFree
<1>3. Listed(AllocateIdUsed(f, id)) /\ SameOutput(AllocateIdUsed(f, id), f)
  BY DEF Listed, SameOutput, AllocateIdUsed
<1>4. Listed(AllocateIdFree(f, id)) /\ SameOutput(AllocateIdFree(f, id), f)
  BY DEF Listed, SameOutput, AllocateIdFree
<1>5. Listed(IncrementRefs(f, ids)) /\ SameOutput(IncrementRefs(f, ids), f)
  BY DEF Listed, SameOutput, IncrementRefs
<1>6. Listed(DecrementRefs(f, ids)) /\ SameOutput(DecrementRefs(f, ids), f)
  BY DEF Listed, SameOutput, DecrementRefs
<1>7. Listed(FinalizeOutputAll(f)) /\ SameOutput(FinalizeOutputAll(f), f)
  BY DEF Listed, SameOutput, FinalizeOutputAll
<1>8. Listed(RemoveAll(f, ids)) /\ SameOutput(RemoveAll(f, ids), f)
  BY DEF Listed, SameOutput, RemoveAll
<1>9. Listed(MarkListNotInUse(f)) /\ SameOutput(MarkListNotInUse(f), f)
  BY DEF Listed, SameOutput, MarkListNotInUse
<1> QED BY <1>1, <1>2, <1>3, <1>4, <1>5, <1>6, <1>7, <1>8, <1>9


\* Marks and counts of which an assert is checked
LEMMA CheckedOps ==
  ASSUME NEW f, Listed(f), NEW id
  PROVE  /\ Listed(MarkHWOutput(f, id)) /\ SameOutput(MarkHWOutput(f, id), f)
         /\ Listed(ClearHWOutput(f, id)) /\ SameOutput(ClearHWOutput(f, id), f)
         /\ Listed(ClearOutput(f, id)) /\ SameOutput(ClearOutput(f, id), f)
         /\ Listed(ReleaseAllIds(f)) /\ SameOutput(ReleaseAllIds(f), f)
         /\ Listed(PopFreeBuffer(f)) /\ SameOutput(PopFreeBuffer(f), f)
         /\ Listed(PushFreeBuffer(f, id)) /\ SameOutput(PushFreeBuffer(f, id), f)
<1>1. ASSUME NEW P, NEW g, g = Asserting(f, P) PROVE Listed(g) /\ SameOutput(g, f)
  BY <1>1, MarkOps
<1>2. Listed(MarkHWOutput(f, id)) /\ SameOutput(MarkHWOutput(f, id), f)
  <2>1. PICK g : g = Asserting(f, "alloc" \in f.used[id]) /\ Listed(g) /\ SameOutput(g, f)
    BY <1>1
  <2>2. MarkHWOutput(f, id) = [g EXCEPT !.rc[id] = @ + 1, !.used[id] = @ \cup {"hw"}]
    BY <2>1 DEF MarkHWOutput
  <2> QED BY <2>1, <2>2 DEF Listed, SameOutput
<1>3. Listed(ClearHWOutput(f, id)) /\ SameOutput(ClearHWOutput(f, id), f)
  <2>1. PICK g : g = Asserting(f, f.used[id] \cap {"hw", "alloc"} # {}) /\ Listed(g) /\ SameOutput(g, f)
    BY <1>1
  <2>2. PICK h : h = [g EXCEPT !.rc[id] = Decremented(@), !.used[id] = @ \ {"hw"}]
    OBVIOUS
  <2>3. Listed(h) /\ SameOutput(h, f)
    BY <2>1, <2>2 DEF Listed, SameOutput
  <2>4. ClearHWOutput(f, id) = CountIfFree(h, id)
    BY <2>1, <2>2 DEF ClearHWOutput
  <2>5. Listed(CountIfFree(h, id)) /\ SameOutput(CountIfFree(h, id), h)
    BY <2>3, MarkOps
  <2> QED BY <2>3, <2>4, <2>5 DEF SameOutput
<1>4. Listed(ClearOutput(f, id)) /\ SameOutput(ClearOutput(f, id), f)
  <2>1. PICK g : g = Asserting(f, f.used[id] \cap {"out", "temp"} # {}) /\ Listed(g) /\ SameOutput(g, f)
    BY <1>1
  <2>2. PICK h : h = [g EXCEPT !.rc[id] = @ - 1, !.used[id] = @ \ {"out", "temp"}]
    OBVIOUS
  <2>3. Listed(h) /\ SameOutput(h, f)
    BY <2>1, <2>2 DEF Listed, SameOutput
  <2>4. ClearOutput(f, id) = g \/ ClearOutput(f, id) = CountIfFree(h, id)
    BY <2>1, <2>2 DEF ClearOutput
  <2>5. Listed(CountIfFree(h, id)) /\ SameOutput(CountIfFree(h, id), h)
    BY <2>3, MarkOps
  <2> QED BY <2>1, <2>3, <2>4, <2>5 DEF SameOutput
<1>5. Listed(ReleaseAllIds(f)) /\ SameOutput(ReleaseAllIds(f), f)
  <2>1. PICK n : n = Cardinality({id_1 \in Ids : f.used[id_1] = {"free"}})
    OBVIOUS
  <2>2. PICK g : /\ g = Asserting(f, f.free >= n /\ \A id_1 \in Ids : f.rc[id_1] = 0)
                 /\ Listed(g) /\ SameOutput(g, f)
    BY <1>1
  <2>3. ReleaseAllIds(f) = [g EXCEPT !.free = @ - n, !.used = [id_1 \in Ids |-> {}]]
    BY <2>1, <2>2 DEF ReleaseAllIds
  <2> QED BY <2>2, <2>3 DEF Listed, SameOutput
<1>6. Listed(PopFreeBuffer(f)) /\ SameOutput(PopFreeBuffer(f), f)
  <2>1. PICK x : x = FirstFree(f)
    OBVIOUS
  <2>2. \/ PopFreeBuffer(f) = Asserting(f, FALSE)
        \/ PopFreeBuffer(f) = [f EXCEPT !.used[x] = {"alloc"}, !.free = @ - 1]
    BY <2>1 DEF PopFreeBuffer
  <2>3. CASE PopFreeBuffer(f) = Asserting(f, FALSE)
    BY <2>3, <1>1
  <2>4. CASE PopFreeBuffer(f) = [f EXCEPT !.used[x] = {"alloc"}, !.free = @ - 1]
    BY <2>4 DEF Listed, SameOutput
  <2> QED BY <2>2, <2>3, <2>4
<1>7. Listed(PushFreeBuffer(f, id)) /\ SameOutput(PushFreeBuffer(f, id), f)
  <2>1. PICK g : g = Asserting(f, "alloc" \in f.used[id]) /\ Listed(g) /\ SameOutput(g, f)
    BY <1>1
  <2>2. PushFreeBuffer(f, id) = [g EXCEPT !.used[id] = (@ \ {"alloc"}) \cup {"free"},
                                          !.free = IF f.rc[id] = 0 THEN @ + 1 ELSE @]
    BY <2>1 DEF PushFreeBuffer
  <2> QED BY <2>1, <2>2 DEF Listed, SameOutput
<1> QED BY <1>2, <1>3, <1>4, <1>5, <1>6, <1>7

-----------------------------------------------------------------------------
(* The steps *)

\* Steps that the output thread does not notice
LEMMA Unnoticed ==
  ASSUME WakeInv, Listed(fb'), SameOutput(fb', fb),
         out' = out \/ (out.pc = "sleep" /\ out' = [out EXCEPT !.pc = "peek"])
  PROVE  WakeInv'
<1>1. "pc" \in DOMAIN out' /\ (Peeks' <=> Peeks) /\ (out'.pc = "end" <=> out.pc = "end")
  BY DEF WakeInv, Peeks
<1>2. One(Peeks)' = One(Peeks) /\ One(out.pc # "end")' = One(out.pc # "end")
      /\ One(fb.flushAll)' = One(fb.flushAll)
  BY <1>1 DEF One, SameOutput
<1> QED BY <1>1, <1>2 DEF WakeInv, SameOutput


\* The decoding thread before a picture
LEMMA DecodeKeeps ==
  ASSUME WakeInv,
         \/ AddBuffer \/ DecodeSlice \/ DecodeIdr \/ DecodeCra \/ OutputAll \/ RemovePrior
         \/ UpdateOutput \/ AllocateDpbImage \/ GetFreePicBuffer \/ SwapBuffer
  PROVE  WakeInv'
<1>0. Listed(fb)
  BY DEF WakeInv
<1>1. SUFFICES ASSUME out' = out PROVE Listed(fb') /\ SameOutput(fb', fb)
  <2>1. out' = out
    <3>1. CASE AddBuffer BY <3>1 DEF AddBuffer, others
    <3>2. CASE DecodeSlice BY <3>2 DEF DecodeSlice, others
    <3>3. CASE DecodeIdr BY <3>3 DEF DecodeIdr, others
    <3>4. CASE DecodeCra BY <3>4 DEF DecodeCra, others
    <3>5. CASE OutputAll BY <3>5 DEF OutputAll, others
    <3>6. CASE RemovePrior BY <3>6 DEF RemovePrior, others
    <3>7. CASE UpdateOutput BY <3>7 DEF UpdateOutput, others
    <3>8. CASE AllocateDpbImage BY <3>8 DEF AllocateDpbImage, others
    <3>9. CASE GetFreePicBuffer BY <3>9 DEF GetFreePicBuffer, others
    <3>10. CASE SwapBuffer BY <3>10 DEF SwapBuffer, others
    <3> QED BY <3>1, <3>2, <3>3, <3>4, <3>5, <3>6, <3>7, <3>8, <3>9, <3>10
  <2> QED BY <2>1, Unnoticed
<1>2. ASSUME fb' = fb PROVE Listed(fb') /\ SameOutput(fb', fb)
  BY <1>0, <1>2 DEF SameOutput
<1>3. ASSUME NEW o, Output(o) PROVE Listed(fb') /\ SameOutput(fb', fb)
  BY <1>0, <1>3 DEF Output, Listed, SameOutput
<1>4. CASE AddBuffer
  BY <1>0, <1>4, MarkOps DEF AddBuffer
<1>5. CASE DecodeSlice
  BY <1>2, <1>5 DEF DecodeSlice
<1>6. CASE DecodeIdr
  BY <1>2, <1>6 DEF DecodeIdr
<1>7. CASE DecodeCra
  BY <1>2, <1>7 DEF DecodeCra
<1>8. CASE OutputAll
  BY <1>3, <1>8 DEF OutputAll
<1>9. CASE RemovePrior
  BY <1>0, <1>9, MarkOps DEF RemovePrior
<1>10. CASE UpdateOutput
  BY <1>3, <1>10 DEF UpdateOutput
<1>11. CASE AllocateDpbImage
  BY <1>2, <1>11 DEF AllocateDpbImage
<1>12. CASE GetFreePicBuffer
  <2>1. fb' = fb \/ fb' = PopFreeBuffer(fb)
    BY <1>12 DEF GetFreePicBuffer
  <2> QED BY <1>0, <1>2, <2>1, CheckedOps
<1>13. CASE SwapBuffer
  BY <1>0, <1>13, CheckedOps DEF SwapBuffer
<1> QED BY <1>4, <1>5, <1>6, <1>7, <1>8, <1>9, <1>10, <1>11, <1>12, <1>13

\* The decoding thread after it, new headers and the end of the stream
LEMMA FinishKeeps ==
  ASSUME WakeInv,
         \/ IncrementDPBRefCount \/ StartCore \/ HwReady \/ HwError \/ HwBufferEmpty \/ DecodeMore
         \/ Bump \/ Finalize \/ NewHeaders \/ MarkUnused \/ ResetDpb \/ EndOfStream \/ EosState \/ EosZero
  PROVE  WakeInv'
<1>0. Listed(fb)
  BY DEF WakeInv
<1>1. SUFFICES ASSUME out' = out PROVE Listed(fb') /\ SameOutput(fb', fb)
  <2>1. out' = out
    <3>1. CASE IncrementDPBRefCount BY <3>1 DEF IncrementDPBRefCount, others
    <3>2. CASE StartCore BY <3>2 DEF StartCore
    <3>3. CASE HwReady \/ HwError BY <3>3 DEF HwReady, HwError, others
    <3>4. CASE HwBufferEmpty BY <3>4 DEF HwBufferEmpty, others
    <3>5. CASE DecodeMore BY <3>5 DEF DecodeMore, others
    <3>6. CASE Bump BY <3>6 DEF Bump, others
    <3>7. CASE Finalize BY <3>7 DEF Finalize, others
    <3>8. CASE NewHeaders BY <3>8 DEF NewHeaders, others
    <3>9. CASE MarkUnused BY <3>9 DEF MarkUnused, others
    <3>10. CASE ResetDpb BY <3>10 DEF ResetDpb
    <3>11. CASE EndOfStream BY <3>11 DEF EndOfStream, others
    <3>12. CASE EosState BY <3>12 DEF EosState, others
    <3>13. CASE EosZero BY <3>13 DEF EosZero, others
    <3> QED BY <3>1, <3>2, <3>3, <3>4, <3>5, <3>6, <3>7, <3>8, <3>9, <3>10, <3>11, <3>12, <3>13
  <2> QED BY <2>1, Unnoticed
<1>2. ASSUME fb' = fb PROVE Listed(fb') /\ SameOutput(fb', fb)
  BY <1>0, <1>2 DEF SameOutput
<1>3. ASSUME NEW o, Output(o) PROVE Listed(fb') /\ SameOutput(fb', fb)
  BY <1>0, <1>3 DEF Output, Listed, SameOutput
<1>4. CASE IncrementDPBRefCount
  BY <1>0, <1>4, MarkOps DEF IncrementDPBRefCount
<1>5. CASE StartCore
  BY <1>0, <1>5, CheckedOps DEF StartCore
<1>6. CASE HwReady \/ HwError
  BY <1>0, <1>6, MarkOps DEF HwReady, HwError
<1>7. CASE HwBufferEmpty
  BY <1>2, <1>7 DEF HwBufferEmpty
<1>8. CASE DecodeMore
  BY <1>2, <1>8 DEF DecodeMore
<1>9. CASE Bump
  BY <1>3, <1>9 DEF Bump
<1>10. CASE Finalize
  BY <1>0, <1>10, MarkOps DEF Finalize
<1>11. CASE NewHeaders
  BY <1>2, <1>3, <1>11 DEF NewHeaders
<1>12. CASE MarkUnused
  BY <1>0, <1>12, MarkOps DEF MarkUnused
<1>13. CASE ResetDpb
  <2>1. CASE ReInitDpb
    BY <1>0, <2>1 DEF ReInitDpb, Listed, SameOutput
  <2>2. CASE FreeAndInitDpb
    BY <1>0, <2>2, CheckedOps DEF FreeAndInitDpb
  <2> QED BY <1>13, <2>1, <2>2 DEF ResetDpb
<1>14. CASE EndOfStream
  <2>1. fb' = fb \/ fb' = DecrementRefs(fb, dec.refs)
    BY <1>14 DEF EndOfStream
  <2> QED BY <1>0, <1>2, <2>1, MarkOps
<1>15. CASE EosState
  BY <1>2, <1>15 DEF EosState
<1>16. CASE EosZero
  BY <1>0, <1>16, MarkOps DEF EosZero
<1> QED BY <1>4, <1>5, <1>6, <1>7, <1>8, <1>9, <1>10, <1>11, <1>12, <1>13, <1>14, <1>15, <1>16

\* The client and the callback
LEMMA ClientKeeps ==
  ASSUME WakeInv, Consume \/ ConsumeClear \/ CallbackStep
  PROVE  WakeInv'
<1>0. Listed(fb)
  BY DEF WakeInv
<1>1. ASSUME fb' = fb PROVE Listed(fb') /\ SameOutput(fb', fb)
  BY <1>0, <1>1 DEF SameOutput
<1>2. CASE Consume
  BY <1>1, <1>2, Unnoticed DEF Consume
<1>3. CASE ConsumeClear
  <2>1. Listed(fb') /\ SameOutput(fb', fb)
    BY <1>0, <1>3, CheckedOps DEF ConsumeClear
  <2> QED BY <1>3, <2>1, Unnoticed DEF ConsumeClear
<1>4. CASE Callback
  BY <1>1, <1>4, Unnoticed DEF Callback
<1>5. CASE CallbackClear
  <2>1. Listed(fb') /\ SameOutput(fb', fb)
    BY <1>0, <1>5, CheckedOps DEF CallbackClear
  <2>2. out' = out \/ (out.pc = "sleep" /\ out' = [out EXCEPT !.pc = "peek"])
    BY <1>5 DEF CallbackClear
  <2> QED BY <2>1, <2>2, Unnoticed
<1>6. CASE CallbackDecrement
  <2>1. Listed(fb') /\ SameOutput(fb', fb)
    BY <1>0, <1>6, MarkOps DEF CallbackDecrement
  <2> QED BY <1>6, <2>1, Unnoticed DEF CallbackDecrement
<1> QED BY <1>2, <1>3, <1>4, <1>5, <1>6 DEF CallbackStep


\* A post that comes with no picture, or with a flush marker
LEMMA Posted ==
  ASSUME WakeInv, out' = out,
         \/ fb' = PushWakeup(fb)
         \/ fb' = PushMarker(fb) /\ fb.fifo = <<>>
         \/ fb' = SetAbortStatus(fb) /\ ~fb.abort
  PROVE  WakeInv'
<1>1. /\ Listed(fb') /\ fb'.fifo = fb.fifo /\ fb'.sem = fb.sem + 1
      /\ \/ fb'.abort = fb.abort /\ fb'.flushAll = fb.flushAll
         \/ fb'.abort = fb.abort /\ fb'.flushAll = TRUE /\ fb.fifo = <<>>
         \/ fb'.abort = TRUE /\ ~fb.abort /\ fb'.flushAll = fb.flushAll
  BY DEF WakeInv, Listed, PushWakeup, PushMarker, SetAbortStatus
<1>2. /\ One(TRUE) = 1 /\ One(FALSE) = 0
      /\ One(Peeks) \in {0, 1} /\ One(fb.flushAll) \in {0, 1} /\ One(out.pc # "end") \in {0, 1}
  BY DEF One
<1>3. /\ Peeks' = Peeks /\ One(Peeks)' = One(Peeks) /\ One(out.pc # "end")' = One(out.pc # "end")
      /\ One(fb.flushAll)' = One(fb'.flushAll)
  BY DEF Peeks
<1>4. PICK S : fb.fifo \in Seq(S)
  BY DEF WakeInv, Sequential
<1>5. Len(fb.fifo) \in Nat /\ (fb.fifo = <<>> => Len(fb.fifo) = 0) /\ (fb.fifo # <<>> => Len(fb.fifo) >= 1)
  BY <1>4
<1>6. Sequential(fb'.fifo) /\ fb'.sem \in Nat /\ fb'.abort \in BOOLEAN /\ fb'.flushAll \in BOOLEAN
  <2>1. fb'.sem \in Nat
    BY <1>1 DEF WakeInv
  <2>2. fb'.abort \in BOOLEAN /\ fb'.flushAll \in BOOLEAN
    BY <1>1, Zenon DEF WakeInv
  <2> QED BY <1>1, <2>1, <2>2, Zenon DEF WakeInv
<1>7. Peeks' => fb'.fifo # <<>>
  BY <1>1, <1>3 DEF WakeInv
<1>8. ~fb'.abort => Len(fb'.fifo) + One(fb'.flushAll) <= fb'.sem + One(Peeks)
  <2>1. CASE fb'.abort = fb.abort /\ fb'.flushAll = fb.flushAll
    BY <1>1, <1>2, <1>5, <2>1 DEF WakeInv
  <2>2. CASE fb'.flushAll = TRUE /\ fb.fifo = <<>>
    <3>1. One(fb'.flushAll) = 1
      BY <1>2, <2>2, Zenon
    <3>2. Len(fb'.fifo) = 0 /\ fb'.sem = fb.sem + 1
      BY <1>1, <1>5, <2>2
    <3> QED BY <1>2, <3>1, <3>2 DEF WakeInv
  <2> QED BY <1>1, <2>1, <2>2
<1>9. fb'.abort => One(fb'.flushAll) + One(out.pc # "end") <= fb'.sem
  <2>1. CASE fb'.abort = fb.abort /\ fb'.flushAll = fb.flushAll
    BY <1>1, <1>2, <2>1 DEF WakeInv
  <2>2. CASE fb'.abort = fb.abort /\ fb'.flushAll = TRUE
    <3>1. One(fb'.flushAll) = 1
      BY <1>2, <2>2, Zenon
    <3>2. fb.abort => One(out.pc # "end") <= fb.sem
      BY <1>2 DEF WakeInv
    <3> QED BY <1>1, <1>2, <2>2, <3>1, <3>2 DEF WakeInv
  <2>3. CASE ~fb.abort /\ fb'.flushAll = fb.flushAll
    <3>1. One(fb.flushAll) <= fb.sem
      <4>1. One(Peeks) <= Len(fb.fifo)
        BY <1>5 DEF WakeInv, One
      <4> QED BY <1>2, <1>5, <2>3, <4>1 DEF WakeInv
    <3> QED BY <1>1, <1>2, <2>3, <3>1 DEF WakeInv
  <2> QED BY <1>1, <2>1, <2>2, <2>3
<1> QED BY <1>1, <1>3, <1>6, <1>7, <1>8, <1>9 DEF WakeInv

\* PushOutputPic
LEMMA PushKeeps ==
  ASSUME WakeInv, Push
  PROVE  WakeInv'
<1>0. out' = out
  BY DEF Push, others
<1>1. CASE fb' = fb
  BY <1>0, <1>1, Unnoticed DEF WakeInv, SameOutput
<1>2. CASE \E id : fb' = [fb EXCEPT !.fifo = Append(@, id), !.sem = @ + 1]
  <2>1. PICK id : fb' = [fb EXCEPT !.fifo = Append(@, id), !.sem = @ + 1]
    BY <1>2
  <2>2. /\ Listed(fb') /\ fb'.fifo = Append(fb.fifo, id) /\ fb'.sem = fb.sem + 1
        /\ fb'.abort = fb.abort /\ fb'.flushAll = fb.flushAll
    BY <2>1 DEF WakeInv, Listed
  <2>3. PICK S : fb.fifo \in Seq(S)
    BY DEF WakeInv, Sequential
  <2>4. fb.fifo \in Seq(S \cup {id}) /\ id \in S \cup {id}
    BY <2>3
  <2>5. /\ fb'.fifo \in Seq(S \cup {id}) /\ Len(fb'.fifo) = Len(fb.fifo) + 1
        /\ Len(fb.fifo) \in Nat /\ fb'.fifo # <<>>
    BY <2>2, <2>4
  <2>6. Sequential(fb'.fifo)
    BY <2>5 DEF Sequential
  <2>7. /\ Peeks' = Peeks /\ One(Peeks)' = One(Peeks) /\ One(out.pc # "end")' = One(out.pc # "end")
        /\ One(fb.flushAll)' = One(fb.flushAll)
    BY <1>0, <2>2 DEF Peeks
  <2>8. One(Peeks) \in {0, 1} /\ One(fb.flushAll) \in {0, 1} /\ One(out.pc # "end") \in {0, 1}
    BY DEF One
  <2>9. ~fb'.abort => Len(fb'.fifo) + One(fb.flushAll) <= fb'.sem + One(Peeks)
    BY <2>2, <2>5, <2>8 DEF WakeInv
  <2>10. fb'.abort => One(fb.flushAll) + One(out.pc # "end") <= fb'.sem
    BY <2>2, <2>8 DEF WakeInv
  <2> QED BY <1>0, <2>2, <2>5, <2>6, <2>7, <2>9, <2>10 DEF WakeInv
<1>3. fb' = fb \/ \E id : fb' = [fb EXCEPT !.fifo = Append(@, id), !.sem = @ + 1]
  BY DEF Push, PushOutputPic
<1> QED BY <1>1, <1>2, <1>3

\* HevcDecAbortAfter empties the fifo and leaves the posts.
LEMMA AbortAfterKeeps ==
  ASSUME WakeInv, AbortAfter
  PROVE  WakeInv'
<1>1. PICK f1 : f1 = (IF dec.running THEN DecrementRefs(fb, dec.refs) ELSE fb)
  OBVIOUS
<1>2. PICK f2 : f2 = RemoveAll(f1, {"temp"})
  OBVIOUS
<1>3. PICK f3 : f3 = RemoveAll(f2, {"out"})
  OBVIOUS
<1>4. PICK f4 : f4 = ReleaseAllIds(f3)
  OBVIOUS
<1>5. PICK f5 : f5 = ResetOutFifo(f4)
  OBVIOUS
<1>6. PICK f6 : f6 = MarkListNotInUse(f5)
  OBVIOUS
<1>7. fb' = [f6 EXCEPT !.free = 0, !.abort = FALSE]
  BY <1>1, <1>2, <1>3, <1>4, <1>5, <1>6 DEF AbortAfter
<1>8. Listed(f1) /\ SameOutput(f1, fb)
  <2>1. Listed(fb) /\ SameOutput(fb, fb)
    BY DEF WakeInv, SameOutput
  <2>2. Listed(DecrementRefs(fb, dec.refs)) /\ SameOutput(DecrementRefs(fb, dec.refs), fb)
    BY <2>1, MarkOps
  <2> QED BY <1>1, <2>1, <2>2
<1>9. Listed(f2) /\ SameOutput(f2, f1)
  BY <1>2, <1>8, MarkOps
<1>10. Listed(f3) /\ SameOutput(f3, f2)
  BY <1>3, <1>9, MarkOps
<1>11. Listed(f4) /\ SameOutput(f4, f3)
  BY <1>4, <1>10, CheckedOps
<1>12. Listed(f5) /\ f5.fifo = <<>> /\ f5.sem = fb.sem /\ f5.flushAll = fb.flushAll
  BY <1>5, <1>8, <1>9, <1>10, <1>11 DEF ResetOutFifo, Listed, SameOutput
<1>13. Listed(f6) /\ SameOutput(f6, f5)
  BY <1>6, <1>12, MarkOps
<1>14. Listed(fb') /\ fb'.fifo = <<>> /\ fb'.sem = fb.sem /\ fb'.flushAll = fb.flushAll /\ fb'.abort = FALSE
  BY <1>7, <1>12, <1>13 DEF Listed, SameOutput
<1>15. "pc" \in DOMAIN out' /\ out'.pc = "call" /\ out.pc = "end" /\ fb.abort
  BY DEF AbortAfter, WakeInv
<1>16. ~Peeks' /\ One(Peeks)' = 0 /\ One(out.pc # "end") = 0 /\ One(fb.flushAll) \in {0, 1}
  BY <1>15 DEF Peeks, One
<1>17. Sequential(fb'.fifo) /\ Len(fb'.fifo) = 0
  BY <1>14 DEF Sequential
<1>18. One(fb.flushAll)' = One(fb.flushAll)
  BY <1>14
<1>19. Len(fb'.fifo) + One(fb.flushAll)' <= fb'.sem + One(Peeks)'
  BY <1>14, <1>15, <1>16, <1>17, <1>18 DEF WakeInv
<1> QED BY <1>14, <1>15, <1>16, <1>17, <1>19 DEF WakeInv


\* The output thread: sem_wait takes the post of the marker or of the picture it sees.
LEMMA OutputKeeps ==
  ASSUME WakeInv, OutStep
  PROVE  WakeInv'
<1>0. PICK S : fb.fifo \in Seq(S)
  BY DEF WakeInv, Sequential
<1>1. Len(fb.fifo) \in Nat /\ (fb.fifo = <<>> => Len(fb.fifo) = 0) /\ (fb.fifo # <<>> => Len(fb.fifo) >= 1)
  BY <1>0
<1>2. /\ One(TRUE) = 1 /\ One(FALSE) = 0
      /\ One(fb.flushAll) \in {0, 1} /\ One(Peeks) \in {0, 1} /\ One(out.pc # "end") \in {0, 1}
  BY DEF One
<1>3. CASE NextPicture
  <2>1. /\ fb' = fb /\ "pc" \in DOMAIN out' /\ out.pc = "call"
        /\ out'.pc = "end" \/ out'.pc = "sem"
    BY <1>3 DEF NextPicture, OutGoto, WakeInv
  <2>2. ~Peeks /\ ~Peeks'
    BY <2>1 DEF Peeks
  <2>3. One(Peeks)' = One(Peeks) /\ One(out.pc # "end")' <= One(out.pc # "end")
    BY <2>1, <2>2 DEF One
  <2>4. One(out.pc # "end")' \in {0, 1} /\ One(fb.flushAll)' = One(fb.flushAll)
    BY <2>1 DEF One
  <2> QED BY <1>2, <2>1, <2>2, <2>3, <2>4 DEF WakeInv
<1>4. CASE PeekHw
  <2>1. /\ fb' = fb /\ "pc" \in DOMAIN out' /\ out.pc = "peek"
        /\ out'.pc = "sleep" \/ out'.pc = "pop"
    BY <1>4 DEF PeekHw, OutGoto, WakeInv
  <2>2. (Peeks' <=> Peeks) /\ out.pc # "end" /\ out'.pc # "end"
    BY <2>1 DEF Peeks
  <2>3. /\ One(Peeks)' = One(Peeks) /\ One(out.pc # "end")' = One(out.pc # "end")
        /\ One(fb.flushAll)' = One(fb.flushAll)
    BY <2>1, <2>2 DEF One
  <2> QED BY <2>1, <2>2, <2>3 DEF WakeInv
<1>5. CASE PeekPop
  <2>1. /\ Listed(fb') /\ fb'.fifo = Tail(fb.fifo) /\ fb'.sem = fb.sem
        /\ fb'.abort = fb.abort /\ fb'.flushAll = fb.flushAll
    BY <1>5 DEF PeekPop, WakeInv, Listed
  <2>2. "pc" \in DOMAIN out' /\ out'.pc = "call" /\ out.pc = "pop"
    BY <1>5 DEF PeekPop
  <2>3. Peeks /\ ~Peeks' /\ out.pc # "end" /\ out'.pc # "end"
    BY <2>2 DEF Peeks
  <2>4. fb.fifo # <<>>
    BY <2>3 DEF WakeInv
  <2>5. fb'.fifo \in Seq(S) /\ Len(fb'.fifo) = Len(fb.fifo) - 1
    BY <1>0, <2>1, <2>4
  <2>6. /\ One(Peeks) = 1 /\ One(Peeks)' = 0 /\ One(out.pc # "end")' = One(out.pc # "end")
        /\ One(fb.flushAll)' = One(fb.flushAll)
    BY <2>1, <2>3 DEF One
  <2>7. Sequential(fb'.fifo)
    BY <2>5 DEF Sequential
  <2>8. ~fb.abort => Len(fb'.fifo) + One(fb.flushAll) <= fb.sem + 0
    BY <1>1, <1>2, <2>5, <2>6 DEF WakeInv
  <2> QED BY <2>1, <2>2, <2>3, <2>6, <2>7, <2>8 DEF WakeInv
<1>6. CASE PeekSem
  <2>1. /\ Listed(fb') /\ fb'.fifo = fb.fifo /\ fb'.sem = fb.sem - 1 /\ fb'.abort = fb.abort
        /\ out.pc = "sem" /\ fb.sem > 0
    BY <1>6 DEF PeekSem, WakeInv, Listed
  <2>2. ~Peeks /\ One(Peeks) = 0 /\ One(out.pc # "end") = 1
    BY <2>1 DEF Peeks, One
  <2>3. fb'.sem \in Nat
    BY <2>1 DEF WakeInv
  <2>4. fb'.flushAll = (fb.flushAll /\ fb.abort)
    BY <1>6 DEF PeekSem, WakeInv, Listed
  <2>5. fb'.abort \in BOOLEAN /\ fb'.flushAll \in BOOLEAN
    BY <2>1, <2>4, Zenon DEF WakeInv
  <2>6. CASE fb.abort
    <3>1. "pc" \in DOMAIN out' /\ out'.pc = "end"
      BY <1>6, <2>6 DEF PeekSem, WakeInv
    <3>2. ~Peeks' /\ One(out.pc # "end")' = 0
      BY <3>1 DEF Peeks, One
    <3>3. fb'.flushAll = fb.flushAll
      BY <2>4, <2>6, Zenon DEF WakeInv
    <3>4. One(fb.flushAll)' = One(fb.flushAll)
      BY <3>3, Zenon
    <3>5. One(fb.flushAll) + 0 <= fb'.sem
      BY <1>2, <2>1, <2>2, <2>6 DEF WakeInv
    <3> QED BY <2>1, <2>3, <2>5, <2>6, <3>1, <3>2, <3>4, <3>5 DEF WakeInv
  <2>7. CASE ~fb.abort
    <3>1. fb'.flushAll = FALSE /\ One(fb.flushAll)' = 0
      BY <1>2, <2>4, <2>7, Zenon
    <3>2. CASE fb.flushAll \/ fb.fifo = <<>>
      <4>1. "pc" \in DOMAIN out' /\ out'.pc = "call"
        BY <1>6, <2>7, <3>2 DEF PeekSem, WakeInv
      <4>2. ~Peeks' /\ One(Peeks)' = 0
        BY <4>1 DEF Peeks, One
      <4>3. Len(fb.fifo) <= fb.sem - 1
        <5>1. CASE fb.flushAll
          <6>1. One(fb.flushAll) = 1
            BY <5>1 DEF One
          <6> QED BY <1>1, <2>2, <2>7, <6>1 DEF WakeInv
        <5>2. CASE fb.fifo = <<>>
          BY <1>1, <2>1, <5>2 DEF WakeInv
        <5> QED BY <3>2, <5>1, <5>2
      <4>4. Len(fb'.fifo) + 0 <= fb'.sem + 0
        BY <1>1, <2>1, <2>3, <4>3
      <4> QED BY <2>1, <2>3, <2>5, <2>7, <3>1, <4>1, <4>2, <4>4 DEF WakeInv
    <3>3. CASE ~fb.flushAll /\ fb.fifo # <<>>
      <4>1. "pc" \in DOMAIN out' /\ out'.pc = "peek"
        BY <1>6, <2>7, <3>3 DEF PeekSem, WakeInv
      <4>2. Peeks' /\ One(Peeks)' = 1
        BY <4>1 DEF Peeks, One
      <4>3. Len(fb'.fifo) + 0 <= fb'.sem + 1
        BY <1>1, <1>2, <2>1, <2>2, <2>7 DEF WakeInv
      <4> QED BY <2>1, <2>3, <2>5, <2>7, <3>1, <3>3, <4>1, <4>2, <4>3 DEF WakeInv
    <3> QED BY <3>2, <3>3
  <2> QED BY <2>6, <2>7
<1> QED BY <1>3, <1>4, <1>5, <1>6 DEF OutStep

\* The invariant, for whatever the client is allowed
LEMMA WakeInvariant ==
  Spec => []WakeInv
<1>1. Init => WakeInv
  <2>1. SUFFICES ASSUME Init PROVE WakeInv
    OBVIOUS
  <2>2. /\ Listed(fb) /\ fb.fifo = <<>> /\ fb.sem = 0 /\ fb.abort = FALSE /\ fb.flushAll = FALSE
        /\ "pc" \in DOMAIN out /\ out.pc = "call"
    BY <2>1 DEF Init, Listed
  <2>3. ~Peeks /\ One(Peeks) = 0 /\ One(fb.flushAll) = 0
    BY <2>2 DEF Peeks, One
  <2>4. Sequential(fb.fifo) /\ Len(fb.fifo) = 0
    BY <2>2 DEF Sequential
  <2>5. fb.abort \in BOOLEAN /\ fb.flushAll \in BOOLEAN /\ ~fb.abort
    BY <2>2, Zenon
  <2>6. fb.sem \in Nat /\ Len(fb.fifo) + One(fb.flushAll) <= fb.sem + One(Peeks)
    BY <2>2, <2>3, <2>4
  <2> QED BY <2>2, <2>3, <2>4, <2>5, <2>6, Zenon DEF WakeInv
<1>2. WakeInv /\ [Next]_vars => WakeInv'
  <2>1. SUFFICES ASSUME WakeInv, [Next]_vars PROVE WakeInv'
    OBVIOUS
  <2>2. CASE UNCHANGED vars
    <3>1. fb' = fb /\ out' = out
      BY <2>2 DEF vars
    <3> QED BY <2>1, <3>1, Unnoticed DEF WakeInv, SameOutput
  <2>3. CASE DrainOutput \/ EosWake \/ Abort
    <3>1. /\ out' = out
          /\ \/ fb' = PushWakeup(fb)
             \/ fb' = PushMarker(fb) /\ fb.fifo = <<>>
             \/ fb' = SetAbortStatus(fb) /\ ~fb.abort
      BY <2>3 DEF DrainOutput, EosWake, Abort, others
    <3> QED BY <2>1, <3>1, Posted
  <2>4. CASE Push \/ AbortAfter
    BY <2>1, <2>4, PushKeeps, AbortAfterKeeps
  <2>5. CASE OutStep \/ Consume \/ ConsumeClear \/ CallbackStep
    BY <2>1, <2>5, OutputKeeps, ClientKeeps
  <2>6. CASE \/ DecodeSlice \/ DecodeIdr \/ DecodeCra \/ NewHeaders \/ EndOfStream
             \/ (DecodeStep /\ ~(DrainOutput \/ EosWake \/ Push \/ AbortAfter))
    BY <2>1, <2>6, DecodeKeeps, FinishKeeps DEF DecodeStep
  <2> QED BY <2>1, <2>2, <2>3, <2>4, <2>5, <2>6 DEF Next
<1> QED BY <1>1, <1>2, PTL DEF Spec

-----------------------------------------------------------------------------
(* PushOutputPic posts out_count_sem for each picture it queues, and flush    *)
(* markers, HevcDecEndOfStream and HevcDecAbort post it too: none of these,   *)
(* and no sem_wait of PeekOutputPic that finds a marker or nothing, takes the *)
(* post of a picture that is in the fifo, and HevcDecAbortAfter leaves none   *)
(* missing.                                                                   *)
THEOREM OutputIsWoken == Spec => []WakeupNotLost
<1>1. WakeInv => WakeupNotLost
  <2>1. SUFFICES ASSUME WakeInv, ~fb.abort PROVE Len(fb.fifo) <= fb.sem + Cardinality(Peeked)
    BY DEF WakeupNotLost
  <2>2. Cardinality(Peeked) = One(Peeks)
    <3>1. CASE Peeks
      <4>1. Peeked = {out.id}
        BY <3>1 DEF Peeked, Peeks
      <4>2. Cardinality({out.id}) = 1
        BY FS_Singleton
      <4> QED BY <3>1, <4>1, <4>2 DEF One
    <3>2. CASE ~Peeks
      <4>1. Peeked = {}
        BY <3>2 DEF Peeked, Peeks
      <4> QED BY <3>2, <4>1, FS_EmptySet DEF One
    <3> QED BY <3>1, <3>2
  <2>3. PICK S : fb.fifo \in Seq(S)
    BY <2>1 DEF WakeInv, Sequential
  <2>4. Len(fb.fifo) \in Nat /\ One(fb.flushAll) \in {0, 1} /\ One(Peeks) \in {0, 1}
    BY <2>3 DEF One
  <2>5. Len(fb.fifo) <= fb.sem + One(Peeks)
    BY <2>1, <2>4 DEF WakeInv
  <2> QED BY <2>2, <2>5
<1> QED BY <1>1, WakeInvariant, PTL
=============================================================================
