------------------------------- MODULE HevcDpb ------------------------------
(***************************************************************************)
(* The decoded picture buffer of the HEVC decoder library (hevc_dpb.c), as *)
(* operators on a record dpb:                                              *)
(*                                                                         *)
(*   slot[i]   buffer[i]: the frame buffer it has (mem_idx), whether its   *)
(*             picture is a reference, and while it is to_be_displayed     *)
(*             its pic_output_flag                                         *)
(*   disp      the slots that are to_be_displayed, in the order of their   *)
(*             picture order counts, which matter in no other way          *)
(*   full      fullness, the pictures kept, as the code counts them        *)
(*   waiting   num_out_pics_buffered, as the code counts them              *)
(*   outbuf    out_buf, the pictures on their way to the output fifo       *)
(*                                                                         *)
(* Only the thread that decodes uses the dpb.  Frame buffers are external  *)
(* reference buffers, output is in display order (no_reordering is 0).     *)
(***************************************************************************)
EXTENDS FrameBufferList, SequencesExt

CONSTANTS DpbSize,      \* dpb->dpb_size: slots 0 .. DpbSize
          MaxReorder,   \* sps max_num_reorder_pics of the highest sublayer
          MaxRefs       \* most reference pictures a slice keeps

RealSize == DpbSize - 1       \* dpb->real_size
Slots == 0 .. DpbSize

\* HevcInitDpb asks for dpb_size + 2 buffers at least; a stream's reference
\* pictures fit into the size it announces.
ASSUME DpbAssumption ==
  /\ DpbSize \in Nat \ {0, 1} /\ MaxReorder \in Nat
  /\ MaxRefs \in 0 .. RealSize
  /\ 0 .. DpbSize + 1 \subseteq Ids

Dpbs ==
  [slot : [Slots -> [mem : Ids, ref : BOOLEAN, outf : BOOLEAN]],
   disp : Seq(Slots), full : Nat, waiting : Int, outbuf : Seq(Ids)]

Shown(dpb, i) == i \in Range(dpb.disp)
Refs(dpb) == {i \in Slots : dpb.slot[i].ref}

\* fullness is never decremented below 0
Fewer(full, n) == IF full > n THEN full - n ELSE 0

\* mutant
UnreferenceAll(dpb, S) ==
  [dpb EXCEPT !.slot = [i \in Slots |-> IF i \in S THEN [@[i] EXCEPT !.ref = FALSE] ELSE @[i]],
              !.full = Fewer(@, Cardinality(S))]

\* SET_STATUS(UNUSED) and DpbBufFree of each of a set of reference pictures
Unreference(dpb, S) ==
  [dpb EXCEPT !.slot = [i \in Slots |-> IF i \in S THEN [@[i] EXCEPT !.ref = FALSE] ELSE @[i]],
              !.full = Fewer(@, Cardinality({i \in S : ~Shown(dpb, i)}))]

\* The slots S leave the display order without being output.
Undisplay(dpb, S) ==
  [dpb EXCEPT !.disp = SelectSeq(@, LAMBDA i : i \notin S),
              !.slot = [i \in Slots |-> IF i \in S THEN [@[i] EXCEPT !.outf = FALSE] ELSE @[i]]]
-----------------------------------------------------------------------------
(* OutputPicture: the next picture in display order goes to out_buf and its  *)
(* buffer is marked; a full out_buf forgets its oldest entry.                *)

OutputPicture(dpb, fb) ==
  LET i == Head(dpb.disp)
      pic == dpb.slot[i]
      overflow == Len(dpb.outbuf) = DpbSize + 1
      rest == IF overflow THEN Tail(dpb.outbuf) ELSE dpb.outbuf
      fb1 == IF overflow THEN ClearOutput(fb, Head(dpb.outbuf)) ELSE fb
      dpb1 == [Undisplay(dpb, {i}) EXCEPT !.full = IF pic.ref THEN @ ELSE Fewer(@, 1)]
  IN IF pic.outf
       THEN [dpb |-> [dpb1 EXCEPT !.waiting = @ - 1, !.outbuf = Append(rest, pic.mem)],
             fb |-> MarkTempOutput(fb1, pic.mem)]
       ELSE [dpb |-> [dpb1 EXCEPT !.outbuf = rest], fb |-> fb1]

\* OutputPicture for as long as there is something to output and Cond holds
OutputWhile(dpb, fb, Cond(_)) ==
  FoldLeft(LAMBDA acc, i : IF Cond(acc.dpb) THEN OutputPicture(acc.dpb, acc.fb) ELSE acc,
           [dpb |-> dpb, fb |-> fb], dpb.disp)

\* HevcFlushDpb, and the loop for a random access picture
OutputAllPictures(dpb, fb) == OutputWhile(dpb, fb, LAMBDA d : TRUE)

\* HevcDpbCheckMaxLatency asserts that there is a picture for each it counts as waiting.
TooManyWait(dpb) == dpb.waiting > MaxReorder
Counted(o) == [o EXCEPT !.fb = Asserting(o.fb, ~TooManyWait(o.dpb))]
CheckMaxLatency(dpb, fb) == Counted(OutputWhile(dpb, fb, TooManyWait))

\* The first loop of HevcDpbUpdateOutputList drops the unused pictures that are not
\* to be output.
DropUnused(dpb) ==
  LET S == {i \in Slots : Shown(dpb, i) /\ ~dpb.slot[i].ref /\ ~dpb.slot[i].outf}
  IN [Undisplay(dpb, S) EXCEPT !.full = Fewer(@, Cardinality(S))]

UpdateOutputList(dpb, fb) ==
  Counted(OutputWhile(DropUnused(dpb), fb, LAMBDA d : TooManyWait(d) \/ d.full > RealSize))

\* HevcDpbUpdateOutputList2, which looks at the pictures waiting
UpdateOutputList2(dpb, fb) ==
  Counted(OutputWhile(DropUnused(dpb), fb, LAMBDA d : TooManyWait(d) \/ d.waiting > RealSize))
-----------------------------------------------------------------------------
(* HevcSetRefPics for a slice of an ordinary picture, whose reference        *)
(* picture set keeps the references in S.                                    *)

\* A reference in the last slot changes places with the first slot that has none.
SwapLast(dpb) ==
  LET free == {i \in Slots \ {DpbSize} : ~dpb.slot[i].ref}
      to == CHOOSE i \in free : \A j \in free : i <= j
      at(i) == IF i = to THEN DpbSize ELSE IF i = DpbSize THEN to ELSE i
  IN IF ~dpb.slot[DpbSize].ref THEN dpb
     ELSE [dpb EXCEPT !.slot = [i \in Slots |-> @[at(i)]],
                      !.disp = [k \in DOMAIN @ |-> at(@[k])]]

SetRefPics(dpb, S) == SwapLast(Unreference(dpb, Refs(dpb) \ S))

\* HevcDpbMarkOlderUnused for a random access picture: the pictures S, which are
\* not later in display order or have is_tsa_ref set, become UNUSED and are not output.  The status is
\* changed before it is tested, so DpbBufFree is never called.
MarkOlderUnused(dpb, S) ==
  LET dropped == {i \in S : Shown(dpb, i) /\ dpb.slot[i].outf} IN
  [Undisplay(dpb, dropped) EXCEPT
     !.slot = [i \in Slots |-> IF i \in S THEN [@[i] EXCEPT !.ref = FALSE] ELSE @[i]],
     !.waiting = @ - Cardinality(dropped),
     !.full = Fewer(@, Cardinality(dropped))]

\* The sets S that MarkOlderUnused may see.  Any picture may have is_tsa_ref set, so
\* they need not come first in display order.
OlderSets(dpb) == SUBSET (Refs(dpb) \cup Range(dpb.disp))
-----------------------------------------------------------------------------
(* HevcAllocateDpbImage: the first slot that is neither displayed nor a      *)
(* reference, or slot 0 if there is none (a workaround of the code).         *)

FreeSlots(dpb) == {i \in Slots : ~Shown(dpb, i) /\ ~dpb.slot[i].ref}

AllocSlot(dpb) ==
  IF FreeSlots(dpb) = {} THEN 0
  ELSE CHOOSE i \in FreeSlots(dpb) : \A j \in FreeSlots(dpb) : i <= j

\* The new picture, k-th in display order, is a reference until a later slice drops
\* it.  What the slot had before (the workaround) is forgotten.
StorePicture(dpb, i, id, k, outf) ==
  [dpb EXCEPT !.slot[i] = [mem |-> id, ref |-> TRUE, outf |-> outf],
              !.disp = InsertAt(Undisplay(dpb, {i}).disp, k, i),
              !.full = @ + 1,
              !.waiting = IF outf THEN @ + 1 ELSE @]

\* mutant
DropPictureWaiting(dpb, i) ==
  [Undisplay(dpb, {i}) EXCEPT !.slot[i].ref = FALSE, !.full = Fewer(@, 1)]

\* HevcDropCurrentPicutre, after an error the hardware reports
DropPicture(dpb, i) ==
  [Undisplay(dpb, {i}) EXCEPT
     !.slot[i].ref = FALSE,
     !.full = Fewer(@, 1),
     !.waiting = IF Shown(dpb, i) /\ dpb.slot[i].outf THEN @ - 1 ELSE @]

\* The buffers of the slots a picture may refer to: IncrementDPBRefCount keeps the
\* first dpb_size of them.
RefIds(dpb) == {dpb.slot[i].mem : i \in Slots \ {DpbSize}}

\* HevcInitDpb and HevcEmptyDpb: no pictures.  AddBuffer fills in the buffers.
EmptyDpb ==
  [slot |-> [i \in Slots |-> [mem |-> i, ref |-> FALSE, outf |-> FALSE]],
   disp |-> <<>>, full |-> 0, waiting |-> 0, outbuf |-> <<>>]
=============================================================================
