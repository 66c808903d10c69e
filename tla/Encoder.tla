------------------------------- MODULE Encoder ------------------------------
(***************************************************************************)
(* What the component thread of an encoder does with the frames in its in  *)
(* port (async_video_encoder_encode and what it calls), the specification  *)
(* of the encoder, and its properties.                                     *)
(***************************************************************************)
EXTENDS EncoderControl

Id == [b \in 1 .. NIn |-> frame[b].id]
Goto(pc) == comp' = IF pc = "loop" THEN AtLoop ELSE [comp EXCEPT !.pc = pc]
HeadOut == Head(port["out"].queue)

\* The wait for an output buffer ends without one: after MAX_RETRIES, or
\* because the component is asked to pause or to stop.
NoOutput == port["out"].queue = <<>>

-----------------------------------------------------------------------------
(* async_start_stream *)

StreamRuns ==
  /\ comp.pc = "start" /\ enc.started
  /\ Goto("pick")
  /\ UNCHANGED <<enc, port, frame, codec, cmdq, cli, hist>>

\* codec->stream_start; FillBufferDone comes before the buffer is popped.
StartStream ==
  /\ comp.pc = "start" /\ ~enc.started /\ ~NoOutput /\ CanStart(codec)
  /\ codec' = [NoCodec EXCEPT !.made = TRUE, !.phase = "stream"]
  /\ enc' = [enc EXCEPT !.started = TRUE]
  /\ cli' = Give("out", {HeadOut})
  /\ Goto("startpop")
  /\ UNCHANGED <<port, frame, cmdq, hist>>

StartRefused ==
  /\ comp.pc = "start" /\ ~enc.started /\ ~NoOutput /\ ~CanStart(codec)
  /\ Invalid
  /\ UNCHANGED <<port, frame, codec, cmdq, cli>>

\* OMX_ErrorOverflow: tried again in the next round.
StartGivesUp ==
  /\ comp.pc = "start" /\ ~enc.started /\ NoOutput
  /\ Goto("loop")
  /\ UNCHANGED <<enc, port, frame, codec, cmdq, cli, hist>>

StartPop ==
  /\ comp.pc = "startpop"
  /\ port' = [port EXCEPT !["out"] = PopBuffer(@)]
  /\ Goto("pick")
  /\ UNCHANGED <<enc, frame, codec, cmdq, cli, hist>>
-----------------------------------------------------------------------------
(* async_video_encoder_encode *)

\* The frame the codec wants, or the first one, is looked up under the lock.
PickFrame ==
  /\ comp.pc = "pick"
  /\ LET q == port["in"].queue
         i == IF enc.next # NoId THEN PlaceOfFrame(port["in"], Id, enc.next)
              ELSE IF q = <<>> THEN 0 ELSE 1
     IN IF i = 0
        THEN Goto("nopick") /\ UNCHANGED enc
        ELSE /\ comp' = [comp EXCEPT !.buf = q[i],
                                     !.pc = IF frame[q[i]].full THEN "code" ELSE "coded"]
             /\ enc' = [enc EXCEPT !.curr = enc.next]
  /\ UNCHANGED <<port, frame, codec, cmdq, cli, hist>>

\* Mutant of NoFrame: a missing frame is waited for though none will come.
NoFrame_Wait ==
  /\ comp.pc = "nopick"
  /\ Goto("loop")
  /\ UNCHANGED <<enc, port, frame, codec, cmdq, cli, hist>>

\* Without the lock: no frame and input_eos ends the stream.
NoFrame ==
  /\ comp.pc = "nopick"
  /\ Goto(IF enc.eos THEN "end" ELSE "loop")
  /\ UNCHANGED <<enc, port, frame, codec, cmdq, cli, hist>>

\* The first output buffer, filled, is popped and then given to the client.
Deliver ==
  /\ port' = [port EXCEPT !["out"] = PopBuffer(@)]
  /\ cli' = Give("out", {HeadOut})
  /\ Goto("coded")

\* async_encode_video_data
EncodeFrame ==
  /\ comp.pc = "code" /\ ~NoOutput
  /\ \E c \in FindNextPic(codec) :
       codec' = c /\ enc' = [enc EXCEPT !.next = c.cnt]
  /\ Deliver
  /\ hist' = IF hist.whole THEN [hist EXCEPT !.encoded = @ \cup {frame[comp.buf].id}] ELSE hist
  /\ UNCHANGED <<frame, cmdq>>

\* VCENC_FRAME_READY with streamSize 0
DiscardFrame ==
  /\ comp.pc = "code" /\ ~NoOutput /\ "error" \in Allow
  /\ codec' = SkipPic(codec) /\ enc' = [enc EXCEPT !.next = codec.cnt + 1]
  /\ Deliver
  /\ hist' = NotWhole
  /\ UNCHANGED <<frame, cmdq>>

\* OMX_ErrorOverflow and OMX_ErrorBadParameter are reported and the frame counts
\* as encoded, but only if the client has allocated the input buffers.
NotEncoded ==
  /\ IF enc.mine THEN Invalid
     ELSE Goto("coded") /\ hist' = NotWhole /\ UNCHANGED enc
  /\ UNCHANGED <<port, frame, cmdq, cli>>

EncodeGivesUp ==
  /\ comp.pc = "code" /\ NoOutput
  /\ NotEncoded /\ UNCHANGED codec

\* CODEC_ERROR_INVALID_ARGUMENT; CODEC_ERROR_BUFFER_OVERFLOW, after which
\* picture_cnt has gone on and enc_next_pic_id has not
EncodeRejects ==
  /\ comp.pc = "code" /\ ~NoOutput /\ "error" \in Allow
  /\ \/ UNCHANGED codec
     \/ codec.cnt < MaxFrames /\ codec' = SkipPic(codec)
  /\ NotEncoded

\* The errors of the hardware
EncodeFails ==
  /\ comp.pc = "code" /\ ~NoOutput /\ "error" \in Allow
  /\ Invalid
  /\ UNCHANGED <<port, frame, codec, cmdq, cli>>

\* A frame with the EOS flag ends the stream if the codec is past it, and is not
\* given back.  The first frame is given back before it is popped.
Coded ==
  LET f == frame[comp.buf]
      pic == IF enc.next # NoId THEN enc.next ELSE enc.curr
  IN
  /\ comp.pc = "coded"
  /\ \/ /\ f.eos
        /\ Goto(IF enc.next # NoId /\ enc.next >= f.id THEN "end" ELSE "loop")
        /\ UNCHANGED <<frame, cli>>
     \/ /\ ~f.eos /\ enc.curr = NoId
        /\ Goto("popfirst") /\ cli' = Give("in", {comp.buf}) /\ frame' = Emptied({comp.buf})
     \/ /\ ~f.eos /\ enc.curr # NoId
        /\ comp' = IF pic > MaxGop THEN [AtLoop EXCEPT !.pc = "giveback", !.pic = pic - MaxGop]
                   ELSE AtLoop
        /\ UNCHANGED <<frame, cli>>
  /\ UNCHANGED <<enc, port, codec, cmdq, hist>>

PopFirst ==
  /\ comp.pc = "popfirst"
  /\ port' = [port EXCEPT !["in"] = PopBuffer(@)]
  /\ Goto("loop")
  /\ UNCHANGED <<enc, frame, codec, cmdq, cli, hist>>

\* Mutant of GiveBack: from the frame before the next picture on.
GiveBack_Early ==
  /\ comp.pc = "giveback"
  /\ LET f == comp.pic + MaxGop - 1
         i == PlaceOfFrame(port["in"], Id, f)
         bs == IF i = 0 THEN {} ELSE {port["in"].queue[i]}
     IN /\ port' = [port EXCEPT !["in"] = PopBufferByFrameId(@, Id, f)]
        /\ cli' = Give("in", bs) /\ frame' = Emptied(bs)
        /\ comp' = IF i = 0 \/ comp.pic = 1 THEN AtLoop ELSE [comp EXCEPT !.pic = @ - 1]
  /\ UNCHANGED <<enc, codec, cmdq, hist>>

\* The frames the codec has left behind, from the newest on, until one is missing
GiveBack ==
  /\ comp.pc = "giveback"
  /\ LET i == PlaceOfFrame(port["in"], Id, comp.pic)
         bs == IF i = 0 THEN {} ELSE {port["in"].queue[i]}
     IN /\ port' = [port EXCEPT !["in"] = PopBufferByFrameId(@, Id, comp.pic)]
        /\ cli' = Give("in", bs) /\ frame' = Emptied(bs)
        /\ comp' = IF i = 0 \/ comp.pic = 1 THEN AtLoop ELSE [comp EXCEPT !.pic = @ - 1]
  /\ UNCHANGED <<enc, codec, cmdq, hist>>
-----------------------------------------------------------------------------
(* async_end_stream, and the return of all buffers after it *)

EndStream ==
  /\ comp.pc = "end" /\ ~NoOutput
  /\ codec' = [codec EXCEPT !.phase = "init"]
  /\ enc' = [enc EXCEPT !.started = FALSE]
  /\ cli' = Give("out", {HeadOut})
  /\ hist' = [hist EXCEPT !.done = TRUE]
  /\ Goto("endpop")
  /\ UNCHANGED <<port, frame, cmdq>>

\* codec->stream_end fails: OMX_ErrorHardware, which no one looks at.
EndFails ==
  /\ comp.pc = "end" /\ ~NoOutput /\ "error" \in Allow
  /\ Goto("loop")
  /\ hist' = NotWhole
  /\ UNCHANGED <<enc, port, frame, codec, cmdq, cli>>

EndGivesUp ==
  /\ comp.pc = "end" /\ NoOutput
  /\ Goto("loop")
  /\ UNCHANGED <<enc, port, frame, codec, cmdq, cli, hist>>

EndPop ==
  /\ comp.pc = "endpop"
  /\ port' = [port EXCEPT !["out"] = PopBuffer(@)]
  /\ Goto("endid")
  /\ UNCHANGED <<enc, frame, codec, cmdq, cli, hist>>

\* Without a lock: in_frame_id starts again, whoever is pushing a buffer.
EndReset ==
  /\ comp.pc = "endid"
  /\ enc' = [enc EXCEPT !.inId = 0]
  /\ comp' = [AtLoop EXCEPT !.pc = "cmd", !.todo = ReturnPlan("all")]
  /\ UNCHANGED <<port, frame, codec, cmdq, cli, hist>>

EncodeNext ==
  \/ StreamRuns \/ StartStream \/ StartRefused \/ StartGivesUp \/ StartPop
  \/ PickFrame \/ NoFrame
  \/ EncodeFrame \/ DiscardFrame \/ EncodeGivesUp \/ EncodeRejects \/ EncodeFails
  \/ Coded \/ PopFirst \/ GiveBack
  \/ EndStream \/ EndFails \/ EndGivesUp \/ EndPop \/ EndReset
-----------------------------------------------------------------------------
ClientNext ==
  \/ \E c \in Commands : SendCommand(c)
  \/ SendQueue
  \/ \E p \in Ports : UseBuffer(p) \/ FreeBuffer(p)
  \/ FillThisBuffer
  \/ \E eos, full \in BOOLEAN : EmptyThisBuffer(eos, full)

CompNext == CommandNext \/ EncodeNext

Next == ClientNext \/ CompNext

Spec == Init /\ [][Next]_vars

\* The component thread runs.  The client ends the calls it has begun, allocates
\* and frees when it is asked to, and refills output buffers; it need not send
\* frames or commands.
FairSpec ==
  /\ Spec
  /\ WF_vars(CompNext)
  /\ WF_vars(SendQueue)
  /\ WF_vars(FillThisBuffer)
  /\ \A p \in Ports : WF_vars(UseBuffer(p)) /\ WF_vars(FreeBuffer(p))
-----------------------------------------------------------------------------
(* Properties *)

\* The places of the component thread, the steps of its plans, and the types
Places == {"loop", "cmd", "start", "startpop", "pick", "nopick", "code", "coded", "popfirst",
           "giveback", "end", "endpop", "endid", "assert"}
Steps ==
  {<<"done">>, <<"create">>, <<"empty">>, <<"destroy">>, <<"stop">>, <<"reject">>, <<"invalid">>}
  \cup ({"return"} \X Ports) \cup ({"state"} \X States) \cup ({"ready", "freed"} \X SUBSET Ports)
FrameId == Nat \cup {NoId}
EncType == [state : States, trans : States, run : BOOLEAN, started : BOOLEAN, inId : Nat,
            next : FrameId, curr : FrameId, eos : BOOLEAN, mine : BOOLEAN]
PortType(p) == [buffers : Seq(1 .. Count(p)), bcap : Nat, queue : Seq(1 .. Count(p)), qcap : Nat,
                event : BOOLEAN, enabled : BOOLEAN, populated : BOOLEAN]
FrameType == [id : FrameId, eos : BOOLEAN, full : BOOLEAN]
CodecType == [made : BOOLEAN, phase : {"init", "stream", "frame"}, cnt : Nat, left : SUBSET Nat,
              end : Nat]
ClientType == [pc : {"idle", "sending"}, cmd : Commands \cup {NoCmd}, held : [Ports -> SUBSET Nat]]
CompType == [pc : Places, sig : BOOLEAN, todo : Seq(Steps), buf : Nat, pic : Int]
HistType == [n : Nat, last : FrameId, encoded : SUBSET FrameId, done : BOOLEAN, whole : BOOLEAN]

TypeOK ==
  /\ enc \in EncType /\ codec \in CodecType /\ hist \in HistType
  /\ DOMAIN port = Ports /\ \A p \in Ports : port[p] \in PortType(p)
  /\ frame \in [1 .. NIn -> FrameType]
  /\ cmdq \in Seq(Commands) /\ cli \in ClientType /\ comp \in CompType

\* Callbacks that come before the buffer is popped: of the head of the queue
BeingGiven(p) ==
  IF comp.pc \in (IF p = "in" THEN {"popfirst"} ELSE {"startpop", "endpop"})
  THEN {Head(port[p].queue)} ELSE {}

\* Every allocated buffer is the client's or is queued, never both (but for the
\* one whose callback is being made) and never twice, and a component that has
\* come to rest in Idle keeps none.  Output buffers are given back BEFORE they
\* are popped, input buffers out of order, and everything again at the end of
\* the stream and by the commands (async_encoder_return_buffers).
BuffersOwned ==
  /\ \A p \in Ports : \A i \in DOMAIN port[p].buffers :
       LET b == port[p].buffers[i]
           n == Cardinality({j \in DOMAIN port[p].queue : port[p].queue[j] = b})
                + (IF b \in cli.held[p] THEN 1 ELSE 0)
       IN n = IF b \in BeingGiven(p) THEN 2 ELSE 1
  /\ enc.state = "Idle" /\ enc.trans # "Executing" /\ enc.trans # "Pause" =>
       \A p \in Ports : port[p].queue = <<>>

\* The events of the ports say whether buffers are queued although buffers are
\* popped by frame id (port.c, pop_buffer_by_frame_id): with buffers queued and
\* the event reset the component thread would never wake up again.  Of the in
\* port while the stream is whole; frame ids may skip after an interruption.
EventsInStep ==
  /\ EventInStep(port["out"])
  /\ hist.whole => EventInStep(port["in"])

\* An input buffer goes back only when its frame has been encoded: until the end
\* of the stream is announced, every frame handed over is encoded or queued,
\* however far ahead of it the codec is (OMX_MAX_GOP_SIZE in the give-back loop
\* of async_video_encoder_encode).
FramesKept ==
  hist.whole /\ hist.last = NoId =>
    \A f \in 0 .. hist.n - 1 :
      f \in hist.encoded \/ PlaceOfFrame(port["in"], Id, f) # 0

\* A stream whose last buffer has been handed over ends: its end is delivered,
\* unless it is interrupted or the component leaves Executing.  The stream that
\* consists of one buffer without a frame is left out, it does not end.
StreamEnds ==
  (/\ hist.whole /\ enc.state = "Executing" /\ port["out"].enabled
   /\ hist.last > 0 \/ (hist.last = 0 /\ hist.encoded # {}))
    ~> (hist.done \/ ~hist.whole \/ enc.trans # "Executing")

\* encoder.c: "do eos processing when input is eos and can't find target input
\* frame": the stream is ended for lack of the frame only when it is not there.
EosAfterTarget ==
  comp.pc = "end" /\ comp.buf = 0 => PlaceOfFrame(port["in"], Id, enc.next) = 0
=============================================================================
