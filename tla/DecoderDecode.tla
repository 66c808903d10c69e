---------------------------- MODULE DecoderDecode ---------------------------
(***************************************************************************)
(* The decoding of one input buffer by the component thread: decoder.c     *)
(* async_decoder_decode and async_decode_data.  comp.buf is the buffer; it *)
(* stays at the head of the in port's queue until it has been decoded.     *)
(*                                                                         *)
(* What codec->decode returns is the codec's choice.  CODEC_NEED_MORE, a   *)
(* skipped picture and an incomplete decoding unit consume data and show   *)
(* nothing; what they leave of a buffer is not told apart from new data.   *)
(***************************************************************************)
EXTENDS DecoderThread

\* decoder_thread_main finds the in port's event set; an early return of
\* async_decoder_decode (releaseBuffers, no buffer) changes nothing.
DecodeStart ==
  /\ Undisturbed /\ comp.pc = "loop" /\ dec.run /\ comp.todo = <<>> /\ cmdq = <<>>
  /\ port["in"].event /\ port["in"].queue # <<>>
  /\ dec.state = "Executing" /\ ~dec.reconf /\ ~dec.release
  /\ \E content \in {"data", "empty"} :
       comp' = [comp EXCEPT !.buf = Head(port["in"].queue),
                            !.todo = <<<<"extra", NULL>>, <<content, NULL>>>>]
  /\ UNCHANGED <<dec, sd, port, codec, cmdq, cli, out>>

\* The wait for the client to hand over the buffers that are not registered yet
DecodeExtra ==
  /\ Step({"extra"})
  /\ dec.extra => OutputBufSize >= CountMin \/ dec.release
  /\ Done
  /\ UNCHANGED <<dec, sd, port, codec, cmdq, cli, out>>

-----------------------------------------------------------------------------
(* The loop of async_decode_data *)

\* shared_data.inbuff = buff; codec->decode(...)
Decoding ==
  /\ Step({"data"}) /\ ~dec.reconf /\ ~dec.release
  /\ sd' = [sd EXCEPT !.inbuff = comp.buf]

\* The loop's condition is false.
DecodeStop ==
  /\ Step({"data"}) /\ (dec.reconf \/ dec.release)
  /\ Continue(<<<<"tail", NULL>>>>)
  /\ UNCHANGED <<dec, sd, port, codec, cmdq, cli, out>>

\* A buffer without data: the loop is not entered.
DecodeEmpty ==
  /\ Step({"empty"})
  /\ sd' = [sd EXCEPT !.inbuff = comp.buf]
  /\ Continue(<<<<"tail", NULL>>>>)
  /\ UNCHANGED <<dec, port, codec, cmdq, cli, out>>

\* CODEC_ABORTED returns at once: an EOS flag on the buffer is not looked at.
\* The abort may come when the loop's condition has been tested already.
DecodeAborted ==
  /\ Step({"data"}) /\ ~dec.reconf /\ codec.aborted
  /\ sd' = [sd EXCEPT !.inbuff = comp.buf]
  /\ Continue(<<<<"finish", NULL>>>>)
  /\ UNCHANGED <<dec, port, codec, cmdq, cli, out>>

\* Stream headers: once its pictures are out (CODEC_PENDING_FLUSH until then)
\* the codec leaves a flush marker for the output thread, and goes on with the
\* buffers it has or asks for others, perhaps more or larger ones.
DecodeHeaders ==
  /\ Decoding /\ ~codec.aborted /\ codec.phase = "hdr" /\ codec.pics = <<>>
  /\ \/ /\ Cardinality(Known(codec)) >= CountMin
        /\ codec' = [codec EXCEPT !.flush = TRUE, !.phase = "run"]
     \/ \E more \in BOOLEAN :
          codec' = [codec EXCEPT !.flush = TRUE, !.phase = "wait", !.need = more,
                                 !.free = {}, !.shown = {}]
  /\ UNCHANGED <<dec, port, cmdq, cli, comp, out>>

\* CODEC_WAITING_FRAME_BUFFER: OMX_EventPortSettingsChanged
DecodeReconfigure ==
  /\ Decoding /\ ~codec.aborted /\ codec.phase = "wait" /\ codec.need
  /\ codec' = [codec EXCEPT !.need = FALSE]
  /\ dec' = [dec EXCEPT !.reconf = TRUE]
  /\ UNCHANGED <<port, cmdq, cli, comp, out>>

\* CODEC_WAITING_FRAME_BUFFER: the first CountMin buffers of the out port's
\* queue are registered, each waited for while the queue is too short.
DecodeWaiting ==
  /\ Decoding /\ ~codec.aborted /\ codec.phase = "wait" /\ ~codec.need
  /\ Continue(<<<<"register", 1>>>>)
  /\ UNCHANGED <<dec, port, codec, cmdq, cli, out>>

DecodeRegister ==
  /\ Step({"register"})
  /\ LET queue == port["out"].queue IN
     IF Arg > Len(queue)
       THEN Continue(<<<<"no-buffer", Arg>>>>) /\ UNCHANGED <<dec, codec>>
       ELSE LET last == Arg = CountMin
                given == SetFrameBuffer(codec, queue[Arg]) IN
            /\ dec' = [dec EXCEPT !.list[Arg] = queue[Arg], !.extra = @ \/ last]
            /\ codec' = IF last THEN [given EXCEPT !.phase = "run"] ELSE given
            /\ Continue(IF last THEN <<<<"data", NULL>>>> ELSE <<<<"register", Arg + 1>>>>)
  /\ UNCHANGED <<sd, port, cmdq, cli, out>>

\* Only releaseBuffers ends the wait for an output buffer.
DecodeNoBuffer ==
  /\ Step({"no-buffer"})
  /\ \/ dec.release /\ Continue(<<<<"finish", NULL>>>>)
     \/ ~dec.release /\ Arg <= Len(port["out"].queue) /\ Continue(<<<<"register", Arg>>>>)
  /\ UNCHANGED <<dec, sd, port, codec, cmdq, cli, out>>

\* A picture is decoded into a free buffer, and the loop goes on if there is
\* more data; without a buffer (CODEC_NO_DECODING_BUFFER) decode is called again.
DecodePicture(more) ==
  /\ Decoding /\ ~codec.aborted /\ codec.phase = "run" /\ Len(codec.pics) < MaxPics
  /\ \E b \in codec.free :
       codec' = [codec EXCEPT !.free = @ \ {b}, !.pics = Append(@, b)]
  /\ IF more THEN UNCHANGED comp ELSE Continue(<<<<"tail", NULL>>>>)
  /\ UNCHANGED <<dec, port, cmdq, cli, out>>

\* Data that shows nothing
DecodeNothing ==
  /\ Decoding /\ ~codec.aborted /\ codec.phase # "wait"
  /\ Continue(<<<<"tail", NULL>>>>)
  /\ UNCHANGED <<dec, port, codec, cmdq, cli, out>>

\* The stream's headers change.
DecodeNewHeaders ==
  /\ Decoding /\ ~codec.aborted /\ codec.phase = "run" /\ "headers" \in Allow
  /\ codec' = [codec EXCEPT !.phase = "hdr"]
  /\ UNCHANGED <<dec, port, cmdq, cli, comp, out>>

\* An error of the codec or of the hardware: INVALID_STATE.  The codec is
\* aborted so that the output thread ends and can be joined.
DecodeError ==
  /\ Decoding /\ ~codec.aborted
  /\ codec' = Abort(codec)
  /\ Continue(JoinAndAbort \o <<<<"failed", NULL>>>>)
  /\ UNCHANGED <<dec, port, cmdq, cli, out>>

DecodeFailed ==
  /\ Step({"failed"})
  /\ sd' = [sd EXCEPT !.eos = TRUE]
  /\ dec' = [dec EXCEPT !.state = "Invalid", !.run = FALSE]
  /\ comp' = [comp EXCEPT !.todo = <<>>, !.buf = NULL]
  /\ UNCHANGED <<port, codec, cmdq, cli, out>>

-----------------------------------------------------------------------------
\* The end of async_decode_data.  While a port reconfiguration is pending the
\* buffer stays queued and is decoded again.
DecodeTail ==
  /\ Step({"tail"})
  /\ codec' = IF comp.buf = cli.eosBuf /\ ~dec.reconf /\ ~sd.eos
              THEN EndOfStream(codec) ELSE codec
  /\ comp' = IF dec.reconf THEN [comp EXCEPT !.todo = <<>>, !.buf = NULL]
             ELSE [comp EXCEPT !.todo = <<<<"finish", NULL>>>>]
  /\ UNCHANGED <<dec, sd, port, cmdq, cli, out>>

\* Mutant of DecodeFinish: prevBuffer is returned even if there is none.
DecodeFinish_ReturnsNull ==
  /\ Step({"finish"})
  /\ cli' = [cli EXCEPT !.held = @ \cup {dec.prev}]
  /\ port' = [port EXCEPT !["in"] = PopBuffer(@)]
  /\ dec' = [dec EXCEPT !.prev = comp.buf]
  /\ comp' = [comp EXCEPT !.todo = <<>>, !.buf = NULL]
  /\ UNCHANGED <<sd, codec, cmdq, out>>

\* The end of async_decoder_decode: the PREVIOUS buffer goes back to the
\* client, this one leaves the queue and is kept until the next is done.
DecodeFinish ==
  /\ Step({"finish"})
  /\ cli' = [cli EXCEPT !.held = @ \cup ({dec.prev} \ {NULL})]
  /\ port' = [port EXCEPT !["in"] = PopBuffer(@)]
  /\ dec' = [dec EXCEPT !.prev = comp.buf]
  /\ comp' = [comp EXCEPT !.todo = <<>>, !.buf = NULL]
  /\ UNCHANGED <<sd, codec, cmdq, out>>

DecodeNext ==
  \/ DecodeStart \/ DecodeExtra \/ DecodeStop \/ DecodeEmpty \/ DecodeAborted
  \/ DecodeHeaders \/ DecodeReconfigure \/ DecodeWaiting \/ DecodeRegister
  \/ DecodeNoBuffer \/ DecodePicture(TRUE) \/ DecodePicture(FALSE)
  \/ DecodeNothing \/ DecodeNewHeaders
  \/ DecodeError \/ DecodeFailed \/ DecodeTail \/ DecodeFinish
=============================================================================
