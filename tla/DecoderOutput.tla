---------------------------- MODULE DecoderOutput ---------------------------
(***************************************************************************)
(* The output thread of a decoder (decoder.c output_thread and             *)
(* async_dispatch_frame_buffer).  It fetches a picture from the codec, looks *)
(* for its buffer in the queue of the out port, delivers it with           *)
(* FillBufferDone and only then, in a second critical section, pops the    *)
(* place where it found it.                                                *)
(*                                                                         *)
(* hasFrame is meant to keep async_decoder_return_buffers away meanwhile.  *)
(***************************************************************************)
EXTENDS DecoderState

OutAt(pc) == Undisturbed /\ out.pc = pc
Goto(pc) == out' = [out EXCEPT !.pc = pc]

\* hasFrame = OMX_FALSE, and the loop's condition
OutStart ==
  /\ OutAt("start")
  /\ sd' = [sd EXCEPT !.hasFrame = FALSE]
  /\ Goto("loop")
  /\ UNCHANGED <<dec, port, codec, cmdq, cli, comp>>

OutLoop ==
  /\ OutAt("loop")
  /\ Goto(IF sd.outRun /\ ~dec.release THEN "get" ELSE "exit")
  /\ UNCHANGED <<dec, sd, port, codec, cmdq, cli, comp>>

\* The end of the thread: output_thread_run and hasFrame are cleared.
OutExit ==
  /\ OutAt("exit")
  /\ sd' = [sd EXCEPT !.outRun = FALSE, !.hasFrame = FALSE]
  /\ out' = [pc |-> "none", frm |-> NULL, idx |-> 0, inbuff |-> NULL]
  /\ UNCHANGED <<dec, port, codec, cmdq, cli, comp>>
-----------------------------------------------------------------------------
(* codec->getframe blocks until there is a picture, a flush marker, the end  *)
(* of the stream, or an abort, and looks for an abort before a marker and    *)
(* for a marker before a picture.  It looks for the end of the stream before *)
(* it blocks: an abort may be seen first.                                    *)

GetEos == codec.eos /\ codec.pics = <<>>

OutGetEos ==
  /\ OutAt("get") /\ GetEos
  /\ Goto(IF dec.release THEN "exit" ELSE "eos")
  /\ UNCHANGED <<dec, sd, port, codec, cmdq, cli, comp>>

OutGetAborted ==
  /\ OutAt("get") /\ codec.aborted
  /\ Goto("exit")
  /\ UNCHANGED <<dec, sd, port, codec, cmdq, cli, comp>>

OutGetFlushed ==
  /\ OutAt("get") /\ ~GetEos /\ ~codec.aborted /\ codec.flush
  /\ codec' = [codec EXCEPT !.flush = FALSE]
  /\ Goto("flushed")
  /\ UNCHANGED <<dec, sd, port, cmdq, cli, comp>>

OutFlushed ==
  /\ OutAt("flushed")
  /\ sd' = [sd EXCEPT !.hasFrame = FALSE]
  /\ Goto("loop")
  /\ UNCHANGED <<dec, port, codec, cmdq, cli, comp>>

OutGetFrame ==
  /\ OutAt("get") /\ ~codec.aborted /\ ~codec.flush /\ codec.pics # <<>>
  /\ codec' = [codec EXCEPT !.pics = Tail(@), !.shown = @ \cup {Head(codec.pics)}]
  /\ out' = [out EXCEPT !.pc = "frame", !.frm = Head(codec.pics)]
  /\ UNCHANGED <<dec, sd, port, cmdq, cli, comp>>
-----------------------------------------------------------------------------
\* hasFrame = OMX_TRUE: nothing resets it when the frame has been delivered.
OutHasFrame ==
  /\ OutAt("frame")
  /\ sd' = [sd EXCEPT !.hasFrame = TRUE]
  /\ Goto("check")
  /\ UNCHANGED <<dec, port, codec, cmdq, cli, comp>>

\* if (frm.size && !dec->releaseBuffers): the input buffer that is being decoded
\* NOW is remembered; its header is read when the frame is delivered.
OutCheck ==
  /\ OutAt("check")
  /\ IF dec.release THEN Goto("loop")
     ELSE out' = [out EXCEPT !.pc = "find", !.inbuff = sd.inbuff]
  /\ UNCHANGED <<dec, sd, port, codec, cmdq, cli, comp>>

\* async_dispatch_frame_buffer: the search, under the port's lock.  A frame
\* that is not found fails DBGT_ASSERT(0), and the thread ends here.
OutFind ==
  /\ OutAt("find")
  /\ LET at == {i \in DOMAIN port["out"].queue : port["out"].queue[i] = out.frm}
     IN IF at = {} THEN Goto("assert")
        ELSE \E i \in at : /\ \A j \in at : i <= j
                           /\ out' = [out EXCEPT !.pc = "deliver", !.idx = i]
  /\ UNCHANGED <<dec, sd, port, codec, cmdq, cli, comp>>

\* The flags are copied from the remembered input buffer;
\* FillBufferDone(buff->header).
OutDeliver ==
  /\ OutAt("deliver")
  /\ cli' = [cli EXCEPT !.held = @ \cup {out.frm}]
  /\ out' = [out EXCEPT !.pc = "pop", !.inbuff = NULL]
  /\ UNCHANGED <<dec, sd, port, codec, cmdq, comp>>

\* Mutant of OutPop: the front of the queue is popped, wherever the frame was.
OutPop_Front ==
  /\ OutAt("pop")
  /\ port' = [port EXCEPT !["out"] = PopBuffer(@)]
  /\ Goto("loop")
  /\ UNCHANGED <<dec, sd, codec, cmdq, cli, comp>>

\* HantroOmx_port_pop_buffer_at(i).  An index past the end is refused, except
\* the one just past it, which fails the assertion in bufferlist_remove.
OutPop ==
  /\ OutAt("pop")
  /\ LET n == Len(port["out"].queue) IN
     IF out.idx <= n
       THEN port' = [port EXCEPT !["out"] = PopBufferAt(@, out.idx)] /\ Goto("loop")
       ELSE UNCHANGED port /\ Goto(IF n > 0 /\ out.idx = n + 1 THEN "assert" ELSE "loop")
  /\ UNCHANGED <<dec, sd, codec, cmdq, cli, comp>>
-----------------------------------------------------------------------------
\* CODEC_END_OF_STREAM: wait for any output buffer to carry the EOS flag.
OutEos ==
  /\ OutAt("eos")
  /\ \/ /\ port["out"].queue # <<>>
        /\ out' = [out EXCEPT !.pc = "eosdeliver", !.frm = Head(port["out"].queue)]
     \/ dec.release /\ Goto("exit")
  /\ UNCHANGED <<dec, sd, port, codec, cmdq, cli, comp>>

\* The buffer was looked up in an earlier critical section; releaseBuffers is
\* looked at once more, the queue is not.
OutEosDeliver ==
  /\ OutAt("eosdeliver")
  /\ IF dec.release THEN Goto("exit") /\ UNCHANGED <<sd, cli>>
     ELSE /\ sd' = [sd EXCEPT !.eosAddr = out.frm]
          /\ cli' = [cli EXCEPT !.held = @ \cup {out.frm}]
          /\ Goto("eospop")
  /\ UNCHANGED <<dec, port, codec, cmdq, comp>>

\* pop_buffer, OMX_EventBufferFlag, EOS = OMX_TRUE
OutEosPop ==
  /\ OutAt("eospop")
  /\ port' = [port EXCEPT !["out"] = PopBuffer(@)]
  /\ sd' = [sd EXCEPT !.eos = TRUE]
  /\ Goto("exit")
  /\ UNCHANGED <<dec, codec, cmdq, cli, comp>>

OutputNext ==
  \/ OutStart \/ OutLoop \/ OutExit
  \/ OutGetEos \/ OutGetAborted \/ OutGetFlushed \/ OutGetFrame
  \/ OutFlushed \/ OutHasFrame \/ OutCheck \/ OutFind \/ OutDeliver \/ OutPop
  \/ OutEos \/ OutEosDeliver \/ OutEosPop
=============================================================================
