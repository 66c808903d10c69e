---------------------------- MODULE DecoderState ----------------------------
(***************************************************************************)
(* The state of a decoder component (decoder/decoder.c) that its threads   *)
(* share, and the codec it drives.                                         *)
(*                                                                         *)
(* Three threads work on it: the IL client's thread inside an API call     *)
(* (module DecoderClient), the component thread that executes commands and *)
(* decodes input buffers (module DecoderThread), and the output thread     *)
(* that fetches frames from the codec and delivers them (module            *)
(* DecoderOutput).  Module Decoder puts them together.                     *)
(*                                                                         *)
(* Modelled is the video decoder with client buffers on the in and the out *)
(* port and external frame buffers (useExternalAlloc, set for every codec  *)
(* of the video domain): the codec decodes into the very buffers that are  *)
(* queued on the out port.  The post-processor port is disabled and has no *)
(* buffers; no port is tunneled.                                           *)
(***************************************************************************)
EXTENDS Port, FiniteSets

CONSTANTS InBufs, OutBufs,   \* buffers of the two ports; their numbers are nBufferCountActual
          NULL,
          CountMin,          \* nBufferCountMin of the out port: what the codec wants
          Legal,             \* set of <<state, command>>: what the client may ask for when
          FillStates,        \* states in which the client hands buffers over
          Allow,             \* the Liberties of this instance
          MaxQueue,          \* bound on commands in the queue
          MaxPics            \* bound on pictures waiting in the codec

States == {"Loaded", "Idle", "Executing", "Pause", "WaitForResources", "Invalid"}
Ports == {"in", "out"}
Targets == {"in", "out", "all"}
Commands == ({"StateSet"} \X States) \cup
            ({"Flush", "PortDisable", "PortEnable"} \X Targets)

(* What the client, the stream and the scheduler may do beyond the simplest   *)
(* use of the component:                                                     *)
(*   pipeline   commands are sent, and buffers handed over, while an earlier *)
(*              command is being executed                                    *)
(*   refill     EmptyBufferDone of the client calls EmptyThisBuffer          *)
(*   disable    ports are disabled unasked, not only to be reconfigured      *)
(*   headers    the stream changes its headers                               *)
(*   fillrace   the other threads run between the steps of FillThisBuffer    *)
Liberties == {"pipeline", "refill", "disable", "headers", "fillrace"}

ASSUME DecoderConstantsOK ==
  /\ IsFiniteSet(InBufs) /\ IsFiniteSet(OutBufs)
  /\ InBufs \cap OutBufs = {} /\ NULL \notin InBufs \cup OutBufs \cup Commands
  /\ InBufs # {} /\ CountMin \in 1 .. Cardinality(OutBufs)
  /\ Legal \subseteq States \X Commands
  /\ FillStates \subseteq {"Idle", "Executing", "Pause"}
  /\ Allow \subseteq Liberties
  /\ MaxQueue \in Nat \ {0} /\ MaxPics \in Nat \ {0}

VARIABLES
  dec,     \* OMX_DECODER: state, trans(ition), run, release(Buffers),
           \* reconf (portReconfigPending), extra (checkExtraBuffers),
           \* disabling(OutPort), prev(Buffer), list (outputBufList)
  sd,      \* SHARED_DATA: eos, inbuff, outRun (output_thread_run),
           \* thread (output_thread_ # 0), hasFrame, eosAddr
  port,    \* dec->in and dec->out
  codec,   \* the codec instance
  cmdq,    \* base.queue, a FIFO (module MsgQueue)
  cli,     \* the client thread, and the buffers it holds
  comp,    \* the component thread: what is left of the handler it is in
  out      \* the output thread

vars == <<dec, sd, port, codec, cmdq, cli, comp, out>>

Bufs(p) == IF p = "in" THEN InBufs ELSE OutBufs
PortsOf(t) == IF t = "all" THEN Ports ELSE {t}
Slots == 1 .. Cardinality(OutBufs)
NoList == [i \in Slots |-> NULL]

\* outputBufSize counts the entries of outputBufList that are set.
OutputBufSize == Cardinality({i \in Slots : dec.list[i] # NULL})
-----------------------------------------------------------------------------
(* The codec (codec_hevc.c on top of hevcdecapi.c).  phase: it waits for     *)
(* stream headers ("hdr"), for frame buffers ("wait"), or decodes ("run").   *)
(* free: registered buffers it may decode into; pics: decoded pictures to be *)
(* output; shown: pictures output and not yet consumed; need: the buffers it *)
(* was given are too few or too small; flush: the flush marker is pending.   *)

NoCodec == [made |-> FALSE, phase |-> "hdr", aborted |-> FALSE, eos |-> FALSE,
            flush |-> FALSE, need |-> FALSE, free |-> {}, pics |-> <<>>, shown |-> {}]

Known(c) == c.free \cup Range(c.pics) \cup c.shown

\* codec->setframebuffer
SetFrameBuffer(c, b) == IF b \in Known(c) THEN c ELSE [c EXCEPT !.free = @ \cup {b}]

\* codec->pictureconsumed: only a picture that was output can be consumed.
PictureConsumed(c, b) ==
  IF b \in c.shown THEN [c EXCEPT !.shown = @ \ {b}, !.free = @ \cup {b}] ELSE c

\* codec->abort: decode and getframe return CODEC_ABORTED from now on.
Abort(c) == [c EXCEPT !.aborted = TRUE]

\* codec->abortafter: pictures and registered buffers are gone.
AbortAfter(c) == [NoCodec EXCEPT !.made = c.made, !.flush = c.flush]

\* codec->endofstream
EndOfStream(c) == [c EXCEPT !.eos = TRUE]
-----------------------------------------------------------------------------
\* OMX_ComponentConstructor; the client has disabled the post-processor port.
Init ==
  /\ dec = [state |-> "Loaded", trans |-> "Loaded", run |-> TRUE, release |-> FALSE,
            reconf |-> FALSE, extra |-> FALSE, disabling |-> FALSE, prev |-> NULL,
            list |-> NoList]
  /\ sd = [eos |-> FALSE, inbuff |-> NULL, outRun |-> FALSE, thread |-> FALSE,
           hasFrame |-> FALSE, eosAddr |-> NULL]
  /\ port = [p \in Ports |-> NewPort(Cardinality(Bufs(p)))]
  /\ codec = NoCodec
  /\ cmdq = <<>>
  /\ cli = [pc |-> "idle", cmd |-> NULL, buf |-> NULL, held |-> {}, eosBuf |-> NULL]
  /\ comp = [pc |-> "loop", todo |-> <<>>, buf |-> NULL]
  /\ out = [pc |-> "none", frm |-> NULL, idx |-> 0, inbuff |-> NULL]

\* A client in the middle of FillThisBuffer keeps the threads from running,
\* unless the instance is about that race.
Undisturbed == cli.pc \in {"pushing", "consuming"} => "fillrace" \in Allow

\* pthread_create(&output_thread_, output_thread).  A second output thread, next
\* to one that was forgotten without a join, is not modelled.
StartOutput(shared) ==
  /\ out.pc = "none"
  /\ sd' = [shared EXCEPT !.outRun = TRUE, !.thread = TRUE]
  /\ out' = [pc |-> "start", frm |-> NULL, idx |-> 0, inbuff |-> NULL]
=============================================================================
