------------------------------- MODULE Decoder ------------------------------
(***************************************************************************)
(* A decoder component: the client's calls, the component thread and the   *)
(* output thread together, and what is claimed of them.                    *)
(***************************************************************************)
EXTENDS DecoderClient, DecoderDecode, DecoderOutput

Next == ClientNext \/ CommandNext \/ DecodeNext \/ OutputNext

Spec == Init /\ [][Next]_vars

\* Threads run, a call that began is finished, the client frees, allocates and
\* refills, and the data in a buffer comes to an end.  Nothing forces the codec
\* to skip data or to fail, and nothing the client to send a command.
Fairness ==
  /\ WF_vars(CommandNext)
  /\ WF_vars(DecodeNext /\ ~DecodeNothing /\ ~DecodeError /\ ~DecodeNewHeaders)
  /\ SF_vars(DecodePicture(FALSE))
  /\ WF_vars(OutputNext)
  /\ WF_vars(SendQueue) /\ WF_vars(FillPush) /\ WF_vars(FillConsume)
  /\ WF_vars(\E p \in Ports : \E b \in Bufs(p) : FreeBuffer(p, b))
  /\ WF_vars(\E p \in Ports : \E b \in Bufs(p) : AllocateBuffer(p, b))
  /\ WF_vars(\E b \in OutBufs : FillThisBuffer(b))

FairSpec == Spec /\ Fairness
-----------------------------------------------------------------------------
Maybe(S) == S \cup {NULL}

\* The steps of the four kinds of plans a component thread follows: a change of
\* state, a flush or the disabling of ports; the enabling of ports; the decoding
\* of a buffer; and what is left to do when the codec has failed.
ChangeSteps ==
  ({"create", "join", "abortafter", "spin", "execute", "queues", "assert", "destroy",
    "reject", "invalid"} \X {NULL})
    \cup ({"ready", "ready-wait", "dealloc"} \X SUBSET Ports)
    \cup ({"return"} \X Ports) \cup ({"disabled"} \X Targets)
    \cup ({"reset"} \X {"idle", "flush"}) \cup ({"state"} \X States)
EnableSteps == ({"populated", "populated-wait"} \X SUBSET Ports) \cup ({"enabled"} \X Ports)
DecodeSteps ==
  ({"extra", "data", "empty", "tail", "finish"} \X {NULL})
    \cup ({"register", "no-buffer"} \X (1 .. CountMin))
FailSteps == {"join", "abortafter", "failed"} \X {NULL}

OutputPCs ==
  {"none", "start", "loop", "get", "frame", "check", "find", "deliver", "pop", "eos",
   "eosdeliver", "eospop", "flushed", "exit", "assert"}

\* The types of OMX_DECODER, SHARED_DATA, a port, the codec and the threads
DecType ==
  [state : States, trans : States, run : BOOLEAN, release : BOOLEAN, reconf : BOOLEAN,
   extra : BOOLEAN, disabling : BOOLEAN, prev : Maybe(InBufs), list : [Slots -> Maybe(OutBufs)]]
SharedType ==
  [eos : BOOLEAN, inbuff : Maybe(InBufs), outRun : BOOLEAN, thread : BOOLEAN,
   hasFrame : BOOLEAN, eosAddr : Maybe(OutBufs)]
PortType(p) ==
  [buffers : Seq(Bufs(p)), bcap : Nat, queue : Seq(Bufs(p)), qcap : Nat,
   event : BOOLEAN, enabled : BOOLEAN, populated : BOOLEAN]
CodecType ==
  [made : BOOLEAN, phase : {"hdr", "wait", "run"}, aborted : BOOLEAN, eos : BOOLEAN,
   flush : BOOLEAN, need : BOOLEAN, free : SUBSET OutBufs, pics : Seq(OutBufs),
   shown : SUBSET OutBufs]
ClientType ==
  [pc : {"idle", "sending", "pushing", "consuming"}, cmd : Maybe(Commands),
   buf : Maybe(OutBufs), held : SUBSET (InBufs \cup OutBufs), eosBuf : Maybe(InBufs)]
CompType ==
  [pc : {"loop", "drain"}, buf : Maybe(InBufs),
   todo : Seq(ChangeSteps) \cup Seq(EnableSteps) \cup Seq(DecodeSteps) \cup Seq(FailSteps)]
OutputType ==
  [pc : OutputPCs, frm : Maybe(OutBufs), idx : Nat, inbuff : Maybe(InBufs)]

\* The fields of OMX_DECODER, SHARED_DATA, the ports and the codec have their
\* types, and the component thread follows a plan of one kind.
TypeOK ==
  /\ dec \in DecType /\ sd \in SharedType
  /\ DOMAIN port = Ports /\ \A p \in Ports : port[p] \in PortType(p)
  /\ codec \in CodecType /\ cmdq \in Seq(Commands)
  /\ cli \in ClientType /\ comp \in CompType /\ out \in OutputType
-----------------------------------------------------------------------------
(* Who has a buffer *)

Queued(p) == Range(port[p].queue)

\* The output thread has handed this buffer to the client and not yet taken it
\* out of the queue.
Delivering == IF out.pc \in {"pop", "eospop"} THEN {out.frm} ELSE {}

\* A buffer the client holds is not queued in the component, nor kept as
\* prevBuffer, nor queued twice: nobody writes a buffer that somebody else owns.
OneOwner ==
  /\ cli.held \cap ((Queued("in") \cup Queued("out") \cup {dec.prev}) \ Delivering) = {}
  /\ dec.prev \notin Queued("in")
  /\ \A p \in Ports : \A i, j \in DOMAIN port[p].queue :
       i # j /\ port[p].queue[i] = port[p].queue[j] => port[p].queue[i] \in Delivering

\* Every allocated buffer is with the client, queued, on its way into the queue
\* (decoder_fill_this_buffer) or prevBuffer: none is lost when the queue is
\* cleared (async_decoder_return_buffers) or popped by index (pop_buffer_at).
NoneLost ==
  \A p \in Ports : Range(port[p].buffers) \subseteq
     cli.held \cup Queued(p) \cup {cli.buf, dec.prev}

\* The codec decodes only into buffers the component has: those it was given by
\* setframebuffer and has not output are queued on the out port, or being
\* queued.  After an abort or the end of the stream it decodes no more.
CodecWritesQueued ==
  ~codec.eos /\ ~codec.aborted =>
     codec.free \cup Range(codec.pics) \subseteq Queued("out") \cup {cli.buf}

\* OMX_StateIdle promises that the component has returned every buffer, those
\* in the codec and prevBuffer included (transition_to_idle_from_executing).
IdleHoldsNothing ==
  dec.state = "Idle" /\ dec.trans # "Executing" =>
    \A p \in Ports : Range(port[p].buffers) \subseteq cli.held

-----------------------------------------------------------------------------
(* The three threads *)

\* No DBGT_ASSERT of the modelled paths fails: a frame from the codec is found
\* in the out port's queue, the index popped is in the queue, and nothing is
\* queued when the component goes to Loaded.
NoAssertFails == out.pc # "assert" /\ ~At("assert")

\* The output thread calls the codec without a lock or a check: there is a codec
\* as long as the thread runs (transition_to_loaded_from_idle destroys it).
CodecOutlivesOutput == out.pc # "none" => codec.made

\* pthread_join of the output thread is called when the thread ends: it has
\* been told to by releaseBuffers or by an abort of the codec, or is leaving.
JoinWillEnd ==
  At("join") /\ sd.thread /\ out.pc # "none" =>
    dec.release \/ codec.aborted \/ out.pc \in {"exit", "eosdeliver", "eospop"}

\* There is no output thread, or the codec will never have a frame for it.
OutputStuck ==
  \/ out.pc = "none"
  \/ out.pc = "get" /\ ~codec.aborted /\ ~codec.flush /\ ~codec.eos /\ codec.pics = <<>>

\* async_decoder_return_buffers spins on hasFrame only while the output thread
\* may still clear it.
SpinWillEnd == At("spin") /\ sd.hasFrame => ~OutputStuck

\* While the component thread returns the buffers of the out port, the output
\* thread has no frame to deliver from them: what hasFrame is for.
ReturnAlone ==
  At("return") /\ Arg = "out" =>
    out.pc \notin {"frame", "check", "find", "deliver", "pop", "eosdeliver", "eospop"}

-----------------------------------------------------------------------------
(* What holds whatever the client and the stream do *)

InFlight == Range(cmdq) \cup {cli.cmd}

\* statetrans differs from state only while the command that will make them
\* equal, or report an error, is on its way: a component that refuses every
\* further OMX_CommandStateSet ("Transition is already pending") has one pending.
TransitionPending ==
  dec.trans # dec.state /\ dec.state # "Invalid" =>
    \/ <<"StateSet", dec.trans>> \in InFlight
    \/ \E i \in DOMAIN comp.todo :
         \/ comp.todo[i] = <<"state", dec.trans>>
         \/ comp.todo[i][1] \in {"reject", "invalid", "assert", "failed"}

\* bufferevent of a port is set exactly when buffers are queued: the component
\* thread neither sleeps on a queued buffer nor spins on an empty queue.
EventsInStep == \A p \in Ports : EventInStep(port[p])

-----------------------------------------------------------------------------
(* What must eventually happen *)

\* Every command that is sent is executed, or the component becomes invalid.
CommandsComplete ==
  (cmdq # <<>>) ~> (dec.state = "Invalid" \/ (cmdq = <<>> /\ comp.pc = "loop"))

\* A buffer with the EOS flag leads to the EOS event, unless the stream is
\* flushed or stopped first, or waits for the client to reconfigure the port.
StreamEnds ==
  (cli.eosBuf # NULL) ~> (cli.eosBuf = NULL \/ sd.eos \/ dec.reconf \/ dec.state = "Invalid")
=============================================================================
