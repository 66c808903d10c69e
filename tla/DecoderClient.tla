---------------------------- MODULE DecoderClient ---------------------------
(***************************************************************************)
(* The calls an IL client makes on a decoder, one at a time.  SendCommand  *)
(* changes flags that the other threads read BEFORE it queues the command, *)
(* so it takes two steps; FillThisBuffer registers the buffer with the     *)
(* codec, queues it, and marks its picture consumed, in three.             *)
(*                                                                         *)
(* The client keeps to the rules of OpenMAX IL: it hands over and frees    *)
(* only buffers it holds, allocates on an enabled port that is not         *)
(* populated, and frees when going to Loaded or on a disabled port.        *)
(***************************************************************************)
EXTENDS DecoderState

\* No command is queued or being executed, or the client does not care.
CommandsDone == (cmdq = <<>> /\ comp.pc = "loop") \/ "pipeline" \in Allow

\* Mutant of SendFlags: neither releaseBuffers nor abort.
SendFlags_NoAbort(c) ==
  /\ c[1] = "StateSet" => dec.trans = dec.state
  /\ dec' = IF c[1] = "StateSet" THEN [dec EXCEPT !.trans = c[2]] ELSE dec
  /\ UNCHANGED <<port, codec>>

\* decoder_send_command up to the call of basecomp_send_command
SendFlags(c) ==
  LET t == c[2] IN
  CASE c[1] = "StateSet" ->
         /\ dec.trans = dec.state
         /\ IF t = "Idle" /\ dec.state = "Executing"
              THEN /\ dec' = [dec EXCEPT !.trans = t, !.release = TRUE]
                   /\ codec' = Abort(codec)
              ELSE dec' = [dec EXCEPT !.trans = t] /\ UNCHANGED codec
         /\ UNCHANGED port
    [] c[1] = "Flush" ->
         /\ codec.made
         /\ dec' = [dec EXCEPT !.release = TRUE]
         /\ codec' = Abort(codec)
         /\ UNCHANGED port
    [] c[1] = "PortDisable" ->
         /\ port' = [p \in Ports |-> [port[p] EXCEPT !.enabled = @ /\ p \notin PortsOf(t)]]
         /\ dec' = [dec EXCEPT !.disabling = @ \/ "out" \in PortsOf(t)]
         /\ UNCHANGED codec
    [] c[1] = "PortEnable" ->
         /\ port' = [p \in Ports |-> [port[p] EXCEPT !.enabled = @ \/ p \in PortsOf(t)]]
         /\ UNCHANGED <<dec, codec>>

\* A port is disabled when it is enabled and enabled when it is disabled, and
\* both to answer OMX_EventPortSettingsChanged.
PortCommandFits(c) ==
  /\ c[1] = "PortDisable" => \A p \in PortsOf(c[2]) : port[p].enabled
  /\ c[1] = "PortEnable" => \A p \in PortsOf(c[2]) : ~port[p].enabled
  /\ c[1] \in {"PortDisable", "PortEnable"} => dec.reconf \/ "disable" \in Allow

SendCommand(c) ==
  /\ cli.pc = "idle" /\ dec.state # "Invalid"
  /\ <<dec.state, c>> \in Legal
  /\ PortCommandFits(c) /\ CommandsDone
  /\ Len(cmdq) < MaxQueue
  /\ SendFlags(c)
  /\ cli' = [cli EXCEPT !.pc = "sending", !.cmd = c]
  /\ UNCHANGED <<sd, cmdq, comp, out>>

\* HantroOmx_basecomp_send_command
SendQueue ==
  /\ cli.pc = "sending"
  /\ cmdq' = Append(cmdq, cli.cmd)
  /\ cli' = [cli EXCEPT !.pc = "idle", !.cmd = NULL]
  /\ UNCHANGED <<dec, sd, port, codec, comp, out>>
-----------------------------------------------------------------------------
\* decoder_allocate_buffer, decoder_use_buffer.  The buffer that completes
\* the port makes it populated.
MayAllocate(p) ==
  /\ port[p].enabled /\ ~port[p].populated
  /\ \/ dec.state = "Loaded" /\ dec.trans = "Idle"
     \/ dec.state \in {"Idle", "Executing"} /\ dec.trans = dec.state

AllocateBuffer(p, b) ==
  /\ cli.pc = "idle" /\ MayAllocate(p)
  /\ b \in Bufs(p) \ Range(port[p].buffers)
  /\ LET q == AllocateNextBuffer(port[p], b)
     IN port' = [port EXCEPT ![p] =
          [q EXCEPT !.populated = @ \/ Len(q.buffers) = Cardinality(Bufs(p))]]
  /\ cli' = [cli EXCEPT !.held = @ \cup {b}]
  /\ UNCHANGED <<dec, sd, codec, cmdq, comp, out>>

\* decoder_free_buffer: no lock, no look at the queue.
MayFree(p) == ~port[p].enabled \/ (dec.state = "Idle" /\ dec.trans = "Loaded")

FreeBuffer(p, b) ==
  /\ cli.pc = "idle" /\ MayFree(p)
  /\ b \in cli.held \cap Range(port[p].buffers)
  /\ port' = [port EXCEPT ![p] =
       [RemoveBufferAt(@, FindBuffer(@, b)) EXCEPT !.populated = FALSE]]
  /\ cli' = [cli EXCEPT !.held = @ \ {b}]
  /\ UNCHANGED <<dec, sd, codec, cmdq, comp, out>>
-----------------------------------------------------------------------------
\* The client hands buffers over on an enabled port in a state it knows of.
MayFill(p) ==
  /\ port[p].enabled /\ dec.trans = dec.state /\ dec.state \in FillStates
  /\ CommandsDone

\* decoder_empty_this_buffer; the last buffer of a stream carries the EOS
\* flag, and nothing follows it until the component was flushed or stopped.
EmptyThisBuffer(b) ==
  /\ cli.pc = "idle" /\ MayFill("in") /\ b \in cli.held \cap InBufs
  /\ cli.eosBuf = NULL
  /\ port' = [port EXCEPT !["in"] = PushBuffer(@, b)]
  /\ \E last \in BOOLEAN :
       cli' = [cli EXCEPT !.held = @ \ {b}, !.eosBuf = IF last THEN b ELSE NULL]
  /\ UNCHANGED <<dec, sd, codec, cmdq, comp, out>>

\* decoder_fill_this_buffer: while checkExtraBuffers is set, a buffer that is
\* not in outputBufList takes its first empty slot and is registered.
Registers(b) ==
  dec.extra /\ \E i \in Slots : dec.list[i] = NULL /\ \A j \in 1 .. i : dec.list[j] # b

FillThisBuffer(b) ==
  /\ cli.pc = "idle" /\ MayFill("out") /\ b \in cli.held \cap OutBufs
  /\ cli' = [cli EXCEPT !.pc = "pushing", !.buf = b, !.held = @ \ {b}]
  /\ IF Registers(b)
       THEN LET free == {i \in Slots : dec.list[i] = NULL}
                slot == CHOOSE i \in free : \A j \in free : i <= j
            IN /\ dec' = [dec EXCEPT !.list[slot] = b]
               /\ codec' = SetFrameBuffer(codec, b)
       ELSE UNCHANGED <<dec, codec>>
  /\ UNCHANGED <<sd, port, cmdq, comp, out>>

\* decoder_push_buffer
FillPush ==
  /\ cli.pc = "pushing"
  /\ port' = [port EXCEPT !["out"] = PushBuffer(@, cli.buf)]
  /\ cli' = [cli EXCEPT !.pc = "consuming"]
  /\ UNCHANGED <<dec, sd, codec, cmdq, comp, out>>

\* Mutant of FillConsume: pictureconsumed is not called.
FillConsume_NoConsume ==
  /\ cli.pc = "consuming"
  /\ cli' = [cli EXCEPT !.pc = "idle", !.buf = NULL]
  /\ UNCHANGED <<dec, sd, port, codec, cmdq, comp, out>>

FillConsume ==
  /\ cli.pc = "consuming"
  /\ sd' = [sd EXCEPT !.eosAddr = IF @ = cli.buf THEN NULL ELSE @]
  /\ codec' = IF sd.eosAddr # cli.buf /\ dec.extra
              THEN PictureConsumed(codec, cli.buf) ELSE codec
  /\ cli' = [cli EXCEPT !.pc = "idle", !.buf = NULL]
  /\ UNCHANGED <<dec, port, cmdq, comp, out>>

ClientNext ==
  \/ \E c \in Commands : SendCommand(c)
  \/ SendQueue
  \/ \E p \in Ports : \E b \in Bufs(p) : AllocateBuffer(p, b) \/ FreeBuffer(p, b)
  \/ \E b \in InBufs : EmptyThisBuffer(b)
  \/ \E b \in OutBufs : FillThisBuffer(b)
  \/ FillPush \/ FillConsume
=============================================================================
