--------------------------- MODULE EncoderControl ---------------------------
(***************************************************************************)
(* The video encoder component (encoder/encoder.c) on the VC8000E codec    *)
(* (encoder_vc8000e.c).  Two threads work on it: the IL client inside an   *)
(* API call, and the component thread that executes commands and encodes.  *)
(*                                                                         *)
(* The codec encodes pictures out of order, so the component numbers the   *)
(* input buffers (frame_id), asks the in port for the picture the codec    *)
(* wants next (enc_next_pic_id), and gives an input buffer back only when  *)
(* the codec has gone OMX_MAX_GOP_SIZE pictures beyond it.                 *)
(*                                                                         *)
(* Ports are not tunneled and are numbered from 1, as are their buffers.   *)
(* An input buffer holds one frame or, to end the stream, none.  A step    *)
(* ends where the other thread can get in: at a lock, a wait, a callback.  *)
(*                                                                         *)
(* This module has the state, the client and the commands; module Encoder  *)
(* adds what is done with the frames.                                      *)
(***************************************************************************)
EXTENDS Port, Integers, FiniteSets

CONSTANTS NIn, NOut,     \* nBufferCountActual of the ports
          MaxGop,        \* OMX_MAX_GOP_SIZE
          GopSizes,      \* sizes of the groups of pictures the codec chooses from
          Legal,         \* set of <<state, command>>: what the client may ask for when
          Allow,         \* the Liberties of this instance
          MaxFrames,     \* bound on the frames of a stream
          MaxBroken      \* the length from which the client gives up a stream that is
                         \* no longer whole (see NewStream) and stops the component

States == {"Loaded", "Idle", "Executing", "Pause", "WaitForResources", "Invalid"}
Ports == {"in", "out"}
Targets == {"in", "out", "all"}
Commands == ({"StateSet"} \X States) \cup
            ({"Flush", "PortDisable", "PortEnable"} \X Targets)

\* again: the client loads the component again and encodes a second stream
\* error: the codec reports errors, or discards a frame
\* refill: EmptyBufferDone and FillBufferDone hand buffers over to the port whose
\* buffers are being returned
Liberties == {"again", "error", "refill"}

ASSUME EncoderConstantsOK ==
  /\ NOut \in Nat \ {0} /\ MaxGop \in Nat \ {0} /\ NIn \in Nat /\ NIn > MaxGop
  /\ GopSizes # {} /\ GopSizes \subseteq 1 .. MaxGop
  /\ Legal \subseteq States \X Commands
  /\ Allow \subseteq Liberties
  /\ MaxFrames \in Nat /\ MaxBroken \in Nat

VARIABLES
  enc,    \* OMX_ENCODER: state, trans, run, started (streamStarted), inId (in_frame_id),
          \* next and curr (enc_next_pic_id, enc_curr_pic_id), eos (input_eos);
          \* mine: the client lets the component allocate the input buffers
  port,   \* inputPort and outputPort
  frame,  \* frame_id, EOS flag and contents of the input buffers
  codec,  \* the codec instance
  cmdq,   \* base.queue
  cli,    \* the client: the command it waits for, the buffers it holds
  comp,   \* the component thread
  hist    \* history of the stream: frames handed over, the last of them, those
          \* encoded, whether its end was delivered, whole: see NewStream

vars == <<enc, port, frame, codec, cmdq, cli, comp, hist>>

NoId == -1      \* 0xFFFFFFFF
NoCmd == <<>>
Count(p) == IF p = "in" THEN NIn ELSE NOut
PortsOf(t) == IF t = "all" THEN Ports ELSE {t}

\* EmptyBufferDone, FillBufferDone; what an input buffer held is forgotten.
NoFrameIn == [id |-> NoId, eos |-> FALSE, full |-> FALSE]
Give(p, bs) == [cli EXCEPT !.held[p] = @ \cup bs]
Emptied(bs) == [b \in 1 .. NIn |-> IF b \in bs THEN NoFrameIn ELSE frame[b]]

\* A stream is whole until the client interrupts it with a command, the codec or
\* the component fails, or the codec discards a frame.
NewStream == [n |-> 0, last |-> NoId, encoded |-> {}, done |-> FALSE, whole |-> TRUE]
NotWhole == [NewStream EXCEPT !.n = hist.n, !.last = hist.last, !.whole = FALSE]
-----------------------------------------------------------------------------
(* The codec.  cnt: picture_cnt; the pictures left in the current group; end: *)
(* the last picture of the group.  phase is encStatus of the library.        *)

NoCodec == [made |-> FALSE, phase |-> "init", cnt |-> 0, left |-> {}, end |-> 0]

\* VCEncStrmStart is refused between the start of a stream and its first frame.
CanStart(c) == c.phase # "stream"

\* VCEncFindNextPic: a group is encoded from its last picture on, the others
\* follow in the order of the group's configuration.
FindNextPic(c) ==
  IF c.left # {}
  THEN {[c EXCEPT !.phase = "frame", !.cnt = n, !.left = @ \ {n}] : n \in c.left}
  ELSE {[c EXCEPT !.phase = "frame", !.cnt = c.end + g, !.end = c.end + g,
                  !.left = c.end + 1 .. c.end + g - 1] : g \in GopSizes}

\* picture_cnt++ without VCEncFindNextPic: the whole plan moves by one.
SkipPic(c) ==
  [c EXCEPT !.phase = "frame", !.cnt = @ + 1, !.end = @ + 1, !.left = {n + 1 : n \in @}]
-----------------------------------------------------------------------------
AtLoop == [pc |-> "loop", sig |-> FALSE, todo |-> <<>>, buf |-> 0, pic |-> 0]

Init ==
  /\ \E m \in BOOLEAN :
       enc = [state |-> "Loaded", trans |-> "Loaded", run |-> TRUE, started |-> FALSE,
              inId |-> 0, next |-> NoId, curr |-> 0, eos |-> FALSE, mine |-> m]
  /\ port = [p \in Ports |-> NewPort(Count(p))]
  /\ frame = [b \in 1 .. NIn |-> NoFrameIn]
  /\ codec = NoCodec
  /\ cmdq = <<>>
  /\ cli = [pc |-> "idle", cmd |-> NoCmd, held |-> [p \in Ports |-> {}]]
  /\ comp = AtLoop
  /\ hist = NewStream
-----------------------------------------------------------------------------
(* The client *)

\* The buffers of a port are interchangeable: the client uses the lowest it holds.
Held(p) == Min(cli.held[p])
Take(p) == [cli EXCEPT !.held[p] = @ \ {Held(p)}]

\* A stream that has begun is interrupted by every command but pause and resume.
Interrupts(c) ==
  hist.n > 0 /\ ~(c[1] = "StateSet" /\ c[2] \in {"Executing", "Pause"})

\* encoder_send_command up to the call of basecomp_send_command.  The client
\* disables ports that are enabled and the other way round.
SendFlags(c) ==
  CASE c[1] = "StateSet" ->
         /\ enc.trans = enc.state
         /\ enc' = [enc EXCEPT !.trans = c[2]]
         /\ UNCHANGED port
    [] c[1] = "PortDisable" ->
         /\ \A p \in PortsOf(c[2]) : port[p].enabled
         /\ port' = [p \in Ports |-> [port[p] EXCEPT !.enabled = @ /\ p \notin PortsOf(c[2])]]
         /\ UNCHANGED enc
    [] c[1] = "PortEnable" ->
         /\ \A p \in PortsOf(c[2]) : ~port[p].enabled
         /\ port' = [p \in Ports |-> [port[p] EXCEPT !.enabled = @ \/ p \in PortsOf(c[2])]]
         /\ UNCHANGED enc
    [] OTHER -> UNCHANGED <<enc, port>>

SendCommand(c) ==
  /\ cli.pc = "idle" /\ cli.cmd = NoCmd /\ <<enc.state, c>> \in Legal
  /\ hist.whole \/ hist.n < MaxBroken \/ c \in {"StateSet"} \X {"Idle", "Loaded"}
  /\ enc.state = "Loaded" /\ hist.n > 0 => "again" \in Allow
  /\ SendFlags(c)
  /\ cli' = [cli EXCEPT !.pc = "sending", !.cmd = c]
  /\ hist' = IF Interrupts(c) THEN NotWhole ELSE hist
  /\ UNCHANGED <<frame, codec, cmdq, comp>>

\* HantroOmx_basecomp_send_command
SendQueue ==
  /\ cli.pc = "sending"
  /\ cmdq' = Append(cmdq, cli.cmd)
  /\ cli' = [cli EXCEPT !.pc = "idle"]
  /\ UNCHANGED <<enc, port, frame, codec, comp, hist>>

\* encoder_use_buffer, encoder_allocate_buffer.  The client allocates for enabled
\* ports, and not while it unloads.
UseBuffer(p) ==
  /\ cli.pc = "idle" /\ port[p].enabled /\ ~port[p].populated
  /\ \/ enc.state = "Loaded" /\ enc.trans = "Idle"
     \/ enc.state \in {"Idle", "Executing"} /\ enc.trans # "Loaded"
  /\ LET b == CHOOSE n \in 1 .. Count(p) : ~Contains(port[p].buffers, n)
         q == AllocateNextBuffer(port[p], b)
     IN /\ port' = [port EXCEPT ![p] = [q EXCEPT !.populated = Len(q.buffers) = Count(p)]]
        /\ cli' = Give(p, {b})
  /\ UNCHANGED <<enc, frame, codec, cmdq, comp, hist>>

\* encoder_free_buffer
FreeBuffer(p) ==
  /\ cli.pc = "idle" /\ cli.held[p] # {}
  /\ ~port[p].enabled \/ (enc.state = "Idle" /\ enc.trans = "Loaded")
  /\ LET b == Held(p)
     IN port' = [port EXCEPT ![p] =
                   [RemoveBufferAt(@, FindBuffer(@, b)) EXCEPT !.populated = FALSE]]
  /\ cli' = Take(p)
  /\ UNCHANGED <<enc, frame, codec, cmdq, comp, hist>>

\* The client hands buffers over while it waits for no command.
MayHandOver(p) ==
  /\ cli.pc = "idle" /\ cli.cmd = NoCmd
  /\ port[p].enabled /\ enc.state \in {"Executing", "Pause"}
MayPush(p) == MayHandOver(p) /\ cli.held[p] # {}

\* encoder_push_buffer of the out port
FillThisBuffer ==
  /\ MayPush("out")
  /\ port' = [port EXCEPT !["out"] = PushBuffer(@, Held("out"))]
  /\ cli' = Take("out")
  /\ UNCHANGED <<enc, frame, codec, cmdq, comp, hist>>

\* k buffers of the stream are numbered, the last of them may end it.
Send(k, eos) ==
  LET h == IF hist.done /\ "again" \in Allow THEN NewStream ELSE hist
  IN /\ h.last = NoId /\ h.n + k <= (IF h.whole THEN MaxFrames ELSE MaxBroken)
     /\ enc' = [enc EXCEPT !.inId = @ + k, !.eos = @ \/ eos]
     /\ hist' = [h EXCEPT !.n = @ + k, !.last = IF eos THEN h.n + k - 1 ELSE NoId]

\* encoder_push_buffer of the in port.  full: the buffer holds a frame; only
\* the buffer that ends the stream may hold none.
EmptyThisBuffer(eos, full) ==
  LET b == Held("in")
  IN /\ MayPush("in") /\ (full \/ eos)
     /\ Send(1, eos)
     /\ frame' = [frame EXCEPT ![b] = [id |-> enc.inId, eos |-> eos, full |-> full]]
     /\ port' = [port EXCEPT !["in"] = PushBuffer(@, b)]
     /\ cli' = Take("in")
     /\ UNCHANGED <<codec, cmdq, comp>>
-----------------------------------------------------------------------------
(* The component thread: its loop and the commands.  A handler is a plan, the *)
(* steps it has left.                                                        *)

\* async_encoder_set_state and the transitions it calls
StatePlan(t) ==
  LET s == enc.state IN
  CASE s = t -> <<<<"done">>>>
    [] s = "Loaded" /\ t = "Idle" -> <<<<"ready", Ports>>, <<"create">>, <<"state", t>>>>
    [] s = "Pause" /\ t = "Idle" -> <<<<"return", "in">>, <<"return", "out">>, <<"state", t>>>>
    [] s = "Executing" /\ t = "Idle" ->
         <<<<"return", "in">>, <<"return", "out">>, <<"stop">>, <<"state", t>>>>
    [] s = "Idle" /\ t = "Loaded" -> <<<<"empty">>, <<"freed", Ports>>, <<"destroy">>, <<"state", t>>>>
    [] s \in {"Idle", "Pause"} /\ t = "Executing" -> <<<<"state", t>>>>
    [] s \in {"Idle", "Executing"} /\ t = "Pause" -> <<<<"state", t>>>>
    [] {s, t} = {"Loaded", "WaitForResources"} -> <<<<"state", t>>>>
    [] t = "Invalid" /\ s # t -> <<<<"invalid">>>>
    [] OTHER -> <<<<"reject">>>>

\* async_encoder_flush_port, async_encoder_disable_port, async_encoder_enable_port
ReturnPlan(t) ==
  IF t = "all" THEN <<<<"return", "in">>, <<"return", "out">>>> ELSE <<<<"return", t>>>>

Plan(c) ==
  CASE c[1] = "StateSet" -> StatePlan(c[2])
    [] c[1] = "Flush" -> ReturnPlan(c[2]) \o <<<<"done">>>>
    [] c[1] = "PortDisable" -> ReturnPlan(c[2]) \o <<<<"freed", PortsOf(c[2])>>, <<"done">>>>
    [] c[1] = "PortEnable" ->
         (IF enc.state = "Loaded" THEN <<>> ELSE <<<<"ready", PortsOf(c[2])>>>>) \o <<<<"done">>>>

\* encoder_thread_main waits for its two events, drains the queue if there is a
\* command, and then encodes if there was a buffer when it woke up.
LoopWake ==
  /\ comp.pc = "loop" /\ enc.run
  /\ cmdq # <<>> \/ port["in"].event
  /\ comp' = IF cmdq # <<>> THEN [AtLoop EXCEPT !.pc = "cmd", !.sig = port["in"].event]
             ELSE IF enc.state = "Executing" THEN [AtLoop EXCEPT !.pc = "start"]
             ELSE AtLoop
  /\ UNCHANGED <<enc, port, frame, codec, cmdq, cli, hist>>

LoopFetch ==
  /\ comp.pc = "cmd" /\ comp.todo = <<>> /\ cmdq # <<>>
  /\ comp' = [comp EXCEPT !.todo = Plan(Head(cmdq))]
  /\ cmdq' = Tail(cmdq)
  /\ UNCHANGED <<enc, port, frame, codec, cli, hist>>

LoopDrained ==
  /\ comp.pc = "cmd" /\ comp.todo = <<>> /\ cmdq = <<>>
  /\ comp' = [AtLoop EXCEPT !.pc = IF comp.sig /\ enc.state = "Executing" THEN "start" ELSE @]
  /\ UNCHANGED <<enc, port, frame, codec, cmdq, cli, hist>>

At(step) == comp.pc = "cmd" /\ comp.todo # <<>> /\ comp.todo[1][1] = step
Arg == comp.todo[1][2]
StepDone == comp' = [comp EXCEPT !.todo = Tail(@)]

\* The component becomes invalid and its thread leaves the loop.
Invalid ==
  /\ enc' = [enc EXCEPT !.state = "Invalid", !.run = FALSE]
  /\ comp' = AtLoop
  /\ hist' = NotWhole

\* Mutant of ReturnBuffers: the out port keeps its buffers.
ReturnBuffers_KeepOut ==
  /\ At("return") /\ StepDone
  /\ LET bs == ToSet(port["in"].queue)
     IN cli' = Give("in", bs) /\ frame' = Emptied(bs)
  /\ port' = [port EXCEPT !["in"] = QueueClear(@)]
  /\ UNCHANGED <<enc, codec, cmdq, hist>>

\* The sets of buffers of port p that the client may hand over from the callbacks
\* of ReturnBuffers
Refills(p) ==
  IF "refill" \in Allow /\ MayHandOver(p)
  THEN SUBSET (cli.held[p] \cup ToSet(port[p].queue)) ELSE {{}}

\* async_encoder_return_buffers: as many callbacks as there were buffers, then the
\* queue is cleared.  Both happen under the lock of the port, which keeps out all
\* other threads, but not the client in the callback: the lock is recursive.  What
\* is handed over there is cleared away, and no one has it any more.
ReturnBuffers ==
  /\ At("return") /\ StepDone
  /\ LET bs == ToSet(port[Arg].queue)
     IN /\ \E lost \in Refills(Arg) :
             /\ cli' = [cli EXCEPT !.held[Arg] = (@ \cup bs) \ lost]
             /\ IF Arg = "in" /\ lost # {}
                THEN \E eos \in BOOLEAN : Send(Cardinality(lost), eos)
                ELSE UNCHANGED <<enc, hist>>
        /\ frame' = IF Arg = "in" THEN Emptied(bs) ELSE frame
  /\ port' = [port EXCEPT ![Arg] = QueueClear(@)]
  /\ UNCHANGED <<codec, cmdq>>

\* The wait for the buffers of a port to be allocated, or freed
WaitReady ==
  /\ At("ready") /\ StepDone
  /\ \A p \in Arg : port[p].enabled => port[p].populated
  /\ UNCHANGED <<enc, port, frame, codec, cmdq, cli, hist>>

WaitFreed ==
  /\ At("freed") /\ StepDone
  /\ \A p \in Arg : port[p].buffers = <<>>
  /\ UNCHANGED <<enc, port, frame, codec, cmdq, cli, hist>>

\* transition_to_idle_from_loaded creates the codec and the frame buffers.
CreateCodec ==
  /\ At("create") /\ StepDone
  /\ codec' = [NoCodec EXCEPT !.made = TRUE]
  /\ UNCHANGED <<enc, port, frame, cmdq, cli, hist>>

CreateFails ==
  /\ At("create") /\ "error" \in Allow
  /\ Invalid
  /\ UNCHANGED <<port, frame, codec, cmdq, cli>>

\* transition_to_loaded_from_idle: DBGT_ASSERT(... buffer_queue_count == 0)
AssertEmpty ==
  /\ At("empty")
  /\ IF \A p \in Ports : port[p].queue = <<>> THEN StepDone
     ELSE comp' = [comp EXCEPT !.pc = "assert"]
  /\ UNCHANGED <<enc, port, frame, codec, cmdq, cli, hist>>

DestroyCodec ==
  /\ At("destroy") /\ StepDone
  /\ codec' = NoCodec
  /\ UNCHANGED <<enc, port, frame, cmdq, cli, hist>>

\* transition_to_idle_from_executing; the codec is not told.
StopStream ==
  /\ At("stop") /\ StepDone
  /\ enc' = [enc EXCEPT !.started = FALSE]
  /\ UNCHANGED <<port, frame, codec, cmdq, cli, hist>>

\* The end of a command: its event, and for a transition the new state
SetState ==
  /\ At("state") /\ StepDone
  /\ enc' = [enc EXCEPT !.state = Arg, !.trans = Arg]
  /\ cli' = [cli EXCEPT !.cmd = NoCmd]
  /\ UNCHANGED <<port, frame, codec, cmdq, hist>>

RejectState ==
  /\ At("reject") /\ StepDone
  /\ enc' = [enc EXCEPT !.trans = enc.state]
  /\ cli' = [cli EXCEPT !.cmd = NoCmd]
  /\ UNCHANGED <<port, frame, codec, cmdq, hist>>

SetInvalid ==
  /\ At("invalid")
  /\ Invalid
  /\ UNCHANGED <<port, frame, codec, cmdq, cli>>

CommandDone ==
  /\ At("done") /\ StepDone
  /\ cli' = [cli EXCEPT !.cmd = NoCmd]
  /\ UNCHANGED <<enc, port, frame, codec, cmdq, hist>>

CommandNext ==
  \/ LoopWake \/ LoopFetch \/ LoopDrained
  \/ ReturnBuffers \/ WaitReady \/ WaitFreed \/ CreateCodec \/ CreateFails
  \/ AssertEmpty \/ DestroyCodec \/ StopStream
  \/ SetState \/ RejectState \/ SetInvalid \/ CommandDone
=============================================================================
