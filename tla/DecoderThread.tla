---------------------------- MODULE DecoderThread ---------------------------
(***************************************************************************)
(* The component thread of a decoder: decoder_thread_main, the command     *)
(* handlers async_decoder_* and the decoding of input buffers.             *)
(*                                                                         *)
(* A handler is a plan: the sequence comp.todo of the steps it has left,   *)
(* each a pair of a name and an argument.  A step ends where the other     *)
(* threads can interfere: at a wait, a join, a lock or a callback.         *)
(***************************************************************************)
EXTENDS DecoderState

At(op) == comp.todo # <<>> /\ Head(comp.todo)[1] = op
Step(ops) == Undisturbed /\ \E op \in ops : At(op)
Arg == Head(comp.todo)[2]
Done == comp' = [comp EXCEPT !.todo = Tail(@)]
Continue(steps) == comp' = [comp EXCEPT !.todo = steps]

-----------------------------------------------------------------------------
(* The plans of the command handlers *)

ReturnIn == <<<<"return", "in">>>>
ReturnOut == <<<<"spin", NULL>>, <<"return", "out">>>>
JoinAndAbort == <<<<"join", NULL>>, <<"abortafter", NULL>>>>

\* async_decoder_set_state: the switch over the next state and the state
StatePlan(s) ==
  LET from == dec.state
      done == <<<<"state", s>>>> IN
  CASE s = from -> <<>>
    [] from = "Loaded" /\ s = "Idle" ->
         <<<<"ready", Ports>>, <<"create", NULL>>>> \o done
    [] from = "Pause" /\ s = "Idle" -> ReturnIn \o ReturnOut \o done
    [] from = "Executing" /\ s = "Idle" ->
         JoinAndAbort \o ReturnIn \o ReturnOut \o <<<<"reset", "idle">>>> \o done
    [] from = "Idle" /\ s = "Loaded" ->
         <<<<"queues", NULL>>, <<"dealloc", Ports>>, <<"destroy", NULL>>>> \o done
    [] from = "Idle" /\ s = "Executing" -> <<<<"execute", NULL>>>> \o done
    [] <<from, s>> \in {<<"Pause", "Executing">>, <<"Idle", "Pause">>,
                        <<"Executing", "Pause">>, <<"Loaded", "WaitForResources">>,
                        <<"WaitForResources", "Loaded">>} -> done
    [] s = "Invalid" /\ from # "Invalid" -> <<<<"invalid", NULL>>>>
    [] OTHER -> <<<<"reject", NULL>>>>

\* async_decoder_flush_port
FlushPlan(t) ==
  CASE t = "all" -> JoinAndAbort \o ReturnIn \o ReturnOut \o <<<<"reset", "flush">>>>
    [] t = "in"  -> ReturnIn
    [] t = "out" -> ReturnOut

\* async_decoder_disable_port
DisablePlan(t) ==
  (IF "in" \in PortsOf(t) THEN ReturnIn ELSE <<>>)
    \o (IF "out" \in PortsOf(t) THEN ReturnOut ELSE <<>>)
    \o <<<<"dealloc", PortsOf(t)>>, <<"disabled", t>>>>

\* async_decoder_enable_port: port by port, and the first that times out ends it
EnablePlan(t) ==
  LET one(p) == (IF dec.state = "Loaded" THEN <<>> ELSE <<<<"populated", {p}>>>>)
                  \o <<<<"enabled", p>>>>
  IN (IF "in" \in PortsOf(t) THEN one("in") ELSE <<>>)
       \o (IF "out" \in PortsOf(t) THEN one("out") ELSE <<>>)

Plan(c) ==
  CASE c[1] = "StateSet"    -> StatePlan(c[2])
    [] c[1] = "Flush"       -> FlushPlan(c[2])
    [] c[1] = "PortDisable" -> DisablePlan(c[2])
    [] c[1] = "PortEnable"  -> EnablePlan(c[2])

-----------------------------------------------------------------------------
(* decoder_thread_main.  All commands in the queue are executed before the   *)
(* loop looks at `run' or at the in port again.                              *)

CompDispatch ==
  /\ Undisturbed /\ comp.todo = <<>> /\ cmdq # <<>>
  /\ comp.pc = "drain" \/ (comp.pc = "loop" /\ dec.run)
  /\ cmdq' = Tail(cmdq)
  /\ comp' = [comp EXCEPT !.pc = "drain", !.todo = Plan(Head(cmdq))]
  /\ UNCHANGED <<dec, sd, port, codec, cli, out>>

CompDrained ==
  /\ Undisturbed /\ comp.pc = "drain" /\ comp.todo = <<>> /\ cmdq = <<>>
  /\ comp' = [comp EXCEPT !.pc = "loop"]
  /\ UNCHANGED <<dec, sd, port, codec, cmdq, cli, out>>

-----------------------------------------------------------------------------
(* Steps of the command handlers *)

IsReady(ps) == \A p \in ps : port[p].enabled => port[p].populated

\* The wait for the ports to be populated.  `timeout' is never initialised and
\* OSAL_EventWait only ever sets it to true: once the thread has waited, it may
\* fail whether or not the buffers came.  "ready" is the wait of the transition
\* to Idle, "populated" that of a port being enabled.
CompWaitReady ==
  /\ Step({"ready", "populated"})
  /\ IF IsReady(Arg) THEN Done
     ELSE comp' = [comp EXCEPT !.todo[1][1] = IF @ = "ready" THEN "ready-wait"
                                              ELSE "populated-wait"]
  /\ UNCHANGED <<dec, sd, port, codec, cmdq, cli, out>>

\* The ports became populated, and the garbage in `timeout' reads as false.
CompWaitEnds ==
  /\ Step({"ready-wait", "populated-wait"})
  /\ IsReady(Arg)
  /\ comp' = [comp EXCEPT !.todo[1][1] = IF @ = "ready-wait" THEN "ready" ELSE "populated"]
  /\ UNCHANGED <<dec, sd, port, codec, cmdq, cli, out>>

\* A timeout, or garbage that reads as true: the transition to Idle leaves an
\* invalid component, enabling a port just ends with OMX_EventError.
CompWaitFails ==
  /\ Undisturbed
  /\ \/ At("ready-wait") /\ Continue(<<<<"invalid", NULL>>>>)
     \/ At("populated-wait") /\ Continue(<<>>)
  /\ UNCHANGED <<dec, sd, port, codec, cmdq, cli, out>>

\* The codec is created, or that fails.
CompCreate ==
  /\ Step({"create"})
  /\ \/ codec' = [NoCodec EXCEPT !.made = TRUE] /\ Done
     \/ Continue(<<<<"invalid", NULL>>>>) /\ UNCHANGED codec
  /\ UNCHANGED <<dec, sd, port, cmdq, cli, out>>

\* Mutant of CompJoin: the thread is forgotten, not joined.
CompJoin_NoWait ==
  /\ Step({"join"})
  /\ sd' = [sd EXCEPT !.outRun = FALSE, !.thread = FALSE]
  /\ Done
  /\ UNCHANGED <<dec, port, codec, cmdq, cli, out>>

\* pthread_join(output_thread_)
CompJoin ==
  /\ Step({"join"}) /\ (sd.thread => out.pc = "none")
  /\ sd' = IF sd.thread THEN [sd EXCEPT !.outRun = FALSE, !.thread = FALSE] ELSE sd
  /\ Done
  /\ UNCHANGED <<dec, port, codec, cmdq, cli, out>>

\* Mutants of CompAbortAfter: the registered buffers, or the pictures that were
\* not output, survive.
CompAbortAfter_KeepsBuffers ==
  /\ Step({"abortafter"})
  /\ codec' = [AbortAfter(codec) EXCEPT !.free = Known(codec)]
  /\ Done
  /\ UNCHANGED <<dec, sd, port, cmdq, cli, out>>

CompAbortAfter_KeepsPictures ==
  /\ Step({"abortafter"})
  /\ codec' = [AbortAfter(codec) EXCEPT !.pics = codec.pics]
  /\ Done
  /\ UNCHANGED <<dec, sd, port, cmdq, cli, out>>

CompAbortAfter ==
  /\ Step({"abortafter"})
  /\ codec' = AbortAfter(codec)
  /\ Done
  /\ UNCHANGED <<dec, sd, port, cmdq, cli, out>>

\* async_decoder_return_buffers on the out port first spins on hasFrame.
CompSpin ==
  /\ Step({"spin"}) /\ ~sd.hasFrame
  /\ sd' = [sd EXCEPT !.hasFrame = TRUE]
  /\ Done
  /\ UNCHANGED <<dec, port, codec, cmdq, cli, out>>

\* Mutants of CompReturn: the queue is not cleared, or prevBuffer not returned.
CompReturn_NoClear ==
  /\ Step({"return"})
  /\ cli' = [cli EXCEPT !.held = @ \cup Range(port[Arg].queue) \cup ({dec.prev} \ {NULL})]
  /\ dec' = [dec EXCEPT !.prev = NULL]
  /\ Done
  /\ UNCHANGED <<sd, port, codec, cmdq, out>>

CompReturn_KeepsPrev ==
  /\ Step({"return"})
  /\ port' = [port EXCEPT ![Arg] = QueueClear(@)]
  /\ cli' = [cli EXCEPT !.held = @ \cup Range(port[Arg].queue)]
  /\ Done
  /\ UNCHANGED <<dec, sd, codec, cmdq, out>>

\* Then, under the port's lock, every queued buffer and prevBuffer go back to
\* the client and the queue is cleared.  The lock is recursive: a client that
\* calls EmptyThisBuffer from the callback gets its buffer into the queue of
\* the in port, where it is cleared away if that is the port being emptied.
CompReturn ==
  /\ Step({"return"})
  /\ LET back == Range(port[Arg].queue) \cup ({dec.prev} \ {NULL}) IN
     \E refill \in SUBSET (back \cap InBufs) :
       /\ refill = {} \/ "refill" \in Allow
       /\ IF Arg = "in" \/ refill = {} THEN port' = [port EXCEPT ![Arg] = QueueClear(@)]
          ELSE \E b \in refill :
                 port' = [port EXCEPT !["out"] = QueueClear(@), !["in"] = PushBuffer(@, b)]
       /\ cli' = [cli EXCEPT !.held = @ \cup (back \ refill)]
  /\ dec' = [dec EXCEPT !.prev = NULL]
  /\ Done
  /\ UNCHANGED <<sd, codec, cmdq, out>>

\* Mutant of CompReset: the transition to Idle starts an output thread, too.
CompReset_AlwaysStarts ==
  /\ Step({"reset"})
  /\ dec' = [dec EXCEPT !.list = NoList, !.release = FALSE, !.reconf = FALSE, !.run = TRUE]
  /\ StartOutput([sd EXCEPT !.eos = FALSE, !.eosAddr = NULL])
  /\ cli' = [cli EXCEPT !.eosBuf = NULL]
  /\ Done
  /\ UNCHANGED <<port, codec, cmdq>>

\* What transition_to_idle_from_executing and the flush of all ports clear;
\* the flush starts a new output thread.
CompReset ==
  /\ Step({"reset"})
  /\ dec' = [dec EXCEPT !.list = NoList, !.release = FALSE, !.reconf = FALSE, !.run = TRUE]
  /\ LET cleared == [sd EXCEPT !.eos = FALSE, !.eosAddr = NULL]
     IN IF Arg = "flush" /\ ~sd.thread THEN StartOutput(cleared)
        ELSE sd' = cleared /\ UNCHANGED out
  /\ cli' = [cli EXCEPT !.eosBuf = NULL]
  /\ Done
  /\ UNCHANGED <<port, codec, cmdq>>

\* transition_to_executing_from_idle
CompExecute ==
  /\ Step({"execute"})
  /\ dec' = [dec EXCEPT !.release = FALSE]
  /\ IF ~sd.thread THEN StartOutput(sd) ELSE UNCHANGED <<sd, out>>
  /\ Done
  /\ UNCHANGED <<port, codec, cmdq, cli>>

\* transition_to_loaded_from_idle asserts that nothing is queued any more,
CompQueues ==
  /\ Step({"queues"})
  /\ IF \A p \in Ports : port[p].queue = <<>> THEN Done
     ELSE Continue(<<<<"assert", NULL>>>>)
  /\ UNCHANGED <<dec, sd, port, codec, cmdq, cli, out>>

\* waits until the client has freed its buffers (as does disabling a port),
CompDealloc ==
  /\ Step({"dealloc"}) /\ \A p \in Arg : port[p].buffers = <<>>
  /\ Done
  /\ UNCHANGED <<dec, sd, port, codec, cmdq, cli, out>>

\* and destroys the codec; output_thread_ is cleared without a join.
CompDestroy ==
  /\ Step({"destroy"})
  /\ codec' = NoCodec
  /\ dec' = [dec EXCEPT !.run = TRUE, !.extra = FALSE, !.reconf = FALSE,
                        !.disabling = FALSE, !.release = FALSE]
  /\ sd' = [eos |-> FALSE, inbuff |-> NULL, outRun |-> FALSE, thread |-> FALSE,
            hasFrame |-> FALSE, eosAddr |-> NULL]
  /\ cli' = [cli EXCEPT !.eosBuf = NULL]
  /\ Done
  /\ UNCHANGED <<port, cmdq, out>>

\* Mutant of CompState: a rejected transition stays pending.
CompState_StaysPending ==
  /\ Step({"state", "reject", "invalid"})
  /\ dec' = CASE At("state")   -> [dec EXCEPT !.state = Arg, !.trans = Arg]
              [] At("reject")  -> dec
              [] At("invalid") -> [dec EXCEPT !.state = "Invalid", !.run = FALSE]
  /\ Done
  /\ UNCHANGED <<sd, port, codec, cmdq, cli, out>>

\* The end of a state transition
CompState ==
  /\ Step({"state", "reject", "invalid"})
  /\ dec' = CASE At("state")   -> [dec EXCEPT !.state = Arg, !.trans = Arg]
              [] At("reject")  -> [dec EXCEPT !.trans = dec.state]
              [] At("invalid") -> [dec EXCEPT !.state = "Invalid", !.run = FALSE]
  /\ Done
  /\ UNCHANGED <<sd, port, codec, cmdq, cli, out>>

\* The end of disabling and of enabling a port
CompDisabled ==
  /\ Step({"disabled"})
  /\ dec' = IF dec.disabling /\ "out" \in PortsOf(Arg)
            THEN [dec EXCEPT !.disabling = FALSE, !.list = NoList, !.extra = FALSE] ELSE dec
  /\ Done
  /\ UNCHANGED <<sd, port, codec, cmdq, cli, out>>

CompEnabled ==
  /\ Step({"enabled"})
  /\ dec' = [dec EXCEPT !.reconf = @ /\ Arg # "out"]
  /\ Done
  /\ UNCHANGED <<sd, port, codec, cmdq, cli, out>>

CommandNext ==
  \/ CompDispatch \/ CompDrained
  \/ CompWaitReady \/ CompWaitEnds \/ CompWaitFails \/ CompCreate
  \/ CompJoin \/ CompAbortAfter \/ CompSpin \/ CompReturn \/ CompReset
  \/ CompExecute \/ CompQueues \/ CompDealloc \/ CompDestroy
  \/ CompState \/ CompDisabled \/ CompEnabled
=============================================================================
