---------------------------- MODULE DecoderProofs ---------------------------
(***************************************************************************)
(* Proofs about the decoder, for any number of buffers, any client and any *)
(* stream.                                                                 *)
(*                                                                         *)
(* bufferevent of a port is in step with its queue.  By itself this is not *)
(* inductive: push_buffer sets the event whether or not the buffer went    *)
(* in, so the queue must never be full without room to grow, and pop must  *)
(* be given a place of the queue.                                          *)
(*                                                                         *)
(* The state is well typed, and a transition that was begun has what will  *)
(* end it.  The second needs the first: a plan of the component thread is  *)
(* thrown away when enabling a port times out and at the end of a buffer,  *)
(* so the argument is that plans of those two kinds never hold the end of  *)
(* a transition.                                                           *)
(*                                                                         *)
(* There is a codec as long as the output thread runs, and the thread is   *)
(* joined only when it has been told to end.  Both depend on what the      *)
(* component thread still has to do: which steps of a plan follow which,   *)
(* and what holds until they are taken.                                    *)
(***************************************************************************)
EXTENDS Decoder, PortProofs

-----------------------------------------------------------------------------
PortsGood == DOMAIN port = Ports /\ \A p \in Ports : PortGood(Bufs(p), port[p])

\* A buffer on its way into the out port's queue is one of its buffers.
ClientGood ==
  /\ DOMAIN cli = {"pc", "cmd", "buf", "held", "eosBuf"}
  /\ cli.pc = "pushing" => cli.buf \in OutBufs

\* The place the output thread is going to pop was found in a queue.
OutputGood ==
  /\ DOMAIN out = {"pc", "frm", "idx", "inbuff"}
  /\ out.pc \in {"deliver", "pop"} => out.idx \in Nat \ {0}

\* The inductive invariant.
EventInv == PortsGood /\ ClientGood /\ OutputGood

\* A decoder that OMX_ComponentConstructor has set up satisfies the invariant.
LEMMA EventInit == Init => EventInv
<1> SUFFICES ASSUME Init PROVE EventInv
  OBVIOUS
<1>1. \A p \in Ports : Cardinality(Bufs(p)) \in Nat \ {0}
  <2>1. Cardinality(InBufs) \in Nat \ {0}
    BY DecoderConstantsOK, FS_CardinalityType, FS_EmptySet DEF DecoderConstantsOK
  <2>2. Cardinality(OutBufs) \in Nat \ {0}
    <3>1. Cardinality(OutBufs) \in Nat /\ CountMin \in 1 .. Cardinality(OutBufs)
      BY DecoderConstantsOK, FS_CardinalityType DEF DecoderConstantsOK
    <3> QED BY <3>1
  <2> QED BY <2>1, <2>2 DEF Bufs, Ports
<1>2. PortsGood
  BY <1>1, NewPortGood DEF Init, PortsGood
<1>3. ClientGood
  BY DEF Init, ClientGood
<1>4. OutputGood
  BY DEF Init, OutputGood
<1> QED BY <1>2, <1>3, <1>4 DEF EventInv

\* The client's calls keep the invariant.
LEMMA EventClient ==
  ASSUME EventInv, ClientNext PROVE EventInv'
<1> USE DEF EventInv
<1>1. OutputGood'
  BY DEF OutputGood, ClientNext, SendCommand, SendQueue, AllocateBuffer, FreeBuffer,
         EmptyThisBuffer, FillThisBuffer, FillPush, FillConsume
<1>2. ClientGood'
  BY DEF ClientGood, ClientNext, SendCommand, SendQueue, AllocateBuffer, FreeBuffer,
         EmptyThisBuffer, FillThisBuffer, FillPush, FillConsume
<1>3. PortsGood'
  <2>1. CASE \E c \in Commands : SendCommand(c)
    <3>1. PICK c \in Commands : SendFlags(c)
      BY <2>1 DEF SendCommand
    <3>2. \/ UNCHANGED port
          \/ port' = [p \in Ports |-> [port[p] EXCEPT !.enabled = @ /\ p \notin PortsOf(c[2])]]
          \/ port' = [p \in Ports |-> [port[p] EXCEPT !.enabled = @ \/ p \in PortsOf(c[2])]]
      BY <3>1 DEF SendFlags, Commands
    <3>3. \A p \in Ports : /\ PortGood(Bufs(p), [port[p] EXCEPT !.enabled = @ /\ p \notin PortsOf(c[2])])
                           /\ PortGood(Bufs(p), [port[p] EXCEPT !.enabled = @ \/ p \in PortsOf(c[2])])
      <4> SUFFICES ASSUME NEW p \in Ports
                   PROVE  /\ PortGood(Bufs(p), [port[p] EXCEPT !.enabled = @ /\ p \notin PortsOf(c[2])])
                          /\ PortGood(Bufs(p), [port[p] EXCEPT !.enabled = @ \/ p \in PortsOf(c[2])])
        OBVIOUS
      <4>1. /\ (port[p].enabled /\ p \notin PortsOf(c[2])) \in BOOLEAN
            /\ (port[p].enabled \/ p \in PortsOf(c[2])) \in BOOLEAN
        BY Zenon
      <4>2. PortGood(Bufs(p), port[p])
        BY DEF PortsGood
      <4>3. \A on \in BOOLEAN : PortGood(Bufs(p), [port[p] EXCEPT !.enabled = on])
        <5>1. <<>> \in Seq(Bufs(p)) /\ 0 \in Nat
          OBVIOUS
        <5> QED BY <4>2, <5>1, OtherFieldsGood
      <4> QED BY <4>1, <4>3, Zenon
    <3> QED BY <3>2, <3>3 DEF PortsGood
  <2>2. CASE \E p \in Ports : \E b \in Bufs(p) : AllocateBuffer(p, b)
    <3>0. PICK p \in Ports : \E b \in Bufs(p) : AllocateBuffer(p, b)
      BY <2>2
    <3>1. PICK b \in Bufs(p) : AllocateBuffer(p, b)
      BY <3>0
    <3> DEFINE q == AllocateNextBuffer(port[p], b)
               full == q.populated \/ Len(q.buffers) = Cardinality(Bufs(p))
    <3>2. q.buffers \in Seq(Bufs(p)) /\ q.bcap \in Nat
      BY DEF PortsGood, PortGood, AllocateNextBuffer, ListPush
    <3>3. [q EXCEPT !.populated = full] =
            [port[p] EXCEPT !.buffers = q.buffers, !.bcap = q.bcap, !.populated = full]
      BY DEF AllocateNextBuffer, PortsGood, PortGood
    <3>4. port' = [port EXCEPT ![p] = [q EXCEPT !.populated = full]]
      BY <3>1 DEF AllocateBuffer
    <3>5. full \in BOOLEAN
      BY Zenon
    <3>6. PortGood(Bufs(p), port[p])
      BY DEF PortsGood
    <3> HIDE DEF q, full
    <3>7. PortGood(Bufs(p), [port[p] EXCEPT !.buffers = q.buffers, !.bcap = q.bcap, !.populated = full])
      BY <3>2, <3>5, <3>6, OtherFieldsGood
    <3> QED BY <3>3, <3>4, <3>7 DEF PortsGood
  <2>3. CASE \E p \in Ports : \E b \in Bufs(p) : FreeBuffer(p, b)
    <3>0. PICK p \in Ports : \E b \in Bufs(p) : FreeBuffer(p, b)
      BY <2>3
    <3>1. PICK b \in Bufs(p) : FreeBuffer(p, b)
      BY <3>0
    <3>2. PICK i \in 1 .. Len(port[p].buffers) : i = FindBuffer(port[p], b)
      <4>1. port[p].buffers \in Seq(Bufs(p)) /\ b \in Range(port[p].buffers)
        BY <3>1 DEF FreeBuffer, PortsGood, PortGood
      <4>2. DOMAIN port[p].buffers = 1 .. Len(port[p].buffers)
        BY <4>1
      <4>3. \E j \in DOMAIN port[p].buffers : port[p].buffers[j] = b
        BY <4>1, Zenon DEF Range
      <4>4. FindBuffer(port[p], b) \in DOMAIN port[p].buffers
        BY <4>3, Zenon DEF FindBuffer
      <4> QED BY <4>2, <4>4
    <3> DEFINE bs == RemoveAt(port[p].buffers, i)
    <3>3. bs \in Seq(Bufs(p)) /\ port[p].bcap \in Nat /\ FALSE \in BOOLEAN
      BY RemoveAtLen DEF PortsGood, PortGood
    <3>4. port' = [port EXCEPT ![p] = [RemoveBufferAt(port[p], i) EXCEPT !.populated = FALSE]]
      BY <3>1, <3>2 DEF FreeBuffer
    <3> HIDE DEF bs
    <3>5. [RemoveBufferAt(port[p], i) EXCEPT !.populated = FALSE] =
            [port[p] EXCEPT !.buffers = bs, !.bcap = port[p].bcap, !.populated = FALSE]
      BY DEF RemoveBufferAt, PortsGood, PortGood, bs
    <3>6. PortGood(Bufs(p), port[p])
      BY DEF PortsGood
    <3>7. PortGood(Bufs(p), [port[p] EXCEPT !.buffers = bs, !.bcap = port[p].bcap, !.populated = FALSE])
      BY <3>3, <3>6, OtherFieldsGood
    <3> QED BY <3>4, <3>5, <3>7 DEF PortsGood
  <2>4. CASE \E b \in InBufs : EmptyThisBuffer(b)
    BY <2>4, PushBufferGood DEF EmptyThisBuffer, PortsGood, Ports, Bufs
  <2>5. CASE FillPush
    BY <2>5, PushBufferGood DEF FillPush, PortsGood, ClientGood, Ports, Bufs
  <2>6. CASE UNCHANGED port
    BY <2>6 DEF PortsGood
  <2> QED
    BY <2>1, <2>2, <2>3, <2>4, <2>5, <2>6
       DEF ClientNext, SendQueue, FillThisBuffer, FillConsume
<1> QED BY <1>1, <1>2, <1>3

\* The command handlers keep the invariant.
LEMMA EventCommand ==
  ASSUME EventInv, CommandNext PROVE EventInv'
<1> USE DEF EventInv
<1>1. CASE CompReturn
  <2>1. OutputGood' /\ ClientGood'
    BY <1>1 DEF CompReturn, OutputGood, ClientGood
  <2>2. \A p \in Ports : PortGood(Bufs(p), QueueClear(port[p]))
    BY QueueClearGood DEF PortsGood
  <2>3. \A b \in InBufs : PortGood(InBufs, PushBuffer(port["in"], b))
    BY PushBufferGood DEF PortsGood, Ports, Bufs
  <2>4. \/ port' = [port EXCEPT ![Arg] = QueueClear(@)]
        \/ \E b \in InBufs : port' = [port EXCEPT !["out"] = QueueClear(@),
                                                  !["in"] = PushBuffer(@, b)]
    BY <1>1 DEF CompReturn
  <2>5. PortsGood'
    BY <2>2, <2>3, <2>4 DEF PortsGood, Ports, Bufs
  <2> QED BY <2>1, <2>5
<1>2. CASE CompReset \/ CompExecute
  BY <1>2 DEF CompReset, CompExecute, StartOutput, PortsGood, ClientGood, OutputGood
<1>3. CASE CompDestroy
  BY <1>3 DEF CompDestroy, PortsGood, ClientGood, OutputGood
<1>4. CASE UNCHANGED <<port, cli, out>>
  BY <1>4 DEF PortsGood, ClientGood, OutputGood
<1> QED
  BY <1>1, <1>2, <1>3, <1>4
     DEF CommandNext, CompDispatch, CompDrained, CompWaitReady, CompWaitEnds, CompWaitFails,
         CompCreate, CompJoin, CompAbortAfter, CompSpin, CompQueues, CompDealloc, CompState,
         CompDisabled, CompEnabled

\* Decoding a buffer keeps the invariant.
LEMMA EventDecode ==
  ASSUME EventInv, DecodeNext PROVE EventInv'
<1> USE DEF EventInv
<1>1. CASE DecodeFinish
  <2>1. OutputGood' /\ ClientGood'
    BY <1>1 DEF DecodeFinish, OutputGood, ClientGood
  <2>2. PortsGood'
    BY <1>1, PopBufferGood DEF DecodeFinish, PortsGood, Ports
  <2> QED BY <2>1, <2>2
<1>2. CASE UNCHANGED <<port, cli, out>>
  BY <1>2 DEF PortsGood, ClientGood, OutputGood
<1> QED
  BY <1>1, <1>2
     DEF DecodeNext, DecodeStart, DecodeExtra, DecodeStop, DecodeEmpty, DecodeAborted,
         DecodeHeaders, DecodeReconfigure, DecodeWaiting, DecodeRegister, DecodeNoBuffer,
         DecodePicture, DecodeNothing, DecodeNewHeaders, DecodeError, DecodeFailed, DecodeTail

\* The output thread keeps the invariant.
LEMMA EventOutput ==
  ASSUME EventInv, OutputNext PROVE EventInv'
<1> USE DEF EventInv
<1>1. ClientGood'
  BY DEF OutputNext, OutStart, OutLoop, OutExit, OutGetEos, OutGetAborted, OutGetFlushed,
         OutGetFrame, OutFlushed, OutHasFrame, OutCheck, OutFind, OutDeliver, OutPop,
         OutEos, OutEosDeliver, OutEosPop, ClientGood
<1>2. OutputGood'
  <2>1. CASE OutFind
    <3>1. port["out"].queue \in Seq(OutBufs)
      BY DEF PortsGood, PortGood, Ports, Bufs
    <3>2. DOMAIN port["out"].queue \subseteq Nat \ {0}
      BY <3>1
    <3> QED BY <2>1, <3>2 DEF OutFind, Goto, OutputGood
  <2>2. CASE OutDeliver
    BY <2>2 DEF OutDeliver, OutAt, OutputGood
  <2>3. CASE \E pc \in OutputPCs \ {"deliver", "pop"} : Goto(pc)
    BY <2>3 DEF Goto, OutputGood
  <2>4. CASE OutStart \/ OutLoop \/ OutGetEos \/ OutGetAborted \/ OutGetFlushed
    BY <2>4, <2>3 DEF OutStart, OutLoop, OutGetEos, OutGetAborted, OutGetFlushed, OutputPCs
  <2>5. CASE OutFlushed \/ OutHasFrame \/ OutPop \/ OutEosPop
    <3>1. CASE OutPop
      <4>1. Goto("loop") \/ Goto("assert")
        BY <3>1, Zenon DEF OutPop
      <4> QED BY <4>1, <2>3 DEF OutputPCs
    <3> QED BY <2>5, <2>3, <3>1 DEF OutFlushed, OutHasFrame, OutEosPop, OutputPCs
  <2>6. CASE OutExit \/ OutGetFrame
    <3>1. CASE OutExit
      BY <3>1 DEF OutExit, OutputGood
    <3>2. CASE OutGetFrame
      BY <3>2 DEF OutGetFrame, OutputGood
    <3> QED BY <2>6, <3>1, <3>2
  <2>7. CASE OutCheck \/ OutEos \/ OutEosDeliver
    BY <2>7 DEF OutCheck, OutEos, OutEosDeliver, Goto, OutputGood
  <2> QED BY <2>1, <2>2, <2>4, <2>5, <2>6, <2>7 DEF OutputNext
<1>3. PortsGood'
  <2>1. CASE OutPop
    <3> DEFINE n == Len(port["out"].queue)
    <3>1. n \in Nat /\ out.idx \in Nat \ {0} /\ PortGood(OutBufs, port["out"])
      BY <2>1 DEF PortsGood, PortGood, Ports, Bufs, OutPop, OutAt, OutputGood
    <3>2. CASE out.idx <= n
      <4>1. PortGood(OutBufs, PopBufferAt(port["out"], out.idx))
        BY <3>1, <3>2, PopBufferAtGood
      <4> QED BY <2>1, <3>2, <4>1 DEF OutPop, PortsGood, Ports, Bufs
    <3>3. CASE ~(out.idx <= n)
      BY <2>1, <3>3 DEF OutPop, PortsGood
    <3> QED BY <3>2, <3>3
  <2>2. CASE OutEosPop
    BY <2>2, PopBufferGood DEF OutEosPop, PortsGood, Ports
  <2>3. CASE UNCHANGED port
    BY <2>3 DEF PortsGood
  <2> QED
    BY <2>1, <2>2, <2>3
       DEF OutputNext, OutStart, OutLoop, OutExit, OutGetEos, OutGetAborted, OutGetFlushed,
           OutGetFrame, OutFlushed, OutHasFrame, OutCheck, OutFind, OutDeliver,
           OutEos, OutEosDeliver
<1> QED BY <1>1, <1>2, <1>3

\* The invariant holds in every reachable state.
LEMMA EventInvariant == Spec => []EventInv
<1>1. EventInv /\ [Next]_vars => EventInv'
  <2> SUFFICES ASSUME EventInv, [Next]_vars PROVE EventInv'
    OBVIOUS
  <2>1. CASE UNCHANGED vars
    BY <2>1 DEF vars, EventInv, PortsGood, ClientGood, OutputGood
  <2> QED BY <2>1, EventClient, EventCommand, EventDecode, EventOutput DEF Next
<1> QED BY EventInit, <1>1, PTL DEF Spec

\* Whatever commands the client sends, however the threads interleave and
\* whatever the stream holds, the event that decoder_thread_main sleeps on is
\* set exactly when a port has buffers queued.
THEOREM PortEvents == Spec => []EventsInStep
<1>1. EventInv => EventsInStep
  BY DEF EventInv, PortsGood, PortGood, EventsInStep
<1> QED BY EventInvariant, <1>1, PTL

-----------------------------------------------------------------------------
(* The plans *)

\* A sequence of steps that ends in the step x holds it.
LEMMA EndsIn ==
  ASSUME NEW S, NEW p \in Seq(S), NEW x \in S
  PROVE  /\ p \o <<x>> \in Seq(S)
         /\ \E i \in DOMAIN (p \o <<x>>) : (p \o <<x>>)[i] = x
<1>1. <<x>> \in Seq(S) /\ Len(<<x>>) = 1 /\ <<x>>[1] = x
  OBVIOUS
<1>2. /\ p \o <<x>> \in Seq(S) /\ Len(p \o <<x>>) = Len(p) + 1 /\ Len(p) \in Nat
      /\ (p \o <<x>>)[Len(p) + 1] = x
  BY <1>1
<1> QED BY <1>2

\* The steps that the command handlers share
LEMMA ChangeParts ==
  /\ ReturnIn \in Seq(ChangeSteps) /\ ReturnOut \in Seq(ChangeSteps)
  /\ JoinAndAbort \in Seq(ChangeSteps)
  /\ <<>> \in Seq(ChangeSteps)
  /\ \A x \in ChangeSteps : <<x>> \in Seq(ChangeSteps)
  /\ \A a, b \in Seq(ChangeSteps) : a \o b \in Seq(ChangeSteps)
<1>1. /\ <<"return", "in">> \in ChangeSteps /\ <<"return", "out">> \in ChangeSteps
      /\ <<"spin", NULL>> \in ChangeSteps /\ <<"join", NULL>> \in ChangeSteps
      /\ <<"abortafter", NULL>> \in ChangeSteps
  BY DEF ChangeSteps, Ports
<1> HIDE DEF ChangeSteps
<1> QED BY <1>1 DEF ReturnIn, ReturnOut, JoinAndAbort

\* async_decoder_set_state: a plan to change the state ends in the new state, in
\* an invalid component or in an error.
LEMMA StatePlanEnds ==
  ASSUME NEW s \in States, s # dec.state
  PROVE  \/ \E p \in Seq(ChangeSteps) : StatePlan(s) = p \o <<<<"state", s>>>>
         \/ StatePlan(s) = <<<<"invalid", NULL>>>>
         \/ StatePlan(s) = <<<<"reject", NULL>>>>
<1> DEFINE done == <<<<"state", s>>>>
           a == <<<<"ready", Ports>>, <<"create", NULL>>>>
           b == ReturnIn \o ReturnOut
           c == JoinAndAbort \o ReturnIn \o ReturnOut \o <<<<"reset", "idle">>>>
           d == <<<<"queues", NULL>>, <<"dealloc", Ports>>, <<"destroy", NULL>>>>
           e == <<<<"execute", NULL>>>>
<1>1. \/ StatePlan(s) \in {a \o done, b \o done, c \o done, d \o done, e \o done, done}
      \/ StatePlan(s) = <<<<"invalid", NULL>>>>
      \/ StatePlan(s) = <<<<"reject", NULL>>>>
  BY DEF StatePlan
<1>2. /\ <<"ready", Ports>> \in ChangeSteps /\ <<"create", NULL>> \in ChangeSteps
      /\ <<"queues", NULL>> \in ChangeSteps /\ <<"dealloc", Ports>> \in ChangeSteps
      /\ <<"destroy", NULL>> \in ChangeSteps /\ <<"execute", NULL>> \in ChangeSteps
      /\ <<"reset", "idle">> \in ChangeSteps /\ <<"state", s>> \in ChangeSteps
  BY DEF ChangeSteps
<1>3. a \in Seq(ChangeSteps) /\ d \in Seq(ChangeSteps) /\ e \in Seq(ChangeSteps)
  BY <1>2
<1>4. b \in Seq(ChangeSteps) /\ c \in Seq(ChangeSteps)
  BY <1>2, ChangeParts, Zenon
<1>5. done = <<>> \o done /\ <<>> \in Seq(ChangeSteps)
  <2>1. done \in Seq(ChangeSteps)
    BY <1>2
  <2> QED BY <2>1
<1> HIDE DEF done, a, b, c, d, e
<1> QED BY <1>1, <1>3, <1>4, <1>5 DEF done

\* Every plan is of one kind.
LEMMA PlanType ==
  ASSUME NEW cmd \in Commands
  PROVE  Plan(cmd) \in Seq(ChangeSteps) \cup Seq(EnableSteps)
<1>1. /\ <<"state", cmd[2]>> \in ChangeSteps \/ cmd[1] # "StateSet"
      /\ <<"invalid", NULL>> \in ChangeSteps /\ <<"reject", NULL>> \in ChangeSteps
      /\ <<"reset", "flush">> \in ChangeSteps
      /\ cmd[1] = "PortDisable" => /\ <<"dealloc", PortsOf(cmd[2])>> \in ChangeSteps
                                   /\ <<"disabled", cmd[2]>> \in ChangeSteps
  BY DEF ChangeSteps, Commands, PortsOf, Targets, Ports
<1>2. CASE cmd[1] = "StateSet"
  <2>1. cmd[2] \in States /\ Plan(cmd) = StatePlan(cmd[2])
    BY <1>2 DEF Plan, Commands
  <2>2. CASE cmd[2] = dec.state
    <3>1. StatePlan(cmd[2]) = <<>>
      BY <2>2 DEF StatePlan
    <3> QED BY <2>1, <3>1, ChangeParts
  <2>3. CASE cmd[2] # dec.state
    <3>1. StatePlan(cmd[2]) \in Seq(ChangeSteps)
      <4>1. /\ <<<<"state", cmd[2]>>>> \in Seq(ChangeSteps)
            /\ <<<<"invalid", NULL>>>> \in Seq(ChangeSteps)
            /\ <<<<"reject", NULL>>>> \in Seq(ChangeSteps)
        BY <1>1, <1>2, ChangeParts, Zenon
      <4> QED BY <2>1, <2>3, <4>1, StatePlanEnds, ChangeParts, Zenon
    <3> QED BY <2>1, <3>1
  <2> QED BY <2>2, <2>3
<1>3. CASE cmd[1] = "Flush"
  <2>1. cmd[2] \in Targets /\ Plan(cmd) = FlushPlan(cmd[2])
    BY <1>3 DEF Plan, Commands
  <2>2. FlushPlan(cmd[2]) \in {ReturnIn, ReturnOut,
          JoinAndAbort \o ReturnIn \o ReturnOut \o <<<<"reset", "flush">>>>}
    BY <2>1 DEF FlushPlan, Targets
  <2>3. JoinAndAbort \o ReturnIn \o ReturnOut \o <<<<"reset", "flush">>>> \in Seq(ChangeSteps)
    BY <1>1, ChangeParts, Zenon
  <2> QED BY <2>1, <2>2, <2>3, ChangeParts, Zenon
<1>4. CASE cmd[1] = "PortDisable"
  <2>1. Plan(cmd) = DisablePlan(cmd[2])
    BY <1>4 DEF Plan
  <2>2. <<<<"dealloc", PortsOf(cmd[2])>>, <<"disabled", cmd[2]>>>> \in Seq(ChangeSteps)
    BY <1>1, <1>4
  <2>3. /\ (IF "in" \in PortsOf(cmd[2]) THEN ReturnIn ELSE <<>>) \in Seq(ChangeSteps)
        /\ (IF "out" \in PortsOf(cmd[2]) THEN ReturnOut ELSE <<>>) \in Seq(ChangeSteps)
    BY ChangeParts
  <2>4. DisablePlan(cmd[2]) \in Seq(ChangeSteps)
    BY <2>2, <2>3, ChangeParts, Zenon DEF DisablePlan
  <2> QED BY <2>1, <2>4
<1>5. CASE cmd[1] = "PortEnable"
  <2> DEFINE wait(p) == IF dec.state = "Loaded" THEN <<>> ELSE <<<<"populated", {p}>>>>
             one(p) == wait(p) \o <<<<"enabled", p>>>>
  <2>1. Plan(cmd) = EnablePlan(cmd[2])
    BY <1>5 DEF Plan
  <2>2. \A p \in Ports : <<"populated", {p}>> \in EnableSteps /\ <<"enabled", p>> \in EnableSteps
    <3>1. \A p \in Ports : {p} \in SUBSET Ports
      OBVIOUS
    <3> QED BY <3>1 DEF EnableSteps
  <2>3. \A p \in Ports : wait(p) \in Seq(EnableSteps) /\ <<<<"enabled", p>>>> \in Seq(EnableSteps)
    <3>1. <<>> \in Seq(EnableSteps) /\ \A x \in EnableSteps : <<x>> \in Seq(EnableSteps)
      OBVIOUS
    <3> QED BY <2>2, <3>1, Zenon
  <2>4. \A a, b \in Seq(EnableSteps) : a \o b \in Seq(EnableSteps)
    OBVIOUS
  <2>5. one("in") \in Seq(EnableSteps) /\ one("out") \in Seq(EnableSteps)
        /\ <<>> \in Seq(EnableSteps)
    <3>1. <<>> \in Seq(EnableSteps)
      OBVIOUS
    <3> QED BY <2>3, <2>4, <3>1, Zenon DEF Ports
  <2>6. EnablePlan(cmd[2]) =
          (IF "in" \in PortsOf(cmd[2]) THEN one("in") ELSE <<>>)
            \o (IF "out" \in PortsOf(cmd[2]) THEN one("out") ELSE <<>>)
    BY Zenon DEF EnablePlan
  <2> HIDE DEF one
  <2>7. /\ (IF "in" \in PortsOf(cmd[2]) THEN one("in") ELSE <<>>) \in Seq(EnableSteps)
        /\ (IF "out" \in PortsOf(cmd[2]) THEN one("out") ELSE <<>>) \in Seq(EnableSteps)
    BY <2>5
  <2> QED BY <2>1, <2>4, <2>6, <2>7
<1> QED BY <1>2, <1>3, <1>4, <1>5 DEF Commands

-----------------------------------------------------------------------------
(* Types *)

\* A client has a command exactly while it is sending it.
ClientSends == cli.pc = "sending" <=> cli.cmd # NULL

\* The output thread has a frame until it has delivered it.
OutputHolds ==
  out.pc \in {"frame", "check", "find", "deliver", "eosdeliver"} => out.frm # NULL

\* The inductive invariant
PlanInv ==
  /\ EventInv
  /\ dec \in DecType /\ sd \in SharedType /\ codec \in CodecType /\ cmdq \in Seq(Commands)
  /\ cli \in ClientType /\ comp \in CompType /\ out \in OutputType
  /\ ClientSends /\ OutputHolds

\* A decoder that has just been constructed satisfies it.
LEMMA PlanInit == Init => PlanInv
<1> SUFFICES ASSUME Init PROVE PlanInv
  OBVIOUS
<1>1. dec \in DecType /\ sd \in SharedType
  BY DEF Init, DecType, SharedType, Maybe, States, NoList
<1>2. codec \in CodecType /\ cmdq \in Seq(Commands)
  BY DEF Init, CodecType, NoCodec
<1>3. cli \in ClientType /\ ClientSends
  BY DEF Init, ClientType, ClientSends, Maybe
<1>4. comp \in CompType
  BY DEF Init, CompType, Maybe
<1>5. out \in OutputType /\ OutputHolds
  BY DEF Init, OutputType, OutputHolds, Maybe, OutputPCs
<1> QED BY <1>1, <1>2, <1>3, <1>4, <1>5, EventInit DEF PlanInv

\* What codec->setframebuffer and codec->pictureconsumed make of the codec.
LEMMA CodecOps ==
  ASSUME NEW c \in CodecType, NEW b \in OutBufs
  PROVE  /\ SetFrameBuffer(c, b) \in CodecType /\ PictureConsumed(c, b) \in CodecType
         /\ Abort(c) \in CodecType /\ AbortAfter(c) \in CodecType
         /\ EndOfStream(c) \in CodecType /\ NoCodec \in CodecType
<1>1. SetFrameBuffer(c, b) \in CodecType
  BY DEF SetFrameBuffer, CodecType
<1>2. PictureConsumed(c, b) \in CodecType
  BY DEF PictureConsumed, CodecType
<1>3. Abort(c) \in CodecType /\ EndOfStream(c) \in CodecType
  BY DEF Abort, EndOfStream, CodecType
<1>4. NoCodec \in CodecType
  BY DEF NoCodec, CodecType
<1>5. AbortAfter(c) \in CodecType
  BY <1>4 DEF AbortAfter, CodecType
<1> QED BY <1>1, <1>2, <1>3, <1>4, <1>5

\* Calls of the client
LEMMA PlanClient ==
  ASSUME PlanInv, ClientNext PROVE PlanInv'
<1> USE DEF PlanInv
<1>1. EventInv'
  BY EventClient
<1>2. ASSUME NEW c \in Commands, SendCommand(c) PROVE PlanInv'
  <2> USE <1>2 DEF SendCommand
  <2>1. cli' \in ClientType /\ ClientSends'
    BY DecoderConstantsOK DEF ClientType, ClientSends, Maybe, DecoderConstantsOK
  <2>2. codec' \in CodecType
    <3>1. codec' = codec \/ codec' = Abort(codec)
      BY DEF SendFlags, Commands
    <3> QED BY <3>1 DEF CodecType, Abort
  <2>3. dec' \in DecType
    <3>1. CASE c[1] = "StateSet"
      <4>1. c[2] \in States
        BY <3>1 DEF Commands
      <4>2. dec' = [dec EXCEPT !.trans = c[2], !.release = TRUE] \/ dec' = [dec EXCEPT !.trans = c[2]]
        BY <3>1 DEF SendFlags
      <4> QED BY <4>1, <4>2 DEF DecType
    <3>2. CASE c[1] = "Flush"
      BY <3>2 DEF SendFlags, DecType
    <3>3. CASE c[1] = "PortDisable"
      <4>1. PICK on : on = (dec.disabling \/ "out" \in PortsOf(c[2]))
        OBVIOUS
      <4>2. on \in BOOLEAN
        BY <4>1, Zenon
      <4>3. dec' = [dec EXCEPT !.disabling = on]
        BY <3>3, <4>1 DEF SendFlags
      <4> QED BY <4>2, <4>3 DEF DecType
    <3>4. CASE c[1] = "PortEnable"
      BY <3>4 DEF SendFlags
    <3> QED BY <3>1, <3>2, <3>3, <3>4 DEF Commands
  <2> QED BY <1>1, <2>1, <2>2, <2>3 DEF OutputHolds
<1>3. CASE SendQueue
  <2> USE <1>3 DEF SendQueue
  <2>1. cli.cmd \in Commands
    BY DEF ClientType, ClientSends, Maybe
  <2>2. cmdq' \in Seq(Commands)
    BY <2>1
  <2>3. cli' \in ClientType /\ ClientSends'
    BY DEF ClientType, ClientSends, Maybe
  <2> QED BY <1>1, <2>2, <2>3 DEF OutputHolds
<1>4. ASSUME NEW p \in Ports, NEW b \in Bufs(p), AllocateBuffer(p, b) \/ FreeBuffer(p, b)
      PROVE  PlanInv'
  <2>1. cli' \in ClientType /\ ClientSends'
    BY <1>4 DEF AllocateBuffer, FreeBuffer, ClientType, ClientSends, Bufs
  <2> QED BY <1>1, <1>4, <2>1 DEF AllocateBuffer, FreeBuffer, OutputHolds
<1>5. ASSUME NEW b \in InBufs, EmptyThisBuffer(b) PROVE PlanInv'
  <2>1. cli' \in ClientType /\ ClientSends'
    BY <1>5 DEF EmptyThisBuffer, ClientType, ClientSends, Maybe
  <2> QED BY <1>1, <1>5, <2>1 DEF EmptyThisBuffer, OutputHolds
<1>6. ASSUME NEW b \in OutBufs, FillThisBuffer(b) PROVE PlanInv'
  <2> USE <1>6 DEF FillThisBuffer
  <2>1. cli' \in ClientType /\ ClientSends'
    BY DEF ClientType, ClientSends, Maybe
  <2>2. codec' \in CodecType
    BY CodecOps
  <2>3. dec' \in DecType
    <3>1. \A i : [dec.list EXCEPT ![i] = b] \in [Slots -> Maybe(OutBufs)]
      BY DEF DecType, Maybe
    <3>2. dec' = dec \/ \E i : dec' = [dec EXCEPT !.list = [dec.list EXCEPT ![i] = b]]
      BY DEF DecType
    <3> QED BY <3>1, <3>2 DEF DecType
  <2> QED BY <1>1, <2>1, <2>2, <2>3 DEF OutputHolds
<1>7. CASE FillPush
  <2>1. cli' \in ClientType /\ ClientSends'
    BY <1>7 DEF FillPush, ClientType, ClientSends
  <2> QED BY <1>1, <1>7, <2>1 DEF FillPush, OutputHolds
<1>8. CASE FillConsume
  <2> USE <1>8 DEF FillConsume
  <2>1. cli' \in ClientType /\ ClientSends'
    BY DEF ClientType, ClientSends, Maybe
  <2>2. codec' \in CodecType
    BY DEF PictureConsumed, CodecType, ClientType, Maybe
  <2>3. sd' \in SharedType
    BY DEF SharedType, Maybe
  <2> QED BY <1>1, <2>1, <2>2, <2>3 DEF OutputHolds
<1> QED BY <1>2, <1>3, <1>4, <1>5, <1>6, <1>7, <1>8 DEF ClientNext

\* Which plan a step belongs to, and the type of its argument.
LEMMA StepKind ==
  ASSUME comp \in CompType, comp.todo # <<>>
  PROVE  /\ \E K \in {ChangeSteps, EnableSteps, DecodeSteps, FailSteps} :
              comp.todo \in Seq(K) /\ Head(comp.todo) \in K /\ Tail(comp.todo) \in Seq(K)
         /\ At("ready") \/ At("ready-wait") =>
              comp.todo \in Seq(ChangeSteps) /\ Arg \in SUBSET Ports
         /\ At("populated") \/ At("populated-wait") =>
              comp.todo \in Seq(EnableSteps) /\ Arg \in SUBSET Ports
         /\ At("return") => Arg \in Ports
         /\ At("state") => Arg \in States
         /\ At("register") \/ At("no-buffer") => Arg \in 1 .. CountMin
         /\ Head(comp.todo) = <<Head(comp.todo)[1], Arg>>
<1>1. PICK K \in {ChangeSteps, EnableSteps, DecodeSteps, FailSteps} : comp.todo \in Seq(K)
  BY DEF CompType
<1>2. Head(comp.todo) \in K /\ Tail(comp.todo) \in Seq(K)
  BY <1>1, HeadTailProperties
<1>3. CASE K = ChangeSteps
  BY <1>1, <1>2, <1>3 DEF ChangeSteps, At, Arg
<1>4. CASE K = EnableSteps
  BY <1>1, <1>2, <1>4 DEF EnableSteps, At, Arg
<1>5. CASE K = DecodeSteps
  BY <1>1, <1>2, <1>5 DEF DecodeSteps, At, Arg
<1>6. CASE K = FailSteps
  BY <1>1, <1>2, <1>6 DEF FailSteps, At, Arg
<1> QED BY <1>3, <1>4, <1>5, <1>6

\* The rest of a plan is a plan, and a plan may be replaced by another.
LEMMA DoneType ==
  ASSUME comp \in CompType, comp.todo # <<>>, Done PROVE comp' \in CompType
<1>1. Tail(comp.todo) \in UNION {Seq(K) : K \in {ChangeSteps, EnableSteps, DecodeSteps, FailSteps}}
  BY StepKind, Zenon
<1>2. Tail(comp.todo) \in Seq(ChangeSteps) \cup Seq(EnableSteps) \cup Seq(DecodeSteps) \cup Seq(FailSteps)
  BY <1>1
<1> QED BY <1>2 DEF Done, CompType

\* The first step is replaced by a plan whose steps are of one kind.
LEMMA ContinueType ==
  ASSUME comp \in CompType, NEW K \in {ChangeSteps, EnableSteps, DecodeSteps, FailSteps},
         NEW steps \in Seq(K), Continue(steps)
  PROVE  comp' \in CompType
<1>1. steps \in Seq(ChangeSteps) \cup Seq(EnableSteps) \cup Seq(DecodeSteps) \cup Seq(FailSteps)
  OBVIOUS
<1> QED BY <1>1 DEF Continue, CompType

\* The name of the first step of a plan changes.
LEMMA RenameType ==
  ASSUME comp \in CompType, comp.todo # <<>>, NEW name,
         NEW K \in {ChangeSteps, EnableSteps, DecodeSteps, FailSteps},
         comp.todo \in Seq(K), <<name, Arg>> \in K,
         comp' = [comp EXCEPT !.todo[1][1] = name]
  PROVE  comp' \in CompType /\ comp'.todo = [comp.todo EXCEPT ![1] = <<name, Arg>>]
<1> DEFINE head == comp.todo[1]
<1>1. head = <<head[1], Arg>>
  BY StepKind DEF Arg
<1>2. [head EXCEPT ![1] = name] = <<name, Arg>>
  <2>1. PICK a, b : head = <<a, b>> /\ b = Arg
    BY <1>1
  <2> HIDE DEF head
  <2> QED BY <2>1
<1>3. 1 \in 1 .. Len(comp.todo)
  BY DEF CompType
<1>4. [comp.todo EXCEPT ![1] = <<name, Arg>>] \in Seq(K)
  BY <1>3, ExceptSeq
<1>5. comp' = [comp EXCEPT !.todo = [comp.todo EXCEPT ![1] = [head EXCEPT ![1] = name]]]
  OBVIOUS
<1> HIDE DEF head
<1>6. Continue([comp.todo EXCEPT ![1] = <<name, Arg>>])
  BY <1>2, <1>5 DEF Continue
<1> QED BY <1>4, <1>6, ContinueType DEF Continue, CompType

\* The handlers of commands keep the plan well typed.
LEMMA CommandPlans ==
  ASSUME PlanInv, CommandNext PROVE comp' \in CompType
<1> USE DEF PlanInv
<1> DEFINE Kinds == {ChangeSteps, EnableSteps, DecodeSteps, FailSteps}
<1>1. CASE CompDispatch
  <2>1. Head(cmdq) \in Commands
    BY <1>1, HeadTailProperties DEF CompDispatch
  <2>2. Plan(Head(cmdq)) \in Seq(ChangeSteps) \cup Seq(EnableSteps)
    BY <2>1, PlanType
  <2> QED BY <1>1, <2>2 DEF CompDispatch, CompType
<1>2. CASE CompDrained
  BY <1>2 DEF CompDrained, CompType
<1>3. CASE CompWaitReady
  <2>1. CASE Done
    BY <1>3, <2>1, DoneType DEF CompWaitReady, Step, At
  <2>2. CASE ~Done /\ At("ready")
    <3>1. comp' = [comp EXCEPT !.todo[1][1] = "ready-wait"]
      BY <1>3, <2>2 DEF CompWaitReady, At
    <3>2. comp.todo \in Seq(ChangeSteps) /\ <<"ready-wait", Arg>> \in ChangeSteps
      BY <2>2, StepKind DEF At, ChangeSteps
    <3> QED BY <2>2, <3>1, <3>2, RenameType DEF At
  <2>3. CASE ~Done /\ At("populated")
    <3>1. comp' = [comp EXCEPT !.todo[1][1] = "populated-wait"]
      BY <1>3, <2>3 DEF CompWaitReady, At
    <3>2. comp.todo \in Seq(EnableSteps) /\ <<"populated-wait", Arg>> \in EnableSteps
      BY <2>3, StepKind DEF At, EnableSteps
    <3> QED BY <2>3, <3>1, <3>2, RenameType DEF At
  <2> QED BY <1>3, <2>1, <2>2, <2>3 DEF CompWaitReady, Step
<1>4. CASE CompWaitEnds
  <2>1. CASE At("ready-wait")
    <3>1. comp' = [comp EXCEPT !.todo[1][1] = "ready"]
      BY <1>4, <2>1 DEF CompWaitEnds, At
    <3>2. comp.todo \in Seq(ChangeSteps) /\ <<"ready", Arg>> \in ChangeSteps
      BY <2>1, StepKind DEF At, ChangeSteps
    <3> QED BY <2>1, <3>1, <3>2, RenameType DEF At
  <2>2. CASE At("populated-wait")
    <3>1. comp' = [comp EXCEPT !.todo[1][1] = "populated"]
      BY <1>4, <2>2 DEF CompWaitEnds, At
    <3>2. comp.todo \in Seq(EnableSteps) /\ <<"populated", Arg>> \in EnableSteps
      BY <2>2, StepKind DEF At, EnableSteps
    <3> QED BY <2>2, <3>1, <3>2, RenameType DEF At
  <2> QED BY <1>4, <2>1, <2>2 DEF CompWaitEnds, Step
<1>5. CASE Continue(<<<<"invalid", NULL>>>>) \/ Continue(<<<<"assert", NULL>>>>) \/ Continue(<<>>)
  <2>1. <<"invalid", NULL>> \in ChangeSteps /\ <<"assert", NULL>> \in ChangeSteps
    BY DEF ChangeSteps
  <2>2. /\ <<<<"invalid", NULL>>>> \in Seq(ChangeSteps) /\ <<<<"assert", NULL>>>> \in Seq(ChangeSteps)
        /\ <<>> \in Seq(ChangeSteps)
    BY <2>1, ChangeParts, Zenon
  <2> QED BY <1>5, <2>2, ContinueType
<1>6. CASE Done /\ comp.todo # <<>>
  BY <1>6, DoneType
<1> QED
  BY <1>1, <1>2, <1>3, <1>4, <1>5, <1>6
     DEF CommandNext, Step, At, CompWaitFails, CompCreate, CompJoin, CompAbortAfter, CompSpin,
         CompReturn, CompReset, CompExecute, CompQueues, CompDealloc, CompDestroy, CompState,
         CompDisabled, CompEnabled

\* Starting an output thread
LEMMA StartType ==
  ASSUME NEW shared \in SharedType, StartOutput(shared)
  PROVE  sd' \in SharedType /\ out' \in OutputType /\ OutputHolds'
<1>1. sd' \in SharedType
  BY DEF StartOutput, SharedType
<1>2. out' \in OutputType /\ OutputHolds'
  BY DEF StartOutput, OutputType, OutputHolds, OutputPCs, Maybe
<1> QED BY <1>1, <1>2

\* The handlers of commands
LEMMA PlanCommand ==
  ASSUME PlanInv, CommandNext PROVE PlanInv'
<1> USE DEF PlanInv
<1>1. EventInv' /\ comp' \in CompType
  BY EventCommand, CommandPlans
<1>2. CASE CompDispatch
  <2>1. cmdq' \in Seq(Commands)
    BY <1>2, HeadTailProperties DEF CompDispatch
  <2> QED BY <1>1, <1>2, <2>1 DEF CompDispatch, ClientSends, OutputHolds
<1>3. CASE CompCreate \/ CompAbortAfter
  <2>1. codec' \in CodecType
    <3>1. codec' = [NoCodec EXCEPT !.made = TRUE] \/ codec' = codec \/ codec' = AbortAfter(codec)
      BY <1>3 DEF CompCreate, CompAbortAfter
    <3>2. NoCodec \in CodecType
      BY DEF NoCodec, CodecType
    <3> QED BY <3>1, <3>2 DEF AbortAfter, CodecType
  <2> QED BY <1>1, <1>3, <2>1 DEF CompCreate, CompAbortAfter, ClientSends, OutputHolds
<1>4. CASE CompJoin \/ CompSpin
  <2>1. sd' \in SharedType
    BY <1>4 DEF CompJoin, CompSpin, SharedType
  <2> QED BY <1>1, <1>4, <2>1 DEF CompJoin, CompSpin, ClientSends, OutputHolds
<1>5. CASE CompReturn
  <2>1. dec' \in DecType
    BY <1>5 DEF CompReturn, DecType, Maybe
  <2>2. Arg \in Ports /\ Range(port[Arg].queue) \subseteq Bufs(Arg)
    <3>1. Arg \in Ports
      BY <1>5, StepKind DEF CompReturn, Step, At
    <3>2. port[Arg].queue \in Seq(Bufs(Arg))
      BY <3>1 DEF EventInv, PortsGood, PortGood
    <3>3. \A i \in DOMAIN port[Arg].queue : port[Arg].queue[i] \in Bufs(Arg)
      BY <3>2, ElementOfSeq
    <3> QED BY <3>1, <3>3, Zenon DEF Range
  <2>3. \E more \in SUBSET (InBufs \cup OutBufs) : cli' = [cli EXCEPT !.held = @ \cup more]
    <3> DEFINE back == Range(port[Arg].queue) \cup ({dec.prev} \ {NULL})
    <3>1. back \subseteq InBufs \cup OutBufs
      BY <2>2 DEF DecType, Maybe, Bufs
    <3>2. \E refill : cli' = [cli EXCEPT !.held = @ \cup (back \ refill)]
      BY <1>5 DEF CompReturn
    <3> HIDE DEF back
    <3> QED BY <3>1, <3>2
  <2>4. cli' \in ClientType /\ ClientSends'
    BY <2>3 DEF ClientType, ClientSends
  <2> QED BY <1>1, <1>5, <2>1, <2>4 DEF CompReturn, OutputHolds
<1>6. CASE CompReset
  <2>1. dec' \in DecType
    BY <1>6 DEF CompReset, DecType, NoList, Maybe
  <2>2. cli' \in ClientType /\ ClientSends'
    BY <1>6 DEF CompReset, ClientType, ClientSends, Maybe
  <2>3. sd' \in SharedType /\ out' \in OutputType /\ OutputHolds'
    <3> DEFINE cleared == [sd EXCEPT !.eos = FALSE, !.eosAddr = NULL]
    <3>1. cleared \in SharedType
      BY DEF SharedType, Maybe
    <3>2. StartOutput(cleared) \/ (sd' = cleared /\ UNCHANGED out)
      BY <1>6 DEF CompReset
    <3> HIDE DEF cleared
    <3> QED BY <3>1, <3>2, StartType DEF OutputHolds
  <2> QED BY <1>1, <1>6, <2>1, <2>2, <2>3 DEF CompReset
<1>7. CASE CompExecute
  <2>1. dec' \in DecType
    BY <1>7 DEF CompExecute, DecType
  <2>2. sd' \in SharedType /\ out' \in OutputType /\ OutputHolds'
    BY <1>7, StartType DEF CompExecute, OutputHolds
  <2> QED BY <1>1, <1>7, <2>1, <2>2 DEF CompExecute, ClientSends
<1>8. CASE CompDestroy
  <2>1. dec' \in DecType
    BY <1>8 DEF CompDestroy, DecType
  <2>2. cli' \in ClientType /\ ClientSends'
    BY <1>8 DEF CompDestroy, ClientType, ClientSends, Maybe
  <2>3. sd' \in SharedType /\ codec' \in CodecType
    BY <1>8 DEF CompDestroy, SharedType, CodecType, NoCodec, Maybe
  <2> QED BY <1>1, <1>8, <2>1, <2>2, <2>3 DEF CompDestroy, OutputHolds
<1>9. CASE CompState
  <2>1. At("state") => Arg \in States
    BY StepKind DEF At
  <2>2. dec' \in DecType
    <3>1. \/ Arg \in States /\ dec' = [dec EXCEPT !.state = Arg, !.trans = Arg]
          \/ dec' = [dec EXCEPT !.trans = dec.state]
          \/ dec' = [dec EXCEPT !.state = "Invalid", !.run = FALSE]
      BY <1>9, <2>1 DEF CompState, Step, At
    <3> QED BY <3>1 DEF DecType, States
  <2> QED BY <1>1, <1>9, <2>2 DEF CompState, ClientSends, OutputHolds
<1>10. CASE CompDisabled
  <2>1. dec' \in DecType
    BY <1>10 DEF CompDisabled, DecType, NoList, Maybe
  <2> QED BY <1>1, <1>10, <2>1 DEF CompDisabled, ClientSends, OutputHolds
<1>11. CASE CompEnabled
  <2>1. PICK on : on = (dec.reconf /\ Arg # "out")
    OBVIOUS
  <2>2. on \in BOOLEAN
    BY <2>1, Zenon
  <2>3. dec' = [dec EXCEPT !.reconf = on]
    BY <1>11, <2>1 DEF CompEnabled
  <2>4. dec' \in DecType
    BY <2>2, <2>3 DEF DecType
  <2> QED BY <1>1, <1>11, <2>4 DEF CompEnabled, ClientSends, OutputHolds
<1>12. CASE UNCHANGED <<dec, sd, port, codec, cmdq, cli, out>>
  BY <1>1, <1>12 DEF ClientSends, OutputHolds
<1> QED
  BY <1>2, <1>3, <1>4, <1>5, <1>6, <1>7, <1>8, <1>9, <1>10, <1>11, <1>12
     DEF CommandNext, CompDrained, CompWaitReady, CompWaitEnds, CompWaitFails, CompQueues, CompDealloc

\* Decoding a buffer
LEMMA PlanDecode ==
  ASSUME PlanInv, DecodeNext PROVE PlanInv'
<1> USE DEF PlanInv
<1>1. EventInv'
  BY EventDecode
<1>0. [comp EXCEPT !.todo = <<>>, !.buf = NULL] \in CompType
  <2>1. <<>> \in Seq(DecodeSteps)
    OBVIOUS
  <2> DEFINE none == <<>>
  <2>2. none \in Seq(DecodeSteps)
    BY <2>1
  <2> HIDE DEF none
  <2>3. [comp EXCEPT !.todo = none, !.buf = NULL] \in CompType
    BY <2>2 DEF CompType, Maybe
  <2> QED BY <2>3 DEF none
<1> DEFINE Single == {<<<<name, NULL>>>> : name \in {"data", "tail", "finish"}}
<1>2. ASSUME NEW steps \in Single, Continue(steps) PROVE comp' \in CompType
  <2>1. PICK name \in {"data", "tail", "finish"} : steps = <<<<name, NULL>>>>
    BY <1>2
  <2>2. <<name, NULL>> \in DecodeSteps
    BY DEF DecodeSteps
  <2>3. steps \in Seq(DecodeSteps)
    BY <2>1, <2>2
  <2> QED BY <1>2, <2>3, ContinueType
<1>3. ASSUME NEW n \in 1 .. CountMin,
             Continue(<<<<"register", n>>>>) \/ Continue(<<<<"no-buffer", n>>>>)
      PROVE  comp' \in CompType
  <2>1. <<"register", n>> \in DecodeSteps /\ <<"no-buffer", n>> \in DecodeSteps
    BY DEF DecodeSteps
  <2>2. <<<<"register", n>>>> \in Seq(DecodeSteps) /\ <<<<"no-buffer", n>>>> \in Seq(DecodeSteps)
    BY <2>1
  <2> QED BY <1>3, <2>2, ContinueType
<1>4. CountMin \in Nat \ {0} /\ 1 .. CountMin \subseteq Slots
  <2>1. Cardinality(OutBufs) \in Nat /\ CountMin \in 1 .. Cardinality(OutBufs)
    BY DecoderConstantsOK, FS_CardinalityType DEF DecoderConstantsOK
  <2> QED BY <2>1 DEF Slots
<1>5. port["out"].queue \in Seq(OutBufs) /\ port["in"].queue \in Seq(InBufs)
  BY DEF EventInv, PortsGood, PortGood, Ports, Bufs
<1>6. Decoding => sd' \in SharedType
  BY DEF Decoding, SharedType, CompType
<1>7. CASE DecodeStart
  <2>1. Head(port["in"].queue) \in InBufs
    BY <1>5, <1>7, HeadTailProperties DEF DecodeStart
  <2>2. PICK content \in {"data", "empty"} :
          comp' = [comp EXCEPT !.buf = Head(port["in"].queue),
                               !.todo = <<<<"extra", NULL>>, <<content, NULL>>>>]
    BY <1>7 DEF DecodeStart
  <2>3. <<"extra", NULL>> \in DecodeSteps /\ <<content, NULL>> \in DecodeSteps
    BY DEF DecodeSteps
  <2>4. <<<<"extra", NULL>>, <<content, NULL>>>> \in Seq(DecodeSteps)
    BY <2>3
  <2>5. comp' \in CompType
    BY <2>1, <2>2, <2>4 DEF CompType, Maybe
  <2> QED BY <1>1, <1>7, <2>5 DEF DecodeStart, ClientSends, OutputHolds
<1>8. CASE DecodeExtra
  BY <1>1, <1>8, DoneType DEF DecodeExtra, Step, At, ClientSends, OutputHolds
<1>9. CASE DecodeStop
  <2>1. comp' \in CompType
    BY <1>2, <1>9 DEF DecodeStop
  <2> QED BY <1>1, <1>9, <2>1 DEF DecodeStop, ClientSends, OutputHolds
<1>10. CASE DecodeEmpty \/ DecodeAborted
  <2>1. comp' \in CompType
    BY <1>2, <1>10 DEF DecodeEmpty, DecodeAborted
  <2>2. sd' \in SharedType
    BY <1>10 DEF DecodeEmpty, DecodeAborted, SharedType, CompType
  <2> QED BY <1>1, <1>10, <2>1, <2>2 DEF DecodeEmpty, DecodeAborted, ClientSends, OutputHolds
<1>11. CASE DecodeHeaders \/ DecodeNewHeaders
  <2>1. codec' \in CodecType
    BY <1>11 DEF DecodeHeaders, DecodeNewHeaders, CodecType
  <2> QED BY <1>1, <1>6, <1>11, <2>1 DEF DecodeHeaders, DecodeNewHeaders, ClientSends, OutputHolds
<1>12. CASE DecodeReconfigure
  <2>1. codec' \in CodecType /\ dec' \in DecType
    BY <1>12 DEF DecodeReconfigure, CodecType, DecType
  <2> QED BY <1>1, <1>6, <1>12, <2>1 DEF DecodeReconfigure, ClientSends, OutputHolds
<1>13. CASE DecodeWaiting
  <2>1. comp' \in CompType
    <3>1. 1 \in 1 .. CountMin
      BY <1>4
    <3> QED BY <1>3, <1>13, <3>1 DEF DecodeWaiting
  <2> QED BY <1>1, <1>6, <1>13, <2>1 DEF DecodeWaiting, ClientSends, OutputHolds
<1>14. CASE DecodeRegister
  <2>1. Arg \in 1 .. CountMin
    BY <1>14, StepKind DEF DecodeRegister, Step, At
  <2>2. CASE Arg > Len(port["out"].queue)
    <3>1. comp' \in CompType
      BY <1>3, <1>14, <2>1, <2>2 DEF DecodeRegister
    <3> QED BY <1>1, <1>14, <2>2, <3>1 DEF DecodeRegister, ClientSends, OutputHolds
  <2>3. CASE ~(Arg > Len(port["out"].queue))
    <3> DEFINE b == port["out"].queue[Arg]
    <3>1. b \in OutBufs
      BY <1>4, <1>5, <2>1, <2>3
    <3>2. PICK last : last = (Arg = CountMin)
      OBVIOUS
    <3>3. PICK extra : extra = (dec.extra \/ last)
      OBVIOUS
    <3>4. extra \in BOOLEAN
      BY <3>3, Zenon
    <3>5. /\ dec' = [dec EXCEPT !.list[Arg] = b, !.extra = extra]
          /\ codec' = IF last THEN [SetFrameBuffer(codec, b) EXCEPT !.phase = "run"]
                     ELSE SetFrameBuffer(codec, b)
          /\ Continue(IF last THEN <<<<"data", NULL>>>> ELSE <<<<"register", Arg + 1>>>>)
      BY <1>14, <2>3, <3>2, <3>3 DEF DecodeRegister
    <3> HIDE DEF b
    <3>6. dec' \in DecType
      <4>1. [dec.list EXCEPT ![Arg] = b] \in [Slots -> Maybe(OutBufs)]
        BY <3>1 DEF DecType, Maybe
      <4>2. dec' = [dec EXCEPT !.list = [dec.list EXCEPT ![Arg] = b], !.extra = extra]
        BY <3>5
      <4> QED BY <3>4, <4>1, <4>2 DEF DecType
    <3>7. codec' \in CodecType
      <4>1. SetFrameBuffer(codec, b) \in CodecType
        BY <3>1, CodecOps
      <4> QED BY <3>5, <4>1 DEF CodecType
    <3>8. comp' \in CompType
      <4>1. CASE Arg = CountMin
        BY <1>2, <3>2, <3>5, <4>1
      <4>2. CASE Arg # CountMin
        <5>1. Arg + 1 \in 1 .. CountMin
          BY <1>4, <2>1, <4>2
        <5> QED BY <1>3, <3>2, <3>5, <4>2, <5>1
      <4> QED BY <4>1, <4>2
    <3> QED BY <1>1, <1>14, <3>6, <3>7, <3>8 DEF DecodeRegister, ClientSends, OutputHolds
  <2> QED BY <2>2, <2>3
<1>15. CASE DecodeNoBuffer
  <2>1. Arg \in 1 .. CountMin
    BY <1>15, StepKind DEF DecodeNoBuffer, Step, At
  <2>2. comp' \in CompType
    BY <1>2, <1>3, <1>15, <2>1 DEF DecodeNoBuffer
  <2> QED BY <1>1, <1>15, <2>2 DEF DecodeNoBuffer, ClientSends, OutputHolds
<1>16. ASSUME NEW more \in BOOLEAN, DecodePicture(more) PROVE PlanInv'
  <2>1. codec' \in CodecType
    <3>1. PICK b \in codec.free : codec' = [codec EXCEPT !.free = @ \ {b}, !.pics = Append(@, b)]
      BY <1>16 DEF DecodePicture
    <3>2. Append(codec.pics, b) \in Seq(OutBufs) /\ codec.free \ {b} \in SUBSET OutBufs
      BY DEF CodecType
    <3> QED BY <3>1, <3>2 DEF CodecType
  <2>2. comp' \in CompType
    BY <1>2, <1>16 DEF DecodePicture
  <2> QED BY <1>1, <1>6, <1>16, <2>1, <2>2 DEF DecodePicture, ClientSends, OutputHolds
<1>17. CASE DecodeNothing
  <2>1. comp' \in CompType
    BY <1>2, <1>17 DEF DecodeNothing
  <2> QED BY <1>1, <1>6, <1>17, <2>1 DEF DecodeNothing, ClientSends, OutputHolds
<1>18. CASE DecodeError
  <2>1. /\ <<"join", NULL>> \in FailSteps /\ <<"abortafter", NULL>> \in FailSteps
        /\ <<"failed", NULL>> \in FailSteps
    BY DEF FailSteps
  <2>2. JoinAndAbort \in Seq(FailSteps) /\ <<<<"failed", NULL>>>> \in Seq(FailSteps)
    BY <2>1 DEF JoinAndAbort
  <2>3. JoinAndAbort \o <<<<"failed", NULL>>>> \in Seq(FailSteps)
    BY <2>2
  <2>4. comp' \in CompType
    BY <1>18, <2>3, ContinueType DEF DecodeError
  <2>5. codec' \in CodecType
    BY <1>18 DEF DecodeError, Abort, CodecType
  <2> QED BY <1>1, <1>6, <1>18, <2>4, <2>5 DEF DecodeError, ClientSends, OutputHolds
<1>19. CASE DecodeFailed
  <2>1. sd' \in SharedType /\ dec' \in DecType
    BY <1>19 DEF DecodeFailed, SharedType, DecType, States
  <2>2. comp' \in CompType
    BY <1>0, <1>19 DEF DecodeFailed
  <2> QED BY <1>1, <1>19, <2>1, <2>2 DEF DecodeFailed, ClientSends, OutputHolds
<1>20. CASE DecodeTail
  <2>1. codec' \in CodecType
    BY <1>20 DEF DecodeTail, EndOfStream, CodecType
  <2>2. comp' \in CompType
    <3>1. CASE dec.reconf
      BY <1>0, <1>20, <3>1 DEF DecodeTail
    <3>2. CASE ~dec.reconf
      BY <1>2, <1>20, <3>2 DEF DecodeTail, Continue
    <3> QED BY <3>1, <3>2
  <2> QED BY <1>1, <1>20, <2>1, <2>2 DEF DecodeTail, ClientSends, OutputHolds
<1>21. CASE DecodeFinish
  <2>1. cli' \in ClientType /\ ClientSends'
    BY <1>21 DEF DecodeFinish, ClientType, ClientSends, DecType, Maybe
  <2>2. dec' \in DecType
    BY <1>21 DEF DecodeFinish, DecType, CompType
  <2>3. comp' \in CompType
    BY <1>0, <1>21 DEF DecodeFinish
  <2> QED BY <1>1, <1>21, <2>1, <2>2, <2>3 DEF DecodeFinish, OutputHolds
<1> QED
  BY <1>7, <1>8, <1>9, <1>10, <1>11, <1>12, <1>13, <1>14, <1>15, <1>16, <1>17, <1>18, <1>19,
     <1>20, <1>21 DEF DecodeNext

\* The output thread
LEMMA PlanOutput ==
  ASSUME PlanInv, OutputNext PROVE PlanInv'
<1> USE DEF PlanInv
<1>1. EventInv'
  BY EventOutput
<1>2. ASSUME NEW pc \in OutputPCs \ {"frame", "check", "find", "deliver", "eosdeliver"}, Goto(pc)
      PROVE  out' \in OutputType /\ OutputHolds'
  BY <1>2 DEF Goto, OutputType, OutputHolds
<1>3. CASE OutStart \/ OutFlushed \/ OutEosPop
  <2>1. sd' \in SharedType
    BY <1>3 DEF OutStart, OutFlushed, OutEosPop, SharedType
  <2>2. Goto("loop") \/ Goto("exit")
    BY <1>3 DEF OutStart, OutFlushed, OutEosPop
  <2> QED BY <1>1, <1>2, <1>3, <2>1, <2>2 DEF OutStart, OutFlushed, OutEosPop, OutputPCs, ClientSends
<1>4. CASE OutLoop \/ OutGetEos \/ OutGetAborted
  <2>1. Goto("get") \/ Goto("exit") \/ Goto("eos")
    BY <1>4 DEF OutLoop, OutGetEos, OutGetAborted
  <2> QED BY <1>1, <1>2, <1>4, <2>1 DEF OutLoop, OutGetEos, OutGetAborted, OutputPCs, ClientSends
<1>5. CASE OutGetFlushed
  <2>1. codec' \in CodecType
    BY <1>5 DEF OutGetFlushed, CodecType
  <2> QED BY <1>1, <1>2, <1>5, <2>1 DEF OutGetFlushed, OutputPCs, ClientSends
<1>6. CASE OutExit
  <2>1. sd' \in SharedType
    BY <1>6 DEF OutExit, SharedType
  <2>2. out' \in OutputType /\ OutputHolds'
    BY <1>6 DEF OutExit, OutputType, OutputHolds, OutputPCs, Maybe
  <2> QED BY <1>1, <1>6, <2>1, <2>2 DEF OutExit, ClientSends
<1>7. CASE OutGetFrame
  <2>1. Head(codec.pics) \in OutBufs /\ Tail(codec.pics) \in Seq(OutBufs) /\ NULL \notin OutBufs
    BY <1>7, HeadTailProperties, DecoderConstantsOK DEF OutGetFrame, CodecType, DecoderConstantsOK
  <2>2. codec' \in CodecType
    BY <1>7, <2>1 DEF OutGetFrame, CodecType
  <2>3. out' \in OutputType /\ OutputHolds'
    BY <1>7, <2>1 DEF OutGetFrame, OutputType, OutputHolds, OutputPCs, Maybe
  <2> QED BY <1>1, <1>7, <2>2, <2>3 DEF OutGetFrame, ClientSends
<1>8. CASE OutHasFrame
  <2>1. sd' \in SharedType
    BY <1>8 DEF OutHasFrame, SharedType
  <2>2. out' \in OutputType /\ OutputHolds'
    BY <1>8 DEF OutHasFrame, OutAt, Goto, OutputType, OutputHolds, OutputPCs
  <2> QED BY <1>1, <1>8, <2>1, <2>2 DEF OutHasFrame, ClientSends
<1>9. CASE OutCheck
  <2>1. out' \in OutputType /\ OutputHolds'
    BY <1>9 DEF OutCheck, OutAt, Goto, OutputType, OutputHolds, OutputPCs, SharedType
  <2> QED BY <1>1, <1>9, <2>1 DEF OutCheck, ClientSends
<1>10. CASE OutFind
  <2>1. DOMAIN port["out"].queue \subseteq Nat
    <3>1. port["out"].queue \in Seq(OutBufs)
      BY DEF EventInv, PortsGood, PortGood, Ports, Bufs
    <3> QED BY <3>1
  <2>2. Goto("assert") \/ \E i \in Nat : out' = [out EXCEPT !.pc = "deliver", !.idx = i]
    BY <1>10, <2>1 DEF OutFind
  <2>3. out' \in OutputType /\ OutputHolds'
    BY <1>10, <2>2 DEF OutFind, OutAt, Goto, OutputType, OutputHolds, OutputPCs
  <2> QED BY <1>1, <1>10, <2>3 DEF OutFind, ClientSends
<1>11. CASE OutDeliver
  <2>1. cli' \in ClientType /\ ClientSends'
    BY <1>11 DEF OutDeliver, OutAt, ClientType, ClientSends, OutputHolds, OutputType, Maybe
  <2>2. out' \in OutputType /\ OutputHolds'
    BY <1>11 DEF OutDeliver, OutAt, OutputType, OutputHolds, OutputPCs, Maybe
  <2> QED BY <1>1, <1>11, <2>1, <2>2 DEF OutDeliver
<1>12. CASE OutPop
  <2>1. Goto("loop") \/ Goto("assert")
    BY <1>12, Zenon DEF OutPop
  <2> QED BY <1>1, <1>2, <1>12, <2>1 DEF OutPop, OutputPCs, ClientSends
<1>13. CASE OutEos
  <2>1. \/ Goto("exit")
        \/ \E b \in OutBufs : out' = [out EXCEPT !.pc = "eosdeliver", !.frm = b]
    <3>1. port["out"].queue \in Seq(OutBufs)
      BY DEF EventInv, PortsGood, PortGood, Ports, Bufs
    <3> QED BY <1>13, <3>1, HeadTailProperties DEF OutEos
  <2>2. NULL \notin OutBufs
    BY DecoderConstantsOK DEF DecoderConstantsOK
  <2>3. out' \in OutputType /\ OutputHolds'
    BY <2>1, <2>2 DEF Goto, OutputType, OutputHolds, OutputPCs, Maybe
  <2> QED BY <1>1, <1>13, <2>3 DEF OutEos, ClientSends
<1>14. CASE OutEosDeliver
  <2>1. out.frm \in OutBufs
    BY <1>14 DEF OutEosDeliver, OutAt, OutputHolds, OutputType, Maybe
  <2>2. sd' \in SharedType
    BY <1>14, <2>1 DEF OutEosDeliver, SharedType, Maybe
  <2>3. cli' \in ClientType /\ ClientSends'
    BY <1>14, <2>1 DEF OutEosDeliver, ClientType, ClientSends
  <2>4. Goto("exit") \/ Goto("eospop")
    BY <1>14 DEF OutEosDeliver
  <2> QED BY <1>1, <1>2, <1>14, <2>2, <2>3, <2>4 DEF OutEosDeliver, OutputPCs
<1> QED
  BY <1>3, <1>4, <1>5, <1>6, <1>7, <1>8, <1>9, <1>10, <1>11, <1>12, <1>13, <1>14 DEF OutputNext

\* PlanInv holds in every reachable state.
LEMMA PlanInvariant == Spec => []PlanInv
<1>1. PlanInv /\ [Next]_vars => PlanInv'
  <2> SUFFICES ASSUME PlanInv, [Next]_vars PROVE PlanInv'
    OBVIOUS
  <2>1. CASE UNCHANGED vars
    BY <2>1 DEF vars, PlanInv, EventInv, PortsGood, ClientGood, OutputGood, ClientSends, OutputHolds
  <2> QED BY <2>1, PlanClient, PlanCommand, PlanDecode, PlanOutput DEF Next
<1> QED BY PlanInit, <1>1, PTL DEF Spec

\* Whatever the client sends and however the threads interleave, the fields of
\* OMX_DECODER and SHARED_DATA, the ports, the codec and the threads have their
\* types: a port's lists hold only that port's buffers, a plan of the component
\* thread holds steps of one kind, and no buffer that is handed to the client,
\* kept as prevBuffer or registered with the codec is a null pointer.
THEOREM DecoderTyped == Spec => []TypeOK
<1>1. PlanInv => TypeOK
  BY DEF PlanInv, TypeOK, EventInv, PortsGood, PortGood, PortType
<1> QED BY PlanInvariant, <1>1, PTL

-----------------------------------------------------------------------------
(* Transitions *)

\* Step x ends the transition to state t, with success or with an error.
Ends(x, t) == x = <<"state", t>> \/ x[1] \in {"reject", "invalid", "assert", "failed"}
EndIn(todo, t) == \E i \in DOMAIN todo : Ends(todo[i], t)

\* A step that does not end a transition leaves its end in the plan.
LEMMA DoneKeepsEnd ==
  ASSUME PlanInv, comp.todo # <<>>, Done, NEW t, ~Ends(Head(comp.todo), t),
         EndIn(comp.todo, t)
  PROVE  EndIn(comp'.todo, t)
<1>1. PICK K : comp.todo \in Seq(K)
  BY DEF PlanInv, CompType
<1> DEFINE s == comp.todo
           r == Tail(s)
<1>2. PICK i \in DOMAIN s : Ends(s[i], t)
  BY DEF EndIn
<1>3. /\ r \in Seq(K) /\ Len(r) = Len(s) - 1 /\ Len(s) \in Nat
      /\ \A j \in 1 .. Len(r) : r[j] = s[j + 1]
  BY <1>1, HeadTailProperties
<1>4. DOMAIN s = 1 .. Len(s) /\ DOMAIN r = 1 .. Len(r) /\ Head(s) = s[1]
  BY <1>1, <1>3
<1>5. comp'.todo = r
  BY DEF Done, PlanInv, CompType
<1> HIDE DEF r, s
<1>6. i # 1
  BY <1>2, <1>4, Zenon DEF s
<1>7. i - 1 \in 1 .. Len(r) /\ (i - 1) + 1 = i
  BY <1>3, <1>4, <1>6
<1>8. r[i - 1] = s[i]
  BY <1>3, <1>7
<1> QED BY <1>2, <1>4, <1>5, <1>7, <1>8, Zenon DEF EndIn

\* Enabling a port and decoding a buffer end no transition.
LEMMA NoEndInOtherPlans ==
  ASSUME NEW todo, NEW t, todo \in Seq(EnableSteps) \cup Seq(DecodeSteps)
  PROVE  ~EndIn(todo, t)
<1>1. \A i \in DOMAIN todo : todo[i] \in EnableSteps \cup DecodeSteps
  BY ElementOfSeq
<1>2. \A x \in EnableSteps \cup DecodeSteps : ~Ends(x, t)
  BY DEF EnableSteps, DecodeSteps, Ends
<1> QED BY <1>1, <1>2, Zenon DEF EndIn

\* A handler for a new state has the end of the transition in its plan.
LEMMA PlanHasEnd ==
  ASSUME NEW t \in States, t # dec.state PROVE EndIn(Plan(<<"StateSet", t>>), t)
<1>1. Plan(<<"StateSet", t>>) = StatePlan(t)
  BY DEF Plan
<1>2. CASE \E p \in Seq(ChangeSteps) : StatePlan(t) = p \o <<<<"state", t>>>>
  <2>1. <<"state", t>> \in ChangeSteps
    BY DEF ChangeSteps
  <2>2. PICK p \in Seq(ChangeSteps) : StatePlan(t) = p \o <<<<"state", t>>>>
    BY <1>2
  <2>3. \E i \in DOMAIN (p \o <<<<"state", t>>>>) : (p \o <<<<"state", t>>>>)[i] = <<"state", t>>
    BY <2>1, EndsIn
  <2> QED BY <1>1, <2>2, <2>3, Zenon DEF EndIn, Ends
<1>3. CASE StatePlan(t) \in {<<<<"invalid", NULL>>>>, <<<<"reject", NULL>>>>}
  BY <1>1, <1>3 DEF EndIn, Ends
<1> QED BY <1>2, <1>3, StatePlanEnds

\* The command that will end the transition is on its way, or its end is in the plan.
OnItsWay == <<"StateSet", dec.trans>> \in Range(cmdq) \/ <<"StateSet", dec.trans>> = cli.cmd
PendingNow == OnItsWay \/ EndIn(comp.todo, dec.trans)

\* TransitionPending, in the terms used here.
LEMMA PendingMeans ==
  TransitionPending <=> (dec.trans # dec.state /\ dec.state # "Invalid" => PendingNow)
BY DEF TransitionPending, PendingNow, OnItsWay, InFlight, EndIn, Ends

\* The same after a step.
LEMMA PendingMeansNext ==
  TransitionPending' <=> (dec'.trans # dec'.state /\ dec'.state # "Invalid" => PendingNow')
BY DEF TransitionPending, PendingNow, OnItsWay, InFlight, EndIn, Ends

\* What is pending stays so when nothing of it is touched, and when a step that
\* does not end it is done.
LEMMA PendingKept ==
  ASSUME PlanInv, TransitionPending, cmdq' = cmdq, cli'.cmd = cli.cmd,
         dec'.trans = dec.trans, dec'.state = dec.state,
         \/ comp'.todo = comp.todo
         \/ EndIn(comp.todo, dec.trans) => EndIn(comp'.todo, dec.trans)
  PROVE  TransitionPending'
<1>1. OnItsWay => OnItsWay'
  BY DEF OnItsWay
<1>2. EndIn(comp.todo, dec.trans) => EndIn(comp'.todo, dec.trans)
  BY DEF EndIn
<1>3. PendingNow => PendingNow'
  BY <1>1, <1>2 DEF PendingNow
<1>4. dec'.trans # dec'.state /\ dec'.state # "Invalid" => PendingNow'
  BY <1>3, PendingMeans
<1> QED BY <1>4, PendingMeansNext

\* So a step of the plan that does not end the transition leaves it pending.
LEMMA DonePending ==
  ASSUME PlanInv, TransitionPending, cmdq' = cmdq, cli'.cmd = cli.cmd,
         dec'.trans = dec.trans, dec'.state = dec.state,
         comp.todo # <<>>, Done, ~Ends(Head(comp.todo), dec.trans)
  PROVE  TransitionPending'
BY DoneKeepsEnd, PendingKept

\* The client's calls
LEMMA PendingClient ==
  ASSUME PlanInv, TransitionPending, ClientNext PROVE TransitionPending'
<1> USE DEF PlanInv
<1>1. ASSUME NEW c \in Commands, SendCommand(c) PROVE TransitionPending'
  <2> USE <1>1 DEF SendCommand
  <2>1. cli'.cmd = c /\ cli.cmd = NULL /\ cmdq' = cmdq /\ comp' = comp
    BY DEF ClientType, ClientSends
  <2>2. CASE c[1] = "StateSet"
    <3>1. c = <<"StateSet", c[2]>> /\ dec'.trans = c[2]
      <4>1. c = <<"StateSet", c[2]>>
        BY <2>2 DEF Commands
      <4>2. dec' = [dec EXCEPT !.trans = c[2], !.release = TRUE] \/ dec' = [dec EXCEPT !.trans = c[2]]
        BY <2>2 DEF SendFlags
      <4> QED BY <4>1, <4>2 DEF DecType
    <3>2. OnItsWay'
      BY <2>1, <3>1 DEF OnItsWay
    <3>3. dec'.trans # dec'.state /\ dec'.state # "Invalid" => PendingNow'
      BY <3>2 DEF PendingNow
    <3> QED BY <3>3, PendingMeansNext
  <2>3. CASE c[1] # "StateSet"
    <3>1. dec'.trans = dec.trans /\ dec'.state = dec.state
      BY <2>3 DEF Commands, SendFlags, DecType
    <3>2. <<"StateSet", dec.trans>> \in Commands /\ NULL \notin Commands
      BY DecoderConstantsOK DEF DecType, Commands, DecoderConstantsOK
    <3>3. OnItsWay => OnItsWay'
      BY <2>1, <3>1, <3>2 DEF OnItsWay
    <3>4. EndIn(comp.todo, dec.trans) => EndIn(comp.todo, dec.trans)'
      BY <2>1, <3>1 DEF EndIn
    <3>5. dec'.trans # dec'.state /\ dec'.state # "Invalid" => PendingNow'
      BY <3>1, <3>3, <3>4, PendingMeans DEF PendingNow
    <3> QED BY <3>5, PendingMeansNext
  <2> QED BY <2>2, <2>3
<1>2. CASE SendQueue
  <2> USE <1>2 DEF SendQueue
  <2>1. cli.cmd \in Commands /\ cmdq' = Append(cmdq, cli.cmd)
    BY DEF ClientType, ClientSends, Maybe
  <2>2. \A x : x \in Range(cmdq) \/ x = cli.cmd => x \in Range(cmdq')
    <3>1. /\ Len(cmdq) \in Nat /\ DOMAIN cmdq = 1 .. Len(cmdq)
          /\ DOMAIN cmdq' = 1 .. Len(cmdq) + 1 /\ cmdq'[Len(cmdq) + 1] = cli.cmd
          /\ \A i \in 1 .. Len(cmdq) : cmdq'[i] = cmdq[i]
      BY <2>1
    <3>2. DOMAIN cmdq \subseteq DOMAIN cmdq' /\ Len(cmdq) + 1 \in DOMAIN cmdq'
      BY <3>1
    <3> QED BY <3>1, <3>2, Zenon DEF Range
  <2>3. OnItsWay => OnItsWay'
    BY <2>2 DEF OnItsWay
  <2>4. EndIn(comp.todo, dec.trans) => EndIn(comp.todo, dec.trans)'
    BY DEF EndIn
  <2>5. dec'.trans # dec'.state /\ dec'.state # "Invalid" => PendingNow'
    BY <2>3, <2>4, PendingMeans DEF PendingNow
  <2> QED BY <2>5, PendingMeansNext
<1>3. CASE cmdq' = cmdq /\ comp' = comp /\ cli'.cmd = cli.cmd /\ dec'.trans = dec.trans
           /\ dec'.state = dec.state
  BY <1>3, PendingKept
<1>4. ASSUME NEW p \in Ports, NEW b \in Bufs(p), AllocateBuffer(p, b) \/ FreeBuffer(p, b)
      PROVE  TransitionPending'
  BY <1>3, <1>4 DEF AllocateBuffer, FreeBuffer, ClientType
<1>5. ASSUME NEW b \in InBufs, EmptyThisBuffer(b) PROVE TransitionPending'
  BY <1>3, <1>5 DEF EmptyThisBuffer, ClientType
<1>6. ASSUME NEW b \in OutBufs, FillThisBuffer(b) PROVE TransitionPending'
  BY <1>3, <1>6 DEF FillThisBuffer, ClientType, DecType
<1>7. CASE FillPush \/ FillConsume
  BY <1>3, <1>7 DEF FillPush, FillConsume, ClientType
<1> QED BY <1>1, <1>2, <1>4, <1>5, <1>6, <1>7 DEF ClientNext

\* The command handlers
LEMMA PendingCommand ==
  ASSUME PlanInv, TransitionPending, CommandNext PROVE TransitionPending'
<1> USE DEF PlanInv
<1>1. CASE CompDispatch
  <2> USE <1>1 DEF CompDispatch
  <2>1. /\ cmdq # <<>> /\ comp.todo = <<>> /\ cmdq' = Tail(cmdq) /\ dec' = dec /\ cli' = cli
        /\ comp'.todo = Plan(Head(cmdq))
    BY DEF CompType
  <2> SUFFICES ASSUME dec.trans # dec.state, dec.state # "Invalid" PROVE PendingNow'
    BY <2>1, PendingMeansNext, Zenon
  <2>2. ~EndIn(comp.todo, dec.trans)
    BY <2>1 DEF EndIn
  <2>3. OnItsWay
    BY <2>2, PendingMeans DEF PendingNow
  <2>4. CASE Head(cmdq) = <<"StateSet", dec.trans>>
    <3>1. EndIn(comp'.todo, dec.trans)
      BY <2>1, <2>4, PlanHasEnd DEF DecType
    <3> QED BY <2>1, <3>1 DEF PendingNow
  <2>5. CASE Head(cmdq) # <<"StateSet", dec.trans>>
    <3>1. \A x \in Range(cmdq) : x # Head(cmdq) => x \in Range(cmdq')
      <4> SUFFICES ASSUME NEW i \in DOMAIN cmdq, cmdq[i] # Head(cmdq)
                   PROVE  \E j \in DOMAIN cmdq' : cmdq'[j] = cmdq[i]
        BY DEF Range
      <4>1. /\ cmdq' \in Seq(Commands) /\ Len(cmdq') = Len(cmdq) - 1 /\ Len(cmdq) \in Nat
            /\ \A j \in 1 .. Len(cmdq') : cmdq'[j] = cmdq[j + 1]
        BY <2>1, HeadTailProperties
      <4>2. i \in 1 .. Len(cmdq) /\ i # 1 /\ DOMAIN cmdq' = 1 .. Len(cmdq')
        BY <4>1
      <4>3. i - 1 \in 1 .. Len(cmdq') /\ (i - 1) + 1 = i
        BY <4>1, <4>2
      <4> QED BY <4>1, <4>2, <4>3
    <3>2. OnItsWay'
      BY <2>1, <2>3, <2>5, <3>1 DEF OnItsWay
    <3> QED BY <3>2 DEF PendingNow
  <2> QED BY <2>4, <2>5
<1>2. CASE CompDrained
  BY <1>2, PendingKept DEF CompDrained, CompType
<1>3. CASE (CompWaitReady /\ ~Done) \/ CompWaitEnds
  <2> DEFINE Renamed(name) == comp' = [comp EXCEPT !.todo[1][1] = name]
             Fits(name, K) == comp.todo \in Seq(K) /\ <<name, Arg>> \in K
  <2>1. PICK name : /\ Fits(name, ChangeSteps) \/ Fits(name, EnableSteps)
                    /\ Renamed(name)
    <3>1. CASE At("ready") \/ At("ready-wait")
      <4>1. comp.todo \in Seq(ChangeSteps) /\ <<"ready", Arg>> \in ChangeSteps
            /\ <<"ready-wait", Arg>> \in ChangeSteps
        BY <3>1, StepKind DEF At, ChangeSteps
      <4>2. \/ comp' = [comp EXCEPT !.todo[1][1] = "ready-wait"]
            \/ comp' = [comp EXCEPT !.todo[1][1] = "ready"]
        BY <1>3, <3>1 DEF CompWaitReady, CompWaitEnds, At, Step
      <4>3. Fits("ready", ChangeSteps) /\ Fits("ready-wait", ChangeSteps)
        BY <4>1
      <4>4. Renamed("ready") \/ Renamed("ready-wait")
        BY <4>2
      <4> HIDE DEF Fits, Renamed
      <4> QED BY <4>3, <4>4
    <3>2. CASE At("populated") \/ At("populated-wait")
      <4>1. comp.todo \in Seq(EnableSteps) /\ <<"populated", Arg>> \in EnableSteps
            /\ <<"populated-wait", Arg>> \in EnableSteps
        BY <3>2, StepKind DEF At, EnableSteps
      <4>2. \/ comp' = [comp EXCEPT !.todo[1][1] = "populated-wait"]
            \/ comp' = [comp EXCEPT !.todo[1][1] = "populated"]
        BY <1>3, <3>2 DEF CompWaitReady, CompWaitEnds, At, Step
      <4>3. Fits("populated", EnableSteps) /\ Fits("populated-wait", EnableSteps)
        BY <4>1
      <4>4. Renamed("populated") \/ Renamed("populated-wait")
        BY <4>2
      <4> HIDE DEF Fits, Renamed
      <4> QED BY <4>3, <4>4
    <3> QED BY <1>3, <3>1, <3>2 DEF CompWaitReady, CompWaitEnds, Step
  <2>2. comp.todo # <<>> /\ ~Ends(Head(comp.todo), dec.trans)
    <3>1. Head(comp.todo)[1] \in {"ready", "ready-wait", "populated", "populated-wait"}
          /\ comp.todo # <<>>
      BY <1>3 DEF CompWaitReady, CompWaitEnds, Step, At
    <3> QED BY <3>1 DEF Ends
  <2>3. comp'.todo = [comp.todo EXCEPT ![1] = <<name, Arg>>]
    BY <2>1, <2>2, RenameType
  <2>4. EndIn(comp.todo, dec.trans) => EndIn(comp'.todo, dec.trans)
    <3> SUFFICES ASSUME NEW i \in DOMAIN comp.todo, Ends(comp.todo[i], dec.trans)
                 PROVE  i \in DOMAIN comp'.todo /\ comp'.todo[i] = comp.todo[i]
      BY Zenon DEF EndIn
    <3>1. i # 1
      BY <2>1, <2>2
    <3> QED BY <2>3, <3>1
  <2>5. UNCHANGED <<dec, cmdq, cli>>
    BY <1>3 DEF CompWaitReady, CompWaitEnds
  <2> QED BY <2>4, <2>5, PendingKept
<1>4. CASE Continue(<<<<"invalid", NULL>>>>) \/ Continue(<<<<"assert", NULL>>>>)
  <2>1. comp'.todo = <<<<"invalid", NULL>>>> \/ comp'.todo = <<<<"assert", NULL>>>>
    BY <1>4 DEF Continue, CompType
  <2>2. PendingNow'
    BY <2>1 DEF PendingNow, EndIn, Ends
  <2> QED BY <2>2, PendingMeansNext
<1>5. CASE CompWaitFails /\ Continue(<<>>)
  <2>1. At("ready-wait") \/ At("populated-wait")
    BY <1>5 DEF CompWaitFails
  <2>2. CASE At("ready-wait")
    BY <1>4, <1>5, <2>2 DEF CompWaitFails, At
  <2>3. CASE At("populated-wait")
    <3>1. comp.todo \in Seq(EnableSteps)
      BY <2>3, StepKind DEF At
    <3>2. ~EndIn(comp.todo, dec.trans)
      BY <3>1, NoEndInOtherPlans
    <3> QED BY <1>5, <3>2, PendingKept DEF CompWaitFails
  <2> QED BY <2>1, <2>2, <2>3
<1>6. CASE CompState
  <2> SUFFICES ASSUME dec'.trans # dec'.state, dec'.state # "Invalid" PROVE FALSE
    BY PendingMeansNext, Zenon
  <2>1. \/ dec' = [dec EXCEPT !.state = Arg, !.trans = Arg]
        \/ dec' = [dec EXCEPT !.trans = dec.state]
        \/ dec' = [dec EXCEPT !.state = "Invalid", !.run = FALSE]
    BY <1>6 DEF CompState, Step, At
  <2> QED BY <2>1 DEF DecType
<1>7. ASSUME comp.todo # <<>>, Head(comp.todo)[1] \notin {"state", "reject", "invalid", "assert", "failed"},
             Done, cmdq' = cmdq, cli'.cmd = cli.cmd, dec'.trans = dec.trans, dec'.state = dec.state
      PROVE  TransitionPending'
  <2>1. ~Ends(Head(comp.todo), dec.trans)
    BY <1>7 DEF Ends
  <2> QED BY <1>7, <2>1, DonePending
<1>8. CASE CompReturn
  BY <1>7, <1>8 DEF CompReturn, Step, At, DecType, ClientType
<1>9. CASE CompReset \/ CompDestroy
  BY <1>7, <1>9 DEF CompReset, CompDestroy, Step, At, DecType, ClientType
<1>10. CASE CompExecute
  BY <1>7, <1>10 DEF CompExecute, Step, At, DecType
<1>11. CASE CompDisabled
  BY <1>7, <1>11 DEF CompDisabled, Step, At, DecType
<1>12. CASE CompEnabled
  <2>1. dec'.trans = dec.trans /\ dec'.state = dec.state
    <3>1. PICK on : dec' = [dec EXCEPT !.reconf = on]
      BY <1>12 DEF CompEnabled
    <3> QED BY <3>1 DEF DecType
  <2> QED BY <1>7, <1>12, <2>1 DEF CompEnabled, Step, At
<1>13. CASE CompWaitReady /\ Done
  BY <1>7, <1>13 DEF CompWaitReady, Step, At
<1>14. CASE CompCreate
  BY <1>4, <1>7, <1>14 DEF CompCreate, Step, At
<1>15. CASE CompQueues
  BY <1>4, <1>7, <1>15 DEF CompQueues, Step, At
<1>16. CASE CompJoin \/ CompAbortAfter \/ CompSpin \/ CompDealloc
  BY <1>7, <1>16 DEF CompJoin, CompAbortAfter, CompSpin, CompDealloc, Step, At
<1>17. CASE CompWaitFails
  BY <1>4, <1>5, <1>17 DEF CompWaitFails
<1> QED
  BY <1>1, <1>2, <1>3, <1>6, <1>8, <1>9, <1>10, <1>11, <1>12, <1>13, <1>14, <1>15, <1>16, <1>17
     DEF CommandNext

\* Decoding a buffer
LEMMA PendingDecode ==
  ASSUME PlanInv, TransitionPending, DecodeNext PROVE TransitionPending'
<1> USE DEF PlanInv
<1>1. CASE DecodeFailed
  <2>1. dec'.state = "Invalid"
    BY <1>1 DEF DecodeFailed, DecType
  <2> QED BY <2>1, PendingMeansNext
<1>2. CASE DecodeError
  <2>1. comp'.todo = JoinAndAbort \o <<<<"failed", NULL>>>>
    BY <1>2 DEF DecodeError, Continue, CompType
  <2>2. EndIn(comp'.todo, dec'.trans)
    <3>1. /\ <<"join", NULL>> \in FailSteps /\ <<"abortafter", NULL>> \in FailSteps
          /\ <<"failed", NULL>> \in FailSteps
      BY DEF FailSteps
    <3>2. JoinAndAbort \in Seq(FailSteps)
      BY <3>1 DEF JoinAndAbort
    <3>3. PICK x : x = <<"failed", NULL>>
      OBVIOUS
    <3>4. comp'.todo = JoinAndAbort \o <<x>> /\ x \in FailSteps
      BY <2>1, <3>1, <3>3
    <3>5. \E i \in DOMAIN comp'.todo : comp'.todo[i] = x
      BY <3>2, <3>4, EndsIn
    <3> QED BY <3>3, <3>5 DEF EndIn, Ends
  <2> QED BY <2>2, PendingMeansNext DEF PendingNow
<1>3. CASE comp.todo = <<>> \/ comp.todo \in Seq(DecodeSteps)
  <2>1. ~EndIn(comp.todo, dec.trans)
    BY <1>3, NoEndInOtherPlans DEF EndIn
  <2>2. ASSUME cmdq' = cmdq, cli'.cmd = cli.cmd, dec'.trans = dec.trans, dec'.state = dec.state
        PROVE  TransitionPending'
    BY <2>1, <2>2, PendingKept
  <2>3. CASE DecodeRegister
    <3>1. dec' = dec \/ \E l, e : dec' = [dec EXCEPT !.list = l, !.extra = e]
      BY <2>3 DEF DecodeRegister
    <3> QED BY <2>2, <2>3, <3>1 DEF DecodeRegister, DecType
  <2>4. CASE DecodeFinish \/ DecodeReconfigure
    BY <2>2, <2>4 DEF DecodeFinish, DecodeReconfigure, DecType, ClientType
  <2>5. CASE UNCHANGED <<dec, cmdq, cli>>
    BY <2>2, <2>5
  <2> QED
    BY <1>1, <1>2, <2>3, <2>4, <2>5
       DEF DecodeNext, DecodeStart, DecodeExtra, DecodeStop, DecodeEmpty, DecodeAborted,
           DecodeHeaders, DecodeWaiting, DecodeNoBuffer, DecodePicture, DecodeNothing,
           DecodeNewHeaders, DecodeTail
<1>4. CASE ~(comp.todo = <<>> \/ comp.todo \in Seq(DecodeSteps))
  <2>1. comp.todo # <<>> /\ comp.todo \notin Seq(DecodeSteps)
    BY <1>4
  <2>2. PICK K \in {ChangeSteps, EnableSteps, FailSteps} : Head(comp.todo) \in K
    BY <2>1, StepKind
  <2>3. \A op \in {"extra", "data", "empty", "register", "no-buffer", "tail", "finish"} : ~At(op)
    BY <2>2 DEF At, ChangeSteps, EnableSteps, FailSteps
  <2>4. DecodeFailed
    BY <2>1, <2>3
       DEF DecodeNext, DecodeStart, DecodeExtra, DecodeStop, DecodeEmpty, DecodeAborted,
           DecodeHeaders, DecodeReconfigure, DecodeWaiting, DecodeRegister, DecodeNoBuffer,
           DecodePicture, DecodeNothing, DecodeNewHeaders, DecodeError, DecodeTail, DecodeFinish,
           Decoding, Step
  <2> QED BY <1>1, <2>4
<1> QED BY <1>3, <1>4

\* The output thread
LEMMA PendingOutput ==
  ASSUME PlanInv, TransitionPending, OutputNext PROVE TransitionPending'
<1>1. cmdq' = cmdq /\ comp' = comp /\ dec' = dec
  BY DEF OutputNext, OutStart, OutLoop, OutExit, OutGetEos, OutGetAborted, OutGetFlushed,
         OutGetFrame, OutFlushed, OutHasFrame, OutCheck, OutFind, OutDeliver, OutPop,
         OutEos, OutEosDeliver, OutEosPop
<1>2. cli'.cmd = cli.cmd
  BY DEF OutputNext, OutStart, OutLoop, OutExit, OutGetEos, OutGetAborted, OutGetFlushed,
         OutGetFrame, OutFlushed, OutHasFrame, OutCheck, OutFind, OutDeliver, OutPop,
         OutEos, OutEosDeliver, OutEosPop, PlanInv, ClientType
<1> QED BY <1>1, <1>2, PendingKept

\* Whatever the client sends and whatever fails, a component whose statetrans
\* differs from its state has a command queued, or a handler under way, that
\* will make them equal or report an error: the refusal of every further
\* OMX_CommandStateSet while a transition is pending never becomes permanent
\* because the transition was forgotten.
THEOREM TransitionsPending == Spec => []TransitionPending
<1>1. Init => TransitionPending
  BY DEF Init, TransitionPending
<1>2. PlanInv /\ TransitionPending /\ [Next]_vars => TransitionPending'
  <2> SUFFICES ASSUME PlanInv, TransitionPending, [Next]_vars PROVE TransitionPending'
    OBVIOUS
  <2>1. CASE UNCHANGED vars
    BY <2>1, PendingKept DEF vars
  <2> QED BY <2>1, PendingClient, PendingCommand, PendingDecode, PendingOutput DEF Next
<1> QED BY PlanInvariant, <1>1, <1>2, PTL DEF Spec

-----------------------------------------------------------------------------
(* The output thread and those who wait for it *)

\* A client that waits for its command to complete, does not pause the component
\* and flushes it only while it plays.  (Flush in Idle leaves an output thread
\* behind, and so does Pause->Idle: both break the first theorem.)
PlainClient ==
  /\ "pipeline" \notin Allow
  /\ \A x \in Legal : /\ x[2] # <<"StateSet", "Pause">>
                      /\ x[2][1] = "Flush" => x[1] = "Executing"
-----------------------------------------------------------------------------
(* The order of the steps in a plan *)

\* Steps that other steps depend on; all others may stand anywhere.
Special == {"join", "execute", "destroy", "reset", "state", "invalid", "reject", "failed",
            "assert"}
Plain(s) == \A i \in DOMAIN s : s[i][1] \notin Special

\* Changes of state that are not made this way
Unused == {"state"} \X {"Pause", "Invalid"}

\* In a plan s for state st the output thread is joined first, its start and the
\* end of the codec are followed by the new state, a flush ends with the restart
\* of the thread, and a change of state is the last step.
Fits(s, st) ==
  \A i \in DOMAIN s :
    /\ s[i][1] = "join" => i = 1
    /\ s[i][1] = "execute" => st = "Idle" /\ i = 1 /\ Len(s) = 2 /\ s[2] = <<"state", "Executing">>
    /\ s[i][1] = "destroy" => Len(s) = i + 1 /\ s[i + 1] = <<"state", "Loaded">>
    /\ s[i] = <<"reset", "flush">> => st = "Executing" /\ i = Len(s)
    /\ s[i][1] \in {"state", "invalid", "reject", "assert"} => i = Len(s)
    /\ s[i] \notin Unused

\* A concatenation, place by place.
LEMMA Concat ==
  ASSUME NEW S, NEW a \in Seq(S), NEW b \in Seq(S)
  PROVE  /\ a \o b \in Seq(S) /\ Len(a \o b) = Len(a) + Len(b)
         /\ Len(a) \in Nat /\ Len(b) \in Nat
         /\ \A i \in DOMAIN (a \o b) :
              (i \in DOMAIN a /\ (a \o b)[i] = a[i])
                \/ (i - Len(a) \in DOMAIN b /\ (a \o b)[i] = b[i - Len(a)])
         /\ \A i \in DOMAIN b : (a \o b)[Len(a) + i] = b[i]
         /\ \A i \in DOMAIN a : (a \o b)[i] = a[i]
OBVIOUS

\* Plans without special steps can be put together.
LEMMA PlainConcat ==
  ASSUME NEW S, NEW a \in Seq(S), NEW b \in Seq(S), Plain(a), Plain(b)
  PROVE  Plain(a \o b)
BY Concat DEF Plain

\* A plan without special steps fits every state.
LEMMA PlainFits == ASSUME NEW s, Plain(s), NEW st PROVE Fits(s, st)
<1> SUFFICES ASSUME NEW i \in DOMAIN s, s[i][1] \notin Special
             PROVE  /\ s[i][1] \notin {"join", "execute", "destroy", "reset", "state", "invalid", "reject", "assert"}
                    /\ s[i] # <<"reset", "flush">> /\ s[i] \notin Unused
  BY DEF Plain, Fits
<1> QED BY DEF Special, Unused

\* What is left of a plan is a plan.
LEMMA TailFits ==
  ASSUME NEW S, NEW s \in Seq(S), s # <<>>, NEW st, Fits(s, st)
  PROVE  Fits(Tail(s), st)
<1>1. /\ Tail(s) \in Seq(S) /\ Len(Tail(s)) = Len(s) - 1 /\ Len(s) \in Nat
      /\ \A i \in DOMAIN Tail(s) : Tail(s)[i] = s[i + 1] /\ i + 1 \in DOMAIN s /\ i \in Nat \ {0}
  OBVIOUS
<1>2. DOMAIN Tail(s) = 1 .. Len(s) - 1 /\ DOMAIN s = 1 .. Len(s)
  BY <1>1
<1> SUFFICES ASSUME NEW i \in DOMAIN Tail(s)
             PROVE  LET t == Tail(s) IN
                      /\ t[i][1] = "join" => i = 1
                      /\ t[i][1] = "execute" => st = "Idle" /\ i = 1 /\ Len(t) = 2 /\ t[2] = <<"state", "Executing">>
                      /\ t[i][1] = "destroy" => Len(t) = i + 1 /\ t[i + 1] = <<"state", "Loaded">>
                      /\ t[i] = <<"reset", "flush">> => st = "Executing" /\ i = Len(t)
                      /\ t[i][1] \in {"state", "invalid", "reject", "assert"} => i = Len(t)
                      /\ t[i] \notin Unused
  BY DEF Fits
<1>3. PICK j : j = i + 1 /\ j \in DOMAIN s /\ Tail(s)[i] = s[j] /\ i \in Nat \ {0}
  BY <1>1
<1>4. /\ s[j][1] = "join" => j = 1
      /\ s[j][1] = "execute" => st = "Idle" /\ j = 1 /\ Len(s) = 2 /\ s[2] = <<"state", "Executing">>
      /\ s[j][1] = "destroy" => Len(s) = j + 1 /\ s[j + 1] = <<"state", "Loaded">>
      /\ s[j] = <<"reset", "flush">> => st = "Executing" /\ j = Len(s)
      /\ s[j][1] \in {"state", "invalid", "reject", "assert"} => j = Len(s)
      /\ s[j] \notin Unused
  BY <1>3 DEF Fits
<1>5. s[j][1] # "join" /\ s[j][1] # "execute"
  BY <1>3, <1>4
<1>6. ASSUME s[j][1] = "destroy"
      PROVE  Len(Tail(s)) = i + 1 /\ Tail(s)[i + 1] = <<"state", "Loaded">>
  <2>1. Len(s) = i + 2 /\ s[i + 2] = <<"state", "Loaded">> /\ i + 1 + 1 = i + 2
    BY <1>3, <1>4, <1>6
  <2>2. i + 1 \in 1 .. Len(s) - 1
    BY <1>3, <2>1
  <2>3. Tail(s)[i + 1] = s[i + 1 + 1]
    BY <1>1, <1>2, <2>2
  <2> QED BY <1>1, <1>3, <2>1, <2>3
<1>7. j = Len(s) => i = Len(Tail(s))
  <2>1. PICK n, m : n = Len(s) /\ m = Len(Tail(s)) /\ n \in Nat /\ m = n - 1
    BY <1>1
  <2>2. i \in Nat /\ j = i + 1
    BY <1>3
  <2>3. j = n => i = m
    BY <2>1, <2>2
  <2> QED BY <2>1, <2>3
<1>8. /\ s[j] = <<"reset", "flush">> => st = "Executing" /\ i = Len(Tail(s))
      /\ s[j][1] \in {"state", "invalid", "reject", "assert"} => i = Len(Tail(s))
  BY <1>4, <1>7, Zenon
<1> QED BY <1>3, <1>4, <1>5, <1>6, <1>7, <1>8

\* The first part of stopping the output thread: it is joined, and what follows
\* depends on nothing.
Mild(x) == x[1] \notin Special \/ x = <<"reset", "idle">>
JoinFirst(s) ==
  /\ 1 \in DOMAIN s /\ s[1][1] = "join"
  /\ \A i \in DOMAIN s : i = 1 \/ Mild(s[i])

\* A plan that begins with a join may go on with mild steps,
LEMMA FrontConcat ==
  ASSUME NEW S, NEW a \in Seq(S), NEW b \in Seq(S), JoinFirst(a), \A i \in DOMAIN b : Mild(b[i])
  PROVE  JoinFirst(a \o b)
<1>1. 1 \in DOMAIN (a \o b) /\ (a \o b)[1] = a[1]
  BY Concat DEF JoinFirst
<1>2. ASSUME NEW i \in DOMAIN (a \o b), i # 1 PROVE Mild((a \o b)[i])
  <2>1. (i \in DOMAIN a /\ (a \o b)[i] = a[i]) \/ (i - Len(a) \in DOMAIN b /\ (a \o b)[i] = b[i - Len(a)])
    BY Concat
  <2> QED BY <1>2, <2>1 DEF JoinFirst
<1> QED BY <1>1, <1>2 DEF JoinFirst

\* The last step of a plan
LEMMA LastStep ==
  ASSUME NEW S, NEW a \in Seq(S), NEW x \in S
  PROVE  /\ a \o <<x>> \in Seq(S) /\ Len(a \o <<x>>) = Len(a) + 1 /\ Len(a) \in Nat
         /\ (a \o <<x>>)[Len(a) + 1] = x
         /\ DOMAIN (a \o <<x>>) = 1 .. Len(a) + 1
         /\ \A i \in DOMAIN a : (a \o <<x>>)[i] = a[i]
         /\ \A i \in DOMAIN (a \o <<x>>) :
              (i \in DOMAIN a /\ (a \o <<x>>)[i] = a[i]) \/ (i = Len(a) + 1 /\ (a \o <<x>>)[i] = x)
<1>1. <<x>> \in Seq(S) /\ Len(<<x>>) = 1 /\ <<x>>[1] = x
  OBVIOUS
<1> QED BY <1>1

\* The last steps that end a plan without conditions
Closing(x, st) ==
  \/ x[1] = "state" /\ x \notin Unused
  \/ x[1] \in {"invalid", "reject", "assert"}
  \/ x = <<"reset", "flush">> /\ st = "Executing"

\* and may then end with the step that closes it.
LEMMA LastFits ==
  ASSUME NEW S, NEW a \in Seq(S), NEW x \in S, NEW st, Plain(a) \/ JoinFirst(a), Closing(x, st)
  PROVE  Fits(a \o <<x>>, st)
<1> DEFINE s == a \o <<x>>
<1>1. Len(s) = Len(a) + 1
  BY LastStep
<1> SUFFICES ASSUME NEW i \in DOMAIN s
             PROVE  /\ s[i][1] = "join" => i = 1
                    /\ s[i][1] = "execute" => st = "Idle" /\ i = 1 /\ Len(s) = 2 /\ s[2] = <<"state", "Executing">>
                    /\ s[i][1] = "destroy" => Len(s) = i + 1 /\ s[i + 1] = <<"state", "Loaded">>
                    /\ s[i] = <<"reset", "flush">> => st = "Executing" /\ i = Len(s)
                    /\ s[i][1] \in {"state", "invalid", "reject", "assert"} => i = Len(s)
                    /\ s[i] \notin Unused
  BY DEF Fits
<1>2. (i \in DOMAIN a /\ s[i] = a[i]) \/ (i = Len(s) /\ s[i] = x)
  BY <1>1, LastStep
<1>3. (i = 1 /\ s[i][1] = "join") \/ Mild(s[i]) \/ (i = Len(s) /\ s[i] = x)
  BY <1>2 DEF Plain, JoinFirst, Mild
<1> HIDE DEF s
<1>4. CASE i = 1 /\ s[i][1] = "join"
  BY <1>4 DEF Unused
<1>5. CASE Mild(s[i])
  BY <1>5 DEF Mild, Special, Unused
<1>6. CASE i = Len(s) /\ s[i] = x
  BY <1>6 DEF Closing, Unused
<1> QED BY <1>3, <1>4, <1>5, <1>6

\* What a plan for state st promises when it is begun: the codec is destroyed, and
\* the component executes, from Idle only; leaving Executing joins the thread
\* first; Idle is reached with a codec.
Begins(s, st) ==
  \A i \in DOMAIN s :
    /\ s[i][1] = "destroy" => st = "Idle"
    /\ s[i] = <<"state", "Executing">> => st = "Idle"
    /\ s[i][1] = "state" => st # "Executing" \/ s[1][1] = "join"
    /\ s[i] = <<"state", "Idle">> => st = "Executing" \/ (i > 1 /\ s[i - 1][1] = "create")
    /\ s[i][1] = "join" => st = "Executing"

\* A plan without special steps may begin in every state.
LEMMA PlainBegins == ASSUME NEW s, Plain(s), NEW st PROVE Begins(s, st)
<1> SUFFICES ASSUME NEW i \in DOMAIN s, s[i][1] \notin Special
             PROVE  /\ s[i][1] \notin {"destroy", "state", "join"}
                    /\ s[i] # <<"state", "Executing">> /\ s[i] # <<"state", "Idle">>
  BY DEF Plain, Begins
<1> QED BY DEF Special

\* A plan of one step
LEMMA OneStep ==
  ASSUME NEW x, NEW st, Closing(x, st), x[1] = "state" => st \notin {"Executing", "Idle"} /\ x[2] \notin {"Idle", "Executing"}
  PROVE  Fits(<<x>>, st) /\ Begins(<<x>>, st)
<1>1. <<>> \in Seq({x}) /\ x \in {x} /\ <<>> \o <<x>> = <<x>> /\ Plain(<<>>)
  BY DEF Plain
<1>2. Fits(<<x>>, st)
  BY <1>1, LastFits
<1>3. Begins(<<x>>, st)
  <2> SUFFICES ASSUME NEW i \in DOMAIN <<x>>
               PROVE  /\ x[1] \notin {"destroy", "join"} /\ x # <<"state", "Executing">> /\ x # <<"state", "Idle">>
                      /\ x[1] = "state" => st # "Executing"
    BY DEF Begins
  <2> QED BY DEF Closing
<1> QED BY <1>2, <1>3

\* JoinAndAbort, the return of all buffers, and perhaps a reset
LEMMA StopFront ==
  /\ JoinAndAbort \o ReturnIn \o ReturnOut \in Seq(ChangeSteps)
  /\ JoinFirst(JoinAndAbort \o ReturnIn \o ReturnOut)
  /\ JoinAndAbort \o ReturnIn \o ReturnOut \o <<<<"reset", "idle">>>> \in Seq(ChangeSteps)
  /\ JoinFirst(JoinAndAbort \o ReturnIn \o ReturnOut \o <<<<"reset", "idle">>>>)
<1> DEFINE b == JoinAndAbort \o ReturnIn
           c == b \o ReturnOut
<1>1. <<"reset", "idle">> \in ChangeSteps /\ <<<<"reset", "idle">>>> \in Seq(ChangeSteps)
  <2>1. <<"reset", "idle">> \in ChangeSteps
    BY DEF ChangeSteps
  <2> QED BY <2>1
<1>2. JoinFirst(JoinAndAbort)
  BY DEF JoinFirst, JoinAndAbort, Mild, Special
<1>3. /\ \A i \in DOMAIN ReturnIn : Mild(ReturnIn[i])
      /\ \A i \in DOMAIN ReturnOut : Mild(ReturnOut[i])
      /\ \A i \in DOMAIN <<<<"reset", "idle">>>> : Mild(<<<<"reset", "idle">>>>[i])
  BY DEF ReturnIn, ReturnOut, Mild, Special
<1>4. b \in Seq(ChangeSteps) /\ JoinFirst(b)
  BY <1>2, <1>3, ChangeParts, FrontConcat
<1> HIDE DEF b
<1>5. c \in Seq(ChangeSteps) /\ JoinFirst(c)
  BY <1>3, <1>4, ChangeParts, FrontConcat
<1> HIDE DEF c
<1>6. c \o <<<<"reset", "idle">>>> \in Seq(ChangeSteps) /\ JoinFirst(c \o <<<<"reset", "idle">>>>)
  BY <1>1, <1>3, <1>5, ChangeParts, FrontConcat
<1> QED BY <1>5, <1>6 DEF b, c

\* The plan of async_decoder_set_state
LEMMA StatePlanFits ==
  ASSUME NEW t \in States, t # "Pause", dec.state \in States, dec.state # "Pause"
  PROVE  Fits(StatePlan(t), dec.state) /\ Begins(StatePlan(t), dec.state)
<1> DEFINE st == dec.state
           done == <<<<"state", t>>>>
           a == <<<<"ready", Ports>>, <<"create", NULL>>>>
           c == JoinAndAbort \o ReturnIn \o ReturnOut \o <<<<"reset", "idle">>>>
           d == <<<<"queues", NULL>>, <<"dealloc", Ports>>, <<"destroy", NULL>>>>
           e == <<<<"execute", NULL>>>>
<1>1. /\ <<"ready", Ports>> \in ChangeSteps /\ <<"create", NULL>> \in ChangeSteps
      /\ <<"queues", NULL>> \in ChangeSteps /\ <<"dealloc", Ports>> \in ChangeSteps
      /\ <<"destroy", NULL>> \in ChangeSteps /\ <<"execute", NULL>> \in ChangeSteps
      /\ <<"reset", "idle">> \in ChangeSteps /\ <<"state", t>> \in ChangeSteps
  BY DEF ChangeSteps
<1>2. a \in Seq(ChangeSteps) /\ d \in Seq(ChangeSteps) /\ e \in Seq(ChangeSteps)
  BY <1>1
<1>3. \/ t = st /\ StatePlan(t) = <<>>
      \/ st = "Loaded" /\ t = "Idle" /\ StatePlan(t) = a \o done
      \/ st = "Executing" /\ t = "Idle" /\ StatePlan(t) = c \o done
      \/ st = "Idle" /\ t = "Loaded" /\ StatePlan(t) = d \o done
      \/ st = "Idle" /\ t = "Executing" /\ StatePlan(t) = e \o done
      \/ st \notin {"Idle", "Executing"} /\ t \notin {"Idle", "Executing", "Invalid"} /\ StatePlan(t) = done
      \/ StatePlan(t) = <<<<"invalid", NULL>>>>
      \/ StatePlan(t) = <<<<"reject", NULL>>>>
  BY DEF StatePlan
<1>4. t # "Invalid" => Closing(<<"state", t>>, st)
  BY DEF Closing, Unused
<1> HIDE DEF st, done, a, c, d, e
<1>5. CASE StatePlan(t) = <<>>
  BY <1>5 DEF Fits, Begins
<1>6. CASE StatePlan(t) \in {<<<<"invalid", NULL>>>>, <<<<"reject", NULL>>>>}
  <2>1. Closing(<<"invalid", NULL>>, st) /\ Closing(<<"reject", NULL>>, st)
    BY DEF Closing
  <2> QED BY <1>6, <2>1, OneStep DEF st
<1>7. CASE st \notin {"Idle", "Executing"} /\ t \notin {"Idle", "Executing", "Invalid"} /\ StatePlan(t) = done
  BY <1>4, <1>7, OneStep DEF st, done
<1>8. CASE st = "Loaded" /\ t = "Idle" /\ StatePlan(t) = a \o done
  <2>1. Plain(a) /\ Len(a) = 2 /\ a[2] = <<"create", NULL>>
    BY DEF a, Plain, Special
  <2>2. Fits(a \o done, st)
    BY <1>1, <1>2, <1>4, <1>8, <2>1, LastFits DEF done
  <2>3. /\ DOMAIN (a \o done) = 1 .. 3
        /\ \A i \in DOMAIN (a \o done) : (i \in 1 .. 2 /\ (a \o done)[i] = a[i]) \/ (i = 3 /\ (a \o done)[i] = <<"state", t>>)
    <3>1. DOMAIN a = 1 .. 2
      BY <1>2, <2>1
    <3>2. PICK x : x = <<"state", t>>
      OBVIOUS
    <3>3. x \in ChangeSteps /\ done = <<x>>
      BY <1>1, <3>2 DEF done
    <3>4. /\ DOMAIN (a \o <<x>>) = 1 .. Len(a) + 1
          /\ \A i \in DOMAIN (a \o <<x>>) :
              (i \in DOMAIN a /\ (a \o <<x>>)[i] = a[i]) \/ (i = Len(a) + 1 /\ (a \o <<x>>)[i] = x)
      BY <1>2, <3>3, LastStep
    <3> QED BY <2>1, <3>1, <3>2, <3>3, <3>4
  <2>4. (a \o done)[2] = <<"create", NULL>>
    BY <2>1, <2>3
  <2>5. Begins(a \o done, st)
    <3> DEFINE s == a \o done
    <3> SUFFICES ASSUME NEW i \in DOMAIN s
                 PROVE  /\ s[i][1] # "destroy" /\ s[i][1] # "join" /\ s[i] # <<"state", "Executing">>
                        /\ s[i] = <<"state", "Idle">> => i > 1 /\ s[i - 1][1] = "create"
      BY <1>8 DEF Begins
    <3>1. CASE i \in 1 .. 2 /\ s[i] = a[i]
      <4>1. s[i][1] \notin Special
        BY <1>2, <2>1, <3>1 DEF Plain
      <4> HIDE DEF s
      <4> QED BY <4>1 DEF Special
    <3>2. CASE i = 3 /\ s[i] = <<"state", t>>
      <4>1. s[i - 1][1] = "create"
        BY <2>4, <3>2
      <4> HIDE DEF s
      <4> QED BY <1>8, <3>2, <4>1
    <3> QED BY <2>3, <3>1, <3>2
  <2> QED BY <1>8, <2>2, <2>5 DEF st
<1>9. CASE st = "Executing" /\ t = "Idle" /\ StatePlan(t) = c \o done
  <2>1. c \in Seq(ChangeSteps) /\ JoinFirst(c)
    BY StopFront, <1>1 DEF c
  <2>2. Fits(c \o done, st)
    BY <1>1, <1>4, <1>9, <2>1, LastFits DEF done
  <2>3. (c \o done)[1] = c[1] /\ c[1][1] = "join"
    BY <1>1, <2>1, LastStep DEF JoinFirst, done
  <2>4. Begins(c \o done, st)
    <3> DEFINE s == c \o done
    <3> SUFFICES ASSUME NEW i \in DOMAIN s
                 PROVE  s[i][1] # "destroy" /\ s[i] # <<"state", "Executing">>
      BY <1>9, <2>3 DEF Begins
    <3>1. (i \in DOMAIN c /\ s[i] = c[i]) \/ s[i] = <<"state", t>>
      BY <1>1, <2>1, LastStep DEF done
    <3>2. s[i][1] = "join" \/ Mild(s[i]) \/ s[i] = <<"state", t>>
      BY <2>1, <3>1 DEF JoinFirst
    <3> HIDE DEF s
    <3> QED BY <1>9, <3>2 DEF Mild, Special
  <2> QED BY <1>9, <2>2, <2>4 DEF st
<1>10. CASE st = "Idle" /\ t = "Loaded" /\ StatePlan(t) = d \o done
  <2>1. Len(d) = 3 /\ d[1] = <<"queues", NULL>> /\ d[2] = <<"dealloc", Ports>> /\ d[3] = <<"destroy", NULL>>
    BY DEF d
  <2> DEFINE s == d \o done
  <2>2. /\ DOMAIN s = 1 .. 4 /\ Len(s) = 4
        /\ s[1][1] = "queues" /\ s[2][1] = "dealloc" /\ s[3][1] = "destroy" /\ s[4] = <<"state", "Loaded">>
    <3>1. DOMAIN d = 1 .. 3
      BY <1>2, <2>1
    <3>2. /\ \A i \in 1 .. 3 : s[i] = d[i]
          /\ s[4] = <<"state", t>> /\ Len(s) = 4 /\ DOMAIN s = 1 .. 4
      <4>1. PICK x : x = <<"state", t>>
        OBVIOUS
      <4>2. x \in ChangeSteps /\ done = <<x>>
        BY <1>1, <4>1 DEF done
      <4>3. /\ DOMAIN (d \o <<x>>) = 1 .. Len(d) + 1 /\ (d \o <<x>>)[Len(d) + 1] = x
            /\ Len(d \o <<x>>) = Len(d) + 1
            /\ \A i \in DOMAIN d : (d \o <<x>>)[i] = d[i]
        BY <1>2, <4>2, LastStep
      <4> QED BY <2>1, <3>1, <4>1, <4>2, <4>3
    <3> QED BY <1>10, <2>1, <3>2
  <2> HIDE DEF s
  <2>3. Fits(s, st) /\ Begins(s, st)
    <3>1. ASSUME NEW i \in DOMAIN s
          PROVE  i = 1 \/ i = 2 \/ i = 3 \/ i = 4
      BY <2>2, <3>1
    <3> QED BY <1>10, <2>2, <3>1 DEF Fits, Begins, Unused
  <2> QED BY <1>10, <2>3 DEF st, s
<1>11. CASE st = "Idle" /\ t = "Executing" /\ StatePlan(t) = e \o done
  <2>1. Len(e) = 1 /\ e[1] = <<"execute", NULL>>
    BY DEF e
  <2> DEFINE s == e \o done
  <2>2. DOMAIN s = 1 .. 2 /\ Len(s) = 2 /\ s[1][1] = "execute" /\ s[2] = <<"state", "Executing">>
    <3>1. DOMAIN e = 1 .. 1
      BY <1>2, <2>1
    <3>2. s[1] = e[1] /\ s[2] = <<"state", t>> /\ Len(s) = 2 /\ DOMAIN s = 1 .. 2
      <4>1. PICK x : x = <<"state", t>>
        OBVIOUS
      <4>2. x \in ChangeSteps /\ done = <<x>>
        BY <1>1, <4>1 DEF done
      <4>3. /\ DOMAIN (e \o <<x>>) = 1 .. Len(e) + 1 /\ (e \o <<x>>)[Len(e) + 1] = x
            /\ Len(e \o <<x>>) = Len(e) + 1
            /\ \A i \in DOMAIN e : (e \o <<x>>)[i] = e[i]
        BY <1>2, <4>2, LastStep
      <4> QED BY <2>1, <3>1, <4>1, <4>2, <4>3
    <3> QED BY <1>11, <2>1, <3>2
  <2> HIDE DEF s
  <2>3. Fits(s, st) /\ Begins(s, st)
    <3>1. ASSUME NEW i \in DOMAIN s PROVE i = 1 \/ i = 2
      BY <2>2, <3>1
    <3> QED BY <1>11, <2>2, <3>1 DEF Fits, Begins, Unused
  <2> QED BY <1>11, <2>3 DEF st, s
<1> QED BY <1>3, <1>5, <1>6, <1>7, <1>8, <1>9, <1>10, <1>11 DEF done

\* Commands that decoder_send_command stops the output thread for
Stops(c) == c[1] = "Flush" \/ (c = <<"StateSet", "Idle">> /\ dec.state = "Executing")

\* The plans of ports have no step that matters here.
LEMMA PlainParts ==
  /\ Plain(ReturnIn) /\ Plain(ReturnOut) /\ Plain(<<>>)
  /\ \A t : Plain(<<<<"dealloc", PortsOf(t)>>, <<"disabled", t>>>>)
  /\ \A p : Plain(<<<<"populated", {p}>>>>) /\ Plain(<<<<"enabled", p>>>>)
BY DEF Plain, Special, ReturnIn, ReturnOut

\* Disabling and enabling a port takes no special step.
LEMMA PortPlansPlain ==
  ASSUME NEW t \in Targets PROVE Plain(DisablePlan(t)) /\ Plain(EnablePlan(t))
<1>1. Plain(DisablePlan(t))
  <2> DEFINE x == IF "in" \in PortsOf(t) THEN ReturnIn ELSE <<>>
             y == IF "out" \in PortsOf(t) THEN ReturnOut ELSE <<>>
             z == <<<<"dealloc", PortsOf(t)>>, <<"disabled", t>>>>
  <2>1. x \in Seq(ChangeSteps) /\ y \in Seq(ChangeSteps) /\ Plain(x) /\ Plain(y)
    BY ChangeParts, PlainParts
  <2>2. z \in Seq(ChangeSteps) /\ Plain(z)
    <3>1. <<"dealloc", PortsOf(t)>> \in ChangeSteps /\ <<"disabled", t>> \in ChangeSteps
      BY DEF ChangeSteps, PortsOf, Targets, Ports
    <3> QED BY <3>1, PlainParts
  <2>3. DisablePlan(t) = x \o y \o z
    BY DEF DisablePlan
  <2> HIDE DEF x, y, z
  <2>4. x \o y \in Seq(ChangeSteps) /\ Plain(x \o y)
    BY <2>1, PlainConcat
  <2> QED BY <2>2, <2>3, <2>4, PlainConcat
<1>2. Plain(EnablePlan(t))
  <2> DEFINE w(p) == IF dec.state = "Loaded" THEN <<>> ELSE <<<<"populated", {p}>>>>
             one(p) == w(p) \o <<<<"enabled", p>>>>
             x == IF "in" \in PortsOf(t) THEN one("in") ELSE <<>>
             y == IF "out" \in PortsOf(t) THEN one("out") ELSE <<>>
  <2>1. ASSUME NEW p \in Ports PROVE one(p) \in Seq(EnableSteps) /\ Plain(one(p))
    <3>1. <<"populated", {p}>> \in EnableSteps /\ <<"enabled", p>> \in EnableSteps
      BY DEF EnableSteps
    <3>2. /\ w(p) \in Seq(EnableSteps) /\ Plain(w(p))
          /\ <<<<"enabled", p>>>> \in Seq(EnableSteps) /\ Plain(<<<<"enabled", p>>>>)
      <4>1. <<>> \in Seq(EnableSteps) /\ \A u \in EnableSteps : <<u>> \in Seq(EnableSteps)
        OBVIOUS
      <4> QED BY <3>1, <4>1, PlainParts, Zenon
    <3>3. PICK v, z : v = w(p) /\ z = <<<<"enabled", p>>>>
      OBVIOUS
    <3>4. v \in Seq(EnableSteps) /\ z \in Seq(EnableSteps) /\ Plain(v) /\ Plain(z) /\ one(p) = v \o z
      BY <3>2, <3>3
    <3>5. v \o z \in Seq(EnableSteps) /\ Plain(v \o z)
      <4> HIDE DEF one, w
      <4>1. v \o z \in Seq(EnableSteps)
        BY <3>4
      <4> QED BY <3>4, <4>1, PlainConcat
    <3> QED BY <3>4, <3>5
  <2>2. x \in Seq(EnableSteps) /\ y \in Seq(EnableSteps) /\ Plain(x) /\ Plain(y)
    <3> HIDE DEF one
    <3> QED BY <2>1, PlainParts DEF Ports
  <2>3. EnablePlan(t) = x \o y
    BY DEF EnablePlan
  <2> HIDE DEF x, y
  <2> QED BY <2>2, <2>3, PlainConcat
<1> QED BY <1>1, <1>2

\* Every plan that such a client causes
LEMMA PlanFits ==
  ASSUME dec.state \in States, dec.state # "Pause", NEW c \in Commands,
         c # <<"StateSet", "Pause">>, c[1] = "Flush" => dec.state = "Executing"
  PROVE  /\ Fits(Plan(c), dec.state) /\ Begins(Plan(c), dec.state)
         /\ \A i \in DOMAIN Plan(c) : Plan(c)[i][1] = "join" => Stops(c)
<1>1. CASE c[1] = "StateSet"
  <2>1. PICK t \in States : c = <<"StateSet", t>> /\ t # "Pause" /\ Plan(c) = StatePlan(t)
    BY <1>1 DEF Commands, Plan
  <2>2. Fits(Plan(c), dec.state) /\ Begins(Plan(c), dec.state)
    BY <2>1, StatePlanFits
  <2>3. ASSUME NEW i \in DOMAIN Plan(c), Plan(c)[i][1] = "join" PROVE Stops(c)
    <3>1. dec.state = "Executing"
      BY <2>2, <2>3 DEF Begins
    <3>2. CASE t # "Idle"
      <4>1. StatePlan(t) \in {<<>>, <<<<"invalid", NULL>>>>, <<<<"reject", NULL>>>>}
        BY <2>1, <3>1, <3>2 DEF StatePlan, States
      <4> QED BY <2>1, <2>3, <4>1
    <3> QED BY <2>1, <3>1, <3>2 DEF Stops
  <2> QED BY <2>2, <2>3
<1>2. CASE c[1] = "Flush"
  <2>1. PICK t \in Targets : c = <<"Flush", t>> /\ Plan(c) = FlushPlan(t)
    BY <1>2 DEF Commands, Plan
  <2>2. CASE t # "all"
    <3>1. Plan(c) \in {ReturnIn, ReturnOut}
      BY <2>1, <2>2 DEF FlushPlan, Targets
    <3> QED BY <1>2, <3>1, PlainParts, PlainFits, PlainBegins DEF Stops
  <2>3. CASE t = "all"
    <3> DEFINE a == JoinAndAbort \o ReturnIn \o ReturnOut
    <3>1. PICK x : x = <<"reset", "flush">>
      OBVIOUS
    <3>2. Plan(c) = a \o <<x>>
      BY <2>1, <2>3, <3>1 DEF FlushPlan
    <3>3. a \in Seq(ChangeSteps) /\ JoinFirst(a)
      BY StopFront
    <3> HIDE DEF a
    <3>4. x \in ChangeSteps /\ Closing(x, dec.state)
      BY <1>2, <3>1 DEF ChangeSteps, Closing
    <3>5. Fits(a \o <<x>>, dec.state)
      BY <3>3, <3>4, LastFits
    <3>6. Begins(a \o <<x>>, dec.state)
      <4> SUFFICES ASSUME NEW i \in DOMAIN (a \o <<x>>)
                   PROVE  LET y == (a \o <<x>>)[i] IN
                          y[1] # "destroy" /\ y[1] # "state" /\ y # <<"state", "Executing">> /\ y # <<"state", "Idle">>
        BY <1>2 DEF Begins
      <4>1. PICK y : y = (a \o <<x>>)[i]
        OBVIOUS
      <4>2. y[1] = "join" \/ Mild(y) \/ y = x
        BY <3>3, <3>4, <4>1, LastStep DEF JoinFirst
      <4>3. y[1] # "destroy" /\ y[1] # "state" /\ y # <<"state", "Executing">> /\ y # <<"state", "Idle">>
        BY <3>1, <4>2 DEF Mild, Special
      <4> QED BY <4>1, <4>3
    <3> QED BY <1>2, <3>2, <3>5, <3>6 DEF Stops
  <2> QED BY <2>2, <2>3
<1>3. CASE c[1] \in {"PortDisable", "PortEnable"}
  <2>1. Plain(Plan(c))
    BY <1>3, PortPlansPlain DEF Commands, Plan
  <2>2. \A i \in DOMAIN Plan(c) : Plan(c)[i][1] # "join"
    BY <2>1 DEF Plain, Special
  <2> QED BY <2>1, <2>2, PlainFits, PlainBegins
<1> QED BY <1>1, <1>2, <1>3 DEF Commands

-----------------------------------------------------------------------------
(* The inductive invariant *)

\* One command is under way at a time, and decoding is not a command.
Alone ==
  /\ comp.pc = "drain" => cmdq = <<>> /\ cli.cmd = NULL
  /\ cmdq # <<>> => Len(cmdq) = 1 /\ cli.cmd = NULL
  /\ comp.pc = "loop" => comp.todo \in Seq(DecodeSteps) \cup Seq(FailSteps)

\* The state is still the one a command was sent in, and the output thread has
\* been told to end if the command will join it.
Asked ==
  /\ \A c \in Commands : c \in Range(cmdq) \/ c = cli.cmd =>
       dec.state = "Invalid" \/ (<<dec.state, c>> \in Legal /\ (Stops(c) => dec.release))
  /\ dec.state = "Invalid" => ~dec.run /\ comp.todo = <<>>
  /\ dec.state # "Pause"

\* What holds until the steps that are left are taken
Kept(s, i) ==
  /\ s[i][1] = "join" => dec.release \/ codec.aborted
  /\ s[i][1] = "destroy" => dec.state = "Idle" /\ ~sd.thread
  /\ s[i] = <<"state", "Executing">> => codec.made
  /\ s[i][1] = "state" => s[i] = <<"state", "Executing">> \/ ~sd.thread \/ s[1][1] = "join"
  /\ s[i] = <<"state", "Idle">> => codec.made \/ (i > 1 /\ s[i - 1][1] = "create")

Planned == Fits(comp.todo, dec.state) /\ \A i \in DOMAIN comp.todo : Kept(comp.todo, i)

\* The output thread, its handle and the codec
Next1(x) == comp.todo # <<>> /\ Head(comp.todo) = x
Output ==
  /\ out.pc # "none" => sd.thread
  /\ sd.thread => codec.made
  /\ dec.state = "Executing" => codec.made
  /\ dec.state \notin {"Executing", "Invalid"} /\ sd.thread => Next1(<<"state", "Executing">>)
  /\ dec.state = "Idle" /\ ~codec.made => Next1(<<"state", "Loaded">>)

ThreadInv == PlanInv /\ Alone /\ Asked /\ Planned /\ Output

\* A component that has just been created: no thread, no codec, no command.
LEMMA ThreadInit == Init => ThreadInv
<1> SUFFICES ASSUME Init PROVE ThreadInv
  OBVIOUS
<1>1. PlanInv
  BY PlanInit
<1>2. Alone
  BY DEF Init, Alone
<1>3. Asked
  <2>1. NULL \notin Commands
    BY DecoderConstantsOK DEF DecoderConstantsOK
  <2>2. Range(cmdq) = {}
    BY DEF Init, Range
  <2> QED BY <2>1, <2>2 DEF Init, Asked
<1>4. Planned /\ Output
  BY DEF Init, Planned, Fits, Output
<1> QED BY <1>1, <1>2, <1>3, <1>4 DEF ThreadInv

\* A step after which the plan, the state, the thread and the codec are what they
\* were keeps what was promised.
LEMMA QuietKeeps ==
  ASSUME Planned, Output, comp'.todo = comp.todo, dec'.state = dec.state, sd'.thread = sd.thread,
         codec'.made = codec.made, dec.release \/ codec.aborted => dec'.release \/ codec'.aborted,
         out'.pc # "none" => out.pc # "none"
  PROVE  Planned' /\ Output'
<1>1. ASSUME NEW i \in DOMAIN comp.todo, Kept(comp.todo, i) PROVE Kept(comp.todo, i)'
  BY <1>1 DEF Kept
<1>2. Planned'
  BY <1>1 DEF Planned
<1>3. Output'
  BY DEF Output, Next1
<1> QED BY <1>2, <1>3

\* Plans of decoding and of enabling a port have no step that matters here.
LEMMA OtherPlansPlain ==
  ASSUME NEW s \in Seq(DecodeSteps) \cup Seq(EnableSteps) PROVE Plain(s)
<1>1. ASSUME NEW i \in DOMAIN s PROVE s[i][1] \notin Special
  <2>1. s[i] \in DecodeSteps \cup EnableSteps
    BY ElementOfSeq
  <2> QED BY <2>1 DEF DecodeSteps, EnableSteps, Special
<1> QED BY <1>1 DEF Plain

\* A plan with only such steps promises nothing.
LEMMA PlainKeeps ==
  ASSUME Planned, Output, Plain(comp'.todo), dec'.state = dec.state, sd'.thread = sd.thread,
         codec'.made = codec.made, out'.pc # "none" => out.pc # "none",
         comp.todo = <<>> \/ Head(comp.todo)[1] # "state"
  PROVE  Planned' /\ Output'
<1>1. ASSUME NEW i \in DOMAIN comp'.todo PROVE Kept(comp.todo, i)'
  <2>1. comp'.todo[i][1] \notin Special
    BY DEF Plain
  <2>2. PICK x : x = comp'.todo[i]
    OBVIOUS
  <2>3. x[1] \notin {"join", "destroy", "state"} /\ x # <<"state", "Executing">> /\ x # <<"state", "Idle">>
    BY <2>1, <2>2 DEF Special
  <2> QED BY <2>2, <2>3 DEF Kept
<1>2. Planned'
  BY <1>1, PlainFits DEF Planned
<1>3. ~(dec.state \notin {"Executing", "Invalid"} /\ sd.thread) /\ ~(dec.state = "Idle" /\ ~codec.made)
  BY DEF Output, Next1
<1>4. Output'
  BY <1>3 DEF Output
<1> QED BY <1>2, <1>4

\* The rest of a plan keeps what it was promised when its first step is done: the
\* state does not change, only a join ends the thread and only a creation makes a
\* codec.
LEMMA TailKeeps ==
  ASSUME comp \in CompType, comp.todo # <<>>, Planned, Output, Done, dec'.state = dec.state,
         Head(comp.todo)[1] # "state",
         sd'.thread = FALSE \/ (sd'.thread = sd.thread /\ Head(comp.todo)[1] # "join"),
         codec'.made = TRUE \/ (codec'.made = codec.made /\ Head(comp.todo)[1] # "create"),
         out'.pc # "none" => sd'.thread
  PROVE  Planned' /\ Output'
<1> DEFINE t == comp.todo
<1>1. PICK S : t \in Seq(S)
  BY DEF CompType
<1>2. comp'.todo = Tail(t)
  BY DEF Done, CompType
<1>3. /\ \A i \in DOMAIN Tail(t) : Tail(t)[i] = t[i + 1] /\ i + 1 \in DOMAIN t /\ i \in Nat \ {0} /\ i \in DOMAIN t
      /\ t[1] = Head(t)
  BY <1>1
<1>4. ASSUME NEW i \in DOMAIN comp'.todo PROVE Kept(comp.todo, i)'
  <2>1. /\ comp'.todo[i] = t[i + 1] /\ i + 1 \in DOMAIN t /\ i \in Nat \ {0}
    BY <1>2, <1>3
  <2>2. Kept(t, i + 1) /\ t[i + 1][1] # "join"
    BY <2>1 DEF Planned, Fits
  <2>3. i > 1 => t[i] = comp'.todo[i - 1]
    <3>1. i > 1 => i - 1 \in DOMAIN Tail(t)
      BY <1>1, <1>2, <2>1
    <3> QED BY <1>2, <1>3, <2>1, <3>1
  <2>4. i = 1 /\ t[i][1] = "create" => codec'.made = TRUE
    BY <1>3
  <2>5. t[1][1] = "join" => sd'.thread = FALSE
    BY <1>3
  <2>6. (i + 1) - 1 = i
    BY <2>1
  <2>7. PICK x : x = comp'.todo[i] /\ x = t[i + 1]
    BY <2>1
  <2>8. /\ x[1] = "destroy" => dec.state = "Idle" /\ ~sd.thread
        /\ x = <<"state", "Executing">> => codec.made
        /\ x[1] = "state" => x = <<"state", "Executing">> \/ ~sd.thread \/ t[1][1] = "join"
        /\ x = <<"state", "Idle">> => codec.made \/ t[i][1] = "create"
        /\ x[1] # "join"
    BY <2>2, <2>6, <2>7 DEF Kept
  <2>9. t[i][1] = "create" => codec'.made = TRUE \/ (i > 1 /\ comp'.todo[i - 1][1] = "create")
    BY <2>1, <2>3, <2>4
  <2>10. (codec.made => codec'.made) /\ (~sd.thread => ~sd'.thread)
    OBVIOUS
  <2> QED BY <2>5, <2>7, <2>8, <2>9, <2>10 DEF Kept
<1>5. Planned'
  <2>1. Fits(comp'.todo, dec'.state)
    BY <1>1, <1>2, TailFits DEF Planned
  <2> QED BY <1>4, <2>1 DEF Planned
<1>6. ~(dec.state \notin {"Executing", "Invalid"} /\ sd.thread) /\ ~(dec.state = "Idle" /\ ~codec.made)
  BY DEF Output, Next1
<1>7. Output'
  BY <1>6 DEF Output
<1> QED BY <1>5, <1>7

\* A plan is cut short.
LEMMA ShortKeeps ==
  ASSUME Output, comp.todo # <<>>, Head(comp.todo)[1] # "state",
         comp'.todo \in {<<>>, <<<<"invalid", NULL>>>>, <<<<"assert", NULL>>>>},
         UNCHANGED <<dec, sd, codec, out>>
  PROVE  Planned' /\ Output'
<1>1. PICK st : st = dec'.state
  OBVIOUS
<1>2. Closing(<<"invalid", NULL>>, st) /\ Closing(<<"assert", NULL>>, st)
  BY DEF Closing
<1>3. Fits(<<<<"invalid", NULL>>>>, st) /\ Fits(<<<<"assert", NULL>>>>, st) /\ Fits(<<>>, st)
  <2>1. Fits(<<>>, st)
    BY DEF Fits
  <2> QED BY <1>2, <2>1, OneStep
<1>4. ASSUME NEW i \in DOMAIN comp'.todo PROVE Kept(comp.todo, i)'
  <2>1. PICK x : x = comp'.todo[i] /\ x[1] \in {"invalid", "assert"}
    BY <1>4
  <2> QED BY <2>1 DEF Kept
<1>5. Planned'
  BY <1>1, <1>3, <1>4 DEF Planned
<1>6. ~(dec.state \notin {"Executing", "Invalid"} /\ sd.thread) /\ ~(dec.state = "Idle" /\ ~codec.made)
  BY DEF Output, Next1
<1>7. Output'
  BY <1>6 DEF Output
<1> QED BY <1>5, <1>7

\* The first step of a plan gets another name.
LEMMA RenameKeeps ==
  ASSUME comp \in CompType, comp.todo # <<>>, Planned, Output, NEW y,
         comp'.todo = [comp.todo EXCEPT ![1] = y],
         y[1] \notin Special \cup {"create"}, Head(comp.todo)[1] \notin Special \cup {"create"},
         UNCHANGED <<dec, sd, codec, out>>
  PROVE  Planned' /\ Output'
<1> DEFINE t == comp.todo
           u == comp'.todo
<1>1. /\ DOMAIN u = DOMAIN t /\ 1 \in DOMAIN t /\ u[1] = y /\ t[1] = Head(t) /\ Len(u) = Len(t)
      /\ DOMAIN t \subseteq Nat
      /\ \A i \in DOMAIN t : i # 1 => u[i] = t[i]
  <2>1. PICK S : t \in Seq(S)
    BY DEF CompType
  <2>2. DOMAIN t = 1 .. Len(t) /\ Len(t) \in Nat \ {0} /\ t[1] = Head(t)
    BY <2>1
  <2>3. DOMAIN u = DOMAIN t /\ u[1] = y /\ \A i \in DOMAIN t : i # 1 => u[i] = t[i]
    BY <2>1, <2>2
  <2>4. Len(u) = Len(t)
    <3>1. u \in Seq(S \cup {y})
      BY <2>1, <2>2
    <3> QED BY <2>2, <2>3, <3>1
  <2> QED BY <2>2, <2>3, <2>4
<1> HIDE DEF t, u
<1>2. /\ t[1][1] \notin Special /\ t[1][1] # "create" /\ u[1][1] \notin Special /\ u[1][1] # "create"
  BY <1>1 DEF t
<1>3. Fits(t, dec.state) /\ \A i \in DOMAIN t : Kept(t, i)
  BY DEF Planned, t
<1>4. Fits(u, dec.state)
  <2> SUFFICES ASSUME NEW i \in DOMAIN u
               PROVE  /\ u[i][1] = "join" => i = 1
                      /\ u[i][1] = "execute" => dec.state = "Idle" /\ i = 1 /\ Len(u) = 2 /\ u[2] = <<"state", "Executing">>
                      /\ u[i][1] = "destroy" => Len(u) = i + 1 /\ u[i + 1] = <<"state", "Loaded">>
                      /\ u[i] = <<"reset", "flush">> => dec.state = "Executing" /\ i = Len(u)
                      /\ u[i][1] \in {"state", "invalid", "reject", "assert"} => i = Len(u)
                      /\ u[i] \notin Unused
    BY DEF Fits
  <2>1. CASE i = 1
    BY <1>2, <2>1 DEF Special, Unused
  <2>2. CASE i # 1
    <3>1. u[i] = t[i] /\ i \in DOMAIN t /\ Len(u) = Len(t)
      BY <1>1, <2>2
    <3>2. t[i][1] # "execute" /\ t[i][1] # "join"
      BY <1>3, <2>2, <3>1 DEF Fits
    <3>3. ASSUME t[i][1] = "destroy" PROVE Len(u) = i + 1 /\ u[i + 1] = <<"state", "Loaded">>
      <4>1. Len(t) = i + 1 /\ t[i + 1] = <<"state", "Loaded">>
        BY <1>3, <3>1, <3>3 DEF Fits
      <4>2. i + 1 \in DOMAIN t /\ i + 1 # 1
        <5>1. PICK S : t \in Seq(S)
          BY DEF CompType, t
        <5> QED BY <1>1, <2>2, <3>1, <4>1, <5>1
      <4> QED BY <1>1, <3>1, <4>1, <4>2
    <3> QED BY <1>3, <3>1, <3>2, <3>3 DEF Fits
  <2> QED BY <2>1, <2>2
<1>5. ASSUME NEW i \in DOMAIN u PROVE Kept(comp.todo, i)'
  <2>1. CASE i = 1
    <3>1. PICK x : x = u[1] /\ x[1] \notin Special
      BY <1>2
    <3> QED BY <2>1, <3>1 DEF Kept, Special, u
  <2>2. CASE i # 1
    <3>1. u[i] = t[i] /\ i \in DOMAIN t /\ Kept(t, i) /\ t[1][1] # "join"
      BY <1>1, <1>2, <1>3, <2>2 DEF Special
    <3>2. i > 1 /\ t[i - 1][1] = "create" => u[i - 1][1] = "create"
      <4>1. i - 1 = 1 \/ i - 1 \in DOMAIN t
        <5>1. PICK S : t \in Seq(S)
          BY DEF CompType, t
        <5> QED BY <1>1, <2>2, <3>1, <5>1
      <4> QED BY <1>1, <1>2, <4>1
    <3>3. PICK x : x = u[i] /\ x = t[i]
      BY <3>1
    <3>4. /\ x[1] = "join" => dec.release \/ codec.aborted
          /\ x[1] = "destroy" => dec.state = "Idle" /\ ~sd.thread
          /\ x = <<"state", "Executing">> => codec.made
          /\ x[1] = "state" => x = <<"state", "Executing">> \/ ~sd.thread
          /\ x = <<"state", "Idle">> => codec.made \/ (i > 1 /\ t[i - 1][1] = "create")
      BY <3>1, <3>3 DEF Kept
    <3> QED BY <3>2, <3>3, <3>4 DEF Kept, u
  <2> QED BY <2>1, <2>2
<1>6. Planned'
  BY <1>4, <1>5 DEF Planned, u
<1>7. ~(dec.state \notin {"Executing", "Invalid"} /\ sd.thread) /\ ~(dec.state = "Idle" /\ ~codec.made)
  <2>1. Head(comp.todo)[1] # "state"
    BY DEF Special
  <2> QED BY <2>1 DEF Output, Next1
<1>8. Output'
  BY <1>7 DEF Output
<1> QED BY <1>6, <1>8

\* Codec calls neither make nor destroy the codec, and only AbortAfter takes an
\* abort back.
LEMMA CodecMade ==
  ASSUME NEW c \in CodecType, NEW b
  PROVE  /\ SetFrameBuffer(c, b).made = c.made /\ SetFrameBuffer(c, b).aborted = c.aborted
         /\ PictureConsumed(c, b).made = c.made /\ PictureConsumed(c, b).aborted = c.aborted
         /\ Abort(c).made = c.made /\ Abort(c).aborted = TRUE
         /\ AbortAfter(c).made = c.made
         /\ EndOfStream(c).made = c.made /\ EndOfStream(c).aborted = c.aborted
BY DEF SetFrameBuffer, PictureConsumed, Abort, AbortAfter, EndOfStream, CodecType, NoCodec

\* The client's calls
LEMMA ThreadClient ==
  ASSUME PlainClient, ThreadInv, ClientNext PROVE Alone' /\ Asked' /\ Planned' /\ Output'
<1> USE DEF ThreadInv
<1>0. /\ dec \in DecType /\ sd \in SharedType /\ codec \in CodecType /\ cmdq \in Seq(Commands)
      /\ cli \in ClientType /\ NULL \notin Commands /\ ClientSends
  BY DecoderConstantsOK DEF PlanInv, DecoderConstantsOK
<1>1. ASSUME NEW c \in Commands, SendCommand(c) PROVE Alone' /\ Asked' /\ Planned' /\ Output'
  <2>1. /\ cmdq = <<>> /\ comp.pc = "loop" /\ UNCHANGED <<cmdq, comp, sd, out>>
        /\ cli'.cmd = c /\ <<dec.state, c>> \in Legal /\ SendFlags(c) /\ dec.state # "Invalid"
    BY <1>0, <1>1 DEF SendCommand, CommandsDone, PlainClient, ClientType
  <2>2. /\ dec'.state = dec.state /\ dec'.run = dec.run /\ codec'.made = codec.made
        /\ dec.release \/ codec.aborted => dec'.release \/ codec'.aborted
        /\ Stops(c) => dec'.release = TRUE
    <3>1. codec'.made = codec.made /\ (codec' = codec \/ codec'.aborted = TRUE)
      <4>1. codec' = codec \/ codec' = Abort(codec)
        BY <2>1 DEF SendFlags, Commands
      <4>2. Abort(codec).made = codec.made /\ Abort(codec).aborted = TRUE
        BY <1>0, CodecMade, Zenon
      <4> QED BY <4>1, <4>2, Zenon
    <3>2. CASE c[1] = "StateSet"
      <4>1. PICK t : t = c[2]
        OBVIOUS
      <4>2. \/ dec' = [dec EXCEPT !.trans = t, !.release = TRUE]
            \/ ~(t = "Idle" /\ dec.state = "Executing") /\ dec' = [dec EXCEPT !.trans = t] /\ codec' = codec
        BY <2>1, <3>2, <4>1 DEF SendFlags
      <4>3. Stops(c) => t = "Idle" /\ dec.state = "Executing"
        BY <3>2, <4>1 DEF Stops
      <4>4. dec'.state = dec.state /\ dec'.run = dec.run
        BY <1>0, <4>2 DEF DecType
      <4>5. dec'.release = TRUE \/ (dec'.release = dec.release /\ codec' = codec /\ ~Stops(c))
        BY <1>0, <4>2, <4>3 DEF DecType
      <4> QED BY <3>1, <4>4, <4>5, Zenon
    <3>3. CASE c[1] = "Flush"
      <4>1. dec' = [dec EXCEPT !.release = TRUE]
        BY <2>1, <3>3 DEF SendFlags
      <4>2. dec'.state = dec.state /\ dec'.run = dec.run /\ dec'.release = TRUE
        BY <1>0, <4>1 DEF DecType
      <4> QED BY <3>1, <4>2
    <3>4. CASE c[1] = "PortDisable"
      <4>1. PICK on : on = (dec.disabling \/ "out" \in PortsOf(c[2]))
        OBVIOUS
      <4>2. dec' = [dec EXCEPT !.disabling = on]
        BY <2>1, <3>4, <4>1 DEF SendFlags
      <4>3. ~Stops(c)
        BY <3>4 DEF Stops
      <4> QED BY <1>0, <2>1, <3>1, <3>4, <4>2, <4>3 DEF DecType, SendFlags
    <3>5. CASE c[1] = "PortEnable"
      BY <2>1, <3>1, <3>5 DEF SendFlags, Stops
    <3> QED BY <3>2, <3>3, <3>4, <3>5 DEF Commands
  <2>3. Planned' /\ Output'
    BY <2>1, <2>2, QuietKeeps
  <2>4. Alone'
    BY <2>1 DEF Alone
  <2>5. Range(cmdq') = {}
    BY <2>1 DEF Range
  <2>6. Stops(c)' <=> Stops(c)
    BY <2>2 DEF Stops
  <2>7. Asked'
    BY <2>1, <2>2, <2>5, <2>6 DEF Asked
  <2> QED BY <2>3, <2>4, <2>7
<1>2. CASE SendQueue
  <2>1. /\ cli.cmd \in Commands /\ cli'.cmd = NULL /\ UNCHANGED <<dec, sd, codec, comp, out>>
        /\ cmdq' = Append(cmdq, cli.cmd)
    BY <1>0, <1>2 DEF SendQueue, ClientSends, ClientType, Maybe
  <2>2. cmdq = <<>> /\ comp.pc # "drain"
    BY <1>0, <2>1 DEF Alone
  <2>3. Len(cmdq') = 1 /\ Range(cmdq') = {cli.cmd}
    <3>1. cmdq' = <<cli.cmd>>
      BY <1>0, <2>1, <2>2
    <3> QED BY <3>1 DEF Range
  <2>4. Planned' /\ Output'
    BY <2>1, QuietKeeps
  <2>5. Alone'
    BY <2>1, <2>2, <2>3 DEF Alone
  <2>6. Asked'
    BY <1>0, <2>1, <2>3 DEF Asked, Stops
  <2> QED BY <2>4, <2>5, <2>6
<1>3. ASSUME UNCHANGED <<cmdq, comp, out>>, cli'.cmd = cli.cmd, dec'.state = dec.state, dec'.run = dec.run,
             dec'.release = dec.release, sd'.thread = sd.thread, codec'.made = codec.made,
             codec'.aborted = codec.aborted
      PROVE  Alone' /\ Asked' /\ Planned' /\ Output'
  <2>1. Planned' /\ Output'
    BY <1>3, QuietKeeps
  <2>2. Alone' /\ Asked'
    BY <1>3 DEF Alone, Asked, Stops
  <2> QED BY <2>1, <2>2
<1>4. ASSUME NEW p \in Ports, NEW b \in Bufs(p), AllocateBuffer(p, b) \/ FreeBuffer(p, b)
      PROVE  Alone' /\ Asked' /\ Planned' /\ Output'
  <2>1. cli'.cmd = cli.cmd
    BY <1>0, <1>4 DEF AllocateBuffer, FreeBuffer, ClientType
  <2> QED BY <1>3, <1>4, <2>1 DEF AllocateBuffer, FreeBuffer
<1>5. ASSUME NEW b \in InBufs, EmptyThisBuffer(b) PROVE Alone' /\ Asked' /\ Planned' /\ Output'
  <2>1. cli'.cmd = cli.cmd
    BY <1>0, <1>5 DEF EmptyThisBuffer, ClientType
  <2> QED BY <1>3, <1>5, <2>1 DEF EmptyThisBuffer
<1>6. ASSUME NEW b \in OutBufs, FillThisBuffer(b) PROVE Alone' /\ Asked' /\ Planned' /\ Output'
  <2>1. cli'.cmd = cli.cmd
    BY <1>0, <1>6 DEF FillThisBuffer, ClientType
  <2>2. dec' = dec \/ \E l : dec' = [dec EXCEPT !.list = l]
    <3>1. dec' = dec \/ \E i : dec' = [dec EXCEPT !.list = [dec.list EXCEPT ![i] = b]]
      BY <1>0, <1>6 DEF FillThisBuffer, DecType
    <3> QED BY <3>1
  <2>3. dec'.state = dec.state /\ dec'.run = dec.run /\ dec'.release = dec.release
    BY <1>0, <2>2 DEF DecType
  <2>4. codec'.made = codec.made /\ codec'.aborted = codec.aborted
    <3>1. codec' = codec \/ codec' = SetFrameBuffer(codec, b)
      BY <1>6 DEF FillThisBuffer
    <3>2. /\ SetFrameBuffer(codec, b).made = codec.made
          /\ SetFrameBuffer(codec, b).aborted = codec.aborted
      BY <1>0, CodecMade, Zenon
    <3> QED BY <3>1, <3>2, Zenon
  <2> QED BY <1>3, <1>6, <2>1, <2>3, <2>4 DEF FillThisBuffer
<1>7. CASE FillPush
  <2>1. cli'.cmd = cli.cmd
    BY <1>0, <1>7 DEF FillPush, ClientType
  <2> QED BY <1>3, <1>7, <2>1 DEF FillPush
<1>8. CASE FillConsume
  <2>1. cli'.cmd = cli.cmd /\ sd'.thread = sd.thread
    BY <1>0, <1>8 DEF FillConsume, ClientType, SharedType
  <2>2. codec'.made = codec.made /\ codec'.aborted = codec.aborted
    BY <1>0, <1>8, CodecMade DEF FillConsume
  <2> QED BY <1>3, <1>8, <2>1, <2>2 DEF FillConsume
<1> QED BY <1>1, <1>2, <1>4, <1>5, <1>6, <1>7, <1>8 DEF ClientNext

\* The output thread's steps
LEMMA ThreadOutput ==
  ASSUME ThreadInv, OutputNext PROVE Alone' /\ Asked' /\ Planned' /\ Output'
<1>0. /\ sd \in SharedType /\ codec \in CodecType /\ cli \in ClientType /\ out \in OutputType
      /\ Alone /\ Asked /\ Planned /\ Output
  BY DEF ThreadInv, PlanInv
<1>1. UNCHANGED <<dec, cmdq, comp>>
  BY DEF OutputNext, OutStart, OutLoop, OutExit, OutGetEos, OutGetAborted, OutGetFlushed,
         OutGetFrame, OutFlushed, OutHasFrame, OutCheck, OutFind, OutDeliver, OutPop, OutEos,
         OutEosDeliver, OutEosPop
<1>2. cli'.cmd = cli.cmd
  <2>1. cli' = cli \/ \E h : cli' = [cli EXCEPT !.held = h]
    BY DEF OutputNext, OutStart, OutLoop, OutExit, OutGetEos, OutGetAborted, OutGetFlushed,
           OutGetFrame, OutFlushed, OutHasFrame, OutCheck, OutFind, OutDeliver, OutPop, OutEos,
           OutEosDeliver, OutEosPop
  <2> QED BY <1>0, <2>1 DEF ClientType
<1>3. sd'.thread = sd.thread
  BY <1>0 DEF SharedType, OutputNext, OutStart, OutLoop, OutExit, OutGetEos, OutGetAborted,
         OutGetFlushed, OutGetFrame, OutFlushed, OutHasFrame, OutCheck, OutFind, OutDeliver,
         OutPop, OutEos, OutEosDeliver, OutEosPop
<1>4. codec'.made = codec.made /\ codec'.aborted = codec.aborted
  BY <1>0 DEF CodecType, OutputNext, OutStart, OutLoop, OutExit, OutGetEos, OutGetAborted,
         OutGetFlushed, OutGetFrame, OutFlushed, OutHasFrame, OutCheck, OutFind, OutDeliver,
         OutPop, OutEos, OutEosDeliver, OutEosPop
<1>5. out.pc # "none"
  BY DEF OutAt, OutputNext, OutStart, OutLoop, OutExit, OutGetEos, OutGetAborted,
         OutGetFlushed, OutGetFrame, OutFlushed, OutHasFrame, OutCheck, OutFind, OutDeliver,
         OutPop, OutEos, OutEosDeliver, OutEosPop
<1>6. Planned' /\ Output'
  BY <1>0, <1>1, <1>3, <1>4, <1>5, QuietKeeps
<1>7. Alone' /\ Asked'
  BY <1>0, <1>1, <1>2 DEF Alone, Asked, Stops
<1> QED BY <1>6, <1>7

\* A plan of decoding is followed by another one.
LEMMA DecodeKeeps ==
  ASSUME ThreadInv, comp'.pc = comp.pc, comp'.todo \in Seq(DecodeSteps),
         comp.todo = <<>> \/ Head(comp.todo)[1] # "state", dec.state # "Invalid",
         cmdq' = cmdq, cli'.cmd = cli.cmd, out' = out, dec'.state = dec.state, dec'.run = dec.run,
         dec'.release = dec.release, sd'.thread = sd.thread, codec'.made = codec.made
  PROVE  Alone' /\ Asked' /\ Planned' /\ Output'
<1>0. Alone /\ Asked /\ Planned /\ Output
  BY DEF ThreadInv
<1>1. Plain(comp'.todo)
  BY OtherPlansPlain
<1>2. Planned' /\ Output'
  BY <1>0, <1>1, PlainKeeps
<1>3. Alone' /\ Asked'
  BY <1>0 DEF Alone, Asked, Stops
<1> QED BY <1>2, <1>3

\* A step of decoding leaves steps of decoding, unless it ends in an error.
LEMMA DecodeTodo ==
  ASSUME PlanInv, DecodeNext
  PROVE  \/ comp'.pc = comp.pc /\ comp'.todo \in Seq(DecodeSteps)
         \/ DecodeError \/ DecodeFailed
<1>0. comp \in CompType /\ CountMin \in Nat \ {0}
  <2>1. Cardinality(OutBufs) \in Nat /\ CountMin \in 1 .. Cardinality(OutBufs)
    BY DecoderConstantsOK, FS_CardinalityType DEF DecoderConstantsOK
  <2> QED BY <2>1 DEF PlanInv
<1>1. ASSUME NEW x \in DecodeSteps, Continue(<<x>>)
      PROVE  comp'.pc = comp.pc /\ comp'.todo \in Seq(DecodeSteps)
  <2>1. <<x>> \in Seq(DecodeSteps)
    OBVIOUS
  <2> QED BY <1>0, <1>1, <2>1 DEF Continue, CompType
<1>2. /\ <<"tail", NULL>> \in DecodeSteps /\ <<"finish", NULL>> \in DecodeSteps
      /\ <<"data", NULL>> \in DecodeSteps
      /\ \A n \in 1 .. CountMin : <<"register", n>> \in DecodeSteps /\ <<"no-buffer", n>> \in DecodeSteps
  BY DEF DecodeSteps
<1>3. ASSUME At("extra") \/ At("data")
      PROVE  comp.todo \in Seq(DecodeSteps) /\ Tail(comp.todo) \in Seq(DecodeSteps)
  <2>1. PICK K \in {ChangeSteps, EnableSteps, DecodeSteps, FailSteps} :
          comp.todo \in Seq(K) /\ Head(comp.todo) \in K /\ Tail(comp.todo) \in Seq(K)
    BY <1>0, <1>3, StepKind DEF At
  <2>2. K = DecodeSteps
    BY <1>3, <2>1 DEF At, ChangeSteps, EnableSteps, FailSteps
  <2> QED BY <2>1, <2>2
<1>4. CASE comp' = [comp EXCEPT !.todo = <<>>, !.buf = NULL]
  <2>1. PICK none : none = <<>>
    OBVIOUS
  <2>2. none \in Seq(DecodeSteps)
    BY <2>1
  <2>3. comp'.pc = comp.pc /\ comp'.todo = none
    BY <1>0, <1>4, <2>1 DEF CompType
  <2> QED BY <2>2, <2>3
<1>5. CASE DecodeStart
  <2>1. PICK content \in {"data", "empty"} :
          comp' = [comp EXCEPT !.buf = Head(port["in"].queue),
                               !.todo = <<<<"extra", NULL>>, <<content, NULL>>>>]
    BY <1>5 DEF DecodeStart
  <2>2. <<"extra", NULL>> \in DecodeSteps /\ <<content, NULL>> \in DecodeSteps
    BY DEF DecodeSteps
  <2>3. <<<<"extra", NULL>>, <<content, NULL>>>> \in Seq(DecodeSteps)
    BY <2>2
  <2> QED BY <1>0, <2>1, <2>3 DEF CompType
<1>6. CASE DecodeExtra
  <2>1. At("extra") /\ Done
    BY <1>6 DEF DecodeExtra, Step
  <2> QED BY <1>0, <1>3, <2>1 DEF Done, CompType
<1>7. CASE comp' = comp /\ At("data")
  BY <1>3, <1>7
<1>8. CASE DecodeRegister \/ DecodeNoBuffer
  <2>1. Arg \in 1 .. CountMin
    BY <1>0, <1>8, StepKind DEF DecodeRegister, DecodeNoBuffer, Step, At
  <2>2. Arg # CountMin => Arg + 1 \in 1 .. CountMin
    BY <1>0, <2>1
  <2>3. \/ Continue(<<<<"no-buffer", Arg>>>>) \/ Continue(<<<<"register", Arg>>>>)
        \/ Continue(<<<<"finish", NULL>>>>) \/ Continue(<<<<"data", NULL>>>>)
        \/ Arg # CountMin /\ Continue(<<<<"register", Arg + 1>>>>)
    BY <1>8 DEF DecodeRegister, DecodeNoBuffer
  <2> QED BY <1>1, <1>2, <2>1, <2>2, <2>3
<1>9. CASE Continue(<<<<"tail", NULL>>>>) \/ Continue(<<<<"finish", NULL>>>>) \/ Continue(<<<<"register", 1>>>>)
  <2>1. 1 \in 1 .. CountMin
    BY <1>0
  <2> QED BY <1>1, <1>2, <1>9, <2>1
<1>10. CASE DecodeTail \/ DecodeFinish
  <2>1. comp' = [comp EXCEPT !.todo = <<>>, !.buf = NULL] \/ Continue(<<<<"finish", NULL>>>>)
    BY <1>10 DEF DecodeTail, DecodeFinish, Continue
  <2> QED BY <1>4, <1>9, <2>1
<1> QED
  BY <1>5, <1>6, <1>7, <1>8, <1>9, <1>10
     DEF DecodeNext, DecodeStop, DecodeEmpty, DecodeAborted, DecodeHeaders, DecodeReconfigure,
         DecodeWaiting, DecodePicture, DecodeNothing, DecodeNewHeaders, Decoding, Step

\* Decoding leaves commands, threads and the codec's existence alone.
LEMMA DecodeRest ==
  ASSUME PlanInv, DecodeNext
  PROVE  /\ cmdq' = cmdq /\ out' = out /\ cli'.cmd = cli.cmd
         /\ sd'.thread = sd.thread /\ codec'.made = codec.made
         /\ dec'.release = dec.release
         /\ DecodeFailed \/ (dec'.state = dec.state /\ dec'.run = dec.run)
         /\ comp.todo = <<>> \/ Head(comp.todo)[1] # "state"
         /\ comp.todo = <<>> => dec.state = "Executing"
<1>0. dec \in DecType /\ sd \in SharedType /\ codec \in CodecType /\ cli \in ClientType
  BY DEF PlanInv
<1> USE DEF DecodeNext, DecodeStart, DecodeExtra, DecodeStop, DecodeEmpty, DecodeAborted,
        DecodeHeaders, DecodeReconfigure, DecodeWaiting, DecodeRegister, DecodeNoBuffer,
        DecodePicture, DecodeNothing, DecodeNewHeaders, DecodeError, DecodeFailed, DecodeTail,
        DecodeFinish, Decoding
<1>1. cmdq' = cmdq /\ out' = out
  OBVIOUS
<1>2. cli'.cmd = cli.cmd
  <2>1. cli' = cli \/ \E h : cli' = [cli EXCEPT !.held = h]
    OBVIOUS
  <2> QED BY <1>0, <2>1 DEF ClientType
<1>3. sd'.thread = sd.thread
  <2>1. sd' = sd \/ (\E x : sd' = [sd EXCEPT !.inbuff = x]) \/ (\E x : sd' = [sd EXCEPT !.eos = x])
    OBVIOUS
  <2> QED BY <1>0, <2>1 DEF SharedType
<1>4. codec'.made = codec.made
  <2>2. ASSUME DecodeRegister PROVE codec'.made = codec.made
    <3>1. \/ codec' = codec
          \/ \E b : codec' = SetFrameBuffer(codec, b) \/ codec' = [SetFrameBuffer(codec, b) EXCEPT !.phase = "run"]
      BY <2>2
    <3>2. \A b : /\ SetFrameBuffer(codec, b).made = codec.made
                 /\ [SetFrameBuffer(codec, b) EXCEPT !.phase = "run"].made = codec.made
      BY <1>0 DEF SetFrameBuffer, CodecType
    <3> HIDE DEF DecodeNext, DecodeRegister
    <3>3. CASE \E b : codec' = SetFrameBuffer(codec, b)
      BY <3>2, <3>3, Zenon
    <3>4. CASE \E b : codec' = [SetFrameBuffer(codec, b) EXCEPT !.phase = "run"]
      BY <3>2, <3>4, Zenon
    <3> QED BY <3>1, <3>3, <3>4, Zenon
  <2>3. Abort(codec).made = codec.made /\ EndOfStream(codec).made = codec.made
    BY <1>0 DEF Abort, EndOfStream, CodecType
  <2>4. CASE DecodeHeaders
    BY <1>0, <2>4 DEF CodecType
  <2>5. CASE \E more \in BOOLEAN : DecodePicture(more)
    BY <1>0, <2>5 DEF CodecType
  <2>6. CASE DecodeReconfigure \/ DecodeNewHeaders
    BY <1>0, <2>6 DEF CodecType
  <2>7. CASE DecodeError \/ DecodeTail
    BY <2>3, <2>7
  <2>8. DecodeRegister \/ DecodeHeaders \/ (\E more \in BOOLEAN : DecodePicture(more))
        \/ DecodeReconfigure \/ DecodeNewHeaders \/ DecodeError \/ DecodeTail \/ codec' = codec
    OBVIOUS
  <2> HIDE DEF DecodeRegister, DecodeHeaders, DecodePicture, DecodeReconfigure, DecodeNewHeaders,
               DecodeError, DecodeTail
  <2> QED BY <2>2, <2>4, <2>5, <2>6, <2>7, <2>8
<1>5. dec'.release = dec.release /\ (DecodeFailed \/ (dec'.state = dec.state /\ dec'.run = dec.run))
  <2>1. CASE DecodeRegister
    <3>1. dec' = dec \/ \E l, e : dec' = [dec EXCEPT !.list = l, !.extra = e]
      <4>1. PICK i, e : i = Arg /\ e = (dec.extra \/ (Arg = CountMin))
        OBVIOUS
      <4>2. PICK b : b = port["out"].queue[i]
        OBVIOUS
      <4>3. dec' = dec \/ dec' = [dec EXCEPT !.list[i] = b, !.extra = e]
        BY <2>1, <4>1, <4>2
      <4> QED BY <4>3
    <3> QED BY <1>0, <3>1 DEF DecType
  <2>2. CASE DecodeReconfigure \/ DecodeFailed \/ DecodeFinish
    BY <1>0, <2>2 DEF DecType
  <2> QED BY <2>1, <2>2
<1>6. /\ comp.todo = <<>> \/ Head(comp.todo)[1] # "state"
      /\ comp.todo = <<>> => dec.state = "Executing"
  BY DEF Step, At
<1> QED BY <1>1, <1>2, <1>3, <1>4, <1>5, <1>6

\* Decoding a buffer
LEMMA ThreadDecode ==
  ASSUME ThreadInv, DecodeNext PROVE Alone' /\ Asked' /\ Planned' /\ Output'
<1>0. PlanInv /\ Alone /\ Asked /\ Planned /\ Output
  BY DEF ThreadInv
<1>1. /\ cmdq' = cmdq /\ out' = out /\ cli'.cmd = cli.cmd
      /\ sd'.thread = sd.thread /\ codec'.made = codec.made /\ dec'.release = dec.release
      /\ DecodeFailed \/ (dec'.state = dec.state /\ dec'.run = dec.run)
      /\ comp.todo = <<>> \/ Head(comp.todo)[1] # "state"
      /\ comp.todo = <<>> => dec.state = "Executing"
  BY <1>0, DecodeRest
<1>2. dec.state # "Invalid"
  BY <1>0, <1>1 DEF Asked
<1>3. dec \in DecType /\ codec \in CodecType /\ comp \in CompType
  BY <1>0 DEF PlanInv
<1>4. CASE DecodeFailed
  <2>1. /\ dec'.state = "Invalid" /\ dec'.run = FALSE /\ comp'.todo = <<>> /\ comp'.pc = comp.pc
    BY <1>3, <1>4 DEF DecodeFailed, DecType, CompType
  <2>2. comp'.todo \in Seq(DecodeSteps)
    <3>1. \A S : <<>> \in Seq(S)
      OBVIOUS
    <3> QED BY <2>1, <3>1, Zenon
  <2>3. Alone'
    BY <1>0, <1>1, <2>1, <2>2 DEF Alone
  <2>4. Asked'
    BY <2>1 DEF Asked
  <2>5. Planned'
    BY <2>1 DEF Planned, Fits
  <2>6. Output'
    BY <1>0, <1>1, <2>1 DEF Output
  <2> QED BY <2>3, <2>4, <2>5, <2>6
<1>5. CASE DecodeError
  <2>1. /\ codec' = Abort(codec) /\ Continue(JoinAndAbort \o <<<<"failed", NULL>>>>)
        /\ dec' = dec
    BY <1>5 DEF DecodeError
  <2>2. codec'.aborted = TRUE
    BY <1>3, <2>1 DEF Abort, CodecType
  <2>3. PICK j, a, f : j = <<"join", NULL>> /\ a = <<"abortafter", NULL>> /\ f = <<"failed", NULL>>
    OBVIOUS
  <2>4. j \in FailSteps /\ a \in FailSteps /\ f \in FailSteps
    BY <2>3 DEF FailSteps
  <2>5. PICK p, q : p = <<j, a>> /\ q = p \o <<f>>
    OBVIOUS
  <2>6. /\ comp'.todo = q /\ comp'.pc = comp.pc /\ q \in Seq(FailSteps)
        /\ \A i \in DOMAIN q : (i = 1 /\ q[i] = j) \/ q[i] = a \/ q[i] = f
    <3>1. Continue(q)
      BY <2>1, <2>3, <2>5, Zenon DEF JoinAndAbort
    <3>2. p \in Seq(FailSteps) /\ \A i \in DOMAIN p : (i = 1 /\ p[i] = j) \/ p[i] = a
      BY <2>4, <2>5
    <3>3. /\ q \in Seq(FailSteps)
          /\ \A i \in DOMAIN q : (i \in DOMAIN p /\ q[i] = p[i]) \/ q[i] = f
      BY <2>4, <2>5, <3>2, LastStep
    <3>4. comp'.todo = q /\ comp'.pc = comp.pc
      BY <1>3, <3>1 DEF Continue, CompType
    <3> QED BY <3>2, <3>3, <3>4
  <2>7. Alone'
    BY <1>0, <1>1, <2>6 DEF Alone
  <2>8. Asked'
    BY <1>0, <1>1, <1>2, <2>1 DEF Asked, Stops
  <2>9. Planned'
    <3>1. ASSUME NEW i \in DOMAIN comp'.todo
          PROVE  \/ i = 1 /\ comp'.todo[i] = j
                 \/ comp'.todo[i] = a \/ comp'.todo[i] = f
      BY <2>6, <3>1
    <3>2. ASSUME NEW i \in DOMAIN comp'.todo PROVE Kept(comp.todo, i)'
      <4>1. PICK x : x = comp'.todo[i] /\ x[1] \in {"join", "abortafter", "failed"}
        BY <2>3, <3>1
      <4> QED BY <2>2, <4>1 DEF Kept
    <3>3. ASSUME NEW st PROVE Fits(comp'.todo, st)
      BY <2>3, <3>1 DEF Fits, Unused
    <3> QED BY <3>2, <3>3 DEF Planned
  <2>10. Output'
    <3>1. ~(dec.state \notin {"Executing", "Invalid"} /\ sd.thread) /\ ~(dec.state = "Idle" /\ ~codec.made)
      <4>1. comp.todo = <<>> => dec.state = "Executing"
        BY <1>1
      <4> QED BY <1>0, <1>1, <4>1 DEF Output, Next1
    <3> QED BY <1>0, <1>1, <2>1, <3>1 DEF Output
  <2> QED BY <2>7, <2>8, <2>9, <2>10
<1>6. CASE ~DecodeFailed /\ ~DecodeError
  <2>1. comp'.pc = comp.pc /\ comp'.todo \in Seq(DecodeSteps)
    BY <1>0, <1>6, DecodeTodo
  <2> QED BY <1>1, <1>2, <1>6, <2>1, DecodeKeeps
<1> QED BY <1>4, <1>5, <1>6

\* While a command is executed none is on its way, and the steps of a command are
\* none of decoding.
LEMMA InDrain ==
  ASSUME ThreadInv, comp.todo # <<>>,
         Head(comp.todo)[1] \notin {"join", "abortafter", "failed", "extra", "data", "empty",
                                   "tail", "finish", "register", "no-buffer"}
  PROVE  /\ comp.pc = "drain" /\ cmdq = <<>> /\ cli.cmd = NULL
         /\ \A c \in Commands : c \notin Range(cmdq) /\ c # cli.cmd
<1>0. Alone /\ comp \in CompType /\ NULL \notin Commands
  BY DecoderConstantsOK DEF ThreadInv, PlanInv, DecoderConstantsOK
<1>1. comp.pc = "drain"
  <2>1. ASSUME comp.todo \in Seq(DecodeSteps) \cup Seq(FailSteps) PROVE FALSE
    <3>1. Head(comp.todo) \in DecodeSteps \cup FailSteps
      BY <2>1, HeadTailProperties
    <3> QED BY <3>1 DEF DecodeSteps, FailSteps
  <2> QED BY <1>0, <2>1 DEF Alone, CompType
<1>2. cmdq = <<>> /\ cli.cmd = NULL
  BY <1>0, <1>1 DEF Alone
<1>3. Range(cmdq) = {}
  BY <1>2 DEF Range
<1> QED BY <1>0, <1>1, <1>2, <1>3

\* A step of a plan after which the state is what it was
LEMMA CalmKeeps ==
  ASSUME ThreadInv, comp.todo # <<>>, comp'.pc = comp.pc, cmdq' = cmdq, cli'.cmd = cli.cmd,
         dec'.state = dec.state,
         comp.pc = "drain" \/ (Done /\ dec'.run = dec.run /\ dec'.release = dec.release)
  PROVE  Alone' /\ Asked'
<1>0. Alone /\ Asked /\ comp \in CompType /\ NULL \notin Commands
  BY DecoderConstantsOK DEF ThreadInv, PlanInv, DecoderConstantsOK
<1>1. CASE comp.pc = "drain"
  <2>1. cmdq' = <<>> /\ cli'.cmd = NULL
    BY <1>0, <1>1 DEF Alone
  <2>2. Range(cmdq') = {}
    BY <2>1 DEF Range
  <2> QED BY <1>0, <1>1, <2>1, <2>2 DEF Alone, Asked
<1>2. CASE comp.pc = "loop"
  <2>1. Tail(comp.todo) \in Seq(DecodeSteps) \cup Seq(FailSteps)
    BY <1>0, <1>2, HeadTailProperties DEF Alone
  <2>2. comp'.todo = Tail(comp.todo)
    BY <1>0, <1>2 DEF Done, CompType
  <2>3. Alone'
    BY <1>0, <1>2, <2>1, <2>2 DEF Alone
  <2>4. Asked'
    BY <1>0, <1>2 DEF Asked, Stops
  <2> QED BY <2>3, <2>4
<1> QED BY <1>0, <1>1, <1>2 DEF CompType

\* A command is taken from the queue.
LEMMA ThreadDispatch ==
  ASSUME PlainClient, ThreadInv, CompDispatch PROVE Alone' /\ Asked' /\ Planned' /\ Output'
<1>0. /\ Alone /\ Asked /\ Planned /\ Output /\ dec \in DecType /\ comp \in CompType
      /\ cmdq \in Seq(Commands) /\ NULL \notin Commands
  BY DecoderConstantsOK DEF ThreadInv, PlanInv, DecoderConstantsOK
<1>1. /\ comp.todo = <<>> /\ cmdq # <<>> /\ comp.pc = "loop" /\ dec.run
      /\ cmdq' = Tail(cmdq) /\ comp'.pc = "drain" /\ comp'.todo = Plan(Head(cmdq))
      /\ UNCHANGED <<dec, sd, codec, cli, out>>
  BY <1>0 DEF CompDispatch, Alone, CompType
<1>2. PICK c \in Commands : c = Head(cmdq) /\ c \in Range(cmdq) /\ cmdq' = <<>> /\ cli.cmd = NULL
  <2>1. Len(cmdq) = 1 /\ cli.cmd = NULL
    BY <1>0, <1>1 DEF Alone
  <2>2. Head(cmdq) \in Commands /\ Tail(cmdq) = <<>> /\ cmdq[1] = Head(cmdq) /\ 1 \in DOMAIN cmdq
    BY <1>0, <1>1, <2>1
  <2>3. Head(cmdq) \in Range(cmdq)
    BY <2>2 DEF Range
  <2> QED BY <1>1, <2>1, <2>2, <2>3
<1>3. dec.state # "Invalid" /\ <<dec.state, c>> \in Legal /\ (Stops(c) => dec.release) /\ dec.state # "Pause"
  BY <1>0, <1>1, <1>2 DEF Asked
<1>4. c # <<"StateSet", "Pause">> /\ (c[1] = "Flush" => dec.state = "Executing")
  <2>1. PICK st : st = dec.state
    OBVIOUS
  <2>2. <<st, c>> \in Legal
    BY <1>3, <2>1
  <2>3. <<st, c>>[1] = st /\ <<st, c>>[2] = c
    OBVIOUS
  <2>4. PICK x : x \in Legal /\ x[1] = st /\ x[2] = c
    BY <2>2, <2>3, Zenon
  <2>5. x[2] # <<"StateSet", "Pause">> /\ (x[2][1] = "Flush" => x[1] = "Executing")
    BY <2>4, Zenon DEF PlainClient
  <2> QED BY <2>1, <2>4, <2>5
<1>5. PICK s : s = Plan(c)
  OBVIOUS
<1>6. /\ Fits(s, dec.state) /\ Begins(s, dec.state)
      /\ \A i \in DOMAIN s : s[i][1] = "join" => Stops(c)
  <2>1. dec.state \in States
    BY <1>0 DEF DecType
  <2>2. /\ Fits(Plan(c), dec.state) /\ Begins(Plan(c), dec.state)
        /\ \A i \in DOMAIN Plan(c) : Plan(c)[i][1] = "join" => Stops(c)
    BY <1>3, <1>4, <2>1, PlanFits, Zenon
  <2> QED BY <1>5, <2>2, Zenon
<1>7. comp'.todo = s
  BY <1>1, <1>2, <1>5
<1>8. /\ dec.state \notin {"Executing", "Invalid"} => ~sd.thread
      /\ dec.state \in {"Idle", "Executing"} => codec.made
  BY <1>0, <1>1 DEF Output, Next1
<1>9. ASSUME NEW i \in DOMAIN s PROVE Kept(comp.todo, i)'
  <2>1. PICK x : x = s[i]
    OBVIOUS
  <2>2. /\ x[1] = "destroy" => dec.state = "Idle"
        /\ x = <<"state", "Executing">> => dec.state = "Idle"
        /\ x[1] = "state" => dec.state # "Executing" \/ s[1][1] = "join"
        /\ x = <<"state", "Idle">> => dec.state = "Executing" \/ (i > 1 /\ s[i - 1][1] = "create")
        /\ x[1] = "join" => dec.release
    BY <1>3, <1>6, <2>1 DEF Begins
  <2> QED BY <1>1, <1>3, <1>7, <1>8, <2>1, <2>2 DEF Kept
<1>10. Planned'
  BY <1>1, <1>6, <1>7, <1>9 DEF Planned
<1>11. Output'
  BY <1>0, <1>1, <1>8 DEF Output
<1>12. Alone'
  BY <1>1, <1>2 DEF Alone
<1>13. Asked'
  <2>1. Range(cmdq') = {}
    BY <1>2 DEF Range
  <2> QED BY <1>0, <1>1, <1>2, <1>3, <2>1 DEF Asked
<1> QED BY <1>10, <1>11, <1>12, <1>13

\* The thread is started, or the codec destroyed, and the state follows.
LEMMA ThreadTurns ==
  ASSUME ThreadInv, CompExecute \/ CompDestroy
  PROVE  Alone' /\ Asked' /\ Planned' /\ Output'
<1>0. /\ Alone /\ Asked /\ Planned /\ Output /\ dec \in DecType /\ sd \in SharedType
      /\ comp \in CompType /\ cli \in ClientType
  BY DEF ThreadInv, PlanInv
<1>2. Done /\ comp.todo # <<>> /\ (At("execute") \/ At("destroy"))
  BY DEF CompExecute, CompDestroy, Step, At
<1>3. comp.pc = "drain" /\ cmdq' = cmdq
  <2>1. cmdq' = cmdq
    BY DEF CompExecute, CompDestroy
  <2> QED BY <1>2, <2>1, InDrain DEF At
<1>4. cli'.cmd = cli.cmd /\ dec'.state = dec.state /\ comp'.pc = comp.pc /\ comp'.todo = Tail(comp.todo)
  <2>1. cli' = cli \/ cli' = [cli EXCEPT !.eosBuf = NULL]
    BY DEF CompExecute, CompDestroy
  <2>2. dec'.state = dec.state
    BY <1>0 DEF CompExecute, CompDestroy, DecType
  <2> QED BY <1>0, <1>2, <2>1, <2>2 DEF ClientType, Done, CompType
<1>5. Alone' /\ Asked'
  BY <1>2, <1>3, <1>4, CalmKeeps
<1>6. PICK t : t = comp.todo
  OBVIOUS
<1>7. PICK S : t \in Seq(S)
  BY <1>0, <1>6 DEF CompType
<1>8. /\ t[1] = Head(t) /\ 1 \in DOMAIN t /\ Len(t) \in Nat
      /\ \A i \in DOMAIN Tail(t) : Tail(t)[i] = t[i + 1] /\ i + 1 \in DOMAIN t
      /\ DOMAIN t = 1 .. Len(t) /\ DOMAIN Tail(t) = 1 .. Len(t) - 1
  BY <1>2, <1>6, <1>7
<1>9. Fits(t, dec.state) /\ \A i \in DOMAIN t : Kept(t, i)
  BY <1>0, <1>6 DEF Planned
<1>10. /\ t[1][1] \in {"execute", "destroy"} /\ Len(t) = 2
       /\ t[1][1] = "execute" => dec.state = "Idle" /\ t[2] = <<"state", "Executing">>
       /\ t[1][1] = "destroy" => t[2] = <<"state", "Loaded">>
  <2>1. t[1][1] \in {"execute", "destroy"}
    BY <1>2, <1>6, <1>8 DEF At
  <2>2. PICK x : x = t[1][1]
    OBVIOUS
  <2>3. /\ x = "execute" => dec.state = "Idle" /\ Len(t) = 2 /\ t[2] = <<"state", "Executing">>
        /\ x = "destroy" => Len(t) = 1 + 1 /\ t[1 + 1] = <<"state", "Loaded">>
    BY <1>8, <1>9, <2>2 DEF Fits
  <2>4. 1 + 1 = 2
    OBVIOUS
  <2> QED BY <2>1, <2>2, <2>3, <2>4
<1>11. \A i \in DOMAIN Tail(t) : i = 1 /\ Tail(t)[i] = t[2]
  BY <1>8, <1>10
<1>12. Head(Tail(t)) = t[2] /\ Tail(t) # <<>>
  BY <1>7, <1>8, <1>10
<1>13. Fits(Tail(t), dec.state)
  BY <1>2, <1>6, <1>7, <1>9, TailFits
<1>14. comp'.todo = Tail(t)
  BY <1>4, <1>6
<1>15. CASE CompExecute
  <2>1. At("execute") /\ t[1][1] = "execute"
    BY <1>6, <1>8, <1>15 DEF CompExecute, Step, At
  <2>2. codec.made /\ codec' = codec
    <3>1. Kept(t, 2)
      BY <1>8, <1>9, <1>10
    <3> QED BY <1>10, <1>15, <2>1, <3>1 DEF Kept, CompExecute
  <2>3. out'.pc # "none" => sd'.thread
    BY <1>0, <1>15 DEF CompExecute, StartOutput, Output, SharedType
  <2>4. PICK x : x = t[2]
    OBVIOUS
  <2>5. x = <<"state", "Executing">>
    BY <1>10, <2>1, <2>4
  <2>6. ASSUME NEW i \in DOMAIN comp'.todo PROVE Kept(comp.todo, i)'
    <3>1. comp'.todo[i] = x
      BY <1>11, <1>14, <2>4
    <3> QED BY <2>2, <2>5, <3>1 DEF Kept
  <2>7. Planned'
    BY <1>4, <1>13, <1>14, <2>6 DEF Planned
  <2>8. Next1(<<"state", "Executing">>)'
    BY <1>12, <1>14, <2>4, <2>5 DEF Next1
  <2>9. Output'
    BY <2>2, <2>3, <2>8 DEF Output
  <2> QED BY <1>5, <2>7, <2>9
<1>16. CASE CompDestroy
  <2>1. At("destroy") /\ t[1][1] = "destroy"
    BY <1>6, <1>8, <1>16 DEF CompDestroy, Step, At
  <2>2. dec.state = "Idle" /\ ~sd.thread
    <3>1. Kept(t, 1)
      BY <1>8, <1>9
    <3> QED BY <2>1, <3>1 DEF Kept
  <2>3. out.pc = "none" /\ out' = out /\ sd'.thread = FALSE
    BY <1>0, <1>16, <2>2 DEF CompDestroy, Output
  <2>4. PICK x : x = t[2]
    OBVIOUS
  <2>5. x = <<"state", "Loaded">>
    BY <1>10, <2>1, <2>4
  <2>6. ASSUME NEW i \in DOMAIN comp'.todo PROVE Kept(comp.todo, i)'
    <3>1. comp'.todo[i] = x
      BY <1>11, <1>14, <2>4
    <3> QED BY <2>3, <2>5, <3>1 DEF Kept
  <2>7. Planned'
    BY <1>4, <1>13, <1>14, <2>6 DEF Planned
  <2>8. Next1(<<"state", "Loaded">>)'
    BY <1>12, <1>14, <2>4, <2>5 DEF Next1
  <2>9. Output'
    BY <1>4, <2>2, <2>3, <2>8 DEF Output
  <2> QED BY <1>5, <2>7, <2>9
<1> QED BY <1>15, <1>16

\* The last step of a plan leaves nothing to do.
LEMMA LastDone ==
  ASSUME comp \in CompType, comp.todo # <<>>, Planned, Done,
         \/ Head(comp.todo)[1] \in {"state", "invalid", "reject", "assert"}
         \/ Head(comp.todo) = <<"reset", "flush">>
  PROVE  /\ comp'.todo = <<>> /\ comp'.pc = comp.pc
         /\ Head(comp.todo) = <<"reset", "flush">> => dec.state = "Executing"
         /\ Head(comp.todo) \notin Unused /\ Kept(comp.todo, 1)
<1>1. PICK t : t = comp.todo
  OBVIOUS
<1>2. PICK S : t \in Seq(S)
  BY <1>1 DEF CompType
<1>3. 1 \in DOMAIN t /\ t[1] = Head(t)
  BY <1>1, <1>2
<1>4. /\ 1 = Len(t) /\ (Head(t) = <<"reset", "flush">> => dec.state = "Executing")
      /\ Head(t) \notin Unused /\ Kept(t, 1)
  <2>1. Fits(t, dec.state) /\ Kept(t, 1)
    BY <1>1, <1>3 DEF Planned
  <2>2. PICK x : x = t[1] /\ x = Head(t)
    BY <1>3
  <2>3. /\ x = <<"reset", "flush">> => dec.state = "Executing" /\ 1 = Len(t)
        /\ x[1] \in {"state", "invalid", "reject", "assert"} => 1 = Len(t)
        /\ x \notin Unused
    BY <1>3, <2>1, <2>2 DEF Fits
  <2> QED BY <1>1, <2>1, <2>2, <2>3
<1>5. Tail(t) = <<>>
  <2>1. Tail(t) \in Seq(S) /\ Len(Tail(t)) = 0
    BY <1>1, <1>2, <1>4, HeadTailProperties
  <2> QED BY <2>1, EmptySeq
<1>6. comp'.todo = Tail(t) /\ comp'.pc = comp.pc
  BY <1>1 DEF Done, CompType
<1> QED BY <1>1, <1>4, <1>5, <1>6

\* The end of a change of state, and of a flush of all ports
LEMMA ThreadEnds ==
  ASSUME ThreadInv, CompState \/ CompReset
  PROVE  Alone' /\ Asked' /\ Planned' /\ Output'
<1>0. /\ Alone /\ Asked /\ Planned /\ Output /\ dec \in DecType /\ sd \in SharedType
      /\ comp \in CompType /\ cli \in ClientType
  BY DEF ThreadInv, PlanInv
<1>1. /\ Done /\ comp.todo # <<>> /\ cmdq' = cmdq /\ UNCHANGED codec
      /\ At("state") \/ At("invalid") \/ At("reject") \/ At("reset")
  BY DEF CompState, CompReset, Step, At
<1>2. comp.pc = "drain" /\ cmdq = <<>> /\ cli.cmd = NULL
      /\ \A c \in Commands : c \notin Range(cmdq) /\ c # cli.cmd
  BY <1>1, InDrain DEF At
<1>3. cli'.cmd = cli.cmd /\ comp'.pc = comp.pc
  <2>1. cli' = cli \/ cli' = [cli EXCEPT !.eosBuf = NULL]
    BY DEF CompState, CompReset
  <2> QED BY <1>0, <1>1, <2>1 DEF ClientType, Done, CompType
<1>4. dec.state # "Invalid"
  BY <1>0, <1>1 DEF Asked
<1>5. CASE CompReset
  <2>1. At("reset") /\ Head(comp.todo)[1] = "reset" /\ Head(comp.todo) = <<"reset", Arg>>
    <3>1. At("reset")
      BY <1>5 DEF CompReset, Step
    <3> QED BY <1>0, <1>1, <3>1, StepKind DEF At
  <2>2. dec'.state = dec.state
    BY <1>0, <1>5 DEF CompReset, DecType
  <2>3. Alone' /\ Asked'
    BY <1>1, <1>2, <1>3, <2>2, CalmKeeps
  <2>4. CASE Arg = "flush"
    <3>1. comp'.todo = <<>> /\ dec.state = "Executing"
      BY <1>0, <1>1, <2>1, <2>4, LastDone
    <3>2. Planned'
      BY <3>1 DEF Planned, Fits
    <3>3. codec.made /\ codec' = codec
      BY <1>0, <1>1, <3>1 DEF Output
    <3>4. out'.pc # "none" => sd'.thread
      BY <1>0, <1>5 DEF CompReset, StartOutput, Output, SharedType
    <3>5. Output'
      BY <2>2, <3>1, <3>3, <3>4 DEF Output
    <3> QED BY <2>3, <3>2, <3>5
  <2>5. CASE Arg # "flush"
    <3>1. sd' = [sd EXCEPT !.eos = FALSE, !.eosAddr = NULL] /\ out' = out
      BY <1>5, <2>5 DEF CompReset
    <3>2. sd'.thread = sd.thread
      BY <1>0, <3>1 DEF SharedType
    <3>3. out'.pc # "none" => sd'.thread
      BY <1>0, <3>1, <3>2 DEF Output
    <3>4. Head(comp.todo)[1] \notin {"state", "join", "create"} /\ codec'.made = codec.made
      BY <1>1, <2>1
    <3>5. Planned' /\ Output'
      BY <1>0, <1>1, <2>2, <3>2, <3>3, <3>4, TailKeeps
    <3> QED BY <2>3, <3>5
  <2> QED BY <2>4, <2>5
<1>6. CASE CompState
  <2>1. At("state") \/ At("invalid") \/ At("reject")
    BY <1>6 DEF CompState, Step
  <2>2. comp'.todo = <<>> /\ Head(comp.todo) \notin Unused /\ Kept(comp.todo, 1)
    BY <1>0, <1>1, <2>1, LastDone DEF At
  <2>3. UNCHANGED <<sd, out, codec, cmdq, cli>>
    BY <1>6 DEF CompState
  <2>4. Planned'
    BY <2>2 DEF Planned, Fits
  <2>5. Alone'
    BY <1>2, <1>3, <2>3 DEF Alone
  <2>6. CASE At("state")
    <3>1. PICK x : x = Head(comp.todo) /\ x = <<"state", Arg>> /\ Arg \in States /\ x = comp.todo[1]
      <4>1. comp.todo[1] = Head(comp.todo)
        BY <1>0, <1>1 DEF CompType
      <4>2. Head(comp.todo) = <<Head(comp.todo)[1], Arg>> /\ Arg \in States /\ Head(comp.todo)[1] = "state"
        BY <1>0, <1>1, <2>6, StepKind DEF At
      <4> QED BY <4>1, <4>2
    <3>2. Arg \notin {"Pause", "Invalid"}
      BY <2>2, <3>1 DEF Unused
    <3>3. dec' = [dec EXCEPT !.state = Arg, !.trans = Arg]
      BY <1>6, <2>6 DEF CompState, At
    <3>4. dec'.state = Arg
      BY <1>0, <3>1, <3>3 DEF DecType
    <3>5. /\ Arg = "Executing" => codec.made
          /\ Arg = "Executing" \/ ~sd.thread
          /\ Arg = "Idle" => codec.made
      <4>1. /\ x = <<"state", "Executing">> => codec.made
            /\ x[1] = "state" => x = <<"state", "Executing">> \/ ~sd.thread \/ x[1] = "join"
            /\ x = <<"state", "Idle">> => codec.made
        BY <2>2, <3>1 DEF Kept
      <4> QED BY <3>1, <4>1
    <3>6. Output'
      BY <1>0, <2>3, <3>4, <3>5 DEF Output
    <3>7. Asked'
      BY <1>2, <2>3, <3>2, <3>4 DEF Asked
    <3> QED BY <2>4, <2>5, <3>6, <3>7
  <2>7. CASE At("invalid")
    <3>1. dec' = [dec EXCEPT !.state = "Invalid", !.run = FALSE]
      BY <1>6, <2>7 DEF CompState, At
    <3>2. dec'.state = "Invalid" /\ dec'.run = FALSE
      BY <1>0, <3>1 DEF DecType
    <3>3. Output'
      BY <1>0, <2>3, <3>2 DEF Output
    <3>4. Asked'
      BY <1>2, <2>2, <2>3, <3>2 DEF Asked
    <3> QED BY <2>4, <2>5, <3>3, <3>4
  <2>8. CASE At("reject")
    <3>1. dec' = [dec EXCEPT !.trans = dec.state]
      BY <1>6, <2>8 DEF CompState, At
    <3>2. dec'.state = dec.state
      BY <1>0, <3>1 DEF DecType
    <3>3. Head(comp.todo)[1] \notin {"state", "join", "create"} /\ (out'.pc # "none" => sd'.thread)
      BY <1>0, <2>3, <2>8 DEF At, Output
    <3>4. Planned' /\ Output'
      BY <1>0, <1>1, <2>3, <3>2, <3>3, TailKeeps
    <3>5. Alone' /\ Asked'
      BY <1>1, <1>2, <1>3, <3>2, CalmKeeps
    <3> QED BY <3>4, <3>5
  <2> QED BY <2>1, <2>6, <2>7, <2>8
<1> QED BY <1>5, <1>6

\* The waits for the ports to be populated
LEMMA ThreadWaits ==
  ASSUME ThreadInv, CompWaitReady \/ CompWaitEnds \/ CompWaitFails
  PROVE  Alone' /\ Asked' /\ Planned' /\ Output'
<1>0. /\ Alone /\ Asked /\ Planned /\ Output /\ comp \in CompType
  BY DEF ThreadInv, PlanInv
<1> DEFINE Waits == {"ready", "populated", "ready-wait", "populated-wait"}
<1>1. /\ comp.todo # <<>> /\ Head(comp.todo)[1] \in Waits
      /\ UNCHANGED <<dec, sd, codec, cmdq, cli, out>>
  BY DEF CompWaitReady, CompWaitEnds, CompWaitFails, Step, At
<1>2. Head(comp.todo)[1] \notin Special /\ Head(comp.todo)[1] # "create"
      /\ comp.pc = "drain"
  BY <1>1, InDrain DEF Special
<1>3. ASSUME comp'.pc = comp.pc PROVE Alone' /\ Asked'
  BY <1>1, <1>2, <1>3, CalmKeeps
<1>4. CASE Done
  <2>1. out'.pc # "none" => sd'.thread
    BY <1>0, <1>1 DEF Output
  <2>2. Head(comp.todo)[1] \notin {"state", "join", "create"}
    BY <1>2 DEF Special
  <2>3. Planned' /\ Output'
    BY <1>0, <1>1, <1>4, <2>1, <2>2, TailKeeps
  <2>4. comp'.pc = comp.pc
    BY <1>0, <1>4 DEF Done, CompType
  <2> QED BY <1>3, <2>3, <2>4
<1>5. ASSUME NEW name \in Waits, comp' = [comp EXCEPT !.todo[1][1] = name]
      PROVE  Alone' /\ Asked' /\ Planned' /\ Output'
  <2>1. PICK a, b : comp.todo[1] = <<a, b>>
    <3>1. comp.todo[1] = Head(comp.todo)
      BY <1>0, <1>1 DEF CompType
    <3> QED BY <1>0, <1>1, <3>1, StepKind
  <2>2. [comp.todo[1] EXCEPT ![1] = name] = <<name, b>>
    BY <2>1
  <2>3. PICK y : y = <<name, b>>
    OBVIOUS
  <2>4. y[1] = name /\ [comp.todo[1] EXCEPT ![1] = name] = y
    BY <2>2, <2>3
  <2>5. comp' = [comp EXCEPT !.todo = [comp.todo EXCEPT ![1] = [comp.todo[1] EXCEPT ![1] = name]]]
    BY <1>5
  <2>6. comp'.todo = [comp.todo EXCEPT ![1] = y] /\ comp'.pc = comp.pc
    BY <1>0, <2>4, <2>5 DEF CompType
  <2>7. y[1] \notin Special \cup {"create"} /\ Head(comp.todo)[1] \notin Special \cup {"create"}
    BY <1>2, <2>4 DEF Special
  <2>8. Planned' /\ Output'
    BY <1>0, <1>1, <2>6, <2>7, RenameKeeps
  <2> QED BY <1>3, <2>6, <2>8
<1>6. ASSUME NEW s \in {<<>>, <<<<"invalid", NULL>>>>}, Continue(s)
      PROVE  Alone' /\ Asked' /\ Planned' /\ Output'
  <2>1. comp'.todo = s /\ comp'.pc = comp.pc
    BY <1>0, <1>6 DEF Continue, CompType
  <2>2. Head(comp.todo)[1] # "state"
    BY <1>2 DEF Special
  <2>3. Planned' /\ Output'
    BY <1>0, <1>1, <2>1, <2>2, ShortKeeps
  <2> QED BY <1>3, <2>1, <2>3
<1>7. \/ Done \/ \E name \in Waits : comp' = [comp EXCEPT !.todo[1][1] = name]
      \/ \E s \in {<<>>, <<<<"invalid", NULL>>>>} : Continue(s)
  <2>1. CASE CompWaitReady
    <3>1. Done \/ comp' = [comp EXCEPT !.todo[1][1] = IF @ = "ready" THEN "ready-wait" ELSE "populated-wait"]
      BY <2>1 DEF CompWaitReady
    <3>2. \/ Done \/ comp' = [comp EXCEPT !.todo[1][1] = "ready-wait"]
          \/ comp' = [comp EXCEPT !.todo[1][1] = "populated-wait"]
      BY <3>1
    <3> QED BY <3>2
  <2>2. CASE CompWaitEnds
    <3>1. comp' = [comp EXCEPT !.todo[1][1] = IF @ = "ready-wait" THEN "ready" ELSE "populated"]
      BY <2>2 DEF CompWaitEnds
    <3>2. \/ comp' = [comp EXCEPT !.todo[1][1] = "ready"]
          \/ comp' = [comp EXCEPT !.todo[1][1] = "populated"]
      BY <3>1
    <3> QED BY <3>2
  <2>3. CASE CompWaitFails
    BY <2>3 DEF CompWaitFails
  <2> QED BY <2>1, <2>2, <2>3
<1> QED BY <1>4, <1>5, <1>6, <1>7

\* The other steps of the command handlers
LEMMA ThreadSteps ==
  ASSUME ThreadInv, CompCreate \/ CompJoin \/ CompAbortAfter \/ CompSpin \/ CompReturn
                      \/ CompQueues \/ CompDealloc \/ CompDisabled \/ CompEnabled
  PROVE  Alone' /\ Asked' /\ Planned' /\ Output'
<1>0. /\ Alone /\ Asked /\ Planned /\ Output /\ dec \in DecType /\ sd \in SharedType
      /\ comp \in CompType /\ cli \in ClientType /\ codec \in CodecType
  BY DEF ThreadInv, PlanInv
<1>1. /\ comp.todo # <<>> /\ cmdq' = cmdq /\ out' = out
      /\ Head(comp.todo)[1] \in {"create", "join", "abortafter", "spin", "return", "queues", "dealloc",
                                "disabled", "enabled"}
  BY DEF CompCreate, CompJoin, CompAbortAfter, CompSpin, CompReturn, CompQueues, CompDealloc,
         CompDisabled, CompEnabled, Step, At
<1>2. cli'.cmd = cli.cmd
  <2>1. cli' = cli \/ \E h : cli' = [cli EXCEPT !.held = h]
    BY DEF CompCreate, CompJoin, CompAbortAfter, CompSpin, CompReturn, CompQueues, CompDealloc,
           CompDisabled, CompEnabled
  <2> QED BY <1>0, <2>1 DEF ClientType
<1>3. dec'.state = dec.state /\ dec'.run = dec.run /\ dec'.release = dec.release
  <2>1. CASE CompEnabled
    <3>1. \E x : dec' = [dec EXCEPT !.reconf = x]
      BY <2>1 DEF CompEnabled
    <3> QED BY <1>0, <3>1 DEF DecType
  <2>2. CASE CompReturn \/ CompDisabled
    BY <1>0, <2>2 DEF CompReturn, CompDisabled, DecType
  <2>3. CASE dec' = dec
    BY <2>3
  <2> QED BY <2>1, <2>2, <2>3 DEF CompCreate, CompJoin, CompAbortAfter, CompSpin, CompQueues, CompDealloc
<1>4. \/ sd'.thread = FALSE /\ out'.pc = "none"
      \/ sd'.thread = sd.thread /\ Head(comp.todo)[1] # "join"
  <2>1. CASE CompJoin
    BY <1>0, <2>1 DEF CompJoin, SharedType, Output
  <2>2. CASE CompSpin
    BY <1>0, <2>2 DEF CompSpin, SharedType, Step, At
  <2>3. CASE sd' = sd /\ ~At("join")
    BY <1>1, <2>3 DEF At
  <2> QED BY <2>1, <2>2, <2>3 DEF CompCreate, CompAbortAfter, CompReturn, CompQueues, CompDealloc,
             CompDisabled, CompEnabled, Step, At
<1>5. CASE Done /\ ~(CompCreate /\ UNCHANGED codec)
  <2>1. codec'.made = TRUE \/ (codec'.made = codec.made /\ Head(comp.todo)[1] # "create")
    <3>1. CASE CompCreate
      <4>1. codec' = [NoCodec EXCEPT !.made = TRUE]
        BY <1>5, <3>1 DEF CompCreate
      <4> QED BY <4>1 DEF NoCodec
    <3>2. CASE CompAbortAfter
      <4>1. AbortAfter(codec).made = codec.made
        BY <1>0, CodecMade, Zenon
      <4> QED BY <3>2, <4>1 DEF CompAbortAfter, Step, At
    <3>3. CASE codec' = codec /\ ~At("create")
      BY <1>1, <3>3 DEF At
    <3> QED BY <3>1, <3>2, <3>3 DEF CompJoin, CompSpin, CompReturn, CompQueues, CompDealloc,
               CompDisabled, CompEnabled, Step, At
  <2>2. comp'.pc = comp.pc
    BY <1>0, <1>5 DEF Done, CompType
  <2>3. Alone' /\ Asked'
    BY <1>1, <1>2, <1>3, <1>5, <2>2, CalmKeeps
  <2>4. out'.pc # "none" => sd'.thread
    BY <1>0, <1>1, <1>4 DEF Output
  <2>5. Planned' /\ Output'
    BY <1>0, <1>1, <1>3, <1>4, <1>5, <2>1, <2>4, TailKeeps
  <2> QED BY <2>3, <2>5
<1>6. ASSUME NEW x, x \in {"invalid", "assert"}, Continue(<<<<x, NULL>>>>),
             UNCHANGED <<dec, sd, codec, out>>, At("create") \/ At("queues")
      PROVE  Alone' /\ Asked' /\ Planned' /\ Output'
  <2>1. comp'.todo \in {<<<<"invalid", NULL>>>>, <<<<"assert", NULL>>>>} /\ comp'.pc = comp.pc
    BY <1>0, <1>6 DEF Continue, CompType
  <2>2. comp.pc = "drain" /\ Head(comp.todo)[1] # "state"
    BY <1>1, <1>6, InDrain DEF At
  <2>3. Alone' /\ Asked'
    BY <1>1, <1>2, <1>3, <2>1, <2>2, CalmKeeps
  <2>4. Planned' /\ Output'
    BY <1>0, <1>1, <1>6, <2>1, <2>2, ShortKeeps
  <2> QED BY <2>3, <2>4
<1>7. CASE CompCreate /\ UNCHANGED codec
  <2>1. CASE Continue(<<<<"invalid", NULL>>>>)
    BY <1>6, <1>7, <2>1 DEF CompCreate, Step
  <2>2. CASE codec' = [NoCodec EXCEPT !.made = TRUE] /\ Done
    <3>1. codec'.made = TRUE /\ comp'.pc = comp.pc
      BY <1>0, <2>2 DEF NoCodec, Done, CompType
    <3>2. Alone' /\ Asked'
      BY <1>1, <1>2, <1>3, <2>2, <3>1, CalmKeeps
    <3>3. (out'.pc # "none" => sd'.thread) /\ Head(comp.todo)[1] \notin {"state", "join"}
      BY <1>0, <1>1, <1>4, <1>7 DEF Output, CompCreate, Step, At
    <3>4. Planned' /\ Output'
      BY <1>0, <1>1, <1>3, <1>4, <2>2, <3>1, <3>3, TailKeeps
    <3> QED BY <3>2, <3>4
  <2> QED BY <1>7, <2>1, <2>2 DEF CompCreate
<1>8. CASE CompQueues /\ ~Done
  BY <1>6, <1>8 DEF CompQueues, Step
<1> QED BY <1>5, <1>7, <1>8 DEF CompCreate, CompJoin, CompAbortAfter, CompSpin, CompReturn,
           CompQueues, CompDealloc, CompDisabled, CompEnabled

\* The command handlers
LEMMA ThreadCommand ==
  ASSUME PlainClient, ThreadInv, CommandNext PROVE Alone' /\ Asked' /\ Planned' /\ Output'
<1>1. CASE CompDrained
  <2>0. Alone /\ Asked /\ Planned /\ Output /\ comp \in CompType
    BY DEF ThreadInv, PlanInv
  <2>1. /\ comp.todo = <<>> /\ comp'.todo = comp.todo /\ comp'.pc = "loop" /\ cmdq = <<>>
        /\ UNCHANGED <<dec, sd, codec, cmdq, cli, out>>
    BY <1>1, <2>0 DEF CompDrained, CompType
  <2>2. comp'.todo \in Seq(DecodeSteps)
    <3>1. \A S : <<>> \in Seq(S)
      OBVIOUS
    <3> QED BY <2>1, <3>1, Zenon
  <2>3. Alone' /\ Asked'
    BY <2>0, <2>1, <2>2 DEF Alone, Asked, Stops
  <2>4. Planned' /\ Output'
    BY <2>0, <2>1, QuietKeeps
  <2> QED BY <2>3, <2>4
<1> QED BY <1>1, ThreadDispatch, ThreadTurns, ThreadEnds, ThreadWaits, ThreadSteps DEF CommandNext

-----------------------------------------------------------------------------
(* The theorems *)

\* The invariant holds in every state of a plain client's decoder.
LEMMA ThreadInvariant == ASSUME PlainClient PROVE Spec => []ThreadInv
<1>1. ASSUME ThreadInv, [Next]_vars PROVE ThreadInv'
  <2>1. CASE Next
    <3>1. PlanInv'
      BY <1>1, <2>1, PlanClient, PlanCommand, PlanDecode, PlanOutput DEF Next, ThreadInv
    <3>2. Alone' /\ Asked' /\ Planned' /\ Output'
      BY <1>1, <2>1, ThreadClient, ThreadCommand, ThreadDecode, ThreadOutput DEF Next
    <3> QED BY <3>1, <3>2 DEF ThreadInv
  <2>2. CASE UNCHANGED vars
    <3>1. PlanInv'
      BY <1>1, <2>2 DEF ThreadInv, PlanInv, EventInv, PortsGood, ClientGood, OutputGood,
                        ClientSends, OutputHolds, vars
    <3>2. Planned' /\ Output'
      BY <1>1, <2>2, QuietKeeps DEF ThreadInv, vars
    <3>3. Alone' /\ Asked'
      BY <1>1, <2>2 DEF ThreadInv, Alone, Asked, Stops, vars
    <3> QED BY <3>1, <3>2, <3>3 DEF ThreadInv
  <2> QED BY <1>1, <2>1, <2>2
<1> QED BY <1>1, ThreadInit, PTL DEF Spec

\* There is a codec as long as the output thread runs, which calls it without a
\* lock or a check: transition_to_loaded_from_idle destroys the codec only when
\* the thread has been joined.
THEOREM OutputHasCodec == ASSUME PlainClient PROVE Spec => []CodecOutlivesOutput
<1>1. ThreadInv => CodecOutlivesOutput
  BY DEF ThreadInv, Output, CodecOutlivesOutput
<1> QED BY <1>1, ThreadInvariant, PTL

\* Wherever the component thread calls pthread_join on the output thread, that
\* thread has been told to end: by releaseBuffers or by an abort of the codec.
THEOREM JoinsEnd == ASSUME PlainClient PROVE Spec => []JoinWillEnd
<1>1. ASSUME ThreadInv, At("join") PROVE dec.release \/ codec.aborted
  <2>1. comp.todo # <<>> /\ comp \in CompType /\ Planned
    BY <1>1 DEF ThreadInv, PlanInv, At
  <2>2. comp.todo[1] = Head(comp.todo) /\ 1 \in DOMAIN comp.todo
    BY <2>1 DEF CompType
  <2>3. Kept(comp.todo, 1)
    BY <2>1, <2>2 DEF Planned
  <2> QED BY <1>1, <2>2, <2>3 DEF At, Kept
<1>2. ThreadInv => JoinWillEnd
  BY <1>1 DEF JoinWillEnd
<1> QED BY <1>2, ThreadInvariant, PTL
=============================================================================
