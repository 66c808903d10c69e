------------------------------ MODULE BaseComp ------------------------------
(***************************************************************************)
(* The base of a component (basecomp.c) with the loop of the component     *)
(* thread (decoder.c decoder_thread_main) and the end of a component       *)
(* (decoder.c decoder_deinit, basecomp_destroy): client threads send       *)
(* commands, the component thread drains them, and the thread that calls   *)
(* FreeHandle stops it with CMD_EXIT_LOOP, joins it and destroys the       *)
(* queue.                                                                  *)
(*                                                                         *)
(* Every step is a step of the message queue, or leaves the queue alone.   *)
(* What a command does is abstracted to the one effect the loop sees: some *)
(* commands (Fatal) end in OMX_StateInvalid with run = OMX_FALSE.          *)
(***************************************************************************)
EXTENDS MsgQueue

CONSTANTS Clients,    \* threads of the IL client that send commands
          Comp,       \* the component thread
          Owner,      \* the thread that calls FreeHandle
          EXIT,       \* CMD_EXIT_LOOP
          Fatal       \* commands whose handler stops the component

ASSUME CompConstantsOK ==
  /\ Threads = Clients \cup {Comp, Owner}
  /\ Comp \notin Clients /\ Owner \notin Clients /\ Comp # Owner
  /\ EXIT \in Msgs /\ Fatal \subseteq Msgs \ {EXIT}

VARIABLES run,        \* this->run
          cpc,        \* component thread: "test", "wait", "drain", "exited"
          dpc,        \* FreeHandle: "open", "stopping", "exitsent", "joined"
          sendFailed  \* the EXIT command could not be queued

loopVars == <<run, cpc, dpc, sendFailed>>
compVars == <<vars, loopVars>>

CompInit == /\ Init
            /\ run = TRUE /\ cpc = "test" /\ dpc = "open" /\ sendFailed = FALSE
-----------------------------------------------------------------------------
(* HantroOmx_basecomp_send_command, by any client thread.  The heap is not    *)
(* exhausted: clients leave a cell for the EXIT command (bound on Nodes).     *)

ClientSend(t) ==
  \/ /\ dpc = "open" /\ Cardinality(Nodes \ alloc) > 1
     /\ \E m \in Msgs \ {EXIT} : PushPrepare(t, m)
     /\ UNCHANGED loopVars
  \/ /\ PushLink(t) \/ PushEventFails(t) \/ PushBlocks(t)
     /\ UNCHANGED loopVars
-----------------------------------------------------------------------------
(* The component thread *)

\* while (this->run)
LoopTest == /\ cpc = "test"
            /\ cpc' = IF run THEN "wait" ELSE "exited"
            /\ UNCHANGED <<vars, run, dpc, sendFailed>>

\* select() on the queue's event returns only when a byte is in its pipe.
LoopWake == /\ cpc = "wait" /\ signaled
            /\ cpc' = "drain"
            /\ UNCHANGED <<vars, run, dpc, sendFailed>>

\* try_recv_command returned a command: leave on EXIT, else dispatch it.
LoopDispatch == /\ cpc = "drain"
                /\ GetFront(Comp)
                /\ run' = (run /\ got' # EXIT /\ got' \notin Fatal)
                /\ cpc' = IF got' = EXIT THEN "test" ELSE "drain"
                /\ UNCHANGED <<dpc, sendFailed>>

\* try_recv_command found the queue empty: back to the wait.
LoopDrained == /\ cpc = "drain"
               /\ GetEmpty(Comp)
               /\ cpc' = "test"
               /\ UNCHANGED <<run, dpc, sendFailed>>

\* try_recv_command failed: the loop is left for good.
LoopFails == /\ cpc = "drain"
             /\ GetEventFails(Comp)
             /\ run' = FALSE /\ cpc' = "test"
             /\ UNCHANGED <<dpc, sendFailed>>

CompThread == LoopTest \/ LoopWake \/ LoopDispatch \/ LoopDrained
-----------------------------------------------------------------------------
(* decoder_deinit: the last call a client makes on a component *)

DeinitStop ==
  /\ dpc = "open" /\ \A t \in Clients : pc[t] = "idle"
  /\ dpc' = "stopping" /\ run' = FALSE
  /\ UNCHANGED <<vars, cpc, sendFailed>>

\* Mutation: only the flag is cleared, no command wakes the thread.
DeinitSendExit_FlagOnly ==
  /\ dpc = "stopping" /\ dpc' = "exitsent"
  /\ UNCHANGED <<vars, run, cpc, sendFailed>>

DeinitSendExit ==
  /\ dpc = "stopping"
  /\ \/ PushPrepare(Owner, EXIT) /\ UNCHANGED <<dpc, sendFailed>>
     \/ PushLink(Owner) /\ dpc' = "exitsent" /\ UNCHANGED sendFailed
     \/ PushEventFails(Owner) /\ dpc' = "exitsent" /\ sendFailed' = TRUE
     \/ PushBlocks(Owner) /\ UNCHANGED <<dpc, sendFailed>>
  /\ UNCHANGED <<run, cpc>>

\* OSAL_ThreadDestroy (pthread_join), then msgque_destroy.
DeinitJoin ==
  /\ dpc = "exitsent" /\ cpc = "exited"
  /\ dpc' = "joined"
  /\ DestroyBegin
  /\ UNCHANGED <<run, cpc, sendFailed>>

DeinitDestroy ==
  /\ dpc = "joined"
  /\ DestroyStep \/ DestroyBadAccess \/ DestroyEnd
  /\ UNCHANGED loopVars

Deinit == DeinitStop \/ DeinitSendExit \/ DeinitJoin \/ DeinitDestroy
-----------------------------------------------------------------------------
CompNext == \/ \E t \in Clients : ClientSend(t)
            \/ CompThread \/ LoopFails
            \/ Deinit

CompSpec == CompInit /\ [][CompNext]_compVars

\* The scheduler runs every thread that can run; nobody obliges a client to
\* send a command or to call FreeHandle.
Fairness == /\ WF_compVars(CompThread)
            /\ \A t \in Clients : WF_compVars(PushLink(t) /\ ClientSend(t))
            /\ WF_compVars(DeinitSendExit) /\ WF_compVars(DeinitJoin)
            /\ WF_compVars(DeinitDestroy)

FairCompSpec == CompSpec /\ Fairness
-----------------------------------------------------------------------------
(* Properties *)

\* No wakeup of the component thread is lost: a command in the queue is
\* fetched eventually, unless the component stops (decoder.c:397-442).
CommandsFetched ==
  \A n \in Nodes :
    (life = "live" /\ size > 0 /\ head = n) ~> (head # n \/ cpc = "exited" \/ faults > 0)

\* FreeHandle ends: once it has begun, the component thread leaves its loop
\* wherever it was, is joined, and the queue is destroyed
\* (decoder.c:571-581, basecomp.c:96-104).
DeinitEnds == dpc = "stopping" ~> (life = "dead" \/ faults > 0)
=============================================================================
