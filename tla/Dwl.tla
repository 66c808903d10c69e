--------------------------------- MODULE Dwl --------------------------------
(***************************************************************************)
(* The decoder library's hardware layer in user space (dwl_linux.c and     *)
(* dwl_linux_hw.c, interrupt mode) above the kernel driver: per decoder    *)
(* instance the thread that decodes, per process a listener that waits for *)
(* the interrupts of the process.                                          *)
(***************************************************************************)
EXTENDS HantroDec, TLC

CONSTANTS Processes, Process,  \* the process of each file
          Mortal,              \* the processes that may be killed
          MultiCore,           \* the instances that decode on several cores (b_mc)
          Allow,               \* what the run allows beyond the simplest use (below)
          MaxPics              \* bound on the pictures decoded

(* Allow:  "two"     a process opens a second instance beside the first      *)
(*         "drain"   multi-core end of stream on cores that are not alike     *)
(*         "leak"    a process killed while it waits for a core              *)
(*         "late"    a timeout of a core that decodes for a multi-core       *)
(*                   instance                                                *)
(*         "zombie"  a process killed when its picture is done               *)
ASSUME DwlAssumption ==
  /\ Process \in [Files -> Processes]
  /\ MultiCore \subseteq Files /\ Mortal \subseteq Processes
  /\ Allow \subseteq {"two", "drain", "leak", "late", "zombie"}
  /\ MaxPics \in Nat

Dec(f) == <<f, "decode">>
Lis(f) == <<f, "listen">>
DwlThreads == Files \X {"decode", "listen"}
ASSUME DwlThreadsOnly == Threads = DwlThreads

VARIABLES dec,        \* the decoding thread of each instance
          lis,        \* the listener the instance's DWLInit created
          rdy,        \* sc_dec_rdy_sem
          callback,   \* callback and callback_arg: the instance called, or NoFile
          fd,         \* listener_thread_params.fd
          b_stopped,
          killed,
          pics        \* pictures decoded, for MaxPics

dwl == <<dec, lis, rdy, callback, fd, b_stopped, killed, pics>>
vars == <<driver, dwl>>

(* dec.core is core_id, dec.got the cores an end of stream has reserved;     *)
(* dec.early tells that DWLWaitHwReady returned before the hardware was done; *)
(* lis.core is id and lis.regs the core whose registers are pulled.          *)
DecPlaces == {"new", "idle", "reserve", "wait", "all", "back", "closed", "dead", "drop", "gone"}
LisPlaces == {"none", "loop", "irq", "again", "pull", "post", "end"}

DecType ==
  [at : DecPlaces, format : Formats \cup {NoFile}, core : Cores, got : SUBSET Cores,
   early : BOOLEAN]
LisType == [at : LisPlaces, core : Cores \cup {EFAULT}, regs : Cores]

TypeOK ==
  /\ HantroTypeOK
  /\ dec \in [Files -> DecType] /\ lis \in [Files -> LisType]
  /\ rdy \in [Processes -> [Cores -> Nat]]
  /\ callback \in [Processes -> [Cores -> Files \cup {NoFile}]]
  /\ fd \in [Processes -> Files \cup {NoFile}]
  /\ b_stopped \in [Processes -> BOOLEAN]
  /\ killed \in [Processes -> BOOLEAN]
  /\ pics \in 0 .. MaxPics

Fresh(place) == [at |-> place, format |-> NoFile, core |-> 0, got |-> {}, early |-> FALSE]
Silent(place) == [at |-> place, core |-> 0, regs |-> 0]

Init ==
  /\ HantroInit
  /\ dec = [f \in Files |-> Fresh("new")]
  /\ lis = [f \in Files |-> Silent("none")]
  /\ rdy = [p \in Processes |-> [c \in Cores |-> 0]]
  /\ callback = [p \in Processes |-> [c \in Cores |-> NoFile]]
  /\ fd = [p \in Processes |-> NoFile]
  /\ b_stopped = [p \in Processes |-> FALSE]
  /\ killed = [p \in Processes |-> FALSE]
  /\ pics = 0

Shut == {"new", "closed", "dead", "drop", "gone"}
Instances(p) == {f \in Files : Process[f] = p /\ dec[f].at \notin Shut}
\* The thread runs user code: it is not inside an ioctl and its process lives.
Runs(f, place) == dec[f].at = place /\ At(Dec(f), "user") /\ ~killed[Process[f]]
Hears(f, place) == lis[f].at = place /\ At(Lis(f), "user") /\ ~killed[Process[f]]
DecGoto(f, place) == dec' = [dec EXCEPT ![f].at = place]
LisGoto(f, place) == lis' = [lis EXCEPT ![f].at = place]
-----------------------------------------------------------------------------
Offered == UNION {cfg[c] : c \in Cores}

(* DWLInit: the first instance of the process creates the listener, which    *)
(* uses its file.                                                            *)
DWLInit(f) ==
  LET p == Process[f] IN
  /\ Runs(f, "new")
  /\ Instances(p) = {} \/ "two" \in Allow
  /\ \E format \in Offered : dec' = [dec EXCEPT ![f].at = "idle", ![f].format = format]
  /\ IF Instances(p) = {}
     THEN /\ fd' = [fd EXCEPT ![p] = f]
          /\ rdy' = [rdy EXCEPT ![p] = [c \in Cores |-> 0]]
          /\ callback' = [callback EXCEPT ![p] = [c \in Cores |-> NoFile]]
          /\ b_stopped' = [b_stopped EXCEPT ![p] = FALSE]
          /\ LisGoto(f, "loop")
     ELSE UNCHANGED <<fd, rdy, callback, b_stopped, lis>>
  /\ UNCHANGED <<driver, killed, pics>>

\* DWLRelease: the last instance stops the listener, then the file is closed.  Every
\* instance destroys the semaphores of its cores, the last one or not; the sem_destroy
\* of Linux leaves them as they are.
DWLRelease(f) ==
  LET p == Process[f] IN
  /\ Runs(f, IF f \in MultiCore THEN "back" ELSE "idle") /\ dec[f].got = {}
  /\ b_stopped' = [b_stopped EXCEPT ![p] = @ \/ Instances(p) = {f}]
  /\ dec' = [dec EXCEPT ![f] = Fresh("closed")]
  /\ UNCHANGED <<driver, lis, rdy, callback, fd, killed, pics>>

DWLReserveHw(f) ==
  /\ Runs(f, "idle") /\ pics < MaxPics
  /\ DecGoto(f, "reserve")
  /\ DecReserve(Dec(f), f, dec[f].format)
  /\ pics' = pics + 1
  /\ UNCHANGED <<lis, rdy, callback, fd, b_stopped, killed>>

(* DWLSetIRQCallback and DWLEnableHw with the core that was reserved; on     *)
(* several cores the thread goes on and the callback ends the picture; on    *)
(* one core the HEVC, H.264 and VP9 decoders set the callback to NULL.       *)
DWLEnableHw(f) ==
  LET c == k[Dec(f)].ret
      mc == f \in MultiCore
  IN
  /\ Runs(f, "reserve")
  /\ callback' = [callback EXCEPT ![Process[f]][c] = IF mc THEN f ELSE NoFile]
  /\ DecFlushRegs(Dec(f), f, c)
  /\ dec' = [dec EXCEPT ![f].at = IF mc THEN "idle" ELSE "wait", ![f].core = IF mc THEN 0 ELSE c]
  /\ UNCHANGED <<lis, rdy, fd, b_stopped, killed, pics>>

DWLWaitHwReady(f) ==
  LET c == dec[f].core IN
  /\ Runs(f, "wait") /\ rdy[Process[f]][c] > 0
  /\ rdy' = [rdy EXCEPT ![Process[f]][c] = @ - 1]
  /\ dec' = [dec EXCEPT ![f].at = "idle", ![f].core = 0, ![f].early = Busy(c) \/ started[c] # f]
  /\ DecRelease(Dec(f), f, c)
  /\ UNCHANGED <<lis, callback, fd, b_stopped, killed, pics>>

(* The end of a multi-core stream: every core that has the format is         *)
(* reserved, so that none of them still decodes, and given back.             *)
Usable(f) == {c \in Cores : dec[f].format \in cfg[c]}
Mixed == \E c, d \in Cores : cfg[c] # cfg[d]

EndOfStream(f) ==
  /\ f \in MultiCore /\ Runs(f, "idle")
  /\ Mixed => "drain" \in Allow
  /\ DecGoto(f, "all")
  /\ DecReserve(Dec(f), f, dec[f].format)
  /\ UNCHANGED <<lis, rdy, callback, fd, b_stopped, killed, pics>>

ReserveNext(f) ==
  LET got == dec[f].got \cup {k[Dec(f)].ret} IN
  /\ Runs(f, "all") /\ got # Usable(f)
  /\ dec' = [dec EXCEPT ![f].got = got]
  /\ DecReserve(Dec(f), f, dec[f].format)
  /\ UNCHANGED <<lis, rdy, callback, fd, b_stopped, killed, pics>>

ReleaseNext(f) ==
  LET all == dec[f].at = "all"
      got == IF all THEN dec[f].got \cup {k[Dec(f)].ret} ELSE dec[f].got
      c == CHOOSE c \in got : \A d \in got : c <= d
  IN
  /\ Runs(f, "all") \/ Runs(f, "back")
  /\ all => got = Usable(f)
  /\ got # {}
  /\ dec' = [dec EXCEPT ![f].at = "back", ![f].got = got \ {c}]
  /\ DecRelease(Dec(f), f, c)
  /\ UNCHANGED <<lis, rdy, callback, fd, b_stopped, killed, pics>>
-----------------------------------------------------------------------------
(* ThreadMCListener                                                          *)

\* CORE_WAIT is called at the start, and again when it has failed.
Listen(f) ==
  LET p == Process[f] IN
  /\ Hears(f, "loop") \/ (Hears(f, "irq") /\ k[Lis(f)].ret < 0)
  /\ IF b_stopped[p] THEN LisGoto(f, "end") /\ UNCHANGED driver
     ELSE IF dec[fd[p]].at \in Shut THEN LisGoto(f, "loop") /\ UNCHANGED driver   \* the file is closed
     ELSE LisGoto(f, "irq") /\ CoreWait(Lis(f), fd[p])
  /\ UNCHANGED <<dec, rdy, callback, fd, b_stopped, killed, pics>>

(* A core is reported.  Its status is read: a core that has run out of time, *)
(* or is still enabled, is aborted and its interrupt waited for.             *)
ReadStatus(f) ==
  LET c == k[Lis(f)].ret IN
  /\ Hears(f, "irq") /\ c >= 0
  /\ IF b_stopped[Process[f]] THEN LisGoto(f, "end") /\ UNCHANGED driver
     ELSE IF hw[c] \in {"run", "hung"}
          THEN lis' = [lis EXCEPT ![f] = [at |-> "again", core |-> c, regs |-> c]]
               /\ AbortAndWait(Lis(f), fd[Process[f]], c)
     ELSE lis' = [lis EXCEPT ![f] = [at |-> "pull", core |-> c, regs |-> c]] /\ UNCHANGED driver
  /\ UNCHANGED <<dec, rdy, callback, fd, b_stopped, killed, pics>>

\* Whatever the second call returned is id from here on; core.id is not set again.
Aborted(f) ==
  /\ Hears(f, "again")
  /\ lis' = [lis EXCEPT ![f].at = "pull", ![f].core = k[Lis(f)].ret]
  /\ UNCHANGED <<driver, dec, rdy, callback, fd, b_stopped, killed, pics>>

Post(f) ==
  /\ rdy' = [rdy EXCEPT ![Process[f]][lis[f].core] = @ + 1]
  /\ lis' = [lis EXCEPT ![f] = Silent("loop")]
  /\ UNCHANGED driver

\* The multi-core callback releases the core; then the core's semaphore is posted.
CallBack(f) ==
  LET g == callback[Process[f]][lis[f].core] IN
  /\ Hears(f, "pull")
  /\ IF g = NoFile THEN Post(f)
     ELSE LisGoto(f, "post") /\ DecRelease(Lis(f), g, lis[f].core) /\ UNCHANGED rdy
  /\ UNCHANGED <<dec, callback, fd, b_stopped, killed, pics>>

PostReady(f) ==
  /\ Hears(f, "post") /\ Post(f)
  /\ UNCHANGED <<dec, callback, fd, b_stopped, killed, pics>>
-----------------------------------------------------------------------------
(* The end of a process and of a file                                        *)

InReserve(f) == k[Dec(f)].at \in {"down", "get", "sleep"}
Done(c) == hw[c] \in {"irq", "late"} \/ c \in dec_irq

Kill(p) ==
  /\ p \in Mortal /\ ~killed[p] /\ Instances(p) # {}
  /\ "leak" \in Allow \/ \A f \in Instances(p) : ~InReserve(f)
  /\ "zombie" \in Allow \/ \A f \in Instances(p) : \A c \in Owned(f) : ~Done(c)
  /\ killed' = [killed EXCEPT ![p] = TRUE]
  /\ UNCHANGED <<driver, dec, lis, rdy, callback, fd, b_stopped, pics>>

\* A thread of a killed process runs no more user code.
DecoderDies(f) ==
  /\ killed[Process[f]] /\ dec[f].at \notin Shut /\ At(Dec(f), "user")
  /\ dec' = [dec EXCEPT ![f] = Fresh("dead")]
  /\ UNCHANGED <<driver, lis, rdy, callback, fd, b_stopped, killed, pics>>

ListenerDies(f) ==
  /\ killed[Process[f]] /\ lis[f].at \notin {"none", "end"} /\ At(Lis(f), "user")
  /\ lis' = [lis EXCEPT ![f] = Silent("end")]
  /\ UNCHANGED <<driver, dec, rdy, callback, fd, b_stopped, killed, pics>>

\* Its interruptible waits end.
Signalled(f) ==
  /\ killed[Process[f]]
  /\ \E t \in {Dec(f), Lis(f)} : Interrupted(t)
  /\ UNCHANGED dwl

\* hantrodec_release, when no ioctl is left that uses the file.
Close(f) ==
  /\ \/ dec[f].at = "drop"
     \/ dec[f].at = "closed"
     \/ dec[f].at = "dead" /\ \A g \in Files : Process[g] = Process[f] =>
          dec[g].at \in Shut /\ lis[g].at \in {"none", "end"}
  /\ \A t \in Threads : k[t].at # "user" => k[t].file # f
  /\ IF Owned(f) = {} THEN DecGoto(f, "gone") /\ UNCHANGED driver
     ELSE /\ DecRelease(Dec(f), f, CHOOSE c \in Owned(f) : \A d \in Owned(f) : c <= d)
          /\ DecGoto(f, "drop")
  /\ UNCHANGED <<lis, rdy, callback, fd, b_stopped, killed, pics>>
-----------------------------------------------------------------------------
InKernel(t) == Kernel(t) /\ UNCHANGED dwl

Decoder(f) ==
  \/ DWLReserveHw(f) \/ DWLEnableHw(f) \/ DWLWaitHwReady(f)
  \/ ReserveNext(f) \/ ReleaseNext(f) \/ Close(f)
  \/ InKernel(Dec(f)) \/ DecoderDies(f)

Listener(f) ==
  \/ Listen(f) \/ ReadStatus(f) \/ Aborted(f) \/ CallBack(f) \/ PostReady(f)
  \/ InKernel(Lis(f)) \/ ListenerDies(f)

Hardware ==
  /\ \E c \in Cores :
       /\ "zombie" \in Allow \/ \A f \in Files : dec_owner[c] = f => ~killed[Process[f]]
       /\ \/ HwFinish(c)
          \/ HwTimeout(c) /\ ("late" \in Allow \/ dec_owner[c] \notin MultiCore)
  /\ UNCHANGED dwl

Interrupt == HantroIsr /\ UNCHANGED dwl

Next ==
  \/ \E f \in Files : DWLInit(f) \/ DWLRelease(f) \/ EndOfStream(f)
                     \/ Decoder(f) \/ Listener(f) \/ Signalled(f)
  \/ \E p \in Processes : Kill(p)
  \/ Hardware \/ Interrupt

Spec == Init /\ [][Next]_vars

(* Threads are scheduled, the hardware ends its pictures and its interrupts  *)
(* are delivered.  Opening, closing, the end of a stream and kills are the   *)
(* client's.                                                                 *)
Fairness ==
  /\ \A f \in Files : WF_vars(Decoder(f)) /\ WF_vars(Listener(f)) /\ WF_vars(Signalled(f))
  /\ WF_vars(Hardware) /\ WF_vars(Interrupt)

FairSpec == Spec /\ Fairness
-----------------------------------------------------------------------------
(* DWLWaitHwReady "Wait until hardware has stopped running": it returns only *)
(* when the core has ended the picture of this instance.                     *)
ReadyWhenDone == \A f \in Files : ~dec[f].early

(* The listener ends a core's picture with the registers of that core.       *)
RegsOfCore == \A f \in Files : lis[f].at \in {"pull", "post"} => lis[f].regs = lis[f].core

(* A request for a core is served, whoever waits and whoever dies owning one *)
(* (wait_event_interruptible and the wake-ups of ReleaseDecoder).            *)
ReserveServed == \A f \in Files : InReserve(f) ~> ~InReserve(f)

(* Once no more pictures are asked for, every core is free: its interrupt    *)
(* reaches the listener, which ends the picture, or the file is closed.  A   *)
(* file that DWLRelease or the end of its process has closed is released in  *)
(* the kernel, which waits for the listener to leave CORE_WAIT, and a process *)
(* without instances has no listener left.                                   *)
ComesToRest ==
  <>[] /\ \A c \in Cores : dec_owner[c] = NoFile
       /\ \A f \in Files : dec[f].at \in Shut => dec[f].at \in {"new", "gone"}
       /\ \A f \in Files : Instances(Process[f]) = {} => lis[f].at \in {"none", "end"}

=============================================================================
