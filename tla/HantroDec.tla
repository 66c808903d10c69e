------------------------------ MODULE HantroDec -----------------------------
(***************************************************************************)
(* The kernel driver of the decoder (pcidriver/hantro_dec.c without VCMD): *)
(* the cores, who owns them, the formats they offer and the interrupts     *)
(* nobody has collected.  A thread inside an ioctl is at k[t].at; it is    *)
(* back in user space, with the result k[t].ret, when that is "user".      *)
(* A step ends where the code drops owner_lock or may sleep.               *)
(***************************************************************************)
EXTENDS Integers, FiniteSets

CONSTANTS Files,       \* open files of the device (struct file)
          NoFile,      \* NULL
          NCores,      \* dev->cores
          Formats,     \* client types
          Layouts,     \* hardware configurations to consider
          Threads      \* threads that call the driver

Cores == 0 .. NCores - 1

(* A layout gives the formats of each core (ReadCoreConfig).  Main and aux     *)
(* cores, for which GetDecCore and ReleaseDecoder rewrite cfg, do not exist:   *)
(* ReserveIO has the second pipeline behind if (0).                            *)
ASSUME HantroAssumption ==
  /\ NCores \in Nat \ {0}
  /\ NoFile \notin Files
  /\ IsFiniteSet(Threads)
  /\ Layouts \subseteq [Cores -> SUBSET Formats]

VARIABLES cfg,         \* config.cfg, never changed
          sem,         \* dec_core_sem
          dec_owner,
          dec_irq,     \* the cores whose bit of dec_irq is set
          hw,          \* what the status register of the core tells (below)
          started,     \* the file whose registers were flushed to the core
          k            \* the ioctl each thread is in

driver == <<cfg, sem, dec_owner, dec_irq, hw, started, k>>

(* "down", "get" and "sleep" are in ReserveDecoder, "release" and "up" in     *)
(* ReleaseDecoder, "check" and "wait" in WaitCoreReady.  core is the          *)
(* loop variable or the core released; woken tells that a wake-up came since *)
(* the condition was last evaluated; found is owner_found.                   *)
(*                                                                           *)
(* hw: "run" is DEC_E; "irq" the picture is done and DEC_IRQ is set, "late"  *)
(* DEC_IRQ is set by a timeout and the core still enabled, "hung" the same   *)
(* once the interrupt is taken, "stop" DEC_ABORT was written.                *)
HwStates == {"idle", "run", "irq", "late", "hung", "stop"}
Busy(c) == hw[c] \in {"run", "hung", "stop"}
Places == {"user", "down", "get", "sleep", "release", "up", "check", "wait"}
EFAULT == -1
ERESTARTSYS == -2
User == [at |-> "user", file |-> NoFile, format |-> NoFile, core |-> 0,
         woken |-> FALSE, found |-> FALSE, ret |-> 0]

IoctlType ==
  [at : Places, file : Files \cup {NoFile}, format : Formats \cup {NoFile}, core : Cores,
   woken : BOOLEAN, found : BOOLEAN, ret : Cores \cup {EFAULT, ERESTARTSYS}]

HantroTypeOK ==
  /\ cfg \in Layouts
  /\ sem \in Nat
  /\ dec_owner \in [Cores -> Files \cup {NoFile}]
  /\ dec_irq \subseteq Cores
  /\ hw \in [Cores -> HwStates]
  /\ started \in [Cores -> Files \cup {NoFile}]
  /\ k \in [Threads -> IoctlType]

HantroInit ==
  /\ cfg \in Layouts
  /\ sem = NCores
  /\ dec_owner = [c \in Cores |-> NoFile]
  /\ dec_irq = {}
  /\ hw = [c \in Cores |-> "idle"]
  /\ started = [c \in Cores |-> NoFile]
  /\ k = [t \in Threads |-> User]

Owned(f) == {c \in Cores : dec_owner[c] = f}
At(t, place) == k[t].at = place

\* What the ioctl of t does next, or what it returns to user space.
Goto(t, place) == k' = [k EXCEPT ![t].at = place]
Return(t, ret) == k' = [k EXCEPT ![t] = [User EXCEPT !.ret = ret]]
-----------------------------------------------------------------------------
(* The ioctls, as user space enters them.                                    *)

Call(t, place, f, format, core) ==
  /\ At(t, "user")
  /\ k' = [k EXCEPT ![t] = [User EXCEPT !.at = place, !.file = f, !.format = format, !.core = core]]
  /\ UNCHANGED <<cfg, sem, dec_owner, dec_irq, hw, started>>

DecReserve(t, f, format) == Call(t, "down", f, format, 0)
CoreWait(t, f) == Call(t, "check", f, NoFile, 0)

\* WRITE_REG with DEC_ABORT, then CORE_WAIT.
AbortAndWait(t, f, c) ==
  /\ At(t, "user")
  /\ hw' = [hw EXCEPT ![c] = "stop"]
  /\ k' = [k EXCEPT ![t] = [User EXCEPT !.at = "check", !.file = f]]
  /\ UNCHANGED <<cfg, sem, dec_owner, dec_irq, started>>

\* The owner is compared before the lock is taken.
DecRelease(t, f, c) ==
  IF dec_owner[c] = f THEN Call(t, "release", f, NoFile, c)
  ELSE At(t, "user") /\ Return(t, EFAULT)
       /\ UNCHANGED <<cfg, sem, dec_owner, dec_irq, hw, started>>

\* PUSH_REG does not ask who owns the core; the status register starts it.
DecFlushRegs(t, f, c) ==
  /\ At(t, "user") /\ Return(t, 0)
  /\ hw' = [hw EXCEPT ![c] = "run"]
  /\ started' = [started EXCEPT ![c] = f]
  /\ UNCHANGED <<cfg, sem, dec_owner, dec_irq>>
-----------------------------------------------------------------------------
(* ReserveDecoder                                                            *)

Down(t) ==
  /\ At(t, "down") /\ sem > 0
  /\ sem' = sem - 1
  /\ k' = [k EXCEPT ![t].at = "get", ![t].core = 0, ![t].woken = FALSE]
  /\ UNCHANGED <<cfg, dec_owner, dec_irq, hw, started>>

Available(t, c) == k[t].format \in cfg[c] /\ dec_owner[c] = NoFile

GetDecCore(t) ==
  LET c == k[t].core IN
  /\ At(t, "get") /\ Available(t, c)
  /\ dec_owner' = [dec_owner EXCEPT ![c] = k[t].file]
  /\ Return(t, c)
  /\ UNCHANGED <<cfg, sem, dec_irq, hw, started>>

\* wait_event_interruptible: a thread woken since it began to look looks again.
Again(t, place, sleep) ==
  k' = [k EXCEPT ![t] = IF @.woken THEN [@ EXCEPT !.at = place, !.core = 0, !.woken = FALSE, !.found = FALSE]
                                   ELSE [@ EXCEPT !.at = sleep]]

GetDecCoreFails(t) ==
  LET c == k[t].core IN
  /\ At(t, "get") /\ ~Available(t, c)
  /\ IF c + 1 \in Cores THEN k' = [k EXCEPT ![t].core = c + 1] ELSE Again(t, "get", "sleep")
  /\ UNCHANGED <<cfg, sem, dec_owner, dec_irq, hw, started>>

\* Every thread waiting at one of these places looks at its condition again.
Woken(kk, looking, sleeping) ==
  [t \in Threads |->
     IF kk[t].at = sleeping THEN [kk[t] EXCEPT !.at = looking, !.core = 0, !.woken = FALSE, !.found = FALSE]
     ELSE IF kk[t].at = looking THEN [kk[t] EXCEPT !.woken = TRUE]
     ELSE kk[t]]
WakeHwQueue(kk) == Woken(kk, "get", "sleep")
WakeDecWaitQueue(kk) == Woken(kk, "check", "wait")
-----------------------------------------------------------------------------
(* ReleaseDecoder                                                            *)

\* Mutant: the hardware is left running.
ReleaseCoreRunning(t) ==
  LET c == k[t].core IN
  /\ At(t, "release")
  /\ dec_owner' = [dec_owner EXCEPT ![c] = NoFile]
  /\ started' = [started EXCEPT ![c] = NoFile]
  /\ Goto(t, "up")
  /\ UNCHANGED <<cfg, sem, dec_irq, hw>>

\* A core that still runs is aborted with its interrupt disabled.
ReleaseCore(t) ==
  LET c == k[t].core IN
  /\ At(t, "release")
  /\ hw' = [hw EXCEPT ![c] = IF Busy(c) THEN "idle" ELSE @]
  /\ dec_owner' = [dec_owner EXCEPT ![c] = NoFile]
  /\ started' = [started EXCEPT ![c] = NoFile]
  /\ Goto(t, "up")
  /\ UNCHANGED <<cfg, sem, dec_irq>>

\* Mutants: up() is left out, or the wake-up of one of the queues.
ReleaseUpForgets(t) ==
  /\ At(t, "up")
  /\ k' = WakeDecWaitQueue(WakeHwQueue([k EXCEPT ![t] = User]))
  /\ UNCHANGED <<cfg, sem, dec_owner, dec_irq, hw, started>>

ReleaseUpNoHwQueue(t) ==
  /\ At(t, "up")
  /\ sem' = sem + 1
  /\ k' = WakeDecWaitQueue([k EXCEPT ![t] = User])
  /\ UNCHANGED <<cfg, dec_owner, dec_irq, hw, started>>

ReleaseUpNoDecWaitQueue(t) ==
  /\ At(t, "up")
  /\ sem' = sem + 1
  /\ k' = WakeHwQueue([k EXCEPT ![t] = User])
  /\ UNCHANGED <<cfg, dec_owner, dec_irq, hw, started>>

ReleaseUp(t) ==
  /\ At(t, "up")
  /\ sem' = sem + 1
  /\ k' = WakeDecWaitQueue(WakeHwQueue([k EXCEPT ![t] = User]))
  /\ UNCHANGED <<cfg, dec_owner, dec_irq, hw, started>>
-----------------------------------------------------------------------------
(* WaitCoreReady and the interrupt                                           *)

\* Mutant: the bit of an interrupt that was reported stays set.
CheckCoreIrqKeepsBit(t) ==
  LET c == k[t].core
      mine == dec_owner[c] = k[t].file
      found == k[t].found \/ mine
  IN
  /\ At(t, "check")
  /\ dec_irq' = IF dec_owner[c] = NoFile THEN dec_irq \ {c} ELSE dec_irq
  /\ IF c \in dec_irq /\ mine THEN Return(t, c)
     ELSE IF c + 1 \in Cores THEN k' = [k EXCEPT ![t].core = c + 1, ![t].found = found]
     ELSE IF ~found THEN Return(t, EFAULT)
     ELSE Again(t, "check", "wait")
  /\ UNCHANGED <<cfg, sem, dec_owner, hw, started>>

\* An interrupt of a core without an owner is dropped; a caller that owns no
\* core does not wait.
CheckCoreIrq(t) ==
  LET c == k[t].core
      mine == dec_owner[c] = k[t].file
      found == k[t].found \/ mine
  IN
  /\ At(t, "check")
  /\ dec_irq' = IF mine \/ dec_owner[c] = NoFile THEN dec_irq \ {c} ELSE dec_irq
  /\ IF c \in dec_irq /\ mine THEN Return(t, c)
     ELSE IF c + 1 \in Cores THEN k' = [k EXCEPT ![t].core = c + 1, ![t].found = found]
     ELSE IF ~found THEN Return(t, EFAULT)
     ELSE Again(t, "check", "wait")
  /\ UNCHANGED <<cfg, sem, dec_owner, hw, started>>

HantroIsr ==
  LET done == {c \in Cores : hw[c] \in {"irq", "late"}} IN
  /\ done # {}
  /\ hw' = [c \in Cores |-> CASE hw[c] = "irq" -> "idle" [] hw[c] = "late" -> "hung" [] OTHER -> hw[c]]
  /\ dec_irq' = dec_irq \cup done
  /\ k' = WakeDecWaitQueue(k)
  /\ UNCHANGED <<cfg, sem, dec_owner, started>>

\* The hardware ends the picture it decodes, or the abort written to it.
HwFinish(c) ==
  /\ hw[c] \in {"run", "stop"}
  /\ hw' = [hw EXCEPT ![c] = "irq"]
  /\ UNCHANGED <<cfg, sem, dec_owner, dec_irq, started, k>>

\* It reports that it has waited too long (DEC_IRQ_EXT_TIMEOUT).
HwTimeout(c) ==
  /\ hw[c] = "run"
  /\ hw' = [hw EXCEPT ![c] = "late"]
  /\ UNCHANGED <<cfg, sem, dec_owner, dec_irq, started, k>>

(* A signal ends the interruptible waits.  ReserveDecoder then returns with  *)
(* the semaphore it has taken.                                               *)
Interrupted(t) ==
  /\ k[t].at \in {"down", "sleep", "wait"}
  /\ Return(t, ERESTARTSYS)
  /\ UNCHANGED <<cfg, sem, dec_owner, dec_irq, hw, started>>

Kernel(t) ==
  \/ Down(t) \/ GetDecCore(t) \/ GetDecCoreFails(t)
  \/ ReleaseCore(t) \/ ReleaseUp(t)
  \/ CheckCoreIrq(t)
-----------------------------------------------------------------------------
(* Every unit of dec_core_sem is free, belongs to a core that is owned, or   *)
(* to a thread that is taking or giving back a core: a unit lost by          *)
(* ReserveDecoder or ReleaseDecoder is a core nobody can reserve again.      *)
SemExact ==
  sem + Cardinality({c \in Cores : dec_owner[c] # NoFile})
      + Cardinality({t \in Threads : k[t].at \in {"get", "sleep", "up"}}) = NCores

(* A core only decodes for the file that owns it: ReleaseDecoder stops the   *)
(* hardware before it gives the core away.                                   *)
RunsForOwner ==
  \A c \in Cores : Busy(c) => dec_owner[c] = started[c] /\ dec_owner[c] # NoFile

=============================================================================
