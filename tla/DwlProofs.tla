------------------------------ MODULE DwlProofs -----------------------------
(***************************************************************************)
(* Proofs about the kernel driver of the decoder under the decoder library *)
(* (modules HantroDec and Dwl), for any number of files, cores, formats    *)
(* and pictures, when each process has one instance.                       *)
(*                                                                         *)
(* A core that is reserved goes from hand to hand: from the thread that    *)
(* reserved it to the hardware, as an interrupt to the listener, and from  *)
(* there back to the driver or, through a semaphore, to the thread.  The   *)
(* invariant says that no two of them have it at the same time.  The       *)
(* driver compares the owner of a core before it takes the lock, so a      *)
(* second release would give one unit of dec_core_sem back twice.          *)
(***************************************************************************)
EXTENDS Dwl, FiniteSetTheorems, WellFoundedInduction, TLAPS

OneInstance == \A f, g \in Files : Process[f] = Process[g] => f = g

-----------------------------------------------------------------------------
(* Who has a core *)

\* The cores that the decoding thread of f has reserved and not started,
Reserved(f) ==
  dec[f].got \cup {c \in Cores : dec[f].at \in {"reserve", "all"} /\ At(Dec(f), "user")
                                 /\ k[Dec(f)].ret = c}

\* that a thread is giving back,
GivesBack(t) == {c \in Cores : At(t, "release") /\ k[t].core = c}

\* and that the listener has been told of.
Heard(f) ==
  {c \in Cores : \/ lis[f].at \in {"irq", "again"} /\ At(Lis(f), "user") /\ k[Lis(f)].ret = c
                 \/ lis[f].at = "pull" /\ lis[f].core = c}

OfDecoder(f) == Reserved(f) \cup GivesBack(Dec(f))
OfListener(f) == Heard(f) \cup GivesBack(Lis(f))

-----------------------------------------------------------------------------
(* The inductive invariant, for a file f *)

\* Where the two threads of an instance can be in the driver.
ThreadsFit(f) ==
  /\ \A t \in {Dec(f), Lis(f)} : ~At(t, "user") => k[t].file = f
  /\ k[Dec(f)].at \notin {"check", "wait"}
  /\ InReserve(f) => dec[f].at \in {"reserve", "all"} /\ k[Dec(f)].format = dec[f].format
  /\ k[Dec(f)].at \in {"release", "up"} => dec[f].at \in {"idle", "back", "drop"}
  /\ k[Dec(f)].at \in {"release", "up"} /\ dec[f].at = "idle" => f \notin MultiCore
  /\ k[Lis(f)].at \notin {"down", "get", "sleep"}
  /\ k[Lis(f)].at \in {"check", "wait"} => lis[f].at \in {"irq", "again"}
  /\ k[Lis(f)].at \in {"release", "up"} => lis[f].at = "post" /\ f \in MultiCore

InstanceFits(f) ==
  /\ lis[f].at # "none" => fd[Process[f]] = f /\ dec[f].at # "new"
  /\ \A c \in Cores : callback[Process[f]][c] \in (IF f \in MultiCore THEN {f, NoFile} ELSE {NoFile})
  /\ dec[f].at = "wait" => f \notin MultiCore
  /\ dec[f].at \in {"all", "back"} => f \in MultiCore
  /\ dec[f].got # {} => dec[f].at \in {"all", "back"}
  /\ dec[f].at \in {"dead", "drop"} => killed[Process[f]]
  /\ dec[f].at = "drop" => lis[f].at \in {"none", "end"}
  /\ lis[f].at = "post" => f \in MultiCore

\* What the decoding thread has is idle and nobody else's,
DecoderHas(f) ==
  /\ \A c \in OfDecoder(f) : dec_owner[c] = f /\ c \notin dec_irq
  /\ \A c \in Reserved(f) : hw[c] = "idle"
  /\ \A c \in GivesBack(Dec(f)) : hw[c] = "idle" \/ killed[Process[f]]
  /\ dec[f].at \in {"reserve", "all"} /\ At(Dec(f), "user") /\ ~killed[Process[f]] =>
       k[Dec(f)].ret \in Cores
  /\ Reserved(f) \cap GivesBack(Dec(f)) = {}
  /\ OfDecoder(f) \cap OfListener(f) = {}

\* and what the listener has will not interrupt before it is aborted.
ListenerHas(f) ==
  /\ \A c \in OfListener(f) : dec_owner[c] = f /\ c \notin dec_irq /\ hw[c] \in {"idle", "hung"}
  /\ f \notin MultiCore /\ lis[f].at = "pull" => hw[lis[f].core] = "idle"
  /\ lis[f].at \in {"pull", "post"} => lis[f].core \in Cores

\* A listener that aborts a core finds it again in WaitCoreReady.
Aborts(f) ==
  lis[f].at = "again" =>
    /\ dec_owner[lis[f].regs] = f /\ hw[lis[f].regs] \in {"stop", "irq", "idle"}
    /\ lis[f].regs \notin OfDecoder(f)
    /\ At(Lis(f), "check") /\ lis[f].regs < k[Lis(f)].core => k[Lis(f)].found
    /\ At(Lis(f), "user") /\ ~killed[Process[f]] => k[Lis(f)].ret \in Cores

\* The cores of a killed process interrupt no more.
DeadIsSilent(f) ==
  killed[Process[f]] =>
    \A c \in Owned(f) : c \notin dec_irq /\ hw[c] \notin {"irq", "late"}

\* What an instance owns.
OwnsOnly(f) ==
  /\ dec[f].at \in {"new", "closed", "gone"} => Owned(f) = {}
  /\ dec[f].at = "back" => Owned(f) \subseteq OfDecoder(f)
  /\ dec[f].at \in {"idle", "reserve"} /\ f \notin MultiCore => Owned(f) \subseteq OfDecoder(f)
  /\ dec[f].at = "wait" => Owned(f) = {dec[f].core} /\ OfDecoder(f) = {}
                           /\ started[dec[f].core] = f
  /\ dec[f].at \notin Shut => Owned(f) \subseteq Usable(f)

\* The semaphore of a core is posted when its picture is done, and taken.
PostedWhenDone(f) ==
  f \notin MultiCore /\ ~killed[Process[f]] =>
    \A c \in Cores : rdy[Process[f]][c] # 0 =>
      /\ dec[f].at = "wait" /\ c = dec[f].core /\ rdy[Process[f]][c] = 1
      /\ hw[c] = "idle" /\ c \notin dec_irq /\ c \notin Heard(f) /\ lis[f].at # "again"

\* A core that nobody owns is idle.
CoreFits(c) ==
  /\ hw[c] # "idle" => dec_owner[c] # NoFile /\ started[c] = dec_owner[c]
  /\ c \in dec_irq => dec_owner[c] # NoFile /\ hw[c] \in {"idle", "hung"}

FileInv(f) ==
  /\ ThreadsFit(f) /\ InstanceFits(f) /\ DecoderHas(f) /\ ListenerHas(f) /\ Aborts(f)
  /\ DeadIsSilent(f) /\ OwnsOnly(f) /\ PostedWhenDone(f) /\ ~dec[f].early

CoresFit == \A c \in Cores : CoreFits(c)

CoreInv == TypeOK /\ CoresFit /\ \A f \in Files : FileInv(f)

\* Beyond it: a process killed while it waits for a core leaks a unit of the
\* semaphore, and the registers are those of the core reported as long as no core
\* of a multi-core instance runs out of time.
NoLeak(f) == killed[Process[f]] => ~InReserve(f)
Punctual == \A c \in Cores : dec_owner[c] \in MultiCore => hw[c] \notin {"late", "hung", "stop"}
RegsFit(f) ==
  /\ lis[f].at \in {"pull", "post"} => lis[f].regs = lis[f].core
  /\ f \in MultiCore => lis[f].at # "again"
RegsInv == CoreInv /\ Punctual /\ \A f \in Files : RegsFit(f)

-----------------------------------------------------------------------------
\* Every instance has two threads of its own.
LEMMA ThreadNames ==
  /\ \A f \in Files : Dec(f) \in Threads /\ Lis(f) \in Threads
  /\ \A f, g \in Files : /\ Dec(f) # Lis(g)
                         /\ f # g => Dec(f) # Dec(g) /\ Lis(f) # Lis(g)
  /\ \A t \in Threads : \E f \in Files : t = Dec(f) \/ t = Lis(f)
BY DwlThreadsOnly DEF Dec, Lis, DwlThreads

\* Cores are numbered from 0 on; the error codes of the ioctls are no cores.
LEMMA CoreNumbers ==
  /\ 0 \in Cores /\ Cores \subseteq Int /\ EFAULT \notin Cores /\ ERESTARTSYS \notin Cores
  /\ \A c, d \in Cores : c + 1 \notin Cores => d <= c
  /\ \A r \in Cores \cup {EFAULT, ERESTARTSYS} : r >= 0 <=> r \in Cores
BY HantroAssumption DEF HantroAssumption, Cores, EFAULT, ERESTARTSYS

\* ReleaseNext and Close name the lowest of the cores they give back.
LEMMA LowestCore ==
  ASSUME NEW S \in SUBSET Cores, S # {}
  PROVE  (CHOOSE c \in S : \A d \in S : c <= d) \in S
<1>1. S \subseteq Nat
  BY HantroAssumption DEF Cores
<1>2. PICK c \in S : \A d \in S : ~(<<d, c>> \in OpToRel(<, Nat))
  <2> DEFINE R == OpToRel(<, Nat)
  <2>1. IsWellFoundedOn(R, Nat)
    BY NatLessThanWellFounded
  <2> HIDE DEF R
  <2>2. \E c \in S : \A d \in S : ~(<<d, c>> \in R)
    BY <1>1, <2>1, WFMin
  <2> QED BY <2>2 DEF R
<1>3. ASSUME NEW d \in S, d < c PROVE FALSE
  <2>1. <<d, c>> \in Nat \X Nat /\ <<d, c>>[1] < <<d, c>>[2]
    BY <1>1, <1>3
  <2> QED BY <1>2, <2>1 DEF OpToRel
<1>4. \A d \in S : c <= d
  BY <1>1, <1>3
<1> QED BY <1>4

\* The driver's variables have their types; a thread starts an ioctl, and ends
\* one, with a well typed frame.
LEMMA IoctlTypes ==
  /\ User \in IoctlType
  /\ \A r \in Cores \cup {EFAULT, ERESTARTSYS} : [User EXCEPT !.ret = r] \in IoctlType
  /\ \A place \in Places, f \in Files, m \in Formats \cup {NoFile}, c \in Cores :
       [User EXCEPT !.at = place, !.file = f, !.format = m, !.core = c] \in IoctlType
  /\ \A f \in Files : [User EXCEPT !.at = "check", !.file = f] \in IoctlType
<1>1. User \in IoctlType
  BY CoreNumbers DEF User, IoctlType, Places
<1>2. \A f \in Files : [User EXCEPT !.at = "check", !.file = f] \in IoctlType
  BY CoreNumbers DEF User, IoctlType, Places
<1> QED BY <1>1, <1>2 DEF IoctlType

\* A wake-up leaves the threads in the driver well typed.
LEMMA WokenTypes ==
  ASSUME NEW kk \in [Threads -> IoctlType], NEW looking \in Places, NEW sleeping
  PROVE  Woken(kk, looking, sleeping) \in [Threads -> IoctlType]
<1>1. ASSUME NEW t \in Threads
      PROVE  /\ [kk[t] EXCEPT !.at = looking, !.core = 0, !.woken = FALSE, !.found = FALSE] \in IoctlType
             /\ [kk[t] EXCEPT !.woken = TRUE] \in IoctlType /\ kk[t] \in IoctlType
  BY CoreNumbers DEF IoctlType
<1> QED BY <1>1 DEF Woken

\* A call of the driver
LEMMA CallTypes ==
  ASSUME TypeOK, NEW t \in Threads, NEW f \in Files
  PROVE  /\ \A m \in Formats \cup {NoFile}, c \in Cores, place \in Places :
              Call(t, place, f, m, c) => HantroTypeOK'
         /\ \A c \in Cores : DecRelease(t, f, c) => HantroTypeOK'
         /\ \A c \in Cores : DecFlushRegs(t, f, c) => HantroTypeOK'
         /\ \A c \in Cores : AbortAndWait(t, f, c) => HantroTypeOK'
<1> USE DEF TypeOK
<1>1. ASSUME NEW m \in Formats \cup {NoFile}, NEW c \in Cores, NEW place \in Places,
             Call(t, place, f, m, c)
      PROVE  HantroTypeOK'
  BY <1>1, IoctlTypes DEF Call, HantroTypeOK
<1>2. ASSUME NEW c \in Cores, DecRelease(t, f, c) PROVE HantroTypeOK'
  <2>1. "release" \in Places /\ EFAULT \in Cores \cup {EFAULT, ERESTARTSYS}
    BY DEF Places
  <2>2. CASE dec_owner[c] = f
    BY <1>1, <1>2, <2>1, <2>2 DEF DecRelease
  <2>3. CASE dec_owner[c] # f
    BY <1>2, <2>1, <2>3, IoctlTypes DEF DecRelease, Return, HantroTypeOK
  <2> QED BY <2>2, <2>3
<1>3. ASSUME NEW c \in Cores, DecFlushRegs(t, f, c) PROVE HantroTypeOK'
  <2>1. 0 \in Cores \cup {EFAULT, ERESTARTSYS}
    BY CoreNumbers
  <2> QED BY <1>3, <2>1, IoctlTypes DEF DecFlushRegs, Return, HantroTypeOK, HwStates
<1>4. ASSUME NEW c \in Cores, AbortAndWait(t, f, c) PROVE HantroTypeOK'
  <2>1. [User EXCEPT !.at = "check", !.file = f] \in IoctlType
    BY IoctlTypes
  <2> QED BY <1>4, <2>1 DEF AbortAndWait, HantroTypeOK, HwStates
<1> QED BY <1>1, <1>2, <1>3, <1>4

\* What a thread does inside the driver
LEMMA KernelTypes ==
  ASSUME TypeOK, NEW t \in Threads, Kernel(t) \/ Interrupted(t) PROVE HantroTypeOK'
<1> USE DEF TypeOK
<1> DEFINE c == k[t].core
<1>1. k[t] \in IoctlType /\ c \in Cores
  BY DEF HantroTypeOK, IoctlType
<1>2. ASSUME NEW place \in Places, NEW sleep \in Places, Again(t, place, sleep)
      PROVE  k' \in [Threads -> IoctlType]
  <2>1. [k[t] EXCEPT !.at = place, !.core = 0, !.woken = FALSE, !.found = FALSE] \in IoctlType
    BY <1>1, CoreNumbers DEF IoctlType
  <2>2. [k[t] EXCEPT !.at = sleep] \in IoctlType
    BY <1>1 DEF IoctlType
  <2> QED BY <1>2, <2>1, <2>2 DEF Again, HantroTypeOK
<1>3. CASE Down(t)
  <2>1. k' \in [Threads -> IoctlType]
    BY <1>1, <1>3, CoreNumbers DEF Down, HantroTypeOK, IoctlType, Places
  <2> QED BY <1>3, <2>1 DEF Down, HantroTypeOK
<1>4. CASE GetDecCore(t)
  <2>1. k' \in [Threads -> IoctlType]
    BY <1>1, <1>4, IoctlTypes DEF GetDecCore, Return, HantroTypeOK
  <2> QED BY <1>1, <1>4, <2>1 DEF GetDecCore, HantroTypeOK, IoctlType
<1>5. CASE GetDecCoreFails(t)
  <2>1. k' \in [Threads -> IoctlType]
    <3>1. CASE c + 1 \in Cores
      <4>1. [k[t] EXCEPT !.core = c + 1] \in IoctlType
        BY <1>1, <3>1 DEF IoctlType
      <4>2. k' = [k EXCEPT ![t] = [k[t] EXCEPT !.core = c + 1]]
        BY <1>5, <3>1 DEF GetDecCoreFails, HantroTypeOK
      <4> QED BY <4>1, <4>2 DEF HantroTypeOK
    <3>2. CASE c + 1 \notin Cores
      BY <1>2, <1>5, <3>2 DEF GetDecCoreFails, Places
    <3> QED BY <3>1, <3>2
  <2> QED BY <1>5, <2>1 DEF GetDecCoreFails, HantroTypeOK
<1>6. CASE ReleaseCore(t)
  <2>1. k' \in [Threads -> IoctlType]
    BY <1>1, <1>6 DEF ReleaseCore, Goto, HantroTypeOK, IoctlType, Places
  <2> QED BY <1>1, <1>6, <2>1 DEF ReleaseCore, HantroTypeOK, HwStates
<1>7. CASE ReleaseUp(t)
  <2>1. [k EXCEPT ![t] = User] \in [Threads -> IoctlType]
    BY IoctlTypes DEF HantroTypeOK
  <2>2. WakeHwQueue([k EXCEPT ![t] = User]) \in [Threads -> IoctlType]
    BY <2>1, WokenTypes DEF WakeHwQueue, Places
  <2>3. k' \in [Threads -> IoctlType]
    BY <1>7, <2>2, WokenTypes DEF ReleaseUp, WakeDecWaitQueue, Places
  <2>4. sem' \in Nat
    BY <1>7 DEF ReleaseUp, HantroTypeOK
  <2> HIDE DEF c
  <2> QED BY <1>7, <2>3, <2>4 DEF ReleaseUp, HantroTypeOK
<1>8. CASE CheckCoreIrq(t)
  <2>1. k' \in [Threads -> IoctlType]
    <3>1. \/ Return(t, c) \/ Return(t, EFAULT) \/ Again(t, "check", "wait")
          \/ c + 1 \in Cores /\ k' = [k EXCEPT ![t].core = c + 1,
                 ![t].found = k[t].found \/ dec_owner[c] = k[t].file]
      BY <1>8, Zenon DEF CheckCoreIrq
    <3>2. CASE Return(t, c) \/ Return(t, EFAULT)
      <4>1. c \in Cores \cup {EFAULT, ERESTARTSYS} /\ EFAULT \in Cores \cup {EFAULT, ERESTARTSYS}
        BY <1>1
      <4> HIDE DEF c
      <4> QED BY <3>2, <4>1, IoctlTypes DEF Return, HantroTypeOK
    <3>3. CASE Again(t, "check", "wait")
      BY <1>2, <3>3 DEF Places
    <3>4. CASE c + 1 \in Cores /\ k' = [k EXCEPT ![t].core = c + 1,
                 ![t].found = k[t].found \/ dec_owner[c] = k[t].file]
      <4>1. PICK b : b = (k[t].found \/ dec_owner[c] = k[t].file)
        OBVIOUS
      <4>2. b \in BOOLEAN
        BY <4>1, Zenon
      <4>3. k' = [k EXCEPT ![t] = [k[t] EXCEPT !.core = c + 1, !.found = b]]
        BY <3>4, <4>1
      <4>4. [k[t] EXCEPT !.core = c + 1, !.found = b] \in IoctlType
        BY <1>1, <3>4, <4>2 DEF IoctlType
      <4> QED BY <4>3, <4>4 DEF HantroTypeOK
    <3> QED BY <3>1, <3>2, <3>3, <3>4
  <2>2. dec_irq' \subseteq Cores
    BY <1>8 DEF CheckCoreIrq, HantroTypeOK
  <2> QED BY <1>8, <2>1, <2>2 DEF CheckCoreIrq, HantroTypeOK
<1>9. CASE Interrupted(t)
  BY <1>9, IoctlTypes DEF Interrupted, Return, HantroTypeOK
<1> QED BY <1>3, <1>4, <1>5, <1>6, <1>7, <1>8, <1>9 DEF Kernel
-----------------------------------------------------------------------------
(* Steps of others.  They may wake the threads of an instance up, and leave  *)
(* its cores alone.                                                          *)

Classes == {{"user"}, {"release"}, {"up"}, {"down", "get", "sleep"}, {"check", "wait"}}

\* The ioctl x goes on as y: it stays where it was up to a wake-up, it returns
\* from ReleaseDecoder, or a signal ends its wait.
Moves(x, y, dead) ==
  \/ /\ y.file = x.file /\ y.format = x.format /\ y.ret = x.ret
     /\ \A S \in Classes : y.at \in S <=> x.at \in S
     /\ x.at \in {"release", "up"} => y.core = x.core
     /\ y.at = "check" => \/ y.core = 0
                          \/ x.at = "check" /\ y.core = x.core /\ y.found = x.found
  \/ x.at = "up" /\ y.at = "user"
  \/ dead /\ x.at \in {"down", "sleep", "wait"} /\ y.at = "user" /\ y.ret \notin Cores

SameInstance(f) ==
  /\ dec'[f] = dec[f] /\ lis'[f] = lis[f]
  /\ rdy'[Process[f]] = rdy[Process[f]] /\ callback'[Process[f]] = callback[Process[f]]
  /\ fd'[Process[f]] = fd[Process[f]] /\ killed'[Process[f]] = killed[Process[f]]
  /\ cfg' = cfg
  /\ \A t \in {Dec(f), Lis(f)} : Moves(k[t], k'[t], killed[Process[f]])

SameCores(f) ==
  \A c \in Cores :
    /\ dec_owner'[c] = f <=> dec_owner[c] = f
    /\ dec_owner[c] = f => hw'[c] = hw[c] /\ started'[c] = started[c] /\ (c \in dec_irq' <=> c \in dec_irq)

\* An instance that nobody touches keeps its invariant.
LEMMA Frame ==
  ASSUME TypeOK, NEW f \in Files, FileInv(f), SameInstance(f), SameCores(f)
  PROVE  FileInv(f)'
<1>1. /\ Reserved(f)' = Reserved(f) /\ GivesBack(Dec(f))' = GivesBack(Dec(f))
      /\ Heard(f)' = Heard(f) /\ GivesBack(Lis(f))' = GivesBack(Lis(f))
  BY DEF Reserved, GivesBack, Heard, At, SameInstance, Moves, Classes, FileInv, ThreadsFit
<1>2. OfDecoder(f)' = OfDecoder(f) /\ OfListener(f)' = OfListener(f) /\ Owned(f)' = Owned(f)
  BY <1>1 DEF OfDecoder, OfListener, SameCores, Owned
<1>3. /\ OfDecoder(f) \subseteq Owned(f) /\ OfListener(f) \subseteq Owned(f)
      /\ Reserved(f) \subseteq OfDecoder(f) /\ GivesBack(Dec(f)) \subseteq OfDecoder(f)
      /\ Heard(f) \subseteq OfListener(f)
  <2>1. OfDecoder(f) \subseteq Cores /\ OfListener(f) \subseteq Cores
    BY DEF OfDecoder, OfListener, Reserved, GivesBack, Heard, TypeOK, DecType
  <2> QED BY <2>1 DEF FileInv, DecoderHas, ListenerHas, OfDecoder, OfListener, Owned
<1>4. \A c \in Owned(f) : /\ c \in Cores /\ dec_owner[c] = f /\ dec_owner'[c] = f /\ hw'[c] = hw[c]
                          /\ started'[c] = started[c] /\ (c \in dec_irq' <=> c \in dec_irq)
  BY DEF SameCores, Owned
<1>5. ThreadsFit(f)'
  BY DEF FileInv, ThreadsFit, SameInstance, Moves, Classes, InReserve, At
<1>6. InstanceFits(f)'
  BY DEF FileInv, InstanceFits, SameInstance
<1>7. DecoderHas(f)'
  <2>1. dec[f].at \in {"reserve", "all"} /\ k'[Dec(f)].at = "user" /\ ~killed[Process[f]] =>
          k[Dec(f)].at = "user" /\ k'[Dec(f)].ret = k[Dec(f)].ret
    BY DEF FileInv, ThreadsFit, SameInstance, Moves, Classes
  <2> QED BY <1>1, <1>2, <1>3, <1>4, <2>1 DEF FileInv, DecoderHas, SameInstance, At
<1>8. ListenerHas(f)'
  <2>1. lis[f].at = "pull" => lis[f].core \in Owned(f)
    BY <1>3 DEF FileInv, ListenerHas, OfListener, Heard
  <2> QED BY <1>1, <1>2, <1>3, <1>4, <2>1 DEF FileInv, ListenerHas, SameInstance
<1>9. Aborts(f)'
  <2>1. lis[f].at = "again" => lis[f].regs \in Owned(f)
    BY DEF FileInv, Aborts, Owned, TypeOK, LisType
  <2>2. lis[f].at = "again" => /\ lis[f].regs \in Int /\ lis[f].regs >= 0
    BY HantroAssumption DEF TypeOK, LisType, Cores
  <2>3. lis[f].at = "again" /\ k'[Lis(f)].at = "user" /\ ~killed[Process[f]] =>
          k[Lis(f)].at = "user" /\ k'[Lis(f)].ret = k[Lis(f)].ret
    BY DEF FileInv, ThreadsFit, SameInstance, Moves, Classes
  <2>4. k'[Lis(f)].at = "check" => \/ k'[Lis(f)].core = 0
                                   \/ /\ k[Lis(f)].at = "check" /\ k'[Lis(f)].core = k[Lis(f)].core
                                      /\ k'[Lis(f)].found = k[Lis(f)].found
    BY DEF SameInstance, Moves
  <2> QED BY <1>2, <1>4, <2>1, <2>2, <2>3, <2>4 DEF FileInv, Aborts, SameInstance, At
<1>10. DeadIsSilent(f)'
  BY <1>2, <1>4 DEF FileInv, DeadIsSilent, SameInstance
<1>11. OwnsOnly(f)'
  <2>1. Usable(f)' = Usable(f)
    BY DEF Usable, SameInstance
  <2>2. dec[f].at = "wait" => dec[f].core \in Owned(f)
    BY DEF FileInv, OwnsOnly
  <2> QED BY <1>2, <1>4, <2>1, <2>2 DEF FileInv, OwnsOnly, SameInstance
<1>12. PostedWhenDone(f)'
  <2>2. dec[f].at = "wait" => dec[f].core \in Owned(f)
    BY DEF FileInv, OwnsOnly
  <2> QED BY <1>1, <1>4, <2>2 DEF FileInv, PostedWhenDone, SameInstance
<1>13. ~dec'[f].early
  BY DEF FileInv, SameInstance
<1> QED BY <1>5, <1>6, <1>7, <1>8, <1>9, <1>10, <1>11, <1>12, <1>13 DEF FileInv
-----------------------------------------------------------------------------
(* A step of the instance f touches the threads, the process and the cores   *)
(* of f only.                                                                *)

OwnStep(f) ==
  /\ \A g \in Files \ {f} : dec'[g] = dec[g] /\ lis'[g] = lis[g]
  /\ \A p \in Processes \ {Process[f]} :
       rdy'[p] = rdy[p] /\ callback'[p] = callback[p] /\ fd'[p] = fd[p] /\ killed'[p] = killed[p]
  /\ cfg' = cfg
  /\ \A t \in Threads \ {Dec(f), Lis(f)} : k'[t] = k[t]
  /\ \A c \in Cores : \/ /\ dec_owner'[c] = dec_owner[c] /\ hw'[c] = hw[c] /\ started'[c] = started[c]
                         /\ c \in dec_irq' <=> c \in dec_irq
                      \/ dec_owner[c] \in {f, NoFile} /\ dec_owner'[c] \in {f, NoFile}

\* A step of one file leaves what is known of every other file alone: with one
\* instance in each process they share no semaphore, callback or descriptor.
LEMMA OthersKeep ==
  ASSUME TypeOK, OneInstance, NEW f \in Files, OwnStep(f), NEW g \in Files \ {f}, FileInv(g)
  PROVE  FileInv(g)'
<1>1. Process[g] \in Processes \ {Process[f]}
  BY DwlAssumption DEF OneInstance
<1>2. Dec(g) \in Threads \ {Dec(f), Lis(f)} /\ Lis(g) \in Threads \ {Dec(f), Lis(f)}
  BY ThreadNames
<1>3. \A t \in {Dec(g), Lis(g)} : Moves(k[t], k'[t], killed[Process[g]])
  BY <1>2 DEF Moves, OwnStep
<1>4. SameInstance(g)
  BY <1>1, <1>3 DEF SameInstance, OwnStep
<1>5. SameCores(g)
  BY HantroAssumption DEF SameCores, OwnStep
<1> QED BY <1>4, <1>5, Frame

\* What a step of f has to show.
Keeps(f) == OwnStep(f) /\ TypeOK' /\ FileInv(f)' /\ CoresFit'

\* So for a step of f only f and the cores are to be shown.
LEMMA StepKeeps ==
  ASSUME CoreInv, OneInstance, NEW f \in Files, Keeps(f) PROVE CoreInv'
<1>1. \A g \in Files \ {f} : FileInv(g)'
  BY OthersKeep DEF CoreInv, Keeps
<1> QED BY <1>1 DEF CoreInv, Keeps

\* The types of what belongs to one file.
LEMMA Typing ==
  ASSUME TypeOK, NEW f \in Files
  PROVE  /\ dec[f] \in DecType /\ lis[f] \in LisType /\ Process[f] \in Processes
         /\ Dec(f) \in Threads /\ Lis(f) \in Threads /\ Dec(f) # Lis(f)
         /\ \A t \in Threads :
              /\ k[t] \in IoctlType /\ k[t].at \in Places /\ k[t].core \in Cores
              /\ k[t].ret \in Cores \cup {EFAULT, ERESTARTSYS}
         /\ dec[f].got \subseteq Cores /\ dec[f].core \in Cores /\ dec[f].at \in DecPlaces
         /\ dec[f].format \in Formats \cup {NoFile}
         /\ lis[f].at \in LisPlaces /\ lis[f].core \in Cores \cup {EFAULT} /\ lis[f].regs \in Cores
BY DwlAssumption, ThreadNames DEF TypeOK, HantroTypeOK, DecType, LisType, IoctlType

\* A step in user space.
LEMMA SameDriver ==
  ASSUME TypeOK, CoresFit, UNCHANGED driver
  PROVE  /\ HantroTypeOK' /\ CoresFit'
         /\ UNCHANGED <<cfg, sem, dec_owner, dec_irq, hw, started, k>>
BY DEF driver, TypeOK, HantroTypeOK, CoresFit, CoreFits

\* A thread that enters an ioctl.
LEMMA CallStep ==
  ASSUME TypeOK, CoresFit, NEW t \in Threads, NEW f \in Files, NEW m \in Formats \cup {NoFile},
         NEW c \in Cores, NEW place \in Places, Call(t, place, f, m, c)
  PROVE  /\ HantroTypeOK' /\ CoresFit'
         /\ UNCHANGED <<cfg, sem, dec_owner, dec_irq, hw, started>>
         /\ k[t].at = "user"
         /\ k'[t].at = place /\ k'[t].file = f /\ k'[t].format = m /\ k'[t].core = c
         /\ \A s \in Threads \ {t} : k'[s] = k[s]
<1>1. HantroTypeOK'
  BY CallTypes
<1>2. UNCHANGED <<cfg, sem, dec_owner, dec_irq, hw, started>>
  BY DEF Call
<1>3. CoresFit'
  BY <1>2 DEF CoresFit, CoreFits
<1>4. k' = [k EXCEPT ![t] = [User EXCEPT !.at = place, !.file = f, !.format = m, !.core = c]]
      /\ k \in [Threads -> IoctlType] /\ k[t].at = "user"
  BY DEF Call, At, TypeOK, HantroTypeOK
<1> QED BY <1>1, <1>2, <1>3, <1>4 DEF User

\* The ioctl that releases an owned core begins; no core moves yet.
LEMMA ReleaseCall ==
  ASSUME TypeOK, CoresFit, NEW t \in Threads, NEW f \in Files, NEW c \in Cores,
         DecRelease(t, f, c), dec_owner[c] = f
  PROVE  /\ HantroTypeOK' /\ CoresFit'
         /\ UNCHANGED <<cfg, sem, dec_owner, dec_irq, hw, started>>
         /\ k[t].at = "user"
         /\ k'[t].at = "release" /\ k'[t].file = f /\ k'[t].core = c
         /\ \A s \in Threads \ {t} : k'[s] = k[s]
<1>1. "release" \in Places /\ NoFile \in Formats \cup {NoFile} /\ Call(t, "release", f, NoFile, c)
  BY DEF Places, DecRelease
<1> QED BY <1>1, CallStep

\* DWLInit starts from a process in which nothing is left.
LEMMA InitStep ==
  ASSUME TypeOK, CoresFit, OneInstance, NEW f \in Files, FileInv(f), DWLInit(f) PROVE Keeps(f)
<1> DEFINE p == Process[f]
<1>1. Instances(p) = {}
  BY DEF Instances, OneInstance, DWLInit, Runs, Shut
<1>2. PICK m \in Offered : dec' = [dec EXCEPT ![f].at = "idle", ![f].format = m]
  BY DEF DWLInit
<1>3. m \in Formats
  BY HantroAssumption DEF Offered, TypeOK, HantroTypeOK
<1>4. /\ dec' = [dec EXCEPT ![f] = [dec[f] EXCEPT !.at = "idle", !.format = m]]
      /\ lis' = [lis EXCEPT ![f] = [lis[f] EXCEPT !.at = "loop"]]
      /\ fd' = [fd EXCEPT ![p] = f]
      /\ rdy' = [rdy EXCEPT ![p] = [c \in Cores |-> 0]]
      /\ callback' = [callback EXCEPT ![p] = [c \in Cores |-> NoFile]]
      /\ b_stopped' = [b_stopped EXCEPT ![p] = FALSE]
      /\ UNCHANGED <<driver, killed, pics>>
  BY <1>1, <1>2 DEF DWLInit, LisGoto, TypeOK
<1>5. TypeOK'
  <2>1. [dec[f] EXCEPT !.at = "idle", !.format = m] \in DecType
    BY <1>3, Typing DEF DecType, DecPlaces
  <2>2. [lis[f] EXCEPT !.at = "loop"] \in LisType
    BY Typing DEF LisType, LisPlaces
  <2> QED BY <1>4, <2>1, <2>2, SameDriver DEF TypeOK
<1>6. OwnStep(f)
  BY <1>4, Typing, SameDriver DEF OwnStep, TypeOK
<1>7. /\ dec'[f].at = "idle" /\ dec'[f].got = dec[f].got /\ dec'[f].early = dec[f].early /\ dec'[f].format = m
      /\ lis'[f].at = "loop" /\ fd'[p] = f /\ rdy'[p] = [c \in Cores |-> 0]
      /\ callback'[p] = [c \in Cores |-> NoFile] /\ killed' = killed
      /\ UNCHANGED <<cfg, sem, dec_owner, dec_irq, hw, started, k>>
  BY <1>4, Typing, SameDriver DEF TypeOK, DecType, LisType
<1>8. dec[f].at = "new" /\ k[Dec(f)].at = "user" /\ k[Lis(f)].at = "user"
  <2>1. dec[f].at = "new" /\ k[Dec(f)].at = "user" /\ k[Lis(f)].at \in Places
    BY Typing DEF DWLInit, Runs, At
  <2> QED BY <2>1 DEF FileInv, InstanceFits, ThreadsFit, Places
<1>9. ThreadsFit(f)' /\ InstanceFits(f)'
  <2>1. ThreadsFit(f)'
    BY <1>7, <1>8 DEF ThreadsFit, At, InReserve
  <2>2. dec[f].got = {}
    BY <1>8 DEF FileInv, InstanceFits
  <2> QED BY <1>7, <2>1, <2>2 DEF InstanceFits
<1>10. Owned(f)' = {} /\ GivesBack(Lis(f))' = {} /\ Heard(f)' = {} /\ GivesBack(Dec(f))' = {}
  <2>1. Owned(f) = {}
    BY <1>8 DEF FileInv, OwnsOnly
  <2> QED BY <1>7, <1>8, <2>1 DEF Owned, GivesBack, Heard, At
<1>11. Reserved(f)' = {}
  BY <1>7, <1>8 DEF FileInv, InstanceFits, Reserved
<1>12. DecoderHas(f)' /\ ListenerHas(f)'
  BY <1>7, <1>10, <1>11 DEF DecoderHas, ListenerHas, OfDecoder, OfListener
<1>13. Aborts(f)' /\ DeadIsSilent(f)'
  BY <1>7, <1>10 DEF Aborts, DeadIsSilent
<1>14. OwnsOnly(f)' /\ PostedWhenDone(f)' /\ ~dec'[f].early
  BY <1>7, <1>10 DEF OwnsOnly, PostedWhenDone, FileInv
<1> QED BY <1>5, <1>6, <1>9, <1>12, <1>13, <1>14, <1>4, SameDriver DEF FileInv, Keeps

\* DWLRelease gives up an instance that has no core.
LEMMA ReleaseStep ==
  ASSUME TypeOK, CoresFit, OneInstance, NEW f \in Files, FileInv(f), DWLRelease(f) PROVE Keeps(f)
<1> DEFINE p == Process[f]
<1>1. /\ dec' = [dec EXCEPT ![f] = Fresh("closed")] /\ UNCHANGED <<driver, lis, rdy, callback, fd, killed, pics>>
      /\ k[Dec(f)].at = "user" /\ dec[f].got = {} /\ ~killed[p]
      /\ dec[f].at = IF f \in MultiCore THEN "back" ELSE "idle"
  BY DEF DWLRelease, Runs, At
<1>2. Fresh("closed") \in DecType
  BY CoreNumbers DEF Fresh, DecType, DecPlaces
<1>3. TypeOK'
  <2>1. b_stopped' \in [Processes -> BOOLEAN]
    <3>1. PICK b \in BOOLEAN : b_stopped' = [b_stopped EXCEPT ![p] = b]
      BY Zenon DEF DWLRelease
    <3> QED BY <3>1 DEF TypeOK
  <2> QED BY <1>1, <1>2, <2>1, SameDriver DEF TypeOK
<1>4. OwnStep(f)
  BY <1>1, Typing, SameDriver DEF OwnStep, TypeOK
<1>5. /\ dec'[f].at = "closed" /\ dec'[f].got = {} /\ dec'[f].early = FALSE
      /\ UNCHANGED <<cfg, sem, dec_owner, dec_irq, hw, started, k>>
  BY <1>1, SameDriver DEF TypeOK, Fresh
<1>6. ThreadsFit(f)' /\ InstanceFits(f)'
  BY <1>1, <1>5 DEF FileInv, ThreadsFit, InstanceFits, At, InReserve
<1>7. /\ Reserved(f) = {} /\ GivesBack(Dec(f)) = {} /\ Reserved(f)' = {} /\ GivesBack(Dec(f))' = {}
      /\ OfListener(f)' = OfListener(f) /\ Heard(f)' = Heard(f)
  BY <1>1, <1>5 DEF Reserved, GivesBack, At, OfListener, Heard
<1>8. Owned(f) = {} /\ Owned(f)' = {}
  BY <1>1, <1>5, <1>7 DEF FileInv, OwnsOnly, OfDecoder, Owned
<1>9. DecoderHas(f)' /\ ListenerHas(f)'
  BY <1>1, <1>5, <1>7 DEF FileInv, DecoderHas, ListenerHas, OfDecoder
<1>10. Aborts(f)' /\ DeadIsSilent(f)'
  <2>1. lis[f].at # "again"
    BY <1>8, Typing DEF FileInv, Aborts, Owned
  <2> QED BY <1>1, <1>8, <2>1 DEF Aborts, DeadIsSilent
<1>11. OwnsOnly(f)' /\ PostedWhenDone(f)'
  BY <1>1, <1>5, <1>8 DEF FileInv, OwnsOnly, PostedWhenDone, Shut
<1> QED BY <1>1, <1>3, <1>4, <1>5, <1>6, <1>9, <1>10, <1>11, SameDriver DEF FileInv, Keeps

\* DWLReserveHw, EndOfStream and ReserveNext enter ReserveDecoder.
LEMMA EntersReserve ==
  ASSUME TypeOK, CoresFit, NEW f \in Files, FileInv(f), DecReserve(Dec(f), f, dec[f].format), ~killed[Process[f]],
         NEW place \in {"reserve", "all"}, NEW got \in SUBSET Cores, got = Reserved(f),
         dec' = [dec EXCEPT ![f] = [dec[f] EXCEPT !.at = place, !.got = got]],
         place = "all" => f \in MultiCore /\ dec[f].at \in {"idle", "all"},
         place = "reserve" => got = {} /\ dec[f].at = "idle",
         UNCHANGED <<lis, rdy, callback, fd, b_stopped, killed>>, pics' \in 0 .. MaxPics
  PROVE  Keeps(f)
<1> DEFINE p == Process[f]
<1>1. /\ HantroTypeOK' /\ CoresFit'
      /\ UNCHANGED <<cfg, sem, dec_owner, dec_irq, hw, started>>
      /\ k[Dec(f)].at = "user" /\ k'[Dec(f)].at = "down" /\ k'[Dec(f)].file = f
      /\ k'[Dec(f)].format = dec[f].format
      /\ \A s \in Threads \ {Dec(f)} : k'[s] = k[s]
  <2>1. Dec(f) \in Threads /\ "down" \in Places /\ 0 \in Cores /\ dec[f].format \in Formats \cup {NoFile}
    BY Typing, CoreNumbers DEF Places
  <2> QED BY <2>1, CallStep DEF DecReserve
<1>2. TypeOK'
  <2>1. [dec[f] EXCEPT !.at = place, !.got = got] \in DecType
    BY Typing DEF DecType, DecPlaces
  <2> QED BY <1>1, <2>1 DEF TypeOK
<1>3. OwnStep(f)
  BY <1>1, Typing DEF OwnStep, TypeOK
<1>4. /\ dec'[f].at = place /\ dec'[f].got = got /\ dec'[f].early = dec[f].early
      /\ dec'[f].format = dec[f].format /\ k'[Lis(f)] = k[Lis(f)]
  BY <1>1, Typing DEF TypeOK, DecType
<1>5. ThreadsFit(f)'
  BY <1>1, <1>4 DEF FileInv, ThreadsFit, At, InReserve
<1>6. InstanceFits(f)'
  BY <1>4 DEF FileInv, InstanceFits
<1>7. /\ Reserved(f)' = Reserved(f) /\ GivesBack(Dec(f)) = {} /\ GivesBack(Dec(f))' = {}
      /\ OfListener(f)' = OfListener(f) /\ Heard(f)' = Heard(f) /\ Owned(f)' = Owned(f)
      /\ Usable(f)' = Usable(f)
  BY <1>1, <1>4 DEF Reserved, GivesBack, At, OfListener, Heard, Owned, Usable
<1>8. OfDecoder(f)' = OfDecoder(f)
  BY <1>7 DEF OfDecoder
<1>9. DecoderHas(f)' /\ ListenerHas(f)'
  BY <1>1, <1>4, <1>7, <1>8 DEF FileInv, DecoderHas, ListenerHas, At
<1>10. Aborts(f)' /\ DeadIsSilent(f)'
  BY <1>1, <1>4, <1>8 DEF FileInv, Aborts, DeadIsSilent, At
<1>11. OwnsOnly(f)'
  BY <1>4, <1>7, <1>8 DEF FileInv, OwnsOnly, Shut
<1>12. PostedWhenDone(f)' /\ ~dec'[f].early
  BY <1>4 DEF FileInv, PostedWhenDone, InstanceFits
<1> QED BY <1>1, <1>2, <1>3, <1>5, <1>6, <1>9, <1>10, <1>11, <1>12 DEF FileInv, Keeps

\* The steps that ask the driver for a core.
LEMMA ReserveSteps ==
  ASSUME TypeOK, CoresFit, NEW f \in Files, FileInv(f), DWLReserveHw(f) \/ EndOfStream(f) \/ ReserveNext(f)
  PROVE  Keeps(f)
<1>1. pics \in 0 .. MaxPics /\ (pics < MaxPics => pics + 1 \in 0 .. MaxPics) /\ dec[f].got \subseteq Cores
  BY DwlAssumption, Typing DEF TypeOK
<1>2. CASE DWLReserveHw(f)
  <2>1. Reserved(f) = {} /\ dec[f].got = {}
    BY <1>2 DEF DWLReserveHw, Runs, Reserved, FileInv, InstanceFits
  <2>2. dec' = [dec EXCEPT ![f] = [dec[f] EXCEPT !.at = "reserve", !.got = {}]]
    BY <1>2, <2>1, Typing DEF DWLReserveHw, DecGoto, TypeOK, DecType
  <2> QED BY <1>1, <1>2, <2>1, <2>2, EntersReserve DEF DWLReserveHw, Runs
<1>3. CASE EndOfStream(f)
  <2>1. Reserved(f) = {} /\ dec[f].got = {}
    BY <1>3 DEF EndOfStream, Runs, Reserved, FileInv, InstanceFits
  <2>2. dec' = [dec EXCEPT ![f] = [dec[f] EXCEPT !.at = "all", !.got = {}]]
    BY <1>3, <2>1, Typing DEF EndOfStream, DecGoto, TypeOK, DecType
  <2> QED BY <1>1, <1>3, <2>1, <2>2, EntersReserve DEF EndOfStream, Runs
<1>4. CASE ReserveNext(f)
  <2> DEFINE got == dec[f].got \cup {k[Dec(f)].ret}
  <2>1. /\ dec[f].at = "all" /\ k[Dec(f)].at = "user" /\ ~killed[Process[f]]
        /\ dec' = [dec EXCEPT ![f].got = got]
        /\ DecReserve(Dec(f), f, dec[f].format)
        /\ UNCHANGED <<lis, rdy, callback, fd, b_stopped, killed, pics>>
    BY <1>4 DEF ReserveNext, Runs, At
  <2>2. k[Dec(f)].ret \in Cores
    BY <2>1 DEF FileInv, DecoderHas, At
  <2>3. Reserved(f) = got /\ got \subseteq Cores
    BY <1>1, <2>1, <2>2 DEF Reserved, At
  <2>4. f \in MultiCore
    BY <2>1 DEF FileInv, InstanceFits
  <2>5. dec' = [dec EXCEPT ![f] = [dec[f] EXCEPT !.at = "all", !.got = got]]
    BY <2>1, Typing DEF TypeOK, DecType
  <2> HIDE DEF got
  <2> QED BY <1>1, <2>1, <2>3, <2>4, <2>5, EntersReserve
<1> QED BY <1>2, <1>3, <1>4

\* DWLEnableHw hands the reserved core from the thread to the hardware.
LEMMA EnableStep ==
  ASSUME TypeOK, CoresFit, NEW f \in Files, FileInv(f), DWLEnableHw(f) PROVE Keeps(f)
<1> DEFINE p == Process[f]  c == k[Dec(f)].ret
           place == IF f \in MultiCore THEN "idle" ELSE "wait"
           core == IF f \in MultiCore THEN 0 ELSE c
           g == IF f \in MultiCore THEN f ELSE NoFile
<1>1. /\ dec[f].at = "reserve" /\ k[Dec(f)].at = "user" /\ ~killed[p]
      /\ callback' = [callback EXCEPT ![p][c] = g]
      /\ DecFlushRegs(Dec(f), f, c)
      /\ dec' = [dec EXCEPT ![f].at = place, ![f].core = core]
      /\ UNCHANGED <<lis, rdy, fd, b_stopped, killed, pics>>
  BY DEF DWLEnableHw, Runs, At
<1>2. c \in Cores /\ c \in Reserved(f) /\ dec[f].got = {}
  BY <1>1 DEF FileInv, DecoderHas, InstanceFits, At, Reserved
<1>3. dec_owner[c] = f /\ c \notin dec_irq /\ hw[c] = "idle"
  BY <1>2 DEF FileInv, DecoderHas, OfDecoder
<1> HIDE DEF c
<1>4. HantroTypeOK'
  BY <1>1, <1>2, Typing, CallTypes
<1>5. /\ hw' = [hw EXCEPT ![c] = "run"] /\ started' = [started EXCEPT ![c] = f]
      /\ UNCHANGED <<cfg, sem, dec_owner, dec_irq>>
      /\ k'[Dec(f)].at = "user"
      /\ \A s \in Threads \ {Dec(f)} : k'[s] = k[s]
  BY <1>1, Typing DEF DecFlushRegs, Return, User, TypeOK, HantroTypeOK
<1>6. TypeOK'
  <2>1. core \in Cores /\ place \in DecPlaces /\ g \in Files \cup {NoFile}
    BY <1>2, CoreNumbers DEF DecPlaces
  <2>2. [dec[f] EXCEPT !.at = place, !.core = core] \in DecType
    BY <2>1, Typing DEF DecType
  <2>3. dec' = [dec EXCEPT ![f] = [dec[f] EXCEPT !.at = place, !.core = core]]
    BY <1>1, Typing DEF TypeOK, DecType
  <2>4. callback' \in [Processes -> [Cores -> Files \cup {NoFile}]]
    BY <1>1, <2>1 DEF TypeOK
  <2> QED BY <1>1, <1>4, <2>2, <2>3, <2>4 DEF TypeOK
<1>7. /\ dec'[f].at = place /\ dec'[f].core = core /\ dec'[f].got = {} /\ dec'[f].early = dec[f].early
      /\ dec'[f].format = dec[f].format /\ k'[Lis(f)] = k[Lis(f)]
      /\ \A d \in Cores : d # c => hw'[d] = hw[d] /\ started'[d] = started[d]
      /\ hw'[c] = "run" /\ started'[c] = f
      /\ \A d \in Cores : callback'[p][d] \in {callback[p][d], g}
  BY <1>1, <1>2, <1>5, Typing DEF TypeOK, HantroTypeOK, DecType
<1>8. OwnStep(f)
  <2>1. /\ \A h \in Files \ {f} : dec'[h] = dec[h]
        /\ \A q \in Processes \ {p} : callback'[q] = callback[q]
    BY <1>1, Typing DEF TypeOK
  <2> QED BY <1>1, <1>2, <1>3, <1>5, <1>7, <2>1, Typing DEF OwnStep
<1>9. CoresFit'
  BY <1>2, <1>3, <1>5, <1>7, HantroAssumption DEF CoresFit, CoreFits
<1>10. ThreadsFit(f)'
  BY <1>1, <1>5, <1>7 DEF FileInv, ThreadsFit, At, InReserve
<1> HIDE DEF place, core, g
<1>11. InstanceFits(f)'
  <2>1. /\ place = (IF f \in MultiCore THEN "idle" ELSE "wait") /\ g = IF f \in MultiCore THEN f ELSE NoFile
        /\ lis' = lis /\ fd' = fd /\ dec[f].at = "reserve"
    BY <1>1 DEF place, g
  <2>2. \A d \in Cores : callback'[p][d] \in IF f \in MultiCore THEN {f, NoFile} ELSE {NoFile}
    BY <1>7, <2>1 DEF FileInv, InstanceFits
  <2> QED BY <1>7, <2>1, <2>2 DEF FileInv, InstanceFits
<1>12. /\ Reserved(f)' = {} /\ GivesBack(Dec(f))' = {} /\ GivesBack(Dec(f)) = {}
       /\ OfListener(f)' = OfListener(f) /\ Heard(f)' = Heard(f) /\ Owned(f)' = Owned(f)
       /\ Usable(f)' = Usable(f) /\ Reserved(f) = {c}
  <2>1. Reserved(f) = {c}
    BY <1>1, <1>2 DEF Reserved, At, c
  <2>2. Reserved(f)' = {}
    BY <1>7 DEF Reserved, place
  <2>3. GivesBack(Dec(f))' = {} /\ GivesBack(Dec(f)) = {}
    BY <1>1, <1>5 DEF GivesBack, At
  <2> QED BY <1>1, <1>5, <1>7, <2>1, <2>2, <2>3 DEF GivesBack, At, OfListener, Heard, Owned, Usable
<1>13. OfDecoder(f)' = {} /\ OfDecoder(f) = {c} /\ c \notin OfListener(f)
  BY <1>12 DEF OfDecoder, FileInv, DecoderHas
<1>14. DecoderHas(f)'
  BY <1>7, <1>12, <1>13 DEF DecoderHas, place
<1>15. ListenerHas(f)'
  <2>1. OfListener(f) \subseteq Cores /\ (lis[f].at = "pull" => lis[f].core \in OfListener(f))
    BY DEF OfListener, Heard, GivesBack, FileInv, ListenerHas
  <2> QED BY <1>1, <1>5, <1>7, <1>12, <1>13, <2>1 DEF FileInv, ListenerHas
<1>16. Aborts(f)' /\ DeadIsSilent(f)'
  BY <1>1, <1>5, <1>7, <1>13, Typing DEF FileInv, Aborts, DeadIsSilent, At
<1>17. OwnsOnly(f)'
  <2>1. c \in Owned(f) /\ (f \notin MultiCore => Owned(f) = {c})
    BY <1>1, <1>2, <1>3, <1>13 DEF FileInv, OwnsOnly, Owned
  <2>2. dec[f].at = "reserve" /\ dec'[f].at = IF f \in MultiCore THEN "idle" ELSE "wait"
    BY <1>1, <1>7 DEF place
  <2>3. f \notin MultiCore => dec'[f].core = c
    BY <1>7 DEF core
  <2> QED BY <1>7, <1>12, <1>13, <2>1, <2>2, <2>3 DEF FileInv, OwnsOnly, Shut
<1>18. PostedWhenDone(f)' /\ ~dec'[f].early
  BY <1>1, <1>7 DEF FileInv, PostedWhenDone
<1> QED BY <1>6, <1>8, <1>9, <1>10, <1>11, <1>14, <1>15, <1>16, <1>17, <1>18 DEF FileInv, Keeps

\* DWLWaitHwReady, ReleaseNext and Close enter ReleaseDecoder with a core that
\* is done, or that nobody listens to any more.
LEMMA EntersRelease ==
  ASSUME TypeOK, CoresFit, NEW f \in Files, FileInv(f), NEW c \in Cores, DecRelease(Dec(f), f, c),
         dec_owner[c] = f, c \notin dec_irq, hw[c] = "idle" \/ killed[Process[f]],
         c \notin OfListener(f), lis[f].at = "again" => lis[f].regs # c,
         NEW x \in DecType, dec' = [dec EXCEPT ![f] = x], ~x.early,
         x.got \subseteq Reserved(f), c \notin x.got, Reserved(f) \subseteq x.got \cup {c},
         \/ x.at = "idle" /\ f \notin MultiCore /\ Owned(f) = {c} /\ x.got = {}
         \/ x.at = "back" /\ f \in MultiCore /\ Owned(f) \subseteq Reserved(f)
         \/ x.at = "drop" /\ killed[Process[f]] /\ lis[f].at \in {"none", "end"} /\ x.got = {},
         x.at # "drop" => x.format = dec[f].format /\ dec[f].at \notin Shut,
         rdy' \in [Processes -> [Cores -> Nat]],
         \A q \in Processes \ {Process[f]} : rdy'[q] = rdy[q],
         f \notin MultiCore /\ ~killed[Process[f]] => \A d \in Cores : rdy'[Process[f]][d] = 0,
         UNCHANGED <<lis, callback, fd, b_stopped, killed, pics>>
  PROVE  Keeps(f)
<1> DEFINE p == Process[f]
<1>1. /\ HantroTypeOK' /\ CoresFit'
      /\ UNCHANGED <<cfg, sem, dec_owner, dec_irq, hw, started>>
      /\ k[Dec(f)].at = "user" /\ k'[Dec(f)].at = "release" /\ k'[Dec(f)].file = f
      /\ k'[Dec(f)].core = c
      /\ \A s \in Threads \ {Dec(f)} : k'[s] = k[s]
  BY Typing, ReleaseCall
<1>2. TypeOK'
  BY <1>1 DEF TypeOK
<1>3. dec'[f] = x /\ k'[Lis(f)] = k[Lis(f)] /\ lis' = lis /\ callback' = callback /\ fd' = fd /\ killed' = killed
  BY <1>1, Typing DEF TypeOK
<1>4. OwnStep(f)
  BY <1>1, <1>3, Typing DEF OwnStep, TypeOK
<1>5. ThreadsFit(f)'
  BY <1>1, <1>3 DEF FileInv, ThreadsFit, At, InReserve
<1>6. InstanceFits(f)'
  BY <1>3 DEF FileInv, InstanceFits
<1>7. /\ Reserved(f)' = x.got /\ GivesBack(Dec(f)) = {} /\ GivesBack(Dec(f))' = {c}
  BY <1>1, <1>3 DEF Reserved, GivesBack, At
<1>8. /\ OfListener(f)' = OfListener(f) /\ Heard(f)' = Heard(f) /\ Owned(f)' = Owned(f)
      /\ x.at # "drop" => Usable(f)' = Usable(f)
  BY <1>1, <1>3 DEF GivesBack, At, OfListener, Heard, Owned, Usable
<1>9. OfDecoder(f)' = x.got \cup {c} /\ x.got \subseteq OfDecoder(f)
  BY <1>7 DEF OfDecoder
<1>10. DecoderHas(f)'
  <2>1. OfDecoder(f)' \cap OfListener(f)' = {}
    BY <1>8, <1>9 DEF FileInv, DecoderHas
  <2> QED BY <1>1, <1>3, <1>7, <1>9, <2>1 DEF FileInv, DecoderHas, At
<1>11. ListenerHas(f)'
  BY <1>1, <1>3, <1>8 DEF FileInv, ListenerHas
<1>12. Aborts(f)' /\ DeadIsSilent(f)'
  BY <1>1, <1>3, <1>8, <1>9 DEF FileInv, Aborts, DeadIsSilent, At
<1>13. OwnsOnly(f)'
  BY <1>3, <1>8, <1>9 DEF FileInv, OwnsOnly, Shut
<1>14. PostedWhenDone(f)'
  BY <1>3 DEF PostedWhenDone
<1> QED BY <1>1, <1>2, <1>3, <1>4, <1>5, <1>6, <1>10, <1>11, <1>12, <1>13, <1>14 DEF FileInv, Keeps

\* DWLWaitHwReady takes the core back from the listener and releases it.
LEMMA WaitHwReadyStep ==
  ASSUME TypeOK, CoresFit, NEW f \in Files, FileInv(f), DWLWaitHwReady(f) PROVE Keeps(f)
<1> DEFINE p == Process[f]  c == dec[f].core
           x == [dec[f] EXCEPT !.at = "idle", !.core = 0, !.early = Busy(c) \/ started[c] # f]
<1>1. /\ dec[f].at = "wait" /\ k[Dec(f)].at = "user" /\ ~killed[p] /\ rdy[p][c] > 0
      /\ rdy' = [rdy EXCEPT ![p][c] = @ - 1]
      /\ DecRelease(Dec(f), f, c)
      /\ UNCHANGED <<lis, callback, fd, b_stopped, killed, pics>>
  BY DEF DWLWaitHwReady, Runs, At
<1>2. dec' = [dec EXCEPT ![f] = x]
  BY Typing DEF DWLWaitHwReady, TypeOK, DecType
<1>3. c \in Cores /\ f \notin MultiCore /\ dec[f].got = {}
  BY <1>1, Typing DEF FileInv, InstanceFits
<1>4. /\ rdy[p][c] = 1 /\ hw[c] = "idle" /\ c \notin dec_irq /\ c \notin Heard(f) /\ lis[f].at # "again"
      /\ \A d \in Cores : d # c => rdy[p][d] = 0
  <2>1. rdy[p][c] # 0
    BY <1>1, <1>3, Typing DEF TypeOK
  <2> QED BY <1>1, <1>3, <2>1 DEF FileInv, PostedWhenDone
<1>5. Owned(f) = {c} /\ OfDecoder(f) = {} /\ started[c] = f /\ dec_owner[c] = f
  BY <1>1 DEF FileInv, OwnsOnly, Owned
<1>6. c \notin OfListener(f)
  BY <1>3, <1>4 DEF OfListener, GivesBack, At, FileInv, ThreadsFit
<1>7. x \in DecType /\ x.at = "idle" /\ x.early = FALSE /\ x.got = {} /\ x.format = dec[f].format
  <2>1. (Busy(c) \/ started[c] # f) = FALSE
    BY <1>4, <1>5 DEF Busy
  <2>2. x = [dec[f] EXCEPT !.at = "idle", !.core = 0, !.early = FALSE]
    BY <2>1
  <2>3. dec[f] \in DecType
    BY Typing
  <2>4. 0 \in Cores /\ "idle" \in DecPlaces
    BY CoreNumbers DEF DecPlaces
  <2> HIDE DEF x
  <2> QED BY <1>3, <2>2, <2>3, <2>4 DEF DecType
<1>8. rdy' \in [Processes -> [Cores -> Nat]] /\ (\A q \in Processes \ {p} : rdy'[q] = rdy[q])
      /\ \A d \in Cores : rdy'[p][d] = 0
  <2>1. rdy' = [rdy EXCEPT ![p] = [rdy[p] EXCEPT ![c] = 0]]
    BY <1>1, <1>3, <1>4, Typing DEF TypeOK
  <2> QED BY <1>3, <1>4, <2>1, Typing DEF TypeOK
<1>9. Reserved(f) = {}
  BY <1>5 DEF OfDecoder
<1> HIDE DEF x, c
<1> QED BY <1>1, <1>2, <1>3, <1>4, <1>5, <1>6, <1>7, <1>8, <1>9, EntersRelease DEF Shut

\* At the end of a stream the cores reserved one by one are given back.
LEMMA ReleaseNextStep ==
  ASSUME TypeOK, CoresFit, NEW f \in Files, FileInv(f), ReleaseNext(f) PROVE Keeps(f)
<1> DEFINE p == Process[f]  got == Reserved(f)
           c == CHOOSE c \in got : \A d \in got : c <= d
           x == [dec[f] EXCEPT !.at = "back", !.got = got \ {c}]
<1>1. /\ dec[f].at \in {"all", "back"} /\ k[Dec(f)].at = "user" /\ ~killed[p]
  BY DEF ReleaseNext, Runs, At
<1>2. got = IF dec[f].at = "all" THEN dec[f].got \cup {k[Dec(f)].ret} ELSE dec[f].got
  <2>1. dec[f].at = "all" => k[Dec(f)].ret \in Cores
    BY <1>1 DEF FileInv, DecoderHas, At
  <2> QED BY <1>1, <2>1 DEF Reserved, At
<1>3. /\ (dec[f].at = "all" => got = Usable(f)) /\ got # {}
      /\ DecRelease(Dec(f), f, c)
      /\ dec' = [dec EXCEPT ![f].at = "back", ![f].got = got \ {c}]
      /\ UNCHANGED <<lis, rdy, callback, fd, b_stopped, killed, pics>>
  BY <1>2 DEF ReleaseNext
<1>4. got \subseteq Cores
  BY Typing DEF Reserved
<1> HIDE DEF got
<1>5. c \in got
  BY <1>3, <1>4, LowestCore
<1> HIDE DEF c
<1>6. /\ c \in Cores /\ dec_owner[c] = f /\ c \notin dec_irq /\ hw[c] = "idle" /\ c \notin OfListener(f)
      /\ lis[f].at = "again" => lis[f].regs # c
  BY <1>4, <1>5 DEF got, OfDecoder, FileInv, DecoderHas, Aborts
<1>7. dec' = [dec EXCEPT ![f] = x] /\ x \in DecType /\ x.at = "back" /\ x.got = got \ {c}
      /\ x.early = dec[f].early /\ x.format = dec[f].format
  BY <1>3, <1>4, Typing DEF TypeOK, DecType, DecPlaces
<1>8. f \in MultiCore /\ ~dec[f].early
  BY <1>1 DEF FileInv, InstanceFits
<1>9. Owned(f) \subseteq got
  <2>1. GivesBack(Dec(f)) = {}
    BY <1>1 DEF GivesBack, At
  <2> QED BY <1>1, <1>3, <2>1 DEF FileInv, OwnsOnly, OfDecoder, got, Shut
<1>10. got = Reserved(f)
  BY DEF got
<1>11. rdy' = rdy /\ rdy \in [Processes -> [Cores -> Nat]]
  BY <1>3 DEF TypeOK
<1> HIDE DEF x
<1> QED BY <1>1, <1>3, <1>5, <1>6, <1>7, <1>8, <1>9, <1>10, <1>11, EntersRelease DEF Shut

\* A killed decoding thread leaves its cores to Close.
LEMMA DecoderDiesStep ==
  ASSUME TypeOK, CoresFit, NEW f \in Files, FileInv(f), DecoderDies(f) PROVE Keeps(f)
<1>1. /\ dec' = [dec EXCEPT ![f] = Fresh("dead")]
      /\ UNCHANGED <<driver, lis, rdy, callback, fd, b_stopped, killed, pics>>
      /\ k[Dec(f)].at = "user" /\ killed[Process[f]] /\ dec[f].at \notin Shut
  BY DEF DecoderDies, At
<1>2. Fresh("dead") \in DecType
  BY CoreNumbers DEF Fresh, DecType, DecPlaces
<1>3. TypeOK'
  BY <1>1, <1>2, SameDriver DEF TypeOK
<1>4. /\ dec'[f].at = "dead" /\ dec'[f].got = {} /\ dec'[f].early = FALSE
      /\ UNCHANGED <<cfg, sem, dec_owner, dec_irq, hw, started, k>>
  BY <1>1, SameDriver DEF TypeOK, Fresh
<1>5. OwnStep(f)
  BY <1>1, <1>4, Typing DEF OwnStep, TypeOK
<1>6. ThreadsFit(f)' /\ InstanceFits(f)'
  BY <1>1, <1>4 DEF FileInv, ThreadsFit, InstanceFits, At, InReserve, Shut
<1>7. /\ Reserved(f)' = {} /\ GivesBack(Dec(f))' = {}
      /\ OfListener(f)' = OfListener(f) /\ Heard(f)' = Heard(f) /\ Owned(f)' = Owned(f)
  BY <1>1, <1>4 DEF Reserved, GivesBack, At, OfListener, Heard, Owned
<1>8. DecoderHas(f)' /\ ListenerHas(f)'
  BY <1>1, <1>4, <1>7 DEF FileInv, DecoderHas, ListenerHas, OfDecoder
<1>9. Aborts(f)' /\ DeadIsSilent(f)'
  BY <1>1, <1>4, <1>7 DEF FileInv, Aborts, DeadIsSilent, At, OfDecoder
<1>10. OwnsOnly(f)' /\ PostedWhenDone(f)'
  BY <1>1, <1>4 DEF OwnsOnly, PostedWhenDone, Shut
<1> QED BY <1>1, <1>3, <1>4, <1>5, <1>6, <1>8, <1>9, <1>10, SameDriver DEF FileInv, Keeps

\* The driver's release of a file frees the cores the file still owns.
LEMMA CloseStep ==
  ASSUME TypeOK, CoresFit, NEW f \in Files, FileInv(f), Close(f) PROVE Keeps(f)
<1> DEFINE p == Process[f]  S == Owned(f)  c == CHOOSE c \in S : \A d \in S : c <= d
<1>1. /\ dec[f].at \in {"drop", "closed", "dead"}
      /\ dec[f].at = "dead" => lis[f].at \in {"none", "end"}
      /\ \A t \in Threads : k[t].at # "user" => k[t].file # f
      /\ UNCHANGED <<lis, rdy, callback, fd, b_stopped, killed, pics>>
  BY DEF Close
<1>2. k[Dec(f)].at = "user" /\ k[Lis(f)].at = "user" /\ dec[f].got = {}
  BY <1>1, Typing DEF FileInv, ThreadsFit, At, InstanceFits
<1>3. CASE S = {}
  <2>1. dec' = [dec EXCEPT ![f].at = "gone"] /\ UNCHANGED driver
    BY <1>3 DEF Close, DecGoto
  <2>2. dec' = [dec EXCEPT ![f] = [dec[f] EXCEPT !.at = "gone"]] /\ [dec[f] EXCEPT !.at = "gone"] \in DecType
    BY <2>1, Typing DEF TypeOK, DecType, DecPlaces
  <2>3. TypeOK'
    BY <1>1, <2>1, <2>2, SameDriver DEF TypeOK
  <2>4. /\ dec'[f].at = "gone" /\ dec'[f].got = {} /\ dec'[f].early = dec[f].early
        /\ UNCHANGED <<cfg, sem, dec_owner, dec_irq, hw, started, k>>
    BY <1>2, <2>1, Typing, SameDriver DEF TypeOK, DecType
  <2>5. OwnStep(f)
    BY <1>1, <2>1, <2>4, Typing DEF OwnStep, TypeOK
  <2>6. ThreadsFit(f)' /\ InstanceFits(f)'
    BY <1>1, <1>2, <2>4 DEF FileInv, ThreadsFit, InstanceFits, At, InReserve
  <2>7. /\ Reserved(f)' = {} /\ GivesBack(Dec(f))' = {} /\ Owned(f)' = {}
        /\ OfListener(f)' = OfListener(f) /\ Heard(f)' = Heard(f)
    BY <1>1, <1>2, <1>3, <2>4 DEF Reserved, GivesBack, At, OfListener, Heard, Owned
  <2>8. DecoderHas(f)' /\ ListenerHas(f)'
    BY <1>1, <2>4, <2>7 DEF FileInv, DecoderHas, ListenerHas, OfDecoder
  <2>9. Aborts(f)' /\ DeadIsSilent(f)'
    <3>1. lis[f].at # "again"
      BY <1>3, Typing DEF FileInv, Aborts, Owned
    <3> QED BY <1>1, <2>7, <3>1 DEF Aborts, DeadIsSilent
  <2>10. OwnsOnly(f)'
    BY <2>4, <2>7 DEF OwnsOnly, Shut
  <2>11. PostedWhenDone(f)' /\ ~dec'[f].early
    BY <1>1, <2>4 DEF FileInv, PostedWhenDone
  <2> QED BY <2>1, <2>3, <2>5, <2>6, <2>8, <2>9, <2>10, <2>11, SameDriver DEF FileInv, Keeps
<1>4. CASE S # {}
  <2> DEFINE x == [dec[f] EXCEPT !.at = "drop"]
  <2>1. c \in S
    <3>1. S \subseteq Cores
      BY DEF Owned
    <3> HIDE DEF S
    <3> QED BY <1>4, <3>1, LowestCore
  <2>2. DecRelease(Dec(f), f, c) /\ dec' = [dec EXCEPT ![f].at = "drop"]
    BY <1>4 DEF Close, DecGoto
  <2> HIDE DEF c
  <2>3. c \in Cores /\ dec_owner[c] = f
    BY <2>1 DEF Owned
  <2>4. dec[f].at \in {"drop", "dead"} /\ killed[p] /\ lis[f].at \in {"none", "end"}
    BY <1>1, <1>4 DEF FileInv, OwnsOnly, InstanceFits
  <2>5. c \notin dec_irq
    BY <2>1, <2>4 DEF FileInv, DeadIsSilent
  <2>6. Reserved(f) = {} /\ OfListener(f) = {}
    BY <1>2, <2>4 DEF Reserved, OfListener, Heard, GivesBack, At
  <2>7. dec' = [dec EXCEPT ![f] = x] /\ x \in DecType /\ x.at = "drop" /\ x.got = {} /\ x.early = dec[f].early
    BY <1>2, <2>2, Typing DEF TypeOK, DecType, DecPlaces
  <2>8. ~dec[f].early /\ rdy' = rdy /\ rdy \in [Processes -> [Cores -> Nat]]
    BY <1>1 DEF FileInv, TypeOK
  <2> HIDE DEF x
  <2> QED BY <1>1, <2>2, <2>3, <2>4, <2>5, <2>6, <2>7, <2>8, EntersRelease
<1> QED BY <1>3, <1>4
-----------------------------------------------------------------------------
\* A step of the listener.
LEMMA ListenerMoves ==
  ASSUME TypeOK, HantroTypeOK', CoresFit', NEW f \in Files, FileInv(f),
         UNCHANGED <<cfg, dec_owner, dec_irq, started, dec, callback, fd, b_stopped, killed, pics>>,
         \A t \in Threads \ {Lis(f)} : k'[t] = k[t],
         \A d \in Cores \ Heard(f) : hw'[d] = hw[d], killed[Process[f]] => hw' = hw,
         rdy' \in [Processes -> [Cores -> Nat]],
         \A q \in Processes \ {Process[f]} : rdy'[q] = rdy[q],
         NEW y \in LisType, lis' = [lis EXCEPT ![f] = y], y.at # "none",
         lis[f].at \notin {"none", "end"}, y.at = "post" => f \in MultiCore,
         k'[Lis(f)].at # "user" => k'[Lis(f)].file = f,
         k'[Lis(f)].at \in {"user", "check", "wait", "release", "up"},
         k'[Lis(f)].at \in {"check", "wait"} => y.at \in {"irq", "again"},
         k'[Lis(f)].at \in {"release", "up"} => y.at = "post",
         OfListener(f)' \subseteq OfListener(f), ListenerHas(f)', Aborts(f)', PostedWhenDone(f)'
  PROVE  Keeps(f)
<1>1. lis'[f] = y /\ k'[Dec(f)] = k[Dec(f)] /\ dec' = dec
  BY Typing DEF TypeOK
<1>2. TypeOK'
  BY DEF TypeOK
<1>3. Heard(f) \subseteq Owned(f) /\ Heard(f) \cap OfDecoder(f) = {}
  BY DEF FileInv, ListenerHas, DecoderHas, OfListener, Owned, Heard
<1>4. OwnStep(f)
  <2>1. \A c \in Cores : hw'[c] = hw[c] \/ dec_owner[c] = f
    BY <1>3 DEF Owned
  <2> QED BY <1>1, <2>1, Typing DEF OwnStep, TypeOK
<1>5. ThreadsFit(f)'
  BY <1>1 DEF FileInv, ThreadsFit, At, InReserve
<1>6. InstanceFits(f)'
  BY <1>1 DEF FileInv, InstanceFits
<1>7. /\ Reserved(f)' = Reserved(f) /\ GivesBack(Dec(f))' = GivesBack(Dec(f)) /\ Owned(f)' = Owned(f)
      /\ OfDecoder(f)' = OfDecoder(f) /\ Usable(f)' = Usable(f)
  BY <1>1 DEF Reserved, GivesBack, At, OfDecoder, Owned, Usable
<1>8. \A c \in OfDecoder(f) : hw'[c] = hw[c]
  BY <1>3, Typing DEF OfDecoder, Reserved, GivesBack
<1>9. DecoderHas(f)'
  BY <1>1, <1>7, <1>8 DEF FileInv, DecoderHas, OfDecoder, At
<1>10. DeadIsSilent(f)'
  BY <1>7 DEF FileInv, DeadIsSilent
<1>11. OwnsOnly(f)'
  BY <1>1, <1>7 DEF FileInv, OwnsOnly
<1> QED BY <1>1, <1>2, <1>4, <1>5, <1>6, <1>9, <1>10, <1>11 DEF FileInv, Keeps

\* A single-core instance whose listener has a core waits for that core.
LEMMA WaitsForHeard ==
  ASSUME TypeOK, NEW f \in Files, FileInv(f), f \notin MultiCore, ~killed[Process[f]],
         NEW c \in OfListener(f)
  PROVE  dec[f].at = "wait" /\ dec[f].core = c /\ Owned(f) = {c}
<1>1. c \in Owned(f) /\ c \notin OfDecoder(f)
  BY DEF FileInv, ListenerHas, DecoderHas, OfListener, Heard, GivesBack, Owned
<1>2. dec[f].at = "wait"
  BY <1>1, Typing DEF FileInv, OwnsOnly, InstanceFits, DecPlaces
<1> QED BY <1>1, <1>2 DEF FileInv, OwnsOnly

\* A killed listener drops what it had heard.
LEMMA ListenerDiesStep ==
  ASSUME TypeOK, CoresFit, NEW f \in Files, FileInv(f), ListenerDies(f) PROVE Keeps(f)
<1> DEFINE y == Silent("end")
<1>1. /\ lis' = [lis EXCEPT ![f] = y] /\ UNCHANGED <<driver, dec, rdy, callback, fd, b_stopped, killed, pics>>
      /\ lis[f].at \notin {"none", "end"} /\ k[Lis(f)].at = "user" /\ killed[Process[f]]
  BY DEF ListenerDies, At
<1>2. y \in LisType /\ y.at = "end"
  BY CoreNumbers DEF Silent, LisType, LisPlaces
<1>3. /\ HantroTypeOK' /\ CoresFit' /\ UNCHANGED <<cfg, dec_owner, dec_irq, started, hw, k>>
      /\ lis'[f] = y /\ rdy' = rdy /\ rdy \in [Processes -> [Cores -> Nat]]
  BY <1>1, SameDriver DEF TypeOK
<1> HIDE DEF y
<1>4. Heard(f)' = {} /\ GivesBack(Lis(f))' = {} /\ OfListener(f)' = {}
  BY <1>1, <1>2, <1>3 DEF Heard, GivesBack, OfListener, At
<1>5. ListenerHas(f)' /\ Aborts(f)' /\ PostedWhenDone(f)'
  BY <1>1, <1>2, <1>3, <1>4 DEF ListenerHas, Aborts, PostedWhenDone
<1> QED BY <1>1, <1>2, <1>3, <1>4, <1>5, ListenerMoves

\* The listener asks the driver for the next core that is ready.
LEMMA ListenStep ==
  ASSUME TypeOK, CoresFit, NEW f \in Files, FileInv(f), Listen(f) PROVE Keeps(f)
<1> DEFINE p == Process[f]
<1>1. /\ lis[f].at \in {"loop", "irq"} /\ k[Lis(f)].at = "user" /\ ~killed[p]
      /\ lis[f].at = "irq" => k[Lis(f)].ret < 0
      /\ UNCHANGED <<dec, rdy, callback, fd, b_stopped, killed, pics>>
  BY DEF Listen, Hears, At
<1>2. fd[p] = f
  BY <1>1 DEF FileInv, InstanceFits
<1>3. Heard(f) = {}
  <2>1. lis[f].at = "irq" => k[Lis(f)].ret \notin Cores
    BY <1>1, Typing, CoreNumbers
  <2> QED BY <1>1, <2>1 DEF Heard
<1>4. PICK place \in {"end", "loop", "irq"} :
        /\ lis' = [lis EXCEPT ![f].at = place]
        /\ IF place = "irq" THEN CoreWait(Lis(f), f) ELSE UNCHANGED driver
  BY <1>2 DEF Listen, LisGoto
<1> DEFINE y == [lis[f] EXCEPT !.at = place]
<1>5. lis' = [lis EXCEPT ![f] = y] /\ y \in LisType /\ y.at = place /\ lis'[f] = y
  BY <1>4, Typing DEF TypeOK, LisType, LisPlaces
<1>6. /\ HantroTypeOK' /\ CoresFit' /\ UNCHANGED <<cfg, dec_owner, dec_irq, started, hw>>
      /\ \A t \in Threads \ {Lis(f)} : k'[t] = k[t]
      /\ IF place = "irq" THEN k'[Lis(f)].at = "check" /\ k'[Lis(f)].file = f ELSE k'[Lis(f)].at = "user"
  <2>1. CASE place = "irq"
    <3>1. Lis(f) \in Threads /\ "check" \in Places /\ 0 \in Cores /\ NoFile \in Formats \cup {NoFile}
          /\ Call(Lis(f), "check", f, NoFile, 0)
      BY <1>4, <2>1, Typing, CoreNumbers DEF Places, CoreWait
    <3> QED BY <2>1, <3>1, CallStep
  <2>2. CASE place # "irq"
    BY <1>1, <1>4, <2>2, SameDriver
  <2> QED BY <2>1, <2>2
<1> HIDE DEF y
<1>7. Heard(f)' = {} /\ GivesBack(Lis(f))' = {} /\ OfListener(f)' = {}
  BY <1>5, <1>6 DEF Heard, GivesBack, OfListener, At
<1>8. ListenerHas(f)' /\ Aborts(f)'
  BY <1>5, <1>7 DEF ListenerHas, Aborts
<1>9. PostedWhenDone(f)'
  BY <1>1, <1>5, <1>6, <1>7 DEF FileInv, PostedWhenDone
<1>10. rdy' = rdy /\ rdy \in [Processes -> [Cores -> Nat]]
  BY <1>1 DEF TypeOK
<1> QED BY <1>1, <1>5, <1>6, <1>7, <1>8, <1>9, <1>10, ListenerMoves

\* The listener reads the status of the core it was told of, which may have timed out.
LEMMA ReadStatusStep ==
  ASSUME TypeOK, CoresFit, NEW f \in Files, FileInv(f), ReadStatus(f) PROVE Keeps(f)
<1> DEFINE p == Process[f]  c == k[Lis(f)].ret
<1>1. /\ lis[f].at = "irq" /\ k[Lis(f)].at = "user" /\ ~killed[p] /\ c >= 0
      /\ UNCHANGED <<dec, rdy, callback, fd, b_stopped, killed, pics>>
  BY DEF ReadStatus, Hears, At
<1>2. fd[p] = f
  BY <1>1 DEF FileInv, InstanceFits
<1>3. c \in Cores /\ Heard(f) = {c} /\ GivesBack(Lis(f)) = {}
  BY <1>1, Typing, CoreNumbers DEF Heard, GivesBack, At
<1>4. c \in OfListener(f) /\ dec_owner[c] = f /\ c \notin dec_irq /\ hw[c] \in {"idle", "hung"} /\ c \notin OfDecoder(f)
  BY <1>3 DEF FileInv, ListenerHas, OfListener, DecoderHas
<1>5. rdy' = rdy /\ rdy \in [Processes -> [Cores -> Nat]]
  BY <1>1 DEF TypeOK
<1>6. PICK y \in LisType :
        /\ lis' = [lis EXCEPT ![f] = y]
        /\ \/ y.at = "end" /\ UNCHANGED driver
           \/ y.at = "again" /\ y.regs = c /\ hw[c] = "hung" /\ AbortAndWait(Lis(f), f, c)
           \/ y.at = "pull" /\ y.core = c /\ hw[c] = "idle" /\ UNCHANGED driver
  <2>1. [lis[f] EXCEPT !.at = "end"] \in LisType /\ [lis[f] EXCEPT !.at = "end"].at = "end"
    BY Typing DEF LisType, LisPlaces
  <2>2. [at |-> "again", core |-> c, regs |-> c] \in LisType /\ [at |-> "pull", core |-> c, regs |-> c] \in LisType
    BY <1>3 DEF LisType, LisPlaces
  <2>3. LisGoto(f, "end") => lis' = [lis EXCEPT ![f] = [lis[f] EXCEPT !.at = "end"]]
    BY DEF LisGoto, TypeOK
  <2> HIDE DEF c
  <2> QED BY <1>2, <1>4, <2>1, <2>2, <2>3 DEF ReadStatus, c
<1> HIDE DEF c
<1>7. lis'[f] = y
  BY <1>6 DEF TypeOK
<1>8. CASE UNCHANGED driver /\ (y.at = "end" \/ (y.at = "pull" /\ y.core = c /\ hw[c] = "idle"))
  <2>1. HantroTypeOK' /\ CoresFit' /\ UNCHANGED <<cfg, dec_owner, dec_irq, started, hw, k>>
    BY <1>8, SameDriver
  <2>2. Heard(f)' \subseteq {c} /\ GivesBack(Lis(f))' = {} /\ OfListener(f)' \subseteq {c}
    BY <1>1, <1>7, <1>8, <2>1 DEF Heard, GivesBack, At, OfListener
  <2>3. ListenerHas(f)' /\ Aborts(f)'
    BY <1>3, <1>4, <1>7, <1>8, <2>1, <2>2 DEF ListenerHas, Aborts
  <2>4. PostedWhenDone(f)'
    BY <1>1, <1>3, <1>7, <1>8, <2>1, <2>2 DEF FileInv, PostedWhenDone
  <2> QED BY <1>1, <1>4, <1>5, <1>6, <1>8, <2>1, <2>2, <2>3, <2>4, ListenerMoves
<1>9. CASE y.at = "again" /\ y.regs = c /\ hw[c] = "hung" /\ AbortAndWait(Lis(f), f, c)
  <2>1. HantroTypeOK'
    BY <1>3, <1>9, Typing, CallTypes
  <2>2. /\ hw' = [hw EXCEPT ![c] = "stop"] /\ UNCHANGED <<cfg, dec_owner, dec_irq, started>>
        /\ k'[Lis(f)].at = "check" /\ k'[Lis(f)].file = f /\ k'[Lis(f)].core = 0
        /\ \A t \in Threads \ {Lis(f)} : k'[t] = k[t]
    BY <1>9, Typing DEF AbortAndWait, User, TypeOK, HantroTypeOK
  <2>3. hw'[c] = "stop" /\ \A d \in Cores \ {c} : hw'[d] = hw[d]
    BY <1>3, <2>2 DEF TypeOK, HantroTypeOK
  <2>4. CoresFit'
    BY <1>3, <1>4, <1>9, <2>2, <2>3, HantroAssumption DEF CoresFit, CoreFits
  <2>5. Heard(f)' = {} /\ GivesBack(Lis(f))' = {} /\ OfListener(f)' = {}
    BY <1>7, <1>9, <2>2 DEF Heard, GivesBack, At, OfListener
  <2>6. ListenerHas(f)'
    BY <1>7, <1>9, <2>5 DEF ListenerHas
  <2>7. OfDecoder(f)' = OfDecoder(f)
    BY <1>1, <2>2, Typing, ThreadNames DEF OfDecoder, Reserved, GivesBack, At
  <2>8. Aborts(f)'
    BY <1>3, <1>4, <1>7, <1>9, <2>2, <2>3, <2>7, CoreNumbers DEF Aborts, At
  <2>9. PostedWhenDone(f)'
    <3>1. f \notin MultiCore => \A d \in Cores : rdy[p][d] = 0
      BY <1>1, <1>3, <1>4, WaitsForHeard DEF FileInv, PostedWhenDone
    <3> QED BY <1>1, <3>1 DEF PostedWhenDone
  <2>10. /\ UNCHANGED <<cfg, dec_owner, dec_irq, started, dec, callback, fd, b_stopped, killed, pics>>
         /\ \A t \in Threads \ {Lis(f)} : k'[t] = k[t]
         /\ \A d \in Cores \ Heard(f) : hw'[d] = hw[d]
         /\ k'[Lis(f)].at = "check" /\ k'[Lis(f)].file = f
    BY <1>1, <1>3, <2>2, <2>3
  <2>11. y \in LisType /\ lis' = [lis EXCEPT ![f] = y] /\ y.at = "again" /\ lis[f].at = "irq" /\ ~killed[p]
    BY <1>1, <1>6, <1>9
  <2>12. OfListener(f)' \subseteq OfListener(f) /\ (killed[p] => hw' = hw)
    BY <2>5, <2>11
  <2> QED BY <1>5, <2>1, <2>4, <2>6, <2>8, <2>9, <2>10, <2>11, <2>12, ListenerMoves
<1> QED BY <1>6, <1>8, <1>9

\* The listener has stopped a core that ran out of time.
LEMMA AbortedStep ==
  ASSUME TypeOK, CoresFit, NEW f \in Files, FileInv(f), Aborted(f) PROVE Keeps(f)
<1> DEFINE p == Process[f]  c == k[Lis(f)].ret  y == [lis[f] EXCEPT !.at = "pull", !.core = c]
<1>1. /\ lis[f].at = "again" /\ k[Lis(f)].at = "user" /\ ~killed[p]
      /\ lis' = [lis EXCEPT ![f].at = "pull", ![f].core = c]
      /\ UNCHANGED <<driver, dec, rdy, callback, fd, b_stopped, killed, pics>>
  BY DEF Aborted, Hears, At
<1>2. c \in Cores /\ dec_owner[lis[f].regs] = f /\ hw[lis[f].regs] \in {"stop", "irq", "idle"}
  BY <1>1 DEF FileInv, Aborts, At
<1>3. Heard(f) = {c} /\ GivesBack(Lis(f)) = {} /\ c \in OfListener(f)
  BY <1>1, <1>2 DEF Heard, GivesBack, OfListener, At
<1>4. y \in LisType /\ y.at = "pull" /\ y.core = c /\ lis' = [lis EXCEPT ![f] = y] /\ lis'[f] = y
  BY <1>1, <1>2, Typing DEF TypeOK, LisType, LisPlaces
<1>5. f \notin MultiCore => hw[c] = "idle"
  <2>1. f \notin MultiCore => lis[f].regs = c
    <3>1. lis[f].regs \in Owned(f)
      BY <1>2, Typing DEF Owned
    <3> QED BY <1>1, <1>3, <3>1, WaitsForHeard
  <2> QED BY <1>2, <1>3, <2>1 DEF FileInv, ListenerHas
<1>6. HantroTypeOK' /\ CoresFit' /\ UNCHANGED <<cfg, dec_owner, dec_irq, started, hw, k>>
  BY <1>1, SameDriver
<1> HIDE DEF c, y
<1>7. Heard(f)' = {c} /\ GivesBack(Lis(f))' = {} /\ OfListener(f)' = {c} /\ OfListener(f) = {c}
  BY <1>1, <1>2, <1>3, <1>4, <1>6 DEF Heard, GivesBack, OfListener, At
<1>8. ListenerHas(f)' /\ Aborts(f)'
  BY <1>2, <1>4, <1>5, <1>6, <1>7 DEF FileInv, ListenerHas, Aborts
<1>9. PostedWhenDone(f)'
  BY <1>1, <1>3, <1>4, <1>6, <1>7 DEF FileInv, PostedWhenDone
<1>10. rdy' = rdy /\ rdy \in [Processes -> [Cores -> Nat]]
  BY <1>1 DEF TypeOK
<1> QED BY <1>1, <1>4, <1>6, <1>7, <1>8, <1>9, <1>10, ListenerMoves

\* The semaphore is posted, by CallBack on one core and by PostReady on several.
LEMMA PostStep ==
  ASSUME TypeOK, CoresFit, NEW f \in Files, FileInv(f), Post(f), k[Lis(f)].at = "user", ~killed[Process[f]],
         \/ lis[f].at = "pull"
         \/ lis[f].at = "post" /\ f \in MultiCore,
         UNCHANGED <<dec, callback, fd, b_stopped, killed, pics>>
  PROVE  Keeps(f)
<1> DEFINE p == Process[f]  c == lis[f].core  y == Silent("loop")
<1>1. c \in Cores
  BY DEF FileInv, ListenerHas
<1>2. /\ rdy' = [rdy EXCEPT ![p] = [rdy[p] EXCEPT ![c] = rdy[p][c] + 1]]
      /\ lis' = [lis EXCEPT ![f] = y] /\ UNCHANGED driver
  BY <1>1, Typing DEF Post, TypeOK
<1>3. y \in LisType /\ y.at = "loop" /\ lis'[f] = y
  BY <1>2, CoreNumbers DEF TypeOK, LisType, LisPlaces, Silent
<1>4. HantroTypeOK' /\ CoresFit' /\ UNCHANGED <<cfg, dec_owner, dec_irq, started, hw, k>>
  BY <1>2, SameDriver
<1>5. /\ rdy' \in [Processes -> [Cores -> Nat]] /\ \A q \in Processes \ {p} : rdy'[q] = rdy[q]
      /\ \A d \in Cores : rdy'[p][d] = IF d = c THEN rdy[p][d] + 1 ELSE rdy[p][d]
  BY <1>1, <1>2, Typing DEF TypeOK
<1> HIDE DEF c, y
<1>6. Heard(f)' = {} /\ GivesBack(Lis(f))' = {} /\ OfListener(f)' = {}
  BY <1>3, <1>4 DEF Heard, GivesBack, OfListener, At
<1>7. ListenerHas(f)' /\ Aborts(f)'
  BY <1>3, <1>6 DEF ListenerHas, Aborts
<1>8. PostedWhenDone(f)'
  <2>1. SUFFICES ASSUME f \notin MultiCore, lis[f].at = "pull" PROVE PostedWhenDone(f)'
    BY DEF PostedWhenDone
  <2>2. c \in Heard(f) /\ c \in OfListener(f)
    BY <1>1, <2>1 DEF Heard, OfListener, c
  <2>3. dec[f].at = "wait" /\ dec[f].core = c /\ hw[c] = "idle" /\ c \notin dec_irq
    <3>1. hw[c] = "idle" /\ c \notin dec_irq
      BY <2>1, <2>2 DEF FileInv, ListenerHas, c
    <3> QED BY <2>1, <2>2, <3>1, WaitsForHeard
  <2>4. \A d \in Cores : rdy[p][d] = 0
    BY <2>1, <2>2, <2>3 DEF FileInv, PostedWhenDone
  <2> QED BY <1>3, <1>4, <1>5, <1>6, <2>3, <2>4 DEF PostedWhenDone
<1> QED BY <1>2, <1>3, <1>4, <1>5, <1>6, <1>7, <1>8, ListenerMoves

\* The listener tells the decoder: by its callback, or by the semaphore of the core.
LEMMA CallBackSteps ==
  ASSUME TypeOK, CoresFit, NEW f \in Files, FileInv(f), CallBack(f) \/ PostReady(f) PROVE Keeps(f)
<1> DEFINE p == Process[f]  c == lis[f].core  g == callback[p][c]
           y == [lis[f] EXCEPT !.at = "post"]
<1>1. CASE PostReady(f)
  BY <1>1, PostStep DEF PostReady, Hears, At, FileInv, InstanceFits
<1>2. CASE CallBack(f) /\ g = NoFile
  BY <1>2, PostStep DEF CallBack, Hears, At
<1>3. CASE CallBack(f) /\ g # NoFile
  <2>1. /\ lis[f].at = "pull" /\ k[Lis(f)].at = "user" /\ ~killed[p]
        /\ UNCHANGED <<rdy, dec, callback, fd, b_stopped, killed, pics>>
        /\ lis' = [lis EXCEPT ![f].at = "post"] /\ DecRelease(Lis(f), g, c)
    BY <1>3 DEF CallBack, Hears, At, LisGoto
  <2>2. c \in Cores /\ f \in MultiCore /\ g = f
    <3>1. c \in Cores
      BY <2>1 DEF FileInv, ListenerHas
    <3> QED BY <1>3, <3>1 DEF FileInv, InstanceFits
  <2>3. Heard(f) = {c} /\ GivesBack(Lis(f)) = {} /\ OfListener(f) = {c}
    BY <2>1, <2>2 DEF Heard, GivesBack, OfListener, At
  <2>4. dec_owner[c] = f /\ c \notin dec_irq /\ hw[c] \in {"idle", "hung"}
    BY <2>3 DEF FileInv, ListenerHas
  <2>5. /\ HantroTypeOK' /\ CoresFit'
        /\ UNCHANGED <<cfg, dec_owner, dec_irq, hw, started>>
        /\ k'[Lis(f)].at = "release" /\ k'[Lis(f)].file = f /\ k'[Lis(f)].core = c
        /\ \A s \in Threads \ {Lis(f)} : k'[s] = k[s]
    <3> HIDE DEF c, g
    <3> QED BY <2>1, <2>2, <2>4, Typing, ReleaseCall
  <2>6. lis' = [lis EXCEPT ![f] = y] /\ y \in LisType /\ y.at = "post" /\ y.core = c /\ lis'[f] = y
    BY <2>1, Typing DEF TypeOK, LisType, LisPlaces
  <2> HIDE DEF c, g, y
  <2>7. Heard(f)' = {} /\ GivesBack(Lis(f))' = {c} /\ OfListener(f)' = {c}
    BY <2>2, <2>5, <2>6 DEF Heard, GivesBack, OfListener, At
  <2>8. ListenerHas(f)' /\ Aborts(f)' /\ PostedWhenDone(f)'
    BY <2>2, <2>4, <2>5, <2>6, <2>7 DEF ListenerHas, Aborts, PostedWhenDone
  <2>9. rdy' = rdy /\ rdy \in [Processes -> [Cores -> Nat]]
    BY <2>1 DEF TypeOK
  <2> QED BY <2>1, <2>2, <2>3, <2>5, <2>6, <2>7, <2>8, <2>9, ListenerMoves
<1> QED BY <1>1, <1>2, <1>3
-----------------------------------------------------------------------------
(* Steps inside the driver that move no core.                                *)

\* A wake-up moves a sleeping thread to its next look, and nothing else.
LEMMA WokenMoves ==
  ASSUME NEW kk \in [Threads -> IoctlType], NEW t \in Threads, NEW dead
  PROVE  /\ Moves(kk[t], WakeHwQueue(kk)[t], dead)
         /\ Moves(kk[t], WakeDecWaitQueue(kk)[t], dead)
         /\ Moves(kk[t], WakeDecWaitQueue(WakeHwQueue(kk))[t], dead)
<1>1. \/ kk[t].at \notin {"sleep", "get"} /\ WakeHwQueue(kk)[t] = kk[t]
      \/ kk[t].at = "sleep" /\ WakeHwQueue(kk)[t] = [kk[t] EXCEPT !.at = "get", !.core = 0, !.woken = FALSE, !.found = FALSE]
      \/ kk[t].at = "get" /\ WakeHwQueue(kk)[t] = [kk[t] EXCEPT !.woken = TRUE]
  BY DEF WakeHwQueue, Woken
<1>2. ASSUME NEW k2 \in [Threads -> IoctlType]
      PROVE \/ WakeDecWaitQueue(k2)[t] = k2[t]
            \/ k2[t].at = "wait" /\ WakeDecWaitQueue(k2)[t] = [k2[t] EXCEPT !.at = "check", !.core = 0, !.woken = FALSE, !.found = FALSE]
            \/ k2[t].at = "check" /\ WakeDecWaitQueue(k2)[t] = [k2[t] EXCEPT !.woken = TRUE]
  BY DEF WakeDecWaitQueue, Woken
<1>3. ASSUME NEW x \in IoctlType
      PROVE  /\ Moves(x, x, dead)
             /\ x.at = "sleep" => Moves(x, [x EXCEPT !.at = "get", !.core = 0, !.woken = FALSE, !.found = FALSE], dead)
             /\ x.at = "wait" => Moves(x, [x EXCEPT !.at = "check", !.core = 0, !.woken = FALSE, !.found = FALSE], dead)
             /\ Moves(x, [x EXCEPT !.woken = TRUE], dead)
  <2>1. Moves(x, x, dead)
    BY DEF Moves
  <2>2. Moves(x, [x EXCEPT !.woken = TRUE], dead)
    BY DEF IoctlType, Moves
  <2>3. x.at = "sleep" => Moves(x, [x EXCEPT !.at = "get", !.core = 0, !.woken = FALSE, !.found = FALSE], dead)
    BY DEF IoctlType, Moves, Classes
  <2>4. x.at = "wait" => Moves(x, [x EXCEPT !.at = "check", !.core = 0, !.woken = FALSE, !.found = FALSE], dead)
    BY DEF IoctlType, Moves, Classes
  <2> QED BY <2>1, <2>2, <2>3, <2>4
<1>4. WakeHwQueue(kk) \in [Threads -> IoctlType]
  BY WokenTypes DEF WakeHwQueue, Places
<1>5. kk[t].at \in {"sleep", "get"} => WakeHwQueue(kk)[t].at = "get"
  BY <1>1 DEF IoctlType
<1>6. WakeHwQueue(kk)[t].at = "get" => WakeDecWaitQueue(WakeHwQueue(kk))[t] = WakeHwQueue(kk)[t]
  BY <1>2, <1>4
<1>7. kk[t].at \notin {"sleep", "get"} => WakeHwQueue(kk)[t] = kk[t]
  BY <1>1
<1> HIDE DEF Moves
<1>8. Moves(kk[t], WakeHwQueue(kk)[t], dead) /\ Moves(kk[t], WakeDecWaitQueue(kk)[t], dead)
  BY <1>1, <1>2, <1>3
<1>9. CASE kk[t].at \in {"sleep", "get"}
  BY <1>5, <1>6, <1>8, <1>9
<1>10. CASE kk[t].at \notin {"sleep", "get"}
  BY <1>2, <1>3, <1>4, <1>7, <1>8, <1>10
<1> QED BY <1>8, <1>9, <1>10

\* Only the ioctls go on.
LEMMA QuietStep ==
  ASSUME CoreInv, HantroTypeOK', UNCHANGED dwl, UNCHANGED <<cfg, dec_owner, dec_irq, hw, started>>,
         \A f \in Files, t \in Threads : t \in {Dec(f), Lis(f)} => Moves(k[t], k'[t], killed[Process[f]])
  PROVE  CoreInv'
<1>1. TypeOK'
  BY DEF CoreInv, TypeOK, dwl
<1>2. CoresFit'
  BY DEF CoreInv, CoresFit, CoreFits
<1>3. ASSUME NEW f \in Files PROVE FileInv(f)'
  <2>1. SameInstance(f)
    BY Typing DEF CoreInv, SameInstance, dwl
  <2>2. SameCores(f)
    BY DEF SameCores
  <2> QED BY <2>1, <2>2, Frame DEF CoreInv
<1> QED BY <1>1, <1>2, <1>3 DEF CoreInv

\* Waiting for a unit, not finding a core and giving the unit back move no core.
LEMMA QuietSteps ==
  ASSUME CoreInv, UNCHANGED dwl, NEW t \in Threads, Down(t) \/ GetDecCoreFails(t) \/ ReleaseUp(t)
  PROVE  CoreInv'
<1>1. HantroTypeOK'
  BY KernelTypes DEF Kernel, CoreInv
<1>2. k \in [Threads -> IoctlType] /\ k[t] \in IoctlType
  BY DEF CoreInv, TypeOK, HantroTypeOK
<1>3. UNCHANGED <<cfg, dec_owner, dec_irq, hw, started>>
  BY DEF Down, GetDecCoreFails, ReleaseUp
<1>4. ASSUME NEW s \in Threads, NEW dead PROVE Moves(k[s], k'[s], dead)
  <2>1. Moves(k[s], k[s], dead)
    BY DEF Moves
  <2>2. CASE Down(t)
    BY <1>2, <2>1, <2>2 DEF Down, Moves, Classes, At, IoctlType
  <2>3. CASE GetDecCoreFails(t)
    <3>1. PICK x \in {[k[t] EXCEPT !.core = k[t].core + 1],
                      [k[t] EXCEPT !.at = "get", !.core = 0, !.woken = FALSE, !.found = FALSE],
                      [k[t] EXCEPT !.at = "sleep"]} : k[t].at = "get" /\ k' = [k EXCEPT ![t] = x]
      BY <1>2, <2>3 DEF GetDecCoreFails, Again, At
    <3>2. x.at \in {"get", "sleep"} /\ x.file = k[t].file /\ x.format = k[t].format /\ x.ret = k[t].ret
      BY <1>2, <3>1 DEF IoctlType
    <3>3. Moves(k[t], k'[t], dead)
      BY <1>2, <3>1, <3>2 DEF Moves, Classes
    <3> QED BY <1>2, <2>1, <3>1, <3>3
  <2>4. CASE ReleaseUp(t)
    <3> DEFINE kk == [k EXCEPT ![t] = User]
    <3>1. kk \in [Threads -> IoctlType]
      BY <1>2, IoctlTypes
    <3>2. k' = WakeDecWaitQueue(WakeHwQueue(kk))
      BY <2>4 DEF ReleaseUp
    <3>3. Moves(kk[s], k'[s], dead)
      BY <3>1, <3>2, WokenMoves
    <3>4. CASE s = t
      <4>1. kk[s].at = "user" /\ k[s].at = "up"
        BY <1>2, <2>4, <3>4 DEF User, ReleaseUp, At
      <4> HIDE DEF kk
      <4>2. k'[s].at = "user"
        BY <3>3, <4>1 DEF Moves, Classes
      <4> QED BY <4>1, <4>2 DEF Moves
    <3>5. CASE s # t
      BY <1>2, <3>3, <3>5
    <3> QED BY <3>4, <3>5
  <2> QED BY <2>2, <2>3, <2>4
<1> QED BY <1>1, <1>3, <1>4, QuietStep

\* A signal ends a wait; the call returns no core.
LEMMA SignalledStep ==
  ASSUME CoreInv, NEW f \in Files, Signalled(f) PROVE CoreInv'
<1>1. PICK t \in {Dec(f), Lis(f)} : Interrupted(t)
  BY DEF Signalled
<1>2. killed[Process[f]] /\ UNCHANGED dwl /\ t \in Threads /\ k \in [Threads -> IoctlType]
  BY ThreadNames DEF Signalled, CoreInv, TypeOK, HantroTypeOK
<1>3. HantroTypeOK' /\ UNCHANGED <<cfg, dec_owner, dec_irq, hw, started>>
  BY <1>1, <1>2, KernelTypes DEF CoreInv, Interrupted
<1>4. /\ k[t].at \in {"down", "sleep", "wait"} /\ k'[t].at = "user" /\ k'[t].ret \notin Cores
      /\ \A s \in Threads \ {t} : k'[s] = k[s]
  BY <1>1, <1>2, CoreNumbers DEF Interrupted, Return, User
<1>5. ASSUME NEW g \in Files, NEW s \in Threads, s \in {Dec(g), Lis(g)}
      PROVE  Moves(k[s], k'[s], killed[Process[g]])
  <2>1. CASE s = t
    <3>1. g = f
      BY <1>5, <2>1, ThreadNames
    <3> QED BY <1>2, <1>4, <2>1, <3>1 DEF Moves
  <2>2. CASE s # t
    BY <1>4, <2>2 DEF Moves
  <2> QED BY <2>1, <2>2
<1> QED BY <1>2, <1>3, <1>5, QuietStep
-----------------------------------------------------------------------------
(* Steps inside the driver that reserve a core, release one, or report one.  *)

\* A step of the driver leaves the wrapper layer alone.
LEMMA DwlSame ==
  ASSUME TypeOK, HantroTypeOK', UNCHANGED dwl
  PROVE  /\ TypeOK'
         /\ UNCHANGED <<dec, lis, rdy, callback, fd, killed>>
BY DEF TypeOK, dwl

\* ReserveDecoder gives a free core to the file that waits.
LEMMA GetDecCoreStep ==
  ASSUME TypeOK, CoresFit, NEW f \in Files, FileInv(f), NEW t \in {Dec(f), Lis(f)},
         GetDecCore(t), UNCHANGED dwl
  PROVE  Keeps(f)
<1> DEFINE c == k[t].core  p == Process[f]
<1>1. /\ t = Dec(f) /\ k[t].at = "get" /\ t \in Threads /\ c \in Cores /\ k[t].file = f
      /\ dec[f].at \in {"reserve", "all"} /\ k[t].format = dec[f].format
  <2>1. k[t].at = "get"
    BY DEF GetDecCore, At
  <2> QED BY <2>1, Typing DEF FileInv, ThreadsFit, InReserve, At
<1>2. /\ dec_owner[c] = NoFile /\ dec[f].format \in cfg[c]
      /\ dec_owner' = [dec_owner EXCEPT ![c] = f]
      /\ k' = [k EXCEPT ![t] = [User EXCEPT !.ret = c]]
      /\ UNCHANGED <<cfg, sem, dec_irq, hw, started>>
  BY <1>1 DEF GetDecCore, Available, Return
<1>3. HantroTypeOK'
  BY <1>1, KernelTypes DEF Kernel
<1>4. TypeOK' /\ UNCHANGED <<dec, lis, rdy, callback, fd, killed>>
  BY <1>3, DwlSame
<1> HIDE DEF c
<1>5. /\ dec_owner'[c] = f /\ \A d \in Cores \ {c} : dec_owner'[d] = dec_owner[d]
      /\ k'[Dec(f)].at = "user" /\ k'[Dec(f)].ret = c
      /\ \A s \in Threads \ {Dec(f)} : k'[s] = k[s]
  BY <1>1, <1>2 DEF TypeOK, HantroTypeOK, User
<1>6. hw[c] = "idle" /\ c \notin dec_irq
  BY <1>1, <1>2 DEF CoresFit, CoreFits
<1>7. OwnStep(f)
  BY <1>1, <1>2, <1>4, <1>5 DEF OwnStep
<1>8. CoresFit'
  BY <1>2, <1>5, <1>6, <1>1 DEF CoresFit, CoreFits
<1>9. k'[Lis(f)] = k[Lis(f)]
  BY <1>5, Typing
<1>10. ThreadsFit(f)' /\ InstanceFits(f)'
  <2>1. ThreadsFit(f)'
    BY <1>4, <1>5, <1>9 DEF FileInv, ThreadsFit, At, InReserve
  <2> QED BY <1>4, <2>1 DEF FileInv, InstanceFits
<1>11. /\ GivesBack(Dec(f)) = {} /\ GivesBack(Dec(f))' = {} /\ Owned(f)' = Owned(f) \cup {c}
       /\ Usable(f)' = Usable(f) /\ c \in Usable(f) /\ c \notin Owned(f)
  <2>1. GivesBack(Dec(f)) = {} /\ GivesBack(Dec(f))' = {}
    BY <1>1, <1>5 DEF GivesBack, At
  <2>2. Owned(f)' = Owned(f) \cup {c} /\ c \notin Owned(f)
    BY <1>1, <1>2, <1>5, HantroAssumption DEF Owned
  <2> QED BY <1>1, <1>2, <1>4, <2>1, <2>2 DEF Usable
<1>12. /\ Reserved(f)' = Reserved(f) \cup {c} /\ Heard(f)' = Heard(f) /\ OfListener(f)' = OfListener(f)
  <2>1. Reserved(f) = dec[f].got
    BY <1>1 DEF Reserved, At
  <2>2. Reserved(f)' = dec[f].got \cup {c}
    BY <1>1, <1>4, <1>5 DEF Reserved, At
  <2> QED BY <1>4, <1>9, <2>1, <2>2 DEF Heard, OfListener, GivesBack, At
<1>13. OfDecoder(f)' = OfDecoder(f) \cup {c} /\ OfListener(f) \subseteq Owned(f) /\ OfDecoder(f) \subseteq Owned(f)
  <2>1. OfListener(f) \subseteq Cores /\ OfDecoder(f) \subseteq Cores
    BY Typing DEF OfListener, Heard, GivesBack, OfDecoder, Reserved
  <2> QED BY <1>11, <1>12, <2>1 DEF OfDecoder, FileInv, ListenerHas, DecoderHas, Owned
<1>14. DecoderHas(f)'
  <2>1. OfDecoder(f)' \cap OfListener(f)' = {}
    BY <1>11, <1>12, <1>13 DEF FileInv, DecoderHas
  <2>2. \A d \in OfDecoder(f)' : dec_owner'[d] = f /\ d \notin dec_irq'
    BY <1>2, <1>5, <1>6, <1>11, <1>13 DEF FileInv, DecoderHas, Owned
  <2> QED BY <1>1, <1>2, <1>4, <1>5, <1>6, <1>11, <1>12, <2>1, <2>2 DEF FileInv, DecoderHas
<1>15. ListenerHas(f)'
  <2>1. \A d \in OfListener(f) : dec_owner'[d] = f
    BY <1>5, <1>11, <1>13 DEF Owned
  <2> QED BY <1>2, <1>4, <1>12, <2>1 DEF FileInv, ListenerHas
<1>16. Aborts(f)'
  <2>1. lis[f].at = "again" => lis[f].regs # c /\ lis[f].regs \in Cores
    BY <1>2, Typing, HantroAssumption DEF FileInv, Aborts
  <2> QED BY <1>2, <1>4, <1>5, <1>9, <1>13, <2>1 DEF FileInv, Aborts, At
<1>17. DeadIsSilent(f)'
  BY <1>2, <1>4, <1>6, <1>11 DEF FileInv, DeadIsSilent
<1>18. OwnsOnly(f)'
  BY <1>1, <1>4, <1>11, <1>13 DEF FileInv, OwnsOnly
<1>19. PostedWhenDone(f)' /\ ~dec'[f].early
  BY <1>1, <1>4 DEF FileInv, PostedWhenDone
<1> QED BY <1>4, <1>7, <1>8, <1>10, <1>14, <1>15, <1>16, <1>17, <1>18, <1>19 DEF FileInv, Keeps

\* ReleaseDecoder takes the core from its owner.
LEMMA ReleaseCoreStep ==
  ASSUME TypeOK, CoresFit, NEW f \in Files, FileInv(f), NEW t \in {Dec(f), Lis(f)},
         ReleaseCore(t), UNCHANGED dwl
  PROVE  Keeps(f)
<1> DEFINE c == k[t].core  p == Process[f]
<1>1. k[t].at = "release" /\ t \in Threads /\ c \in Cores /\ k[t].file = f
  <2>1. k[t].at = "release"
    BY DEF ReleaseCore, At
  <2> QED BY <2>1, Typing DEF FileInv, ThreadsFit, At
<1>2. /\ hw' = [hw EXCEPT ![c] = IF Busy(c) THEN "idle" ELSE hw[c]]
      /\ dec_owner' = [dec_owner EXCEPT ![c] = NoFile] /\ started' = [started EXCEPT ![c] = NoFile]
      /\ k' = [k EXCEPT ![t].at = "up"] /\ UNCHANGED <<cfg, sem, dec_irq>>
  BY <1>1 DEF ReleaseCore, Goto
<1>3. TypeOK' /\ UNCHANGED <<dec, lis, rdy, callback, fd, killed>>
  BY <1>1, KernelTypes, DwlSame DEF Kernel
<1>4. c \in GivesBack(t) /\ dec_owner[c] = f /\ c \notin dec_irq
      /\ hw[c] \in {"idle", "run", "hung", "stop"}
  <2>1. c \in GivesBack(t)
    BY <1>1 DEF GivesBack, At
  <2>2. dec_owner[c] = f /\ c \notin dec_irq
    BY <2>1 DEF FileInv, DecoderHas, ListenerHas, OfDecoder, OfListener
  <2>3. hw[c] \in HwStates
    BY <1>1 DEF TypeOK, HantroTypeOK
  <2>4. hw[c] \in {"idle", "hung"} \/ killed[p]
    BY <2>1 DEF FileInv, DecoderHas, ListenerHas, OfListener
  <2> QED BY <1>1, <2>1, <2>2, <2>3, <2>4 DEF FileInv, DeadIsSilent, Owned, HwStates
<1> HIDE DEF c
<1>5. /\ hw'[c] = "idle" /\ dec_owner'[c] = NoFile
      /\ \A d \in Cores \ {c} : dec_owner'[d] = dec_owner[d] /\ hw'[d] = hw[d] /\ started'[d] = started[d]
      /\ k'[t].at = "up" /\ k'[t].file = f /\ k'[t].ret = k[t].ret
      /\ \A s \in Threads \ {t} : k'[s] = k[s]
  BY <1>1, <1>2, <1>4 DEF TypeOK, HantroTypeOK, Busy, IoctlType
<1>6. OwnStep(f)
  BY <1>2, <1>3, <1>4, <1>5 DEF OwnStep
<1>7. CoresFit'
  BY <1>2, <1>4, <1>5 DEF CoresFit, CoreFits
<1>8. \A s \in {Dec(f), Lis(f)} : s # t => k'[s] = k[s]
  BY <1>5, Typing
<1>9. ThreadsFit(f)' /\ InstanceFits(f)'
  <2>1. ThreadsFit(f)'
    BY <1>1, <1>3, <1>5, <1>8 DEF FileInv, ThreadsFit, At, InReserve
  <2> QED BY <1>3, <2>1 DEF FileInv, InstanceFits
<1>10. /\ GivesBack(Dec(f))' = GivesBack(Dec(f)) \ {c} /\ GivesBack(Lis(f))' = GivesBack(Lis(f)) \ {c}
  <2>1. GivesBack(t) = {c} /\ GivesBack(t)' = {}
    BY <1>1, <1>5 DEF GivesBack, At, c
  <2>2. ASSUME NEW s \in {Dec(f), Lis(f)}, s # t
        PROVE  GivesBack(s)' = GivesBack(s) /\ c \notin GivesBack(s)
    <3>1. GivesBack(s)' = GivesBack(s)
      BY <1>8, <2>2 DEF GivesBack, At
    <3>2. GivesBack(Dec(f)) \cap GivesBack(Lis(f)) = {}
      BY DEF FileInv, DecoderHas, OfDecoder, OfListener
    <3> QED BY <1>4, <2>2, <3>1, <3>2
  <2> QED BY <2>1, <2>2
<1>11. Reserved(f)' = Reserved(f) /\ Heard(f)' = Heard(f) /\ c \notin Reserved(f) /\ c \notin Heard(f)
  <2>1. Reserved(f)' = Reserved(f) /\ Heard(f)' = Heard(f)
    BY <1>1, <1>3, <1>5, <1>8 DEF Reserved, Heard, At
  <2>2. c \notin Heard(f)
    BY <1>1, <1>4 DEF FileInv, DecoderHas, OfDecoder, OfListener, Heard, At, ThreadsFit
  <2>3. c \notin Reserved(f)
    BY <1>1, <1>4 DEF FileInv, DecoderHas, OfDecoder, OfListener
  <2> QED BY <2>1, <2>2, <2>3
<1>12. /\ OfDecoder(f)' = OfDecoder(f) \ {c} /\ OfListener(f)' = OfListener(f) \ {c}
       /\ Owned(f)' = Owned(f) \ {c} /\ Usable(f)' = Usable(f)
       /\ OfDecoder(f) \subseteq Cores /\ OfListener(f) \subseteq Cores
  <2>1. Owned(f)' = Owned(f) \ {c}
    BY <1>1, <1>4, <1>5, HantroAssumption DEF Owned
  <2>2. OfListener(f) \subseteq Cores /\ OfDecoder(f) \subseteq Cores
    BY Typing DEF OfListener, Heard, GivesBack, OfDecoder, Reserved
  <2> QED BY <1>2, <1>3, <1>10, <1>11, <2>1, <2>2 DEF OfDecoder, OfListener, Usable
<1>13. DecoderHas(f)'
  <2>1. /\ \A d \in OfDecoder(f)' : dec_owner'[d] = f /\ d \notin dec_irq'
        /\ \A d \in Reserved(f)' : hw'[d] = "idle"
        /\ \A d \in GivesBack(Dec(f))' : hw'[d] = "idle" \/ killed[p]
    BY <1>2, <1>5, <1>10, <1>11, <1>12 DEF FileInv, DecoderHas, OfDecoder
  <2>2. dec[f].at \in {"reserve", "all"} /\ k'[Dec(f)].at = "user" => k[Dec(f)] = k'[Dec(f)]
    BY <1>5, <1>8
  <2> QED BY <1>3, <1>10, <1>11, <1>12, <2>1, <2>2 DEF FileInv, DecoderHas, At
<1>14. ListenerHas(f)'
  <2>1. lis[f].at = "pull" => lis[f].core \in Cores \ {c}
    BY <1>11 DEF FileInv, ListenerHas, Heard
  <2> QED BY <1>2, <1>3, <1>5, <1>12, <2>1 DEF FileInv, ListenerHas
<1>15. Aborts(f)'
  <2>1. lis[f].at = "again" => lis[f].regs \in Cores \ {c} /\ t = Dec(f) /\ k'[Lis(f)] = k[Lis(f)]
    BY <1>1, <1>4, <1>8, Typing DEF FileInv, Aborts, OfDecoder, ThreadsFit
  <2> QED BY <1>3, <1>5, <1>12, <2>1 DEF FileInv, Aborts, At
<1>16. DeadIsSilent(f)'
  BY <1>2, <1>3, <1>5, <1>12 DEF FileInv, DeadIsSilent, Owned
<1>17. dec[f].at # "wait"
  BY <1>1, <1>4 DEF FileInv, OwnsOnly, OfDecoder, ThreadsFit, InstanceFits
<1>18. OwnsOnly(f)'
  BY <1>3, <1>12, <1>17 DEF FileInv, OwnsOnly
<1>19. PostedWhenDone(f)' /\ ~dec'[f].early
  BY <1>3, <1>17 DEF FileInv, PostedWhenDone
<1> QED BY <1>3, <1>6, <1>7, <1>9, <1>13, <1>14, <1>15, <1>16, <1>18, <1>19 DEF FileInv, Keeps

\* WaitCoreReady looks at a core.  A listener that aborts a core finds that it
\* owns one, and waits for it.
LEMMA CheckCoreIrqStep ==
  ASSUME TypeOK, CoresFit, NEW f \in Files, FileInv(f), NEW t \in {Dec(f), Lis(f)},
         CheckCoreIrq(t), UNCHANGED dwl
  PROVE  Keeps(f)
<1> DEFINE c == k[t].core  p == Process[f]  mine == dec_owner[c] = f
<1>1. /\ t = Lis(f) /\ k[t].at = "check" /\ t \in Threads /\ c \in Cores /\ k[t].file = f /\ k[t] \in IoctlType
      /\ lis[f].at \in {"irq", "again"}
  <2>1. k[t].at = "check"
    BY DEF CheckCoreIrq, At
  <2> QED BY <2>1, Typing DEF FileInv, ThreadsFit, At
<1>2. TypeOK' /\ UNCHANGED <<dec, lis, rdy, callback, fd, killed>>
  BY <1>1, KernelTypes, DwlSame DEF Kernel
<1>3. UNCHANGED <<cfg, sem, dec_owner, hw, started>>
      /\ ((c \in dec_irq /\ mine) \/ dec_irq' = dec_irq)
      /\ dec_irq' \in {dec_irq, dec_irq \ {c}}
  <2>1. c \in dec_irq => dec_owner[c] # NoFile
    BY <1>1 DEF CoresFit, CoreFits
  <2> QED BY <1>1, <2>1 DEF CheckCoreIrq
<1>4. CoresFit'
  BY <1>3 DEF CoresFit, CoreFits
<1>5. \A s \in Threads \ {t} : k'[s] = k[s]
  BY <1>1 DEF CheckCoreIrq, Return, Again, TypeOK, HantroTypeOK
<1>6. k'[Dec(f)] = k[Dec(f)]
  BY <1>1, <1>5, Typing
<1>7. OwnStep(f)
  BY <1>1, <1>2, <1>3, <1>5 DEF OwnStep
<1>8. /\ Reserved(f)' = Reserved(f) /\ GivesBack(Dec(f))' = GivesBack(Dec(f)) /\ OfDecoder(f)' = OfDecoder(f)
      /\ Owned(f)' = Owned(f) /\ Usable(f)' = Usable(f) /\ OfListener(f) = {}
  BY <1>1, <1>2, <1>3, <1>6 DEF Reserved, GivesBack, OfDecoder, Owned, Usable, At, OfListener, Heard
<1>9. InstanceFits(f)' /\ OwnsOnly(f)' /\ DeadIsSilent(f)' /\ ~dec'[f].early
  <2>1. InstanceFits(f)' /\ ~dec'[f].early
    BY <1>2 DEF FileInv, InstanceFits
  <2>2. DeadIsSilent(f)'
    BY <1>2, <1>3, <1>8 DEF FileInv, DeadIsSilent
  <2> QED BY <1>2, <1>3, <1>8, <2>1, <2>2 DEF FileInv, OwnsOnly
<1>10. CASE c \in dec_irq /\ mine
  <2>1. dec_irq' = dec_irq \ {c} /\ k' = [k EXCEPT ![t] = [User EXCEPT !.ret = c]]
    BY <1>1, <1>10 DEF CheckCoreIrq, Return
  <2>2. k'[Lis(f)].at = "user" /\ k'[Lis(f)].ret = c
    BY <1>1, <2>1 DEF User, TypeOK, HantroTypeOK
  <2>3. c \notin OfDecoder(f) /\ hw[c] \in {"idle", "hung"}
    BY <1>1, <1>10 DEF FileInv, DecoderHas, CoresFit, CoreFits
  <2> HIDE DEF c
  <2>4. Heard(f)' = {c} /\ OfListener(f)' = {c}
    BY <1>1, <1>2, <2>2 DEF Heard, OfListener, GivesBack, At
  <2>5. ThreadsFit(f)'
    BY <1>1, <1>2, <1>6, <2>2 DEF FileInv, ThreadsFit, At, InReserve
  <2>6. DecoderHas(f)'
    BY <1>2, <1>3, <1>6, <1>8, <2>1, <2>3, <2>4 DEF FileInv, DecoderHas, At
  <2>7. ListenerHas(f)'
    BY <1>1, <1>2, <1>3, <1>10, <2>1, <2>3, <2>4 DEF ListenerHas
  <2>8. Aborts(f)'
    BY <1>1, <1>2, <1>3, <1>8, <2>2 DEF FileInv, Aborts, At
  <2>9. PostedWhenDone(f)'
    BY <1>1, <1>2, <1>3, <1>10, <2>1, <2>4 DEF FileInv, PostedWhenDone
  <2> QED BY <1>2, <1>4, <1>7, <1>9, <2>5, <2>6, <2>7, <2>8, <2>9 DEF FileInv, Keeps
<1>11. CASE ~(c \in dec_irq /\ mine)
  <2>1. dec_irq' = dec_irq
    BY <1>3, <1>11
  <2> DEFINE found == k[t].found \/ mine
  <2>2. PICK x : /\ k' = [k EXCEPT ![t] = x]
                 /\ \/ /\ x.at = "check" /\ x.core = c + 1 /\ (found => x.found) /\ x.file = f /\ c + 1 \in Cores
                    \/ x.at = "user" /\ x.ret = EFAULT /\ ~found /\ c + 1 \notin Cores
                    \/ x.at \in {"check", "wait"} /\ x.core \in {0, c} /\ x.file = f
                       /\ (x.at = "check" => x.core = 0)
    <3>1. CASE c + 1 \in Cores
      <4> DEFINE x == [k[t] EXCEPT !.core = c + 1, !.found = found]
      <4>1. k' = [k EXCEPT ![t] = x]
        BY <1>1, <1>11, <3>1 DEF CheckCoreIrq, TypeOK, HantroTypeOK
      <4>2. x.at = "check" /\ x.core = c + 1 /\ (found => x.found) /\ x.file = f
        BY <1>1 DEF IoctlType
      <4> QED BY <3>1, <4>1, <4>2
    <3>2. CASE c + 1 \notin Cores /\ ~found
      <4> DEFINE x == [User EXCEPT !.ret = EFAULT]
      <4>1. k' = [k EXCEPT ![t] = x]
        BY <1>1, <1>11, <3>2 DEF CheckCoreIrq, Return
      <4>2. x.at = "user" /\ x.ret = EFAULT
        BY DEF User
      <4> QED BY <3>2, <4>1, <4>2
    <3>3. CASE c + 1 \notin Cores /\ found
      <4> DEFINE x == IF k[t].woken THEN [k[t] EXCEPT !.at = "check", !.core = 0, !.woken = FALSE, !.found = FALSE]
                                    ELSE [k[t] EXCEPT !.at = "wait"]
      <4>1. k' = [k EXCEPT ![t] = x]
        BY <1>1, <1>11, <3>3 DEF CheckCoreIrq, Again
      <4>2. x.at \in {"check", "wait"} /\ x.core \in {0, c} /\ x.file = f /\ (x.at = "check" => x.core = 0)
        BY <1>1 DEF IoctlType
      <4> QED BY <4>1, <4>2
    <3> QED BY <3>1, <3>2, <3>3
  <2>3. k'[Lis(f)] = x
    BY <1>1, <2>2 DEF TypeOK, HantroTypeOK
  <2>4. x.at = "user" => lis[f].at # "again"
    <3>1. SUFFICES ASSUME x.at = "user", lis[f].at = "again" PROVE FALSE
      OBVIOUS
    <3>2. ~found /\ c + 1 \notin Cores
      BY <2>2, <3>1
    <3>3. lis[f].regs \in Cores /\ dec_owner[lis[f].regs] = f /\ (lis[f].regs < c => k[t].found)
      BY <1>1, <3>1, Typing DEF FileInv, Aborts, At
    <3>4. lis[f].regs < c \/ lis[f].regs = c
      BY <1>1, <3>2, <3>3, CoreNumbers
    <3> QED BY <3>2, <3>3, <3>4
  <2>5. x.at = "check" /\ lis[f].at = "again" /\ lis[f].regs < x.core => x.found
    <3>1. SUFFICES ASSUME x.at = "check", lis[f].at = "again", lis[f].regs < x.core PROVE x.found
      OBVIOUS
    <3>2. lis[f].regs \in Cores /\ dec_owner[lis[f].regs] = f /\ (lis[f].regs < c => k[t].found) /\ lis[f].regs >= 0
      BY <1>1, <3>1, Typing, CoreNumbers DEF FileInv, Aborts, At
    <3> DEFINE r == lis[f].regs
    <3>3. r \in Int /\ c \in Int /\ r >= 0
      BY <1>1, <3>2, CoreNumbers
    <3> HIDE DEF r
    <3>4. x.core # 0
      BY <3>1, <3>3 DEF r
    <3>5. x.core = c + 1 /\ (found => x.found)
      BY <2>2, <3>1, <3>4
    <3>6. r < c \/ r = c
      BY <3>1, <3>3, <3>5 DEF r
    <3> QED BY <3>2, <3>5, <3>6 DEF r
  <2> HIDE DEF c, found, mine
  <2>6. Heard(f)' = {} /\ OfListener(f)' = {}
    <3>1. x.at = "user" => x.ret \notin Cores
      BY <2>2, CoreNumbers
    <3>2. x.at \in {"check", "wait", "user"}
      BY <2>2
    <3> QED BY <1>1, <1>2, <2>3, <3>1, <3>2 DEF Heard, OfListener, GivesBack, At
  <2>7. ThreadsFit(f)'
    <3>1. x.at \in {"check", "wait", "user"} /\ (x.at # "user" => x.file = f)
      BY <2>2
    <3> QED BY <1>1, <1>2, <1>6, <2>3, <3>1 DEF FileInv, ThreadsFit, At, InReserve
  <2>8. DecoderHas(f)' /\ ListenerHas(f)'
    BY <1>1, <1>2, <1>3, <1>6, <1>8, <2>1, <2>6 DEF FileInv, DecoderHas, ListenerHas, At
  <2>9. Aborts(f)'
    BY <1>2, <1>3, <1>8, <2>3, <2>4, <2>5 DEF FileInv, Aborts, At
  <2>10. PostedWhenDone(f)'
    BY <1>2, <1>3, <2>1, <2>6 DEF FileInv, PostedWhenDone
  <2> QED BY <1>2, <1>4, <1>7, <1>9, <2>7, <2>8, <2>9, <2>10 DEF FileInv, Keeps
<1> QED BY <1>10, <1>11
-----------------------------------------------------------------------------
(* The hardware.  A core that runs is in nobody's hands.                     *)

CoreMoves(c) ==
  /\ dec_owner'[c] = dec_owner[c] /\ started'[c] = started[c]
  /\ \/ hw'[c] = hw[c] /\ (c \in dec_irq' <=> c \in dec_irq)
     \/ /\ hw[c] \in {"run", "stop"} /\ hw'[c] = "irq" /\ (c \in dec_irq' <=> c \in dec_irq)
        /\ \A f \in Files : dec_owner[c] = f => ~killed[Process[f]]
     \/ /\ hw[c] = "run" /\ hw'[c] = "late" /\ (c \in dec_irq' <=> c \in dec_irq)
        /\ \A f \in Files : dec_owner[c] = f => ~killed[Process[f]]
     \/ hw[c] = "irq" /\ hw'[c] = "idle" /\ c \in dec_irq'
     \/ hw[c] = "late" /\ hw'[c] = "hung" /\ c \in dec_irq'

\* What hardware and interrupts may do to cores and to sleeping threads keeps the
\* invariant.
LEMMA HardwareMoves ==
  ASSUME CoreInv, HantroTypeOK', UNCHANGED dwl, cfg' = cfg, \A c \in Cores : CoreMoves(c),
         \A f \in Files, t \in Threads : t \in {Dec(f), Lis(f)} => Moves(k[t], k'[t], killed[Process[f]])
  PROVE  CoreInv'
<1>1. TypeOK' /\ UNCHANGED <<dec, lis, rdy, callback, fd, killed>>
  BY DwlSame DEF CoreInv
<1>2. CoresFit'
  BY DEF CoreInv, CoresFit, CoreFits, CoreMoves
<1>3. ASSUME NEW f \in Files PROVE FileInv(f)'
  <2>1. TypeOK /\ FileInv(f) /\ SameInstance(f)
    BY <1>1, Typing DEF CoreInv, SameInstance
  <2>2. /\ Reserved(f)' = Reserved(f) /\ GivesBack(Dec(f))' = GivesBack(Dec(f))
        /\ Heard(f)' = Heard(f) /\ GivesBack(Lis(f))' = GivesBack(Lis(f))
    BY <2>1 DEF Reserved, GivesBack, Heard, At, SameInstance, Moves, Classes, FileInv, ThreadsFit
  <2>3. Owned(f)' = Owned(f) /\ OfDecoder(f)' = OfDecoder(f) /\ OfListener(f)' = OfListener(f)
    BY <2>2 DEF OfDecoder, OfListener, CoreMoves, Owned
  <2>4. /\ OfDecoder(f) \subseteq Cores /\ OfListener(f) \subseteq Cores
        /\ Reserved(f) \subseteq OfDecoder(f) /\ GivesBack(Dec(f)) \subseteq OfDecoder(f)
        /\ Heard(f) \subseteq OfListener(f)
    BY <2>1, Typing DEF OfDecoder, OfListener, Reserved, GivesBack, Heard
  <2>5. \A c \in OfDecoder(f) \cup OfListener(f) : hw'[c] = hw[c] /\ (c \in dec_irq' <=> c \in dec_irq)
                                                   /\ dec_owner'[c] = dec_owner[c]
    <3>1. \A c \in OfDecoder(f) \cup OfListener(f) : hw[c] \in {"idle", "hung"} \/ (killed[Process[f]] /\ c \in Owned(f))
      BY <2>1, <2>4 DEF FileInv, DecoderHas, ListenerHas, OfDecoder, Owned
    <3>2. \A c \in Owned(f) : killed[Process[f]] =>
            /\ c \in Cores /\ dec_owner[c] = f /\ hw[c] \notin {"irq", "late"}
      BY <2>1 DEF FileInv, DeadIsSilent, Owned
    <3> QED BY <2>4, <3>1, <3>2 DEF CoreMoves
  <2>6. ThreadsFit(f)'
    BY <2>1 DEF FileInv, ThreadsFit, SameInstance, Moves, Classes, InReserve, At
  <2>7. InstanceFits(f)' /\ ~dec'[f].early
    BY <2>1 DEF FileInv, InstanceFits, SameInstance
  <2>8. DecoderHas(f)'
    <3>1. dec[f].at \in {"reserve", "all"} /\ k'[Dec(f)].at = "user" /\ ~killed[Process[f]] =>
            k[Dec(f)].at = "user" /\ k'[Dec(f)].ret = k[Dec(f)].ret
      BY <2>1 DEF FileInv, ThreadsFit, SameInstance, Moves, Classes
    <3> QED BY <1>1, <2>1, <2>2, <2>3, <2>4, <2>5, <3>1 DEF FileInv, DecoderHas, At
  <2>9. ListenerHas(f)'
    <3>1. lis[f].at = "pull" => lis[f].core \in OfListener(f)
      BY <2>1 DEF FileInv, ListenerHas, OfListener, Heard
    <3> QED BY <1>1, <2>1, <2>3, <2>5, <3>1 DEF FileInv, ListenerHas
  <2>10. Aborts(f)'
    <3>1. lis[f].regs \in Cores /\ lis[f].regs \in Int /\ lis[f].regs >= 0
      BY <2>1, Typing, CoreNumbers
    <3>2. lis[f].at = "again" => dec_owner'[lis[f].regs] = f /\ hw'[lis[f].regs] \in {"stop", "irq", "idle"}
      BY <2>1, <3>1 DEF FileInv, Aborts, CoreMoves
    <3>3. lis[f].at = "again" /\ k'[Lis(f)].at = "user" /\ ~killed[Process[f]] =>
            k[Lis(f)].at = "user" /\ k'[Lis(f)].ret = k[Lis(f)].ret
      BY <2>1 DEF FileInv, ThreadsFit, SameInstance, Moves, Classes
    <3>4. k'[Lis(f)].at = "check" => \/ k'[Lis(f)].core = 0
                                     \/ /\ k[Lis(f)].at = "check" /\ k'[Lis(f)].core = k[Lis(f)].core
                                        /\ k'[Lis(f)].found = k[Lis(f)].found
      BY <2>1 DEF SameInstance, Moves
    <3> QED BY <1>1, <2>1, <2>3, <3>1, <3>2, <3>3, <3>4 DEF FileInv, Aborts, At
  <2>11. DeadIsSilent(f)'
    BY <1>1, <2>1, <2>3 DEF FileInv, DeadIsSilent, CoreMoves, Owned
  <2>12. OwnsOnly(f)'
    <3>1. Usable(f)' = Usable(f)
      BY <1>1 DEF Usable
    <3>2. dec[f].at = "wait" => started'[dec[f].core] = started[dec[f].core]
      BY <2>1, Typing DEF CoreMoves
    <3> QED BY <1>1, <2>1, <2>3, <3>1, <3>2 DEF FileInv, OwnsOnly
  <2>13. PostedWhenDone(f)'
    BY <1>1, <2>1, <2>2 DEF FileInv, PostedWhenDone, CoreMoves
  <2> QED BY <2>6, <2>7, <2>8, <2>9, <2>10, <2>11, <2>12, <2>13 DEF FileInv
<1> QED BY <1>1, <1>2, <1>3 DEF CoreInv

\* The steps of the hardware and of its interrupt handler.
LEMMA HardwareSteps ==
  ASSUME CoreInv, "zombie" \notin Allow, Hardware \/ Interrupt PROVE CoreInv'
<1>1. CASE Hardware
  <2>1. PICK c \in Cores : /\ \A f \in Files : dec_owner[c] = f => ~killed[Process[f]]
                           /\ HwFinish(c) \/ HwTimeout(c)
    BY <1>1 DEF Hardware
  <2>2. /\ UNCHANGED <<dwl, cfg, sem, dec_owner, dec_irq, started, k>>
        /\ \/ hw[c] \in {"run", "stop"} /\ hw' = [hw EXCEPT ![c] = "irq"]
           \/ hw[c] = "run" /\ hw' = [hw EXCEPT ![c] = "late"]
    BY <1>1, <2>1 DEF HwFinish, HwTimeout, Hardware
  <2>3. HantroTypeOK'
    BY <2>2 DEF CoreInv, TypeOK, HantroTypeOK, HwStates
  <2>4. \A d \in Cores : CoreMoves(d)
    BY <2>1, <2>2 DEF CoreMoves, CoreInv, TypeOK, HantroTypeOK
  <2>5. \A f \in Files, t \in Threads : t \in {Dec(f), Lis(f)} => Moves(k[t], k'[t], killed[Process[f]])
    BY <2>2 DEF Moves
  <2> QED BY <2>2, <2>3, <2>4, <2>5, HardwareMoves
<1>2. CASE Interrupt
  <2>1. /\ UNCHANGED <<dwl, cfg, sem, dec_owner, started>>
        /\ k' = WakeDecWaitQueue(k)
        /\ dec_irq' = dec_irq \cup {c \in Cores : hw[c] \in {"irq", "late"}}
        /\ hw' = [c \in Cores |-> CASE hw[c] = "irq" -> "idle" [] hw[c] = "late" -> "hung" [] OTHER -> hw[c]]
    BY <1>2 DEF Interrupt, HantroIsr
  <2>2. k \in [Threads -> IoctlType] /\ hw \in [Cores -> HwStates]
    BY DEF CoreInv, TypeOK, HantroTypeOK
  <2>3. \A c \in Cores : hw'[c] = IF hw[c] = "irq" THEN "idle" ELSE IF hw[c] = "late" THEN "hung" ELSE hw[c]
    BY <2>1
  <2>4. HantroTypeOK'
    <3>1. k' \in [Threads -> IoctlType]
      BY <2>1, <2>2, WokenTypes DEF WakeDecWaitQueue, Places
    <3>2. hw' \in [Cores -> HwStates]
      BY <2>1, <2>2, <2>3 DEF HwStates
    <3> QED BY <2>1, <3>1, <3>2 DEF CoreInv, TypeOK, HantroTypeOK
  <2>5. \A d \in Cores : CoreMoves(d)
    BY <2>1, <2>3 DEF CoreMoves
  <2>6. \A f \in Files, t \in Threads : t \in {Dec(f), Lis(f)} => Moves(k[t], k'[t], killed[Process[f]])
    BY <2>1, <2>2, WokenMoves
  <2> QED BY <2>1, <2>4, <2>5, <2>6, HardwareMoves
<1> QED BY <1>1, <1>2

\* The death of a process moves no core: its threads notice it one by one.
LEMMA KillStep ==
  ASSUME CoreInv, OneInstance, "zombie" \notin Allow, NEW p \in Processes, Kill(p) PROVE CoreInv'
<1>1. /\ killed' = [killed EXCEPT ![p] = TRUE] /\ killed \in [Processes -> BOOLEAN]
      /\ UNCHANGED <<driver, dec, lis, rdy, callback, fd, b_stopped, pics>>
      /\ Instances(p) # {} /\ \A f \in Instances(p) : \A c \in Owned(f) : ~Done(c)
  BY DEF Kill, CoreInv, TypeOK
<1>2. HantroTypeOK' /\ CoresFit' /\ UNCHANGED <<cfg, dec_owner, dec_irq, hw, started, k>>
  BY <1>1, SameDriver DEF CoreInv
<1>3. TypeOK'
  BY <1>1, <1>2 DEF CoreInv, TypeOK
<1>4. ASSUME NEW f \in Files PROVE FileInv(f)'
  <2>1. FileInv(f) /\ TypeOK
    BY DEF CoreInv
  <2>2. killed[Process[f]] => killed'[Process[f]]
    BY <1>1, <2>1, Typing
  <2>3. killed'[Process[f]] => killed[Process[f]] \/ \A c \in Owned(f) : ~Done(c)
    <3>1. CASE Process[f] = p
      BY <1>1, <3>1 DEF OneInstance, Instances
    <3>2. CASE Process[f] # p
      BY <1>1, <2>1, <3>2, Typing
    <3> QED BY <3>1, <3>2
  <2>4. /\ Reserved(f)' = Reserved(f) /\ GivesBack(Dec(f))' = GivesBack(Dec(f))
        /\ Heard(f)' = Heard(f) /\ GivesBack(Lis(f))' = GivesBack(Lis(f))
        /\ OfDecoder(f)' = OfDecoder(f) /\ OfListener(f)' = OfListener(f) /\ Owned(f)' = Owned(f)
        /\ Usable(f)' = Usable(f)
    BY <1>1, <1>2 DEF Reserved, GivesBack, Heard, OfDecoder, OfListener, Owned, Usable, At
  <2>5. ThreadsFit(f)' /\ ~dec'[f].early
    BY <1>1, <1>2, <2>1 DEF FileInv, ThreadsFit, At, InReserve
  <2>6. InstanceFits(f)'
    BY <1>1, <2>1, <2>2 DEF FileInv, InstanceFits
  <2>7. DecoderHas(f)'
    BY <1>1, <1>2, <2>1, <2>2, <2>4 DEF FileInv, DecoderHas, At
  <2>8. ListenerHas(f)'
    BY <1>1, <1>2, <2>1, <2>4 DEF FileInv, ListenerHas
  <2>9. Aborts(f)'
    BY <1>1, <1>2, <2>1, <2>2, <2>4 DEF FileInv, Aborts, At
  <2>10. DeadIsSilent(f)'
    BY <1>2, <2>1, <2>3, <2>4 DEF FileInv, DeadIsSilent, Done
  <2>11. OwnsOnly(f)'
    BY <1>1, <1>2, <2>1, <2>4 DEF FileInv, OwnsOnly
  <2>12. PostedWhenDone(f)'
    BY <1>1, <1>2, <2>1, <2>2, <2>4 DEF FileInv, PostedWhenDone
  <2> QED BY <2>5, <2>6, <2>7, <2>8, <2>9, <2>10, <2>11, <2>12 DEF FileInv
<1> QED BY <1>2, <1>3, <1>4 DEF CoreInv
-----------------------------------------------------------------------------

\* The driver is loaded with all cores free.
LEMMA CoreInit == Init => CoreInv
<1> SUFFICES ASSUME Init PROVE CoreInv
  OBVIOUS
<1>1. TypeOK
  <2>1. Fresh("new") \in DecType /\ Silent("none") \in LisType
    BY CoreNumbers DEF Fresh, Silent, DecType, LisType, DecPlaces, LisPlaces
  <2>2. HantroTypeOK
    BY IoctlTypes, HantroAssumption DEF Init, HantroInit, HantroTypeOK, HwStates
  <2> QED BY <2>1, <2>2, DwlAssumption DEF Init, TypeOK
<1>2. CoresFit
  BY DEF Init, HantroInit, CoresFit, CoreFits
<1>3. ASSUME NEW f \in Files PROVE FileInv(f)
  <2>1. /\ dec[f].at = "new" /\ dec[f].got = {} /\ dec[f].early = FALSE /\ lis[f].at = "none"
        /\ \A c \in Cores : rdy[Process[f]][c] = 0 /\ callback[Process[f]][c] = NoFile /\ dec_owner[c] = NoFile
        /\ ~killed[Process[f]]
    BY <1>1, Typing DEF Init, HantroInit, Fresh, Silent
  <2>2. k[Dec(f)].at = "user" /\ k[Lis(f)].at = "user"
    BY <1>1, Typing DEF Init, HantroInit, User
  <2>3. Owned(f) = {} /\ Reserved(f) = {} /\ Heard(f) = {} /\ GivesBack(Dec(f)) = {} /\ GivesBack(Lis(f)) = {}
    BY <2>1, <2>2, HantroAssumption DEF Owned, Reserved, Heard, GivesBack, At
  <2>4. ThreadsFit(f) /\ InstanceFits(f)
    BY <2>1, <2>2 DEF ThreadsFit, InstanceFits, At, InReserve
  <2>5. DecoderHas(f) /\ ListenerHas(f) /\ Aborts(f)
    BY <2>1, <2>3 DEF DecoderHas, ListenerHas, Aborts, OfDecoder, OfListener
  <2>6. DeadIsSilent(f) /\ OwnsOnly(f) /\ PostedWhenDone(f)
    BY <2>1, <2>3 DEF DeadIsSilent, OwnsOnly, PostedWhenDone, Shut
  <2> QED BY <2>1, <2>4, <2>5, <2>6 DEF FileInv
<1> QED BY <1>1, <1>2, <1>3 DEF CoreInv

\* Every step of the processes, the driver and the hardware keeps the invariant.
LEMMA CoreStep ==
  ASSUME OneInstance, "zombie" \notin Allow, CoreInv, [Next]_vars PROVE CoreInv'
<1>1. CASE UNCHANGED vars
  <2>1. UNCHANGED dwl /\ UNCHANGED driver
    BY <1>1 DEF vars
  <2>2. HantroTypeOK' /\ UNCHANGED <<cfg, dec_owner, dec_irq, hw, started, k>>
    BY <2>1, SameDriver DEF CoreInv
  <2>3. \A f \in Files, t \in Threads : t \in {Dec(f), Lis(f)} => Moves(k[t], k'[t], killed[Process[f]])
    BY <2>2 DEF Moves
  <2> QED BY <2>1, <2>2, <2>3, QuietStep
<1>2. ASSUME NEW f \in Files, NEW t \in {Dec(f), Lis(f)}, InKernel(t) PROVE CoreInv'
  <2>1. t \in Threads /\ TypeOK /\ CoresFit /\ FileInv(f) /\ UNCHANGED dwl
    BY <1>2, ThreadNames DEF CoreInv, InKernel
  <2>2. CASE Down(t) \/ GetDecCoreFails(t) \/ ReleaseUp(t)
    BY <2>1, <2>2, QuietSteps
  <2>3. CASE GetDecCore(t)
    BY <2>1, <2>3, GetDecCoreStep, StepKeeps
  <2>4. CASE ReleaseCore(t)
    BY <2>1, <2>4, ReleaseCoreStep, StepKeeps
  <2>5. CASE CheckCoreIrq(t)
    BY <2>1, <2>5, CheckCoreIrqStep, StepKeeps
  <2> QED BY <1>2, <2>2, <2>3, <2>4, <2>5 DEF InKernel, Kernel
<1>3. ASSUME NEW f \in Files,
             \/ DWLInit(f) \/ DWLRelease(f) \/ EndOfStream(f) \/ DWLReserveHw(f) \/ DWLEnableHw(f)
             \/ DWLWaitHwReady(f) \/ ReserveNext(f) \/ ReleaseNext(f) \/ Close(f) \/ DecoderDies(f)
      PROVE  CoreInv'
  <2>1. TypeOK /\ CoresFit /\ FileInv(f)
    BY DEF CoreInv
  <2>2. Keeps(f)
    BY <1>3, <2>1, InitStep, ReleaseStep, ReserveSteps, EnableStep, WaitHwReadyStep, ReleaseNextStep,
       CloseStep, DecoderDiesStep
  <2> QED BY <2>2, StepKeeps
<1>4. ASSUME NEW f \in Files,
             \/ Listen(f) \/ ReadStatus(f) \/ Aborted(f) \/ CallBack(f) \/ PostReady(f) \/ ListenerDies(f)
      PROVE  CoreInv'
  <2>1. TypeOK /\ CoresFit /\ FileInv(f)
    BY DEF CoreInv
  <2>2. Keeps(f)
    BY <1>4, <2>1, ListenStep, ReadStatusStep, AbortedStep, CallBackSteps, ListenerDiesStep
  <2> QED BY <2>2, StepKeeps
<1>5. ASSUME NEW f \in Files, Decoder(f) \/ Listener(f) PROVE CoreInv'
  BY <1>2, <1>3, <1>4, <1>5 DEF Decoder, Listener
<1> QED BY <1>1, <1>3, <1>5, SignalledStep, KillStep, HardwareSteps DEF Next

\* The invariant holds in every reachable state.
LEMMA CoreInvariant ==
  ASSUME OneInstance, "zombie" \notin Allow PROVE Spec => []CoreInv
<1>1. Init => CoreInv
  BY CoreInit
<1>2. CoreInv /\ [Next]_vars => CoreInv'
  BY CoreStep
<1> QED BY <1>1, <1>2, PTL DEF Spec

\* The variables have their types: a core that DWLEnableHw starts, or the
\* listener names, is a core of the device.
THEOREM DwlTyped ==
  ASSUME OneInstance, "zombie" \notin Allow PROVE Spec => []TypeOK
<1>1. CoreInv => TypeOK
  BY DEF CoreInv
<1> QED BY <1>1, CoreInvariant, PTL

\* A core only decodes for the file that owns it.
THEOREM CoresRunForOwner ==
  ASSUME OneInstance, "zombie" \notin Allow PROVE Spec => []RunsForOwner
<1>1. CoreInv => RunsForOwner
  BY DEF CoreInv, CoresFit, CoreFits, RunsForOwner, Busy
<1> QED BY <1>1, CoreInvariant, PTL

\* DWLWaitHwReady returns only when the core has ended the picture.
THEOREM WaitEndsWhenDone ==
  ASSUME OneInstance, "zombie" \notin Allow PROVE Spec => []ReadyWhenDone
<1>1. CoreInv => ReadyWhenDone
  BY DEF CoreInv, FileInv, ReadyWhenDone
<1> QED BY <1>1, CoreInvariant, PTL
-----------------------------------------------------------------------------
(* What dec_core_sem counts                                                  *)

UserSpace(f) ==
  \/ DWLInit(f) \/ DWLRelease(f) \/ EndOfStream(f) \/ DWLReserveHw(f) \/ DWLEnableHw(f)
  \/ DWLWaitHwReady(f) \/ ReserveNext(f) \/ ReleaseNext(f) \/ Close(f) \/ DecoderDies(f)
  \/ Listen(f) \/ ReadStatus(f) \/ Aborted(f) \/ CallBack(f) \/ PostReady(f) \/ ListenerDies(f)

\* User space only enters the driver and leaves it.
LEMMA UserSteps ==
  ASSUME TypeOK, NEW f \in Files, UserSpace(f)
  PROVE  /\ sem' = sem /\ dec_owner' = dec_owner /\ killed' = killed
         /\ \A t \in Threads : \/ k'[t] = k[t]
                               \/ k[t].at = "user" /\ k'[t].at \in {"user", "check", "release"}
                               \/ /\ k[t].at = "user" /\ k'[t].at = "down"
                                  /\ t = Dec(f) /\ ~killed[Process[f]]
<1> DEFINE Fits == \A t \in Threads : \/ k'[t] = k[t]
                                      \/ k[t].at = "user" /\ k'[t].at \in {"user", "check", "release"}
                                      \/ /\ k[t].at = "user" /\ k'[t].at = "down"
                                         /\ t = Dec(f) /\ ~killed[Process[f]]
<1>1. k \in [Threads -> IoctlType] /\ Dec(f) \in Threads /\ Lis(f) \in Threads
  BY ThreadNames DEF TypeOK, HantroTypeOK
<1>2. ASSUME UNCHANGED driver PROVE sem' = sem /\ dec_owner' = dec_owner /\ Fits
  BY <1>2 DEF driver
<1>3. ASSUME NEW t \in Threads, NEW g, NEW c, DecRelease(t, g, c)
      PROVE  sem' = sem /\ dec_owner' = dec_owner /\ Fits
  BY <1>1, <1>3 DEF DecRelease, Call, Return, User, At
<1>4. ASSUME DecReserve(Dec(f), f, dec[f].format), ~killed[Process[f]]
      PROVE  sem' = sem /\ dec_owner' = dec_owner /\ Fits
  BY <1>1, <1>4 DEF DecReserve, Call, User, At
<1>5. ASSUME NEW t \in Threads, NEW g, NEW c, DecFlushRegs(t, g, c) \/ AbortAndWait(t, g, c) \/ CoreWait(t, g)
      PROVE  sem' = sem /\ dec_owner' = dec_owner /\ Fits
  <2>1. CASE DecFlushRegs(t, g, c)
    BY <1>1, <2>1 DEF DecFlushRegs, Return, User, At
  <2>2. CASE AbortAndWait(t, g, c)
    BY <1>1, <2>2 DEF AbortAndWait, User, At
  <2>3. CASE CoreWait(t, g)
    BY <1>1, <2>3 DEF CoreWait, Call, User, At
  <2> QED BY <1>5, <2>1, <2>2, <2>3
<1>6. killed' = killed
  BY DEF UserSpace, DWLInit, DWLRelease, EndOfStream, DWLReserveHw, DWLEnableHw, DWLWaitHwReady,
     ReserveNext, ReleaseNext, Close, DecoderDies, Listen, ReadStatus, Aborted, CallBack, PostReady, ListenerDies
<1> HIDE DEF Fits
<1>7. CASE DWLInit(f) \/ DWLRelease(f) \/ DecoderDies(f) \/ Aborted(f) \/ ListenerDies(f)
  BY <1>2, <1>6, <1>7 DEF DWLInit, DWLRelease, DecoderDies, Aborted, ListenerDies, Fits
<1>8. CASE EndOfStream(f) \/ DWLReserveHw(f) \/ ReserveNext(f)
  BY <1>4, <1>6, <1>8 DEF EndOfStream, DWLReserveHw, ReserveNext, Runs, Fits
<1>9. CASE DWLEnableHw(f) \/ Listen(f) \/ ReadStatus(f)
  BY <1>1, <1>2, <1>5, <1>6, <1>9 DEF DWLEnableHw, Listen, ReadStatus, Fits
<1>10. CASE DWLWaitHwReady(f) \/ ReleaseNext(f) \/ Close(f) \/ CallBack(f) \/ PostReady(f)
  BY <1>1, <1>2, <1>3, <1>6, <1>10 DEF DWLWaitHwReady, ReleaseNext, Close, CallBack, PostReady, Post, Fits
<1> QED BY <1>7, <1>8, <1>9, <1>10 DEF UserSpace

\* The cores that are owned, and the threads that have taken a unit and no core.
Taken == {c \in Cores : dec_owner[c] # NoFile}
InHand == {t \in Threads : k[t].at \in {"get", "sleep", "up"}}

\* Threads, cores and what is counted of them are finite.
LEMMA Finite ==
  /\ IsFiniteSet(Taken) /\ Cardinality(Taken) \in Nat
  /\ IsFiniteSet(InHand) /\ Cardinality(InHand) \in Nat
<1>1. IsFiniteSet(Cores)
  BY FS_Interval, HantroAssumption DEF Cores
<1>2. IsFiniteSet(Taken) /\ IsFiniteSet(InHand)
  BY <1>1, FS_Subset, HantroAssumption DEF Taken, InHand
<1> QED BY <1>2, FS_CardinalityType

\* A step that changes neither owners nor who takes or gives back a core keeps the sum.
LEMMA SemKept ==
  ASSUME SemExact, sem' = sem, dec_owner' = dec_owner,
         \A t \in Threads : k'[t].at \in {"get", "sleep", "up"} <=> k[t].at \in {"get", "sleep", "up"}
  PROVE  SemExact'
<1>1. Taken' = Taken /\ InHand' = InHand
  BY DEF Taken, InHand
<1> QED BY <1>1 DEF SemExact, Taken, InHand

\* The units move with the cores.
LEMMA KernelCounts ==
  ASSUME CoreInv, SemExact, NEW f \in Files, NEW t \in {Dec(f), Lis(f)}, Kernel(t) PROVE SemExact'
<1> DEFINE c == k[t].core  T == Cardinality(Taken)  H == Cardinality(InHand)
<1>1. /\ TypeOK /\ FileInv(f) /\ CoresFit /\ t \in Threads /\ k \in [Threads -> IoctlType] /\ k[t] \in IoctlType
      /\ c \in Cores /\ sem \in Nat /\ dec_owner \in [Cores -> Files \cup {NoFile}]
  BY ThreadNames DEF CoreInv, TypeOK, HantroTypeOK, IoctlType
<1>2. sem + T + H = NCores
  BY DEF SemExact, Taken, InHand
<1>3. SUFFICES sem' + Cardinality(Taken') + Cardinality(InHand') = NCores
  BY DEF SemExact, Taken, InHand
<1> HIDE DEF c, T, H
<1>4. CASE Down(t)
  <2>1. sem' = sem - 1 /\ t \notin InHand /\ Taken' = Taken /\ InHand' = InHand \cup {t}
    BY <1>1, <1>4 DEF Down, At, InHand, Taken, IoctlType
  <2>2. Cardinality(InHand') = H + 1
    BY <2>1, Finite, FS_AddElement DEF H
  <2> QED BY <1>1, <1>2, <2>1, <2>2, Finite, HantroAssumption DEF T, H
<1>5. CASE GetDecCore(t)
  <2>1. t \in InHand /\ InHand' = InHand \ {t}
    BY <1>1, <1>5 DEF GetDecCore, Return, User, At, InHand
  <2>2. c \notin Taken /\ Taken' = Taken \cup {c}
    <3>1. k[t].file \in Files /\ dec_owner' = [dec_owner EXCEPT ![c] = k[t].file] /\ dec_owner[c] = NoFile
      BY <1>1, <1>5 DEF GetDecCore, Available, FileInv, ThreadsFit, At, c
    <3> QED BY <1>1, <3>1, HantroAssumption DEF Taken
  <2>3. Cardinality(InHand') = H - 1
    BY <2>1, Finite, FS_RemoveElement DEF H
  <2>4. Cardinality(Taken') = T + 1
    BY <2>2, Finite, FS_AddElement DEF T
  <2>5. sem' = sem
    BY <1>5 DEF GetDecCore
  <2> QED BY <1>1, <1>2, <2>3, <2>4, <2>5, Finite, HantroAssumption DEF T, H
<1>6. CASE ReleaseCore(t)
  <2>1. t \notin InHand /\ InHand' = InHand \cup {t}
    BY <1>1, <1>6 DEF ReleaseCore, Goto, At, InHand, IoctlType
  <2>2. c \in Taken /\ Taken' = Taken \ {c}
    <3>1. dec_owner[c] = f
      BY <1>1, <1>6 DEF ReleaseCore, At, GivesBack, FileInv, DecoderHas, ListenerHas, OfDecoder, OfListener, c
    <3>2. dec_owner' = [dec_owner EXCEPT ![c] = NoFile]
      BY <1>6 DEF ReleaseCore, c
    <3> QED BY <1>1, <3>1, <3>2, HantroAssumption DEF Taken
  <2>3. Cardinality(InHand') = H + 1
    BY <2>1, Finite, FS_AddElement DEF H
  <2>4. Cardinality(Taken') = T - 1
    BY <2>2, Finite, FS_RemoveElement DEF T
  <2>5. sem' = sem
    BY <1>6 DEF ReleaseCore
  <2> QED BY <1>1, <1>2, <2>3, <2>4, <2>5, Finite, HantroAssumption DEF T, H
<1>7. CASE ReleaseUp(t)
  <2> DEFINE kk == [k EXCEPT ![t] = User]
  <2>1. kk \in [Threads -> IoctlType] /\ kk[t].at = "user" /\ \A s \in Threads \ {t} : kk[s] = k[s]
    BY <1>1, IoctlTypes DEF User
  <2>2. k' = WakeDecWaitQueue(WakeHwQueue(kk)) /\ sem' = sem + 1 /\ dec_owner' = dec_owner /\ k[t].at = "up"
    BY <1>7 DEF ReleaseUp, At
  <2> HIDE DEF kk
  <2>3. \A s \in Threads : k'[s].at \in {"get", "sleep", "up"} <=> kk[s].at \in {"get", "sleep", "up"}
    <3>1. ASSUME NEW s \in Threads PROVE k'[s].at \in {"get", "sleep", "up"} <=> kk[s].at \in {"get", "sleep", "up"}
      <4>1. WakeHwQueue(kk) \in [Threads -> IoctlType]
        BY <2>1, WokenTypes DEF WakeHwQueue, Places
      <4>2. WakeHwQueue(kk)[s].at \in {"get", "sleep", "up"} <=> kk[s].at \in {"get", "sleep", "up"}
        BY <2>1 DEF WakeHwQueue, Woken, IoctlType
      <4>3. k'[s].at \in {"get", "sleep", "up"} <=> WakeHwQueue(kk)[s].at \in {"get", "sleep", "up"}
        BY <2>2, <4>1 DEF WakeDecWaitQueue, Woken, IoctlType
      <4> QED BY <4>2, <4>3
    <3> QED BY <3>1
  <2>4. t \in InHand /\ InHand' = InHand \ {t} /\ Taken' = Taken
    BY <1>1, <2>1, <2>2, <2>3 DEF InHand, Taken
  <2>5. Cardinality(InHand') = H - 1
    BY <2>4, Finite, FS_RemoveElement DEF H
  <2> QED BY <1>1, <1>2, <2>2, <2>4, <2>5, Finite, HantroAssumption DEF T, H
<1>8. CASE GetDecCoreFails(t) \/ CheckCoreIrq(t)
  <2>1. sem' = sem /\ dec_owner' = dec_owner
    BY <1>8 DEF GetDecCoreFails, CheckCoreIrq
  <2>2. InHand' = InHand
    <3>1. CASE GetDecCoreFails(t)
      <4>1. PICK x \in {[k[t] EXCEPT !.core = k[t].core + 1],
                        [k[t] EXCEPT !.at = "get", !.core = 0, !.woken = FALSE, !.found = FALSE],
                        [k[t] EXCEPT !.at = "sleep"]} : k[t].at = "get" /\ k' = [k EXCEPT ![t] = x]
        BY <1>1, <3>1 DEF GetDecCoreFails, Again, At
      <4>2. x.at \in {"get", "sleep"}
        BY <1>1, <4>1 DEF IoctlType
      <4> QED BY <1>1, <4>1, <4>2 DEF InHand
    <3>2. CASE CheckCoreIrq(t)
      <4>1. PICK x : k[t].at = "check" /\ k' = [k EXCEPT ![t] = x] /\ x.at \in {"user", "check", "wait"}
        <5> DEFINE found == k[t].found \/ dec_owner[k[t].core] = k[t].file
                   x1 == [User EXCEPT !.ret = k[t].core]
                   x2 == [User EXCEPT !.ret = EFAULT]
                   x3 == [k[t] EXCEPT !.core = k[t].core + 1, !.found = found]
                   x4 == [k[t] EXCEPT !.at = "check", !.core = 0, !.woken = FALSE, !.found = FALSE]
                   x5 == [k[t] EXCEPT !.at = "wait"]
        <5>1. k[t].at = "check" /\ \E x \in {x1, x2, x3, x4, x5} : k' = [k EXCEPT ![t] = x]
          BY <1>1, <3>2 DEF CheckCoreIrq, Again, Return, At
        <5>2. x1.at = "user" /\ x2.at = "user" /\ x3.at = "check" /\ x4.at = "check" /\ x5.at = "wait"
          BY <1>1, <5>1 DEF User, IoctlType
        <5> HIDE DEF x1, x2, x3, x4, x5
        <5> QED BY <5>1, <5>2
      <4> QED BY <1>1, <4>1 DEF InHand
    <3> QED BY <1>8, <3>1, <3>2
  <2>3. Taken' = Taken
    BY <2>1 DEF Taken
  <2> QED BY <1>2, <2>1, <2>2, <2>3 DEF T, H
<1> QED BY <1>4, <1>5, <1>6, <1>7, <1>8 DEF Kernel

\* No step of the driver enters ReserveDecoder.
LEMMA KernelReserve ==
  ASSUME TypeOK, NEW t \in Threads, NEW s \in Threads,
         Kernel(t) \/ k' = WakeDecWaitQueue(k), k'[s].at \in {"down", "get", "sleep"}
  PROVE  k[s].at \in {"down", "get", "sleep"}
<1>1. k \in [Threads -> IoctlType] /\ k[t] \in IoctlType
  BY DEF TypeOK, HantroTypeOK
<1>2. ASSUME NEW kk \in [Threads -> IoctlType]
      PROVE  /\ WakeDecWaitQueue(kk)[s].at \in {"down", "get", "sleep"} => kk[s].at \in {"down", "get", "sleep"}
             /\ WakeHwQueue(kk)[s].at \in {"down", "get", "sleep"} => kk[s].at \in {"down", "get", "sleep"}
  BY DEF WakeDecWaitQueue, WakeHwQueue, Woken, IoctlType
<1>3. CASE k' = WakeDecWaitQueue(k)
  BY <1>1, <1>2, <1>3
<1>4. CASE Down(t) \/ GetDecCore(t) \/ GetDecCoreFails(t)
  BY <1>1, <1>4 DEF Down, GetDecCore, GetDecCoreFails, Again, Return, At
<1>5. CASE ReleaseCore(t)
  BY <1>1, <1>5 DEF ReleaseCore, Goto, IoctlType
<1>6. CASE CheckCoreIrq(t)
  <2>1. s # t => k'[s] = k[s]
    BY <1>1, <1>6 DEF CheckCoreIrq, Again, Return
  <2>2. k'[t].at \in {"user", "check", "wait"}
    <3>1. \/ k' = [k EXCEPT ![t] = [User EXCEPT !.ret = k[t].core]]
          \/ k' = [k EXCEPT ![t] = [User EXCEPT !.ret = EFAULT]]
          \/ k[t].at = "check" /\ \E b : k' = [k EXCEPT ![t] = [k[t] EXCEPT !.core = k[t].core + 1, !.found = b]]
          \/ k' = [k EXCEPT ![t] = [k[t] EXCEPT !.at = "check", !.core = 0, !.woken = FALSE, !.found = FALSE]]
          \/ k' = [k EXCEPT ![t] = [k[t] EXCEPT !.at = "wait"]]
      BY <1>1, <1>6 DEF CheckCoreIrq, Again, Return, At
    <3>2. ASSUME NEW r, k' = [k EXCEPT ![t] = r] PROVE k'[t] = r
      BY <1>1, <3>2
    <3>3. ASSUME k[t].at = "check", NEW b, k' = [k EXCEPT ![t] = [k[t] EXCEPT !.core = k[t].core + 1, !.found = b]]
          PROVE  k'[t].at = "check"
      BY <1>1, <3>2, <3>3 DEF IoctlType
    <3>4. /\ k' = [k EXCEPT ![t] = [User EXCEPT !.ret = k[t].core]] => k'[t].at = "user"
          /\ k' = [k EXCEPT ![t] = [User EXCEPT !.ret = EFAULT]] => k'[t].at = "user"
      BY <3>2 DEF User
    <3>5. k' = [k EXCEPT ![t] = [k[t] EXCEPT !.at = "check", !.core = 0, !.woken = FALSE, !.found = FALSE]]
            => k'[t].at = "check"
      BY <1>1, <3>2 DEF IoctlType
    <3>6. k' = [k EXCEPT ![t] = [k[t] EXCEPT !.at = "wait"]] => k'[t].at = "wait"
      BY <1>1, <3>2 DEF IoctlType
    <3> QED BY <3>1, <3>3, <3>4, <3>5, <3>6
  <2> QED BY <2>1, <2>2
<1>7. CASE ReleaseUp(t)
  <2> DEFINE kk == [k EXCEPT ![t] = User]
  <2>1. kk \in [Threads -> IoctlType] /\ kk[t].at = "user" /\ (s # t => kk[s] = k[s])
    BY <1>1, IoctlTypes DEF User
  <2>2. WakeHwQueue(kk) \in [Threads -> IoctlType]
    BY <2>1, WokenTypes DEF WakeHwQueue, Places
  <2> HIDE DEF kk
  <2>3. k' = WakeDecWaitQueue(WakeHwQueue(kk))
    BY <1>7 DEF ReleaseUp, kk
  <2> QED BY <1>2, <2>1, <2>2, <2>3
<1> QED BY <1>3, <1>4, <1>5, <1>6, <1>7 DEF Kernel

SemInv == CoreInv /\ SemExact /\ \A f \in Files : NoLeak(f)

\* Every step keeps the sum of units, owned cores and threads between the two.
LEMMA SemStep ==
  ASSUME OneInstance, "zombie" \notin Allow, "leak" \notin Allow, SemInv, [Next]_vars PROVE SemInv'
<1>1. TypeOK /\ CoreInv /\ SemExact /\ (\A f \in Files : NoLeak(f)) /\ k \in [Threads -> IoctlType]
  BY DEF SemInv, CoreInv, TypeOK, HantroTypeOK
<1>2. CoreInv'
  BY <1>1, CoreStep
<1>3. CASE UNCHANGED vars
  <2>1. UNCHANGED <<sem, dec_owner, k, killed>>
    BY <1>3 DEF vars, driver, dwl
  <2>2. SemExact'
    BY <1>1, <2>1, SemKept
  <2> QED BY <1>1, <1>2, <2>1, <2>2 DEF SemInv, NoLeak, InReserve
<1>4. ASSUME NEW f \in Files, UserSpace(f) PROVE SemInv'
  <2>1. /\ sem' = sem /\ dec_owner' = dec_owner /\ killed' = killed
        /\ \A t \in Threads : \/ k'[t] = k[t]
                              \/ k[t].at = "user" /\ k'[t].at \in {"user", "check", "release"}
                              \/ /\ k[t].at = "user" /\ k'[t].at = "down"
                                 /\ t = Dec(f) /\ ~killed[Process[f]]
    BY <1>1, <1>4, UserSteps
  <2>2. SemExact'
    BY <1>1, <2>1, SemKept
  <2>3. ASSUME NEW g \in Files PROVE NoLeak(g)'
    <3>1. Dec(g) = Dec(f) => g = f
      BY ThreadNames
    <3> QED BY <1>1, <2>1, <3>1, ThreadNames DEF NoLeak, InReserve
  <2> QED BY <1>2, <2>2, <2>3 DEF SemInv
<1>5. ASSUME NEW f \in Files, NEW t \in {Dec(f), Lis(f)}, InKernel(t) PROVE SemInv'
  <2>1. SemExact'
    BY <1>1, <1>5, KernelCounts DEF InKernel
  <2>2. killed' = killed /\ t \in Threads
    BY <1>5, ThreadNames DEF InKernel, dwl
  <2>3. ASSUME NEW g \in Files PROVE NoLeak(g)'
    BY <1>1, <1>5, <2>2, KernelReserve, ThreadNames DEF NoLeak, InReserve, InKernel
  <2> QED BY <1>2, <2>1, <2>3 DEF SemInv
<1>6. ASSUME NEW f \in Files, Signalled(f) PROVE SemInv'
  <2>1. killed[Process[f]] /\ UNCHANGED dwl
    BY <1>6 DEF Signalled
  <2>2. PICK t \in {Dec(f), Lis(f)} : Interrupted(t)
    BY <1>6 DEF Signalled
  <2>3. t = Lis(f) /\ k[t].at = "wait" /\ t \in Threads
    BY <1>1, <2>1, <2>2, ThreadNames DEF Interrupted, NoLeak, InReserve, CoreInv, FileInv, ThreadsFit
  <2>4. /\ sem' = sem /\ dec_owner' = dec_owner /\ killed' = killed /\ k'[t].at = "user"
        /\ \A s \in Threads \ {t} : k'[s] = k[s]
    BY <1>1, <2>1, <2>2, <2>3 DEF Interrupted, Return, User, dwl
  <2>5. SemExact'
    BY <1>1, <2>3, <2>4, SemKept
  <2>6. \A g \in Files : NoLeak(g)'
    BY <1>1, <2>3, <2>4, ThreadNames DEF NoLeak, InReserve
  <2> QED BY <1>2, <2>5, <2>6 DEF SemInv
<1>7. ASSUME NEW p \in Processes, Kill(p) PROVE SemInv'
  <2>1. /\ UNCHANGED <<sem, dec_owner, k, dec>> /\ killed' = [killed EXCEPT ![p] = TRUE] /\ Instances(p) # {}
        /\ \A f \in Instances(p) : ~InReserve(f)
    BY <1>7 DEF Kill, driver
  <2>2. SemExact'
    BY <1>1, <2>1, SemKept
  <2>3. ASSUME NEW g \in Files PROVE NoLeak(g)'
    <3>1. CASE Process[g] = p
      <4>1. g \in Instances(p)
        BY <2>1, <3>1 DEF OneInstance, Instances
      <4> QED BY <2>1, <4>1 DEF NoLeak, InReserve
    <3>2. CASE Process[g] # p
      <4>1. killed'[Process[g]] = killed[Process[g]]
        BY <1>1, <2>1, <3>2, Typing DEF TypeOK
      <4> QED BY <1>1, <2>1, <4>1 DEF NoLeak, InReserve
    <3> QED BY <3>1, <3>2
  <2> QED BY <1>2, <2>2, <2>3 DEF SemInv
<1>8. CASE Hardware
  <2>1. UNCHANGED <<sem, dec_owner, k, killed>>
    BY <1>8 DEF Hardware, HwFinish, HwTimeout, dwl
  <2>2. SemExact'
    BY <1>1, <2>1, SemKept
  <2> QED BY <1>1, <1>2, <2>1, <2>2 DEF SemInv, NoLeak, InReserve
<1>9. CASE Interrupt
  <2>1. sem' = sem /\ dec_owner' = dec_owner /\ killed' = killed /\ k' = WakeDecWaitQueue(k)
    BY <1>9 DEF Interrupt, HantroIsr, dwl
  <2>2. \A t \in Threads : k'[t].at \in {"get", "sleep", "up"} <=> k[t].at \in {"get", "sleep", "up"}
    BY <1>1, <2>1 DEF WakeDecWaitQueue, Woken, IoctlType
  <2>3. SemExact'
    BY <1>1, <2>1, <2>2, SemKept
  <2>4. ASSUME NEW g \in Files PROVE NoLeak(g)'
    BY <1>1, <2>1, KernelReserve, ThreadNames DEF NoLeak, InReserve
  <2> QED BY <1>2, <2>3, <2>4 DEF SemInv
<1>10. ASSUME NEW f \in Files, Decoder(f) \/ Listener(f) PROVE SemInv'
  BY <1>4, <1>5, <1>10 DEF Decoder, Listener, UserSpace
<1> QED BY <1>3, <1>4, <1>6, <1>7, <1>8, <1>9, <1>10 DEF Next, UserSpace

\* ReserveDecoder and ReleaseDecoder lose no unit of dec_core_sem: every core
\* that is given back can be reserved again.
THEOREM SemaphoreExact ==
  ASSUME OneInstance, "zombie" \notin Allow, "leak" \notin Allow PROVE Spec => []SemExact
<1>1. Init => SemInv
  <2> SUFFICES ASSUME Init PROVE SemInv
    OBVIOUS
  <2>1. Taken = {} /\ InHand = {}
    BY DEF Init, HantroInit, Taken, InHand, User
  <2>2. SemExact
    <3>1. Cardinality(Taken) = 0 /\ Cardinality(InHand) = 0
      BY <2>1, FS_EmptySet
    <3>2. sem + Cardinality(Taken) + Cardinality(InHand) = NCores
      BY <3>1, HantroAssumption DEF Init, HantroInit
    <3> QED BY <3>2 DEF SemExact, Taken, InHand
  <2>3. \A f \in Files : NoLeak(f)
    BY DwlAssumption DEF Init, NoLeak
  <2> QED BY <2>2, <2>3, CoreInit DEF SemInv
<1>2. SemInv /\ [Next]_vars => SemInv'
  BY SemStep
<1>3. SemInv => SemExact
  BY DEF SemInv
<1> QED BY <1>1, <1>2, <1>3, PTL DEF Spec
-----------------------------------------------------------------------------
(* The registers that end a picture                                          *)

\* A step that gives no core a timeout or an abort.
LEMMA StaysPunctual ==
  ASSUME Punctual, dec_owner' = dec_owner,
         \A c \in Cores : \/ hw'[c] = hw[c] \/ hw'[c] \in {"idle", "run", "irq"} \/ dec_owner[c] \notin MultiCore
  PROVE  Punctual'
BY DEF Punctual

\* The decoding thread does not touch the listener, and only starts a core.
LEMMA DecoderRegs ==
  ASSUME RegsInv, NEW f \in Files,
         \/ DWLInit(f) \/ DWLRelease(f) \/ EndOfStream(f) \/ DWLReserveHw(f) \/ DWLEnableHw(f)
         \/ DWLWaitHwReady(f) \/ ReserveNext(f) \/ ReleaseNext(f) \/ Close(f) \/ DecoderDies(f)
  PROVE  Punctual' /\ \A g \in Files : RegsFit(g)'
<1>1. TypeOK /\ FileInv(f) /\ Punctual /\ \A g \in Files : RegsFit(g)
  BY DEF RegsInv, CoreInv
<1>2. hw \in [Cores -> HwStates] /\ lis \in [Files -> LisType]
  BY <1>1 DEF TypeOK, HantroTypeOK
<1>3. ASSUME NEW t, NEW g, NEW c, DecRelease(t, g, c) PROVE hw' = hw /\ dec_owner' = dec_owner
  BY <1>3 DEF DecRelease, Call
<1>4. ASSUME NEW t, NEW g, NEW m, DecReserve(t, g, m) PROVE hw' = hw /\ dec_owner' = dec_owner
  BY <1>4 DEF DecReserve, Call
<1>5. CASE DWLEnableHw(f)
  <2> DEFINE c == k[Dec(f)].ret
  <2>1. hw' = [hw EXCEPT ![c] = "run"] /\ dec_owner' = dec_owner /\ lis' = lis
    BY <1>5 DEF DWLEnableHw, DecFlushRegs
  <2>2. \A d \in Cores : hw'[d] \in {hw[d], "run"}
    BY <1>2, <2>1
  <2>3. Punctual'
    BY <1>1, <2>1, <2>2, StaysPunctual
  <2> QED BY <1>1, <2>1, <2>3 DEF RegsFit
<1>6. CASE DWLInit(f)
  <2>1. dec_owner' = dec_owner /\ hw' = hw /\ (lis' = lis \/ lis' = [lis EXCEPT ![f].at = "loop"])
    BY <1>6 DEF DWLInit, LisGoto, driver
  <2>2. Punctual'
    BY <1>1, <2>1, StaysPunctual
  <2>3. \A g \in Files : lis'[g] = lis[g] \/ lis'[g].at = "loop"
    BY <1>2, <2>1 DEF LisType
  <2> QED BY <1>1, <2>2, <2>3 DEF RegsFit
<1>7. CASE \/ DWLRelease(f) \/ EndOfStream(f) \/ DWLReserveHw(f) \/ DWLWaitHwReady(f) \/ ReserveNext(f)
           \/ ReleaseNext(f) \/ Close(f) \/ DecoderDies(f)
  <2>1. dec_owner' = dec_owner /\ hw' = hw /\ lis' = lis
    <3>1. CASE DWLRelease(f) \/ DecoderDies(f)
      BY <3>1 DEF DWLRelease, DecoderDies, driver
    <3>2. CASE EndOfStream(f) \/ DWLReserveHw(f) \/ ReserveNext(f)
      BY <1>4, <3>2 DEF EndOfStream, DWLReserveHw, ReserveNext
    <3>3. CASE DWLWaitHwReady(f) \/ ReleaseNext(f) \/ Close(f)
      BY <1>3, <3>3 DEF DWLWaitHwReady, ReleaseNext, Close, driver
    <3> QED BY <1>7, <3>1, <3>2, <3>3
  <2> QED BY <1>1, <2>1, StaysPunctual DEF RegsFit
<1> QED BY <1>5, <1>6, <1>7

\* The listener of several cores finds every core it is told of idle; the
\* listener of one core is told again of the core that it has aborted.
LEMMA ListenerRegs ==
  ASSUME RegsInv, NEW f \in Files,
         \/ Listen(f) \/ ReadStatus(f) \/ Aborted(f) \/ CallBack(f) \/ PostReady(f) \/ ListenerDies(f)
  PROVE  Punctual' /\ \A g \in Files : RegsFit(g)'
<1>1. TypeOK /\ CoresFit /\ FileInv(f) /\ Punctual /\ RegsFit(f) /\ \A g \in Files : RegsFit(g)
  BY DEF RegsInv, CoreInv
<1>2. hw \in [Cores -> HwStates] /\ lis \in [Files -> LisType]
  BY <1>1 DEF TypeOK, HantroTypeOK
<1>3. ASSUME NEW y, lis' = [lis EXCEPT ![f] = y],
             y.at \in {"pull", "post"} => y.regs = y.core, f \in MultiCore => y.at # "again"
      PROVE  \A g \in Files : RegsFit(g)'
  <2>1. lis'[f] = y /\ \A g \in Files \ {f} : lis'[g] = lis[g]
    BY <1>2, <1>3
  <2> QED BY <1>1, <1>3, <2>1 DEF RegsFit
<1>4. ASSUME NEW place \in {"end", "loop", "irq", "post"}, LisGoto(f, place),
             place = "post" => lis[f].regs = lis[f].core
      PROVE  \A g \in Files : RegsFit(g)'
  <2> DEFINE y == [lis[f] EXCEPT !.at = place]
  <2>1. lis[f] \in LisType
    BY <1>2
  <2>2. lis' = [lis EXCEPT ![f] = y] /\ y.at = place /\ y.core = lis[f].core /\ y.regs = lis[f].regs
    BY <1>2, <1>4, <2>1 DEF LisGoto, LisType
  <2> HIDE DEF y
  <2> QED BY <1>3, <1>4, <2>2
<1>5. CASE Listen(f)
  <2>1. dec_owner' = dec_owner /\ hw' = hw /\ \E place \in {"end", "loop", "irq"} : LisGoto(f, place)
    BY <1>5 DEF Listen, CoreWait, Call, driver
  <2>2. PICK place \in {"end", "loop", "irq"} : LisGoto(f, place)
    BY <2>1
  <2>3. \A g \in Files : RegsFit(g)'
    BY <1>4, <2>2
  <2> QED BY <1>1, <2>1, <2>3, StaysPunctual
<1>6. CASE ReadStatus(f)
  <2> DEFINE c == k[Lis(f)].ret
  <2>1. lis[f].at = "irq" /\ k[Lis(f)].at = "user" /\ c >= 0
    BY <1>6 DEF ReadStatus, Hears, At
  <2>2. c \in Cores
    BY <1>1, <2>1, Typing, CoreNumbers
  <2>3. dec_owner[c] = f /\ hw[c] \in {"idle", "hung"}
    BY <1>1, <2>1, <2>2 DEF FileInv, ListenerHas, OfListener, Heard, At
  <2>4. f \in MultiCore => hw[c] = "idle"
    BY <1>1, <2>2, <2>3 DEF Punctual
  <2> HIDE DEF c
  <2>5. CASE LisGoto(f, "end") /\ UNCHANGED driver
    <3>1. \A g \in Files : RegsFit(g)'
      BY <1>4, <2>5
    <3> QED BY <1>1, <2>5, <3>1, StaysPunctual DEF driver
  <2>6. CASE /\ hw[c] = "hung" /\ lis' = [lis EXCEPT ![f] = [at |-> "again", core |-> c, regs |-> c]]
             /\ AbortAndWait(Lis(f), fd[Process[f]], c)
    <3>1. \A g \in Files : RegsFit(g)'
      BY <1>3, <2>4, <2>6
    <3>2. dec_owner' = dec_owner /\ \A d \in Cores : hw'[d] = hw[d] \/ d = c
      BY <1>2, <2>2, <2>6 DEF AbortAndWait
    <3>3. f \notin MultiCore
      BY <2>4, <2>6
    <3> QED BY <1>1, <2>3, <3>1, <3>2, <3>3, StaysPunctual
  <2>7. CASE UNCHANGED driver /\ lis' = [lis EXCEPT ![f] = [at |-> "pull", core |-> c, regs |-> c]]
    <3>1. \A g \in Files : RegsFit(g)'
      BY <1>3, <2>7
    <3> QED BY <1>1, <2>7, <3>1, StaysPunctual DEF driver
  <2> QED BY <1>6, <2>3, <2>5, <2>6, <2>7 DEF ReadStatus, c
<1>7. CASE Aborted(f)
  <2> DEFINE c == k[Lis(f)].ret  y == [lis[f] EXCEPT !.at = "pull", !.core = c]
  <2>1. /\ lis[f].at = "again" /\ k[Lis(f)].at = "user" /\ ~killed[Process[f]] /\ UNCHANGED driver
        /\ lis' = [lis EXCEPT ![f].at = "pull", ![f].core = c]
    BY <1>7 DEF Aborted, Hears, At
  <2>2. c \in Cores /\ f \notin MultiCore /\ lis[f].regs \in Owned(f)
    BY <1>1, <2>1, Typing DEF FileInv, Aborts, At, RegsFit, Owned
  <2>3. c \in OfListener(f)
    BY <2>1, <2>2 DEF Heard, OfListener, At
  <2>4. lis[f].regs = c
    BY <1>1, <2>1, <2>2, <2>3, WaitsForHeard
  <2>5. lis' = [lis EXCEPT ![f] = y] /\ y.at = "pull" /\ y.core = c /\ y.regs = c
    BY <1>1, <1>2, <2>1, <2>4, Typing DEF LisType
  <2> HIDE DEF c, y
  <2>6. \A g \in Files : RegsFit(g)'
    BY <1>3, <2>2, <2>5
  <2> QED BY <1>1, <2>1, <2>6, StaysPunctual DEF driver
<1>8. CASE CallBack(f) \/ PostReady(f) \/ ListenerDies(f)
  <2>1. dec_owner' = dec_owner /\ hw' = hw
    BY <1>8 DEF CallBack, PostReady, ListenerDies, Post, DecRelease, Call, driver
  <2>2. \/ lis' = [lis EXCEPT ![f] = Silent("loop")] \/ lis' = [lis EXCEPT ![f] = Silent("end")]
        \/ lis[f].at = "pull" /\ LisGoto(f, "post")
    BY <1>8 DEF CallBack, PostReady, ListenerDies, Post, Hears
  <2>3. CASE lis[f].at = "pull" /\ LisGoto(f, "post")
    <3>1. lis[f].regs = lis[f].core
      BY <1>1, <2>3 DEF RegsFit
    <3>2. \A g \in Files : RegsFit(g)'
      BY <1>4, <2>3, <3>1
    <3> QED BY <1>1, <2>1, <3>2, StaysPunctual
  <2>4. CASE lis' = [lis EXCEPT ![f] = Silent("loop")] \/ lis' = [lis EXCEPT ![f] = Silent("end")]
    <3>1. \A g \in Files : RegsFit(g)'
      BY <1>3, <2>4 DEF Silent
    <3> QED BY <1>1, <2>1, <3>1, StaysPunctual
  <2> QED BY <2>2, <2>3, <2>4
<1> QED BY <1>5, <1>6, <1>7, <1>8

\* A core is idle when it is given away, and its timeout is the only way to hang.
LEMMA DriverRegs ==
  ASSUME RegsInv, "late" \notin Allow, UNCHANGED lis,
         \/ \E t \in Threads : Kernel(t) \/ Interrupted(t)
         \/ \E p \in Processes : Kill(p)
         \/ Hardware \/ Interrupt
  PROVE  Punctual' /\ \A g \in Files : RegsFit(g)'
<1>1. TypeOK /\ CoresFit /\ Punctual /\ \A g \in Files : RegsFit(g)
  BY DEF RegsInv, CoreInv
<1>2. hw \in [Cores -> HwStates] /\ dec_owner \in [Cores -> Files \cup {NoFile}] /\ NoFile \notin MultiCore
      /\ \A t \in Threads : k[t].core \in Cores
  BY <1>1, HantroAssumption, DwlAssumption DEF TypeOK, HantroTypeOK, IoctlType
<1>3. \A g \in Files : RegsFit(g)'
  BY <1>1 DEF RegsFit
<1>4. ASSUME NEW t \in Threads, GetDecCore(t) PROVE Punctual'
  <2> DEFINE c == k[t].core
  <2>1. hw' = hw /\ c \in Cores /\ dec_owner[c] = NoFile /\ \A d \in Cores \ {c} : dec_owner'[d] = dec_owner[d]
    BY <1>2, <1>4 DEF GetDecCore, Available
  <2>2. hw[c] = "idle"
    BY <1>1, <2>1 DEF CoresFit, CoreFits
  <2> QED BY <1>1, <2>1, <2>2 DEF Punctual
<1>5. ASSUME NEW t \in Threads, ReleaseCore(t) PROVE Punctual'
  <2> DEFINE c == k[t].core
  <2>1. /\ c \in Cores /\ dec_owner'[c] = NoFile
        /\ \A d \in Cores \ {c} : dec_owner'[d] = dec_owner[d] /\ hw'[d] = hw[d]
    BY <1>2, <1>5 DEF ReleaseCore
  <2> QED BY <1>1, <1>2, <2>1 DEF Punctual
<1>6. ASSUME NEW t \in Threads, Down(t) \/ GetDecCoreFails(t) \/ ReleaseUp(t) \/ CheckCoreIrq(t) \/ Interrupted(t)
      PROVE Punctual'
  <2>1. hw' = hw /\ dec_owner' = dec_owner
    BY <1>6 DEF Down, GetDecCoreFails, ReleaseUp, CheckCoreIrq, Interrupted
  <2> QED BY <1>1, <2>1, StaysPunctual
<1>7. ASSUME NEW p \in Processes, Kill(p) PROVE Punctual'
  BY <1>1, <1>7, StaysPunctual DEF Kill, driver
<1>8. CASE Hardware
  <2>1. PICK c \in Cores : HwFinish(c) \/ (HwTimeout(c) /\ dec_owner[c] \notin MultiCore)
    BY <1>8 DEF Hardware
  <2>2. dec_owner' = dec_owner /\ \A d \in Cores : hw'[d] = hw[d] \/ hw'[d] = "irq" \/ dec_owner[d] \notin MultiCore
    BY <1>2, <2>1 DEF HwFinish, HwTimeout
  <2> QED BY <1>1, <1>3, <2>2 DEF Punctual
<1>9. CASE Interrupt
  <2>1. dec_owner' = dec_owner /\ \A d \in Cores : hw'[d] = hw[d] \/ hw'[d] = "idle" \/ hw[d] = "late"
    BY <1>9 DEF Interrupt, HantroIsr
  <2> QED BY <1>1, <1>3, <2>1 DEF Punctual
<1> QED BY <1>3, <1>4, <1>5, <1>6, <1>7, <1>8, <1>9 DEF Kernel

\* Every step keeps the listener at the registers of the core it was told of.
LEMMA RegsStep ==
  ASSUME OneInstance, "zombie" \notin Allow, "late" \notin Allow, RegsInv, [Next]_vars PROVE RegsInv'
<1>1. CoreInv'
  BY CoreStep DEF RegsInv
<1>2. SUFFICES Punctual' /\ \A g \in Files : RegsFit(g)'
  BY <1>1 DEF RegsInv
<1>3. CASE UNCHANGED vars
  BY <1>3 DEF vars, driver, dwl, RegsInv, Punctual, RegsFit
<1>4. ASSUME NEW f \in Files, NEW t \in {Dec(f), Lis(f)}, InKernel(t) \/ (Interrupted(t) /\ UNCHANGED dwl)
      PROVE Punctual' /\ \A g \in Files : RegsFit(g)'
  <2>1. t \in Threads /\ UNCHANGED lis /\ (Kernel(t) \/ Interrupted(t))
    BY <1>4, ThreadNames DEF InKernel, dwl
  <2> QED BY <2>1, DriverRegs
<1>5. ASSUME NEW f \in Files, Decoder(f) \/ Listener(f) PROVE Punctual' /\ \A g \in Files : RegsFit(g)'
  BY <1>4, <1>5, DecoderRegs, ListenerRegs DEF Decoder, Listener
<1>6. ASSUME NEW f \in Files, DWLInit(f) \/ DWLRelease(f) \/ EndOfStream(f)
      PROVE Punctual' /\ \A g \in Files : RegsFit(g)'
  BY <1>6, DecoderRegs
<1>7. ASSUME NEW f \in Files, Signalled(f) PROVE Punctual' /\ \A g \in Files : RegsFit(g)'
  BY <1>4, <1>7 DEF Signalled
<1>8. ASSUME \/ \E p \in Processes : Kill(p)
             \/ Hardware \/ Interrupt
      PROVE Punctual' /\ \A g \in Files : RegsFit(g)'
  <2>1. UNCHANGED lis
    BY <1>8 DEF Kill, Hardware, Interrupt, dwl
  <2> QED BY <1>8, <2>1, DriverRegs
<1> QED BY <1>3, <1>5, <1>6, <1>7, <1>8 DEF Next

\* The listener ends a picture with the registers of the core that decoded it,
\* unless a core of a multi-core instance runs out of time: WaitCoreReady may then
\* report another core of the instance to the listener that has aborted the first.
THEOREM ListenerPullsItsCore ==
  ASSUME OneInstance, "zombie" \notin Allow, "late" \notin Allow PROVE Spec => []RegsOfCore
<1>1. Init => RegsInv
  BY CoreInit DEF Init, HantroInit, RegsInv, Punctual, RegsFit, Silent
<1>2. RegsInv /\ [Next]_vars => RegsInv'
  BY RegsStep
<1>3. RegsInv => RegsOfCore
  BY DEF RegsInv, RegsFit, RegsOfCore
<1> QED BY <1>1, <1>2, <1>3, PTL DEF Spec
=============================================================================
