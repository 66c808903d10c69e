------------------------ MODULE DecoderBufferProofs -------------------------
(***************************************************************************)
(* Proofs about the buffers of a decoder: who has one, and that nobody     *)
(* else works on it meanwhile.                                             *)
(*                                                                         *)
(* The invariant accounts for every allocated buffer of a port: it is with *)
(* the client, in the queue, or on its way between the two, and in one     *)
(* place only.  The place that the output thread has delivered and not yet *)
(* popped does not count.  That accounting survives the return of all      *)
(* buffers only because the output thread has nothing to deliver then, and *)
(* why it has not is what the phases of the codec and the order of the     *)
(* steps of a plan are for.                                                *)
(***************************************************************************)
EXTENDS DecoderProofs

\* A client as in PlainClient that disables ports only when asked to, hands buffers
\* over only while the component executes, flushes all ports at once, and has as
\* many output buffers as the codec wants; its stream keeps its headers.  (What
\* fails without one of these is told in the README.)
PlayingClient ==
  /\ PlainClient /\ Allow = {} /\ FillStates \subseteq {"Executing"}
  /\ \A x \in Legal : x[2][1] = "Flush" => x[2][2] = "all"
  /\ CountMin = Cardinality(OutBufs)

-----------------------------------------------------------------------------
(* Sequences without some of their places *)

Left(s, K) == {s[i] : i \in DOMAIN s \ K}
Apart(s, K) == \A i, j \in DOMAIN s \ K : s[i] = s[j] => i = j

\* No place left out
LEMMA LeftRange == ASSUME NEW s PROVE Left(s, {}) = Range(s)
BY DEF Left, Range

\* One place left out of a sequence without repetition
LEMMA OneLess ==
  ASSUME NEW s, NEW i \in DOMAIN s, Apart(s, {})
  PROVE  Left(s, {i}) = Range(s) \ {s[i]} /\ Apart(s, {i}) /\ s[i] \in Range(s)
BY DEF Left, Range, Apart

\* An empty sequence
LEMMA EmptyLeft ==
  ASSUME NEW K PROVE Range(<<>>) = {} /\ Left(<<>>, K) = {} /\ Apart(<<>>, K)
BY DEF Range, Left, Apart

\* An element is appended.
LEMMA AppendLeft ==
  ASSUME NEW S, NEW s \in Seq(S), NEW b \in S, NEW K, K \subseteq DOMAIN s
  PROVE  /\ Append(s, b) \in Seq(S) /\ Len(Append(s, b)) = Len(s) + 1
         /\ \A i \in DOMAIN s : i \in DOMAIN Append(s, b) /\ Append(s, b)[i] = s[i]
         /\ Append(s, b)[Len(s) + 1] = b
         /\ Left(Append(s, b), K) = Left(s, K) \cup {b}
         /\ Apart(s, K) /\ b \notin Left(s, K) => Apart(Append(s, b), K)
         /\ Range(Append(s, b)) = Range(s) \cup {b}
<1> DEFINE t == Append(s, b)
<1>1. /\ t \in Seq(S) /\ Len(t) = Len(s) + 1 /\ Len(s) \in Nat /\ t[Len(s) + 1] = b
      /\ \A i \in DOMAIN s : t[i] = s[i]
      /\ DOMAIN s = 1 .. Len(s)
  OBVIOUS
<1>2. DOMAIN t = DOMAIN s \cup {Len(s) + 1} /\ Len(s) + 1 \notin DOMAIN s
  BY <1>1
<1> HIDE DEF t
<1>3. Left(t, K) = Left(s, K) \cup {b}
  BY <1>1, <1>2 DEF Left
<1>4. Apart(s, K) /\ b \notin Left(s, K) => Apart(t, K)
  BY <1>1, <1>2 DEF Left, Apart
<1>5. Range(t) = Range(s) \cup {b}
  BY <1>1, <1>2 DEF Range
<1> QED BY <1>1, <1>2, <1>3, <1>4, <1>5 DEF t

LEMMA AppendRange ==
  ASSUME NEW S, NEW s \in Seq(S), NEW b \in S PROVE Range(Append(s, b)) = Range(s) \cup {b}
<1>1. Left(Append(s, b), {}) = Left(s, {}) \cup {b}
  BY AppendLeft
<1> QED BY <1>1, LeftRange

\* A place is removed.
LEMMA RemoveLeft ==
  ASSUME NEW S, NEW s \in Seq(S), NEW i \in DOMAIN s
  PROVE  /\ RemoveAt(s, i) \in Seq(S) /\ Len(RemoveAt(s, i)) = Len(s) - 1
         /\ Range(RemoveAt(s, i)) = Left(s, {i})
         /\ Apart(s, {i}) => Apart(RemoveAt(s, i), {})
<1> DEFINE t == RemoveAt(s, i)
           u(j) == IF j < i THEN j ELSE j + 1
<1>1. i \in 1 .. Len(s) /\ Len(s) \in Nat /\ DOMAIN s = 1 .. Len(s)
  OBVIOUS
<1>2. t \in Seq(S) /\ Len(t) = Len(s) - 1
  BY <1>1, RemoveAtElems
<1>3. DOMAIN t = 1 .. Len(s) - 1
  BY <1>1, <1>2
<1>4. ASSUME NEW j \in DOMAIN t PROVE u(j) \in DOMAIN s \ {i} /\ t[j] = s[u(j)]
  <2>1. t[j] = IF j < i THEN s[j] ELSE s[j + 1]
    BY <1>1, <1>3, RemoveAtElems
  <2> QED BY <1>1, <1>3, <2>1
<1>5. ASSUME NEW m \in DOMAIN s \ {i} PROVE \E j \in DOMAIN t : u(j) = m
  <2>1. CASE m < i
    BY <1>1, <1>3, <2>1
  <2>2. CASE m > i
    <3>1. m - 1 \in DOMAIN t /\ u(m - 1) = m
      BY <1>1, <1>3, <2>2
    <3> QED BY <3>1
  <2> QED BY <1>1, <2>1, <2>2
<1>6. \A j, m \in DOMAIN t : u(j) = u(m) => j = m
  BY <1>1, <1>3
<1> HIDE DEF t, u
<1>7. Range(t) = Left(s, {i})
  BY <1>4, <1>5 DEF Range, Left
<1>8. Apart(s, {i}) => Apart(t, {})
  BY <1>4, <1>6 DEF Apart
<1> QED BY <1>2, <1>7, <1>8 DEF t

-----------------------------------------------------------------------------
(* The accounts of the two ports *)

\* The buffers bs of the in port: h with the client, q in the queue, and prevBuffer pv.
InAccount(q, bs, h, pv) ==
  /\ Apart(q, {}) /\ Apart(bs, {})
  /\ Range(q) \cap h = {} /\ pv \notin Range(q) /\ pv \notin h
  /\ Range(bs) = h \cup Range(q) \cup ({pv} \ {NULL})

\* The buffers bs of the out port: h with the client, q in the queue except for the
\* places g that were delivered, and P on their way into the queue.
OutAccount(q, g, bs, h, P) ==
  /\ Apart(q, g) /\ Apart(bs, {})
  /\ (Left(q, g) \cup P) \cap h = {} /\ P \cap Left(q, g) = {}
  /\ Range(bs) = h \cup Left(q, g) \cup P

\* A buffer is allocated for the in port, and freed.
LEMMA InAllocated ==
  ASSUME NEW S, NEW q, NEW bs \in Seq(S), NEW h, NEW pv, InAccount(q, bs, h, pv),
         NEW b \in S, b \notin Range(bs), b # NULL
  PROVE  InAccount(q, Append(bs, b), h \cup {b}, pv)
<1>1. /\ Range(Append(bs, b)) = Range(bs) \cup {b}
      /\ Apart(Append(bs, b), {})
  BY AppendLeft, LeftRange DEF InAccount
<1> QED BY <1>1 DEF InAccount

LEMMA InFreed ==
  ASSUME NEW S, NEW q, NEW bs \in Seq(S), NEW h, NEW pv, InAccount(q, bs, h, pv),
         NEW i \in DOMAIN bs, bs[i] \in h
  PROVE  InAccount(q, RemoveAt(bs, i), h \ {bs[i]}, pv)
<1>1. /\ Range(RemoveAt(bs, i)) = Range(bs) \ {bs[i]}
      /\ Apart(RemoveAt(bs, i), {})
  <2>1. Apart(bs, {})
    BY DEF InAccount
  <2>2. Left(bs, {i}) = Range(bs) \ {bs[i]} /\ Apart(bs, {i})
    BY <2>1, OneLess
  <2> QED BY <2>2, RemoveLeft
<1> QED BY <1>1 DEF InAccount

\* EmptyThisBuffer
LEMMA InPushed ==
  ASSUME NEW S, NEW q \in Seq(S), NEW bs, NEW h, NEW pv, InAccount(q, bs, h, pv),
         NEW b \in S, b \in h
  PROVE  InAccount(Append(q, b), bs, h \ {b}, pv)
<1>1. /\ Range(Append(q, b)) = Range(q) \cup {b}
      /\ Apart(Append(q, b), {})
  BY AppendLeft, LeftRange DEF InAccount
<1> QED BY <1>1 DEF InAccount

\* The queue and prevBuffer go back to the client, or prevBuffer only.
LEMMA InReturned ==
  ASSUME NEW q, NEW bs, NEW h, NEW pv, InAccount(q, bs, h, pv), NULL \notin Range(bs)
  PROVE  /\ InAccount(<<>>, bs, h \cup Range(q) \cup ({pv} \ {NULL}), NULL)
         /\ InAccount(q, bs, h \cup ({pv} \ {NULL}), NULL)
BY EmptyLeft DEF InAccount

\* A buffer has been decoded and becomes prevBuffer.
LEMMA InFinished ==
  ASSUME NEW S, NEW q \in Seq(S), NEW bs, NEW h, NEW pv, InAccount(q, bs, h, pv),
         1 \in DOMAIN q, NULL \notin S
  PROVE  InAccount(RemoveAt(q, 1), bs, h \cup ({pv} \ {NULL}), q[1])
<1>1. /\ Range(RemoveAt(q, 1)) = Range(q) \ {q[1]} /\ q[1] \in Range(q)
      /\ Apart(RemoveAt(q, 1), {})
  <2>1. Apart(q, {})
    BY DEF InAccount
  <2>2. Left(q, {1}) = Range(q) \ {q[1]} /\ Apart(q, {1}) /\ q[1] \in Range(q)
    BY <2>1, OneLess
  <2> QED BY <2>2, RemoveLeft
<1>2. q[1] # NULL
  OBVIOUS
<1> QED BY <1>1, <1>2 DEF InAccount

\* A buffer is allocated for the out port, and freed.
LEMMA OutAllocated ==
  ASSUME NEW S, NEW q, NEW g, NEW bs \in Seq(S), NEW h, NEW P, OutAccount(q, g, bs, h, P),
         NEW b \in S, b \notin Range(bs)
  PROVE  OutAccount(q, g, Append(bs, b), h \cup {b}, P)
<1>1. /\ Range(Append(bs, b)) = Range(bs) \cup {b}
      /\ Apart(Append(bs, b), {})
  BY AppendLeft, LeftRange DEF OutAccount
<1> QED BY <1>1 DEF OutAccount

LEMMA OutFreed ==
  ASSUME NEW S, NEW q, NEW g, NEW bs \in Seq(S), NEW h, NEW P, OutAccount(q, g, bs, h, P),
         NEW i \in DOMAIN bs, bs[i] \in h
  PROVE  OutAccount(q, g, RemoveAt(bs, i), h \ {bs[i]}, P)
<1>1. /\ Range(RemoveAt(bs, i)) = Range(bs) \ {bs[i]}
      /\ Apart(RemoveAt(bs, i), {})
  <2>1. Apart(bs, {})
    BY DEF OutAccount
  <2>2. Left(bs, {i}) = Range(bs) \ {bs[i]} /\ Apart(bs, {i})
    BY <2>1, OneLess
  <2> QED BY <2>2, RemoveLeft
<1> QED BY <1>1 DEF OutAccount

\* FillThisBuffer takes a buffer from the client, and pushes it.
LEMMA OutFilled ==
  ASSUME NEW q, NEW g, NEW bs, NEW h, OutAccount(q, g, bs, h, {}), NEW b \in h
  PROVE  OutAccount(q, g, bs, h \ {b}, {b})
BY DEF OutAccount

LEMMA OutPushed ==
  ASSUME NEW S, NEW q \in Seq(S), NEW g, g \subseteq DOMAIN q, NEW bs, NEW h, NEW b \in S,
         OutAccount(q, g, bs, h, {b})
  PROVE  OutAccount(Append(q, b), g, bs, h, {}) /\ Left(Append(q, b), g) = Left(q, g) \cup {b}
<1>1. /\ Left(Append(q, b), g) = Left(q, g) \cup {b}
      /\ Apart(Append(q, b), g)
  BY AppendLeft DEF OutAccount
<1> QED BY <1>1 DEF OutAccount

\* A place is delivered, and then popped.
LEMMA OutDelivered ==
  ASSUME NEW q, NEW bs, NEW h, OutAccount(q, {}, bs, h, {}), NEW i \in DOMAIN q
  PROVE  OutAccount(q, {i}, bs, h \cup {q[i]}, {}) /\ Left(q, {i}) = Left(q, {}) \ {q[i]}
<1>1. Left(q, {}) = Range(q) /\ Left(q, {i}) = Range(q) \ {q[i]} /\ Apart(q, {i}) /\ q[i] \in Range(q)
  BY LeftRange, OneLess DEF OutAccount
<1> QED BY <1>1 DEF OutAccount

LEMMA OutPopped ==
  ASSUME NEW S, NEW q \in Seq(S), NEW bs, NEW h, NEW i \in DOMAIN q,
         OutAccount(q, {i}, bs, h, {})
  PROVE  OutAccount(RemoveAt(q, i), {}, bs, h, {}) /\ Left(RemoveAt(q, i), {}) = Left(q, {i})
<1>1. Left(RemoveAt(q, i), {}) = Left(q, {i}) /\ Apart(RemoveAt(q, i), {})
  BY RemoveLeft, LeftRange DEF OutAccount
<1> QED BY <1>1 DEF OutAccount

\* All buffers in the queue go back to the client.
LEMMA OutReturned ==
  ASSUME NEW q, NEW bs, NEW h, OutAccount(q, {}, bs, h, {})
  PROVE  OutAccount(<<>>, {}, bs, h \cup Range(q), {})
BY LeftRange, EmptyLeft DEF OutAccount

-----------------------------------------------------------------------------
(* The inductive invariant: who has the buffers *)

InQ == port["in"].queue
OutQ == port["out"].queue

\* The output thread has a frame, found or yet to be found in the queue, that it
\* has not delivered.
HasFrame == out.pc \in {"frame", "check", "find", "deliver"}

\* The place the output thread has delivered and not popped
Given == IF out.pc = "pop" THEN {out.idx} ELSE IF out.pc = "eospop" THEN {1} ELSE {}

\* What is really queued on the out port, and what FillThisBuffer is about to queue
Ready == Left(OutQ, Given)
Pushing == IF cli.pc = "pushing" THEN {cli.buf} ELSE {}

InKept == InAccount(InQ, port["in"].buffers, cli.held \cap InBufs, dec.prev)
OutKept == OutAccount(OutQ, Given, port["out"].buffers, cli.held \cap OutBufs, Pushing)

\* The output thread pops the place where it found what it delivered, and a frame
\* that it has not delivered is queued and was not given back to the codec.
Placed ==
  /\ out.pc \in {"deliver", "pop"} => out.idx \in DOMAIN OutQ /\ OutQ[out.idx] = out.frm
  /\ out.pc \in {"eosdeliver", "eospop"} => 1 \in DOMAIN OutQ /\ OutQ[1] = out.frm
  /\ HasFrame => out.frm \in Ready /\ out.frm \in codec.shown
  /\ cli.pc = "consuming" => cli.buf \in Ready /\ (HasFrame => cli.buf # out.frm)
  /\ out.pc # "assert"

\* The codec has each of its buffers in one role, and those it may write or has
\* still to show are queued.
CodecKept ==
  /\ codec.free \cap codec.shown = {} /\ Apart(codec.pics, {})
  /\ Range(codec.pics) \cap (codec.free \cup codec.shown) = {}
  /\ Range(codec.pics) \subseteq Ready
  /\ ~codec.eos => codec.free \subseteq Ready \cup Pushing

-----------------------------------------------------------------------------
(* The inductive invariant: when the output thread has nothing to deliver *)

Blank == codec.free = {} /\ codec.pics = <<>> /\ codec.shown = {}
Filled == \A i \in Slots : dec.list[i] # NULL
Registering == At("register") \/ At("no-buffer")

\* Before it runs, the codec has no pictures.  When a reconfiguration is pending it
\* has no buffers either, and none can be registered: outputBufList is full as
\* long as checkExtraBuffers is set.
Phases ==
  /\ codec.phase # "run" => codec.pics = <<>> /\ ~HasFrame /\ out.pc # "pop"
  /\ codec.phase = "wait" /\ codec.need => Blank
  /\ dec.reconf => Blank /\ codec.phase # "run" /\ ~codec.eos /\ ~Registering
  /\ dec.extra /\ (dec.reconf \/ codec.phase = "wait" \/ (At("data") /\ ~dec.release)) => Filled
  /\ Registering => /\ codec.phase = "wait" /\ ~codec.need
                    /\ \A i \in 1 .. Arg - 1 : dec.list[i] # NULL

\* The buffer with the EOS flag is the last of its stream, and the codec is told
\* when it has been decoded.
Ending ==
  /\ out.pc \in {"eos", "eosdeliver", "eospop"} => codec.eos /\ codec.pics = <<>>
  /\ codec.eos => cli.eosBuf # NULL /\ (InQ = <<>> \/ (Len(InQ) = 1 /\ At("finish")))
  /\ cli.eosBuf # NULL => \A i \in DOMAIN InQ : InQ[i] = cli.eosBuf => i = Len(InQ)

\* The buffer that is being decoded is the first of the queue, nothing is queued
\* unless the component executes, and the client's call is not disturbed.
DecodeOps == {"extra", "data", "empty", "tail", "finish", "register", "no-buffer"}
Decodes == comp.todo # <<>> /\ Head(comp.todo)[1] \in DecodeOps
Working ==
  /\ Decodes => dec.state = "Executing" /\ 1 \in DOMAIN InQ /\ InQ[1] = comp.buf
  /\ dec.state \notin {"Executing", "Invalid"} => InQ = <<>> /\ OutQ = <<>> /\ dec.prev = NULL
  /\ cli.pc \in {"pushing", "consuming"} => dec.state = "Executing" /\ comp.pc = "loop"

-----------------------------------------------------------------------------
(* The inductive invariant: what is left of a plan *)

Has(s, op) == \E i \in DOMAIN s : s[i][1] = op
Holds(s, x) == \E i \in DOMAIN s : s[i] = x

\* The output thread has been joined and the codec was aborted.
Cleared == Blank /\ ~codec.eos /\ codec.phase = "hdr" /\ ~sd.thread

\* codec->abortafter follows the join,
Follows(s) == \A i \in DOMAIN s : s[i][1] = "abortafter" => i = 1 \/ (i = 2 /\ s[1][1] = "join")

\* buffers are registered when nothing else is left to do first,
First(s) == \A i \in DOMAIN s : s[i][1] \in {"register", "no-buffer"} => i = 1

\* the buffers of the out port are returned, and flags reset, only when the output
\* thread has been joined, or to reconfigure the port; Executing is left only when
\* all buffers have been returned; and PortDisable answers a reconfiguration.
Ordered ==
  LET s == comp.todo IN
  /\ Follows(s) /\ First(s)
  /\ Has(s, "abortafter") => Has(s, "join") \/ ~sd.thread
  /\ Has(s, "reset") => Has(s, "abortafter") \/ Cleared
  /\ Holds(s, <<"return", "out">>) => Has(s, "abortafter") \/ dec.reconf \/ Cleared
  /\ Has(s, "state") /\ dec.state = "Executing" =>
       /\ Holds(s, <<"return", "in">>) \/ (InQ = <<>> /\ dec.prev = NULL)
       /\ Holds(s, <<"return", "out">>) \/ OutQ = <<>>
  /\ (Has(s, "queues") => dec.state = "Idle") /\ (Has(s, "create") => dec.state = "Loaded")
  /\ ~Has(s, "assert")

Answers ==
  \A c \in Commands : (c \in Range(cmdq) \/ c = cli.cmd) /\ c[1] = "PortDisable" => dec.reconf

\* All of it
Kinds == Phases /\ Ending /\ Working /\ Ordered /\ Answers
OutSide == OutKept /\ Placed /\ CodecKept
BufferInv == ThreadInv /\ InKept /\ OutSide /\ Kinds

-----------------------------------------------------------------------------
(* What the invariant means *)

\* The types the proofs below use, field by field
LEMMA Typed ==
  ASSUME PlanInv
  PROVE  /\ dec \in DecType /\ sd \in SharedType /\ codec \in CodecType /\ cmdq \in Seq(Commands)
         /\ cli \in ClientType /\ comp \in CompType /\ out \in OutputType
         /\ DOMAIN port = Ports
         /\ port["in"] \in PortType("in") /\ port["out"] \in PortType("out")
         /\ InQ \in Seq(InBufs) /\ OutQ \in Seq(OutBufs)
         /\ port["in"].buffers \in Seq(InBufs) /\ port["out"].buffers \in Seq(OutBufs)
         /\ InBufs \cap OutBufs = {} /\ NULL \notin InBufs /\ NULL \notin OutBufs
         /\ NULL \notin Commands
<1>1. PortGood(Bufs("in"), port["in"]) /\ PortGood(Bufs("out"), port["out"]) /\ DOMAIN port = Ports
  BY DEF PlanInv, EventInv, PortsGood, Ports
<1>2. Bufs("in") = InBufs /\ Bufs("out") = OutBufs
  BY DEF Bufs
<1>3. port["in"] \in PortType("in") /\ port["out"] \in PortType("out")
  BY <1>1 DEF PortGood, PortType
<1>4. /\ InQ \in Seq(InBufs) /\ OutQ \in Seq(OutBufs)
      /\ port["in"].buffers \in Seq(InBufs) /\ port["out"].buffers \in Seq(OutBufs)
  BY <1>2, <1>3 DEF PortType, InQ, OutQ
<1>5. /\ InBufs \cap OutBufs = {} /\ NULL \notin InBufs /\ NULL \notin OutBufs
      /\ NULL \notin Commands
  BY DecoderConstantsOK DEF DecoderConstantsOK
<1> QED BY <1>1, <1>3, <1>4, <1>5 DEF PlanInv

\* A place that counts and one that was delivered
LEMMA QueuedOut ==
  ASSUME Placed, OutQ \in Seq(OutBufs)
  PROVE  /\ Range(OutQ) \ Delivering \subseteq Ready /\ Ready \subseteq Range(OutQ)
         /\ Given \subseteq DOMAIN OutQ
         /\ \A i \in Given : OutQ[i] \in Delivering
<1>1. \A i \in Given : i \in DOMAIN OutQ /\ OutQ[i] \in Delivering
  BY DEF Placed, Given, Delivering
<1> QED BY <1>1 DEF Ready, Left, Range

\* A buffer has one owner.
LEMMA OwnsOne == ASSUME BufferInv PROVE OneOwner
<1>0. InKept /\ OutKept /\ Placed /\ PlanInv
  BY DEF BufferInv, OutSide, ThreadInv
<1>1. /\ InQ \in Seq(InBufs) /\ OutQ \in Seq(OutBufs) /\ InBufs \cap OutBufs = {}
      /\ NULL \notin InBufs /\ NULL \notin OutBufs
      /\ cli.held \subseteq InBufs \cup OutBufs /\ dec.prev \in Maybe(InBufs)
  BY <1>0, Typed DEF ClientType, DecType
<1>2. Queued("in") = Range(InQ) /\ Queued("out") = Range(OutQ)
  BY DEF Queued, InQ, OutQ
<1>3. Range(InQ) \subseteq InBufs /\ Range(OutQ) \subseteq OutBufs
  BY <1>1 DEF Range
<1>4. Range(InQ) \cap cli.held = {} /\ dec.prev \notin Range(InQ) /\ dec.prev \notin cli.held
  BY <1>0, <1>1, <1>3 DEF InKept, InAccount, Maybe
<1>5. Ready \cap cli.held = {}
  <2>1. Ready \subseteq OutBufs
    BY <1>0, <1>1, <1>3, QueuedOut
  <2> QED BY <1>0, <2>1 DEF OutKept, OutAccount, Ready
<1>6. cli.held \cap ((Queued("in") \cup Queued("out") \cup {dec.prev}) \ Delivering) = {}
  <2>1. Range(OutQ) \ Delivering \subseteq Ready
    BY <1>0, <1>1, QueuedOut
  <2> QED BY <1>2, <1>4, <1>5, <2>1
<1>7. ASSUME NEW i \in DOMAIN InQ, NEW j \in DOMAIN InQ, i # j, InQ[i] = InQ[j] PROVE FALSE
  BY <1>0, <1>7 DEF InKept, InAccount, Apart
<1>8. ASSUME NEW i \in DOMAIN OutQ, NEW j \in DOMAIN OutQ, i # j, OutQ[i] = OutQ[j]
      PROVE  OutQ[i] \in Delivering
  <2>1. i \in Given \/ j \in Given
    BY <1>0, <1>8 DEF OutKept, OutAccount, Apart
  <2> QED BY <1>0, <1>1, <1>8, <2>1, QueuedOut
<1>9. \A p \in Ports : \A i, j \in DOMAIN port[p].queue :
        i # j /\ port[p].queue[i] = port[p].queue[j] => port[p].queue[i] \in Delivering
  BY <1>7, <1>8 DEF Ports, InQ, OutQ
<1> QED BY <1>2, <1>4, <1>6, <1>9 DEF OneOwner

\* No buffer is lost.
LEMMA LosesNone == ASSUME BufferInv PROVE NoneLost
<1>0. InKept /\ OutKept /\ Placed /\ PlanInv
  BY DEF BufferInv, OutSide, ThreadInv
<1>1. Queued("in") = Range(InQ) /\ Queued("out") = Range(OutQ)
  BY DEF Queued, InQ, OutQ
<1>2. Range(port["in"].buffers) \subseteq cli.held \cup Queued("in") \cup {cli.buf, dec.prev}
  BY <1>0, <1>1 DEF InKept, InAccount
<1>3. Ready \subseteq Range(OutQ)
  BY <1>0, Typed, QueuedOut
<1>4. Range(port["out"].buffers) \subseteq cli.held \cup Queued("out") \cup {cli.buf, dec.prev}
  BY <1>0, <1>1, <1>3 DEF OutKept, OutAccount, Ready, Pushing
<1> QED BY <1>2, <1>4 DEF NoneLost, Ports

\* The codec writes into queued buffers.
LEMMA WritesQueued == ASSUME BufferInv PROVE CodecWritesQueued
<1>0. CodecKept /\ Placed /\ PlanInv
  BY DEF BufferInv, OutSide, ThreadInv
<1>1. Queued("out") = Range(OutQ) /\ Ready \subseteq Range(OutQ)
  BY <1>0, Typed, QueuedOut DEF Queued, OutQ
<1> QED BY <1>0, <1>1 DEF CodecKept, CodecWritesQueued, Pushing

\* An idle component has returned all buffers.
LEMMA IdleHasNone == ASSUME BufferInv PROVE IdleHoldsNothing
<1>0. InKept /\ OutKept /\ Working
  BY DEF BufferInv, OutSide, Kinds
<1> SUFFICES ASSUME dec.state = "Idle"
             PROVE  \A p \in Ports : Range(port[p].buffers) \subseteq cli.held
  BY DEF IdleHoldsNothing
<1>1. InQ = <<>> /\ OutQ = <<>> /\ dec.prev = NULL /\ Pushing = {}
  BY <1>0 DEF Working, Pushing
<1>2. Range(InQ) = {} /\ Left(OutQ, Given) = {}
  BY <1>1, EmptyLeft
<1>3. Range(port["in"].buffers) \subseteq cli.held /\ Range(port["out"].buffers) \subseteq cli.held
  BY <1>0, <1>1, <1>2 DEF InKept, InAccount, OutKept, OutAccount
<1> QED BY <1>3 DEF Ports

\* The first step of a plan
LEMMA FirstStep ==
  ASSUME comp \in CompType, comp.todo # <<>>
  PROVE  /\ 1 \in DOMAIN comp.todo /\ comp.todo[1] = Head(comp.todo)
         /\ \A op : At(op) <=> comp.todo[1][1] = op
         /\ \A op : At(op) => Has(comp.todo, op)
<1>1. 1 \in DOMAIN comp.todo /\ comp.todo[1] = Head(comp.todo)
  BY DEF CompType
<1> QED BY <1>1 DEF At, Has

\* When buffers of the out port are returned, the output thread has no frame, and
\* the codec has none to show.
LEMMA ReturnsAlone ==
  ASSUME BufferInv, At("return"), Arg = "out"
  PROVE  Blank /\ ~codec.eos /\ ~HasFrame /\ out.pc \notin {"pop", "eosdeliver", "eospop"}
<1>0. /\ comp \in CompType /\ comp.todo # <<>> /\ Ordered /\ Phases /\ Ending /\ Output
  BY DEF BufferInv, ThreadInv, PlanInv, Kinds, At
<1>1. 1 \in DOMAIN comp.todo /\ comp.todo[1] = <<"return", "out">> /\ comp.todo[1][1] = "return"
  <2>1. Head(comp.todo) = <<Head(comp.todo)[1], Arg>>
    BY <1>0, StepKind
  <2> QED BY <1>0, <2>1, FirstStep DEF At
<1>2. ~Has(comp.todo, "abortafter")
  BY <1>0, <1>1 DEF Ordered, Follows, Has
<1>3. dec.reconf \/ Cleared
  BY <1>0, <1>1, <1>2 DEF Ordered, Holds
<1>4. CASE dec.reconf
  BY <1>0, <1>4 DEF Phases, Ending
<1>5. CASE Cleared
  BY <1>0, <1>5 DEF Cleared, Output, HasFrame
<1> QED BY <1>3, <1>4, <1>5

\* No assertion fails.
LEMMA NoneFails == ASSUME BufferInv PROVE NoAssertFails
<1>1. ~At("assert")
  <2>1. comp \in CompType /\ ~Has(comp.todo, "assert")
    BY DEF BufferInv, ThreadInv, PlanInv, Kinds, Ordered
  <2> QED BY <2>1, FirstStep DEF At
<1> QED BY <1>1 DEF NoAssertFails, BufferInv, OutSide, Placed

-----------------------------------------------------------------------------
\* A component that has just been created has no buffers.
LEMMA BufferInit == Init => BufferInv
<1> SUFFICES ASSUME Init PROVE BufferInv
  OBVIOUS
<1>1. ThreadInv
  BY ThreadInit
<1>2. /\ InQ = <<>> /\ OutQ = <<>> /\ port["in"].buffers = <<>> /\ port["out"].buffers = <<>>
      /\ cli.held = {} /\ dec.prev = NULL /\ Given = {} /\ Pushing = {}
  BY DEF Init, InQ, OutQ, NewPort, Ports, Given, Pushing
<1>3. InKept /\ OutKept
  BY <1>2, EmptyLeft DEF InKept, OutKept, InAccount, OutAccount
<1>4. Placed /\ CodecKept
  BY EmptyLeft DEF Init, Placed, CodecKept, NoCodec, HasFrame
<1>5. Phases /\ Ending /\ Working
  BY <1>2 DEF Init, Phases, Ending, Working, Decodes, Registering, At, NoCodec, HasFrame
<1>6. Ordered
  BY DEF Init, Ordered, Follows, First, Has, Holds
<1>7. Answers
  <2>1. Range(cmdq) = {} /\ cli.cmd = NULL /\ NULL \notin Commands
    BY EmptyLeft, DecoderConstantsOK DEF Init, DecoderConstantsOK
  <2> QED BY <2>1 DEF Answers
<1> QED BY <1>1, <1>3, <1>4, <1>5, <1>6, <1>7 DEF BufferInv, OutSide, Kinds

-----------------------------------------------------------------------------
(* The steps of plans *)

\* What is left when the first step is done
LEMMA TailSteps ==
  ASSUME NEW S, NEW s \in Seq(S), s # <<>>
  PROVE  /\ \A op : Has(Tail(s), op) => Has(s, op)
         /\ \A op : Has(s, op) => Head(s)[1] = op \/ Has(Tail(s), op)
         /\ \A x : Holds(Tail(s), x) => Holds(s, x)
         /\ \A x : Holds(s, x) => Head(s) = x \/ Holds(Tail(s), x)
         /\ Follows(s) => Follows(Tail(s))
         /\ First(s) => First(Tail(s))
<1> DEFINE t == Tail(s)
<1>1. /\ \A i \in DOMAIN t : t[i] = s[i + 1] /\ i + 1 \in DOMAIN s /\ i \in Nat \ {0}
      /\ \A i \in DOMAIN s : i = 1 \/ (i - 1 \in DOMAIN t /\ s[i] = t[i - 1])
      /\ s[1] = Head(s)
  <2>1. Len(t) = Len(s) - 1 /\ Len(s) \in Nat \ {0} /\ DOMAIN s = 1 .. Len(s) /\ DOMAIN t = 1 .. Len(t)
    OBVIOUS
  <2>2. \A i \in DOMAIN t : t[i] = s[i + 1]
    OBVIOUS
  <2>3. \A i \in DOMAIN s : i = 1 \/ (i - 1 \in DOMAIN t /\ (i - 1) + 1 = i)
    BY <2>1
  <2>4. \A i \in DOMAIN t : i + 1 \in DOMAIN s /\ i \in Nat \ {0}
    BY <2>1
  <2>5. s[1] = Head(s)
    OBVIOUS
  <2> HIDE DEF t
  <2>6. \A i \in DOMAIN s : i = 1 \/ (i - 1 \in DOMAIN t /\ s[i] = t[i - 1])
    <3> SUFFICES ASSUME NEW i \in DOMAIN s, i # 1 PROVE i - 1 \in DOMAIN t /\ s[i] = t[i - 1]
      OBVIOUS
    <3>1. i - 1 \in DOMAIN t /\ (i - 1) + 1 = i
      BY <2>3
    <3> QED BY <2>2, <3>1
  <2> QED BY <2>2, <2>4, <2>5, <2>6
<1> HIDE DEF t
<1>2. \A op : Has(t, op) => Has(s, op)
  BY <1>1 DEF Has
<1>3. \A op : Has(s, op) => Head(s)[1] = op \/ Has(t, op)
  BY <1>1 DEF Has
<1>4. \A x : Holds(t, x) => Holds(s, x)
  BY <1>1 DEF Holds
<1>5. \A x : Holds(s, x) => Head(s) = x \/ Holds(t, x)
  BY <1>1 DEF Holds
<1>6. ASSUME Follows(s), NEW i \in DOMAIN t, t[i][1] = "abortafter"
      PROVE  i = 1
  <2>1. i + 1 = 1 \/ (i + 1 = 2 /\ s[1][1] = "join")
    BY <1>1, <1>6 DEF Follows
  <2> QED BY <1>1, <2>1
<1>7. Follows(s) => Follows(t)
  BY <1>6 DEF Follows
<1>8. ASSUME First(s), NEW i \in DOMAIN t, t[i][1] \in {"register", "no-buffer"}
      PROVE  FALSE
  <2>1. i + 1 = 1
    BY <1>1, <1>8 DEF First
  <2> QED BY <1>1, <2>1
<1>9. First(s) => First(t)
  BY <1>8 DEF First
<1> QED BY <1>2, <1>3, <1>4, <1>5, <1>7, <1>9 DEF t

\* The first step of a plan of one kind gets another name of that kind.
LEMMA RenamedSteps ==
  ASSUME NEW S, NEW s \in Seq(S), s # <<>>, NEW y, NEW t, t = [s EXCEPT ![1] = y],
         NEW op, op # y[1], op # Head(s)[1]
  PROVE  Has(t, op) <=> Has(s, op)
<1>1. DOMAIN t = DOMAIN s /\ 1 \in DOMAIN s /\ t[1] = y /\ s[1] = Head(s)
      /\ \A i \in DOMAIN s : i # 1 => t[i] = s[i]
  OBVIOUS
<1> QED BY <1>1 DEF Has

\* The names the invariant speaks of
Marks == {"join", "abortafter", "reset", "state", "queues", "create", "assert", "return"}

\* Without them nothing is promised.
LEMMA UnmarkedOrdered ==
  ASSUME NEW s, \A i \in DOMAIN s : s[i][1] \notin Marks
  PROVE  /\ \A op \in Marks : ~Has(s, op)
         /\ Follows(s)
         /\ \A p : ~Holds(s, <<"return", p>>)
<1>1. \A op \in Marks : ~Has(s, op)
  BY DEF Has
<1>2. Follows(s)
  BY DEF Follows, Marks
<1>3. ASSUME NEW p, NEW i \in DOMAIN s, s[i] = <<"return", p>> PROVE FALSE
  BY <1>3 DEF Marks
<1> QED BY <1>1, <1>2, <1>3 DEF Holds

LEMMA OtherPlansUnmarked ==
  ASSUME NEW s \in Seq(DecodeSteps) \cup Seq(EnableSteps)
  PROVE  \A i \in DOMAIN s : s[i][1] \notin Marks
<1>1. ASSUME NEW i \in DOMAIN s PROVE s[i][1] \notin Marks
  <2>1. s[i] \in DecodeSteps \cup EnableSteps
    BY ElementOfSeq
  <2> QED BY <2>1 DEF DecodeSteps, EnableSteps, Marks
<1> QED BY <1>1

\* Steps of concatenated plans
LEMMA ConcatSteps ==
  ASSUME NEW S, NEW a \in Seq(S), NEW b \in Seq(S)
  PROVE  /\ \A op : Has(a \o b, op) <=> Has(a, op) \/ Has(b, op)
         /\ \A x : Holds(a \o b, x) <=> Holds(a, x) \/ Holds(b, x)
<1>1. \A i \in DOMAIN a : i \in DOMAIN (a \o b) /\ (a \o b)[i] = a[i]
  OBVIOUS
<1>2. \A i \in DOMAIN b : Len(a) + i \in DOMAIN (a \o b) /\ (a \o b)[Len(a) + i] = b[i]
  OBVIOUS
<1>3. \A i \in DOMAIN (a \o b) :
              (i \in DOMAIN a /\ (a \o b)[i] = a[i])
                \/ (i - Len(a) \in DOMAIN b /\ (a \o b)[i] = b[i - Len(a)])
  BY Concat
<1>4. PICK c : c = a \o b
  OBVIOUS
<1>5. /\ \A i \in DOMAIN a : \E k \in DOMAIN c : c[k] = a[i]
      /\ \A i \in DOMAIN b : \E k \in DOMAIN c : c[k] = b[i]
      /\ \A k \in DOMAIN c : (\E i \in DOMAIN a : c[k] = a[i]) \/ (\E i \in DOMAIN b : c[k] = b[i])
  BY <1>1, <1>2, <1>3, <1>4
<1>6. ASSUME NEW op PROVE Has(c, op) <=> Has(a, op) \/ Has(b, op)
  <2>1. ASSUME Has(c, op) PROVE Has(a, op) \/ Has(b, op)
    <3>1. PICK k \in DOMAIN c : c[k][1] = op
      BY <2>1 DEF Has
    <3>2. CASE \E i \in DOMAIN a : c[k] = a[i]
      BY <3>1, <3>2 DEF Has
    <3>3. CASE \E i \in DOMAIN b : c[k] = b[i]
      BY <3>1, <3>3 DEF Has
    <3> QED BY <1>5, <3>2, <3>3
  <2>2. ASSUME Has(a, op) PROVE Has(c, op)
    <3>1. PICK i \in DOMAIN a : a[i][1] = op
      BY <2>2 DEF Has
    <3>2. PICK k \in DOMAIN c : c[k] = a[i]
      BY <1>5
    <3> QED BY <3>1, <3>2 DEF Has
  <2>3. ASSUME Has(b, op) PROVE Has(c, op)
    <3>1. PICK i \in DOMAIN b : b[i][1] = op
      BY <2>3 DEF Has
    <3>2. PICK k \in DOMAIN c : c[k] = b[i]
      BY <1>5
    <3> QED BY <3>1, <3>2 DEF Has
  <2> QED BY <2>1, <2>2, <2>3
<1>7. ASSUME NEW x PROVE Holds(c, x) <=> Holds(a, x) \/ Holds(b, x)
  <2>1. ASSUME Holds(c, x) PROVE Holds(a, x) \/ Holds(b, x)
    <3>1. PICK k \in DOMAIN c : c[k] = x
      BY <2>1, Zenon DEF Holds
    <3> QED BY <1>5, <3>1, Zenon DEF Holds
  <2>2. ASSUME Holds(a, x) \/ Holds(b, x) PROVE Holds(c, x)
    BY <1>5, <2>2, Zenon DEF Holds
  <2> QED BY <2>1, <2>2
<1> QED BY <1>4, <1>6, <1>7

-----------------------------------------------------------------------------
(* What does not touch a part of the invariant *)

\* Nothing of the in port's buffers
LEMMA InSame ==
  ASSUME InKept, InQ' = InQ, port'["in"].buffers = port["in"].buffers,
         cli'.held \cap InBufs = cli.held \cap InBufs, dec'.prev = dec.prev
  PROVE  InKept'
BY DEF InKept

\* Nothing of the out port's buffers, of the codec's, and of the places the output
\* thread has found
LEMMA OutSame ==
  ASSUME OutSide, OutQ' = OutQ, port'["out"].buffers = port["out"].buffers,
         cli'.held \cap OutBufs = cli.held \cap OutBufs, Pushing' = Pushing,
         cli'.pc = "consuming" => cli.pc = "consuming" /\ cli'.buf = cli.buf,
         codec'.free = codec.free, codec'.pics = codec.pics, codec'.shown = codec.shown,
         codec.eos => codec'.eos,
         Given' = Given, out'.pc # "assert", HasFrame' => HasFrame /\ out'.frm = out.frm,
         out'.pc \in {"deliver", "pop", "eosdeliver", "eospop"} => out' = out
  PROVE  OutSide'
<1>1. Ready' = Ready
  BY DEF Ready
<1>2. OutKept'
  BY DEF OutSide, OutKept
<1>3. Placed'
  BY <1>1 DEF OutSide, Placed, HasFrame
<1>4. CodecKept'
  BY <1>1 DEF OutSide, CodecKept
<1> QED BY <1>2, <1>3, <1>4 DEF OutSide

\* Nothing of the codec's phase, and no step that depends on it begins
LEMMA PhasesSame ==
  ASSUME Phases, codec'.phase = codec.phase, codec'.need = codec.need, codec'.free = codec.free,
         codec'.pics = codec.pics, codec'.shown = codec.shown, codec'.eos = codec.eos,
         dec'.reconf = dec.reconf, dec'.extra = dec.extra, dec'.list = dec.list,
         HasFrame' => HasFrame, out'.pc = "pop" => out.pc = "pop" \/ HasFrame,
         \/ comp'.todo = comp.todo /\ (dec.release => dec'.release)
         \/ ~Registering' /\ (At("data")' => dec'.release)
  PROVE  Phases'
<1>1. (Blank' <=> Blank) /\ (Filled' <=> Filled)
  BY DEF Blank, Filled
<1>2. /\ Registering' => Registering /\ Arg' = Arg
      /\ At("data")' /\ ~dec'.release => At("data") /\ ~dec.release
  BY DEF Registering, At, Arg
<1> QED BY <1>1, <1>2 DEF Phases

\* Nothing of the end of the stream
LEMMA EndingSame ==
  ASSUME Ending, codec'.eos = codec.eos, codec'.pics = codec.pics, cli'.eosBuf = cli.eosBuf,
         InQ' = InQ, At("finish") => At("finish")',
         out'.pc \in {"eos", "eosdeliver", "eospop"} =>
           \/ out.pc \in {"eos", "eosdeliver", "eospop"}
           \/ codec.eos /\ codec.pics = <<>>
  PROVE  Ending'
BY DEF Ending

\* Nothing of what the component thread and the client work on
LEMMA WorkingSame ==
  ASSUME Working, InQ' = InQ, OutQ = <<>> => OutQ' = <<>>, dec'.prev = dec.prev,
         dec'.state = dec.state, Decodes' => Decodes /\ comp'.buf = comp.buf,
         cli'.pc \in {"pushing", "consuming"} =>
           cli.pc \in {"pushing", "consuming"} /\ comp'.pc = comp.pc
  PROVE  Working'
BY DEF Working

\* Nothing of what the rest of the plan depends on
LEMMA OrderedSame ==
  ASSUME Ordered, comp'.todo = comp.todo, sd'.thread = sd.thread, dec'.state = dec.state,
         dec.reconf => dec'.reconf, Cleared => Cleared',
         InQ = <<>> /\ dec.prev = NULL => InQ' = <<>> /\ dec'.prev = NULL,
         OutQ = <<>> => OutQ' = <<>>
  PROVE  Ordered'
BY DEF Ordered

\* Nothing of the commands on their way
LEMMA AnswersSame ==
  ASSUME Answers, cmdq' = cmdq, cli'.cmd = cli.cmd, dec.reconf => dec'.reconf
  PROVE  Answers'
BY DEF Answers

\* The client is not in FillThisBuffer when another thread takes a step.
LEMMA NotFilling ==
  ASSUME PlayingClient, Undisturbed
  PROVE  cli.pc \notin {"pushing", "consuming"} /\ Pushing = {}
BY DEF PlayingClient, Undisturbed, Pushing

\* The first of a sequence without repetition leaves it.
LEMMA TailApart ==
  ASSUME NEW S, NEW s \in Seq(S), s # <<>>, Apart(s, {})
  PROVE  /\ Apart(Tail(s), {}) /\ Head(s) \in Range(s) /\ Head(s) \notin Range(Tail(s))
         /\ Range(Tail(s)) \subseteq Range(s)
<1> DEFINE t == Tail(s)
<1>1. /\ \A i \in DOMAIN t : t[i] = s[i + 1] /\ i + 1 \in DOMAIN s /\ i \in Nat \ {0}
      /\ s[1] = Head(s) /\ 1 \in DOMAIN s
  OBVIOUS
<1> HIDE DEF t
<1>2. \A i, j \in DOMAIN t : t[i] = t[j] => i = j
  <2> SUFFICES ASSUME NEW i \in DOMAIN t, NEW j \in DOMAIN t, t[i] = t[j] PROVE i = j
    OBVIOUS
  <2>1. i + 1 = j + 1
    BY <1>1 DEF Apart
  <2> QED BY <1>1, <2>1
<1>3. \A i \in DOMAIN t : t[i] # Head(s)
  <2> SUFFICES ASSUME NEW i \in DOMAIN t, t[i] = Head(s) PROVE FALSE
    OBVIOUS
  <2>1. i + 1 = 1
    BY <1>1 DEF Apart
  <2> QED BY <1>1, <2>1
<1>4. Range(t) \subseteq Range(s)
  BY <1>1 DEF Range
<1>5. Head(s) \in Range(s) /\ Head(s) \notin Range(t)
  BY <1>1, <1>3 DEF Range
<1>6. Apart(t, {})
  BY <1>2 DEF Apart
<1> QED BY <1>4, <1>5, <1>6 DEF t

-----------------------------------------------------------------------------
(* The output thread *)

\* Most of what the invariant is about is not its business.
LEMMA OutputRest ==
  ASSUME PlayingClient, BufferInv, OutputNext
  PROVE  /\ out.pc # "none" /\ sd.thread /\ Undisturbed
         /\ dec' = dec /\ comp' = comp /\ cmdq' = cmdq /\ sd'.thread = sd.thread
         /\ port'["in"] = port["in"]
         /\ cli'.pc = cli.pc /\ cli'.buf = cli.buf /\ cli'.cmd = cli.cmd /\ cli'.eosBuf = cli.eosBuf
         /\ cli'.held \cap InBufs = cli.held \cap InBufs
         /\ codec'.phase = codec.phase /\ codec'.need = codec.need /\ codec'.eos = codec.eos
         /\ codec'.free = codec.free
<1>0. /\ Output /\ sd \in SharedType /\ cli \in ClientType /\ codec \in CodecType /\ out \in OutputType
      /\ DOMAIN port = Ports /\ OutputHolds /\ NULL \notin InBufs /\ InBufs \cap OutBufs = {}
  BY Typed DEF BufferInv, ThreadInv, PlanInv
<1> USE DEF OutputNext, OutStart, OutLoop, OutExit, OutGetEos, OutGetAborted, OutGetFlushed,
         OutGetFrame, OutFlushed, OutHasFrame, OutCheck, OutFind, OutDeliver, OutPop, OutEos,
         OutEosDeliver, OutEosPop, OutAt
<1>1. out.pc # "none" /\ Undisturbed /\ dec' = dec /\ comp' = comp /\ cmdq' = cmdq
  OBVIOUS
<1>2. sd'.thread = sd.thread
  BY <1>0 DEF SharedType
<1>3. port' = port \/ (\E x : port' = [port EXCEPT !["out"] = x])
  BY Zenon
<1>4. port'["in"] = port["in"]
  BY <1>0, <1>3 DEF Ports
<1>5. cli' = cli \/ (cli' = [cli EXCEPT !.held = @ \cup {out.frm}] /\ out.pc \in {"deliver", "eosdeliver"})
  OBVIOUS
<1>6. out.pc \in {"deliver", "eosdeliver"} => out.frm \notin InBufs
  BY <1>0 DEF OutputType, Maybe, OutputHolds
<1>7. /\ cli'.pc = cli.pc /\ cli'.buf = cli.buf /\ cli'.cmd = cli.cmd /\ cli'.eosBuf = cli.eosBuf
      /\ cli'.held \cap InBufs = cli.held \cap InBufs
  <2>1. CASE cli' = cli
    BY <2>1, Zenon
  <2>2. CASE cli' = [cli EXCEPT !.held = @ \cup {out.frm}] /\ out.pc \in {"deliver", "eosdeliver"}
    <3>1. out.frm \notin InBufs
      BY <1>6, <2>2, Zenon
    <3>2. /\ cli'.pc = cli.pc /\ cli'.buf = cli.buf /\ cli'.cmd = cli.cmd /\ cli'.eosBuf = cli.eosBuf
          /\ cli'.held = cli.held \cup {out.frm}
      <4>1. cli \in ClientType
        BY <1>0, Zenon
      <4> HIDE DEF OutputNext
      <4> QED BY <2>2, <4>1, SMT DEF ClientType
    <3> QED BY <3>1, <3>2
  <2> QED BY <1>5, <2>1, <2>2, Zenon
<1>8. /\ codec'.phase = codec.phase /\ codec'.need = codec.need /\ codec'.eos = codec.eos
      /\ codec'.free = codec.free
  BY <1>0 DEF CodecType
<1>9. sd.thread
  BY <1>0, <1>1 DEF Output
<1> QED BY <1>1, <1>2, <1>4, <1>7, <1>8, <1>9

\* So what is left to show is this.
LEMMA OutputKeeps ==
  ASSUME PlayingClient, BufferInv, OutputNext, OutSide', Phases',
         out'.pc \in {"eos", "eosdeliver", "eospop"} => codec'.eos /\ codec'.pics = <<>>,
         OutQ = <<>> => OutQ' = <<>>
  PROVE  InKept' /\ OutSide' /\ Kinds'
<1>0. InKept /\ Ending /\ Working /\ Ordered /\ Answers
  BY DEF BufferInv, Kinds
<1>1. /\ sd.thread /\ dec' = dec /\ comp' = comp /\ cmdq' = cmdq /\ sd'.thread = sd.thread
      /\ cli'.pc = cli.pc /\ cli'.cmd = cli.cmd /\ cli'.eosBuf = cli.eosBuf
      /\ cli'.held \cap InBufs = cli.held \cap InBufs
      /\ codec'.eos = codec.eos
      /\ InQ' = InQ /\ port'["in"].buffers = port["in"].buffers
  BY OutputRest DEF InQ
<1>2. InKept'
  BY <1>0, <1>1, InSame
<1>3. Ending'
  BY <1>0, <1>1 DEF Ending, At
<1>4. Working'
  BY <1>0, <1>1, WorkingSame DEF Decodes
<1>5. Ordered'
  BY <1>0, <1>1, OrderedSame DEF Cleared
<1>6. Answers'
  BY <1>0, <1>1, AnswersSame
<1> QED BY <1>2, <1>3, <1>4, <1>5, <1>6 DEF Kinds

\* Steps that neither fetch nor deliver a frame
LEMMA OutputQuiet ==
  ASSUME PlayingClient, BufferInv,
         \/ OutStart \/ OutLoop \/ OutExit \/ OutGetEos \/ OutGetAborted \/ OutGetFlushed
         \/ OutFlushed \/ OutHasFrame \/ OutCheck \/ (OutEos /\ out'.pc = "exit")
         \/ (OutEosDeliver /\ dec.release)
  PROVE  InKept' /\ OutSide' /\ Kinds'
<1>0. /\ OutSide /\ Phases /\ Ending /\ out \in OutputType /\ codec \in CodecType
  BY DEF BufferInv, ThreadInv, PlanInv, Kinds
<1>1. OutputNext
  BY DEF OutputNext
<1>2. /\ port' = port /\ cli' = cli /\ codec'.pics = codec.pics /\ codec'.shown = codec.shown
  BY <1>0 DEF OutStart, OutLoop, OutExit, OutGetEos, OutGetAborted, OutGetFlushed,
         OutFlushed, OutHasFrame, OutCheck, OutEos, OutEosDeliver, OutAt, Goto, CodecType
<1>3. /\ out.pc \notin {"deliver", "pop", "eospop"}
      /\ \/ out'.pc \in {"loop", "exit", "flushed", "none", "get"}
         \/ out'.pc = "eos" /\ codec.eos /\ codec.pics = <<>>
         \/ out'.pc \in {"check", "find"} /\ out'.frm = out.frm /\ out.pc \in {"frame", "check"}
  <2>0. \A x : out' = [out EXCEPT !.pc = x] => out'.pc = x /\ out'.frm = out.frm
    BY <1>0 DEF OutputType
  <2>1. CASE OutStart \/ OutGetAborted \/ OutGetFlushed \/ OutFlushed
    BY <2>0, <2>1 DEF OutStart, OutGetAborted, OutGetFlushed, OutFlushed, OutAt, Goto
  <2>5. CASE OutLoop \/ OutExit
    BY <2>0, <2>5 DEF OutLoop, OutExit, OutAt, Goto
  <2>2. CASE OutGetEos \/ (OutEos /\ out'.pc = "exit") \/ (OutEosDeliver /\ dec.release)
    BY <2>0, <2>2 DEF OutGetEos, OutEos, OutEosDeliver, OutAt, Goto, GetEos
  <2>3. CASE OutHasFrame
    BY <2>0, <2>3 DEF OutHasFrame, OutAt, Goto
  <2>4. CASE OutCheck
    BY <1>0, <2>0, <2>4 DEF OutCheck, OutAt, Goto, OutputType
  <2> QED BY <2>1, <2>2, <2>3, <2>4, <2>5
<1>4. /\ dec' = dec /\ comp' = comp /\ codec'.phase = codec.phase /\ codec'.need = codec.need
      /\ codec'.eos = codec.eos /\ codec'.free = codec.free
  BY <1>1, OutputRest
<1>5. Given' = Given /\ (HasFrame' => HasFrame /\ out'.frm = out.frm) /\ Pushing' = Pushing
  BY <1>2, <1>3 DEF Given, HasFrame, Pushing
<1>6. OutQ' = OutQ /\ port'["out"].buffers = port["out"].buffers
  BY <1>2 DEF OutQ
<1>7. OutSide'
  BY <1>0, <1>2, <1>3, <1>4, <1>5, <1>6, OutSame
<1>8. Phases'
  BY <1>0, <1>2, <1>3, <1>4, <1>5, PhasesSame
<1>9. out'.pc \in {"eos", "eosdeliver", "eospop"} => codec'.eos /\ codec'.pics = <<>>
  BY <1>2, <1>3, <1>4
<1> QED BY <1>1, <1>6, <1>7, <1>8, <1>9, OutputKeeps

\* A picture is fetched: codec->getframe.
LEMMA OutputFetches ==
  ASSUME PlayingClient, BufferInv, OutGetFrame PROVE InKept' /\ OutSide' /\ Kinds'
<1>0. /\ OutKept /\ Placed /\ CodecKept /\ Phases /\ out \in OutputType /\ codec \in CodecType
  BY DEF BufferInv, ThreadInv, PlanInv, Kinds, OutSide
<1>1. OutputNext
  BY DEF OutputNext
<1>2. PICK b : b = Head(codec.pics)
  OBVIOUS
<1>3. /\ out.pc = "get" /\ codec.pics # <<>> /\ port' = port /\ cli' = cli /\ Undisturbed
      /\ codec'.pics = Tail(codec.pics) /\ codec'.shown = codec.shown \cup {b}
      /\ out'.pc = "frame" /\ out'.frm = b
  BY <1>0, <1>2 DEF OutGetFrame, OutAt, CodecType, OutputType
<1>4. /\ dec' = dec /\ comp' = comp /\ codec'.phase = codec.phase /\ codec'.need = codec.need
      /\ codec'.eos = codec.eos /\ codec'.free = codec.free
  BY <1>1, OutputRest
<1>5. /\ Apart(codec'.pics, {}) /\ b \in Range(codec.pics) /\ b \notin Range(codec'.pics)
      /\ Range(codec'.pics) \subseteq Range(codec.pics)
  <2>1. codec.pics \in Seq(OutBufs) /\ Apart(codec.pics, {})
    BY <1>0 DEF CodecType, CodecKept
  <2> QED BY <1>2, <1>3, <2>1, TailApart
<1>6. Pushing = {} /\ Pushing' = {} /\ cli'.pc # "consuming"
  BY <1>3, NotFilling DEF Pushing
<1>7. Given = {} /\ Given' = {} /\ Ready' = Ready /\ OutQ' = OutQ
  BY <1>3 DEF Given, Ready, OutQ
<1>8. OutKept'
  BY <1>0, <1>3, <1>6, <1>7 DEF OutKept, OutQ
<1>9. CodecKept'
  BY <1>0, <1>3, <1>4, <1>5, <1>6, <1>7 DEF CodecKept
<1>10. Placed'
  BY <1>0, <1>3, <1>5, <1>6, <1>7 DEF Placed, HasFrame, CodecKept
<1>11. Phases'
  <2>1. codec.phase = "run" /\ ~dec.reconf /\ ~Registering
    BY <1>0, <1>3 DEF Phases, Blank
  <2>2. codec'.phase = "run" /\ ~dec'.reconf /\ ~Registering'
    BY <1>4, <2>1 DEF Registering, At
  <2>3. dec'.extra /\ At("data")' /\ ~dec'.release => Filled'
    BY <1>0, <1>4 DEF Phases, At, Filled
  <2> QED BY <2>2, <2>3 DEF Phases
<1> QED BY <1>1, <1>3, <1>7, <1>8, <1>9, <1>10, <1>11, OutputKeeps DEF OutSide

\* Its buffer is found in the queue.
LEMMA OutputFinds ==
  ASSUME PlayingClient, BufferInv, OutFind PROVE InKept' /\ OutSide' /\ Kinds'
<1>0. /\ OutKept /\ Placed /\ CodecKept /\ Phases /\ out \in OutputType
      /\ OutQ \in Seq(OutBufs)
  BY Typed DEF BufferInv, ThreadInv, PlanInv, Kinds, OutSide
<1>1. OutputNext
  BY DEF OutputNext
<1>2. /\ out.pc = "find" /\ Undisturbed /\ port' = port /\ cli' = cli /\ codec' = codec
      /\ dec' = dec /\ comp' = comp
  BY DEF OutFind, OutAt
<1>3. \E i \in DOMAIN OutQ : OutQ[i] = out.frm
  <2>1. out.frm \in Left(OutQ, {})
    BY <1>0, <1>2 DEF Placed, HasFrame, Ready, Given
  <2> QED BY <2>1 DEF Left
<1>4. PICK i \in DOMAIN OutQ : OutQ[i] = out.frm /\ out' = [out EXCEPT !.pc = "deliver", !.idx = i]
  BY <1>3 DEF OutFind, OutQ
<1>5. out'.pc = "deliver" /\ out'.idx = i /\ out'.frm = out.frm
  BY <1>0, <1>4 DEF OutputType
<1>6. /\ Pushing' = Pushing /\ cli.pc # "consuming" /\ Given' = Given /\ Ready' = Ready /\ OutQ' = OutQ
      /\ HasFrame /\ HasFrame'
  BY <1>2, <1>5, NotFilling DEF Pushing, Given, Ready, OutQ, HasFrame
<1>7. OutKept' /\ CodecKept'
  BY <1>0, <1>2, <1>6 DEF OutKept, CodecKept
<1>8. Placed'
  BY <1>0, <1>2, <1>4, <1>5, <1>6 DEF Placed
<1>9. Phases'
  BY <1>0, <1>2, <1>5, <1>6, PhasesSame
<1> QED BY <1>1, <1>5, <1>6, <1>7, <1>8, <1>9, OutputKeeps DEF OutSide

\* What the client gets is in its hands then.
LEMMA HandedOut ==
  ASSUME cli \in ClientType, NEW b \in OutBufs, cli' = [cli EXCEPT !.held = @ \cup {b}]
  PROVE  cli'.held \cap OutBufs = (cli.held \cap OutBufs) \cup {b}
BY DEF ClientType

\* FillBufferDone
LEMMA OutputDelivers ==
  ASSUME PlayingClient, BufferInv, OutDeliver PROVE InKept' /\ OutSide' /\ Kinds'
<1>0. /\ OutKept /\ Placed /\ CodecKept /\ Phases /\ out \in OutputType /\ cli \in ClientType
      /\ OutQ \in Seq(OutBufs)
  BY Typed DEF BufferInv, ThreadInv, PlanInv, Kinds, OutSide
<1>1. OutputNext
  BY DEF OutputNext
<1>2. /\ out.pc = "deliver" /\ Undisturbed /\ port' = port /\ codec' = codec /\ dec' = dec /\ comp' = comp
      /\ cli' = [cli EXCEPT !.held = @ \cup {out.frm}]
      /\ out' = [out EXCEPT !.pc = "pop", !.inbuff = NULL]
  BY DEF OutDeliver, OutAt
<1>3. out'.pc = "pop" /\ out'.idx = out.idx /\ out'.frm = out.frm
  BY <1>0, <1>2 DEF OutputType
<1>4. /\ out.idx \in DOMAIN OutQ /\ OutQ[out.idx] = out.frm /\ out.frm \in codec.shown
  BY <1>0, <1>2 DEF Placed, HasFrame
<1>5. out.frm \in OutBufs
  BY <1>0, <1>4
<1>6. cli'.held \cap OutBufs = (cli.held \cap OutBufs) \cup {OutQ[out.idx]}
  BY <1>0, <1>2, <1>4, <1>5, HandedOut
<1>7. /\ Pushing = {} /\ Pushing' = {} /\ cli'.pc # "consuming" /\ OutQ' = OutQ
      /\ Given = {} /\ Given' = {out.idx} /\ HasFrame /\ ~HasFrame'
  BY <1>0, <1>2, <1>3, NotFilling DEF Pushing, Given, OutQ, HasFrame, ClientType
<1>8. OutKept' /\ Ready' = Ready \ {out.frm}
  <2>1. OutAccount(OutQ, {}, port["out"].buffers, cli.held \cap OutBufs, {})
    BY <1>0, <1>7 DEF OutKept
  <2>2. /\ OutAccount(OutQ, {out.idx}, port["out"].buffers, (cli.held \cap OutBufs) \cup {OutQ[out.idx]}, {})
        /\ Left(OutQ, {out.idx}) = Left(OutQ, {}) \ {OutQ[out.idx]}
    BY <1>4, <2>1, OutDelivered
  <2> QED BY <1>2, <1>4, <1>6, <1>7, <2>2 DEF OutKept, Ready
<1>9. CodecKept'
  BY <1>0, <1>2, <1>4, <1>7, <1>8 DEF CodecKept
<1>10. Placed'
  BY <1>3, <1>4, <1>7 DEF Placed
<1>11. Phases'
  BY <1>0, <1>2, <1>3, <1>7, PhasesSame
<1> QED BY <1>1, <1>3, <1>7, <1>8, <1>9, <1>10, <1>11, OutputKeeps DEF OutSide

\* The operations of a port on its queue
LEMMA PortOps ==
  ASSUME NEW S, NEW p, PortGood(S, p), NEW b \in S, NEW i
  PROVE  /\ PopBufferAt(p, i).queue = RemoveAt(p.queue, i) /\ PopBufferAt(p, i).buffers = p.buffers
         /\ QueueClear(p).queue = <<>> /\ QueueClear(p).buffers = p.buffers
         /\ PushBuffer(p, b).queue = Append(p.queue, b) /\ PushBuffer(p, b).buffers = p.buffers
<1>0. p \in [buffers : Seq(S), bcap : Nat, queue : Seq(S), qcap : Nat,
            event : BOOLEAN, enabled : BOOLEAN, populated : BOOLEAN]
  BY DEF PortGood
<1>1. PopBufferAt(p, i).queue = RemoveAt(p.queue, i) /\ PopBufferAt(p, i).buffers = p.buffers
  <2>1. PICK e, r : e = (IF Len(p.queue) = 1 THEN FALSE ELSE p.event) /\ r = RemoveAt(p.queue, i)
    OBVIOUS
  <2>2. PopBufferAt(p, i) = [p EXCEPT !.queue = r, !.event = e]
    BY <2>1 DEF PopBufferAt
  <2> QED BY <1>0, <2>1, <2>2
<1>2. QueueClear(p).queue = <<>> /\ QueueClear(p).buffers = p.buffers
  BY <1>0 DEF QueueClear
<1>3. PushBuffer(p, b).queue = Append(p.queue, b) /\ PushBuffer(p, b).buffers = p.buffers
  <2>1. PICK cap : cap = (IF Len(p.queue) = p.qcap THEN p.qcap * 2 ELSE p.qcap)
    OBVIOUS
  <2>2. Len(p.queue) # cap
    <3>1. Len(p.queue) \in Nat /\ p.qcap \in Nat \ {0}
      BY <1>0 DEF PortGood
    <3> QED BY <2>1, <3>1
  <2>3. ListPush(p.queue, cap, b) = Append(p.queue, b)
    BY <2>2 DEF ListPush
  <2>4. PICK q : q = Append(p.queue, b)
    OBVIOUS
  <2>5. PushBuffer(p, b) = [p EXCEPT !.queue = q, !.qcap = cap, !.event = TRUE]
    BY <2>1, <2>3, <2>4 DEF PushBuffer
  <2> QED BY <1>0, <2>4, <2>5
<1> QED BY <1>1, <1>2, <1>3

\* The place i that was delivered is popped.
LEMMA OutputPopsAt ==
  ASSUME PlayingClient, BufferInv, OutPop \/ OutEosPop, NEW i, Given = {i}, i \in DOMAIN OutQ,
         port' = [port EXCEPT !["out"] = PopBufferAt(@, i)],
         out'.pc \in {"loop", "exit"}, cli' = cli, codec' = codec
  PROVE  InKept' /\ OutSide' /\ Kinds'
<1>0. /\ OutKept /\ Placed /\ CodecKept /\ Phases /\ EventInv
      /\ OutQ \in Seq(OutBufs) /\ DOMAIN port = Ports
  BY Typed DEF BufferInv, ThreadInv, PlanInv, Kinds, OutSide
<1>1. OutputNext
  BY DEF OutputNext
<1>2. OutQ' = RemoveAt(OutQ, i) /\ port'["out"].buffers = port["out"].buffers
  <2>1. PortGood(OutBufs, port["out"])
    BY <1>0 DEF EventInv, PortsGood, Ports, Bufs
  <2>2. port'["out"] = PopBufferAt(port["out"], i)
    BY <1>0 DEF Ports
  <2>3. \E b : b \in OutBufs
    BY <1>0
  <2> QED BY <2>1, <2>2, <2>3, PortOps DEF OutQ
<1>3. /\ Pushing = {} /\ Pushing' = {} /\ cli.pc # "consuming" /\ Given' = {} /\ ~HasFrame'
      /\ dec' = dec /\ comp' = comp
  BY <1>1, NotFilling, OutputRest DEF Pushing, Given, HasFrame
<1>4. OutKept' /\ Ready' = Ready
  <2>1. OutAccount(OutQ, {i}, port["out"].buffers, cli.held \cap OutBufs, {})
    BY <1>0, <1>3 DEF OutKept
  <2>2. /\ OutAccount(RemoveAt(OutQ, i), {}, port["out"].buffers, cli.held \cap OutBufs, {})
        /\ Left(RemoveAt(OutQ, i), {}) = Left(OutQ, {i})
    BY <1>0, <2>1, OutPopped
  <2> QED BY <1>2, <1>3, <2>2 DEF OutKept, Ready
<1>5. CodecKept'
  BY <1>0, <1>3, <1>4 DEF CodecKept
<1>6. Placed'
  BY <1>3 DEF Placed
<1>7. Phases'
  BY <1>0, <1>3, PhasesSame
<1>8. OutQ # <<>>
  OBVIOUS
<1> QED BY <1>1, <1>4, <1>5, <1>6, <1>7, <1>8, OutputKeeps DEF OutSide

LEMMA OutputPops ==
  ASSUME PlayingClient, BufferInv, OutPop \/ OutEosPop PROVE InKept' /\ OutSide' /\ Kinds'
<1>0. Placed /\ out \in OutputType /\ OutQ \in Seq(OutBufs)
  BY Typed DEF BufferInv, ThreadInv, PlanInv, OutSide
<1>1. CASE OutPop
  <2>1. out.pc = "pop" /\ out.idx \in DOMAIN OutQ /\ Given = {out.idx} /\ cli' = cli /\ codec' = codec
    BY <1>0, <1>1 DEF OutPop, OutAt, Placed, Given
  <2>2. out.idx <= Len(OutQ)
    BY <1>0, <2>1
  <2>3. port' = [port EXCEPT !["out"] = PopBufferAt(@, out.idx)] /\ Goto("loop")
    BY <1>1, <2>2 DEF OutPop, OutQ
  <2>4. out'.pc = "loop"
    BY <1>0, <2>3 DEF Goto, OutputType
  <2> QED BY <1>1, <2>1, <2>3, <2>4, OutputPopsAt
<1>2. CASE OutEosPop
  <2>1. /\ out.pc = "eospop" /\ 1 \in DOMAIN OutQ /\ Given = {1} /\ cli' = cli /\ codec' = codec
        /\ Goto("exit") /\ port' = [port EXCEPT !["out"] = PopBuffer(@)]
    BY <1>0, <1>2 DEF OutEosPop, OutAt, Placed, Given
  <2>2. PopBuffer(port["out"]) = PopBufferAt(port["out"], 1)
    BY <1>0, <2>1 DEF PopBuffer, OutQ
  <2>3. port' = [port EXCEPT !["out"] = PopBufferAt(@, 1)]
    BY <2>1, <2>2
  <2>4. out'.pc = "exit"
    BY <1>0, <2>1 DEF Goto, OutputType
  <2> QED BY <1>2, <2>1, <2>3, <2>4, OutputPopsAt
<1> QED BY <1>1, <1>2

\* The end of the stream: a buffer is taken to carry the EOS flag,
LEMMA OutputEnds ==
  ASSUME PlayingClient, BufferInv, OutEos PROVE InKept' /\ OutSide' /\ Kinds'
<1>0. /\ OutKept /\ Placed /\ CodecKept /\ Phases /\ Ending /\ out \in OutputType
      /\ OutQ \in Seq(OutBufs)
  BY Typed DEF BufferInv, ThreadInv, PlanInv, Kinds, OutSide
<1>1. OutputNext
  BY DEF OutputNext
<1>2. /\ out.pc = "eos" /\ Undisturbed /\ port' = port /\ cli' = cli /\ codec' = codec
      /\ dec' = dec /\ comp' = comp
  BY DEF OutEos, OutAt
<1>3. CASE out'.pc = "exit"
  BY <1>3, OutputQuiet
<1>4. CASE OutQ # <<>> /\ out' = [out EXCEPT !.pc = "eosdeliver", !.frm = Head(OutQ)]
  <2>1. out'.pc = "eosdeliver" /\ out'.frm = Head(OutQ)
    BY <1>0, <1>4 DEF OutputType
  <2>2. 1 \in DOMAIN OutQ /\ OutQ[1] = Head(OutQ) /\ codec.eos /\ codec.pics = <<>>
    BY <1>0, <1>2, <1>4 DEF Ending
  <2>3. /\ Pushing' = Pushing /\ cli.pc # "consuming" /\ Given' = Given /\ Ready' = Ready /\ OutQ' = OutQ
        /\ ~HasFrame'
    BY <1>2, <2>1, NotFilling DEF Pushing, Given, Ready, OutQ, HasFrame
  <2>4. OutKept' /\ CodecKept'
    BY <1>0, <1>2, <2>3 DEF OutKept, CodecKept
  <2>5. Placed'
    BY <1>2, <2>1, <2>2, <2>3 DEF Placed
  <2>6. Phases'
    BY <1>0, <1>2, <2>1, <2>3, PhasesSame
  <2> QED BY <1>1, <1>2, <2>2, <2>3, <2>4, <2>5, <2>6, OutputKeeps DEF OutSide
<1>5. out'.pc = "exit" \/ (OutQ # <<>> /\ out' = [out EXCEPT !.pc = "eosdeliver", !.frm = Head(OutQ)])
  BY <1>0 DEF OutEos, Goto, OutputType, OutQ
<1> QED BY <1>3, <1>4, <1>5

\* and is delivered.
LEMMA OutputDeliversLast ==
  ASSUME PlayingClient, BufferInv, OutEosDeliver PROVE InKept' /\ OutSide' /\ Kinds'
<1>0. /\ OutKept /\ Placed /\ CodecKept /\ Phases /\ Ending /\ out \in OutputType
      /\ cli \in ClientType /\ OutQ \in Seq(OutBufs)
  BY Typed DEF BufferInv, ThreadInv, PlanInv, Kinds, OutSide
<1>1. OutputNext
  BY DEF OutputNext
<1>2. CASE dec.release
  BY <1>2, OutputQuiet
<1>3. CASE ~dec.release
  <2>1. /\ out.pc = "eosdeliver" /\ Undisturbed /\ port' = port /\ codec' = codec /\ dec' = dec
        /\ comp' = comp /\ cli' = [cli EXCEPT !.held = @ \cup {out.frm}] /\ Goto("eospop")
    BY <1>3 DEF OutEosDeliver, OutAt
  <2>2. out'.pc = "eospop" /\ out'.frm = out.frm
    BY <1>0, <2>1 DEF Goto, OutputType
  <2>3. 1 \in DOMAIN OutQ /\ OutQ[1] = out.frm /\ codec.eos /\ codec.pics = <<>>
    BY <1>0, <2>1 DEF Placed, Ending
  <2>4. out.frm \in OutBufs
    BY <1>0, <2>3
  <2>5. cli'.held \cap OutBufs = (cli.held \cap OutBufs) \cup {OutQ[1]}
    BY <1>0, <2>1, <2>3, <2>4, HandedOut
  <2>6. /\ Pushing = {} /\ Pushing' = {} /\ cli'.pc # "consuming" /\ OutQ' = OutQ
        /\ Given = {} /\ Given' = {1} /\ ~HasFrame'
    BY <1>0, <2>1, <2>2, NotFilling DEF Pushing, Given, OutQ, HasFrame, ClientType
  <2>7. OutKept'
    <3>1. OutAccount(OutQ, {}, port["out"].buffers, cli.held \cap OutBufs, {})
      BY <1>0, <2>6 DEF OutKept
    <3>2. OutAccount(OutQ, {1}, port["out"].buffers, (cli.held \cap OutBufs) \cup {OutQ[1]}, {})
      BY <2>3, <3>1, OutDelivered
    <3> QED BY <2>1, <2>5, <2>6, <3>2 DEF OutKept
  <2>8. CodecKept'
    BY <1>0, <2>1, <2>3, EmptyLeft DEF CodecKept
  <2>9. Placed'
    BY <2>2, <2>3, <2>6 DEF Placed
  <2>10. Phases'
    BY <1>0, <2>1, <2>2, <2>6, PhasesSame
  <2> QED BY <1>1, <2>1, <2>3, <2>6, <2>7, <2>8, <2>9, <2>10, OutputKeeps DEF OutSide
<1> QED BY <1>2, <1>3

\* The output thread
LEMMA BufferOutput ==
  ASSUME PlayingClient, BufferInv, OutputNext PROVE InKept' /\ OutSide' /\ Kinds'
BY OutputQuiet, OutputFetches, OutputFinds, OutputDelivers, OutputPops, OutputEnds,
   OutputDeliversLast DEF OutputNext

-----------------------------------------------------------------------------
(* The client *)

\* Between commands the component thread has only a buffer to decode or the end
\* of a failed codec before it.
LEMMA LoopPlan ==
  ASSUME ThreadInv, comp.pc = "loop"
  PROVE  /\ \A op \in Marks \ {"join", "abortafter"} : ~Has(comp.todo, op)
         /\ \A p : ~Holds(comp.todo, <<"return", p>>)
<1>1. comp.todo \in Seq(DecodeSteps) \cup Seq(FailSteps)
  BY DEF ThreadInv, Alone
<1>2. ASSUME NEW i \in DOMAIN comp.todo
      PROVE  comp.todo[i][1] \notin Marks \ {"join", "abortafter"}
  <2>1. comp.todo[i] \in DecodeSteps \cup FailSteps
    BY <1>1, ElementOfSeq
  <2> QED BY <2>1 DEF DecodeSteps, FailSteps, Marks
<1>3. \A op \in Marks \ {"join", "abortafter"} : ~Has(comp.todo, op)
  BY <1>2 DEF Has
<1>4. ASSUME NEW p, NEW i \in DOMAIN comp.todo, comp.todo[i] = <<"return", p>> PROVE FALSE
  BY <1>2, <1>4 DEF Marks
<1> QED BY <1>3, <1>4 DEF Holds

\* What is left of a plan then promises nothing that a call could break.
LEMMA OrderedLoop ==
  ASSUME ThreadInv, Ordered, comp.pc = "loop", comp'.todo = comp.todo, sd'.thread = sd.thread
  PROVE  Ordered'
<1>1. /\ ~Has(comp.todo, "reset") /\ ~Has(comp.todo, "state") /\ ~Has(comp.todo, "queues")
      /\ ~Has(comp.todo, "create") /\ ~Has(comp.todo, "assert")
      /\ ~Holds(comp.todo, <<"return", "out">>)
  BY LoopPlan DEF Marks
<1> QED BY <1>1 DEF Ordered

\* Calls that change nothing but who has a buffer, what is sent, and flags
LEMMA ClientRest ==
  ASSUME BufferInv, comp' = comp, out' = out, sd' = sd, codec'.phase = codec.phase,
         codec'.need = codec.need, codec'.free = codec.free, codec'.pics = codec.pics,
         codec'.shown = codec.shown, codec'.eos = codec.eos,
         dec'.reconf = dec.reconf, dec'.extra = dec.extra, dec'.list = dec.list,
         dec'.state = dec.state, dec'.prev = dec.prev, dec.release => dec'.release,
         InQ' = InQ, OutQ' = OutQ, cli'.eosBuf = cli.eosBuf,
         cli'.pc \notin {"pushing", "consuming"}
  PROVE  Phases' /\ Ending' /\ Working' /\ Ordered'
<1>0. Phases /\ Ending /\ Working /\ Ordered
  BY DEF BufferInv, Kinds
<1>1. (HasFrame' => HasFrame) /\ (At("finish") => At("finish")') /\ (Decodes' => Decodes)
      /\ (Cleared => Cleared')
  BY DEF HasFrame, At, Decodes, Cleared, Blank
<1>2. Phases'
  BY <1>0, <1>1, PhasesSame
<1>3. Ending'
  BY <1>0, <1>1, EndingSame
<1>4. Working'
  BY <1>0, <1>1, WorkingSame
<1>5. Ordered'
  BY <1>0, <1>1, OrderedSame
<1> QED BY <1>2, <1>3, <1>4, <1>5

\* decoder_send_command
LEMMA ClientCommand ==
  ASSUME PlayingClient, BufferInv, NEW c \in Commands, SendCommand(c)
  PROVE  InKept' /\ OutSide' /\ Kinds'
<1>0. /\ InKept /\ OutSide /\ Answers /\ dec \in DecType /\ codec \in CodecType /\ cli \in ClientType
      /\ DOMAIN port = Ports
      /\ port["in"] \in PortType("in") /\ port["out"] \in PortType("out")
  BY Typed DEF BufferInv, ThreadInv, PlanInv, Kinds
<1>1. /\ cli.pc = "idle" /\ PortCommandFits(c) /\ SendFlags(c) /\ UNCHANGED <<sd, cmdq, comp, out>>
      /\ cli'.pc = "sending" /\ cli'.cmd = c /\ cli'.held = cli.held /\ cli'.eosBuf = cli.eosBuf
  BY <1>0 DEF SendCommand, ClientType
<1>2. /\ InQ' = InQ /\ OutQ' = OutQ /\ port'["in"].buffers = port["in"].buffers
      /\ port'["out"].buffers = port["out"].buffers
      /\ dec'.reconf = dec.reconf /\ dec'.extra = dec.extra /\ dec'.list = dec.list
      /\ dec'.state = dec.state /\ dec'.prev = dec.prev /\ (dec.release => dec'.release)
      /\ codec'.phase = codec.phase /\ codec'.need = codec.need /\ codec'.free = codec.free
      /\ codec'.pics = codec.pics /\ codec'.shown = codec.shown /\ codec'.eos = codec.eos
  <2>1. CASE c[1] \in {"StateSet", "Flush"}
    <3>1. port' = port
      BY <1>1, <2>1 DEF SendFlags
    <3>2. /\ dec'.reconf = dec.reconf /\ dec'.extra = dec.extra /\ dec'.list = dec.list
          /\ dec'.state = dec.state /\ dec'.prev = dec.prev /\ (dec.release => dec'.release)
      BY <1>0, <1>1, <2>1 DEF SendFlags, DecType
    <3>3. /\ codec'.phase = codec.phase /\ codec'.need = codec.need /\ codec'.free = codec.free
          /\ codec'.pics = codec.pics /\ codec'.shown = codec.shown /\ codec'.eos = codec.eos
      BY <1>0, <1>1, <2>1 DEF SendFlags, CodecType, Abort
    <3> QED BY <3>1, <3>2, <3>3 DEF InQ, OutQ
  <2>2. CASE c[1] \in {"PortDisable", "PortEnable"}
    <3>1. codec' = codec
      BY <1>1, <2>2 DEF SendFlags
    <3>2. /\ dec'.reconf = dec.reconf /\ dec'.extra = dec.extra /\ dec'.list = dec.list
          /\ dec'.state = dec.state /\ dec'.prev = dec.prev /\ (dec.release => dec'.release)
      BY <1>0, <1>1, <2>2 DEF SendFlags, DecType
    <3>3. /\ \E x : port'["in"] = [port["in"] EXCEPT !.enabled = x]
          /\ \E x : port'["out"] = [port["out"] EXCEPT !.enabled = x]
      BY <1>1, <2>2 DEF SendFlags, Ports
    <3>4. /\ port'["in"].queue = port["in"].queue /\ port'["in"].buffers = port["in"].buffers
          /\ port'["out"].queue = port["out"].queue /\ port'["out"].buffers = port["out"].buffers
      BY <1>0, <3>3 DEF PortType
    <3> QED BY <3>1, <3>2, <3>4 DEF InQ, OutQ
  <2> QED BY <2>1, <2>2 DEF Commands
<1>3. InKept'
  BY <1>0, <1>1, <1>2, InSame
<1>4. OutSide'
  <2>1. Given' = Given /\ (HasFrame' => HasFrame) /\ Pushing' = Pushing /\ out.pc # "assert"
    BY <1>0, <1>1 DEF Given, HasFrame, Pushing, OutSide, Placed
  <2> QED BY <1>0, <1>1, <1>2, <2>1, OutSame
<1>5. Phases' /\ Ending' /\ Working' /\ Ordered'
  BY <1>1, <1>2, ClientRest
<1>6. Answers'
  <2>1. c[1] = "PortDisable" => dec.reconf
    BY <1>1 DEF PortCommandFits, PlayingClient
  <2> QED BY <1>0, <1>1, <1>2, <2>1 DEF Answers
<1> QED BY <1>3, <1>4, <1>5, <1>6 DEF Kinds

\* HantroOmx_basecomp_send_command
LEMMA ClientQueues ==
  ASSUME PlayingClient, BufferInv, SendQueue PROVE InKept' /\ OutSide' /\ Kinds'
<1>0. /\ InKept /\ OutSide /\ Answers /\ cli \in ClientType /\ cmdq \in Seq(Commands)
      /\ NULL \notin Commands /\ ClientSends
  BY Typed DEF BufferInv, ThreadInv, PlanInv, Kinds
<1>1. /\ cli.pc = "sending" /\ cmdq' = Append(cmdq, cli.cmd) /\ UNCHANGED <<dec, sd, port, codec, comp, out>>
      /\ cli'.pc = "idle" /\ cli'.cmd = NULL /\ cli'.held = cli.held /\ cli'.eosBuf = cli.eosBuf
  BY <1>0 DEF SendQueue, ClientType
<1>2. InQ' = InQ /\ OutQ' = OutQ
  BY <1>1 DEF InQ, OutQ
<1>3. InKept'
  BY <1>0, <1>1, <1>2, InSame
<1>4. OutSide'
  <2>1. Given' = Given /\ (HasFrame' => HasFrame) /\ Pushing' = Pushing /\ out.pc # "assert"
    BY <1>0, <1>1 DEF Given, HasFrame, Pushing, OutSide, Placed
  <2> QED BY <1>0, <1>1, <1>2, <2>1, OutSame
<1>5. Phases' /\ Ending' /\ Working' /\ Ordered'
  BY <1>1, <1>2, ClientRest
<1>6. Answers'
  <2>1. cli.cmd \in Commands
    BY <1>0, <1>1 DEF ClientSends, ClientType, Maybe
  <2>2. Range(Append(cmdq, cli.cmd)) = Range(cmdq) \cup {cli.cmd}
    BY <1>0, <2>1, AppendRange
  <2> QED BY <1>0, <1>1, <2>1, <2>2 DEF Answers
<1> QED BY <1>3, <1>4, <1>5, <1>6 DEF Kinds

\* The list of a port's buffers, when one is allocated and when one is freed
LEMMA ListOps ==
  ASSUME NEW S, NEW p, PortGood(S, p), NEW b \in S, NEW full
  PROVE  /\ [AllocateNextBuffer(p, b) EXCEPT !.populated = full].queue = p.queue
         /\ [AllocateNextBuffer(p, b) EXCEPT !.populated = full].buffers = Append(p.buffers, b)
         /\ b \in Range(p.buffers) =>
              /\ FindBuffer(p, b) \in DOMAIN p.buffers /\ p.buffers[FindBuffer(p, b)] = b
              /\ [RemoveBufferAt(p, FindBuffer(p, b)) EXCEPT !.populated = full].queue = p.queue
              /\ [RemoveBufferAt(p, FindBuffer(p, b)) EXCEPT !.populated = full].buffers
                   = RemoveAt(p.buffers, FindBuffer(p, b))
<1>0. p \in [buffers : Seq(S), bcap : Nat, queue : Seq(S), qcap : Nat,
            event : BOOLEAN, enabled : BOOLEAN, populated : BOOLEAN]
  BY DEF PortGood
<1>1. PICK cap : cap = (IF Len(p.buffers) # p.bcap THEN p.bcap ELSE IF p.bcap = 0 THEN 10 ELSE p.bcap * 2)
  OBVIOUS
<1>2. Len(p.buffers) # cap
  <2>1. Len(p.buffers) \in Nat /\ p.bcap \in Nat
    BY <1>0
  <2> QED BY <1>1, <2>1
<1>3. PICK l : l = Append(p.buffers, b)
  OBVIOUS
<1>4. AllocateNextBuffer(p, b) = [p EXCEPT !.buffers = l, !.bcap = cap]
  <2>1. ListPush(p.buffers, cap, b) = l
    BY <1>2, <1>3 DEF ListPush
  <2> QED BY <1>1, <2>1 DEF AllocateNextBuffer
<1>5. /\ [AllocateNextBuffer(p, b) EXCEPT !.populated = full].queue = p.queue
      /\ [AllocateNextBuffer(p, b) EXCEPT !.populated = full].buffers = l
  BY <1>0, <1>4
<1>6. ASSUME b \in Range(p.buffers)
      PROVE  FindBuffer(p, b) \in DOMAIN p.buffers /\ p.buffers[FindBuffer(p, b)] = b
  <2>1. \E i \in DOMAIN p.buffers : p.buffers[i] = b
    BY <1>6 DEF Range
  <2> QED BY <2>1 DEF FindBuffer
<1>7. PICK i, r : i = FindBuffer(p, b) /\ r = RemoveAt(p.buffers, i)
  OBVIOUS
<1>8. RemoveBufferAt(p, i) = [p EXCEPT !.buffers = r]
  BY <1>7 DEF RemoveBufferAt
<1>9. /\ [RemoveBufferAt(p, i) EXCEPT !.populated = full].queue = p.queue
      /\ [RemoveBufferAt(p, i) EXCEPT !.populated = full].buffers = r
  BY <1>0, <1>8
<1> QED BY <1>3, <1>5, <1>6, <1>7, <1>9

\* Buffers come and go, and nothing else changes.
LEMMA ClientStores ==
  ASSUME PlayingClient, BufferInv, NEW p \in Ports, NEW b \in Bufs(p),
         AllocateBuffer(p, b) \/ FreeBuffer(p, b)
  PROVE  InKept' /\ OutSide' /\ Kinds'
<1>0. /\ InKept /\ OutSide /\ Answers /\ cli \in ClientType /\ EventInv
      /\ DOMAIN port = Ports /\ InBufs \cap OutBufs = {} /\ NULL \notin InBufs
      /\ port["in"].buffers \in Seq(InBufs) /\ port["out"].buffers \in Seq(OutBufs)
  BY Typed DEF BufferInv, ThreadInv, PlanInv, Kinds
<1>1. /\ cli.pc = "idle" /\ UNCHANGED <<dec, sd, codec, cmdq, comp, out>>
      /\ cli'.pc = "idle" /\ cli'.cmd = cli.cmd /\ cli'.eosBuf = cli.eosBuf
  BY <1>0 DEF AllocateBuffer, FreeBuffer, ClientType
<1>2. /\ Given' = Given /\ (HasFrame' => HasFrame) /\ Pushing' = {} /\ Pushing = {} /\ out.pc # "assert"
  BY <1>0, <1>1 DEF Given, HasFrame, Pushing, OutSide, Placed
<1>3. PICK h \in {"held", "freed"} :
        /\ h = "held" => cli'.held = cli.held \cup {b} /\ b \notin Range(port[p].buffers)
        /\ h = "freed" => cli'.held = cli.held \ {b} /\ b \in cli.held /\ b \in Range(port[p].buffers)
        /\ port'[p].queue = port[p].queue
        /\ h = "held" => port'[p].buffers = Append(port[p].buffers, b)
        /\ h = "freed" => \E i \in DOMAIN port[p].buffers : port[p].buffers[i] = b /\ port'[p].buffers = RemoveAt(port[p].buffers, i)
        /\ \A r \in Ports : r # p => port'[r] = port[r]
  <2>1. PortGood(Bufs(p), port[p])
    BY <1>0 DEF EventInv, PortsGood
  <2>2. CASE AllocateBuffer(p, b)
    <3>1. PICK full : port' = [port EXCEPT ![p] = [AllocateNextBuffer(port[p], b) EXCEPT !.populated = full]]
      BY <2>2 DEF AllocateBuffer
    <3>2. port'[p].queue = port[p].queue /\ port'[p].buffers = Append(port[p].buffers, b)
      BY <1>0, <2>1, <3>1, ListOps
    <3>3. \A r \in Ports : r # p => port'[r] = port[r]
      BY <1>0, <3>1
    <3>4. cli'.held = cli.held \cup {b} /\ b \notin Range(port[p].buffers)
      BY <1>0, <2>2 DEF AllocateBuffer, ClientType
    <3> QED BY <3>2, <3>3, <3>4
  <2>3. CASE FreeBuffer(p, b)
    <3>1. port' = [port EXCEPT ![p] = [RemoveBufferAt(port[p], FindBuffer(port[p], b)) EXCEPT !.populated = FALSE]]
      BY <2>3 DEF FreeBuffer
    <3>2. cli'.held = cli.held \ {b} /\ b \in cli.held /\ b \in Range(port[p].buffers)
      BY <1>0, <2>3 DEF FreeBuffer, ClientType
    <3>3. /\ port'[p].queue = port[p].queue /\ port'[p].buffers = RemoveAt(port[p].buffers, FindBuffer(port[p], b))
          /\ FindBuffer(port[p], b) \in DOMAIN port[p].buffers
          /\ port[p].buffers[FindBuffer(port[p], b)] = b
      BY <1>0, <2>1, <3>1, <3>2, ListOps
    <3>4. \A r \in Ports : r # p => port'[r] = port[r]
      BY <1>0, <3>1
    <3> QED BY <3>2, <3>3, <3>4
  <2> QED BY <2>2, <2>3
<1>4. InQ' = InQ /\ OutQ' = OutQ
  BY <1>3 DEF InQ, OutQ, Ports
<1>5. ASSUME p = "in" PROVE InKept' /\ OutSide'
  <2>1. b \in InBufs /\ b # NULL /\ b \notin OutBufs /\ port'["out"] = port["out"]
    BY <1>0, <1>3, <1>5 DEF Bufs, Ports
  <2>2. cli'.held \cap OutBufs = cli.held \cap OutBufs
    BY <1>3, <2>1
  <2>3. OutSide'
    BY <1>0, <1>1, <1>2, <1>4, <2>1, <2>2, OutSame
  <2>4. ASSUME h = "held" PROVE InKept'
    <3>1. cli'.held \cap InBufs = (cli.held \cap InBufs) \cup {b} /\ b \notin Range(port["in"].buffers)
          /\ port'["in"].buffers = Append(port["in"].buffers, b)
      BY <1>3, <1>5, <2>1, <2>4
    <3>2. InAccount(InQ, Append(port["in"].buffers, b), (cli.held \cap InBufs) \cup {b}, dec.prev)
      BY <1>0, <2>1, <3>1, InAllocated DEF InKept
    <3> QED BY <1>1, <1>4, <3>1, <3>2 DEF InKept
  <2>5. ASSUME h = "freed" PROVE InKept'
    <3>1. PICK i \in DOMAIN port["in"].buffers :
             port["in"].buffers[i] = b /\ port'["in"].buffers = RemoveAt(port["in"].buffers, i)
      BY <1>3, <1>5, <2>5
    <3>2. cli'.held \cap InBufs = (cli.held \cap InBufs) \ {b} /\ b \in cli.held \cap InBufs
      BY <1>3, <2>1, <2>5
    <3>3. InAccount(InQ, RemoveAt(port["in"].buffers, i), (cli.held \cap InBufs) \ {b}, dec.prev)
      BY <1>0, <2>1, <3>1, <3>2, InFreed DEF InKept
    <3> QED BY <1>1, <1>4, <3>1, <3>2, <3>3 DEF InKept
  <2>6. InKept'
    BY <2>4, <2>5
  <2> QED BY <2>3, <2>6
<1>6. ASSUME p = "out" PROVE InKept' /\ OutSide'
  <2>1. b \in OutBufs /\ b \notin InBufs /\ port'["in"] = port["in"]
    BY <1>0, <1>3, <1>6 DEF Bufs, Ports
  <2>2. cli'.held \cap InBufs = cli.held \cap InBufs
    BY <1>3, <2>1
  <2>3. InKept'
    BY <1>0, <1>1, <1>4, <2>1, <2>2, InSame
  <2>4. ASSUME h = "held" PROVE OutKept'
    <3>1. cli'.held \cap OutBufs = (cli.held \cap OutBufs) \cup {b} /\ b \notin Range(port["out"].buffers)
          /\ port'["out"].buffers = Append(port["out"].buffers, b)
      BY <1>3, <1>6, <2>1, <2>4
    <3>2. OutAccount(OutQ, Given, Append(port["out"].buffers, b), (cli.held \cap OutBufs) \cup {b}, {})
      BY <1>0, <1>2, <2>1, <3>1, OutAllocated DEF OutSide, OutKept
    <3> QED BY <1>2, <1>4, <3>1, <3>2 DEF OutKept
  <2>5. ASSUME h = "freed" PROVE OutKept'
    <3>1. PICK i \in DOMAIN port["out"].buffers :
             port["out"].buffers[i] = b /\ port'["out"].buffers = RemoveAt(port["out"].buffers, i)
      BY <1>3, <1>6, <2>5
    <3>2. cli'.held \cap OutBufs = (cli.held \cap OutBufs) \ {b} /\ b \in cli.held \cap OutBufs
      BY <1>3, <2>1, <2>5
    <3>3. OutAccount(OutQ, Given, RemoveAt(port["out"].buffers, i), (cli.held \cap OutBufs) \ {b}, {})
      BY <1>0, <1>2, <2>1, <3>1, <3>2, OutFreed DEF OutSide, OutKept
    <3> QED BY <1>2, <1>4, <3>1, <3>2, <3>3 DEF OutKept
  <2>6. Placed' /\ CodecKept'
    <3>1. Ready' = Ready
      BY <1>2, <1>4 DEF Ready
    <3> QED BY <1>0, <1>1, <1>2, <1>4, <3>1 DEF OutSide, Placed, CodecKept
  <2> QED BY <2>3, <2>4, <2>5, <2>6 DEF OutSide
<1>7. Phases' /\ Ending' /\ Working' /\ Ordered'
  BY <1>1, <1>4, ClientRest
<1>8. Answers'
  BY <1>0, <1>1, AnswersSame
<1> QED BY <1>5, <1>6, <1>7, <1>8 DEF Kinds, Ports

\* A client that may hand a buffer over knows that the component executes and that
\* no command is on its way.
LEMMA MayFillMeans ==
  ASSUME PlayingClient, BufferInv, NEW p, MayFill(p)
  PROVE  dec.state = "Executing" /\ comp.pc = "loop"
BY DEF PlayingClient, PlainClient, MayFill, CommandsDone

\* decoder_empty_this_buffer
LEMMA ClientEmpties ==
  ASSUME PlayingClient, BufferInv, NEW b \in InBufs, EmptyThisBuffer(b)
  PROVE  InKept' /\ OutSide' /\ Kinds'
<1>0. /\ InKept /\ OutSide /\ Phases /\ Ending /\ Working /\ Ordered /\ Answers /\ ThreadInv
      /\ cli \in ClientType /\ EventInv
      /\ DOMAIN port = Ports /\ InBufs \cap OutBufs = {} /\ NULL \notin InBufs
      /\ InQ \in Seq(InBufs)
  BY Typed DEF BufferInv, ThreadInv, PlanInv, Kinds
<1>1. /\ cli.pc = "idle" /\ UNCHANGED <<dec, sd, codec, cmdq, comp, out>> /\ MayFill("in")
      /\ b \in cli.held /\ cli.eosBuf = NULL
      /\ cli'.pc = "idle" /\ cli'.cmd = cli.cmd /\ cli'.held = cli.held \ {b}
      /\ cli'.eosBuf \in {b, NULL}
      /\ port' = [port EXCEPT !["in"] = PushBuffer(@, b)]
  BY <1>0 DEF EmptyThisBuffer, ClientType
<1>2. /\ InQ' = Append(InQ, b) /\ port'["in"].buffers = port["in"].buffers /\ port'["out"] = port["out"]
      /\ OutQ' = OutQ
  <2>1. PortGood(InBufs, port["in"])
    BY <1>0 DEF EventInv, PortsGood, Ports, Bufs
  <2>2. port'["in"] = PushBuffer(port["in"], b) /\ port'["out"] = port["out"]
    BY <1>0, <1>1 DEF Ports
  <2>3. /\ PushBuffer(port["in"], b).queue = Append(port["in"].queue, b)
        /\ PushBuffer(port["in"], b).buffers = port["in"].buffers
    BY <2>1, PortOps
  <2> QED BY <2>2, <2>3, Zenon DEF InQ, OutQ
<1>3. dec.state = "Executing" /\ comp.pc = "loop"
  BY <1>1, MayFillMeans
<1>4. /\ Given' = Given /\ (HasFrame' => HasFrame) /\ Pushing' = Pushing /\ out.pc # "assert"
  BY <1>0, <1>1 DEF Given, HasFrame, Pushing, OutSide, Placed
<1>5. InKept'
  <2>1. cli'.held \cap InBufs = (cli.held \cap InBufs) \ {b} /\ b \in cli.held \cap InBufs
    BY <1>1
  <2>2. InAccount(Append(InQ, b), port["in"].buffers, (cli.held \cap InBufs) \ {b}, dec.prev)
    BY <1>0, <2>1, InPushed DEF InKept
  <2> QED BY <1>1, <1>2, <2>1, <2>2 DEF InKept
<1>6. OutSide'
  <2>1. cli'.held \cap OutBufs = cli.held \cap OutBufs
    BY <1>0, <1>1
  <2> QED BY <1>0, <1>1, <1>2, <1>4, <2>1, OutSame
<1>7. Phases'
  BY <1>0, <1>1, <1>4, PhasesSame
<1>8. \A i \in DOMAIN InQ : InQ[i] # b
  BY <1>0, <1>1 DEF InKept, InAccount, Range
<1>9. /\ Len(InQ') = Len(InQ) + 1 /\ Len(InQ) \in Nat /\ InQ'[Len(InQ) + 1] = b
      /\ \A i \in DOMAIN InQ : i \in DOMAIN InQ' /\ InQ'[i] = InQ[i]
      /\ \A i \in DOMAIN InQ' : i \in DOMAIN InQ \/ i = Len(InQ) + 1
  BY <1>0, <1>2
<1>10. Ending'
  <2>1. ~codec.eos
    BY <1>0, <1>1 DEF Ending
  <2>2. out.pc \notin {"eos", "eosdeliver", "eospop"}
    BY <1>0, <2>1 DEF Ending
  <2>3. \A i \in DOMAIN InQ' : InQ'[i] = b => i = Len(InQ')
    BY <1>8, <1>9
  <2> QED BY <1>1, <2>1, <2>2, <2>3 DEF Ending
<1>11. Working'
  <2>1. Decodes' => Decodes
    BY <1>1 DEF Decodes
  <2> QED BY <1>0, <1>1, <1>3, <1>9, <2>1 DEF Working
<1>12. Ordered'
  BY <1>0, <1>1, <1>3, OrderedLoop
<1>13. Answers'
  BY <1>0, <1>1, AnswersSame
<1> QED BY <1>5, <1>6, <1>7, <1>10, <1>11, <1>12, <1>13 DEF Kinds

\* What a call of FillThisBuffer does not touch
LEMMA FillRest ==
  ASSUME PlayingClient, BufferInv, comp' = comp, out' = out, sd'.thread = sd.thread, cmdq' = cmdq,
         cli'.cmd = cli.cmd, cli'.eosBuf = cli.eosBuf, cli'.held \cap InBufs = cli.held \cap InBufs,
         codec'.eos = codec.eos, codec'.pics = codec.pics, dec'.reconf = dec.reconf,
         dec'.prev = dec.prev, dec'.state = dec.state, port'["in"] = port["in"],
         dec.state = "Executing", comp.pc = "loop"
  PROVE  InKept' /\ Ending' /\ Working' /\ Ordered' /\ Answers'
<1>0. InKept /\ Ending /\ Working /\ Ordered /\ Answers /\ ThreadInv
  BY DEF BufferInv, Kinds
<1>1. InQ' = InQ /\ (At("finish") => At("finish")') /\ (Decodes' => Decodes)
  BY DEF InQ, At, Decodes
<1>2. InKept'
  BY <1>0, <1>1, InSame
<1>3. Ending'
  BY <1>0, <1>1, EndingSame
<1>4. Working'
  BY <1>0, <1>1 DEF Working
<1>5. Ordered'
  BY <1>0, OrderedLoop
<1>6. Answers'
  BY <1>0, AnswersSame
<1> QED BY <1>2, <1>3, <1>4, <1>5, <1>6

\* decoder_fill_this_buffer: a buffer is registered only when the codec already runs.
LEMMA ClientFills ==
  ASSUME PlayingClient, BufferInv, NEW b \in OutBufs, FillThisBuffer(b)
  PROVE  InKept' /\ OutSide' /\ Kinds'
<1>0. /\ OutKept /\ Placed /\ CodecKept /\ Phases /\ dec \in DecType /\ codec \in CodecType
      /\ cli \in ClientType /\ InBufs \cap OutBufs = {}
  BY Typed DEF BufferInv, ThreadInv, PlanInv, Kinds, OutSide
<1>1. /\ cli.pc = "idle" /\ UNCHANGED <<sd, port, cmdq, comp, out>> /\ MayFill("out") /\ b \in cli.held
      /\ cli'.pc = "pushing" /\ cli'.buf = b /\ cli'.cmd = cli.cmd /\ cli'.held = cli.held \ {b}
      /\ cli'.eosBuf = cli.eosBuf
  BY <1>0 DEF FillThisBuffer, ClientType
<1>2. dec.state = "Executing" /\ comp.pc = "loop"
  BY <1>1, MayFillMeans
<1>3. \/ dec' = dec /\ codec' = codec
      \/ /\ Registers(b) /\ codec' = SetFrameBuffer(codec, b)
         /\ \E slot : dec' = [dec EXCEPT !.list[slot] = b]
  BY DEF FillThisBuffer
<1>4. /\ dec'.reconf = dec.reconf /\ dec'.extra = dec.extra /\ dec'.state = dec.state
      /\ dec'.prev = dec.prev /\ dec'.release = dec.release
  BY <1>0, <1>3 DEF DecType
<1>5. /\ codec'.phase = codec.phase /\ codec'.need = codec.need /\ codec'.pics = codec.pics
      /\ codec'.shown = codec.shown /\ codec'.eos = codec.eos
      /\ codec'.free = codec.free \/ (codec'.free = codec.free \cup {b} /\ b \notin Known(codec))
  BY <1>0, <1>3 DEF CodecType, SetFrameBuffer
<1>6. InKept' /\ Ending' /\ Working' /\ Ordered' /\ Answers'
  <2>1. cli'.held \cap InBufs = cli.held \cap InBufs
    BY <1>0, <1>1
  <2> QED BY <1>1, <1>2, <1>4, <1>5, <2>1, FillRest
<1>7. /\ Pushing = {} /\ Pushing' = {b} /\ Given' = Given /\ OutQ' = OutQ /\ Ready' = Ready
      /\ (HasFrame' <=> HasFrame)
  BY <1>1 DEF Pushing, Given, OutQ, Ready, HasFrame
<1>8. OutKept'
  <2>1. OutAccount(OutQ, Given, port["out"].buffers, cli.held \cap OutBufs, {})
    BY <1>0, <1>7 DEF OutKept
  <2>2. OutAccount(OutQ, Given, port["out"].buffers, (cli.held \cap OutBufs) \ {b}, {b})
    BY <1>1, <2>1, OutFilled
  <2>3. cli'.held \cap OutBufs = (cli.held \cap OutBufs) \ {b}
    BY <1>1
  <2> QED BY <1>1, <1>7, <2>2, <2>3 DEF OutKept
<1>9. Placed'
  BY <1>0, <1>1, <1>5, <1>7 DEF Placed
<1>10. CodecKept'
  BY <1>0, <1>5, <1>7 DEF CodecKept, Known
<1>11. Phases'
  <2>1. CASE dec' = dec /\ codec' = codec
    BY <1>0, <1>1, <1>7, <2>1, PhasesSame
  <2>2. CASE Registers(b)
    <3>1. dec.extra /\ ~Filled
      BY <2>2 DEF Registers, Filled
    <3>2. ~dec.reconf /\ codec.phase # "wait" /\ ~Registering /\ (At("data") => dec.release)
      BY <1>0, <3>1 DEF Phases
    <3>3. ~Registering' /\ (At("data")' => At("data"))
      BY <1>1, <3>2 DEF Registering, At
    <3> QED BY <1>0, <1>1, <1>4, <1>5, <1>7, <3>2, <3>3 DEF Phases
  <2> QED BY <1>3, <2>1, <2>2
<1> QED BY <1>6, <1>8, <1>9, <1>10, <1>11 DEF OutSide, Kinds

\* decoder_push_buffer
LEMMA ClientPushes ==
  ASSUME PlayingClient, BufferInv, FillPush PROVE InKept' /\ OutSide' /\ Kinds'
<1>0. /\ OutKept /\ Placed /\ CodecKept /\ Phases /\ Working /\ EventInv
      /\ cli \in ClientType /\ OutQ \in Seq(OutBufs) /\ DOMAIN port = Ports
  BY Typed DEF BufferInv, ThreadInv, PlanInv, Kinds, OutSide
<1>1. /\ cli.pc = "pushing" /\ UNCHANGED <<dec, sd, codec, cmdq, comp, out>>
      /\ cli'.pc = "consuming" /\ cli'.buf = cli.buf /\ cli'.cmd = cli.cmd /\ cli'.held = cli.held
      /\ cli'.eosBuf = cli.eosBuf
      /\ port' = [port EXCEPT !["out"] = PushBuffer(@, cli.buf)]
  BY <1>0 DEF FillPush, ClientType
<1>2. PICK b \in OutBufs : b = cli.buf
  BY <1>0, <1>1 DEF EventInv, ClientGood
<1>3. OutQ' = Append(OutQ, b) /\ port'["out"].buffers = port["out"].buffers /\ port'["in"] = port["in"]
  <2>1. PortGood(OutBufs, port["out"])
    BY <1>0 DEF EventInv, PortsGood, Ports, Bufs
  <2>2. port'["out"] = PushBuffer(port["out"], b) /\ port'["in"] = port["in"]
    BY <1>0, <1>1, <1>2 DEF Ports
  <2> QED BY <2>1, <2>2, PortOps DEF OutQ
<1>4. InKept' /\ Ending' /\ Working' /\ Ordered' /\ Answers'
  <2>1. dec.state = "Executing" /\ comp.pc = "loop"
    BY <1>0, <1>1 DEF Working
  <2> QED BY <1>1, <1>3, <2>1, FillRest
<1>5. /\ Pushing = {b} /\ Pushing' = {} /\ Given' = Given /\ (HasFrame' <=> HasFrame)
  BY <1>1, <1>2 DEF Pushing, Given, HasFrame
<1>6. OutKept' /\ Ready' = Ready \cup {b} /\ b \notin Ready
  <2>1. Given \subseteq DOMAIN OutQ
    BY <1>0, QueuedOut
  <2>2. OutAccount(OutQ, Given, port["out"].buffers, cli.held \cap OutBufs, {b})
    BY <1>0, <1>5 DEF OutKept
  <2>3. /\ OutAccount(Append(OutQ, b), Given, port["out"].buffers, cli.held \cap OutBufs, {})
        /\ Left(Append(OutQ, b), Given) = Left(OutQ, Given) \cup {b}
    <3>1. OutQ \in Seq(OutBufs) /\ b \in OutBufs
      BY <1>0, <1>2, Zenon
    <3> QED BY <2>1, <2>2, <3>1, OutPushed
  <2> QED BY <1>1, <1>3, <1>5, <2>2, <2>3 DEF OutKept, Ready, OutAccount
<1>7. \A i \in DOMAIN OutQ : i \in DOMAIN OutQ' /\ OutQ'[i] = OutQ[i]
  BY <1>0, <1>3
<1>8. Placed'
  BY <1>0, <1>1, <1>2, <1>5, <1>6, <1>7 DEF Placed
<1>9. CodecKept'
  BY <1>0, <1>1, <1>5, <1>6 DEF CodecKept
<1>10. Phases'
  BY <1>0, <1>1, <1>5, PhasesSame
<1> QED BY <1>4, <1>6, <1>8, <1>9, <1>10 DEF OutSide, Kinds

\* codec->pictureconsumed
LEMMA ClientConsumes ==
  ASSUME PlayingClient, BufferInv, FillConsume PROVE InKept' /\ OutSide' /\ Kinds'
<1>0. /\ OutKept /\ Placed /\ CodecKept /\ Phases /\ Working /\ sd \in SharedType
      /\ cli \in ClientType /\ codec \in CodecType
  BY Typed DEF BufferInv, ThreadInv, PlanInv, Kinds, OutSide
<1>1. /\ cli.pc = "consuming" /\ UNCHANGED <<dec, port, cmdq, comp, out>> /\ sd'.thread = sd.thread
      /\ cli'.pc = "idle" /\ cli'.cmd = cli.cmd /\ cli'.held = cli.held /\ cli'.eosBuf = cli.eosBuf
  BY <1>0 DEF FillConsume, ClientType, SharedType
<1>2. PICK b : b = cli.buf
  OBVIOUS
<1>3. codec' = codec \/ codec' = PictureConsumed(codec, b)
  BY <1>2 DEF FillConsume
<1>4. /\ codec'.phase = codec.phase /\ codec'.need = codec.need /\ codec'.pics = codec.pics
      /\ codec'.eos = codec.eos
      /\ \/ codec'.free = codec.free /\ codec'.shown = codec.shown
         \/ b \in codec.shown /\ codec'.free = codec.free \cup {b} /\ codec'.shown = codec.shown \ {b}
  BY <1>0, <1>3 DEF CodecType, PictureConsumed
<1>5. InKept' /\ Ending' /\ Working' /\ Ordered' /\ Answers'
  <2>1. dec.state = "Executing" /\ comp.pc = "loop"
    BY <1>0, <1>1 DEF Working
  <2> QED BY <1>1, <1>4, <2>1, FillRest
<1>6. /\ Pushing = {} /\ Pushing' = {} /\ Given' = Given /\ OutQ' = OutQ /\ Ready' = Ready
      /\ (HasFrame' <=> HasFrame)
  BY <1>1 DEF Pushing, Given, OutQ, Ready, HasFrame
<1>7. OutKept'
  BY <1>0, <1>1, <1>6 DEF OutKept
<1>8. b \in Ready /\ (HasFrame => b # out.frm)
  BY <1>0, <1>1, <1>2 DEF Placed
<1>9. Placed'
  BY <1>0, <1>1, <1>4, <1>6, <1>8 DEF Placed
<1>10. CodecKept'
  BY <1>0, <1>4, <1>6, <1>8 DEF CodecKept
<1>11. Phases'
  <2>1. Blank => Blank'
    BY <1>4 DEF Blank
  <2>2. /\ (Registering' <=> Registering) /\ Arg' = Arg /\ (At("data")' <=> At("data"))
        /\ (Filled' <=> Filled)
    BY <1>1 DEF Registering, At, Arg, Filled
  <2> QED BY <1>0, <1>1, <1>4, <1>6, <2>1, <2>2 DEF Phases
<1> QED BY <1>5, <1>7, <1>9, <1>10, <1>11 DEF OutSide, Kinds

\* The client's calls
LEMMA BufferClient ==
  ASSUME PlayingClient, BufferInv, ClientNext PROVE InKept' /\ OutSide' /\ Kinds'
BY ClientCommand, ClientQueues, ClientStores, ClientEmpties, ClientFills, ClientPushes,
   ClientConsumes DEF ClientNext

-----------------------------------------------------------------------------
(* Decoding *)

\* While a buffer is decoded the component executes, the buffer is the first of
\* the queue, and the end of the stream is not known before the last step.
LEMMA DecodingNow ==
  ASSUME BufferInv, Decodes
  PROVE  /\ dec.state = "Executing" /\ 1 \in DOMAIN InQ /\ InQ[1] = comp.buf
         /\ ~At("finish") => ~codec.eos /\ out.pc \notin {"eos", "eosdeliver", "eospop"}
<1>0. Working /\ Ending
  BY DEF BufferInv, Kinds
<1>1. dec.state = "Executing" /\ 1 \in DOMAIN InQ /\ InQ[1] = comp.buf
  BY <1>0 DEF Working
<1> QED BY <1>0, <1>1 DEF Ending

\* What no step of decoding touches
LEMMA DecodeAlways ==
  ASSUME PlayingClient, BufferInv, DecodeNext
  PROVE  /\ cmdq' = cmdq /\ out' = out /\ sd'.thread = sd.thread /\ dec'.release = dec.release
         /\ cli.pc \notin {"pushing", "consuming"} /\ Pushing = {}
         /\ cli'.pc = cli.pc /\ cli'.cmd = cli.cmd /\ cli'.eosBuf = cli.eosBuf
         /\ Given' = Given /\ (HasFrame' <=> HasFrame) /\ Pushing' = {} /\ out.pc # "assert"
<1>0. PlanInv /\ cli \in ClientType /\ Placed
  BY DEF BufferInv, ThreadInv, PlanInv, OutSide
<1>1. cmdq' = cmdq /\ out' = out /\ sd'.thread = sd.thread /\ dec'.release = dec.release
  BY <1>0, DecodeRest
<1>2. /\ cli' = cli \/ (\E x : cli' = [cli EXCEPT !.held = x])
      /\ Undisturbed
  BY DEF DecodeNext, DecodeStart, DecodeExtra, DecodeStop, DecodeEmpty, DecodeAborted,
         DecodeHeaders, DecodeReconfigure, DecodeWaiting, DecodeRegister, DecodeNoBuffer,
         DecodePicture, DecodeNothing, DecodeNewHeaders, DecodeError, DecodeFailed, DecodeTail,
         DecodeFinish, Decoding, Step
<1>3. cli'.pc = cli.pc /\ cli'.cmd = cli.cmd /\ cli'.eosBuf = cli.eosBuf
  BY <1>0, <1>2 DEF ClientType
<1>4. cli.pc \notin {"pushing", "consuming"} /\ Pushing = {}
  BY <1>2, NotFilling
<1>5. Given' = Given /\ (HasFrame' <=> HasFrame) /\ Pushing' = {} /\ out.pc # "assert"
  BY <1>0, <1>1, <1>3, <1>4 DEF Given, HasFrame, Pushing, Placed
<1> QED BY <1>1, <1>3, <1>4, <1>5

\* A plan to decode promises nothing.
LEMMA DecodeOrdered ==
  ASSUME comp'.todo \in Seq(DecodeSteps), First(comp'.todo) PROVE Ordered'
<1>1. PICK s : s = comp'.todo
  OBVIOUS
<1>2. /\ \A op \in Marks : ~Has(s, op)
      /\ Follows(s) /\ \A p : ~Holds(s, <<"return", p>>)
  BY <1>1, OtherPlansUnmarked, UnmarkedOrdered
<1>3. /\ ~Has(s, "abortafter") /\ ~Has(s, "reset") /\ ~Has(s, "state") /\ ~Has(s, "queues")
      /\ ~Has(s, "create") /\ ~Has(s, "assert") /\ ~Holds(s, <<"return", "out">>)
  BY <1>2 DEF Marks
<1> QED BY <1>1, <1>2, <1>3 DEF Ordered

\* Steps within the buffer
LEMMA DecodeWithin ==
  ASSUME PlayingClient, BufferInv, DecodeNext, ~DecodeError, port' = port, cli' = cli,
         dec'.prev = dec.prev, dec'.state = dec.state, dec.reconf => dec'.reconf,
         First(comp'.todo),
         1 \in DOMAIN InQ, InQ[1] = comp'.buf, dec.state = "Executing",
         ~codec.eos, ~codec'.eos
  PROVE  InKept' /\ Ending' /\ Working' /\ Ordered' /\ Answers'
<1>0. /\ InKept /\ Ending /\ Working /\ Answers /\ PlanInv
  BY DEF BufferInv, ThreadInv, Kinds
<1>1. /\ cmdq' = cmdq /\ out' = out /\ cli.pc \notin {"pushing", "consuming"}
      /\ InQ' = InQ
  BY DecodeAlways DEF InQ
<1>2. comp'.todo \in Seq(DecodeSteps)
  <2>1. ~DecodeFailed
    <3>1. ASSUME DecodeFailed PROVE FALSE
      <4>1. dec'.state = "Invalid"
        BY <1>0, <3>1 DEF DecodeFailed, PlanInv, DecType
      <4> QED BY <4>1
    <3> QED BY <3>1
  <2> QED BY <1>0, <2>1, DecodeTodo
<1>3. InKept'
  BY <1>0, <1>1, InSame
<1>4. Ending'
  BY <1>0, <1>1 DEF Ending
<1>5. Working'
  BY <1>1 DEF Working
<1>6. Ordered'
  BY <1>2, DecodeOrdered
<1>7. Answers'
  BY <1>0, <1>1, AnswersSame
<1> QED BY <1>3, <1>4, <1>5, <1>6, <1>7

\* A plan of one step
LEMMA SingleStep ==
  ASSUME comp \in CompType, NEW x, Continue(<<x>>)
  PROVE  /\ comp'.todo = <<x>> /\ comp'.buf = comp.buf /\ comp'.pc = comp.pc
         /\ First(comp'.todo) /\ \A op : At(op)' <=> x[1] = op
         /\ Arg' = x[2] /\ (Registering' <=> x[1] \in {"register", "no-buffer"})
<1>1. comp'.todo = <<x>> /\ comp'.buf = comp.buf /\ comp'.pc = comp.pc
  BY DEF Continue, CompType
<1>2. \A op : At(op)' <=> x[1] = op
  BY <1>1 DEF At
<1>3. Arg' = x[2] /\ (Registering' <=> x[1] \in {"register", "no-buffer"})
  BY <1>1, <1>2 DEF Arg, Registering
<1>4. First(comp'.todo)
  BY <1>1 DEF First
<1> QED BY <1>1, <1>2, <1>3, <1>4

\* All registered: outputBufSize >= nBufferCountMin
LEMMA AllRegistered ==
  ASSUME PlayingClient, OutputBufSize >= CountMin PROVE Filled
<1>1. PICK n \in Nat : n = Cardinality(OutBufs) /\ Slots = 1 .. n /\ CountMin = n
  BY DecoderConstantsOK, FS_CardinalityType DEF DecoderConstantsOK, Slots, PlayingClient
<1>2. PICK T : T = {i \in Slots : dec.list[i] # NULL}
  OBVIOUS
<1>3. IsFiniteSet(Slots) /\ Cardinality(Slots) = n
  BY <1>1, FS_Interval
<1>4. T \subseteq Slots /\ Cardinality(T) >= n
  BY <1>1, <1>2 DEF OutputBufSize
<1>5. Cardinality(T) <= n /\ Cardinality(T) \in Nat /\ (Cardinality(T) = n => T = Slots)
  BY <1>3, <1>4, FS_Subset, FS_CardinalityType
<1>6. T = Slots
  BY <1>4, <1>5
<1> QED BY <1>2, <1>6 DEF Filled

\* Steps that change neither the codec nor flags
LEMMA DecodeQuiet ==
  ASSUME PlayingClient, BufferInv, DecodeNext, ~DecodeError, UNCHANGED <<dec, port, codec, cli>>,
         First(comp'.todo), Phases',
         1 \in DOMAIN InQ, InQ[1] = comp'.buf, dec.state = "Executing", ~codec.eos
  PROVE  InKept' /\ OutSide' /\ Kinds'
<1>1. OutSide
  BY DEF BufferInv
<1>2. /\ out' = out /\ Given' = Given /\ (HasFrame' <=> HasFrame) /\ Pushing' = {} /\ Pushing = {}
      /\ out.pc # "assert" /\ cli.pc # "consuming" /\ OutQ' = OutQ
  BY DecodeAlways DEF OutQ
<1>3. OutSide'
  BY <1>1, <1>2, OutSame
<1>4. InKept' /\ Ending' /\ Working' /\ Ordered' /\ Answers'
  BY DecodeWithin
<1> QED BY <1>3, <1>4 DEF Kinds

\* A buffer is taken up.
LEMMA DecodeStarts ==
  ASSUME PlayingClient, BufferInv, DecodeStart PROVE InKept' /\ OutSide' /\ Kinds'
<1>0. /\ Phases /\ Ending /\ comp \in CompType /\ InQ \in Seq(InBufs)
  BY Typed DEF BufferInv, ThreadInv, PlanInv, Kinds
<1>1. /\ DecodeNext /\ comp.todo = <<>> /\ InQ # <<>> /\ dec.state = "Executing"
      /\ UNCHANGED <<dec, port, codec, cli, out>>
  BY DEF DecodeNext, DecodeStart, InQ
<1>2. PICK c \in {"data", "empty"} :
        comp'.buf = Head(InQ) /\ comp'.todo = <<<<"extra", NULL>>, <<c, NULL>>>>
  BY <1>0 DEF DecodeStart, CompType, InQ
<1>3. 1 \in DOMAIN InQ /\ InQ[1] = comp'.buf
  BY <1>0, <1>1, <1>2
<1>4. First(comp'.todo) /\ ~Registering' /\ ~At("data")'
  BY <1>2 DEF First, Registering, At
<1>5. ~codec.eos
  BY <1>0, <1>1 DEF Ending, At
<1>6. Phases'
  BY <1>0, <1>1, <1>4, PhasesSame DEF HasFrame
<1>7. ~DecodeError
  BY <1>1 DEF DecodeError, Decoding, Step, At
<1> QED BY <1>1, <1>3, <1>4, <1>5, <1>6, <1>7, DecodeQuiet

\* The step at hand
LEMMA DecodeAt ==
  ASSUME BufferInv, NEW op \in DecodeOps, Step({op})
  PROVE  /\ comp.todo # <<>> /\ comp \in CompType /\ Decodes /\ At(op)
         /\ \A x \in DecodeOps : x # op => ~At(x)
         /\ dec.state = "Executing" /\ 1 \in DOMAIN InQ /\ InQ[1] = comp.buf
         /\ op # "finish" => ~codec.eos /\ out.pc \notin {"eos", "eosdeliver", "eospop"}
         /\ op # "data" => ~DecodeError
<1>1. At(op) /\ comp.todo # <<>> /\ comp \in CompType
  BY DEF Step, At, BufferInv, ThreadInv, PlanInv
<1>2. Decodes /\ \A x \in DecodeOps : x # op => ~At(x)
  BY <1>1 DEF Decodes, At
<1>3. op # "data" => ~DecodeError
  BY <1>1 DEF DecodeError, Decoding, Step, At
<1>4. op # "finish" => ~At("finish")
  BY <1>2 DEF DecodeOps
<1> QED BY <1>1, <1>2, <1>3, <1>4, DecodingNow

\* The wait for buffers that are not registered is over.
LEMMA DecodeWaited ==
  ASSUME PlayingClient, BufferInv, DecodeExtra PROVE InKept' /\ OutSide' /\ Kinds'
<1>0. /\ Phases /\ Ordered /\ comp \in CompType
  BY DEF BufferInv, ThreadInv, PlanInv, Kinds
<1>1. /\ DecodeNext /\ Step({"extra"}) /\ (dec.extra => OutputBufSize >= CountMin \/ dec.release)
      /\ Done /\ UNCHANGED <<dec, port, codec, cli, out>>
  BY DEF DecodeNext, DecodeExtra
<1>2. /\ comp.todo # <<>> /\ dec.state = "Executing" /\ 1 \in DOMAIN InQ /\ InQ[1] = comp.buf
      /\ ~codec.eos /\ ~DecodeError /\ At("extra")
  BY <1>1, DecodeAt DEF DecodeOps
<1>3. comp'.todo = Tail(comp.todo) /\ comp'.buf = comp.buf
  BY <1>0, <1>1 DEF Done, CompType
<1>4. First(comp'.todo) /\ ~Registering'
  <2>1. PICK S, s : s = comp.todo /\ s \in Seq(S)
    BY <1>0 DEF CompType
  <2>2. First(s) /\ s # <<>>
    BY <1>0, <1>2, <2>1 DEF Ordered
  <2>3. First(Tail(s))
    BY <2>1, <2>2, TailSteps
  <2>4. ASSUME Tail(s) # <<>> PROVE Head(Tail(s))[1] \notin {"register", "no-buffer"}
    <3>1. 2 \in DOMAIN s /\ s[2] = Head(Tail(s))
      BY <2>1, <2>2, <2>4
    <3> QED BY <2>2, <3>1 DEF First
  <2> QED BY <1>3, <2>1, <2>3, <2>4 DEF Registering, At
<1>5. Phases'
  <2>1. dec.extra => Filled \/ dec.release
    BY <1>1, AllRegistered
  <2>2. (Filled' <=> Filled) /\ (HasFrame' <=> HasFrame) /\ (Blank' <=> Blank)
    BY <1>1 DEF Filled, HasFrame, Blank
  <2> QED BY <1>0, <1>1, <1>4, <2>1, <2>2 DEF Phases
<1> QED BY <1>1, <1>2, <1>3, <1>4, <1>5, DecodeQuiet

\* The steps after which another one is all that is left
LEMMA DecodeTurns ==
  ASSUME PlayingClient, BufferInv,
         \/ DecodeStop \/ DecodeEmpty \/ DecodeAborted \/ DecodeWaiting \/ DecodeNoBuffer
         \/ DecodeNothing \/ (DecodeRegister /\ Arg > Len(OutQ))
  PROVE  InKept' /\ OutSide' /\ Kinds'
<1>0. /\ Phases /\ comp \in CompType /\ CountMin \in Nat
  <2>1. CountMin \in Nat
    BY DecoderConstantsOK, FS_CardinalityType DEF DecoderConstantsOK
  <2> QED BY <2>1 DEF BufferInv, ThreadInv, PlanInv, Kinds
<1>1. DecodeNext /\ UNCHANGED <<dec, port, codec, cli, out>>
  BY DEF DecodeNext, DecodeStop, DecodeEmpty, DecodeAborted, DecodeWaiting, DecodeNoBuffer,
         DecodeNothing, DecodeRegister, OutQ
<1>2. PICK x : /\ Continue(<<x>>)
               /\ \/ x \in {<<"tail", NULL>>, <<"finish", NULL>>}
                  \/ x[1] \in {"register", "no-buffer"} /\ x[2] = Arg /\ Registering
                  \/ x = <<"register", 1>> /\ codec.phase = "wait" /\ ~codec.need /\ ~dec.reconf
  <2>1. CASE DecodeStop \/ DecodeEmpty \/ DecodeAborted \/ DecodeNothing
    BY <2>1 DEF DecodeStop, DecodeEmpty, DecodeAborted, DecodeNothing
  <2>2. CASE DecodeWaiting
    BY <2>2 DEF DecodeWaiting, Decoding
  <2>3. CASE DecodeNoBuffer
    <3>1. Registering
      BY <2>3 DEF DecodeNoBuffer, Step, Registering
    <3>2. Continue(<<<<"finish", NULL>>>>) \/ Continue(<<<<"register", Arg>>>>)
      BY <2>3 DEF DecodeNoBuffer
    <3> QED BY <3>1, <3>2
  <2>4. CASE DecodeRegister /\ Arg > Len(OutQ)
    <3>1. Registering
      BY <2>4 DEF DecodeRegister, Step, Registering
    <3>2. Continue(<<<<"no-buffer", Arg>>>>)
      BY <2>4 DEF DecodeRegister, OutQ
    <3> QED BY <3>1, <3>2
  <2> QED BY <2>1, <2>2, <2>3, <2>4
<1>3. PICK op \in {"data", "empty", "no-buffer", "register"} : Step({op})
  BY DEF DecodeStop, DecodeEmpty, DecodeAborted, DecodeWaiting, DecodeNoBuffer,
         DecodeNothing, DecodeRegister, Decoding
<1>4. /\ dec.state = "Executing" /\ 1 \in DOMAIN InQ /\ InQ[1] = comp.buf /\ ~codec.eos
  BY <1>3, DecodeAt DEF DecodeOps
<1>5. /\ First(comp'.todo) /\ comp'.buf = comp.buf /\ comp'.todo = <<x>> /\ Arg' = x[2]
      /\ (Registering' <=> x[1] \in {"register", "no-buffer"}) /\ (At("data")' <=> x[1] = "data")
  BY <1>0, <1>2, SingleStep
<1>6. ~DecodeError
  <2>1. ASSUME DecodeError PROVE FALSE
    <3>1. PICK s : s = JoinAndAbort \o <<<<"failed", NULL>>>>
      OBVIOUS
    <3>2. Len(s) = 3
      BY <3>1 DEF JoinAndAbort
    <3>3. comp'.todo = s
      <4>1. Continue(s)
        BY <2>1, <3>1 DEF DecodeError
      <4> QED BY <1>0, <4>1 DEF Continue, CompType
    <3>4. s = <<x>>
      BY <1>5, <3>3, Zenon
    <3>5. Len(s) = 1
      BY <3>4
    <3> QED BY <3>2, <3>5
  <2> QED BY <2>1
<1>7. Phases'
  <2>1. (Filled' <=> Filled) /\ (HasFrame' <=> HasFrame) /\ (Blank' <=> Blank)
    BY <1>1 DEF Filled, HasFrame, Blank
  <2>2. CASE x \in {<<"tail", NULL>>, <<"finish", NULL>>}
    <3>1. ~Registering' /\ ~At("data")'
      BY <1>5, <2>2
    <3> QED BY <1>0, <1>1, <2>1, <3>1, PhasesSame
  <2>3. CASE x[1] \in {"register", "no-buffer"} /\ x[2] = Arg /\ Registering
    <3>1. ~At("data")' /\ Arg' = Arg /\ dec' = dec /\ codec' = codec /\ out' = out
      BY <1>1, <1>5, <2>3
    <3> QED BY <1>0, <2>1, <2>3, <3>1 DEF Phases
  <2>4. CASE x = <<"register", 1>> /\ codec.phase = "wait" /\ ~codec.need /\ ~dec.reconf
    <3>1. ~At("data")' /\ Arg' = 1 /\ dec' = dec /\ codec' = codec /\ out' = out
      BY <1>1, <1>5, <2>4
    <3> QED BY <1>0, <2>1, <2>4, <3>1 DEF Phases
  <2> QED BY <1>2, <2>2, <2>3, <2>4
<1> QED BY <1>1, <1>4, <1>5, <1>6, <1>7, DecodeQuiet


\* A step in the loop of async_decode_data that calls the codec
LEMMA DecodingAt ==
  ASSUME BufferInv, Decoding
  PROVE  /\ Step({"data"}) /\ At("data") /\ ~Registering /\ ~dec.reconf /\ ~dec.release
         /\ comp \in CompType /\ dec \in DecType /\ codec \in CodecType
         /\ dec.state = "Executing" /\ 1 \in DOMAIN InQ /\ InQ[1] = comp.buf /\ ~codec.eos
         /\ First(comp.todo)
<1>1. Step({"data"}) /\ ~dec.reconf /\ ~dec.release
  BY DEF Decoding
<1>2. /\ At("data") /\ dec.state = "Executing" /\ 1 \in DOMAIN InQ /\ InQ[1] = comp.buf /\ ~codec.eos
  BY <1>1, DecodeAt DEF DecodeOps
<1>3. ~Registering
  BY <1>2 DEF Registering, At
<1> QED BY <1>1, <1>2, <1>3 DEF BufferInv, ThreadInv, PlanInv, Kinds, Ordered

\* The output thread and the accounts when the codec changes what it has
LEMMA CodecChanges ==
  ASSUME PlayingClient, BufferInv, DecodeNext, port' = port, cli' = cli,
         HasFrame => codec'.shown = codec.shown
  PROVE  /\ OutKept' /\ Placed' /\ Ready' = Ready /\ Pushing = {}
<1>0. OutKept /\ Placed
  BY DEF BufferInv, OutSide
<1>1. /\ out' = out /\ Given' = Given /\ (HasFrame' <=> HasFrame) /\ Pushing' = {} /\ Pushing = {}
      /\ cli.pc \notin {"pushing", "consuming"} /\ OutQ' = OutQ
  BY DecodeAlways DEF OutQ
<1>2. Ready' = Ready
  BY <1>1 DEF Ready
<1>3. OutKept'
  BY <1>0, <1>1 DEF OutKept
<1>4. Placed'
  BY <1>0, <1>1, <1>2 DEF Placed
<1> QED BY <1>1, <1>2, <1>3, <1>4

\* Stream headers
LEMMA DecodeHeads ==
  ASSUME PlayingClient, BufferInv, DecodeHeaders PROVE InKept' /\ OutSide' /\ Kinds'
<1>0. Phases /\ CodecKept
  BY DEF BufferInv, Kinds, OutSide
<1>1. /\ DecodeNext /\ Decoding /\ codec.phase = "hdr" /\ codec.pics = <<>>
      /\ dec' = dec /\ port' = port /\ cli' = cli /\ comp' = comp /\ out' = out
  BY DEF DecodeNext, DecodeHeaders
<1>2. /\ At("data") /\ ~Registering /\ ~dec.reconf /\ ~dec.release
      /\ codec \in CodecType
      /\ dec.state = "Executing" /\ 1 \in DOMAIN InQ /\ InQ[1] = comp.buf /\ ~codec.eos
      /\ First(comp.todo)
  BY <1>1, DecodingAt
<1>3. ~HasFrame /\ out.pc # "pop"
  BY <1>0, <1>1 DEF Phases
<1>4. /\ codec'.pics = codec.pics /\ codec'.eos = codec.eos
      /\ \/ codec'.phase = "run" /\ codec'.free = codec.free /\ codec'.shown = codec.shown
         \/ codec'.phase = "wait" /\ codec'.free = {} /\ codec'.shown = {}
  <2>1. CASE codec' = [codec EXCEPT !.flush = TRUE, !.phase = "run"]
    BY <1>2, <2>1 DEF CodecType
  <2>2. CASE \E more \in BOOLEAN :
               codec' = [codec EXCEPT !.flush = TRUE, !.phase = "wait", !.need = more,
                                      !.free = {}, !.shown = {}]
    <3>1. PICK more \in BOOLEAN :
               codec' = [codec EXCEPT !.flush = TRUE, !.phase = "wait", !.need = more,
                                      !.free = {}, !.shown = {}]
      BY <2>2
    <3> QED BY <1>2, <3>1 DEF CodecType
  <2> QED BY <2>1, <2>2 DEF DecodeHeaders
<1>5. ~DecodeError
  <2>1. ASSUME DecodeError PROVE FALSE
    <3>1. codec'.phase = codec.phase
      BY <1>2, <2>1 DEF DecodeError, Abort, CodecType
    <3> QED BY <1>1, <1>4, <3>1
  <2> QED BY <2>1
<1>6. InKept' /\ Ending' /\ Working' /\ Ordered' /\ Answers'
  BY <1>1, <1>2, <1>4, <1>5, DecodeWithin
<1>7. OutKept' /\ Placed' /\ Ready' = Ready /\ Pushing = {} /\ Pushing' = {}
  BY <1>1, <1>3, CodecChanges, DecodeAlways
<1>8. CodecKept'
  BY <1>0, <1>1, <1>2, <1>4, <1>7, EmptyLeft DEF CodecKept
<1>9. Phases'
  <2>1. At("data")' /\ ~Registering' /\ ~HasFrame' /\ (Filled' <=> Filled)
    BY <1>1, <1>2, <1>3 DEF At, Registering, HasFrame, Filled
  <2>2. codec'.phase = "wait" => Blank'
    BY <1>1, <1>4 DEF Blank
  <2> QED BY <1>0, <1>1, <1>2, <1>3, <1>4, <2>1, <2>2 DEF Phases
<1> QED BY <1>6, <1>7, <1>8, <1>9 DEF OutSide, Kinds

\* A reconfiguration is asked for.
LEMMA DecodeReconfigures ==
  ASSUME PlayingClient, BufferInv, DecodeReconfigure PROVE InKept' /\ OutSide' /\ Kinds'
<1>0. Phases /\ OutSide
  BY DEF BufferInv, Kinds
<1>1. /\ DecodeNext /\ Decoding /\ codec.phase = "wait" /\ codec.need
      /\ codec' = [codec EXCEPT !.need = FALSE] /\ dec' = [dec EXCEPT !.reconf = TRUE]
      /\ port' = port /\ cli' = cli /\ comp' = comp /\ out' = out
  BY DEF DecodeNext, DecodeReconfigure
<1>2. /\ At("data") /\ ~Registering /\ ~dec.reconf /\ ~dec.release
      /\ codec \in CodecType /\ dec \in DecType
      /\ dec.state = "Executing" /\ 1 \in DOMAIN InQ /\ InQ[1] = comp.buf /\ ~codec.eos
      /\ First(comp.todo)
  BY <1>1, DecodingAt
<1>3. /\ codec'.pics = codec.pics /\ codec'.eos = codec.eos /\ codec'.phase = "wait"
      /\ codec'.free = codec.free /\ codec'.shown = codec.shown /\ ~codec'.need
      /\ codec'.aborted = codec.aborted
  BY <1>1, <1>2 DEF CodecType
<1>4. /\ dec'.reconf /\ dec'.state = dec.state /\ dec'.prev = dec.prev /\ dec'.extra = dec.extra
      /\ dec'.list = dec.list /\ dec'.release = dec.release
  BY <1>1, <1>2 DEF DecType
<1>5. ~DecodeError
  <2>1. ASSUME DecodeError PROVE FALSE
    <3>1. dec' = dec
      BY <2>1 DEF DecodeError
    <3> QED BY <1>2, <1>4, <3>1
  <2> QED BY <2>1
<1>6. InKept' /\ Ending' /\ Working' /\ Ordered' /\ Answers'
  BY <1>1, <1>2, <1>3, <1>4, <1>5, DecodeWithin
<1>7. OutSide'
  <2>1. /\ Given' = Given /\ (HasFrame' <=> HasFrame) /\ Pushing' = Pushing /\ OutQ' = OutQ
        /\ cli.pc # "consuming" /\ out.pc # "assert"
    BY <1>1, DecodeAlways DEF OutQ
  <2> QED BY <1>0, <1>1, <1>3, <2>1, OutSame
<1>8. Phases'
  <2>1. ~Registering' /\ (HasFrame' <=> HasFrame) /\ (Filled' <=> Filled) /\ (Blank' <=> Blank)
    BY <1>1, <1>2, <1>3, <1>4 DEF At, Registering, HasFrame, Filled, Blank
  <2> QED BY <1>0, <1>1, <1>2, <1>3, <1>4, <2>1 DEF Phases
<1> QED BY <1>6, <1>7, <1>8 DEF Kinds

\* A picture is decoded.
LEMMA DecodeShows ==
  ASSUME PlayingClient, BufferInv, NEW more \in BOOLEAN, DecodePicture(more)
  PROVE  InKept' /\ OutSide' /\ Kinds'
<1>0. Phases /\ CodecKept
  BY DEF BufferInv, Kinds, OutSide
<1>1. /\ DecodeNext /\ Decoding /\ codec.phase = "run"
      /\ dec' = dec /\ port' = port /\ cli' = cli /\ out' = out
      /\ comp' = comp \/ Continue(<<<<"tail", NULL>>>>)
  BY DEF DecodeNext, DecodePicture
<1>2. /\ At("data") /\ ~Registering /\ ~dec.reconf /\ ~dec.release
      /\ codec \in CodecType /\ comp \in CompType
      /\ dec.state = "Executing" /\ 1 \in DOMAIN InQ /\ InQ[1] = comp.buf /\ ~codec.eos
      /\ First(comp.todo)
  BY <1>1, DecodingAt
<1>3. PICK b \in codec.free : codec' = [codec EXCEPT !.free = @ \ {b}, !.pics = Append(@, b)]
  BY DEF DecodePicture
<1>4. /\ codec'.pics = Append(codec.pics, b) /\ codec'.eos = codec.eos /\ codec'.phase = "run"
      /\ codec'.free = codec.free \ {b} /\ codec'.shown = codec.shown
      /\ codec.pics \in Seq(OutBufs) /\ b \in OutBufs
  BY <1>1, <1>2, <1>3 DEF CodecType
<1>5. First(comp'.todo) /\ comp'.buf = comp.buf /\ ~Registering' /\ (At("data")' => At("data"))
  <2>1. CASE comp' = comp
    BY <1>2, <2>1 DEF Registering, At
  <2>2. CASE Continue(<<<<"tail", NULL>>>>)
    BY <1>2, <2>2, SingleStep
  <2> QED BY <1>1, <2>1, <2>2
<1>6. ~DecodeError
  <2>1. ASSUME DecodeError PROVE FALSE
    <3>1. codec'.free = codec.free
      BY <1>2, <2>1 DEF DecodeError, Abort, CodecType
    <3> QED BY <1>4, <3>1
  <2> QED BY <2>1
<1>7. InKept' /\ Ending' /\ Working' /\ Ordered' /\ Answers'
  BY <1>1, <1>2, <1>4, <1>5, <1>6, DecodeWithin
<1>8. OutKept' /\ Placed' /\ Ready' = Ready /\ Pushing = {} /\ Pushing' = {}
  BY <1>1, <1>4, CodecChanges, DecodeAlways
<1>9. CodecKept'
  <2>1. b \in Ready /\ b \notin codec.shown /\ b \notin Range(codec.pics)
    BY <1>0, <1>2, <1>8 DEF CodecKept
  <2>2. Left(codec.pics, {}) = Range(codec.pics) /\ {} \subseteq DOMAIN codec.pics
    BY LeftRange
  <2>3. Range(codec'.pics) = Range(codec.pics) \cup {b} /\ Apart(codec'.pics, {})
    BY <1>0, <1>4, <2>1, <2>2, AppendLeft DEF CodecKept
  <2> QED BY <1>0, <1>4, <1>8, <2>1, <2>3 DEF CodecKept
<1>10. Phases'
  <2>1. Filled' <=> Filled
    BY <1>1 DEF Filled
  <2> QED BY <1>0, <1>1, <1>2, <1>4, <1>5, <2>1 DEF Phases
<1> QED BY <1>7, <1>8, <1>9, <1>10 DEF OutSide, Kinds


\* A buffer of the queue is registered with the codec.
LEMMA DecodeRegisters ==
  ASSUME PlayingClient, BufferInv, DecodeRegister, ~(Arg > Len(OutQ))
  PROVE  InKept' /\ OutSide' /\ Kinds'
<1>0. /\ Phases /\ CodecKept /\ comp \in CompType /\ codec \in CodecType /\ dec \in DecType
      /\ OutQ \in Seq(OutBufs) /\ NULL \notin OutBufs
  BY Typed DEF BufferInv, ThreadInv, Kinds, OutSide
<1>1. Step({"register"}) /\ DecodeNext /\ port' = port /\ cli' = cli /\ out' = out
  BY DEF DecodeRegister, DecodeNext
<1>2. /\ At("register") /\ comp.todo # <<>>
      /\ dec.state = "Executing" /\ 1 \in DOMAIN InQ /\ InQ[1] = comp.buf /\ ~codec.eos
      /\ ~DecodeError /\ out.pc \notin {"eos", "eosdeliver", "eospop"}
  BY <1>1, DecodeAt DEF DecodeOps
<1>3. PICK n : n = Arg /\ n \in 1 .. CountMin /\ CountMin \in Nat /\ Slots = 1 .. CountMin
  <2>1. Cardinality(OutBufs) \in Nat
    BY DecoderConstantsOK, FS_CardinalityType DEF DecoderConstantsOK
  <2>2. Arg \in 1 .. CountMin
    BY <1>0, <1>2, StepKind
  <2> QED BY <2>1, <2>2 DEF PlayingClient, Slots
<1>4. PICK b : b = OutQ[n] /\ b \in OutBufs /\ b # NULL /\ b \in Range(OutQ)
  <2>1. n \in DOMAIN OutQ
    BY <1>0, <1>3
  <2>2. OutQ[n] \in OutBufs /\ OutQ[n] \in Range(OutQ)
    BY <1>0, <2>1 DEF Range
  <2> QED BY <1>0, <2>2
<1>5. /\ dec' = [dec EXCEPT !.list[n] = b, !.extra = @ \/ n = CountMin]
      /\ codec' = IF n = CountMin THEN [SetFrameBuffer(codec, b) EXCEPT !.phase = "run"]
                  ELSE SetFrameBuffer(codec, b)
      /\ Continue(IF n = CountMin THEN <<<<"data", NULL>>>> ELSE <<<<"register", n + 1>>>>)
  BY <1>3, <1>4 DEF DecodeRegister, OutQ
<1>6. /\ codec.phase = "wait" /\ ~codec.need /\ ~dec.reconf /\ ~HasFrame /\ out.pc # "pop"
      /\ codec.pics = <<>> /\ \A i \in 1 .. n - 1 : dec.list[i] # NULL
  BY <1>0, <1>2, <1>3 DEF Phases, Registering
<1>7. /\ codec'.pics = <<>> /\ codec'.shown = codec.shown /\ ~codec'.need /\ ~codec'.eos
      /\ codec'.phase = IF n = CountMin THEN "run" ELSE "wait"
      /\ \/ codec'.free = codec.free
         \/ codec'.free = codec.free \cup {b} /\ b \notin codec.shown
  <2>1. PICK g : g = SetFrameBuffer(codec, b)
    OBVIOUS
  <2>2. g = codec \/ (g = [codec EXCEPT !.free = @ \cup {b}] /\ b \notin codec.shown)
    BY <2>1 DEF SetFrameBuffer, Known
  <2>3. /\ g \in CodecType /\ g.pics = <<>> /\ g.shown = codec.shown /\ ~g.need /\ ~g.eos
        /\ g.phase = "wait"
        /\ g.free = codec.free \/ (g.free = codec.free \cup {b} /\ b \notin codec.shown)
    BY <1>0, <1>2, <1>4, <1>6, <2>2 DEF CodecType
  <2>4. codec' = IF n = CountMin THEN [g EXCEPT !.phase = "run"] ELSE g
    BY <1>5, <2>1
  <2> QED BY <2>3, <2>4 DEF CodecType
<1>8. /\ dec'.state = dec.state /\ dec'.prev = dec.prev /\ dec'.reconf = dec.reconf
      /\ dec'.release = dec.release /\ (dec'.extra => dec.extra \/ n = CountMin)
      /\ dec'.list[n] = b /\ \A i \in Slots \ {n} : dec'.list[i] = dec.list[i]
  BY <1>0, <1>3, <1>5 DEF DecType
<1>9. PICK x : /\ Continue(<<x>>)
               /\ x = IF n = CountMin THEN <<"data", NULL>> ELSE <<"register", n + 1>>
  BY <1>5
<1>10. /\ First(comp'.todo) /\ comp'.buf = comp.buf /\ Arg' = x[2]
       /\ (Registering' <=> x[1] \in {"register", "no-buffer"}) /\ (At("data")' <=> x[1] = "data")
  BY <1>0, <1>9, SingleStep
<1>11. InKept' /\ Ending' /\ Working' /\ Ordered' /\ Answers'
  BY <1>1, <1>2, <1>7, <1>8, <1>10, DecodeWithin
<1>12. OutKept' /\ Placed' /\ Ready' = Ready /\ Pushing = {} /\ Pushing' = {}
  BY <1>1, <1>6, CodecChanges, DecodeAlways
<1>13. CodecKept'
  <2>1. Ready = Range(OutQ)
    <3>1. Given = {}
      BY <1>2, <1>6 DEF Given
    <3> QED BY <3>1, LeftRange DEF Ready
  <2> QED BY <1>0, <1>2, <1>4, <1>7, <1>12, <2>1, EmptyLeft DEF CodecKept
<1>14. Phases'
  <2>1. \A i \in 1 .. n : dec'.list[i] # NULL
    BY <1>3, <1>4, <1>6, <1>8
  <2>2. (Filled => Filled') /\ (n = CountMin => Filled')
    BY <1>3, <1>4, <1>8, <2>1 DEF Filled
  <2>3. HasFrame' <=> HasFrame
    BY <1>1 DEF HasFrame
  <2>4. CASE n = CountMin
    <3>1. ~Registering'
      BY <1>9, <1>10, <2>4
    <3> QED BY <1>6, <1>7, <1>8, <2>2, <2>4, <3>1 DEF Phases
  <2>5. CASE n # CountMin
    <3>1. Arg' = n + 1 /\ (n + 1) - 1 = n /\ codec'.phase = "wait"
      BY <1>3, <1>7, <1>9, <1>10, <2>5
    <3>2. dec'.extra => Filled'
      BY <1>0, <1>6, <1>8, <2>2, <2>5 DEF Phases
    <3>3. \A i \in 1 .. Arg' - 1 : dec'.list[i] # NULL
      BY <2>1, <3>1
    <3> QED BY <1>1, <1>6, <1>7, <1>8, <2>3, <3>1, <3>2, <3>3 DEF Phases
  <2> QED BY <2>4, <2>5
<1> QED BY <1>11, <1>12, <1>13, <1>14 DEF OutSide, Kinds

\* The codec fails.
LEMMA DecodeFails ==
  ASSUME PlayingClient, BufferInv, DecodeError PROVE InKept' /\ OutSide' /\ Kinds'
<1>0. /\ InKept /\ OutSide /\ Phases /\ Ending /\ Working /\ Ordered /\ Answers
  BY DEF BufferInv, Kinds
<1>1. /\ DecodeNext /\ Decoding /\ codec' = Abort(codec)
      /\ dec' = dec /\ port' = port /\ cli' = cli
  BY DEF DecodeNext, DecodeError
<1>2. /\ At("data") /\ comp \in CompType /\ codec \in CodecType
      /\ dec.state = "Executing" /\ ~codec.eos
  BY <1>1, DecodingAt
<1>3. PICK s : s = <<<<"join", NULL>>, <<"abortafter", NULL>>, <<"failed", NULL>>>>
  OBVIOUS
<1>4. comp'.todo = s /\ comp'.pc = comp.pc
  <2>1. s = JoinAndAbort \o <<<<"failed", NULL>>>>
    BY <1>3 DEF JoinAndAbort
  <2>2. Continue(s)
    BY <2>1 DEF DecodeError
  <2> QED BY <1>2, <2>2 DEF Continue, CompType
<1>5. /\ codec'.phase = codec.phase /\ codec'.need = codec.need /\ codec'.free = codec.free
      /\ codec'.pics = codec.pics /\ codec'.shown = codec.shown /\ codec'.eos = codec.eos
  BY <1>1, <1>2 DEF Abort, CodecType
<1>6. /\ cmdq' = cmdq /\ out' = out /\ Given' = Given /\ (HasFrame' <=> HasFrame)
      /\ Pushing' = Pushing /\ InQ' = InQ /\ OutQ' = OutQ
      /\ cli.pc \notin {"pushing", "consuming"} /\ out.pc # "assert"
  BY <1>1, DecodeAlways DEF InQ, OutQ
<1>7. /\ DOMAIN s = 1 .. 3 /\ s[1] = <<"join", NULL>> /\ s[2] = <<"abortafter", NULL>>
      /\ s[3] = <<"failed", NULL>> /\ s # <<>> /\ Head(s) = <<"join", NULL>>
  BY <1>3
<1>8. /\ Follows(s) /\ First(s) /\ Has(s, "join")
      /\ ~Has(s, "reset") /\ ~Has(s, "state") /\ ~Has(s, "queues") /\ ~Has(s, "create")
      /\ ~Has(s, "assert") /\ ~Holds(s, <<"return", "out">>)
  <2>1. \A i \in DOMAIN s : (i = 1 /\ s[i][1] = "join") \/ (i = 2 /\ s[i][1] = "abortafter") \/ s[i][1] = "failed"
    BY <1>7
  <2>2. s[1][1] = "join" /\ 1 \in DOMAIN s
    BY <1>7
  <2>3. \A i \in DOMAIN s : s[i] # <<"return", "out">>
    BY <1>7
  <2> HIDE <1>3, <1>7
  <2> QED BY <2>1, <2>2, <2>3 DEF Follows, First, Has, Holds
<1>9. ~Registering' /\ ~At("data")' /\ ~Decodes' /\ ~At("finish")
  <2>1. comp'.todo # <<>> /\ Head(comp'.todo)[1] = "join"
    BY <1>4, <1>7
  <2> QED BY <1>2, <2>1 DEF Registering, At, Decodes, DecodeOps
<1>10. InKept'
  BY <1>0, <1>1, <1>6, InSame
<1>11. OutSide'
  BY <1>0, <1>1, <1>5, <1>6, OutSame
<1>12. Phases'
  BY <1>0, <1>1, <1>5, <1>6, <1>9, PhasesSame
<1>13. Ending'
  BY <1>0, <1>1, <1>5, <1>6, <1>9, EndingSame
<1>14. Working'
  BY <1>0, <1>1, <1>6, <1>9, WorkingSame
<1>15. Ordered'
  BY <1>4, <1>8 DEF Ordered
<1>16. Answers'
  BY <1>0, <1>1, <1>6, AnswersSame
<1> QED BY <1>10, <1>11, <1>12, <1>13, <1>14, <1>15, <1>16 DEF Kinds


\* Nothing is left to do.
LEMMA EmptyOrdered == ASSUME comp'.todo = <<>> PROVE Ordered'
BY DEF Ordered, Follows, First, Has, Holds


\* The component becomes invalid.
LEMMA DecodeGivesUp ==
  ASSUME PlayingClient, BufferInv, DecodeFailed PROVE InKept' /\ OutSide' /\ Kinds'
<1>0. /\ InKept /\ OutSide /\ Phases /\ Ending /\ Answers /\ comp \in CompType /\ dec \in DecType
  BY DEF BufferInv, ThreadInv, PlanInv, Kinds
<1>1. /\ DecodeNext /\ At("failed") /\ port' = port /\ cli' = cli /\ codec' = codec
      /\ dec' = [dec EXCEPT !.state = "Invalid", !.run = FALSE]
      /\ comp' = [comp EXCEPT !.todo = <<>>, !.buf = NULL]
  BY DEF DecodeNext, DecodeFailed, Step
<1>2. comp'.todo = <<>> /\ ~At("finish")
  BY <1>0, <1>1 DEF CompType, At
<1>3. /\ dec'.state = "Invalid" /\ dec'.prev = dec.prev /\ dec'.reconf = dec.reconf
      /\ dec'.extra = dec.extra /\ dec'.list = dec.list
  BY <1>0, <1>1 DEF DecType
<1>4. /\ cmdq' = cmdq /\ out' = out /\ Given' = Given /\ (HasFrame' <=> HasFrame)
      /\ Pushing' = Pushing /\ InQ' = InQ /\ OutQ' = OutQ
      /\ cli.pc \notin {"pushing", "consuming"} /\ out.pc # "assert"
  BY <1>1, DecodeAlways DEF InQ, OutQ
<1>5. ~Registering' /\ ~At("data")' /\ ~Decodes'
  BY <1>2 DEF Registering, At, Decodes
<1>6. InKept'
  BY <1>0, <1>1, <1>3, <1>4, InSame
<1>7. OutSide'
  BY <1>0, <1>1, <1>4, OutSame
<1>8. Phases'
  BY <1>0, <1>1, <1>3, <1>4, <1>5, PhasesSame
<1>9. Ending'
  BY <1>0, <1>1, <1>2, <1>4, EndingSame
<1>10. Working'
  BY <1>1, <1>3, <1>4, <1>5 DEF Working
<1>11. Ordered'
  BY <1>2, EmptyOrdered
<1>12. Answers'
  BY <1>0, <1>1, <1>3, <1>4, AnswersSame
<1> QED BY <1>6, <1>7, <1>8, <1>9, <1>10, <1>11, <1>12 DEF Kinds

\* The end of async_decode_data: the codec may be told of the end of the stream.
LEMMA DecodeTells ==
  ASSUME PlayingClient, BufferInv, DecodeTail PROVE InKept' /\ OutSide' /\ Kinds'
<1>0. /\ InKept /\ OutSide /\ Phases /\ Ending /\ Working /\ Answers /\ comp \in CompType
      /\ codec \in CodecType /\ InQ \in Seq(InBufs) /\ NULL \notin InBufs
  BY Typed DEF BufferInv, ThreadInv, Kinds
<1>1. /\ DecodeNext /\ Step({"tail"}) /\ dec' = dec /\ port' = port /\ cli' = cli
      /\ codec' = codec \/ (codec' = EndOfStream(codec) /\ comp.buf = cli.eosBuf /\ ~dec.reconf)
  BY DEF DecodeNext, DecodeTail
<1>2. /\ At("tail") /\ dec.state = "Executing" /\ 1 \in DOMAIN InQ /\ InQ[1] = comp.buf
      /\ ~codec.eos /\ out.pc \notin {"eos", "eosdeliver", "eospop"}
  BY <1>1, DecodeAt DEF DecodeOps
<1>3. /\ codec'.phase = codec.phase /\ codec'.need = codec.need /\ codec'.free = codec.free
      /\ codec'.pics = codec.pics /\ codec'.shown = codec.shown
      /\ codec'.eos => comp.buf = cli.eosBuf /\ ~dec.reconf
  BY <1>0, <1>1, <1>2 DEF EndOfStream, CodecType
<1>4. /\ cmdq' = cmdq /\ out' = out /\ Given' = Given /\ (HasFrame' <=> HasFrame)
      /\ Pushing' = Pushing /\ InQ' = InQ /\ OutQ' = OutQ
      /\ cli.pc \notin {"pushing", "consuming"} /\ out.pc # "assert"
  BY <1>1, DecodeAlways DEF InQ, OutQ
<1>5. /\ ~Registering' /\ ~At("data")' /\ (Decodes' => comp'.buf = comp.buf) /\ Ordered'
      /\ ~dec.reconf => At("finish")'
  <2>1. CASE dec.reconf
    <3>1. comp' = [comp EXCEPT !.todo = <<>>, !.buf = NULL]
      BY <2>1 DEF DecodeTail
    <3>2. comp'.todo = <<>>
      BY <1>0, <3>1 DEF CompType
    <3> QED BY <2>1, <3>2, EmptyOrdered DEF Registering, At, Decodes
  <2>2. CASE ~dec.reconf
    <3>1. PICK x : x = <<"finish", NULL>> /\ x \in DecodeSteps
      <4>1. <<"finish", NULL>> \in DecodeSteps
        BY DEF DecodeSteps
      <4> QED BY <4>1
    <3>2. Continue(<<x>>)
      <4>1. comp' = [comp EXCEPT !.todo = <<<<"finish", NULL>>>>]
        BY <2>2 DEF DecodeTail
      <4> QED BY <3>1, <4>1, Zenon DEF Continue
    <3>3. /\ comp'.todo = <<x>> /\ comp'.buf = comp.buf /\ First(comp'.todo) /\ ~Registering'
          /\ ~At("data")' /\ At("finish")'
      BY <1>0, <3>1, <3>2, SingleStep
    <3>4. <<x>> \in Seq(DecodeSteps)
      BY <3>1
    <3> QED BY <3>3, <3>4, DecodeOrdered
  <2> QED BY <2>1, <2>2
<1>6. InKept'
  BY <1>0, <1>1, <1>4, InSame
<1>7. OutSide'
  BY <1>0, <1>1, <1>2, <1>3, <1>4, OutSame
<1>8. Phases'
  <2>1. (Blank' <=> Blank) /\ (Filled' <=> Filled)
    BY <1>1, <1>3 DEF Blank, Filled
  <2> QED BY <1>0, <1>1, <1>3, <1>4, <1>5, <2>1 DEF Phases
<1>9. Ending'
  <2>1. codec'.eos => cli.eosBuf # NULL /\ Len(InQ) = 1 /\ At("finish")'
    <3>1. codec'.eos => cli.eosBuf # NULL /\ cli.eosBuf = InQ[1] /\ At("finish")'
      BY <1>0, <1>2, <1>3, <1>5
    <3> QED BY <1>0, <1>2, <3>1 DEF Ending
  <2> QED BY <1>0, <1>1, <1>2, <1>4, <2>1 DEF Ending
<1>10. Working'
  BY <1>0, <1>1, <1>2, <1>4, <1>5 DEF Working
<1>11. Answers'
  BY <1>0, <1>1, <1>4, AnswersSame
<1> QED BY <1>5, <1>6, <1>7, <1>8, <1>9, <1>10, <1>11 DEF Kinds

\* The buffer has been decoded.
LEMMA DecodeEnds ==
  ASSUME PlayingClient, BufferInv, DecodeFinish PROVE InKept' /\ OutSide' /\ Kinds'
<1>0. /\ InKept /\ OutSide /\ Phases /\ Ending /\ Answers /\ comp \in CompType /\ dec \in DecType
      /\ cli \in ClientType /\ InQ \in Seq(InBufs) /\ NULL \notin InBufs /\ InBufs \cap OutBufs = {}
      /\ DOMAIN port = Ports
  BY Typed DEF BufferInv, ThreadInv, Kinds
<1>1. /\ DecodeNext /\ Step({"finish"}) /\ codec' = codec
      /\ cli' = [cli EXCEPT !.held = @ \cup ({dec.prev} \ {NULL})]
      /\ port' = [port EXCEPT !["in"] = PopBuffer(@)]
      /\ dec' = [dec EXCEPT !.prev = comp.buf]
      /\ comp' = [comp EXCEPT !.todo = <<>>, !.buf = NULL]
  BY DEF DecodeNext, DecodeFinish
<1>2. dec.state = "Executing" /\ 1 \in DOMAIN InQ /\ InQ[1] = comp.buf
  BY <1>1, DecodeAt DEF DecodeOps
<1>3. /\ comp'.todo = <<>> /\ dec'.prev = InQ[1] /\ dec'.state = dec.state
      /\ dec'.reconf = dec.reconf /\ dec'.extra = dec.extra /\ dec'.list = dec.list
      /\ cli'.held = cli.held \cup ({dec.prev} \ {NULL})
  BY <1>0, <1>1, <1>2 DEF CompType, DecType, ClientType
<1>4. /\ port'["out"] = port["out"] /\ port'["in"] = PopBuffer(port["in"])
      /\ InQ' = RemoveAt(InQ, 1) /\ port'["in"].buffers = port["in"].buffers /\ OutQ' = OutQ
  <2>1. port'["out"] = port["out"] /\ port'["in"] = PopBuffer(port["in"])
    BY <1>0, <1>1 DEF Ports
  <2>2. PortGood(InBufs, port["in"])
    BY DEF BufferInv, ThreadInv, PlanInv, EventInv, PortsGood, Ports, Bufs
  <2>3. PopBuffer(port["in"]) = PopBufferAt(port["in"], 1)
    BY <1>0, <1>2 DEF PopBuffer, InQ
  <2>4. comp.buf \in InBufs
    BY <1>0, <1>2
  <2> QED BY <2>1, <2>2, <2>3, <2>4, PortOps DEF InQ, OutQ
<1>5. /\ cmdq' = cmdq /\ out' = out /\ Given' = Given /\ (HasFrame' <=> HasFrame)
      /\ Pushing = {} /\ Pushing' = {} /\ cli.pc \notin {"pushing", "consuming"}
      /\ cli'.pc = cli.pc /\ cli'.cmd = cli.cmd /\ cli'.eosBuf = cli.eosBuf /\ out.pc # "assert"
  BY <1>1, DecodeAlways
<1>6. ~Registering' /\ ~At("data")' /\ ~Decodes' /\ Ordered'
  BY <1>3, EmptyOrdered DEF Registering, At, Decodes
<1>7. InKept'
  <2>1. cli'.held \cap InBufs = (cli.held \cap InBufs) \cup ({dec.prev} \ {NULL})
    BY <1>0, <1>3 DEF DecType, Maybe
  <2>2. InAccount(RemoveAt(InQ, 1), port["in"].buffers, (cli.held \cap InBufs) \cup ({dec.prev} \ {NULL}), InQ[1])
    BY <1>0, <1>2, InFinished DEF InKept
  <2> QED BY <1>3, <1>4, <2>1, <2>2 DEF InKept
<1>8. OutSide'
  <2>1. cli'.held \cap OutBufs = cli.held \cap OutBufs
    BY <1>0, <1>3 DEF DecType, Maybe
  <2> QED BY <1>0, <1>1, <1>4, <1>5, <2>1, OutSame
<1>9. Phases'
  BY <1>0, <1>1, <1>3, <1>5, <1>6, PhasesSame
<1>10. Ending'
  <2>1. PICK q : q = RemoveAt(InQ, 1)
    OBVIOUS
  <2>2. /\ q \in Seq(InBufs) /\ Len(q) = Len(InQ) - 1 /\ \A j \in 1 .. Len(InQ) - 1 : q[j] = InQ[j + 1]
    BY <1>0, <1>2, <2>1, HeadElems
  <2>3. Len(InQ) = 1 => q = <<>>
    BY <2>2
  <2>4. ASSUME cli.eosBuf # NULL, NEW i \in DOMAIN q, q[i] = cli.eosBuf PROVE i = Len(q)
    <3>1. i \in 1 .. Len(InQ) - 1 /\ i + 1 \in DOMAIN InQ /\ Len(InQ) \in Nat
      BY <1>0, <2>2
    <3>2. InQ[i + 1] = cli.eosBuf
      BY <2>2, <2>4, <3>1
    <3>3. i + 1 = Len(InQ)
      BY <1>0, <2>4, <3>1, <3>2 DEF Ending
    <3> QED BY <2>2, <3>1, <3>3
  <2>5. InQ # <<>>
    BY <1>2
  <2>6. InQ' = q
    BY <1>4, <2>1
  <2> QED BY <1>0, <1>1, <1>5, <2>3, <2>4, <2>5, <2>6 DEF Ending
<1>11. Working'
  BY <1>2, <1>3, <1>5, <1>6 DEF Working
<1>12. Answers'
  BY <1>0, <1>3, <1>5, AnswersSame
<1> QED BY <1>6, <1>7, <1>8, <1>9, <1>10, <1>11, <1>12 DEF Kinds

\* Decoding keeps the accounts.
LEMMA BufferDecode ==
  ASSUME PlayingClient, BufferInv, DecodeNext PROVE InKept' /\ OutSide' /\ Kinds'
<1>1. ~DecodeNewHeaders
  BY DEF DecodeNewHeaders, PlayingClient
<1>2. CASE DecodeRegister
  BY <1>2, DecodeTurns, DecodeRegisters
<1>3. CASE DecodePicture(TRUE) \/ DecodePicture(FALSE)
  BY <1>3, DecodeShows
<1>4. CASE \/ DecodeStop \/ DecodeEmpty \/ DecodeAborted \/ DecodeWaiting \/ DecodeNoBuffer
           \/ DecodeNothing
  BY <1>4, DecodeTurns
<1>5. CASE DecodeStart \/ DecodeExtra
  BY <1>5, DecodeStarts, DecodeWaited
<1>6. CASE DecodeHeaders \/ DecodeReconfigure \/ DecodeError
  BY <1>6, DecodeHeads, DecodeReconfigures, DecodeFails
<1>7. CASE DecodeFailed \/ DecodeTail \/ DecodeFinish
  BY <1>7, DecodeGivesUp, DecodeTells, DecodeEnds
<1> QED BY <1>1, <1>2, <1>3, <1>4, <1>5, <1>6, <1>7 DEF DecodeNext


-----------------------------------------------------------------------------
(* The command handlers *)

\* A plan that does not begin with decoding has no step of it.
LEMMA NotDecoding ==
  ASSUME comp \in CompType, comp.todo # <<>>, Head(comp.todo)[1] \notin DecodeOps
  PROVE  \A i \in DOMAIN comp.todo : comp.todo[i][1] \notin DecodeOps
<1>1. PICK K \in {ChangeSteps, EnableSteps, DecodeSteps, FailSteps} :
        comp.todo \in Seq(K) /\ Head(comp.todo) \in K
  BY StepKind
<1>2. K # DecodeSteps
  <2>1. ASSUME Head(comp.todo) \in DecodeSteps PROVE FALSE
    BY <2>1 DEF DecodeSteps, DecodeOps
  <2> QED BY <1>1, <2>1
<1>3. ASSUME NEW x \in ChangeSteps \cup EnableSteps \cup FailSteps PROVE x[1] \notin DecodeOps
  BY DEF ChangeSteps, EnableSteps, FailSteps, DecodeOps
<1>4. ASSUME NEW i \in DOMAIN comp.todo PROVE comp.todo[i] \in K
  BY <1>1, <1>4, ElementOfSeq
<1> QED BY <1>1, <1>2, <1>3, <1>4

\* Such a step is done, and one of its kind is next.
LEMMA StepDone ==
  ASSUME comp \in CompType, comp.todo # <<>>, Head(comp.todo)[1] \notin DecodeOps, Done
  PROVE  /\ comp'.todo = Tail(comp.todo) /\ comp'.pc = comp.pc
         /\ ~Decodes' /\ ~Registering' /\ ~At("data")' /\ ~At("finish")
<1>1. comp'.todo = Tail(comp.todo) /\ comp'.pc = comp.pc
  BY DEF Done, CompType
<1>2. comp'.todo = <<>> \/ Head(comp'.todo)[1] \notin DecodeOps
  <2>1. PICK t, S : t = comp.todo /\ t \in Seq(S)
    BY DEF CompType
  <2>2. ASSUME Tail(t) # <<>> PROVE 2 \in DOMAIN t /\ Head(Tail(t)) = t[2]
    BY <2>1, <2>2
  <2>3. \A i \in DOMAIN t : t[i][1] \notin DecodeOps
    BY <2>1, NotDecoding
  <2> QED BY <1>1, <2>1, <2>2, <2>3
<1>3. ~Decodes'
  BY <1>2 DEF Decodes
<1>4. ~Registering' /\ ~At("data")'
  BY <1>2 DEF Registering, At, DecodeOps
<1>5. ~At("finish")
  BY DEF At, DecodeOps
<1> QED BY <1>1, <1>3, <1>4, <1>5

\* The rest of a plan depends on nothing that the first step has not left behind.
LEMMA DoneOrdered ==
  ASSUME comp \in CompType, comp.todo # <<>>, Ordered, Done, dec'.state = dec.state,
         sd'.thread => sd.thread, At("join") => ~sd'.thread,
         At("abortafter") \/ Cleared => Cleared', dec.reconf => dec'.reconf \/ Cleared',
         At("return") /\ Arg = "in" => InQ' = <<>> /\ dec'.prev = NULL,
         At("return") /\ Arg = "out" => OutQ' = <<>>,
         InQ = <<>> /\ dec.prev = NULL => InQ' = <<>> /\ dec'.prev = NULL,
         OutQ = <<>> => OutQ' = <<>>
  PROVE  Ordered'
<1>1. PICK s, S : s = comp.todo /\ s \in Seq(S) /\ s # <<>>
  BY DEF CompType
<1>2. PICK t : t = Tail(s) /\ t = comp'.todo
  BY <1>1 DEF Done, CompType
<1>3. /\ \A op : Has(t, op) => Has(s, op)
      /\ \A op : Has(s, op) => At(op) \/ Has(t, op)
      /\ \A x : Holds(t, x) => Holds(s, x)
      /\ \A x : Holds(s, x) => Head(s) = x \/ Holds(t, x)
      /\ Follows(s) => Follows(t)
      /\ First(s) => First(t)
  <2>1. \A op : Head(s)[1] = op => At(op)
    BY <1>1 DEF At
  <2> QED BY <1>1, <1>2, <2>1, TailSteps
<1>4. \A p : Head(s) = <<"return", p>> => At("return") /\ Arg = p
  BY <1>1 DEF At, Arg
<1>5. /\ Follows(s) /\ First(s)
      /\ Has(s, "abortafter") => Has(s, "join") \/ ~sd.thread
      /\ Has(s, "reset") => Has(s, "abortafter") \/ Cleared
      /\ Holds(s, <<"return", "out">>) => Has(s, "abortafter") \/ dec.reconf \/ Cleared
      /\ Has(s, "state") /\ dec.state = "Executing" =>
           /\ Holds(s, <<"return", "in">>) \/ (InQ = <<>> /\ dec.prev = NULL)
           /\ Holds(s, <<"return", "out">>) \/ OutQ = <<>>
      /\ (Has(s, "queues") => dec.state = "Idle") /\ (Has(s, "create") => dec.state = "Loaded")
      /\ ~Has(s, "assert")
  BY <1>1 DEF Ordered
<1>6. /\ Has(t, "abortafter") => Has(t, "join") \/ ~sd'.thread
      /\ Has(s, "abortafter") => Has(t, "abortafter") \/ Cleared'
  BY <1>3, <1>5
<1>7. /\ Has(t, "reset") => Has(t, "abortafter") \/ Cleared'
      /\ Holds(t, <<"return", "out">>) => Has(t, "abortafter") \/ dec'.reconf \/ Cleared'
  BY <1>3, <1>5, <1>6
<1>8. /\ Holds(s, <<"return", "in">>) => Holds(t, <<"return", "in">>) \/ (InQ' = <<>> /\ dec'.prev = NULL)
      /\ Holds(s, <<"return", "out">>) => Holds(t, <<"return", "out">>) \/ OutQ' = <<>>
  BY <1>3, <1>4
<1>9. Has(t, "state") /\ dec'.state = "Executing" =>
           /\ Holds(t, <<"return", "in">>) \/ (InQ' = <<>> /\ dec'.prev = NULL)
           /\ Holds(t, <<"return", "out">>) \/ OutQ' = <<>>
  BY <1>3, <1>5, <1>8
<1>10. /\ (Has(t, "queues") => dec'.state = "Idle") /\ (Has(t, "create") => dec'.state = "Loaded")
       /\ ~Has(t, "assert") /\ Follows(t) /\ First(t)
  BY <1>3, <1>5
<1> QED BY <1>2, <1>6, <1>7, <1>9, <1>10 DEF Ordered

\* No command is on its way.
LEMMA NoneAsked == ASSUME cmdq' = <<>>, cli'.cmd = NULL PROVE Answers'
<1>1. Range(cmdq') = {} /\ NULL \notin Commands
  BY EmptyLeft, DecoderConstantsOK DEF DecoderConstantsOK
<1> QED BY <1>1 DEF Answers

\* Steps that touch neither buffers nor the codec
LEMMA StepKeeps ==
  ASSUME PlayingClient, BufferInv, Undisturbed, UNCHANGED <<port, cli, codec>>,
         dec'.prev = dec.prev, dec'.reconf => dec.reconf,
         dec'.extra => dec.extra /\ dec'.list = dec.list,
         \/ dec'.state = dec.state \/ dec'.state = "Invalid"
         \/ InQ = <<>> /\ OutQ = <<>> /\ dec.prev = NULL,
         out' = out \/ (out.pc = "none" /\ out'.pc = "start"),
         ~Decodes', ~Registering', ~At("data")', ~At("finish")
  PROVE  InKept' /\ OutSide' /\ Phases' /\ Ending' /\ Working'
<1>0. InKept /\ OutSide /\ Phases /\ Ending /\ Working /\ Placed
  BY DEF BufferInv, Kinds, OutSide
<1>1. cli.pc \notin {"pushing", "consuming"} /\ Pushing = {}
  BY NotFilling
<1>2. InQ' = InQ /\ OutQ' = OutQ /\ Pushing' = Pushing
  BY DEF InQ, OutQ, Pushing
<1>3. /\ Given' = Given /\ (HasFrame' => HasFrame /\ out' = out) /\ out'.pc # "assert"
      /\ out'.pc \in {"deliver", "pop", "eosdeliver", "eospop", "eos"} => out' = out
  BY <1>0 DEF Given, HasFrame, Placed
<1>4. InKept'
  BY <1>0, <1>2, InSame
<1>5. OutSide'
  BY <1>0, <1>1, <1>2, <1>3, OutSame
<1>6. Phases'
  <2>1. (Blank' <=> Blank) /\ (dec'.extra => (Filled' <=> Filled))
    BY DEF Blank, Filled
  <2> QED BY <1>0, <1>3, <2>1 DEF Phases
<1>7. Ending'
  BY <1>0, <1>2, <1>3, EndingSame
<1>8. Working'
  BY <1>0, <1>1, <1>2 DEF Working
<1> QED BY <1>4, <1>5, <1>6, <1>7, <1>8

\* A plan is cut short.
LEMMA ShortOrdered ==
  ASSUME comp'.todo \in {<<>>, <<<<"invalid", NULL>>>>}
  PROVE  Ordered' /\ ~Decodes' /\ ~Registering' /\ ~At("data")'
<1>1. CASE comp'.todo = <<>>
  BY <1>1, EmptyOrdered DEF Decodes, Registering, At
<1>2. CASE comp'.todo = <<<<"invalid", NULL>>>>
  <2>1. PICK s : s = <<<<"invalid", NULL>>>> /\ s = comp'.todo
    BY <1>2
  <2>2. DOMAIN s = {1} /\ s[1] = <<"invalid", NULL>> /\ s[1][1] = "invalid" /\ Head(s)[1] = "invalid"
    BY <2>1
  <2>3. \A op : Has(s, op) => op = "invalid"
    BY <2>2 DEF Has
  <2>4. ~Holds(s, <<"return", "in">>) /\ ~Holds(s, <<"return", "out">>)
    BY <2>2 DEF Holds
  <2>5. Follows(s) /\ First(s)
    BY <2>2 DEF Follows, First
  <2>6. Ordered'
    BY <2>1, <2>3, <2>4, <2>5 DEF Ordered
  <2>7. ~Decodes' /\ ~Registering' /\ ~At("data")'
    BY <2>1, <2>2 DEF Decodes, Registering, At, DecodeOps
  <2> QED BY <2>6, <2>7
<1> QED BY <1>1, <1>2

\* A wait begins or ends, which the plan does not depend on.
Waits == {"ready", "ready-wait", "populated", "populated-wait"}
LEMMA RenamedOrdered ==
  ASSUME comp \in CompType, comp.todo # <<>>, Ordered, NEW y,
         comp'.todo = [comp.todo EXCEPT ![1] = y], y[1] \in Waits, Head(comp.todo)[1] \in Waits,
         UNCHANGED <<dec, sd, codec, port>>
  PROVE  Ordered' /\ ~Decodes' /\ ~Registering' /\ ~At("data")'
<1>1. PICK s, S : s = comp.todo /\ s \in Seq(S) /\ s # <<>>
  BY DEF CompType
<1>2. PICK t : t = [s EXCEPT ![1] = y] /\ t = comp'.todo
  BY <1>1
<1>3. /\ DOMAIN t = DOMAIN s /\ 1 \in DOMAIN s /\ t[1] = y /\ s[1] = Head(s)
      /\ \A i \in DOMAIN s : i # 1 => t[i] = s[i]
  BY <1>1, <1>2
<1>4. t # <<>> /\ Head(t) = y
  <2>1. t \in Seq(S \cup {y})
    BY <1>1, <1>2
  <2> QED BY <1>3, <2>1
<1>5. t[1][1] \in Waits /\ s[1][1] \in Waits
  BY <1>1, <1>3
<1>6. \A op : op \notin Waits => (Has(t, op) <=> Has(s, op))
  BY <1>3, <1>5 DEF Has
<1>7. \A p : Holds(t, <<"return", p>>) <=> Holds(s, <<"return", p>>)
  <2>1. \A p : t[1] # <<"return", p>> /\ s[1] # <<"return", p>>
    BY <1>5 DEF Waits
  <2> QED BY <1>3, <2>1, Zenon DEF Holds
<1>8. /\ Has(t, "abortafter") <=> Has(s, "abortafter")
      /\ Has(t, "join") <=> Has(s, "join")
      /\ Has(t, "reset") <=> Has(s, "reset")
      /\ Has(t, "state") <=> Has(s, "state")
      /\ Has(t, "queues") <=> Has(s, "queues")
      /\ Has(t, "create") <=> Has(s, "create")
      /\ Has(t, "assert") <=> Has(s, "assert")
      /\ Holds(t, <<"return", "in">>) <=> Holds(s, <<"return", "in">>)
      /\ Holds(t, <<"return", "out">>) <=> Holds(s, <<"return", "out">>)
  BY <1>6, <1>7 DEF Waits
<1>9. Follows(t)
  <2>1. Follows(s)
    BY <1>1 DEF Ordered
  <2>2. ASSUME NEW i \in DOMAIN t, t[i][1] = "abortafter" PROVE FALSE
    <3>1. i # 1
      BY <1>5, <2>2 DEF Waits
    <3>2. s[1][1] = "join"
      BY <1>3, <2>1, <2>2, <3>1 DEF Follows
    <3> QED BY <1>5, <3>2 DEF Waits
  <2> QED BY <2>2 DEF Follows
<1>10. First(t)
  BY <1>1, <1>3 DEF Ordered, First
<1>11. (Cleared' <=> Cleared) /\ InQ' = InQ /\ OutQ' = OutQ
  BY DEF Cleared, Blank, InQ, OutQ
<1>12. Ordered'
  BY <1>1, <1>2, <1>8, <1>9, <1>10, <1>11 DEF Ordered
<1>13. ~Decodes' /\ ~Registering' /\ ~At("data")'
  BY <1>2, <1>4 DEF Decodes, Registering, At, DecodeOps, Waits
<1> QED BY <1>12, <1>13

\* The waits for the ports to be populated
LEMMA CommandWaits ==
  ASSUME PlayingClient, BufferInv, CompWaitReady \/ CompWaitEnds \/ CompWaitFails
  PROVE  InKept' /\ OutSide' /\ Kinds'
<1>0. ThreadInv /\ comp \in CompType /\ Ordered
  BY DEF BufferInv, ThreadInv, PlanInv, Kinds
<1>1. /\ comp.todo # <<>> /\ Head(comp.todo)[1] \in Waits /\ Undisturbed
      /\ UNCHANGED <<dec, sd, port, codec, cmdq, cli, out>>
  BY DEF CompWaitReady, CompWaitEnds, CompWaitFails, Step, At, Waits
<1>2. Head(comp.todo)[1] \notin DecodeOps /\ ~At("finish")
  BY <1>1 DEF Waits, DecodeOps, At
<1>3. Answers'
  <2>1. cmdq = <<>> /\ cli.cmd = NULL
    BY <1>0, <1>1, InDrain DEF Waits
  <2> QED BY <1>1, <2>1, NoneAsked
<1>4. CASE Done
  <2>1. ~Decodes' /\ ~Registering' /\ ~At("data")'
    BY <1>0, <1>1, <1>2, <1>4, StepDone
  <2>2. InKept' /\ OutSide' /\ Phases' /\ Ending' /\ Working'
    BY <1>1, <1>2, <2>1, StepKeeps
  <2>3. ~At("join") /\ ~At("abortafter") /\ ~At("return")
    BY <1>1 DEF At, Waits
  <2>4. (Cleared => Cleared') /\ InQ' = InQ /\ OutQ' = OutQ
    BY <1>1 DEF Cleared, Blank, InQ, OutQ
  <2>5. Ordered'
    BY <1>0, <1>1, <1>4, <2>3, <2>4, DoneOrdered
  <2> QED BY <1>3, <2>2, <2>5 DEF Kinds
<1>5. ASSUME NEW name \in Waits, comp' = [comp EXCEPT !.todo[1][1] = name]
      PROVE  InKept' /\ OutSide' /\ Kinds'
  <2>1. PICK a, b : comp.todo[1] = <<a, b>>
    <3>1. comp.todo[1] = Head(comp.todo)
      BY <1>0, <1>1 DEF CompType
    <3> QED BY <1>0, <1>1, <3>1, StepKind
  <2>2. PICK y : y = <<name, b>> /\ y[1] = name
    <3>1. <<name, b>>[1] = name
      OBVIOUS
    <3> QED BY <3>1, Zenon
  <2>3. [comp.todo[1] EXCEPT ![1] = name] = y
    BY <2>1, <2>2
  <2>4. comp' = [comp EXCEPT !.todo = [comp.todo EXCEPT ![1] = [comp.todo[1] EXCEPT ![1] = name]]]
    BY <1>5
  <2>5. comp'.todo = [comp.todo EXCEPT ![1] = y]
    BY <1>0, <2>3, <2>4 DEF CompType
  <2>6. Ordered' /\ ~Decodes' /\ ~Registering' /\ ~At("data")'
    BY <1>0, <1>1, <2>2, <2>5, RenamedOrdered
  <2>7. InKept' /\ OutSide' /\ Phases' /\ Ending' /\ Working'
    BY <1>1, <1>2, <2>6, StepKeeps
  <2> QED BY <1>3, <2>6, <2>7 DEF Kinds
<1>6. ASSUME NEW s \in {<<>>, <<<<"invalid", NULL>>>>}, Continue(s)
      PROVE  InKept' /\ OutSide' /\ Kinds'
  <2>1. comp'.todo = s
    BY <1>0, <1>6 DEF Continue, CompType
  <2>2. Ordered' /\ ~Decodes' /\ ~Registering' /\ ~At("data")'
    BY <2>1, ShortOrdered
  <2>3. InKept' /\ OutSide' /\ Phases' /\ Ending' /\ Working'
    BY <1>1, <1>2, <2>2, StepKeeps
  <2> QED BY <1>3, <2>2, <2>3 DEF Kinds
<1>7. \/ Done \/ \E name \in Waits : comp' = [comp EXCEPT !.todo[1][1] = name]
      \/ \E s \in {<<>>, <<<<"invalid", NULL>>>>} : Continue(s)
  <2>1. CASE CompWaitReady
    <3>1. \/ Done \/ comp' = [comp EXCEPT !.todo[1][1] = "ready-wait"]
          \/ comp' = [comp EXCEPT !.todo[1][1] = "populated-wait"]
      BY <2>1 DEF CompWaitReady
    <3> QED BY <3>1 DEF Waits
  <2>2. CASE CompWaitEnds
    <3>1. \/ comp' = [comp EXCEPT !.todo[1][1] = "ready"]
          \/ comp' = [comp EXCEPT !.todo[1][1] = "populated"]
      BY <2>2 DEF CompWaitEnds
    <3> QED BY <3>1 DEF Waits
  <2>3. CASE CompWaitFails
    BY <2>3 DEF CompWaitFails
  <2> QED BY <2>1, <2>2, <2>3
<1> QED BY <1>4, <1>5, <1>6, <1>7

\* The output thread is joined, hasFrame claimed, and the queues found empty.
LEMMA CommandPasses ==
  ASSUME PlayingClient, BufferInv, CompJoin \/ CompSpin \/ CompDealloc \/ CompQueues
  PROVE  InKept' /\ OutSide' /\ Kinds'
<1>0. /\ ThreadInv /\ comp \in CompType /\ sd \in SharedType /\ Ordered /\ Working /\ Answers
      /\ DOMAIN port = Ports
  BY Typed DEF BufferInv, ThreadInv, PlanInv, Kinds
<1>1. /\ comp.todo # <<>> /\ Head(comp.todo)[1] \in {"join", "spin", "dealloc", "queues"}
      /\ Undisturbed /\ UNCHANGED <<dec, port, codec, cmdq, cli, out>>
  BY DEF CompJoin, CompSpin, CompDealloc, CompQueues, Step, At
<1>2. Done
  <2>1. CASE CompQueues
    <3>1. At("queues")
      BY <2>1 DEF CompQueues, Step
    <3>2. Has(comp.todo, "queues")
      BY <1>0, <1>1, <3>1, FirstStep
    <3>3. dec.state = "Idle"
      BY <1>0, <3>2 DEF Ordered
    <3>4. InQ = <<>> /\ OutQ = <<>>
      BY <1>0, <3>3 DEF Working
    <3>5. \A p \in Ports : port[p].queue = <<>>
      BY <3>4 DEF InQ, OutQ, Ports
    <3> QED BY <2>1, <3>5 DEF CompQueues
  <2> QED BY <2>1 DEF CompJoin, CompSpin, CompDealloc
<1>3. Head(comp.todo)[1] \notin DecodeOps
  BY <1>1 DEF DecodeOps
<1>4. ~Decodes' /\ ~Registering' /\ ~At("data")' /\ ~At("finish")
  BY <1>0, <1>1, <1>2, <1>3, StepDone
<1>5. InKept' /\ OutSide' /\ Phases' /\ Ending' /\ Working'
  BY <1>1, <1>4, StepKeeps
<1>6. Answers'
  BY <1>0, <1>1, AnswersSame
<1>7. (sd'.thread => sd.thread) /\ (At("join") => ~sd'.thread)
  <2>1. CASE CompJoin
    BY <1>0, <2>1 DEF CompJoin, SharedType
  <2>2. CASE CompSpin
    BY <1>0, <2>2 DEF CompSpin, SharedType, Step, At
  <2>3. CASE CompDealloc \/ CompQueues
    BY <2>3 DEF CompDealloc, CompQueues, Step, At
  <2> QED BY <2>1, <2>2, <2>3
<1>8. /\ ~At("abortafter") /\ ~At("return") /\ (Cleared => Cleared') /\ InQ' = InQ /\ OutQ' = OutQ
  BY <1>1, <1>7 DEF At, Cleared, Blank, InQ, OutQ
<1>9. Ordered'
  BY <1>0, <1>1, <1>2, <1>7, <1>8, DoneOrdered
<1> QED BY <1>5, <1>6, <1>9 DEF Kinds


\* No output thread, no frame
LEMMA NoneRuns ==
  ASSUME BufferInv, ~sd.thread PROVE out.pc = "none" /\ Given = {} /\ ~HasFrame
<1>1. out.pc = "none"
  BY DEF BufferInv, ThreadInv, Output
<1> QED BY <1>1 DEF Given, HasFrame

\* Steps after which the codec has nothing, taken while there is no output thread
LEMMA ClearedKeeps ==
  ASSUME PlayingClient, BufferInv, Undisturbed, ~sd.thread, port' = port,
         codec'.free = {}, codec'.pics = <<>>, codec'.shown = {}, ~codec'.eos, codec'.phase = "hdr",
         cli'.pc = cli.pc, cli'.held = cli.held, cli'.eosBuf \in {cli.eosBuf, NULL},
         dec'.prev = dec.prev, dec'.state = dec.state,
         \/ ~dec'.reconf
         \/ dec'.reconf = dec.reconf /\ dec'.extra = dec.extra /\ dec'.list = dec.list,
         out'.pc \in {"none", "start"},
         ~Decodes', ~Registering', ~At("data")'
  PROVE  InKept' /\ OutSide' /\ Phases' /\ Ending' /\ Working' /\ (~sd'.thread => Cleared')
<1>0. InKept /\ OutKept /\ Phases /\ Ending /\ Working
  BY DEF BufferInv, Kinds, OutSide
<1>1. cli.pc \notin {"pushing", "consuming"} /\ Pushing = {} /\ Given = {}
  BY NotFilling, NoneRuns
<1>2. InQ' = InQ /\ OutQ' = OutQ /\ Pushing' = {} /\ Given' = {} /\ ~HasFrame' /\ Blank'
  BY <1>1 DEF InQ, OutQ, Pushing, Given, HasFrame, Blank
<1>3. InKept'
  BY <1>0, <1>2, InSame
<1>4. OutKept'
  BY <1>0, <1>1, <1>2 DEF OutKept
<1>5. Placed'
  BY <1>1, <1>2 DEF Placed
<1>6. CodecKept'
  BY EmptyLeft DEF CodecKept
<1>7. Phases'
  <2>1. dec'.reconf /\ dec'.extra => Filled'
    BY <1>0 DEF Phases, Filled
  <2> QED BY <1>2, <2>1 DEF Phases
<1>8. Ending'
  BY <1>0, <1>2 DEF Ending
<1>9. Working'
  BY <1>0, <1>1, <1>2 DEF Working
<1>10. ~sd'.thread => Cleared'
  BY <1>2 DEF Cleared
<1> QED BY <1>3, <1>4, <1>5, <1>6, <1>7, <1>8, <1>9, <1>10 DEF OutSide

\* The codec is created, or that fails.
LEMMA CommandCreates ==
  ASSUME PlayingClient, BufferInv, CompCreate PROVE InKept' /\ OutSide' /\ Kinds'
<1>0. /\ ThreadInv /\ comp \in CompType /\ Ordered /\ Output
  BY DEF BufferInv, ThreadInv, PlanInv, Kinds
<1>1. /\ comp.todo # <<>> /\ At("create") /\ Head(comp.todo)[1] = "create"
      /\ Undisturbed /\ UNCHANGED <<dec, sd, port, cmdq, cli, out>>
  BY DEF CompCreate, Step, At
<1>2. Head(comp.todo)[1] \notin DecodeOps /\ ~At("finish")
  BY <1>1 DEF DecodeOps, At
<1>3. Answers'
  <2>1. cmdq = <<>> /\ cli.cmd = NULL
    BY <1>0, <1>1, InDrain
  <2> QED BY <1>1, <2>1, NoneAsked
<1>4. CASE Continue(<<<<"invalid", NULL>>>>) /\ UNCHANGED codec
  <2>1. comp'.todo = <<<<"invalid", NULL>>>>
    BY <1>0, <1>4 DEF Continue, CompType
  <2>2. Ordered' /\ ~Decodes' /\ ~Registering' /\ ~At("data")'
    BY <2>1, ShortOrdered
  <2>3. InKept' /\ OutSide' /\ Phases' /\ Ending' /\ Working'
    BY <1>1, <1>2, <1>4, <2>2, StepKeeps
  <2> QED BY <1>3, <2>2, <2>3 DEF Kinds
<1>5. CASE codec' = [NoCodec EXCEPT !.made = TRUE] /\ Done
  <2>1. Has(comp.todo, "create")
    BY <1>0, <1>1, FirstStep
  <2>2. dec.state = "Loaded"
    BY <1>0, <2>1 DEF Ordered
  <2>3. ~sd.thread
    BY <1>0, <1>1, <2>2 DEF Output, Next1
  <2>4. out.pc = "none"
    BY <2>3, NoneRuns
  <2>5. /\ codec'.free = {} /\ codec'.pics = <<>> /\ codec'.shown = {} /\ ~codec'.eos
        /\ codec'.phase = "hdr"
    BY <1>5 DEF NoCodec
  <2>6. ~Decodes' /\ ~Registering' /\ ~At("data")'
    BY <1>0, <1>1, <1>2, <1>5, StepDone
  <2>7. InKept' /\ OutSide' /\ Phases' /\ Ending' /\ Working' /\ Cleared'
    BY <1>1, <2>3, <2>4, <2>5, <2>6, ClearedKeeps
  <2>8. ~At("join") /\ ~At("return") /\ InQ' = InQ /\ OutQ' = OutQ
    BY <1>1 DEF At, InQ, OutQ
  <2>9. Ordered'
    BY <1>0, <1>1, <1>5, <2>7, <2>8, DoneOrdered
  <2> QED BY <1>3, <2>7, <2>9 DEF Kinds
<1> QED BY <1>4, <1>5 DEF CompCreate

\* When abortafter is called, or flags are reset, the output thread has been joined.
LEMMA JoinedBefore ==
  ASSUME BufferInv, At("abortafter") \/ At("reset")
  PROVE  ~sd.thread /\ (At("reset") => Cleared)
<1>0. comp \in CompType /\ comp.todo # <<>> /\ Planned /\ Ordered
  BY DEF BufferInv, ThreadInv, PlanInv, Kinds, At
<1>1. PICK s, S : s = comp.todo /\ s \in Seq(S) /\ s # <<>>
  BY <1>0 DEF CompType
<1>2. 1 \in DOMAIN s /\ s[1][1] \in {"abortafter", "reset"} /\ (At("reset") <=> s[1][1] = "reset")
  BY <1>0, <1>1, FirstStep
<1>3. ~Has(s, "join")
  <2>1. \A i \in DOMAIN s : s[i][1] = "join" => i = 1
    BY <1>0, <1>1 DEF Planned, Fits
  <2> QED BY <1>2, <2>1 DEF Has
<1>4. s[1][1] = "reset" => ~Has(s, "abortafter")
  BY <1>0, <1>1, <1>2 DEF Ordered, Follows, Has
<1>5. Has(s, s[1][1])
  BY <1>2 DEF Has
<1>6. CASE s[1][1] = "abortafter"
  BY <1>0, <1>1, <1>2, <1>3, <1>5, <1>6 DEF Ordered
<1>7. CASE s[1][1] = "reset"
  BY <1>0, <1>1, <1>2, <1>4, <1>5, <1>7 DEF Ordered, Cleared
<1> QED BY <1>2, <1>6, <1>7

\* codec->abortafter
LEMMA CommandAborts ==
  ASSUME PlayingClient, BufferInv, CompAbortAfter PROVE InKept' /\ OutSide' /\ Kinds'
<1>0. /\ comp \in CompType /\ Ordered /\ Answers
  BY DEF BufferInv, ThreadInv, PlanInv, Kinds
<1>1. /\ comp.todo # <<>> /\ At("abortafter") /\ Head(comp.todo)[1] = "abortafter"
      /\ Undisturbed /\ Done /\ codec' = AbortAfter(codec) /\ UNCHANGED <<dec, sd, port, cmdq, cli, out>>
  BY DEF CompAbortAfter, Step, At
<1>2. ~sd.thread /\ out.pc = "none"
  BY <1>1, JoinedBefore, NoneRuns
<1>3. /\ codec'.free = {} /\ codec'.pics = <<>> /\ codec'.shown = {} /\ ~codec'.eos
      /\ codec'.phase = "hdr"
  BY <1>1 DEF AbortAfter, NoCodec
<1>4. Head(comp.todo)[1] \notin DecodeOps
  BY <1>1 DEF DecodeOps
<1>5. ~Decodes' /\ ~Registering' /\ ~At("data")'
  BY <1>0, <1>1, <1>4, StepDone
<1>6. InKept' /\ OutSide' /\ Phases' /\ Ending' /\ Working' /\ Cleared'
  BY <1>1, <1>2, <1>3, <1>5, ClearedKeeps
<1>7. ~At("join") /\ ~At("return") /\ InQ' = InQ /\ OutQ' = OutQ
  BY <1>1 DEF At, InQ, OutQ
<1>8. Ordered'
  BY <1>0, <1>1, <1>6, <1>7, DoneOrdered
<1>9. Answers'
  BY <1>0, <1>1, AnswersSame
<1> QED BY <1>6, <1>8, <1>9 DEF Kinds

\* Flags are reset, and a flush starts a new output thread.
LEMMA CommandResets ==
  ASSUME PlayingClient, BufferInv, CompReset PROVE InKept' /\ OutSide' /\ Kinds'
<1>0. /\ ThreadInv /\ comp \in CompType /\ dec \in DecType /\ sd \in SharedType /\ cli \in ClientType
      /\ Ordered /\ Planned
  BY DEF BufferInv, ThreadInv, PlanInv, Kinds
<1>1. /\ comp.todo # <<>> /\ At("reset") /\ Head(comp.todo)[1] = "reset"
      /\ Undisturbed /\ Done /\ UNCHANGED <<port, codec, cmdq>>
      /\ dec' = [dec EXCEPT !.list = NoList, !.release = FALSE, !.reconf = FALSE, !.run = TRUE]
      /\ cli' = [cli EXCEPT !.eosBuf = NULL]
  BY DEF CompReset, Step, At
<1>2. Cleared /\ ~sd.thread /\ out.pc = "none"
  BY <1>1, JoinedBefore, NoneRuns
<1>3. /\ codec'.free = {} /\ codec'.pics = <<>> /\ codec'.shown = {} /\ ~codec'.eos
      /\ codec'.phase = "hdr"
  BY <1>1, <1>2 DEF Cleared, Blank
<1>4. ~dec'.reconf /\ dec'.prev = dec.prev /\ dec'.state = dec.state
  BY <1>0, <1>1 DEF DecType
<1>5. cli'.pc = cli.pc /\ cli'.held = cli.held /\ cli'.eosBuf = NULL /\ cli'.cmd = cli.cmd
  BY <1>0, <1>1 DEF ClientType
<1>6. out'.pc \in {"none", "start"}
  BY <1>2 DEF CompReset, StartOutput
<1>7. Head(comp.todo)[1] \notin DecodeOps
  BY <1>1 DEF DecodeOps
<1>8. ~Decodes' /\ ~Registering' /\ ~At("data")'
  BY <1>0, <1>1, <1>7, StepDone
<1>9. InKept' /\ OutSide' /\ Phases' /\ Ending' /\ Working' /\ (~sd'.thread => Cleared')
  BY <1>1, <1>2, <1>3, <1>4, <1>5, <1>6, <1>8, ClearedKeeps
<1>10. Answers'
  <2>1. cmdq = <<>> /\ cli.cmd = NULL
    BY <1>0, <1>1, InDrain
  <2> QED BY <1>1, <1>5, <2>1, NoneAsked
<1>11. Ordered'
  <2>1. CASE Arg = "flush"
    <3>1. Head(comp.todo) = <<"reset", "flush">>
      BY <1>0, <1>1, <2>1, StepKind
    <3>2. comp'.todo = <<>>
      BY <1>0, <1>1, <3>1, LastDone
    <3> QED BY <3>2, EmptyOrdered
  <2>2. CASE Arg # "flush"
    <3>1. sd' = [sd EXCEPT !.eos = FALSE, !.eosAddr = NULL]
      BY <2>2 DEF CompReset
    <3>2. ~sd'.thread
      BY <1>0, <1>2, <3>1 DEF SharedType
    <3>3. ~At("join") /\ ~At("return") /\ InQ' = InQ /\ OutQ' = OutQ
      BY <1>1 DEF At, InQ, OutQ
    <3> QED BY <1>0, <1>1, <1>4, <1>9, <3>2, <3>3, DoneOrdered
  <2> QED BY <2>1, <2>2
<1> QED BY <1>9, <1>10, <1>11 DEF Kinds

\* What follows the start of the output thread, and the end of the codec
LEMMA LastState ==
  ASSUME comp'.todo = <<<<"state", "Executing">>>> \/ comp'.todo = <<<<"state", "Loaded">>>>,
         dec'.state # "Executing"
  PROVE  Ordered'
<1>1. PICK s : s = comp'.todo
  OBVIOUS
<1>2. DOMAIN s = {1} /\ s[1][1] = "state"
  BY <1>1
<1>3. \A op : Has(s, op) => op = "state"
  BY <1>2 DEF Has
<1>4. ~Holds(s, <<"return", "out">>)
  BY <1>2 DEF Holds
<1>5. Follows(s) /\ First(s)
  BY <1>2 DEF Follows, First
<1> QED BY <1>1, <1>3, <1>4, <1>5 DEF Ordered

\* transition_to_executing_from_idle, and the end of transition_to_loaded_from_idle
LEMMA CommandTurns ==
  ASSUME PlayingClient, BufferInv, CompExecute \/ CompDestroy
  PROVE  InKept' /\ OutSide' /\ Kinds'
<1>0. /\ ThreadInv /\ comp \in CompType /\ dec \in DecType /\ sd \in SharedType /\ cli \in ClientType
      /\ Planned /\ Output
  BY DEF BufferInv, ThreadInv, PlanInv, Kinds
<1>1. /\ comp.todo # <<>> /\ Head(comp.todo)[1] \in {"execute", "destroy"} /\ Undisturbed /\ Done
      /\ UNCHANGED <<port, cmdq>>
  BY DEF CompExecute, CompDestroy, Step, At
<1>2. Head(comp.todo)[1] \notin DecodeOps
  BY <1>1 DEF DecodeOps
<1>3. ~Decodes' /\ ~Registering' /\ ~At("data")' /\ ~At("finish") /\ comp'.todo = Tail(comp.todo)
  BY <1>0, <1>1, <1>2, StepDone
<1>4. cmdq = <<>> /\ cli.cmd = NULL
  BY <1>0, <1>1, InDrain
<1>5. PICK t, S : t = comp.todo /\ t \in Seq(S) /\ t # <<>> /\ 1 \in DOMAIN t /\ t[1] = Head(t)
  BY <1>0, <1>1 DEF CompType
<1>6. /\ t[1][1] = "execute" => dec.state = "Idle" /\ Len(t) = 2 /\ t[2] = <<"state", "Executing">>
      /\ t[1][1] = "destroy" => Len(t) = 2 /\ t[2] = <<"state", "Loaded">>
      /\ t[1][1] = "destroy" => dec.state = "Idle" /\ ~sd.thread
  <2>1. Fits(t, dec.state) /\ Kept(t, 1)
    BY <1>0, <1>5 DEF Planned
  <2>2. 1 + 1 = 2
    OBVIOUS
  <2> QED BY <1>5, <2>1, <2>2 DEF Fits, Kept
<1>7. dec.state = "Idle" /\ (comp'.todo = <<<<"state", "Executing">>>> \/ comp'.todo = <<<<"state", "Loaded">>>>)
  <2>1. dec.state = "Idle" /\ Len(t) = 2 /\ t[2] \in {<<"state", "Executing">>, <<"state", "Loaded">>}
    BY <1>1, <1>5, <1>6
  <2>2. Tail(t) = <<t[2]>>
    <3>1. PICK u : u = Tail(t)
      OBVIOUS
    <3>2. u \in Seq(S) /\ Len(u) = 1 /\ u[1] = t[2]
      BY <1>5, <2>1, <3>1
    <3>3. u = <<u[1]>>
      BY <3>2
    <3> QED BY <3>1, <3>2, <3>3
  <2> QED BY <1>3, <1>5, <2>1, <2>2
<1>8. CASE CompExecute
  <2>1. /\ UNCHANGED <<port, cli, codec>> /\ dec' = [dec EXCEPT !.release = FALSE]
        /\ out' = out \/ (out.pc = "none" /\ out'.pc = "start")
    BY <1>8 DEF CompExecute, StartOutput
  <2>2. /\ dec'.prev = dec.prev /\ dec'.reconf = dec.reconf /\ dec'.extra = dec.extra
        /\ dec'.list = dec.list /\ dec'.state = dec.state
    BY <1>0, <2>1 DEF DecType
  <2>3. InKept' /\ OutSide' /\ Phases' /\ Ending' /\ Working'
    BY <1>1, <1>3, <2>1, <2>2, StepKeeps
  <2>4. Ordered'
    BY <1>7, <2>2, LastState
  <2>5. Answers'
    BY <1>1, <1>4, <2>1, NoneAsked
  <2> QED BY <2>3, <2>4, <2>5 DEF Kinds
<1>9. CASE CompDestroy
  <2>1. ~sd.thread /\ out.pc = "none"
    <3>1. At("destroy")
      BY <1>9 DEF CompDestroy, Step
    <3> QED BY <1>5, <1>6, <3>1, NoneRuns DEF At
  <2>2. /\ codec' = NoCodec /\ out' = out /\ cli' = [cli EXCEPT !.eosBuf = NULL]
        /\ dec' = [dec EXCEPT !.run = TRUE, !.extra = FALSE, !.reconf = FALSE,
                              !.disabling = FALSE, !.release = FALSE]
    BY <1>9 DEF CompDestroy
  <2>3. ~dec'.reconf /\ dec'.prev = dec.prev /\ dec'.state = dec.state
    BY <1>0, <2>2 DEF DecType
  <2>4. cli'.pc = cli.pc /\ cli'.held = cli.held /\ cli'.eosBuf = NULL /\ cli'.cmd = cli.cmd
    BY <1>0, <2>2 DEF ClientType
  <2>5. /\ codec'.free = {} /\ codec'.pics = <<>> /\ codec'.shown = {} /\ ~codec'.eos
        /\ codec'.phase = "hdr"
    BY <2>2 DEF NoCodec
  <2>6. InKept' /\ OutSide' /\ Phases' /\ Ending' /\ Working'
    BY <1>1, <1>3, <2>1, <2>2, <2>3, <2>4, <2>5, ClearedKeeps
  <2>7. Ordered'
    BY <1>7, <2>3, LastState
  <2>8. Answers'
    BY <1>1, <1>4, <2>4, NoneAsked
  <2> QED BY <2>6, <2>7, <2>8 DEF Kinds
<1> QED BY <1>8, <1>9


\* A port's queue is cleared.
LEMMA ClearedQueue ==
  ASSUME DOMAIN port = Ports, NEW a \in Ports, port' = [port EXCEPT ![a] = QueueClear(@)],
         PortGood(Bufs(a), port[a])
  PROVE  /\ port'[a].queue = <<>> /\ port'[a].buffers = port[a].buffers
         /\ \A p \in Ports \ {a} : port'[p] = port[p]
<1>1. port'[a] = QueueClear(port[a]) /\ \A p \in Ports \ {a} : port'[p] = port[p]
  OBVIOUS
<1>2. QueueClear(port[a]).queue = <<>> /\ QueueClear(port[a]).buffers = port[a].buffers
  BY DEF QueueClear, PortGood
<1> QED BY <1>1, <1>2


\* async_decoder_return_buffers
LEMMA CommandReturns ==
  ASSUME PlayingClient, BufferInv, CompReturn PROVE InKept' /\ OutSide' /\ Kinds'
<1>0. /\ ThreadInv /\ comp \in CompType /\ dec \in DecType /\ cli \in ClientType
      /\ InKept /\ OutSide /\ Phases /\ Ending /\ Working /\ Ordered /\ DOMAIN port = Ports
      /\ InQ \in Seq(InBufs) /\ OutQ \in Seq(OutBufs) /\ InBufs \cap OutBufs = {}
      /\ port["in"].buffers \in Seq(InBufs) /\ NULL \notin InBufs
  BY Typed DEF BufferInv, ThreadInv, PlanInv, Kinds
<1>1. /\ comp.todo # <<>> /\ At("return") /\ Head(comp.todo)[1] = "return"
      /\ Undisturbed /\ Done /\ UNCHANGED <<sd, codec, cmdq, out>>
      /\ dec' = [dec EXCEPT !.prev = NULL]
  BY DEF CompReturn, Step, At
<1>2. PICK a \in Ports : a = Arg
  BY <1>0, <1>1, StepKind
<1>3. /\ port' = [port EXCEPT ![a] = QueueClear(@)]
      /\ cli' = [cli EXCEPT !.held = @ \cup Range(port[a].queue) \cup ({dec.prev} \ {NULL})]
  <2>1. PICK back : back = Range(port[a].queue) \cup ({dec.prev} \ {NULL})
    OBVIOUS
  <2>2. /\ port' = [port EXCEPT ![a] = QueueClear(@)]
        /\ cli' = [cli EXCEPT !.held = @ \cup (back \ {})]
    BY <1>2, <2>1 DEF CompReturn, PlayingClient
  <2> QED BY <2>1, <2>2
<1>4. /\ dec'.prev = NULL /\ dec'.state = dec.state /\ dec'.reconf = dec.reconf
      /\ dec'.extra = dec.extra /\ dec'.list = dec.list
  BY <1>0, <1>1 DEF DecType
<1>5. /\ cli'.pc = cli.pc /\ cli'.cmd = cli.cmd /\ cli'.eosBuf = cli.eosBuf
      /\ cli'.held = cli.held \cup Range(port[a].queue) \cup ({dec.prev} \ {NULL})
  BY <1>0, <1>3 DEF ClientType
<1>6. Head(comp.todo)[1] \notin DecodeOps
  BY <1>1 DEF DecodeOps
<1>7. ~Decodes' /\ ~Registering' /\ ~At("data")' /\ ~At("finish")
  BY <1>0, <1>1, <1>6, StepDone
<1>8. cli.pc \notin {"pushing", "consuming"} /\ Pushing = {} /\ Pushing' = {}
  <2>1. cli.pc \notin {"pushing", "consuming"} /\ Pushing = {}
    BY <1>1, NotFilling
  <2> QED BY <1>5, <2>1 DEF Pushing
<1>9. Answers'
  <2>1. cmdq = <<>> /\ cli.cmd = NULL
    BY <1>0, <1>1, InDrain
  <2> QED BY <1>1, <1>5, <2>1, NoneAsked
<1>10. Given' = Given /\ (HasFrame' <=> HasFrame) /\ out.pc # "assert"
  BY <1>0, <1>1 DEF Given, HasFrame, OutSide, Placed
<1>11. Phases'
  BY <1>0, <1>1, <1>4, <1>7, <1>10, PhasesSame
<1>12. /\ port'[a].queue = <<>> /\ port'[a].buffers = port[a].buffers
       /\ \A p \in Ports \ {a} : port'[p] = port[p]
  BY <1>0, <1>2, <1>3, ClearedQueue DEF BufferInv, ThreadInv, PlanInv, EventInv, PortsGood
<1>13. NULL \notin Range(port["in"].buffers) /\ Range(InQ) \subseteq InBufs /\ Range(OutQ) \subseteq OutBufs
  BY <1>0 DEF Range
<1>14. /\ InQ = <<>> => InQ' = <<>>
       /\ OutQ = <<>> => OutQ' = <<>>
  BY <1>2, <1>12 DEF InQ, OutQ, Ports
<1>15. Ending'
  <2>1. InQ' = InQ \/ InQ' = <<>>
    BY <1>2, <1>12 DEF InQ, Ports
  <2> QED BY <1>0, <1>1, <1>5, <1>7, <2>1 DEF Ending
<1>16. Working'
  BY <1>0, <1>4, <1>5, <1>7, <1>8, <1>14 DEF Working
<1>17. Ordered'
  <2>1. ~At("join") /\ ~At("abortafter") /\ (Cleared => Cleared')
    BY <1>1 DEF At, Cleared, Blank
  <2>2. (Arg = "in" => InQ' = <<>>) /\ (Arg = "out" => OutQ' = <<>>)
    BY <1>2, <1>12 DEF InQ, OutQ
  <2> QED BY <1>0, <1>1, <1>4, <1>14, <2>1, <2>2, DoneOrdered
<1>18. /\ InAccount(<<>>, port["in"].buffers,
                    (cli.held \cap InBufs) \cup Range(InQ) \cup ({dec.prev} \ {NULL}), NULL)
       /\ InAccount(InQ, port["in"].buffers, (cli.held \cap InBufs) \cup ({dec.prev} \ {NULL}), NULL)
  BY <1>0, <1>13, InReturned, Zenon DEF InKept
<1>19. CASE a = "in"
  <2>1. InQ' = <<>> /\ OutQ' = OutQ /\ port'["in"].buffers = port["in"].buffers /\ port'["out"] = port["out"]
    BY <1>12, <1>19 DEF InQ, OutQ, Ports
  <2>2. cli'.held = cli.held \cup Range(InQ) \cup ({dec.prev} \ {NULL})
    BY <1>5, <1>19 DEF InQ
  <2>3. cli'.held \cap InBufs = (cli.held \cap InBufs) \cup Range(InQ) \cup ({dec.prev} \ {NULL})
    BY <1>0, <1>13, <2>2 DEF DecType, Maybe
  <2>4. cli'.held \cap OutBufs = cli.held \cap OutBufs
    BY <1>0, <1>13, <2>2 DEF DecType, Maybe
  <2>5. InKept'
    BY <1>4, <1>18, <2>1, <2>3, Zenon DEF InKept
  <2>6. OutSide'
    BY <1>0, <1>1, <1>5, <1>8, <1>10, <2>1, <2>4, OutSame
  <2> QED BY <1>9, <1>11, <1>15, <1>16, <1>17, <2>5, <2>6 DEF Kinds
<1>20. CASE a = "out"
  <2>1. Blank /\ ~codec.eos /\ ~HasFrame /\ out.pc \notin {"pop", "eosdeliver", "eospop"}
    BY <1>1, <1>2, <1>20, ReturnsAlone
  <2>2. OutQ' = <<>> /\ InQ' = InQ /\ port'["out"].buffers = port["out"].buffers /\ port'["in"] = port["in"]
    BY <1>12, <1>20 DEF InQ, OutQ, Ports
  <2>3. cli'.held = cli.held \cup Range(OutQ) \cup ({dec.prev} \ {NULL})
    BY <1>5, <1>20 DEF OutQ
  <2>4. cli'.held \cap InBufs = (cli.held \cap InBufs) \cup ({dec.prev} \ {NULL})
    BY <1>0, <1>13, <2>3 DEF DecType, Maybe
  <2>5. cli'.held \cap OutBufs = (cli.held \cap OutBufs) \cup Range(OutQ)
    BY <1>0, <1>13, <2>3 DEF DecType, Maybe
  <2>6. InKept'
    BY <1>4, <1>18, <2>2, <2>4, Zenon DEF InKept
  <2>7. Given = {} /\ Given' = {}
    BY <1>10, <2>1 DEF Given
  <2>8. OutKept'
    BY <1>0, <1>8, <2>2, <2>5, <2>7, OutReturned DEF OutSide, OutKept
  <2>9. Placed'
    BY <1>0, <1>1, <1>5, <1>8, <1>10, <2>1 DEF OutSide, Placed, HasFrame
  <2>10. CodecKept'
    BY <1>1, <2>1, EmptyLeft DEF CodecKept, Blank
  <2> QED BY <1>9, <1>11, <1>15, <1>16, <1>17, <2>6, <2>8, <2>9, <2>10 DEF Kinds, OutSide
<1> QED BY <1>2, <1>19, <1>20 DEF Ports

\* The end of a change of state
LEMMA CommandState ==
  ASSUME PlayingClient, BufferInv, CompState PROVE InKept' /\ OutSide' /\ Kinds'
<1>0. /\ ThreadInv /\ comp \in CompType /\ dec \in DecType /\ Planned /\ Asked /\ Ordered /\ Working
  BY DEF BufferInv, ThreadInv, PlanInv, Kinds
<1>1. /\ comp.todo # <<>> /\ Head(comp.todo)[1] \in {"state", "reject", "invalid"}
      /\ Undisturbed /\ Done /\ UNCHANGED <<sd, port, codec, cmdq, cli, out>>
  BY DEF CompState, Step, At
<1>2. comp'.todo = <<>>
  BY <1>0, <1>1, LastDone
<1>3. Ordered' /\ ~Decodes' /\ ~Registering' /\ ~At("data")'
  BY <1>2, EmptyOrdered DEF Decodes, Registering, At
<1>4. ~At("finish")
  BY <1>1 DEF At
<1>5. Answers'
  <2>1. cmdq = <<>> /\ cli.cmd = NULL
    BY <1>0, <1>1, InDrain
  <2> QED BY <1>1, <2>1, NoneAsked
<1>6. /\ dec'.prev = dec.prev /\ dec'.reconf = dec.reconf /\ dec'.extra = dec.extra
      /\ dec'.list = dec.list
      /\ dec'.state = dec.state \/ dec'.state = "Invalid" \/ At("state")
  <2>1. \/ At("state") /\ dec' = [dec EXCEPT !.state = Arg, !.trans = Arg]
        \/ dec' = [dec EXCEPT !.trans = dec.state]
        \/ dec' = [dec EXCEPT !.state = "Invalid", !.run = FALSE]
    BY <1>1 DEF CompState, At
  <2>2. CASE At("state") /\ dec' = [dec EXCEPT !.state = Arg, !.trans = Arg]
    BY <1>0, <2>2 DEF DecType
  <2>3. CASE dec' = [dec EXCEPT !.trans = dec.state]
    BY <1>0, <2>3 DEF DecType
  <2>4. CASE dec' = [dec EXCEPT !.state = "Invalid", !.run = FALSE]
    BY <1>0, <2>4 DEF DecType
  <2> QED BY <2>1, <2>2, <2>3, <2>4
<1>7. At("state") => InQ = <<>> /\ OutQ = <<>> /\ dec.prev = NULL
  <2>1. SUFFICES ASSUME At("state") PROVE InQ = <<>> /\ OutQ = <<>> /\ dec.prev = NULL
    OBVIOUS
  <2>2. dec.state # "Invalid"
    BY <1>0, <1>1 DEF Asked
  <2>3. CASE dec.state # "Executing"
    BY <1>0, <2>2, <2>3 DEF Working
  <2>4. CASE dec.state = "Executing"
    <3>1. PICK t, S : t = comp.todo /\ t \in Seq(S) /\ t # <<>>
      BY <1>0, <1>1 DEF CompType
    <3>2. Tail(t) = <<>>
      BY <1>0, <1>1, <1>2, <3>1 DEF Done, CompType
    <3>3. DOMAIN t = {1} /\ t[1] = Head(t)
      <4>1. Len(t) \in Nat \ {0} /\ Len(Tail(t)) = Len(t) - 1 /\ DOMAIN t = 1 .. Len(t) /\ t[1] = Head(t)
        BY <3>1
      <4>2. Len(t) = 1
        BY <3>2, <4>1
      <4> QED BY <4>1, <4>2
    <3>4. Has(t, "state") /\ \A p : ~Holds(t, <<"return", p>>)
      BY <2>1, <3>1, <3>3 DEF At, Has, Holds
    <3> QED BY <1>0, <2>4, <3>1, <3>4 DEF Ordered
  <2> QED BY <2>3, <2>4
<1>8. InKept' /\ OutSide' /\ Phases' /\ Ending' /\ Working'
  BY <1>1, <1>3, <1>4, <1>6, <1>7, StepKeeps
<1> QED BY <1>3, <1>5, <1>8 DEF Kinds


\* Enabling a port depends on nothing that is promised here.
LEMMA EnableOrdered ==
  ASSUME comp'.todo \in Seq(EnableSteps)
  PROVE  Ordered' /\ ~Decodes' /\ ~Registering' /\ ~At("data")'
<1>1. PICK s : s = comp'.todo /\ s \in Seq(EnableSteps)
  OBVIOUS
<1>2. ASSUME NEW i \in DOMAIN s PROVE s[i][1] \notin DecodeOps
  <2>1. s[i] \in EnableSteps
    BY <1>1, ElementOfSeq
  <2> QED BY <2>1 DEF EnableSteps, DecodeOps
<1>3. /\ \A op \in Marks : ~Has(s, op)
      /\ Follows(s) /\ \A p : ~Holds(s, <<"return", p>>)
  BY <1>1, OtherPlansUnmarked, UnmarkedOrdered
<1>4. First(s)
  BY <1>2 DEF First, DecodeOps
<1>5. Ordered'
  BY <1>1, <1>3, <1>4 DEF Ordered, Marks
<1>6. s # <<>> => Head(s)[1] \notin DecodeOps
  <2>1. s # <<>> => 1 \in DOMAIN s /\ s[1] = Head(s)
    BY <1>1
  <2> QED BY <1>2, <2>1
<1>7. ~Decodes' /\ ~Registering' /\ ~At("data")'
  BY <1>1, <1>6 DEF Decodes, Registering, At, DecodeOps
<1> QED BY <1>5, <1>7

\* Ports have been disabled or enabled.
LEMMA CommandPorts ==
  ASSUME PlayingClient, BufferInv, CompDisabled \/ CompEnabled PROVE InKept' /\ OutSide' /\ Kinds'
<1>0. ThreadInv /\ comp \in CompType /\ dec \in DecType /\ Ordered
  BY DEF BufferInv, ThreadInv, PlanInv, Kinds
<1>1. /\ comp.todo # <<>> /\ Head(comp.todo)[1] \in {"disabled", "enabled"}
      /\ Undisturbed /\ Done /\ UNCHANGED <<sd, port, codec, cmdq, cli, out>>
  BY DEF CompDisabled, CompEnabled, Step, At
<1>2. Head(comp.todo)[1] \notin DecodeOps
  BY <1>1 DEF DecodeOps
<1>3. /\ comp'.todo = Tail(comp.todo)
      /\ ~Decodes' /\ ~Registering' /\ ~At("data")' /\ ~At("finish")
  BY <1>0, <1>1, <1>2, StepDone
<1>4. /\ dec'.prev = dec.prev /\ dec'.state = dec.state /\ (dec'.reconf => dec.reconf)
      /\ dec'.extra => dec.extra /\ dec'.list = dec.list
      /\ CompDisabled => dec'.reconf = dec.reconf
  <2>1. CASE CompDisabled
    <3>1. dec' = dec \/ dec' = [dec EXCEPT !.disabling = FALSE, !.list = NoList, !.extra = FALSE]
      BY <2>1 DEF CompDisabled
    <3> QED BY <1>0, <3>1 DEF DecType
  <2>2. CASE CompEnabled /\ ~CompDisabled
    <3>1. dec' = [dec EXCEPT !.reconf = @ /\ Arg # "out"]
      BY <2>2 DEF CompEnabled
    <3> QED BY <1>0, <2>2, <3>1 DEF DecType
  <2> QED BY <2>1, <2>2
<1>5. InKept' /\ OutSide' /\ Phases' /\ Ending' /\ Working'
  BY <1>1, <1>3, <1>4, StepKeeps
<1>6. Answers'
  <2>1. cmdq = <<>> /\ cli.cmd = NULL
    BY <1>0, <1>1, InDrain
  <2> QED BY <1>1, <2>1, NoneAsked
<1>7. Ordered'
  <2>1. CASE CompDisabled
    <3>1. /\ ~At("join") /\ ~At("abortafter") /\ ~At("return") /\ (Cleared => Cleared')
          /\ InQ' = InQ /\ OutQ' = OutQ /\ sd'.thread = sd.thread
      BY <1>1 DEF At, Cleared, Blank, InQ, OutQ
    <3> QED BY <1>0, <1>1, <1>4, <2>1, <3>1, DoneOrdered
  <2>2. CASE CompEnabled
    <3>1. Head(comp.todo)[1] = "enabled"
      BY <2>2 DEF CompEnabled, Step, At
    <3>2. PICK K \in {ChangeSteps, EnableSteps, DecodeSteps, FailSteps} :
            comp.todo \in Seq(K) /\ Head(comp.todo) \in K
      BY <1>0, <1>1, StepKind
    <3>3. ASSUME Head(comp.todo) \in ChangeSteps \cup DecodeSteps \cup FailSteps PROVE FALSE
      BY <3>1, <3>3 DEF ChangeSteps, DecodeSteps, FailSteps
    <3>4. comp.todo \in Seq(EnableSteps)
      BY <3>2, <3>3
    <3>5. Tail(comp.todo) \in Seq(EnableSteps)
      BY <1>1, <3>4, HeadTailProperties
    <3> QED BY <1>3, <3>5, EnableOrdered
  <2> QED BY <2>1, <2>2
<1> QED BY <1>5, <1>6, <1>7 DEF Kinds

\* The queue of commands is empty, and the loop goes on.
LEMMA CommandDrained ==
  ASSUME PlayingClient, BufferInv, CompDrained PROVE InKept' /\ OutSide' /\ Kinds'
<1>0. comp \in CompType /\ Answers
  BY DEF BufferInv, ThreadInv, PlanInv, Kinds
<1>1. /\ comp'.todo = <<>> /\ comp.todo = <<>>
      /\ Undisturbed /\ UNCHANGED <<dec, sd, port, codec, cmdq, cli, out>>
  BY <1>0 DEF CompDrained, CompType
<1>2. Ordered' /\ ~Decodes' /\ ~Registering' /\ ~At("data")' /\ ~At("finish")
  BY <1>1, EmptyOrdered DEF Decodes, Registering, At
<1>3. InKept' /\ OutSide' /\ Phases' /\ Ending' /\ Working'
  BY <1>1, <1>2, StepKeeps
<1>4. Answers'
  BY <1>0, <1>1, AnswersSame
<1> QED BY <1>2, <1>3, <1>4 DEF Kinds


-----------------------------------------------------------------------------
(* A command is taken from the queue *)

\* A plan that does not end the output thread
Gentle(s) == \A op \in {"abortafter", "reset", "assert", "register", "no-buffer"} : ~Has(s, op)
LEMMA GentleOrdered ==
  ASSUME NEW s, comp'.todo = s, Gentle(s),
         Holds(s, <<"return", "out">>) => dec'.reconf,
         Has(s, "state") => dec'.state # "Executing",
         Has(s, "queues") => dec'.state = "Idle", Has(s, "create") => dec'.state = "Loaded"
  PROVE  Ordered'
<1>1. Follows(s) /\ First(s)
  BY DEF Gentle, Has, Follows, First
<1> QED BY <1>1 DEF Ordered, Gentle


\* A plan that ends the output thread first
Rare == {"abortafter", "assert", "register", "no-buffer", "queues", "create"}
Stopping(s) ==
  /\ 1 \in DOMAIN s /\ 2 \in DOMAIN s /\ s[1][1] = "join" /\ s[2][1] = "abortafter"
  /\ \A i \in DOMAIN s : i = 1 \/ i = 2 \/ s[i][1] \notin Rare

LEMMA StoppingConcat ==
  ASSUME NEW S, NEW a \in Seq(S), NEW b \in Seq(S), Stopping(a), \A i \in DOMAIN b : b[i][1] \notin Rare
  PROVE  Stopping(a \o b) /\ a \o b \in Seq(S)
<1>1. a \o b \in Seq(S)
  BY Concat
<1>2. \A i \in DOMAIN a : i \in DOMAIN (a \o b) /\ (a \o b)[i] = a[i]
  OBVIOUS
<1>3. \A i \in DOMAIN (a \o b) :
         (i \in DOMAIN a /\ (a \o b)[i] = a[i])
           \/ (i - Len(a) \in DOMAIN b /\ (a \o b)[i] = b[i - Len(a)])
  BY Concat
<1>4. PICK c : c = a \o b
  OBVIOUS
<1>5. /\ \A i \in DOMAIN a : i \in DOMAIN c /\ c[i] = a[i]
      /\ \A i \in DOMAIN c : (i \in DOMAIN a /\ c[i] = a[i]) \/ \E k \in DOMAIN b : c[i] = b[k]
  BY <1>2, <1>3, <1>4
<1>6. Stopping(c)
  BY <1>5 DEF Stopping
<1> QED BY <1>1, <1>4, <1>6

LEMMA StoppingOrdered ==
  ASSUME NEW s, comp'.todo = s, Stopping(s), Holds(s, <<"return", "in">>), Holds(s, <<"return", "out">>)
  PROVE  Ordered'
<1>1. Follows(s) /\ First(s)
  BY DEF Stopping, Follows, First, Rare
<1>2. Has(s, "join") /\ Has(s, "abortafter")
  BY DEF Stopping, Has
<1>3. ~Has(s, "assert") /\ ~Has(s, "queues") /\ ~Has(s, "create")
  BY DEF Stopping, Has, Rare
<1> QED BY <1>1, <1>2, <1>3 DEF Ordered

\* What a flush of all ports and the end of Executing begin with
LEMMA StopsFirst ==
  ASSUME NEW a, a = JoinAndAbort \o ReturnIn \o ReturnOut
  PROVE  /\ a \in Seq(ChangeSteps) /\ Stopping(a)
         /\ Holds(a, <<"return", "in">>) /\ Holds(a, <<"return", "out">>)
<1>1. PICK j, x, y : j = JoinAndAbort /\ x = ReturnIn /\ y = ReturnOut
  OBVIOUS
<1>2. /\ Stopping(j)
      /\ \A i \in DOMAIN x : x[i][1] \notin Rare
      /\ \A i \in DOMAIN y : y[i][1] \notin Rare
  <2>1. Stopping(j)
    BY <1>1 DEF JoinAndAbort, Stopping
  <2>2. \A i \in DOMAIN x : x[i][1] \notin Rare
    BY <1>1 DEF ReturnIn, Rare
  <2>3. \A i \in DOMAIN y : y[i][1] \notin Rare
    BY <1>1 DEF ReturnOut, Rare
  <2> QED BY <2>1, <2>2, <2>3
<1>3. Holds(x, <<"return", "in">>) /\ Holds(y, <<"return", "out">>)
  <2>1. Holds(x, <<"return", "in">>)
    BY <1>1 DEF ReturnIn, Holds
  <2>2. Holds(y, <<"return", "out">>)
    <3>1. 2 \in DOMAIN y /\ y[2] = <<"return", "out">>
      BY <1>1 DEF ReturnOut
    <3> QED BY <3>1 DEF Holds
  <2> QED BY <2>1, <2>2
<1>4. j \in Seq(ChangeSteps) /\ x \in Seq(ChangeSteps) /\ y \in Seq(ChangeSteps)
  BY <1>1, ChangeParts
<1>5. PICK z : z = j \o x
  OBVIOUS
<1>6. z \in Seq(ChangeSteps) /\ Stopping(z) /\ Holds(z, <<"return", "in">>)
  BY <1>2, <1>3, <1>4, <1>5, StoppingConcat, ConcatSteps
<1>7. a = z \o y
  BY <1>1, <1>5
<1> QED BY <1>2, <1>3, <1>4, <1>6, <1>7, StoppingConcat, ConcatSteps

\* and how they go on
LEMMA StopsOn ==
  ASSUME NEW a \in Seq(ChangeSteps), Stopping(a), Holds(a, <<"return", "in">>),
         Holds(a, <<"return", "out">>), NEW x \in ChangeSteps, x[1] \notin Rare
  PROVE  /\ a \o <<x>> \in Seq(ChangeSteps) /\ Stopping(a \o <<x>>)
         /\ Holds(a \o <<x>>, <<"return", "in">>) /\ Holds(a \o <<x>>, <<"return", "out">>)
<1>1. PICK b : b = <<x>>
  OBVIOUS
<1>2. b \in Seq(ChangeSteps) /\ \A i \in DOMAIN b : b[i][1] \notin Rare
  BY <1>1
<1> QED BY <1>1, <1>2, StoppingConcat, ConcatSteps


\* async_decoder_set_state
LEMMA StatePlanOrdered ==
  ASSUME NEW t \in States, t # "Pause", dec.state \in States, dec.state # "Pause", dec' = dec,
         comp'.todo = StatePlan(t)
  PROVE  Ordered'
<1> DEFINE st == dec.state
           x == <<"state", t>>
           a == <<<<"ready", Ports>>, <<"create", NULL>>>>
           b == JoinAndAbort \o ReturnIn \o ReturnOut
           r == <<"reset", "idle">>
           d == <<<<"queues", NULL>>, <<"dealloc", Ports>>, <<"destroy", NULL>>>>
           e == <<<<"execute", NULL>>>>
<1>1. \/ StatePlan(t) = <<>>
      \/ st = "Loaded" /\ StatePlan(t) = a \o <<x>>
      \/ st = "Executing" /\ StatePlan(t) = (b \o <<r>>) \o <<x>>
      \/ st = "Idle" /\ StatePlan(t) = d \o <<x>>
      \/ st = "Idle" /\ StatePlan(t) = e \o <<x>>
      \/ st # "Executing" /\ StatePlan(t) = <<x>>
      \/ StatePlan(t) = <<<<"invalid", NULL>>>>
      \/ StatePlan(t) = <<<<"reject", NULL>>>>
  BY DEF StatePlan
<1>2. /\ x \in ChangeSteps /\ r \in ChangeSteps /\ x[1] = "state" /\ r[1] = "reset"
      /\ x # <<"return", "out">>
  BY DEF ChangeSteps
<1>3. a \in Seq(ChangeSteps) /\ d \in Seq(ChangeSteps) /\ e \in Seq(ChangeSteps)
  <2>1. /\ <<"ready", Ports>> \in ChangeSteps /\ <<"create", NULL>> \in ChangeSteps
        /\ <<"queues", NULL>> \in ChangeSteps /\ <<"dealloc", Ports>> \in ChangeSteps
        /\ <<"destroy", NULL>> \in ChangeSteps /\ <<"execute", NULL>> \in ChangeSteps
    BY DEF ChangeSteps
  <2> QED BY <2>1
<1>4. /\ \A op : Has(a, op) => op = "ready" \/ op = "create"
      /\ \A op : Has(d, op) => op = "queues" \/ op = "dealloc" \/ op = "destroy"
      /\ \A op : Has(e, op) => op = "execute"
  <2>1. \A op : Has(a, op) => op = "ready" \/ op = "create"
    BY DEF Has
  <2>2. \A op : Has(d, op) => op = "queues" \/ op = "dealloc" \/ op = "destroy"
    BY DEF Has
  <2>3. \A op : Has(e, op) => op = "execute"
    BY DEF Has
  <2> QED BY <2>1, <2>2, <2>3
<1>5. ~Holds(a, <<"return", "out">>) /\ ~Holds(d, <<"return", "out">>) /\ ~Holds(e, <<"return", "out">>)
  BY DEF Holds
<1> HIDE DEF st, x, a, b, r, d, e
<1>6. <<x>> \in Seq(ChangeSteps) /\ (\A op : Has(<<x>>, op) => op = "state") /\ ~Holds(<<x>>, <<"return", "out">>)
  BY <1>2 DEF Has, Holds
<1>7. CASE StatePlan(t) \in {<<>>, <<<<"invalid", NULL>>>>}
  BY <1>7, ShortOrdered
<1>8. CASE StatePlan(t) = <<<<"reject", NULL>>>>
  <2>1. PICK s : s = <<<<"reject", NULL>>>>
    OBVIOUS
  <2>2. (\A op : Has(s, op) => op = "reject") /\ ~Holds(s, <<"return", "out">>)
    BY <2>1 DEF Has, Holds
  <2>3. comp'.todo = s
    BY <1>8, <2>1
  <2>4. Gentle(s) /\ ~Has(s, "state") /\ ~Has(s, "queues") /\ ~Has(s, "create")
    BY <2>2 DEF Gentle
  <2> QED BY <2>2, <2>3, <2>4, GentleOrdered
<1>9. CASE st # "Executing" /\ StatePlan(t) = <<x>>
  <2>1. Gentle(<<x>>) /\ ~Has(<<x>>, "queues") /\ ~Has(<<x>>, "create")
    BY <1>6 DEF Gentle
  <2> QED BY <1>6, <1>9, <2>1, GentleOrdered DEF st
<1>10. CASE st = "Loaded" /\ StatePlan(t) = a \o <<x>>
  <2>1. PICK s : s = a \o <<x>>
    OBVIOUS
  <2>2. /\ \A op : Has(s, op) <=> Has(a, op) \/ Has(<<x>>, op)
        /\ ~Holds(s, <<"return", "out">>)
    <3>1. PICK y, q : y = <<x>> /\ q = <<"return", "out">>
      OBVIOUS
    <3>2. y \in Seq(ChangeSteps) /\ ~Holds(y, q) /\ ~Holds(a, q) /\ s = a \o y
      BY <1>5, <1>6, <2>1, <3>1
    <3>3. (\A op : Has(s, op) <=> Has(a, op) \/ Has(y, op)) /\ ~Holds(s, q)
      BY <1>3, <3>2, ConcatSteps
    <3> QED BY <3>1, <3>3
  <2>3. Gentle(s) /\ ~Has(s, "queues")
    BY <1>4, <1>6, <2>2 DEF Gentle
  <2>4. comp'.todo = s
    BY <1>10, <2>1
  <2> QED BY <1>10, <2>2, <2>3, <2>4, GentleOrdered DEF st
<1>11. CASE st = "Idle" /\ StatePlan(t) = d \o <<x>>
  <2>1. PICK s : s = d \o <<x>>
    OBVIOUS
  <2>2. /\ \A op : Has(s, op) <=> Has(d, op) \/ Has(<<x>>, op)
        /\ ~Holds(s, <<"return", "out">>)
    <3>1. PICK y, q : y = <<x>> /\ q = <<"return", "out">>
      OBVIOUS
    <3>2. y \in Seq(ChangeSteps) /\ ~Holds(y, q) /\ ~Holds(d, q) /\ s = d \o y
      BY <1>5, <1>6, <2>1, <3>1
    <3>3. (\A op : Has(s, op) <=> Has(d, op) \/ Has(y, op)) /\ ~Holds(s, q)
      BY <1>3, <3>2, ConcatSteps
    <3> QED BY <3>1, <3>3
  <2>3. Gentle(s) /\ ~Has(s, "create")
    BY <1>4, <1>6, <2>2 DEF Gentle
  <2>4. comp'.todo = s
    BY <1>11, <2>1
  <2> QED BY <1>11, <2>2, <2>3, <2>4, GentleOrdered DEF st
<1>12. CASE st = "Idle" /\ StatePlan(t) = e \o <<x>>
  <2>1. PICK s : s = e \o <<x>>
    OBVIOUS
  <2>2. /\ \A op : Has(s, op) <=> Has(e, op) \/ Has(<<x>>, op)
        /\ ~Holds(s, <<"return", "out">>)
    <3>1. PICK y, q : y = <<x>> /\ q = <<"return", "out">>
      OBVIOUS
    <3>2. y \in Seq(ChangeSteps) /\ ~Holds(y, q) /\ ~Holds(e, q) /\ s = e \o y
      BY <1>5, <1>6, <2>1, <3>1
    <3>3. (\A op : Has(s, op) <=> Has(e, op) \/ Has(y, op)) /\ ~Holds(s, q)
      BY <1>3, <3>2, ConcatSteps
    <3> QED BY <3>1, <3>3
  <2>3. Gentle(s) /\ ~Has(s, "queues") /\ ~Has(s, "create")
    BY <1>4, <1>6, <2>2 DEF Gentle
  <2>4. comp'.todo = s
    BY <1>12, <2>1
  <2> QED BY <1>12, <2>2, <2>3, <2>4, GentleOrdered DEF st
<1>13. CASE StatePlan(t) = (b \o <<r>>) \o <<x>>
  <2>1. /\ b \in Seq(ChangeSteps) /\ Stopping(b)
        /\ Holds(b, <<"return", "in">>) /\ Holds(b, <<"return", "out">>)
    BY StopsFirst DEF b
  <2>2. r[1] \notin Rare /\ x[1] \notin Rare
    BY <1>2 DEF Rare
  <2>3. PICK s : s = b \o <<r>>
    OBVIOUS
  <2>4. /\ s \in Seq(ChangeSteps) /\ Stopping(s)
        /\ Holds(s, <<"return", "in">>) /\ Holds(s, <<"return", "out">>)
    BY <1>2, <2>1, <2>2, <2>3, StopsOn
  <2>5. Stopping(s \o <<x>>) /\ Holds(s \o <<x>>, <<"return", "in">>) /\ Holds(s \o <<x>>, <<"return", "out">>)
    BY <1>2, <2>2, <2>4, StopsOn
  <2>6. comp'.todo = s \o <<x>>
    BY <1>13, <2>3
  <2> QED BY <2>5, <2>6, StoppingOrdered
<1> QED BY <1>1, <1>7, <1>8, <1>9, <1>10, <1>11, <1>12, <1>13

\* async_decoder_flush_port with OMX_ALL
LEMMA FlushPlanOrdered == ASSUME comp'.todo = FlushPlan("all") PROVE Ordered'
<1>1. PICK a, x : a = JoinAndAbort \o ReturnIn \o ReturnOut /\ x = <<"reset", "flush">>
  OBVIOUS
<1>2. x \in ChangeSteps /\ x[1] \notin Rare
  BY <1>1 DEF ChangeSteps, Rare
<1>3. /\ a \in Seq(ChangeSteps) /\ Stopping(a)
      /\ Holds(a, <<"return", "in">>) /\ Holds(a, <<"return", "out">>)
  BY <1>1, StopsFirst
<1>4. comp'.todo = a \o <<x>>
  BY <1>1 DEF FlushPlan
<1> QED BY <1>2, <1>3, <1>4, StopsOn, StoppingOrdered

\* async_decoder_disable_port, when the port is to be reconfigured
LEMMA DisablePlanOrdered ==
  ASSUME NEW t \in Targets, comp'.todo = DisablePlan(t), dec'.reconf PROVE Ordered'
<1> DEFINE x == IF "in" \in PortsOf(t) THEN ReturnIn ELSE <<>>
           y == IF "out" \in PortsOf(t) THEN ReturnOut ELSE <<>>
           z == <<<<"dealloc", PortsOf(t)>>, <<"disabled", t>>>>
<1>1. x \in Seq(ChangeSteps) /\ y \in Seq(ChangeSteps)
  BY ChangeParts
<1>2. z \in Seq(ChangeSteps)
  <2>1. <<"dealloc", PortsOf(t)>> \in ChangeSteps /\ <<"disabled", t>> \in ChangeSteps
    BY DEF ChangeSteps, PortsOf, Targets, Ports
  <2> QED BY <2>1
<1>3. DisablePlan(t) = (x \o y) \o z
  BY DEF DisablePlan
<1>4. /\ \A op : Has(x, op) => op = "return"
      /\ \A op : Has(y, op) => op = "spin" \/ op = "return"
      /\ \A op : Has(z, op) => op = "dealloc" \/ op = "disabled"
  <2>1. \A op : Has(x, op) => op = "return"
    BY DEF Has, ReturnIn
  <2>2. \A op : Has(y, op) => op = "spin" \/ op = "return"
    BY DEF Has, ReturnOut
  <2>3. \A op : Has(z, op) => op = "dealloc" \/ op = "disabled"
    BY DEF Has
  <2> QED BY <2>1, <2>2, <2>3
<1> HIDE DEF x, y, z
<1>5. PICK u : u = x \o y
  OBVIOUS
<1>6. u \in Seq(ChangeSteps) /\ \A op : Has(u, op) => op = "spin" \/ op = "return"
  BY <1>1, <1>4, <1>5, ConcatSteps
<1>7. \A op : Has(u \o z, op) => op \in {"spin", "return", "dealloc", "disabled"}
  BY <1>2, <1>4, <1>6, ConcatSteps
<1>8. comp'.todo = u \o z
  BY <1>3, <1>5
<1>9. /\ Gentle(u \o z)
      /\ ~Has(u \o z, "state") /\ ~Has(u \o z, "queues") /\ ~Has(u \o z, "create")
  BY <1>7 DEF Gentle
<1> QED BY <1>8, <1>9, GentleOrdered


\* async_decoder_enable_port
LEMMA EnablePlanType == ASSUME NEW t \in Targets PROVE EnablePlan(t) \in Seq(EnableSteps)
<1> DEFINE w(p) == IF dec.state = "Loaded" THEN <<>> ELSE <<<<"populated", {p}>>>>
           one(p) == w(p) \o <<<<"enabled", p>>>>
           x == IF "in" \in PortsOf(t) THEN one("in") ELSE <<>>
           y == IF "out" \in PortsOf(t) THEN one("out") ELSE <<>>
<1>1. ASSUME NEW p \in Ports PROVE one(p) \in Seq(EnableSteps)
  <2>1. <<"populated", {p}>> \in EnableSteps /\ <<"enabled", p>> \in EnableSteps
    BY DEF EnableSteps
  <2>2. w(p) \in Seq(EnableSteps) /\ <<<<"enabled", p>>>> \in Seq(EnableSteps)
    <3>1. <<>> \in Seq(EnableSteps) /\ \A u \in EnableSteps : <<u>> \in Seq(EnableSteps)
      OBVIOUS
    <3> QED BY <2>1, <3>1, Zenon
  <2>3. PICK v, z : v = w(p) /\ z = <<<<"enabled", p>>>>
    OBVIOUS
  <2>4. v \in Seq(EnableSteps) /\ z \in Seq(EnableSteps) /\ one(p) = v \o z
    BY <2>2, <2>3
  <2> HIDE DEF one, w
  <2>5. v \o z \in Seq(EnableSteps)
    BY <2>4
  <2> QED BY <2>4, <2>5
<1>2. x \in Seq(EnableSteps) /\ y \in Seq(EnableSteps)
  <2> HIDE DEF one
  <2> QED BY <1>1 DEF Ports
<1>3. EnablePlan(t) = x \o y
  BY DEF EnablePlan
<1> HIDE DEF x, y
<1> QED BY <1>2, <1>3

\* A command is taken from the queue.
LEMMA CommandDispatch ==
  ASSUME PlayingClient, BufferInv, CompDispatch PROVE InKept' /\ OutSide' /\ Kinds'
<1>0. /\ Alone /\ Asked /\ Answers /\ dec \in DecType /\ comp \in CompType
      /\ cmdq \in Seq(Commands)
  BY DEF BufferInv, ThreadInv, PlanInv, Kinds
<1>1. /\ comp.todo = <<>> /\ cmdq # <<>> /\ comp.pc = "loop" /\ dec.run /\ Undisturbed
      /\ cmdq' = Tail(cmdq) /\ comp'.todo = Plan(Head(cmdq))
      /\ UNCHANGED <<dec, sd, port, codec, cli, out>>
  BY <1>0 DEF CompDispatch, Alone, CompType
<1>2. PICK c \in Commands : c = Head(cmdq) /\ c \in Range(cmdq) /\ cmdq' = <<>> /\ cli.cmd = NULL
  <2>1. Len(cmdq) = 1 /\ cli.cmd = NULL
    BY <1>0, <1>1 DEF Alone
  <2>2. Head(cmdq) \in Commands /\ Tail(cmdq) = <<>> /\ cmdq[1] = Head(cmdq) /\ 1 \in DOMAIN cmdq
    BY <1>0, <1>1, <2>1
  <2>3. Head(cmdq) \in Range(cmdq)
    BY <2>2 DEF Range
  <2> QED BY <1>1, <2>1, <2>2, <2>3
<1>3. /\ <<dec.state, c>> \in Legal /\ dec.state # "Pause" /\ dec.state \in States
      /\ c[1] = "PortDisable" => dec.reconf
  BY <1>0, <1>1, <1>2 DEF Asked, Answers, DecType
<1>4. c # <<"StateSet", "Pause">> /\ (c[1] = "Flush" => c[2] = "all")
  <2>1. PICK st : st = dec.state
    OBVIOUS
  <2>2. <<st, c>> \in Legal
    BY <1>3, <2>1
  <2>3. <<st, c>>[1] = st /\ <<st, c>>[2] = c
    OBVIOUS
  <2>4. PICK x : x \in Legal /\ x[2] = c
    BY <2>2, <2>3, Zenon
  <2>5. x[2] # <<"StateSet", "Pause">> /\ (x[2][1] = "Flush" => x[2][2] = "all")
    BY <2>4, Zenon DEF PlayingClient, PlainClient
  <2> QED BY <2>4, <2>5
<1>5. comp'.todo = Plan(c)
  BY <1>1, <1>2
<1>6. ~Decodes' /\ ~Registering' /\ ~At("data")' /\ ~At("finish")
  <2>1. PICK s : s = Plan(c)
    OBVIOUS
  <2>2. s \in Seq(ChangeSteps) \cup Seq(EnableSteps)
    BY <2>1, PlanType
  <2>3. s # <<>> => Head(s) \in ChangeSteps \cup EnableSteps
    BY <2>2, HeadTailProperties
  <2>4. \A y \in ChangeSteps \cup EnableSteps : y[1] \notin DecodeOps
    BY DEF ChangeSteps, EnableSteps, DecodeOps
  <2>5. s # <<>> => Head(s)[1] \notin DecodeOps
    BY <2>3, <2>4
  <2>6. comp'.todo = s
    BY <1>5, <2>1
  <2> QED BY <1>1, <2>5, <2>6 DEF Decodes, Registering, At, DecodeOps
<1>7. InKept' /\ OutSide' /\ Phases' /\ Ending' /\ Working'
  BY <1>1, <1>6, StepKeeps
<1>8. Answers'
  BY <1>1, <1>2, NoneAsked
<1>9. CASE c[1] = "StateSet"
  <2>1. PICK t \in States : c = <<"StateSet", t>> /\ t # "Pause" /\ Plan(c) = StatePlan(t)
    BY <1>4, <1>9 DEF Commands, Plan
  <2>2. comp'.todo = StatePlan(t)
    BY <1>5, <2>1
  <2>3. Ordered'
    BY <1>1, <1>3, <2>1, <2>2, StatePlanOrdered
  <2> QED BY <1>7, <1>8, <2>3 DEF Kinds
<1>10. CASE c[1] = "Flush"
  <2>1. Plan(c) = FlushPlan("all")
    BY <1>4, <1>10 DEF Commands, Plan
  <2>2. Ordered'
    BY <1>5, <2>1, FlushPlanOrdered
  <2> QED BY <1>7, <1>8, <2>2 DEF Kinds
<1>11. CASE c[1] = "PortDisable"
  <2>1. PICK t \in Targets : Plan(c) = DisablePlan(t)
    BY <1>11 DEF Commands, Plan
  <2>2. comp'.todo = DisablePlan(t) /\ dec'.reconf
    BY <1>1, <1>3, <1>5, <1>11, <2>1
  <2>3. Ordered'
    BY <2>2, DisablePlanOrdered
  <2> QED BY <1>7, <1>8, <2>3 DEF Kinds
<1>12. CASE c[1] = "PortEnable"
  <2>1. PICK t \in Targets : Plan(c) = EnablePlan(t)
    BY <1>12 DEF Commands, Plan
  <2>2. comp'.todo \in Seq(EnableSteps)
    BY <1>5, <2>1, EnablePlanType
  <2>3. Ordered'
    BY <2>2, EnableOrdered
  <2> QED BY <1>7, <1>8, <2>3 DEF Kinds
<1> QED BY <1>9, <1>10, <1>11, <1>12 DEF Commands

\* The command handlers
LEMMA BufferCommand ==
  ASSUME PlayingClient, BufferInv, CommandNext PROVE InKept' /\ OutSide' /\ Kinds'
<1>1. CASE CompDispatch \/ CompDrained
  BY <1>1, CommandDispatch, CommandDrained
<1>2. CASE CompWaitReady \/ CompWaitEnds \/ CompWaitFails \/ CompCreate
  BY <1>2, CommandWaits, CommandCreates
<1>3. CASE CompJoin \/ CompAbortAfter \/ CompSpin \/ CompReturn \/ CompReset
  BY <1>3, CommandPasses, CommandAborts, CommandReturns, CommandResets
<1>4. CASE CompExecute \/ CompQueues \/ CompDealloc \/ CompDestroy
  BY <1>4, CommandTurns, CommandPasses
<1>5. CASE CompState \/ CompDisabled \/ CompEnabled
  BY <1>5, CommandState, CommandPorts
<1> QED BY <1>1, <1>2, <1>3, <1>4, <1>5 DEF CommandNext

-----------------------------------------------------------------------------
(* The theorems *)

\* The invariant holds in every state of a playing client's decoder.
LEMMA BufferInvariant == ASSUME PlayingClient PROVE Spec => []BufferInv
<1>0. PlainClient
  BY DEF PlayingClient
<1>1. ASSUME BufferInv, [Next]_vars PROVE BufferInv'
  <2>1. ThreadInv
    BY <1>1 DEF BufferInv
  <2>2. CASE Next
    <3>1. PlanInv'
      BY <2>1, <2>2, PlanClient, PlanCommand, PlanDecode, PlanOutput DEF Next, ThreadInv
    <3>2. Alone' /\ Asked' /\ Planned' /\ Output'
      BY <1>0, <2>1, <2>2, ThreadClient, ThreadCommand, ThreadDecode, ThreadOutput DEF Next
    <3>3. InKept' /\ OutSide' /\ Kinds'
      BY <1>1, <2>2, BufferClient, BufferCommand, BufferDecode, BufferOutput DEF Next
    <3> QED BY <3>1, <3>2, <3>3 DEF BufferInv, ThreadInv
  <2>3. CASE UNCHANGED vars
    <3>1. PlanInv'
      BY <2>1, <2>3 DEF ThreadInv, PlanInv, EventInv, PortsGood, ClientGood, OutputGood,
                        ClientSends, OutputHolds, vars
    <3>2. Planned' /\ Output'
      BY <2>1, <2>3, QuietKeeps DEF ThreadInv, vars
    <3>3. Alone' /\ Asked'
      BY <2>1, <2>3 DEF ThreadInv, Alone, Asked, Stops, vars
    <3>4. UNCHANGED <<dec, sd, port, codec, cmdq, cli, comp, out>>
      BY <2>3 DEF vars
    <3>5. InKept' /\ OutKept'
      BY <1>1, <3>4 DEF BufferInv, OutSide, InKept, OutKept, InQ, OutQ, Given, Pushing
    <3>6. Placed' /\ CodecKept'
      BY <1>1, <3>4 DEF BufferInv, OutSide, Placed, CodecKept, HasFrame, Ready, OutQ, Given, Pushing
    <3>7. Phases' /\ Ending' /\ Working'
      BY <1>1, <3>4 DEF BufferInv, Kinds, Phases, Ending, Working, Blank, Filled, Registering, At,
                        Arg, HasFrame, Decodes, InQ, OutQ
    <3>8. Ordered' /\ Answers'
      BY <1>1, <3>4 DEF BufferInv, Kinds, Ordered, Answers, Cleared, Blank, InQ, OutQ
    <3> QED BY <3>1, <3>2, <3>3, <3>5, <3>6, <3>7, <3>8 DEF BufferInv, ThreadInv, OutSide, Kinds
  <2> QED BY <1>1, <2>2, <2>3
<1> QED BY <1>1, BufferInit, PTL DEF Spec

\* A buffer that the client holds is not queued in the component, nor kept as
\* prevBuffer, nor queued twice: EmptyThisBuffer and FillThisBuffer take it from
\* the client, and the callbacks of the three threads give it back once.
THEOREM OneOwns == ASSUME PlayingClient PROVE Spec => []OneOwner
<1>1. BufferInv => OneOwner
  BY OwnsOne
<1> QED BY <1>1, BufferInvariant, PTL

\* Every allocated buffer is with the client, queued, or on its way: neither
\* async_decoder_return_buffers, which clears a whole queue, nor pop_buffer_at, which
\* removes a place found earlier without the lock, loses one.
THEOREM NoneIsLost == ASSUME PlayingClient PROVE Spec => []NoneLost
<1>1. BufferInv => NoneLost
  BY LosesNone
<1> QED BY <1>1, BufferInvariant, PTL

\* The codec decodes only into buffers that are queued on the out port or that
\* FillThisBuffer is about to queue: what setframebuffer and pictureconsumed have
\* told it stays true until it has output the picture.
THEOREM CodecWritesOwn == ASSUME PlayingClient PROVE Spec => []CodecWritesQueued
<1>1. BufferInv => CodecWritesQueued
  BY WritesQueued
<1> QED BY <1>1, BufferInvariant, PTL

\* When the component is in OMX_StateIdle the client holds every allocated buffer:
\* transition_to_idle_from_executing has returned both queues and prevBuffer, and
\* nothing is queued afterwards.
THEOREM IdleReturns == ASSUME PlayingClient PROVE Spec => []IdleHoldsNothing
<1>1. BufferInv => IdleHoldsNothing
  BY IdleHasNone
<1> QED BY <1>1, BufferInvariant, PTL

\* No DBGT_ASSERT of the modelled paths fails: the output thread finds the frame of
\* the codec in the queue of the out port, the place it pops is there, and nothing is
\* queued in transition_to_loaded_from_idle.
THEOREM NoAssertion == ASSUME PlayingClient PROVE Spec => []NoAssertFails
<1>1. BufferInv => NoAssertFails
  BY NoneFails
<1> QED BY <1>1, BufferInvariant, PTL

\* When async_decoder_return_buffers returns the buffers of the out port, the output
\* thread is not between taking a frame from the codec and popping its buffer.
THEOREM ReturnsNothingInUse == ASSUME PlayingClient PROVE Spec => []ReturnAlone
<1>1. BufferInv => ReturnAlone
  BY ReturnsAlone DEF ReturnAlone, HasFrame
<1> QED BY <1>1, BufferInvariant, PTL
=============================================================================
