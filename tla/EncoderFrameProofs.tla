------------------------- MODULE EncoderFrameProofs -------------------------
(***************************************************************************)
(* Proofs about the frames of an encoder's stream: an input buffer is      *)
(* given back only when its frame has been encoded, and the events of the  *)
(* ports say whether buffers are queued.                                   *)
(*                                                                         *)
(* The codec takes frames out of order and the component gives back, by    *)
(* number, those that are OMX_MAX_GOP_SIZE behind the picture the codec    *)
(* wants next.  The invariant relates the numbers in the queue, the        *)
(* pictures left in the codec's group and the frames encoded so far.       *)
(***************************************************************************)
EXTENDS EncoderProofs

\* The buffers queued and not being given back, and the frames in them
Queued == From(port["in"].queue, Lo("in"))
Kept(x) == \E b \in Queued : frame[b].id = x

\* The buffers hold different frames of the stream; a frame that ends it is known.
Numbered ==
  /\ enc.inId = hist.n
  /\ \A b \in Queued : /\ frame[b].id \in 0 .. hist.n - 1
                       /\ frame[b].eos \/ frame[b].full
                       /\ frame[b].eos => hist.last # NoId
  /\ \A a, b \in Queued : frame[a].id = frame[b].id => a = b
  /\ enc.eos => hist.last # NoId

\* Frames that are not encoded are queued, and so are the last MaxGop up to the
\* end of the codec's group; the first frame is the head until it is encoded.
NothingLost ==
  /\ hist.encoded \subseteq 0 .. hist.n - 1
  /\ \A x \in 0 .. hist.n - 1 : x \in hist.encoded \/ Kept(x)
  /\ \A x \in 1 .. hist.n - 1 : x > codec.end - MaxGop => Kept(x)
  /\ enc.next = NoId /\ hist.n > 0 =>
       port["in"].queue # <<>> /\ frame[Head(port["in"].queue)].id = 0

\* The pictures of the groups so far are encoded but for those left in the last
\* one.  Before the first picture there is no group.
Groups ==
  /\ \A x \in 0 .. codec.end : x = codec.cnt \/ x \in codec.left \/ x \in hist.encoded
  /\ enc.next = NoId => codec.cnt = 0 /\ codec.end = 0 /\ codec.left = {}
  /\ enc.next # NoId =>
       /\ enc.next = codec.cnt /\ enc.started
       /\ \E g \in GopSizes :
            g <= codec.end /\ codec.left \cup {codec.cnt} \subseteq codec.end - g + 1 .. codec.end

\* What the component thread is about to do with a frame
Doing ==
  /\ comp.pc \in {"startpop", "pick", "code"} => enc.started
  /\ comp.pc = "code" => enc.curr = enc.next /\ frame[comp.buf].id = codec.cnt
  /\ comp.pc = "coded" => /\ enc.next # NoId \/ frame[comp.buf].eos
                          /\ enc.curr = NoId => frame[comp.buf].id = 0
                          /\ frame[comp.buf].eos => hist.last # NoId
  /\ comp.pc = "popfirst" => enc.next # NoId
  /\ comp.pc = "giveback" => enc.next # NoId /\ comp.pic \in 1 .. enc.next - MaxGop
  /\ comp.pc = "end" => hist.last # NoId
  /\ comp.pc \notin {"endpop", "endid"}

\* A stream that has begun and is not interrupted sees only pause and resume.
Harmless == {"state", "reject", "done"}
Uninterrupted ==
  /\ hist.n > 0 => /\ cli.cmd = NoCmd \/ cli.cmd \in {"StateSet"} \X {"Executing", "Pause"}
                   /\ \A i \in 1 .. Len(comp.todo) : comp.todo[i][1] \in Harmless
  /\ comp.todo # <<>> => Ends(comp.todo)

Live == hist.whole /\ ~hist.done
FrameInv ==
  /\ BufInv
  /\ hist.whole /\ hist.done => hist.last # NoId
  /\ Live => Numbered /\ NothingLost /\ Groups /\ Doing /\ Uninterrupted

\* After the end of the stream no frame is looked at any more.
Finished ==
  hist.whole /\ hist.done =>
    /\ comp.pc \in {"endpop", "endid", "cmd", "loop", "assert"}
    /\ comp.pc \in {"endpop", "endid"} \/ (comp.sig = FALSE /\ (Empty("in") \/ Returns(comp.todo, "in")))

StepInv == FrameInv /\ EventsInStep /\ Finished
-----------------------------------------------------------------------------
(* What is known of a state *)

\* The in port and the threads are well typed; while no callback of the first
\* frame is being made, the whole queue counts.
LEMMA InTypes ==
  ASSUME BufInv
  PROVE  /\ enc \in EncType /\ codec \in CodecType /\ hist \in HistType /\ DOMAIN port = Ports
         /\ frame \in [1 .. NIn -> FrameType] /\ cli \in ClientType /\ comp \in CompType
         /\ comp.todo \in Seq(Steps) /\ "in" \in Ports /\ "out" \in Ports
         /\ port["in"].queue \in Seq(1 .. NIn) /\ Queued \subseteq 1 .. NIn
         /\ Shape("in", port["in"]) /\ Own(port["in"], cli.held["in"], Lo("in")) /\ Lo("in") \in {1, 2}
         /\ Once(port["in"].queue, Lo("in")) /\ Queued \cap cli.held["in"] = {}
         /\ cli.held["in"] \subseteq 1 .. NIn
         /\ comp.pc # "popfirst" => Lo("in") = 1 /\ Queued = From(port["in"].queue, 1)
         /\ comp.pc = "popfirst" => Lo("in") = 2 /\ Queued = From(port["in"].queue, 2)
<1>1. /\ enc \in EncType /\ codec \in CodecType /\ hist \in HistType /\ DOMAIN port = Ports
      /\ frame \in [1 .. NIn -> FrameType] /\ cli \in ClientType /\ comp \in CompType
      /\ comp.todo \in Seq(Steps) /\ "in" \in Ports /\ "out" \in Ports
  BY DEF BufInv, Types, CompType, Ports
<1>2. Shape("in", port["in"]) /\ Own(port["in"], cli.held["in"], Lo("in")) /\ PortInv("in")
  BY <1>1 DEF BufInv, PortInv
<1>3. /\ Lo("in") \in {1, 2}
      /\ comp.pc # "popfirst" => Lo("in") = 1
      /\ comp.pc = "popfirst" => Lo("in") = 2
  BY DEF Lo, Giving
<1>4. Count("in") = NIn
  BY DEF Count
<1>5. port["in"].queue \in Seq(1 .. NIn) /\ cli.held["in"] \subseteq 1 .. NIn
  BY <1>1, <1>2, <1>4, BufferTypes
<1>6. Queued \subseteq 1 .. NIn
  <2>1. From(port["in"].queue, 1) \subseteq 1 .. NIn /\ From(port["in"].queue, 2) \subseteq 1 .. NIn
    BY <1>5, FromType
  <2> QED BY <1>3, <2>1 DEF Queued
<1>7. Once(port["in"].queue, Lo("in")) /\ Queued \cap cli.held["in"] = {}
  BY <1>2 DEF Own, Queued
<1>8. /\ comp.pc # "popfirst" => Queued = From(port["in"].queue, 1)
      /\ comp.pc = "popfirst" => Queued = From(port["in"].queue, 2)
  BY <1>3 DEF Queued
<1> QED BY <1>1, <1>2, <1>3, <1>5, <1>6, <1>7, <1>8

\* Numbers
LEMMA FrameNumbers ==
  ASSUME BufInv
  PROVE  /\ hist.n \in Nat /\ hist.last \in Nat \cup {-1} /\ NoId = -1 /\ NoId \notin Nat
         /\ enc.inId \in Nat /\ enc.next \in Nat \cup {-1} /\ enc.curr \in Nat \cup {-1}
         /\ codec.cnt \in Nat /\ codec.end \in Nat /\ codec.left \subseteq Nat
         /\ MaxGop \in Nat \ {0} /\ GopSizes \subseteq 1 .. MaxGop /\ GopSizes # {}
         /\ \A b \in 1 .. NIn : frame[b] \in FrameType /\ frame[b].id \in Nat \cup {-1}
<1>1. enc \in EncType /\ codec \in CodecType /\ hist \in HistType /\ frame \in [1 .. NIn -> FrameType]
  BY InTypes
<1>2. NoId = -1 /\ FrameId = Nat \cup {-1}
  BY DEF NoId, FrameId
<1>3. \A b \in 1 .. NIn : frame[b] \in FrameType
  BY <1>1
<1> QED BY <1>1, <1>2, <1>3, EncoderConstantsOK DEF EncoderConstantsOK, EncType, CodecType, HistType, FrameType

\* Before its first frame a stream has no frames and no groups.
LEMMA NoFramesYet ==
  ASSUME BufInv, Numbered, NothingLost, Groups, hist.n = 0
  PROVE  Queued = {} /\ enc.next = NoId /\ hist.encoded = {}
<1>1. Queued = {} /\ hist.encoded = {}
  <2>1. 0 .. hist.n - 1 = {}
    OBVIOUS
  <2> QED BY <2>1 DEF Numbered, NothingLost
<1>2. ASSUME enc.next # NoId PROVE FALSE
  <2>1. PICK g \in GopSizes : codec.left \cup {codec.cnt} \subseteq codec.end - g + 1 .. codec.end /\ g <= codec.end
    BY <1>2 DEF Groups
  <2>2. 0 \in 0 .. codec.end /\ 0 \notin codec.left \cup {codec.cnt}
    BY <2>1, FrameNumbers
  <2> QED BY <1>1, <2>2 DEF Groups
<1> QED BY <1>1, <1>2

-----------------------------------------------------------------------------
(* Steps that leave the frames alone *)

Data == Numbered /\ NothingLost /\ Groups

Unmoved ==
  /\ Queued' = Queued /\ frame' = frame /\ hist' = hist
  /\ enc.next = NoId => port'["in"].queue = port["in"].queue
  /\ enc'.inId = enc.inId /\ enc'.next = enc.next /\ enc'.eos = enc.eos
  /\ enc.started => enc'.started
  /\ codec'.cnt = codec.cnt /\ codec'.end = codec.end /\ codec'.left = codec.left

\* They keep what is known of the frames.
LEMMA UnmovedData == ASSUME Data, Unmoved PROVE Data'
<1>1. Numbered'
  BY DEF Data, Numbered, Unmoved
<1>2. NothingLost'
  BY DEF Data, NothingLost, Kept, Unmoved
<1>3. Groups'
  BY DEF Data, Groups, Unmoved
<1> QED BY <1>1, <1>2, <1>3 DEF Data

\* The history of a stream that stays whole
LEMMA HistStep ==
  ASSUME Types, "again" \notin Allow, "refill" \notin Allow, Next, hist'.whole
  PROVE  /\ hist.whole /\ (hist.done => hist'.done)
         /\ hist.last # NoId => hist'.last # NoId
         /\ hist'.done => hist.done \/ comp.pc = "end"
<1>1. hist \in HistType
  BY DEF Types
<1>2. NotWhole.whole = FALSE
  BY DEF NotWhole, NewStream
<1>3. ASSUME hist' = hist PROVE hist.whole /\ hist'.done = hist.done /\ hist'.last = hist.last
  BY <1>3
<1>4. ASSUME Invalid \/ NotEncoded PROVE hist' = NotWhole
  BY <1>4 DEF Invalid, NotEncoded
<1>5. CASE ClientNext
  <2>1. CASE \E c \in Commands : SendCommand(c)
    BY <1>2, <1>3, <2>1 DEF SendCommand
  <2>2. CASE SendQueue \/ FillThisBuffer \/ \E p \in Ports : UseBuffer(p) \/ FreeBuffer(p)
    BY <1>3, <2>2 DEF SendQueue, FillThisBuffer, UseBuffer, FreeBuffer
  <2>3. CASE \E eos, full \in BOOLEAN : EmptyThisBuffer(eos, full)
    <3>1. PICK eos \in BOOLEAN : /\ hist.last = NoId
                                 /\ hist' = [hist EXCEPT !.n = @ + 1, !.last = IF eos THEN hist.n + 1 - 1 ELSE NoId]
      BY <2>3 DEF EmptyThisBuffer, Send
    <3> QED BY <1>1, <3>1 DEF HistType
  <2> QED BY <1>5, <2>1, <2>2, <2>3 DEF ClientNext
<1>6. CASE CommandNext
  BY <1>2, <1>3, <1>4, <1>6, AllReturned
  DEF CommandNext, LoopWake, LoopFetch, LoopDrained, ReturnAll, WaitReady, WaitFreed, CreateCodec, CreateFails,
      AssertEmpty, DestroyCodec, StopStream, SetState, RejectState, SetInvalid, CommandDone
<1>7. CASE EncodeNext
  <2>1. CASE EncodeFrame
    BY <1>1, <2>1 DEF EncodeFrame, HistType
  <2>2. CASE EndStream
    BY <1>1, <2>2 DEF EndStream, HistType
  <2>3. CASE EncodeNext /\ ~EncodeFrame /\ ~EndStream
    BY <1>2, <1>3, <1>4, <2>3
    DEF EncodeNext, StreamRuns, StartStream, StartRefused, StartGivesUp, StartPop, PickFrame, NoFrame,
        DiscardFrame, EncodeGivesUp, EncodeRejects, EncodeFails, Coded, PopFirst, GiveBack, EndFails, EndGivesUp,
        EndPop, EndReset
  <2> QED BY <1>7, <2>1, <2>2, <2>3
<1> QED BY <1>5, <1>6, <1>7 DEF Next, CompNext

-----------------------------------------------------------------------------
(* The client *)

FramesGood == Data /\ Doing /\ Uninterrupted

\* Commands, allocations, releases and output buffers do not touch the frames.
LEMMA ClientMoves ==
  ASSUME BufInv, hist' = hist,
         \/ \E c \in Commands : SendCommand(c)
         \/ SendQueue \/ FillThisBuffer
         \/ \E p \in Ports : UseBuffer(p) \/ FreeBuffer(p)
  PROVE  Unmoved /\ comp' = comp /\ enc'.curr = enc.curr
<1>1. enc \in EncType /\ DOMAIN port = Ports /\ "in" \in Ports /\ "out" \in Ports
  BY InTypes
<1>2. frame' = frame /\ codec' = codec /\ comp' = comp
  BY DEF SendCommand, SendQueue, FillThisBuffer, UseBuffer, FreeBuffer
<1>3. enc' = enc \/ \E t : enc' = [enc EXCEPT !.trans = t]
  BY DEF SendCommand, SendFlags, SendQueue, FillThisBuffer, UseBuffer, FreeBuffer
<1>4. /\ enc'.inId = enc.inId /\ enc'.next = enc.next /\ enc'.eos = enc.eos /\ enc'.curr = enc.curr
      /\ enc'.started = enc.started
  BY <1>1, <1>3 DEF EncType
<1>5. port'["in"].queue = port["in"].queue
  <2>1. CASE SendQueue \/ FillThisBuffer
    BY <1>1, <2>1 DEF SendQueue, FillThisBuffer
  <2>2. CASE ~SendQueue /\ ~FillThisBuffer
    BY <1>1, <2>2, ClientQueues
  <2> QED BY <2>1, <2>2
<1>6. Queued' = Queued
  BY <1>2, <1>5 DEF Queued, Lo, Giving
<1> QED BY <1>2, <1>4, <1>5, <1>6 DEF Unmoved

\* They leave the frame that is being encoded alone, and a command that reaches a
\* stream with frames is a pause or a resume.
LEMMA ClientFrames ==
  ASSUME BufInv, FramesGood, Live, hist'.whole,
         \/ \E c \in Commands : SendCommand(c)
         \/ SendQueue \/ FillThisBuffer
         \/ \E p \in Ports : UseBuffer(p) \/ FreeBuffer(p)
  PROVE  FramesGood'
<1>1. hist' = hist /\ cli \in ClientType
  <2>1. NotWhole.whole = FALSE
    BY DEF NotWhole, NewStream
  <2> QED BY <2>1, InTypes DEF SendCommand, SendQueue, FillThisBuffer, UseBuffer, FreeBuffer
<1>2. Unmoved /\ comp' = comp /\ enc'.curr = enc.curr
  BY <1>1, ClientMoves
<1>3. Data'
  BY <1>2, UnmovedData DEF FramesGood
<1>4. Doing'
  BY <1>2 DEF FramesGood, Doing, Unmoved
<1>5. cli'.cmd = cli.cmd \/ \E c \in Commands : SendCommand(c) /\ cli'.cmd = c
  <2>1. ASSUME NEW c \in Commands, SendCommand(c) PROVE cli'.cmd = c
    BY <1>1, <2>1 DEF SendCommand, ClientType
  <2>2. ASSUME SendQueue PROVE cli'.cmd = cli.cmd
    BY <1>1, <2>2 DEF SendQueue, ClientType
  <2>3. ASSUME FillThisBuffer \/ \E p \in Ports : UseBuffer(p) \/ FreeBuffer(p) PROVE cli'.cmd = cli.cmd
    BY <2>3, InTypes, ClientSteps DEF Client, BufInv
  <2> QED BY <2>1, <2>2, <2>3
<1>6. ASSUME hist.n > 0, NEW c \in Commands, SendCommand(c) PROVE c \in {"StateSet"} \X {"Executing", "Pause"}
  <2>1. ~Interrupts(c)
    <3>1. NotWhole.whole = FALSE
      BY DEF NotWhole, NewStream
    <3> QED BY <1>6, <3>1 DEF SendCommand
  <2>2. c[1] = "StateSet" /\ c[2] \in {"Executing", "Pause"}
    BY <1>6, <2>1 DEF Interrupts
  <2> QED BY <2>2 DEF Commands
<1>7. Uninterrupted'
  BY <1>1, <1>2, <1>5, <1>6 DEF FramesGood, Uninterrupted
<1> QED BY <1>3, <1>4, <1>7 DEF FramesGood

\* What a frame that is handed over changes
LEMMA HandOver ==
  ASSUME BufInv, Live, "again" \notin Allow, NEW eos \in BOOLEAN, NEW full \in BOOLEAN, EmptyThisBuffer(eos, full)
  PROVE  \E b \in 1 .. NIn \ Queued :
           /\ frame' = [frame EXCEPT ![b] = [id |-> enc.inId, eos |-> eos, full |-> full]]
           /\ Queued' = Queued \cup {b} /\ port'["in"].queue = Append(port["in"].queue, b)
           /\ full \/ eos
           /\ hist.last = NoId /\ hist'.n = hist.n + 1 /\ hist'.last = (IF eos THEN hist.n ELSE NoId)
           /\ hist'.encoded = hist.encoded
           /\ enc'.inId = enc.inId + 1 /\ enc'.eos = (enc.eos \/ eos) /\ enc'.next = enc.next
           /\ enc'.curr = enc.curr /\ enc'.started = enc.started
           /\ codec' = codec /\ comp' = comp /\ cli.cmd = NoCmd /\ cli'.cmd = NoCmd
<1> DEFINE b == Held("in")
<1>1. /\ enc \in EncType /\ hist \in HistType /\ DOMAIN port = Ports /\ cli \in ClientType /\ "in" \in Ports
      /\ port["in"].queue \in Seq(1 .. NIn) /\ Shape("in", port["in"]) /\ Lo("in") \in {1, 2}
      /\ Own(port["in"], cli.held["in"], Lo("in")) /\ Once(port["in"].queue, Lo("in"))
      /\ Queued \cap cli.held["in"] = {} /\ cli.held["in"] \subseteq 1 .. NIn
  BY InTypes
<1>2. b \in cli.held["in"] /\ b \in 1 .. NIn /\ b \notin Queued /\ cli.cmd = NoCmd
  <2>1. cli.held["in"] # {} /\ cli.cmd = NoCmd /\ PortInv("in")
    BY <1>1 DEF EmptyThisBuffer, MayPush, MayHandOver, BufInv
  <2> QED BY <1>1, <2>1, BufferTypes
<1>3. /\ frame' = [frame EXCEPT ![b] = [id |-> enc.inId, eos |-> eos, full |-> full]]
      /\ enc' = [enc EXCEPT !.inId = @ + 1, !.eos = @ \/ eos]
      /\ port' = [port EXCEPT !["in"] = PushBuffer(@, b)]
      /\ cli' = Take("in") /\ codec' = codec /\ comp' = comp /\ (full \/ eos)
  BY DEF EmptyThisBuffer, Send
<1>4. /\ hist.last = NoId
      /\ hist' = [hist EXCEPT !.n = @ + 1, !.last = IF eos THEN hist.n + 1 - 1 ELSE NoId]
  BY DEF EmptyThisBuffer, Send, Live
<1> HIDE DEF b
<1>5. port'["in"].queue = Append(port["in"].queue, b)
  <2>1. Count("in") = NIn
    BY DEF Count
  <2> QED BY <1>1, <1>2, <1>3, <2>1, PushedQueue
<1>6. Queued' = Queued \cup {b}
  <2>1. Lo("in")' = Lo("in")
    BY <1>3 DEF Lo, Giving
  <2>2. PICK S, s, lo, c : S = 1 .. NIn /\ s = port["in"].queue /\ lo = Lo("in") /\ c = b
    OBVIOUS
  <2>3. lo <= Len(s) + 1
    BY <1>1, <2>2 DEF Own
  <2>4. From(Append(s, c), lo) = From(s, lo) \cup {c}
    <3>1. s \in Seq(S) /\ lo \in {1, 2} /\ Once(s, lo) /\ c \notin From(s, lo) /\ c \in S
      BY <1>1, <1>2, <2>2 DEF Queued
    <3> QED BY <2>3, <3>1, PushElems
  <2> QED BY <1>5, <2>1, <2>2, <2>4 DEF Queued
<1>7. /\ enc'.inId = enc.inId + 1 /\ enc'.eos = (enc.eos \/ eos) /\ enc'.next = enc.next
      /\ enc'.curr = enc.curr /\ enc'.started = enc.started
  BY <1>1, <1>3 DEF EncType
<1>8. /\ hist'.n = hist.n + 1 /\ hist'.last = (IF eos THEN hist.n ELSE NoId)
      /\ hist'.encoded = hist.encoded
  BY <1>1, <1>4 DEF HistType
<1>9. cli'.cmd = NoCmd
  BY <1>1, <1>2, <1>3 DEF Take, ClientType
<1> QED BY <1>2, <1>3, <1>4, <1>5, <1>6, <1>7, <1>8, <1>9

\* The client hands a frame over: it gets the next number.
LEMMA EmptyFrames ==
  ASSUME BufInv, FramesGood, Live, "again" \notin Allow,
         NEW eos \in BOOLEAN, NEW full \in BOOLEAN, EmptyThisBuffer(eos, full)
  PROVE  FramesGood'
<1> DEFINE new == [id |-> enc.inId, eos |-> eos, full |-> full]
<1>1. PICK b \in 1 .. NIn \ Queued :
           /\ frame' = [frame EXCEPT ![b] = new]
           /\ Queued' = Queued \cup {b} /\ port'["in"].queue = Append(port["in"].queue, b)
           /\ full \/ eos
           /\ hist.last = NoId /\ hist'.n = hist.n + 1 /\ hist'.last = (IF eos THEN hist.n ELSE NoId)
           /\ hist'.encoded = hist.encoded
           /\ enc'.inId = enc.inId + 1 /\ enc'.eos = (enc.eos \/ eos) /\ enc'.next = enc.next
           /\ enc'.curr = enc.curr /\ enc'.started = enc.started
           /\ codec' = codec /\ comp' = comp /\ cli.cmd = NoCmd /\ cli'.cmd = NoCmd
  BY HandOver
<1>2. /\ frame \in [1 .. NIn -> FrameType] /\ Queued \subseteq 1 .. NIn /\ hist.n \in Nat
      /\ NoId = -1 /\ NoId \notin Nat
      /\ port["in"].queue \in Seq(1 .. NIn)
      /\ comp.pc # "popfirst" => Queued = From(port["in"].queue, 1)
  BY InTypes, FrameNumbers
<1>3. /\ frame'[b].id = enc.inId /\ frame'[b].eos = eos /\ frame'[b].full = full
      /\ \A x \in Queued : frame'[x] = frame[x]
  BY <1>1, <1>2
<1> HIDE DEF new
<1>4. Numbered /\ NothingLost /\ Groups /\ Doing /\ Uninterrupted /\ enc.inId = hist.n
  BY DEF FramesGood, Data, Numbered
<1>5. Numbered'
  <2>1. \A x \in Queued : frame[x].id \in 0 .. hist.n - 1 /\ (frame[x].eos \/ frame[x].full) /\ ~frame[x].eos
    BY <1>1, <1>4 DEF Numbered
  <2>2. enc'.inId = hist'.n /\ (enc'.eos => hist'.last # NoId)
    BY <1>1, <1>2, <1>4 DEF Numbered
  <2>3. \A x \in Queued' : /\ frame'[x].id \in 0 .. hist'.n - 1
                           /\ frame'[x].eos \/ frame'[x].full
                           /\ frame'[x].eos => hist'.last # NoId
    BY <1>1, <1>2, <1>3, <1>4, <2>1
  <2>4. \A x, y \in Queued' : frame'[x].id = frame'[y].id => x = y
    BY <1>1, <1>2, <1>3, <1>4, <2>1 DEF Numbered
  <2> QED BY <2>2, <2>3, <2>4 DEF Numbered
<1>6. NothingLost'
  <2>1. \A x : Kept(x) => Kept(x)'
    BY <1>1, <1>3 DEF Kept
  <2>n. PICK n : n = hist.n
    OBVIOUS
  <2>2. Kept(n)'
    <3>1. b \in Queued' /\ frame'[b].id = n
      BY <1>1, <1>3, <1>4, <2>n
    <3> QED BY <3>1, Zenon DEF Kept
  <2>3. ASSUME enc.next = NoId
        PROVE  port'["in"].queue # <<>> /\ frame'[Head(port'["in"].queue)].id = 0
    <3>1. comp.pc # "popfirst" /\ Queued = From(port["in"].queue, 1)
      BY <1>2, <1>4, <2>3 DEF Doing
    <3>2. CASE port["in"].queue = <<>>
      <4>1. hist.n = 0
        BY <1>2, <1>4, <2>3, <3>2 DEF NothingLost
      <4> QED BY <1>1, <1>2, <1>3, <1>4, <3>2, <4>1
    <3>3. CASE port["in"].queue # <<>>
      <4>1. Head(port["in"].queue) \in Queued
        BY <1>2, <3>1, <3>3, HeadElems
      <4>2. hist.n # 0
        BY <1>4, <4>1, NoFramesYet
      <4>3. frame[Head(port["in"].queue)].id = 0
        BY <1>2, <1>4, <2>3, <4>2 DEF NothingLost
      <4>4. Head(port'["in"].queue) = Head(port["in"].queue) /\ port'["in"].queue # <<>>
        BY <1>1, <1>2, <3>3
      <4> QED BY <1>3, <4>1, <4>3, <4>4
    <3> QED BY <3>2, <3>3
  <2>4. hist'.encoded \subseteq 0 .. hist'.n - 1
    BY <1>1, <1>2, <1>4 DEF NothingLost
  <2>5. /\ \A x \in 0 .. hist'.n - 1 : x \in 0 .. hist.n - 1 \/ x = hist.n
        /\ \A x \in 1 .. hist'.n - 1 : x \in 1 .. hist.n - 1 \/ x = hist.n
    BY <1>1, <1>2
  <2>6. /\ \A x \in 0 .. hist'.n - 1 : x \in hist'.encoded \/ Kept(x)'
        /\ \A x \in 1 .. hist'.n - 1 : x > codec'.end - MaxGop => Kept(x)'
    <3>1. /\ \A x \in 0 .. hist.n - 1 : x \in hist'.encoded \/ Kept(x)
          /\ \A x \in 1 .. hist.n - 1 : x > codec'.end - MaxGop => Kept(x)
      BY <1>1, <1>4 DEF NothingLost
    <3> QED BY <2>1, <2>2, <2>5, <2>n, <3>1
  <2> QED BY <1>1, <2>3, <2>4, <2>6 DEF NothingLost
<1>7. Groups'
  BY <1>1, <1>4 DEF Groups
<1>8. Doing'
  <2>1. comp.pc \in {"code", "coded"} => frame'[comp.buf] = frame[comp.buf] /\ comp.buf \in Queued
    BY <1>2, <1>3 DEF BufInv, Picked
  <2>2. comp.pc = "coded" => ~frame[comp.buf].eos
    BY <1>1, <1>4, <2>1 DEF Numbered
  <2> QED BY <1>1, <1>4, <2>1, <2>2 DEF Doing
<1>9. Uninterrupted'
  <2>1. comp.todo = <<>>
    BY <1>1, <1>4 DEF Uninterrupted, BufInv, OneCommand
  <2> QED BY <1>1, <2>1 DEF Uninterrupted
<1> QED BY <1>5, <1>6, <1>7, <1>8, <1>9 DEF FramesGood, Data

-----------------------------------------------------------------------------
(* The commands *)

\* The steps of the component thread that only move on
Still ==
  \/ LoopWake \/ LoopFetch \/ LoopDrained \/ WaitReady \/ WaitFreed \/ AssertEmpty
  \/ SetState \/ RejectState \/ CommandDone
  \/ StreamRuns \/ StartGivesUp \/ StartPop \/ PickFrame \/ NoFrame \/ EndGivesUp

\* They leave the frames alone.
LEMMA StillMoves == ASSUME BufInv, Still PROVE Unmoved
<1>1. enc \in EncType /\ DOMAIN port = Ports /\ "in" \in Ports /\ "out" \in Ports /\ comp \in CompType
  BY InTypes
<1>2. frame' = frame /\ codec' = codec /\ hist' = hist
  BY DEF Still, LoopWake, LoopFetch, LoopDrained, WaitReady, WaitFreed, AssertEmpty, SetState, RejectState,
         CommandDone, StreamRuns, StartGivesUp, StartPop, PickFrame, NoFrame, EndGivesUp
<1>3. \/ enc' = enc \/ \E t, u : enc' = [enc EXCEPT !.state = t, !.trans = u]
      \/ \E t : enc' = [enc EXCEPT !.trans = t]
      \/ \E t : enc' = [enc EXCEPT !.curr = t]
  BY DEF Still, LoopWake, LoopFetch, LoopDrained, WaitReady, WaitFreed, AssertEmpty, SetState, RejectState,
         CommandDone, StreamRuns, StartGivesUp, StartPop, PickFrame, NoFrame, EndGivesUp
<1>4. /\ enc'.inId = enc.inId /\ enc'.next = enc.next /\ enc'.eos = enc.eos
      /\ enc'.started = enc.started
  BY <1>1, <1>3 DEF EncType
<1>5. port'["in"] = port["in"] /\ (comp'.pc = "popfirst" <=> comp.pc = "popfirst")
  <2>1. CASE StartPop
    <3>1. comp'.pc = "pick" /\ comp.pc = "startpop"
      BY <1>1, <2>1, Goes DEF StartPop
    <3> QED BY <1>1, <2>1, <3>1 DEF StartPop
  <2>2. CASE Still /\ ~StartPop
    <3>1. Quiet
      BY <2>2, QuietSteps DEF Still, QuietNext, BufInv
    <3> QED BY <3>1 DEF Quiet, Gives
  <2> QED BY <2>1, <2>2
<1>6. Queued' = Queued
  BY <1>5 DEF Queued, Lo, Giving
<1> QED BY <1>2, <1>4, <1>5, <1>6 DEF Unmoved

\* A stream without frames and groups
LEMMA NoData ==
  ASSUME Queued' = {}, hist'.n = 0, hist'.encoded = {}, enc'.inId = 0, enc'.next = NoId,
         enc'.eos => hist'.last # NoId, codec'.cnt = 0, codec'.end = 0, codec'.left = {}
  PROVE  Data'
<1>1. Numbered' /\ NothingLost'
  BY DEF Numbered, NothingLost
<1>2. Groups'
  BY DEF Groups
<1> QED BY <1>1, <1>2 DEF Data

\* What is left of a command is harmless if the command is.
LEMMA TailUninterrupted ==
  ASSUME Uninterrupted, comp.todo \in Seq(Steps), comp.todo # <<>>, comp.todo[1][1] \notin Enders,
         comp'.todo = Tail(comp.todo), cli'.cmd = cli.cmd, hist' = hist
  PROVE  Uninterrupted'
<1>1. Ends(comp'.todo)
  BY TailOf DEF Uninterrupted
<1>2. \A i \in 1 .. Len(comp'.todo) : i + 1 \in 1 .. Len(comp.todo) /\ comp'.todo[i] = comp.todo[i + 1]
  OBVIOUS
<1> QED BY <1>1, <1>2 DEF Uninterrupted

\* Pausing and resuming take one step.
LEMMA PauseHarmless ==
  ASSUME NEW c \in {"StateSet"} \X {"Executing", "Pause"}
  PROVE  \A i \in 1 .. Len(Plan(c)) : Plan(c)[i][1] \in Harmless
<1>1. Plan(c) = StatePlan(c[2]) /\ c[2] \in {"Executing", "Pause"}
  BY DEF Plan
<1>2. \E t : StatePlan(c[2]) \in {<<<<"done">>>>, <<<<"state", t>>>>, <<<<"reject">>>>}
  BY <1>1 DEF StatePlan
<1>3. \A i \in 1 .. Len(StatePlan(c[2])) : StatePlan(c[2])[i][1] \in {"done", "state", "reject"}
  BY <1>2
<1> QED BY <1>1, <1>3 DEF Harmless

\* The steps that return buffers, make or destroy the codec, or stop the stream: the
\* client asks for them before the first frame, or it interrupts the stream.
LEMMA PlanFrames ==
  ASSUME "refill" \notin Allow, BufInv, FramesGood, ReturnBuffers \/ CreateCodec \/ DestroyCodec \/ StopStream
  PROVE  Data'
<1>1. /\ enc \in EncType /\ codec \in CodecType /\ DOMAIN port = Ports /\ comp \in CompType
      /\ comp.todo \in Seq(Steps) /\ "in" \in Ports /\ hist.n \in Nat
      /\ Shape("in", port["in"]) /\ Own(port["in"], cli.held["in"], Lo("in"))
      /\ comp.pc # "popfirst" => Lo("in") = 1 /\ Queued = From(port["in"].queue, 1)
  BY InTypes, FrameNumbers
<1>2. comp.pc = "cmd" /\ comp'.pc = "cmd" /\ hist' = hist
  <2>1. comp.pc = "cmd" /\ StepDone /\ hist' = hist
    BY AllReturned DEF ReturnAll, CreateCodec, DestroyCodec, StopStream, At
  <2> QED BY <1>1, <2>1, Goes
<1>3. hist.n = 0
  <2>1. comp.todo # <<>> /\ comp.todo[1][1] \in {"return", "create", "destroy", "stop"}
    BY DEF ReturnBuffers, CreateCodec, DestroyCodec, StopStream, At
  <2>2. 1 \in 1 .. Len(comp.todo) /\ comp.todo[1][1] \notin Harmless
    BY <1>1, <2>1 DEF Harmless
  <2> QED BY <1>1, <2>2 DEF FramesGood, Uninterrupted
<1>4. /\ Queued = {} /\ enc.next = NoId /\ hist.encoded = {} /\ enc.inId = 0
      /\ enc.eos => hist.last # NoId
      /\ codec.cnt = 0 /\ codec.end = 0 /\ codec.left = {}
  BY <1>3, NoFramesYet DEF FramesGood, Data, Numbered, Groups
<1>5. enc'.inId = enc.inId /\ enc'.next = enc.next /\ enc'.eos = enc.eos
  <2>1. enc' = enc \/ enc' = [enc EXCEPT !.started = FALSE]
    BY AllReturned DEF ReturnAll, CreateCodec, DestroyCodec, StopStream
  <2> QED BY <1>1, <2>1 DEF EncType
<1>6. codec'.cnt = 0 /\ codec'.end = 0 /\ codec'.left = {}
  <2>1. codec' = codec \/ codec' = NoCodec \/ codec' = [NoCodec EXCEPT !.made = TRUE]
    BY DEF ReturnBuffers, CreateCodec, DestroyCodec, StopStream
  <2> QED BY <1>4, <2>1 DEF NoCodec
<1>7. Queued' = {}
  <2>1. port'["in"] = port["in"] \/ port'["in"] = QueueClear(port["in"])
    BY <1>1 DEF ReturnBuffers, CreateCodec, DestroyCodec, StopStream
  <2>2. QueueClear(port["in"]).queue = <<>>
    BY DEF QueueClear
  <2>3. Queued' = From(port'["in"].queue, 1)
    BY <1>2 DEF Queued, Lo, Giving
  <2> QED BY <1>1, <1>2, <1>4, <2>1, <2>2, <2>3, NoElems
<1> QED BY <1>2, <1>3, <1>4, <1>5, <1>6, <1>7, NoData

\* Where the commands leave the component thread, and what is left of them
LEMMA CommandTodo ==
  ASSUME "refill" \notin Allow, BufInv, Uninterrupted, CommandNext, hist' = hist, ~CreateFails, ~SetInvalid
  PROVE  Uninterrupted' /\ comp'.pc \in {"loop", "cmd", "start", "assert"}
<1>1. /\ comp \in CompType /\ cli \in ClientType /\ comp.todo \in Seq(Steps) /\ cmdq \in Seq(Commands)
      /\ Types /\ OneCommand
  BY InTypes DEF BufInv, Types
<1>2. AtLoop.pc = "loop" /\ AtLoop.todo = <<>>
  BY DEF AtLoop
<1>3. ASSUME comp'.todo = <<>>, cli'.cmd = cli.cmd \/ cli'.cmd = NoCmd PROVE Uninterrupted'
  BY <1>3 DEF Uninterrupted
<1>4. CASE LoopWake
  <2>1. /\ cli' = cli
        /\ \/ comp' = AtLoop \/ comp' = [AtLoop EXCEPT !.pc = "start"]
           \/ \E e : comp' = [AtLoop EXCEPT !.pc = "cmd", !.sig = e]
    BY <1>4 DEF LoopWake
  <2>2. comp'.todo = <<>> /\ comp'.pc \in {"loop", "cmd", "start"}
    <3>1. ASSUME NEW e, comp' = [AtLoop EXCEPT !.pc = "cmd", !.sig = e] PROVE comp'.todo = <<>> /\ comp'.pc = "cmd"
      BY <3>1 DEF AtLoop
    <3>2. ASSUME comp' = [AtLoop EXCEPT !.pc = "start"] PROVE comp'.todo = <<>> /\ comp'.pc = "start"
      BY <3>2 DEF AtLoop
    <3> QED BY <1>2, <2>1, <3>1, <3>2
  <2> QED BY <1>3, <2>1, <2>2
<1>5. CASE LoopDrained
  <2>1. cli' = cli /\ comp' = [AtLoop EXCEPT !.pc = IF comp.sig /\ enc.state = "Executing" THEN "start" ELSE @]
    BY <1>5 DEF LoopDrained
  <2>2. comp'.todo = <<>> /\ comp'.pc \in {"loop", "start"}
    BY <2>1 DEF AtLoop
  <2> QED BY <1>3, <2>1, <2>2
<1>6. CASE LoopFetch
  <2>1. /\ cli' = cli /\ cmdq # <<>> /\ comp' = [comp EXCEPT !.todo = Plan(Head(cmdq))]
        /\ comp.pc = "cmd"
    BY <1>6 DEF LoopFetch
  <2>2. Head(cmdq) = cli.cmd /\ cli.cmd \in Commands
    BY <1>1, <2>1 DEF OneCommand
  <2>3. comp'.todo = Plan(cli.cmd) /\ comp'.pc = "cmd"
    BY <1>1, <2>1, <2>2 DEF CompType
  <2>4. Ends(Plan(cli.cmd))
    BY <2>2, PlanEnds
  <2>5. hist.n > 0 => cli.cmd \in {"StateSet"} \X {"Executing", "Pause"}
    <3>1. cli.cmd # NoCmd
      BY <1>1, <2>1 DEF OneCommand
    <3> QED BY <3>1 DEF Uninterrupted
  <2>6. hist.n > 0 => \A i \in 1 .. Len(comp'.todo) : comp'.todo[i][1] \in Harmless
    BY <2>3, <2>5, PauseHarmless
  <2> QED BY <2>1, <2>3, <2>4, <2>5, <2>6 DEF Uninterrupted
<1>7. CASE Inner
  BY <1>1, <1>7, InnerSteps, TailUninterrupted
<1>8. CASE AssertEmpty
  <2>1. /\ comp.pc = "cmd" /\ comp.todo # <<>> /\ comp.todo[1][1] = "empty" /\ cli' = cli
        /\ StepDone \/ comp' = [comp EXCEPT !.pc = "assert"]
    BY <1>8 DEF AssertEmpty, At
  <2>2. comp.todo[1][1] \notin Enders
    BY <2>1 DEF Enders
  <2>3. CASE StepDone
    <3>1. comp'.todo = Tail(comp.todo) /\ comp'.pc = "cmd"
      BY <1>1, <2>1, <2>3, Goes
    <3> QED BY <1>1, <2>1, <2>2, <3>1, TailUninterrupted
  <2>4. CASE comp' = [comp EXCEPT !.pc = "assert"]
    <3>1. comp'.todo = comp.todo /\ comp'.pc = "assert"
      BY <1>1, <2>4 DEF CompType
    <3> QED BY <2>1, <3>1 DEF Uninterrupted
  <2> QED BY <2>1, <2>3, <2>4
<1>9. CASE Final
  <2>1. comp'.todo = <<>> /\ cli'.cmd = NoCmd
    BY <1>1, <1>9, FinalSteps
  <2>2. comp'.pc = "cmd"
    BY <1>1, <1>9, Goes DEF Final, SetState, RejectState, CommandDone, At
  <2> QED BY <1>3, <2>1, <2>2
<1> QED BY <1>4, <1>5, <1>6, <1>7, <1>8, <1>9 DEF CommandNext, Inner, Final

\* The commands and the loop of the component thread
LEMMA CommandFrames ==
  ASSUME "refill" \notin Allow, BufInv, FramesGood, hist'.whole, CommandNext
  PROVE  FramesGood'
<1>1. ~CreateFails /\ ~SetInvalid
  <2>1. NotWhole.whole = FALSE
    BY DEF NotWhole, NewStream
  <2> QED BY <2>1 DEF CreateFails, SetInvalid, Invalid
<1>2. CASE ReturnBuffers \/ CreateCodec \/ DestroyCodec \/ StopStream
  <2>1. hist' = hist
    BY <1>2, AllReturned DEF ReturnAll, CreateCodec, DestroyCodec, StopStream
  <2>2. Data' /\ Uninterrupted' /\ comp'.pc \in {"loop", "cmd", "start", "assert"}
    BY <1>1, <1>2, <2>1, PlanFrames, CommandTodo DEF FramesGood
  <2> QED BY <2>2 DEF FramesGood, Doing
<1>3. CASE Still
  <2>1. Unmoved /\ hist' = hist
    BY <1>3, StillMoves DEF Unmoved
  <2>2. Data' /\ Uninterrupted' /\ comp'.pc \in {"loop", "cmd", "start", "assert"}
    BY <1>1, <2>1, UnmovedData, CommandTodo DEF FramesGood
  <2> QED BY <2>2 DEF FramesGood, Doing
<1> QED BY <1>1, <1>2, <1>3 DEF CommandNext, Still

-----------------------------------------------------------------------------
(* The frames *)

\* No command is executed meanwhile.
LEMMA EncodeUninterrupted ==
  ASSUME BufInv, Uninterrupted, EncodeNext, ~EndReset, hist'.n = hist.n
  PROVE  Uninterrupted'
<1>1. comp'.todo = <<>> /\ cli'.cmd = cli.cmd
  BY EncodeTodo DEF BufInv
<1> QED BY <1>1 DEF Uninterrupted

\* The frame that is picked: the one the codec wants, or the first
LEMMA PickDoing ==
  ASSUME BufInv, Data, Doing, PickFrame
  PROVE  Doing'
<1> DEFINE q == port["in"].queue
           i == IF enc.next # NoId THEN PlaceOfFrame(port["in"], Id, enc.next)
                ELSE IF q = <<>> THEN 0 ELSE 1
<1>1. /\ comp.pc = "pick" /\ frame' = frame /\ codec' = codec /\ hist' = hist
      /\ IF i = 0
         THEN Goto("nopick") /\ UNCHANGED enc
         ELSE /\ comp' = [comp EXCEPT !.buf = q[i], !.pc = IF frame[q[i]].full THEN "code" ELSE "coded"]
              /\ enc' = [enc EXCEPT !.curr = enc.next]
  BY DEF PickFrame
<1>2. /\ enc \in EncType /\ comp \in CompType /\ q \in Seq(1 .. NIn) /\ Queued = From(q, 1)
      /\ hist.n \in Nat /\ enc.started
  BY <1>1, InTypes, FrameNumbers DEF Doing
<1>3. CASE i = 0
  <2>1. comp'.pc = "nopick"
    BY <1>1, <1>2, <1>3, Goes
  <2> QED BY <2>1 DEF Doing
<1>4. CASE i # 0
  <2>1. i \in 1 .. Len(q) /\ frame[q[i]].id = codec.cnt /\ (enc.next = NoId => frame[q[i]].id = 0)
    <3>1. CASE enc.next # NoId
      <4>1. i = PlaceOfFrame(port["in"], Id, enc.next)
        BY <3>1
      <4>2. i \in 1 .. Len(q) /\ Id[q[i]] = enc.next
        BY <1>2, <1>4, <4>1, FrameFound
      <4>3. q[i] \in 1 .. NIn
        <5>1. q[i] \in From(q, 1)
          BY <4>2 DEF From
        <5> QED BY <1>2, <5>1, InTypes
      <4> QED BY <3>1, <4>2, <4>3 DEF Id, Data, Groups
    <3>2. CASE enc.next = NoId
      <4>1. i = 1 /\ q # <<>>
        BY <1>4, <3>2
      <4>2. q[1] = Head(q) /\ Head(q) \in Queued /\ 1 \in 1 .. Len(q)
        BY <1>2, <4>1, HeadElems
      <4>3. hist.n # 0
        BY <4>2, NoFramesYet DEF Data
      <4>4. frame[Head(q)].id = 0
        BY <1>2, <3>2, <4>3 DEF Data, NothingLost
      <4> QED BY <3>2, <4>1, <4>2, <4>4 DEF Data, Groups
    <3> QED BY <3>1, <3>2
  <2>2. q[i] \in Queued
    BY <1>2, <2>1 DEF From
  <2> HIDE DEF i
  <2>3. PICK b : b = q[i]
    OBVIOUS
  <2>4. /\ comp'.buf = b /\ comp'.pc = IF frame[b].full THEN "code" ELSE "coded"
        /\ enc'.curr = enc.next /\ enc'.next = enc.next /\ enc'.started
    BY <1>1, <1>2, <1>4, <2>3 DEF EncType, CompType
  <2>5. (frame[b].eos \/ frame[b].full) /\ (frame[b].eos => hist.last # NoId)
    BY <2>2, <2>3 DEF Data, Numbered
  <2>6. CASE frame[b].full
    <3>1. comp'.pc = "code"
      BY <2>4, <2>6
    <3> QED BY <1>1, <2>1, <2>3, <2>4, <3>1 DEF Doing
  <2>7. CASE ~frame[b].full
    <3>1. comp'.pc = "coded" /\ frame[b].eos
      BY <2>4, <2>5, <2>7
    <3> QED BY <1>1, <2>1, <2>3, <2>4, <2>5, <3>1 DEF Doing
  <2> QED BY <2>6, <2>7
<1> QED BY <1>3, <1>4

\* The steps before and after a frame
LEMMA StillFrames ==
  ASSUME BufInv, FramesGood, StreamRuns \/ StartGivesUp \/ StartPop \/ PickFrame \/ NoFrame \/ EndGivesUp
  PROVE  FramesGood'
<1>1. Unmoved /\ EncodeNext /\ ~EndReset
  <2>1. Still /\ EncodeNext
    BY DEF Still, EncodeNext
  <2>2. ~EndReset
    BY DEF StreamRuns, StartGivesUp, StartPop, PickFrame, NoFrame, EndGivesUp, EndReset
  <2> QED BY <2>1, <2>2, StillMoves
<1>2. Data' /\ Uninterrupted' /\ hist' = hist /\ comp \in CompType
  BY <1>1, UnmovedData, EncodeUninterrupted, InTypes DEF FramesGood, Unmoved
<1>3. Doing'
  <2>1. CASE StreamRuns
    <3>1. comp'.pc = "pick" /\ enc' = enc /\ enc.started
      BY <1>2, <2>1, Goes DEF StreamRuns
    <3> QED BY <3>1 DEF Doing
  <2>2. CASE StartPop
    <3>1. comp'.pc = "pick" /\ enc' = enc /\ comp.pc = "startpop"
      BY <1>2, <2>2, Goes DEF StartPop
    <3> QED BY <3>1 DEF FramesGood, Doing
  <2>3. CASE StartGivesUp \/ EndGivesUp
    <3>1. comp'.pc = "loop"
      BY <1>2, <2>3, Goes DEF StartGivesUp, EndGivesUp
    <3> QED BY <3>1 DEF Doing
  <2>4. CASE NoFrame
    <3>1. comp'.pc = IF enc.eos THEN "end" ELSE "loop"
      BY <1>2, <2>4, Goes DEF NoFrame
    <3> QED BY <1>2, <3>1 DEF Doing, FramesGood, Data, Numbered
  <2>5. CASE PickFrame
    BY <2>5, PickDoing DEF FramesGood
  <2> QED BY <2>1, <2>2, <2>3, <2>4, <2>5
<1> QED BY <1>2, <1>3 DEF FramesGood

\* A stream is started with the codec as it is before the first picture.
LEMMA StartFrames == ASSUME BufInv, FramesGood, StartStream PROVE FramesGood'
<1>1. /\ enc \in EncType /\ comp \in CompType /\ comp.pc = "start" /\ ~enc.started
      /\ port' = port /\ frame' = frame /\ hist' = hist
      /\ codec' = [NoCodec EXCEPT !.made = TRUE, !.phase = "stream"] /\ enc' = [enc EXCEPT !.started = TRUE]
  BY InTypes DEF StartStream
<1>2. comp'.pc = "startpop"
  BY <1>1, Goes DEF StartStream
<1>3. codec.cnt = 0 /\ codec.end = 0 /\ codec.left = {}
  BY <1>1 DEF FramesGood, Data, Groups
<1>4. /\ codec'.cnt = 0 /\ codec'.end = 0 /\ codec'.left = {}
      /\ enc'.inId = enc.inId /\ enc'.next = enc.next /\ enc'.eos = enc.eos /\ enc'.started
  BY <1>1 DEF NoCodec, EncType
<1>5. Queued' = Queued
  BY <1>1, <1>2 DEF Queued, Lo, Giving
<1>6. Data'
  BY <1>1, <1>3, <1>4, <1>5, UnmovedData DEF Unmoved, FramesGood
<1>7. Doing'
  BY <1>2, <1>4 DEF Doing
<1>8. Uninterrupted'
  <2>1. EncodeNext /\ ~EndReset
    BY <1>1 DEF EncodeNext, EndReset
  <2> QED BY <1>1, <2>1, EncodeUninterrupted DEF FramesGood
<1> QED BY <1>6, <1>7, <1>8 DEF FramesGood

\* The codec encodes the picture it wanted and says which it wants next.
LEMMA EncodeFrames == ASSUME BufInv, FramesGood, Live, EncodeFrame PROVE FramesGood'
<1>1. /\ comp.pc = "code" /\ frame' = frame
      /\ codec' \in FindNextPic(codec) /\ enc' = [enc EXCEPT !.next = codec'.cnt]
      /\ port' = [port EXCEPT !["out"] = PopBuffer(@)] /\ Goto("coded")
      /\ hist' = [hist EXCEPT !.encoded = @ \cup {frame[comp.buf].id}]
  BY DEF EncodeFrame, Deliver, Live
<1>2. /\ enc \in EncType /\ comp \in CompType /\ codec \in CodecType /\ hist \in HistType /\ DOMAIN port = Ports
      /\ Queued = From(port["in"].queue, 1) /\ comp.buf \in Queued /\ Types /\ "in" \in Ports
  BY <1>1, InTypes DEF BufInv, Picked, Types
<1>3. /\ hist.n \in Nat /\ NoId = -1 /\ NoId \notin Nat
      /\ codec.cnt \in Nat /\ codec.end \in Nat /\ codec.left \subseteq Nat
      /\ MaxGop \in Nat \ {0} /\ GopSizes \subseteq 1 .. MaxGop
  BY FrameNumbers
<1>4. Numbered /\ NothingLost /\ Groups /\ Doing /\ enc.started
  BY <1>1 DEF FramesGood, Data, Doing
<1>5. comp'.pc = "coded" /\ comp'.buf = comp.buf
  <2>1. comp' = [comp EXCEPT !.pc = "coded"]
    BY <1>1 DEF Goto
  <2> QED BY <1>2, <2>1 DEF CompType
<1>6. frame[comp.buf].id = codec.cnt /\ enc.curr = enc.next /\ codec.cnt \in 0 .. hist.n - 1
  BY <1>1, <1>2, <1>4 DEF Doing, Numbered
<1>7. /\ enc'.inId = enc.inId /\ enc'.next = codec'.cnt /\ enc'.eos = enc.eos /\ enc'.started
      /\ enc'.curr = enc.curr
      /\ hist'.n = hist.n /\ hist'.last = hist.last /\ hist'.encoded = hist.encoded \cup {codec.cnt}
      /\ port'["in"] = port["in"]
  BY <1>1, <1>2, <1>4, <1>6 DEF EncType, HistType
<1>8. Queued' = Queued
  BY <1>1, <1>5, <1>7 DEF Queued, Lo, Giving
<1>9. \/ /\ codec.left # {} /\ codec'.end = codec.end /\ codec'.cnt \in codec.left
         /\ codec'.left = codec.left \ {codec'.cnt}
      \/ /\ codec.left = {}
         /\ \E g \in GopSizes : /\ codec'.end = codec.end + g /\ codec'.cnt = codec.end + g
                                /\ codec'.left = codec.end + 1 .. codec.end + g - 1
  <2>1. CASE codec.left # {}
    <3>1. PICK x \in codec.left : codec' = [codec EXCEPT !.phase = "frame", !.cnt = x, !.left = @ \ {x}]
      BY <1>1, <2>1 DEF FindNextPic
    <3> QED BY <1>2, <2>1, <3>1 DEF CodecType
  <2>2. CASE codec.left = {}
    <3>1. PICK g \in GopSizes : codec' = [codec EXCEPT !.phase = "frame", !.cnt = codec.end + g, !.end = codec.end + g,
                                                       !.left = codec.end + 1 .. codec.end + g - 1]
      BY <1>1, <2>2 DEF FindNextPic
    <3> QED BY <1>2, <2>2, <3>1 DEF CodecType
  <2> QED BY <2>1, <2>2
<1>10. codec'.cnt \in Nat /\ codec'.end \in Nat /\ codec'.end >= codec.end
  BY <1>3, <1>9
<1>11. Numbered'
  BY <1>1, <1>4, <1>7, <1>8 DEF Numbered
<1>12. NothingLost'
  <2>1. \A x : Kept(x)' <=> Kept(x)
    BY <1>1, <1>8 DEF Kept
  <2>2. hist'.encoded \subseteq 0 .. hist'.n - 1
    BY <1>4, <1>6, <1>7 DEF NothingLost
  <2>3. \A x \in 0 .. hist'.n - 1 : x \in hist'.encoded \/ Kept(x)'
    BY <1>4, <1>7, <2>1 DEF NothingLost
  <2>4. \A x \in 1 .. hist'.n - 1 : x > codec'.end - MaxGop => Kept(x)'
    <3>1. \A x \in 1 .. hist'.n - 1 : x > codec'.end - MaxGop => x > codec.end - MaxGop
      BY <1>3, <1>7, <1>10
    <3> QED BY <1>4, <1>7, <2>1, <3>1 DEF NothingLost
  <2> QED BY <1>3, <1>7, <1>10, <2>2, <2>3, <2>4 DEF NothingLost
<1>13. Groups'
  <2>1. \A x \in 0 .. codec'.end : x = codec'.cnt \/ x \in codec'.left \/ x \in hist'.encoded
    <3>1. \A x \in 0 .. codec.end : x = codec.cnt \/ x \in codec.left \/ x \in hist.encoded
      BY <1>4 DEF Groups
    <3>2. CASE codec.left # {}
      BY <1>7, <1>9, <3>1, <3>2
    <3>3. CASE codec.left = {}
      BY <1>3, <1>7, <1>9, <3>1, <3>3
    <3> QED BY <3>2, <3>3
  <2>2. \E g \in GopSizes :
            g <= codec'.end /\ codec'.left \cup {codec'.cnt} \subseteq codec'.end - g + 1 .. codec'.end
    <3>1. CASE codec.left # {}
      <4>1. enc.next # NoId
        BY <1>4, <3>1 DEF Groups
      <4>2. PICK g \in GopSizes :
              g <= codec.end /\ codec.left \cup {codec.cnt} \subseteq codec.end - g + 1 .. codec.end
        BY <1>4, <4>1 DEF Groups
      <4>3. codec'.left \cup {codec'.cnt} \subseteq codec.left \cup {codec.cnt} /\ codec'.end = codec.end
        BY <1>9, <3>1
      <4> QED BY <4>2, <4>3
    <3>2. CASE codec.left = {}
      <4>1. PICK g \in GopSizes : /\ codec'.end = codec.end + g /\ codec'.cnt = codec.end + g
                                  /\ codec'.left = codec.end + 1 .. codec.end + g - 1
        BY <1>9, <3>2
      <4>2. g <= codec'.end /\ codec'.left \cup {codec'.cnt} \subseteq codec'.end - g + 1 .. codec'.end
        BY <1>3, <4>1
      <4> QED BY <4>2
    <3> QED BY <3>1, <3>2
  <2>3. enc'.next # NoId
    BY <1>3, <1>7, <1>10
  <2> QED BY <1>7, <2>1, <2>2, <2>3 DEF Groups
<1>14. Doing'
  <2>1. enc'.next # NoId
    BY <1>3, <1>7, <1>10
  <2>2. enc'.curr = NoId => frame'[comp'.buf].id = 0
    BY <1>1, <1>4, <1>5, <1>6, <1>7 DEF Groups
  <2>3. frame'[comp'.buf].eos => hist'.last # NoId
    BY <1>1, <1>2, <1>4, <1>5, <1>7 DEF Numbered
  <2> QED BY <1>5, <2>1, <2>2, <2>3 DEF Doing
<1>15. Uninterrupted'
  <2>1. EncodeNext /\ ~EndReset
    BY <1>1 DEF EncodeNext, EndReset
  <2> QED BY <1>7, <2>1, EncodeUninterrupted DEF FramesGood
<1> QED BY <1>11, <1>12, <1>13, <1>14, <1>15 DEF FramesGood, Data

\* A buffer whose frame is encoded and far behind the codec's group, or is the first
\* of the stream, may go.
LEMMA FrameGone ==
  ASSUME BufInv, Data, NEW b \in Queued, Queued' = Queued \ {b}, \A a \in Queued \ {b} : frame'[a] = frame[a],
         enc' = enc, codec' = codec, hist' = hist, enc.next # NoId,
         frame[b].id \in hist.encoded, frame[b].id = 0 \/ frame[b].id <= codec.end - MaxGop
  PROVE  Data'
<1>1. hist.n \in Nat /\ codec.end \in Nat /\ MaxGop \in Nat /\ frame[b].id \in 0 .. hist.n - 1
  BY FrameNumbers DEF Data, Numbered
<1>2. Numbered'
  BY DEF Data, Numbered
<1>3. \A x : x # frame[b].id /\ Kept(x) => Kept(x)'
  BY DEF Kept
<1>4. NothingLost'
  <2>1. \A x \in 0 .. hist.n - 1 : x \in hist.encoded \/ Kept(x)'
    BY <1>3 DEF Data, NothingLost
  <2>2. \A x \in 1 .. hist.n - 1 : x > codec.end - MaxGop => Kept(x)'
    <3>1. \A x \in 1 .. hist.n - 1 : x > codec.end - MaxGop => x # frame[b].id
      BY <1>1
    <3> QED BY <1>3, <3>1 DEF Data, NothingLost
  <2> QED BY <2>1, <2>2 DEF Data, NothingLost
<1>5. Groups'
  BY DEF Data, Groups
<1> QED BY <1>2, <1>4, <1>5 DEF Data

\* When the codec has begun the frames before its group are encoded.
LEMMA BehindGroup ==
  ASSUME BufInv, Groups, enc.next # NoId, NEW x \in Nat, x = 0 \/ x <= enc.next - MaxGop
  PROVE  x \in hist.encoded /\ (x = 0 \/ x <= codec.end - MaxGop)
<1>1. PICK g \in GopSizes : g <= codec.end /\ codec.left \cup {codec.cnt} \subseteq codec.end - g + 1 .. codec.end
  BY DEF Groups
<1>2. /\ codec.cnt \in Nat /\ codec.end \in Nat /\ g \in 1 .. MaxGop /\ MaxGop \in Nat /\ enc.next = codec.cnt
  BY <1>1, FrameNumbers DEF Groups
<1>3. codec.cnt <= codec.end /\ codec.cnt >= codec.end - g + 1
  BY <1>1, <1>2
<1>4. x \in 0 .. codec.end /\ x # codec.cnt /\ x \notin codec.end - g + 1 .. codec.end /\ (x = 0 \/ x <= codec.end - MaxGop)
  BY <1>1, <1>2, <1>3
<1>5. x \notin codec.left
  BY <1>1, <1>4
<1> QED BY <1>4, <1>5 DEF Groups

\* What happens to the buffer of a frame: nothing, or it is the first and goes back.
LEMMA CodedFrames == ASSUME BufInv, FramesGood, Coded PROVE FramesGood'
<1> DEFINE b == comp.buf
           q == port["in"].queue
           pic == IF enc.next # NoId THEN enc.next ELSE enc.curr
<1>1. /\ comp.pc = "coded" /\ enc' = enc /\ port' = port /\ codec' = codec /\ hist' = hist
      /\ \/ /\ frame[b].eos /\ frame' = frame
            /\ Goto("end") \/ Goto("loop")
         \/ /\ ~frame[b].eos /\ enc.curr = NoId
            /\ Goto("popfirst") /\ frame' = Emptied({b})
         \/ /\ ~frame[b].eos /\ enc.curr # NoId /\ frame' = frame
            /\ comp' = IF pic > MaxGop THEN [AtLoop EXCEPT !.pc = "giveback", !.pic = pic - MaxGop] ELSE AtLoop
  BY DEF Coded
<1>2. /\ comp \in CompType /\ q \in Seq(1 .. NIn) /\ Queued = From(q, 1) /\ Queued \subseteq 1 .. NIn
      /\ Once(q, 1) /\ b \in Queued /\ (enc.curr = NoId => b = Head(q))
  BY <1>1, InTypes DEF BufInv, Picked
<1>3. /\ NoId = -1 /\ enc.next \in Nat \cup {-1} /\ MaxGop \in Nat
  BY FrameNumbers
<1>4. /\ Data /\ (enc.next # NoId \/ frame[b].eos) /\ (enc.curr = NoId => frame[b].id = 0)
      /\ (frame[b].eos => hist.last # NoId)
  BY <1>1 DEF FramesGood, Doing
<1>5. Uninterrupted'
  <2>1. EncodeNext /\ ~EndReset
    BY <1>1 DEF EncodeNext, EndReset
  <2> QED BY <1>1, <2>1, EncodeUninterrupted DEF FramesGood
<1>6. ASSUME frame' = frame, comp'.pc # "popfirst" PROVE Data'
  <2>1. Queued' = Queued
    BY <1>1, <1>6 DEF Queued, Lo, Giving
  <2> QED BY <1>1, <1>4, <1>6, <2>1, UnmovedData DEF Unmoved
<1>7. CASE frame[b].eos
  <2>1. comp'.pc \in {"end", "loop"} /\ frame' = frame
    BY <1>1, <1>2, <1>7, Goes
  <2>2. Doing'
    BY <1>1, <1>4, <1>7, <2>1 DEF Doing
  <2> QED BY <1>5, <1>6, <2>1, <2>2 DEF FramesGood
<1>8. CASE ~frame[b].eos /\ enc.curr = NoId
  <2>1. Goto("popfirst") /\ frame' = Emptied({b}) /\ b = Head(q) /\ enc.next # NoId /\ frame[b].id = 0
    BY <1>1, <1>2, <1>4, <1>8
  <2>2. comp'.pc = "popfirst"
    BY <1>2, <2>1, Goes
  <2>3. q # <<>>
    BY <1>2, NoElems
  <2>4. From(q, 2) = From(q, 1) \ {Head(q)}
    BY <1>2, <2>3, HeadElems
  <2>5. Queued' = Queued \ {b}
    BY <1>1, <1>2, <2>1, <2>2, <2>4 DEF Queued, Lo, Giving
  <2>6. \A a \in Queued \ {b} : frame'[a] = frame[a]
    BY <1>2, <2>1 DEF Emptied
  <2>7. frame[b].id \in hist.encoded
    BY <1>4, <2>1, BehindGroup DEF Data
  <2>8. Data'
    BY <1>1, <1>2, <1>4, <2>1, <2>5, <2>6, <2>7, FrameGone
  <2>9. Doing'
    BY <1>1, <2>1, <2>2 DEF Doing
  <2> QED BY <1>5, <2>8, <2>9 DEF FramesGood
<1>9. CASE ~frame[b].eos /\ enc.curr # NoId
  <2>1. /\ frame' = frame /\ enc.next # NoId
        /\ \/ comp' = AtLoop
           \/ enc.next > MaxGop /\ comp' = [AtLoop EXCEPT !.pc = "giveback", !.pic = enc.next - MaxGop]
    BY <1>1, <1>4, <1>9
  <2>2. comp'.pc = "loop" \/ (comp'.pc = "giveback" /\ comp'.pic \in 1 .. enc.next - MaxGop)
    <3>1. CASE comp' = AtLoop
      BY <3>1 DEF AtLoop
    <3>2. CASE enc.next > MaxGop /\ comp' = [AtLoop EXCEPT !.pc = "giveback", !.pic = enc.next - MaxGop]
      <4>1. comp'.pc = "giveback" /\ comp'.pic = enc.next - MaxGop
        BY <3>2 DEF AtLoop
      <4> QED BY <1>3, <3>2, <4>1
    <3> QED BY <2>1, <3>1, <3>2
  <2>3. Doing'
    BY <1>1, <2>1, <2>2 DEF Doing
  <2> QED BY <1>5, <1>6, <2>1, <2>2, <2>3 DEF FramesGood
<1> QED BY <1>7, <1>8, <1>9

\* The first buffer is popped after it has been given back.
LEMMA PopFrames == ASSUME BufInv, FramesGood, PopFirst PROVE FramesGood'
<1>1. /\ comp.pc = "popfirst" /\ enc' = enc /\ frame' = frame /\ codec' = codec /\ hist' = hist
      /\ port' = [port EXCEPT !["in"] = PopBuffer(@)] /\ Goto("loop")
  BY DEF PopFirst
<1>2. /\ comp \in CompType /\ "in" \in Ports /\ DOMAIN port = Ports /\ Queued = From(port["in"].queue, 2)
      /\ Shape("in", port["in"]) /\ Own(port["in"], cli.held["in"], 2)
      /\ port["in"].queue \in Seq(1 .. NIn) /\ port["in"].queue # <<>>
  <2>1. Lo("in") = 2
    BY <1>1, InTypes
  <2> QED BY <1>1, <2>1, InTypes DEF Own
<1>3. comp'.pc = "loop" /\ enc.next # NoId
  BY <1>1, <1>2, Goes DEF FramesGood, Doing
<1>4. Queued' = Queued
  <2>1. port'["in"].queue = RemoveAt(port["in"].queue, 1)
    BY <1>1, <1>2, PopGiven
  <2>2. From(RemoveAt(port["in"].queue, 1), 1) = From(port["in"].queue, 2)
    BY <1>2, HeadElems
  <2> QED BY <1>2, <1>3, <2>1, <2>2 DEF Queued, Lo, Giving
<1>5. Data'
  BY <1>1, <1>3, <1>4, UnmovedData DEF Unmoved, FramesGood
<1>6. Doing'
  BY <1>3 DEF Doing
<1>7. Uninterrupted'
  <2>1. EncodeNext /\ ~EndReset
    BY <1>1 DEF EncodeNext, EndReset
  <2> QED BY <1>1, <2>1, EncodeUninterrupted DEF FramesGood
<1> QED BY <1>5, <1>6, <1>7 DEF FramesGood

\* Looking for a frame, and popping it
LEMMA PoppedFrame ==
  ASSUME NEW r, Shape("in", r), NEW id, NEW f
  PROVE  LET i == PlaceOfFrame(r, id, f)
             t == PopBufferByFrameId(r, id, f)
         IN /\ i \in 0 .. Len(r.queue)
            /\ i = 0 => t.queue = r.queue
            /\ i # 0 => t.queue = RemoveAt(r.queue, i)
            /\ Len(r.queue) = 1 => t.event = FALSE
            /\ Len(r.queue) # 1 => t.event = r.event
<1> DEFINE i == PlaceOfFrame(r, id, f)
<1>1. r.queue \in Seq(1 .. NIn)
  BY DEF Shape, PortType, Count
<1>2. i \in 0 .. Len(r.queue)
  BY <1>1, FrameFound
<1> HIDE DEF i
<1>3. PopBufferByFrameId(r, id, f)
        = [r EXCEPT !.queue = IF i = 0 THEN @ ELSE RemoveAt(@, i),
                    !.event = IF Len(r.queue) = 1 THEN FALSE ELSE @]
  BY DEF PopBufferByFrameId, Shape, PortType, i
<1>4. /\ PopBufferByFrameId(r, id, f).queue = (IF i = 0 THEN r.queue ELSE RemoveAt(r.queue, i))
      /\ PopBufferByFrameId(r, id, f).event = IF Len(r.queue) = 1 THEN FALSE ELSE r.event
  BY <1>3 DEF Shape, PortType
<1> QED BY <1>2, <1>4 DEF i

\* The frames MaxGop behind the codec go back by number.
LEMMA GiveFrames == ASSUME BufInv, FramesGood, GiveBack PROVE FramesGood'
<1> DEFINE q == port["in"].queue
           i == PlaceOfFrame(port["in"], Id, comp.pic)
           bs == IF i = 0 THEN {} ELSE {q[i]}
<1>1. /\ comp.pc = "giveback" /\ enc' = enc /\ codec' = codec /\ hist' = hist
      /\ port' = [port EXCEPT !["in"] = PopBufferByFrameId(@, Id, comp.pic)] /\ frame' = Emptied(bs)
      /\ comp' = IF i = 0 \/ comp.pic = 1 THEN AtLoop ELSE [comp EXCEPT !.pic = @ - 1]
  BY DEF GiveBack
<1>2. /\ comp \in CompType /\ "in" \in Ports /\ DOMAIN port = Ports /\ Queued = From(q, 1)
      /\ Shape("in", port["in"]) /\ Own(port["in"], cli.held["in"], 1)
      /\ q \in Seq(1 .. NIn) /\ Queued \subseteq 1 .. NIn /\ Once(q, 1)
      /\ frame \in [1 .. NIn -> FrameType]
  <2>1. Lo("in") = 1
    BY <1>1, InTypes
  <2> QED BY <1>1, <2>1, InTypes
<1>3. enc.next # NoId /\ comp.pic \in 1 .. enc.next - MaxGop /\ enc.next \in Nat /\ MaxGop \in Nat
  BY <1>1, FrameNumbers DEF FramesGood, Doing
<1>4. /\ i = 0 => port'["in"].queue = q
      /\ i # 0 => port'["in"].queue = RemoveAt(q, i)
      /\ i \in 0 .. Len(q)
  <2>1. port'["in"] = PopBufferByFrameId(port["in"], Id, comp.pic)
    BY <1>1, <1>2
  <2>2. PICK r, id, f : r = port["in"] /\ id = Id /\ f = comp.pic
    OBVIOUS
  <2>3. Shape("in", r)
    BY <1>2, <2>2
  <2>4. /\ PlaceOfFrame(r, id, f) = 0 => PopBufferByFrameId(r, id, f).queue = r.queue
        /\ PlaceOfFrame(r, id, f) # 0 => PopBufferByFrameId(r, id, f).queue = RemoveAt(r.queue, PlaceOfFrame(r, id, f))
        /\ PlaceOfFrame(r, id, f) \in 0 .. Len(r.queue)
    BY <2>3, PoppedFrame
  <2> QED BY <2>1, <2>2, <2>4
<1>5. Uninterrupted'
  <2>1. EncodeNext /\ ~EndReset
    BY <1>1 DEF EncodeNext, EndReset
  <2> QED BY <1>1, <2>1, EncodeUninterrupted DEF FramesGood
<1>6. comp'.pc = "loop" \/ (comp'.pc = "giveback" /\ comp'.pic \in 1 .. enc.next - MaxGop)
  <2>1. CASE comp' = AtLoop
    BY <2>1 DEF AtLoop
  <2>2. CASE comp.pic # 1 /\ comp' = [comp EXCEPT !.pic = @ - 1]
    <3>1. comp'.pc = "giveback" /\ comp'.pic = comp.pic - 1
      BY <1>1, <1>2, <2>2 DEF CompType
    <3> QED BY <1>3, <2>2, <3>1
  <2> QED BY <1>1, <2>1, <2>2
<1>7. Doing'
  BY <1>1, <1>3, <1>6 DEF Doing
<1>8. Queued' = From(port'["in"].queue, 1)
  BY <1>6 DEF Queued, Lo, Giving
<1>9. Data'
  <2>1. CASE i = 0
    <3>1. frame' = frame
      <4>1. \A a \in 1 .. NIn : frame'[a] = frame[a]
        BY <1>1, <2>1 DEF Emptied
      <4> QED BY <1>1, <1>2, <4>1 DEF Emptied
    <3> QED BY <1>1, <1>2, <1>4, <1>8, <2>1, <3>1, UnmovedData DEF Unmoved, FramesGood
  <2>2. CASE i # 0
    <3>1. i \in 1 .. Len(q) /\ Id[q[i]] = comp.pic
      BY <1>2, <2>2, FrameFound
    <3>2. q[i] \in Queued /\ q[i] \in 1 .. NIn
      <4>1. q[i] \in From(q, 1)
        BY <3>1 DEF From
      <4> QED BY <1>2, <4>1
    <3>3. PICK b, j : b = q[i] /\ j = i
      OBVIOUS
    <3>4. frame[b].id = comp.pic /\ b \in Queued
      BY <3>1, <3>2, <3>3 DEF Id
    <3>5. Queued' = Queued \ {b}
      <4>1. PICK S, s : S = 1 .. NIn /\ s = q
        OBVIOUS
      <4>2. s \in Seq(S) /\ j \in 1 .. Len(s) /\ Once(s, 1) /\ b = s[j]
        BY <1>2, <3>1, <3>3, <4>1
      <4>3. From(RemoveAt(s, j), 1) = From(s, 1) \ {b}
        BY <4>2, RemoveElems
      <4> QED BY <1>2, <1>4, <1>8, <2>2, <3>3, <4>1, <4>3
    <3>6. \A a \in Queued \ {b} : frame'[a] = frame[a]
      BY <1>1, <1>2, <2>2, <3>3 DEF Emptied
    <3>7. comp.pic \in Nat /\ comp.pic <= enc.next - MaxGop
      BY <1>3
    <3>8. frame[b].id \in hist.encoded /\ (frame[b].id = 0 \/ frame[b].id <= codec.end - MaxGop)
      BY <1>3, <3>4, <3>7, BehindGroup DEF FramesGood, Data
    <3> QED BY <1>1, <1>3, <3>4, <3>5, <3>6, <3>8, FrameGone DEF FramesGood
  <2> QED BY <2>1, <2>2
<1> QED BY <1>5, <1>7, <1>9 DEF FramesGood

\* While frames are encoded
LEMMA EncodeKeeps ==
  ASSUME BufInv, FramesGood, Live, hist'.whole, ~hist'.done, EncodeNext
  PROVE  FramesGood'
<1>1. NotWhole.whole = FALSE
  BY DEF NotWhole, NewStream
<1>2. ~StartRefused /\ ~DiscardFrame /\ ~EncodeGivesUp /\ ~EncodeRejects /\ ~EncodeFails /\ ~EndFails
  BY <1>1 DEF StartRefused, DiscardFrame, EncodeGivesUp, EncodeRejects, EncodeFails, EndFails, NotEncoded, Invalid
<1>3. ~EndStream
  BY InTypes DEF EndStream, HistType
<1>4. ~EndPop /\ ~EndReset
  BY DEF EndPop, EndReset, FramesGood, Doing
<1> QED BY <1>2, <1>3, <1>4, StillFrames, StartFrames, EncodeFrames, CodedFrames, PopFrames, GiveFrames
        DEF EncodeNext

\* One step of the system
LEMMA FrameStep ==
  ASSUME FrameInv, "again" \notin Allow, "refill" \notin Allow, [Next]_vars
  PROVE  FrameInv'
<1>1. BufInv /\ BufInv' /\ Types
  BY BufStep DEF FrameInv, BufInv
<1>2. CASE UNCHANGED vars
  <2>1. Queued' = Queued
    BY <1>2 DEF vars, Queued, Lo, Giving
  <2>2. Unmoved
    BY <1>2, <2>1 DEF vars, Unmoved
  <2>3. Doing' = Doing /\ Uninterrupted' = Uninterrupted /\ Live' = Live
    BY <1>2 DEF vars, Doing, Uninterrupted, Live
  <2>4. Data => Data'
    BY <2>2, UnmovedData
  <2> QED BY <1>1, <1>2, <2>3, <2>4 DEF FrameInv, Data, vars
<1>3. CASE Next
  <2>1. ASSUME hist'.whole, hist'.done PROVE hist'.last # NoId
    <3>1. /\ hist.whole /\ (hist.last # NoId => hist'.last # NoId)
          /\ hist.done \/ comp.pc = "end"
      BY <1>1, <1>3, <2>1, HistStep
    <3> QED BY <3>1 DEF FrameInv, Live, Doing
  <2>2. ASSUME hist'.whole, ~hist'.done PROVE FramesGood'
    <3>1. Live /\ FramesGood
      BY <1>1, <1>3, <2>2, HistStep DEF FrameInv, Live, FramesGood, Data
    <3>2. CASE ClientNext
      BY <1>1, <2>2, <3>1, <3>2, ClientFrames, EmptyFrames DEF ClientNext
    <3>3. CASE CommandNext
      BY <1>1, <2>2, <3>1, <3>3, CommandFrames
    <3>4. CASE EncodeNext
      BY <1>1, <2>2, <3>1, <3>4, EncodeKeeps
    <3> QED BY <1>3, <3>2, <3>3, <3>4 DEF Next, CompNext
  <2> QED BY <1>1, <2>1, <2>2 DEF FrameInv, Live, FramesGood, Data
<1> QED BY <1>2, <1>3

\* Before the first step
LEMMA FrameInit == ASSUME Init PROVE FrameInv
<1>1. BufInv /\ comp = AtLoop /\ hist = NewStream /\ codec = NoCodec /\ cli.cmd = NoCmd
  BY BufInit DEF Init
<1>2. /\ enc.inId = 0 /\ enc.next = NoId /\ enc.eos = FALSE /\ port["in"].queue = <<>>
  BY DEF Init, NewPort, Ports
<1>3. comp.pc = "loop" /\ comp.todo = <<>> /\ hist.n = 0 /\ hist.encoded = {} /\ hist.done = FALSE
  BY <1>1 DEF AtLoop, NewStream
<1>4. Queued = {}
  BY <1>2, <1>3, NoElems DEF Queued, Lo, Giving
<1>5. Numbered /\ NothingLost
  BY <1>2, <1>3, <1>4 DEF Numbered, NothingLost
<1>6. Groups
  BY <1>1, <1>2 DEF Groups, NoCodec
<1>7. Doing /\ Uninterrupted
  BY <1>1, <1>3 DEF Doing, Uninterrupted
<1> QED BY <1>1, <1>3, <1>5, <1>6, <1>7 DEF FrameInv

\* The numbering of the frames, the codec's groups and the queue fit together, for
\* any number of buffers and any sizes of groups up to OMX_MAX_GOP_SIZE.
THEOREM FrameInvariant == ASSUME "again" \notin Allow, "refill" \notin Allow PROVE Spec => []FrameInv
<1>1. Init => FrameInv
  BY FrameInit
<1>2. FrameInv /\ [Next]_vars => FrameInv'
  BY FrameStep
<1> QED BY <1>1, <1>2, PTL DEF Spec

\* A frame that is kept is found by its number.
LEMMA KeptFound ==
  ASSUME BufInv, NEW x, Kept(x)
  PROVE  PlaceOfFrame(port["in"], Id, x) # 0
<1>1. PICK b \in Queued : frame[b].id = x
  BY DEF Kept
<1>2. /\ port["in"].queue \in Seq(1 .. NIn) /\ Queued \subseteq 1 .. NIn
      /\ Lo("in") \in {1, 2} /\ Queued = From(port["in"].queue, Lo("in"))
  BY InTypes DEF Queued
<1>3. PICK j \in Lo("in") .. Len(port["in"].queue) : port["in"].queue[j] = b
  BY <1>1, <1>2 DEF From
<1>4. j \in 1 .. Len(port["in"].queue)
  BY <1>2, <1>3
<1>5. Id[port["in"].queue[j]] = x
  BY <1>1, <1>2, <1>3 DEF Id
<1>6. LET i == PlaceOfFrame(port["in"], Id, x) IN i \in 1 .. Len(port["in"].queue)
  BY <1>2, <1>4, <1>5, FrameFound
<1> QED BY <1>6

\* An input buffer goes back only when its frame has been encoded, however far ahead
\* the codec is: MaxGop is enough for the give-back loop.
THEOREM FramesStay == ASSUME "again" \notin Allow, "refill" \notin Allow PROVE Spec => []FramesKept
<1>1. FrameInv => FramesKept
  <2>1. SUFFICES ASSUME FrameInv, hist.whole, hist.last = NoId, NEW x \in 0 .. hist.n - 1
                 PROVE  x \in hist.encoded \/ PlaceOfFrame(port["in"], Id, x) # 0
    BY DEF FramesKept
  <2>2. BufInv /\ NothingLost
    BY <2>1 DEF FrameInv, Live
  <2>3. x \in hist.encoded \/ Kept(x)
    BY <2>1, <2>2 DEF NothingLost
  <2> QED BY <2>2, <2>3, KeptFound
<1> QED BY <1>1, FrameInvariant, PTL

-----------------------------------------------------------------------------
(* The events *)

\* A port whose event is in step, and its operations
LEMMA PortGoodOf ==
  ASSUME NEW p \in Ports, NEW r, Shape(p, r) PROVE EventInStep(r) => PortGood(1 .. Count(p), r)
BY DEF Shape, PortType, PortGood

\* All steps but the give-back loop keep the event of a port in step.
LEMMA EventStep ==
  ASSUME BufInv, Next, NEW p \in Ports, EventInStep(port[p]), ~(p = "in" /\ GiveBack)
  PROVE  EventInStep(port'[p])
<1>1. /\ DOMAIN port = Ports /\ "in" \in Ports /\ "out" \in Ports /\ cli \in ClientType /\ Types
      /\ \A o \in Ports : PortInv(o) /\ Shape(o, port[o])
  BY InTypes DEF BufInv, PortInv
<1>3. PortGood(1 .. Count(p), port[p])
  BY <1>1, PortGoodOf
<1>4. \A q \in {PopBuffer(port[p]), QueueClear(port[p])} : EventInStep(q)
  <2>1. PICK S, r : S = 1 .. Count(p) /\ r = port[p]
    OBVIOUS
  <2>2. PortGood(S, PopBuffer(r)) /\ PortGood(S, QueueClear(r))
    BY <1>3, <2>1, PopBufferGood, QueueClearGood
  <2> QED BY <2>1, <2>2 DEF PortGood
<1>5. ASSUME cli.held[p] # {} PROVE EventInStep(PushBuffer(port[p], Held(p)))
  <2>1. Held(p) \in 1 .. Count(p)
    BY <1>1, <1>5, BufferTypes
  <2>2. PICK S, r, b : S = 1 .. Count(p) /\ r = port[p] /\ b = Held(p)
    OBVIOUS
  <2>3. PortGood(S, PushBuffer(r, b))
    BY <1>3, <2>1, <2>2, PushBufferGood
  <2> QED BY <2>2, <2>3 DEF PortGood
<1>6. CASE (\E c \in Commands : SendCommand(c)) \/ (\E o \in Ports : UseBuffer(o) \/ FreeBuffer(o))
  <2>1. port'[p].queue = port[p].queue /\ port'[p].event = port[p].event
    BY <1>6, ClientQueues
  <2> QED BY <2>1 DEF EventInStep
<1>7. CASE FillThisBuffer
  <2>1. cli.held["out"] # {} /\ port' = [port EXCEPT !["out"] = PushBuffer(@, Held("out"))]
    BY <1>7 DEF FillThisBuffer, MayPush
  <2> QED BY <1>1, <1>5, <2>1 DEF Ports
<1>8. CASE \E eos, full \in BOOLEAN : EmptyThisBuffer(eos, full)
  <2>1. cli.held["in"] # {} /\ port' = [port EXCEPT !["in"] = PushBuffer(@, Held("in"))]
    BY <1>8 DEF EmptyThisBuffer, MayPush
  <2> QED BY <1>1, <1>5, <2>1 DEF Ports
<1>9. CASE QuietNext \/ StartStream \/ Coded \/ EndStream
  <2>1. port' = port
    BY <1>1, <1>9, QuietSteps DEF Quiet, StartStream, Coded, EndStream
  <2> QED BY <2>1
<1>10. CASE StartPop \/ EndPop \/ EncodeFrame \/ DiscardFrame
  <2>1. port' = [port EXCEPT !["out"] = PopBuffer(@)]
    BY <1>10 DEF StartPop, EndPop, EncodeFrame, DiscardFrame, Deliver
  <2> QED BY <1>1, <1>4, <2>1 DEF Ports
<1>11. CASE PopFirst
  <2>1. port' = [port EXCEPT !["in"] = PopBuffer(@)]
    BY <1>11 DEF PopFirst
  <2> QED BY <1>1, <1>4, <2>1 DEF Ports
<1>12. CASE ReturnBuffers
  <2>1. port' = [port EXCEPT ![Arg] = QueueClear(@)]
    BY <1>12 DEF ReturnBuffers
  <2>2. port'[p] = port[p] \/ port'[p] = QueueClear(port[p])
    BY <1>1, <2>1
  <2> QED BY <1>4, <2>2
<1>13. CASE GiveBack
  <2>1. \E r : port' = [port EXCEPT !["in"] = r]
    BY <1>13 DEF GiveBack
  <2> QED BY <1>1, <1>13, <2>1 DEF Ports
<1> QED BY <1>6, <1>7, <1>8, <1>9, <1>10, <1>11, <1>12, <1>13
        DEF Next, ClientNext, CompNext, CommandNext, EncodeNext, QuietNext

\* The groups of pictures leave two below OMX_MAX_GOP_SIZE.
ShortGroups == \A g \in GopSizes : g + 2 <= MaxGop

\* Two frames before the group that may still be referred to are then queued when the
\* give-back loop looks for another.
LEMMA TwoQueued ==
  ASSUME BufInv, FramesGood, ShortGroups, comp.pc = "giveback"
  PROVE  Len(port["in"].queue) >= 2
<1>1. /\ enc.next # NoId /\ comp.pic \in 1 .. enc.next - MaxGop /\ enc.next \in Nat /\ MaxGop \in Nat
      /\ hist.n \in Nat /\ codec.end \in Nat /\ enc.next = codec.cnt
  BY FrameNumbers DEF FramesGood, Doing, Data, Groups
<1>2. PICK g \in GopSizes : g <= codec.end /\ codec.left \cup {codec.cnt} \subseteq codec.end - g + 1 .. codec.end
  BY <1>1 DEF FramesGood, Data, Groups
<1>3. g \in Nat /\ g >= 1 /\ g + 2 <= MaxGop /\ codec.cnt \in codec.end - g + 1 .. codec.end
  BY <1>2, FrameNumbers DEF ShortGroups
<1>4. codec.end - g \in hist.encoded
  <2>1. /\ codec.end - g \in 0 .. codec.end /\ codec.end - g # codec.cnt
        /\ codec.end - g \notin codec.end - g + 1 .. codec.end
    BY <1>1, <1>2, <1>3
  <2>2. codec.end - g \notin codec.left
    BY <1>2, <2>1
  <2> QED BY <2>1, <2>2 DEF FramesGood, Data, Groups
<1>5. codec.end - g <= hist.n - 1
  <2>1. codec.end - g \in 0 .. hist.n - 1
    BY <1>4 DEF FramesGood, Data, NothingLost
  <2> QED BY <2>1
<1>6. PICK x, y : x = codec.end - MaxGop + 1 /\ y = codec.end - MaxGop + 2
  OBVIOUS
<1>7. /\ x \in 1 .. hist.n - 1 /\ y \in 1 .. hist.n - 1 /\ x # y
      /\ x > codec.end - MaxGop /\ y > codec.end - MaxGop
  BY <1>1, <1>3, <1>5, <1>6
<1>8. Kept(x) /\ Kept(y)
  BY <1>7 DEF FramesGood, Data, NothingLost
<1>9. PICK a, b \in Queued : frame[a].id = x /\ frame[b].id = y
  BY <1>8 DEF Kept
<1>10. a # b /\ Queued = From(port["in"].queue, 1) /\ port["in"].queue \in Seq(1 .. NIn)
  BY <1>7, <1>9, InTypes
<1>11. PICK i, j \in 1 .. Len(port["in"].queue) : port["in"].queue[i] = a /\ port["in"].queue[j] = b
  BY <1>9, <1>10 DEF From
<1>12. i # j /\ Len(port["in"].queue) \in Nat
  BY <1>10, <1>11
<1> QED BY <1>11, <1>12

\* So it does not reset the event when it misses a frame.
LEMMA GiveEvent ==
  ASSUME BufInv, FramesGood, ShortGroups, EventInStep(port["in"]), GiveBack
  PROVE  EventInStep(port'["in"])
<1> DEFINE q == port["in"].queue
           i == PlaceOfFrame(port["in"], Id, comp.pic)
<1>1. /\ comp.pc = "giveback" /\ DOMAIN port = Ports /\ "in" \in Ports /\ Shape("in", port["in"])
      /\ q \in Seq(1 .. NIn) /\ port'["in"] = PopBufferByFrameId(port["in"], Id, comp.pic)
  BY InTypes DEF GiveBack
<1>2. Len(q) >= 2 /\ Len(q) \in Nat
  BY <1>1, TwoQueued
<1>3. /\ i \in 0 .. Len(q)
      /\ i = 0 => port'["in"].queue = q
      /\ i # 0 => port'["in"].queue = RemoveAt(q, i)
      /\ port'["in"].event = port["in"].event
  <2>1. PICK r, id, f : r = port["in"] /\ id = Id /\ f = comp.pic
    OBVIOUS
  <2>2. Shape("in", r) /\ Len(r.queue) # 1
    <3>1. PICK m : m = Len(q)
      OBVIOUS
    <3>2. m \in Nat /\ m >= 2
      BY <1>2, <3>1
    <3>3. m # 1
      BY <3>2
    <3> QED BY <1>1, <2>1, <3>1, <3>3
  <2>3. /\ PlaceOfFrame(r, id, f) \in 0 .. Len(r.queue)
        /\ PlaceOfFrame(r, id, f) = 0 => PopBufferByFrameId(r, id, f).queue = r.queue
        /\ PlaceOfFrame(r, id, f) # 0 => PopBufferByFrameId(r, id, f).queue = RemoveAt(r.queue, PlaceOfFrame(r, id, f))
        /\ PopBufferByFrameId(r, id, f).event = r.event
    BY <2>2, PoppedFrame
  <2> QED BY <1>1, <2>1, <2>3
<1>4. q # <<>> /\ port'["in"].queue # <<>>
  <2>1. i # 0 => Len(RemoveAt(q, i)) = Len(q) - 1 /\ RemoveAt(q, i) \in Seq(1 .. NIn)
    <3>1. PICK S, s, j : S = 1 .. NIn /\ s = q /\ j = i
      OBVIOUS
    <3>2. j # 0 => s \in Seq(S) /\ j \in 1 .. Len(s)
      <4>1. i # 0 => i \in 1 .. Len(q)
        BY <1>2, <1>3
      <4> QED BY <1>1, <3>1, <4>1
    <3>3. j # 0 => Len(RemoveAt(s, j)) = Len(s) - 1 /\ RemoveAt(s, j) \in Seq(S)
      BY <3>2, RemoveAtLen
    <3> QED BY <3>1, <3>3
  <2>2. q # <<>>
    BY <1>2
  <2>3. i # 0 => Len(RemoveAt(q, i)) >= 1
    BY <1>2, <2>1
  <2>4. i # 0 => RemoveAt(q, i) # <<>>
    BY <2>1, <2>3
  <2> QED BY <1>3, <2>2, <2>4
<1> QED BY <1>3, <1>4 DEF EventInStep

\* After the end of the stream: the buffers are on their way back, and none comes in.
Over == comp.sig = FALSE /\ (Empty("in") \/ Returns(comp.todo, "in"))

\* The client
LEMMA OverClient ==
  ASSUME BufInv, hist.last # NoId, ~hist.done \/ "again" \notin Allow, ClientNext
  PROVE  comp' = comp /\ (Empty("in") => Empty("in")')
<1>1. "in" \in Ports /\ "out" \in Ports /\ DOMAIN port = Ports
  BY InTypes
<1>2. ~\E eos, full \in BOOLEAN : EmptyThisBuffer(eos, full)
  BY DEF EmptyThisBuffer, Send
<1>3. comp' = comp
  BY <1>2 DEF ClientNext, SendCommand, SendQueue, UseBuffer, FreeBuffer, FillThisBuffer
<1>4. CASE FillThisBuffer
  <2>1. port'["in"] = port["in"]
    BY <1>1, <1>4 DEF FillThisBuffer
  <2> QED BY <1>3, <2>1 DEF Empty
<1>5. CASE ~FillThisBuffer
  <2>1. Next
    BY DEF Next
  <2> QED BY <1>1, <1>2, <1>3, <1>5, <2>1, EmptyStays
<1> QED BY <1>4, <1>5

\* A step of a plan returns the buffers of the in port, or leaves that to a later one.
LEMMA OverTail ==
  ASSUME BufInv, Over, comp.todo # <<>>, StepDone, comp.pc = "cmd", Empty("in") => Empty("in")',
         comp.todo[1] = <<"return", "in">> => Empty("in")'
  PROVE  comp'.pc = "cmd" /\ Over'
<1>1. comp \in CompType /\ comp.todo \in Seq(Steps) /\ "in" \in Ports
  BY InTypes
<1>2. comp'.pc = "cmd" /\ comp'.todo = Tail(comp.todo) /\ comp'.sig = FALSE
  BY <1>1, Goes DEF Over
<1>3. CASE Empty("in")
  BY <1>2, <1>3 DEF Over
<1>4. CASE Returns(comp.todo, "in")
  <2>1. Returns(comp'.todo, "in") \/ comp.todo[1] = <<"return", "in">>
    BY <1>1, <1>2, <1>4, TailOf
  <2> QED BY <1>2, <2>1 DEF Over
<1> QED BY <1>3, <1>4 DEF Over

\* The component thread executes commands and finds no frames.
LEMMA OverCommands ==
  ASSUME BufInv, EventInStep(port["in"]), comp.pc \in {"cmd", "loop", "assert"}, Over, CommandNext, hist'.whole
  PROVE  comp'.pc \in {"cmd", "loop", "assert"} /\ Over'
<1>1. /\ comp \in CompType /\ DOMAIN port = Ports /\ "in" \in Ports /\ comp.todo \in Seq(Steps)
      /\ port["in"].event \in BOOLEAN /\ Types /\ OneCommand
  BY InTypes DEF Shape, PortType, BufInv
<1>2. Empty("in") => Empty("in")'
  <2>1. port' = port \/ \E o : port' = [port EXCEPT ![o] = QueueClear(@)]
    BY DEF CommandNext, LoopWake, LoopFetch, LoopDrained, ReturnBuffers, WaitReady, WaitFreed, CreateCodec, CreateFails,
           AssertEmpty, DestroyCodec, StopStream, SetState, RejectState, SetInvalid, CommandDone
  <2>2. port'["in"] = port["in"] \/ port'["in"] = QueueClear(port["in"])
    BY <1>1, <2>1
  <2> QED BY <2>2 DEF QueueClear, Empty
<1>3. ~CreateFails /\ ~SetInvalid
  <2>1. NotWhole.whole = FALSE
    BY DEF NotWhole, NewStream
  <2> QED BY <2>1 DEF CreateFails, SetInvalid, Invalid
<1>4. comp.todo = <<>> => Empty("in")
  <2>1. ~Returns(<<>>, "in")
    BY DEF Returns
  <2> QED BY <2>1 DEF Over
<1>5. CASE LoopWake
  <2>1. comp.pc = "loop" /\ port' = port
    BY <1>5 DEF LoopWake
  <2>2. Empty("in")
    BY <1>1, <1>4, <2>1 DEF OneCommand
  <2>3. port["in"].event = FALSE
    BY <1>1, <2>2 DEF EventInStep, Empty
  <2>4. comp' = [AtLoop EXCEPT !.pc = "cmd", !.sig = FALSE]
    BY <1>5, <2>3 DEF LoopWake
  <2>5. comp'.pc = "cmd" /\ comp'.sig = FALSE
    BY <2>4 DEF AtLoop
  <2> QED BY <1>2, <2>2, <2>5 DEF Over
<1>6. CASE LoopDrained
  <2>1. Empty("in") /\ comp' = AtLoop
    BY <1>4, <1>6 DEF LoopDrained, Over, AtLoop
  <2>2. comp'.pc = "loop" /\ comp'.sig = FALSE
    BY <2>1 DEF AtLoop
  <2> QED BY <1>2, <2>1, <2>2 DEF Over
<1>7. CASE LoopFetch
  <2>1. Empty("in") /\ comp.pc = "cmd" /\ comp' = [comp EXCEPT !.todo = Plan(Head(cmdq))]
    BY <1>4, <1>7 DEF LoopFetch
  <2>2. comp'.pc = "cmd" /\ comp'.sig = FALSE
    BY <1>1, <2>1 DEF CompType, Over
  <2> QED BY <1>2, <2>1, <2>2 DEF Over
<1>8. CASE AssertEmpty /\ ~StepDone
  <2>1. comp' = [comp EXCEPT !.pc = "assert"]
    BY <1>8 DEF AssertEmpty
  <2>2. comp'.pc = "assert" /\ comp'.sig = FALSE /\ comp'.todo = comp.todo
    BY <1>1, <2>1 DEF CompType, Over
  <2> QED BY <1>2, <2>2 DEF Over
<1>9. CASE ReturnBuffers
  <2>1. comp.todo # <<>> /\ StepDone /\ comp.pc = "cmd" /\ port' = [port EXCEPT ![Arg] = QueueClear(@)]
    BY <1>9 DEF ReturnBuffers, At
  <2>2. comp.todo[1] = <<"return", "in">> => Empty("in")'
    <3>1. SUFFICES ASSUME comp.todo[1] = <<"return", "in">> PROVE Empty("in")'
      OBVIOUS
    <3>2. Arg = "in"
      BY <3>1 DEF Arg
    <3>3. port'["in"] = QueueClear(port["in"])
      BY <1>1, <2>1, <3>2
    <3> QED BY <3>3 DEF QueueClear, Empty
  <2> QED BY <1>2, <2>1, <2>2, OverTail
<1>10. CASE /\ StepDone
            /\ \/ WaitReady \/ WaitFreed \/ CreateCodec \/ AssertEmpty \/ DestroyCodec \/ StopStream
               \/ SetState \/ RejectState \/ CommandDone
  <2>1. comp.todo # <<>> /\ comp.pc = "cmd" /\ comp.todo[1][1] # "return"
    BY <1>10 DEF WaitReady, WaitFreed, CreateCodec, AssertEmpty, DestroyCodec, StopStream, SetState, RejectState,
                 CommandDone, At
  <2>2. comp.todo[1] # <<"return", "in">>
    BY <2>1
  <2> QED BY <1>2, <1>10, <2>1, <2>2, OverTail
<1>11. WaitReady \/ WaitFreed \/ CreateCodec \/ DestroyCodec \/ StopStream \/ SetState \/ RejectState \/ CommandDone
         => StepDone
  BY DEF WaitReady, WaitFreed, CreateCodec, DestroyCodec, StopStream, SetState, RejectState, CommandDone
<1> QED BY <1>3, <1>5, <1>6, <1>7, <1>8, <1>9, <1>10, <1>11 DEF CommandNext

\* After the end of the stream no frame is looked at.
LEMMA FinishedStep ==
  ASSUME StepInv, "again" \notin Allow, "refill" \notin Allow, Next PROVE Finished'
<1>1. SUFFICES ASSUME hist'.whole, hist'.done
               PROVE  comp'.pc \in {"endpop", "endid"} \/ (comp'.pc \in {"cmd", "loop", "assert"} /\ Over')
  BY DEF Finished, Over
<1>2. BufInv /\ Types /\ comp \in CompType /\ hist \in HistType
  BY InTypes DEF StepInv, FrameInv, BufInv
<1>3. hist.whole /\ (hist.done \/ comp.pc = "end") /\ EventInStep(port["in"])
  BY <1>1, <1>2, HistStep DEF StepInv, EventsInStep
<1>4. CASE ~hist.done
  <2>1. comp.pc = "end"
    BY <1>3, <1>4
  <2>2. EndStream
    <3>1. hist' # hist
      BY <1>1, <1>4
    <3>2. ~ClientNext
      <4>1. ASSUME ClientNext PROVE hist' = hist \/ hist'.done = FALSE
        <5>1. CASE \E c \in Commands : SendCommand(c)
          BY <5>1 DEF SendCommand, NotWhole, NewStream
        <5>2. CASE \E eos, full \in BOOLEAN : EmptyThisBuffer(eos, full)
          BY <1>2, <1>4, <5>2 DEF EmptyThisBuffer, Send, HistType
        <5> QED BY <4>1, <5>1, <5>2 DEF ClientNext, SendQueue, UseBuffer, FreeBuffer, FillThisBuffer
      <4> QED BY <1>1, <3>1, <4>1
    <3>3. ~CommandNext
      BY <2>1
      DEF CommandNext, LoopWake, LoopFetch, LoopDrained, ReturnBuffers, WaitReady, WaitFreed, CreateCodec,
          CreateFails, AssertEmpty, DestroyCodec, StopStream, SetState, RejectState, SetInvalid, CommandDone, At
    <3>4. ~EndFails
      BY <1>1 DEF EndFails, NotWhole, NewStream
    <3> QED BY <2>1, <3>1, <3>2, <3>3, <3>4
        DEF Next, CompNext, EncodeNext, StreamRuns, StartStream, StartRefused, StartGivesUp, StartPop, PickFrame,
            NoFrame, EncodeFrame, DiscardFrame, EncodeGivesUp, EncodeRejects, EncodeFails, Coded, PopFirst,
            GiveBack, EndGivesUp, EndPop, EndReset
  <2> QED BY <1>2, <2>2, Goes DEF EndStream
<1>5. CASE hist.done
  <2>1. hist.last # NoId /\ (comp.pc \in {"endpop", "endid"} \/ (comp.pc \in {"cmd", "loop", "assert"} /\ Over))
    BY <1>3, <1>5 DEF StepInv, FrameInv, Finished, Over
  <2>2. CASE ClientNext
    <3>1. comp' = comp /\ (Empty("in") => Empty("in")')
      BY <1>2, <2>1, <2>2, OverClient
    <3> QED BY <2>1, <3>1 DEF Over
  <2>3. CASE CommandNext
    <3>1. comp.pc \notin {"endpop", "endid"}
      BY <2>3
      DEF CommandNext, LoopWake, LoopFetch, LoopDrained, ReturnBuffers, WaitReady, WaitFreed, CreateCodec,
          CreateFails, AssertEmpty, DestroyCodec, StopStream, SetState, RejectState, SetInvalid, CommandDone, At
    <3> QED BY <1>1, <1>2, <1>3, <2>1, <2>3, <3>1, OverCommands
  <2>4. CASE EncodeNext
    <3>1. EndPop \/ EndReset
      BY <2>1, <2>4
      DEF EncodeNext, StreamRuns, StartStream, StartRefused, StartGivesUp, StartPop, PickFrame,
          NoFrame, EncodeFrame, DiscardFrame, EncodeGivesUp, EncodeRejects, EncodeFails, Coded, PopFirst,
          GiveBack, EndStream, EndFails, EndGivesUp
    <3>2. CASE EndPop
      BY <1>2, <3>2, Goes DEF EndPop
    <3>3. CASE EndReset
      <4>1. comp' = [AtLoop EXCEPT !.pc = "cmd", !.todo = ReturnPlan("all")]
        BY <3>3 DEF EndReset
      <4>2. comp'.pc = "cmd" /\ comp'.sig = FALSE /\ comp'.todo = ReturnPlan("all")
        BY <4>1 DEF AtLoop
      <4> QED BY <4>2, ReturnPlanEnds DEF Over
    <3> QED BY <3>1, <3>2, <3>3
  <2> QED BY <2>2, <2>3, <2>4 DEF Next, CompNext
<1> QED BY <1>4, <1>5

\* One step of the system
LEMMA StepStep ==
  ASSUME StepInv, "again" \notin Allow, "refill" \notin Allow, ShortGroups, [Next]_vars
  PROVE  StepInv'
<1>1. FrameInv /\ FrameInv' /\ BufInv
  BY FrameStep DEF StepInv, FrameInv
<1>2. CASE UNCHANGED vars
  BY <1>1, <1>2 DEF vars, StepInv, EventsInStep, Finished, Empty
<1>3. CASE Next
  <2>1. "in" \in Ports /\ "out" \in Ports /\ Types
    BY <1>1, InTypes DEF BufInv
  <2>2. EventInStep(port'["out"])
    <3>1. EventInStep(port["out"])
      BY DEF StepInv, EventsInStep
    <3> QED BY <1>1, <1>3, <2>1, <3>1, EventStep
  <2>3. ASSUME hist'.whole PROVE EventInStep(port'["in"])
    <3>1. hist.whole /\ EventInStep(port["in"])
      BY <1>3, <2>1, <2>3, HistStep DEF StepInv, EventsInStep
    <3>2. CASE ~GiveBack
      BY <1>1, <1>3, <2>1, <3>1, <3>2, EventStep
    <3>3. CASE GiveBack
      <4>1. ~hist.done
        BY <3>1, <3>3 DEF GiveBack, StepInv, Finished
      <4>2. FramesGood
        BY <1>1, <3>1, <4>1 DEF FrameInv, Live, FramesGood, Data
      <4> QED BY <1>1, <3>1, <3>3, <4>2, GiveEvent
    <3> QED BY <3>2, <3>3
  <2>4. EventsInStep'
    BY <2>2, <2>3 DEF EventsInStep
  <2> QED BY <1>1, <1>3, <2>4, FinishedStep DEF StepInv
<1> QED BY <1>2, <1>3

\* The events of the ports say whether buffers are queued, while the stream is whole
\* and the groups of pictures leave two below OMX_MAX_GOP_SIZE: the component thread
\* is not left asleep with buffers queued.
THEOREM EncoderEvents == ASSUME "again" \notin Allow, "refill" \notin Allow, ShortGroups PROVE Spec => []EventsInStep
<1>1. Init => StepInv
  <2>1. SUFFICES ASSUME Init PROVE StepInv
    OBVIOUS
  <2>2. FrameInv /\ hist.done = FALSE
    BY <2>1, FrameInit DEF Init, NewStream
  <2>3. \A p \in Ports : port[p].queue = <<>> /\ port[p].event = FALSE
    BY <2>1 DEF Init, NewPort
  <2>4. EventsInStep
    BY <2>3 DEF EventsInStep, EventInStep, Ports
  <2> QED BY <2>2, <2>4 DEF StepInv, Finished
<1>2. StepInv /\ [Next]_vars => StepInv'
  BY StepStep
<1>3. StepInv => EventsInStep
  BY DEF StepInv
<1> QED BY <1>1, <1>2, <1>3, PTL DEF Spec
=============================================================================
