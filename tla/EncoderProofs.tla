---------------------------- MODULE EncoderProofs ---------------------------
(***************************************************************************)
(* Proofs about the buffers of the encoder, for any number of buffers, any *)
(* groups of pictures and any client.                                      *)
(*                                                                         *)
(* A buffer is the client's or in a queue.  The callback that gives a      *)
(* buffer back comes before the buffer is popped in three places, and the  *)
(* client may use the buffer at once: push it a second time, or free it    *)
(* and allocate it again.  The invariant therefore speaks of the queue     *)
(* without its head while such a callback is being made.                   *)
(***************************************************************************)
EXTENDS Encoder, PortProofs

-----------------------------------------------------------------------------
(* A port r of the component, the buffers h the client has of it, and the    *)
(* first place lo of the queue whose buffer has not been given to the client *)

Shape(p, r) ==
  /\ r \in PortType(p)
  /\ r.qcap # 0 /\ Len(r.queue) <= r.qcap
  /\ Len(r.buffers) <= Count(p) /\ Count(p) <= r.bcap
  /\ r.populated <=> Len(r.buffers) = Count(p)
  /\ Once(r.buffers, 1)

Own(r, h, lo) ==
  /\ lo = 2 => r.queue # <<>>
  /\ Once(r.queue, lo)
  /\ From(r.queue, lo) \cap h = {}
  /\ From(r.queue, lo) \cup h = From(r.buffers, 1)

\* The buffer that is allocated next and the port then, the port when a buffer has
\* been freed, and the buffer that holds a frame
Fresh(p, r) == CHOOSE n \in 1 .. Count(p) : ~Contains(r.buffers, n)
Alloc(p, r) ==
  LET q == AllocateNextBuffer(r, Fresh(p, r)) IN [q EXCEPT !.populated = Len(q.buffers) = Count(p)]
Freed(r, b) == [RemoveBufferAt(r, FindBuffer(r, b)) EXCEPT !.populated = FALSE]
Found(r, id, f) ==
  LET i == PlaceOfFrame(r, id, f) IN IF i = 0 THEN {} ELSE {r.queue[i]}

\* A port has at least one buffer.
LEMMA Counts == \A p \in Ports : Count(p) \in Nat \ {0}
BY EncoderConstantsOK DEF EncoderConstantsOK, Count, Ports

\* What is queued from a place on is queued.
LEMMA FromType == ASSUME NEW S, NEW s \in Seq(S), NEW lo \in {1, 2} PROVE From(s, lo) \subseteq S
<1>1. ASSUME NEW i \in lo .. Len(s) PROVE s[i] \in S
  OBVIOUS
<1> QED BY <1>1 DEF From

\* Two ports that differ in what Shape does not mention
LEMMA ShapeOf ==
  ASSUME NEW p \in Ports, NEW r, Shape(p, r), NEW t \in PortType(p),
         t.qcap # 0, Len(t.queue) <= t.qcap, t.buffers = r.buffers, t.bcap = r.bcap, t.populated = r.populated
  PROVE  Shape(p, t)
BY DEF Shape

\* A full queue is given room, so the buffer goes in.
LEMMA PushOwn ==
  ASSUME NEW p \in Ports, NEW r, Shape(p, r), NEW h, NEW lo \in {1, 2}, Own(r, h, lo), NEW b \in h
  PROVE  /\ Shape(p, PushBuffer(r, b)) /\ Own(PushBuffer(r, b), h \ {b}, lo)
         /\ PushBuffer(r, b).queue = Append(r.queue, b) /\ PushBuffer(r, b).event = TRUE
         /\ PushBuffer(r, b).buffers = r.buffers
<1> DEFINE cap == IF Len(r.queue) = r.qcap THEN r.qcap * 2 ELSE r.qcap
           q == Append(r.queue, b)
           S == 1 .. Count(p)
<1>1. r.queue \in Seq(S) /\ r.qcap \in Nat \ {0} /\ Len(r.queue) \in Nat /\ Len(r.queue) <= r.qcap
      /\ r.buffers \in Seq(S)
  BY DEF Shape, PortType
<1>2. cap \in Nat \ {0} /\ Len(r.queue) # cap /\ Len(r.queue) + 1 <= cap
  BY <1>1
<1>3. b \in S /\ b \notin From(r.queue, lo)
  <2>1. b \in From(r.buffers, 1) /\ b \notin From(r.queue, lo)
    BY DEF Own
  <2>2. From(r.buffers, 1) \subseteq S
    BY <1>1, FromType
  <2> QED BY <2>1, <2>2
<1>4. lo <= Len(r.queue) + 1
  <2>1. lo = 2 => Len(r.queue) # 0
    BY <1>1, EmptySeq DEF Own
  <2> QED BY <1>1, <2>1
<1>5. /\ q \in Seq(S) /\ Len(q) = Len(r.queue) + 1 /\ Once(q, lo)
      /\ From(q, lo) = From(r.queue, lo) \cup {b} /\ q # <<>>
  <2>1. Once(r.queue, lo)
    BY DEF Own
  <2>2. q # <<>>
    BY <1>1, <1>3
  <2> HIDE DEF S
  <2>3. /\ q \in Seq(S) /\ Len(q) = Len(r.queue) + 1 /\ Once(q, lo)
        /\ From(q, lo) = From(r.queue, lo) \cup {b}
    BY <1>1, <1>3, <1>4, <2>1, PushElems
  <2> QED BY <2>2, <2>3
<1>6. PushBuffer(r, b) = [r EXCEPT !.queue = q, !.qcap = cap, !.event = TRUE]
  BY <1>2 DEF PushBuffer, ListPush
<1> HIDE DEF q, cap
<1>7. PICK t : t = PushBuffer(r, b)
  OBVIOUS
<1>8. /\ t \in PortType(p) /\ t.queue = q /\ t.qcap = cap /\ t.event = TRUE
      /\ t.buffers = r.buffers /\ t.bcap = r.bcap /\ t.populated = r.populated
  BY <1>2, <1>5, <1>6, <1>7 DEF Shape, PortType
<1>9. Shape(p, t)
  BY <1>2, <1>5, <1>8, ShapeOf
<1>10. Own(t, h \ {b}, lo)
  BY <1>3, <1>5, <1>8 DEF Own
<1> QED BY <1>7, <1>8, <1>9, <1>10 DEF q

\* The callback for the head of the queue,
LEMMA GiveHead ==
  ASSUME NEW p \in Ports, NEW r, Shape(p, r), NEW h, Own(r, h, 1), r.queue # <<>>
  PROVE  Own(r, h \cup {Head(r.queue)}, 2)
<1>1. r.queue \in Seq(1 .. Count(p))
  BY DEF Shape, PortType
<1> QED BY <1>1, HeadElems DEF Own

\* and its removal.
LEMMA PopGiven ==
  ASSUME NEW p \in Ports, NEW r, Shape(p, r), NEW h, Own(r, h, 2)
  PROVE  /\ Shape(p, PopBuffer(r)) /\ Own(PopBuffer(r), h, 1)
         /\ PopBuffer(r).queue = RemoveAt(r.queue, 1)
         /\ PopBuffer(r).event = IF Len(r.queue) = 1 THEN FALSE ELSE r.event
<1> DEFINE q == RemoveAt(r.queue, 1)
           e == IF Len(r.queue) = 1 THEN FALSE ELSE r.event
<1>1. r.queue \in Seq(1 .. Count(p)) /\ r.queue # <<>> /\ Len(r.queue) \in Nat /\ r.qcap \in Nat
      /\ Len(r.queue) <= r.qcap
  BY DEF Shape, PortType, Own
<1>2. PopBuffer(r) = [r EXCEPT !.queue = q, !.event = e]
  BY <1>1 DEF PopBuffer, PopBufferAt
<1>3. q \in Seq(1 .. Count(p)) /\ Len(q) = Len(r.queue) - 1 /\ Once(q, 1) /\ From(q, 1) = From(r.queue, 2)
  BY <1>1, HeadElems DEF Own
<1>4. e \in BOOLEAN
  BY DEF Shape, PortType
<1> HIDE DEF q, e
<1>5. PICK t : t = PopBuffer(r)
  OBVIOUS
<1>6. /\ t \in PortType(p) /\ t.queue = q /\ t.qcap = r.qcap /\ t.event = e
      /\ t.buffers = r.buffers /\ t.bcap = r.bcap /\ t.populated = r.populated
  BY <1>2, <1>3, <1>4, <1>5 DEF Shape, PortType
<1>7. Shape(p, t)
  <2>1. t.qcap # 0 /\ Len(t.queue) <= t.qcap
    BY <1>1, <1>3, <1>6 DEF Shape
  <2> QED BY <1>6, <2>1, ShapeOf
<1>8. Own(t, h, 1)
  BY <1>3, <1>6 DEF Own
<1> QED BY <1>5, <1>6, <1>7, <1>8 DEF q, e

\* A buffer is looked for, popped and given back.
LEMMA PopFrameOwn ==
  ASSUME NEW p \in Ports, NEW r, Shape(p, r), NEW h, Own(r, h, 1), NEW id, NEW f
  PROVE  LET i == PlaceOfFrame(r, id, f)
             t == PopBufferByFrameId(r, id, f)
         IN /\ Shape(p, t) /\ Own(t, h \cup Found(r, id, f), 1)
            /\ i \in 0 .. Len(r.queue) /\ Found(r, id, f) \subseteq From(r.queue, 1)
            /\ t.queue = (IF i = 0 THEN r.queue ELSE RemoveAt(r.queue, i))
            /\ t.event = IF Len(r.queue) = 1 THEN FALSE ELSE r.event
            /\ t.buffers = r.buffers
<1> DEFINE i == PlaceOfFrame(r, id, f)
           q == IF i = 0 THEN r.queue ELSE RemoveAt(r.queue, i)
           e == IF Len(r.queue) = 1 THEN FALSE ELSE r.event
           bs == IF i = 0 THEN {} ELSE {r.queue[i]}
<1>1. /\ r.queue \in Seq(1 .. Count(p)) /\ Len(r.queue) \in Nat /\ r.qcap \in Nat
      /\ Len(r.queue) <= r.qcap /\ Once(r.queue, 1)
  BY DEF Shape, PortType, Own
<1>2. i \in 0 .. Len(r.queue)
  BY <1>1, FrameFound
<1>3. PopBufferByFrameId(r, id, f) = [r EXCEPT !.queue = q, !.event = e]
  BY DEF PopBufferByFrameId, Shape, PortType
<1> HIDE DEF i
<1>4. /\ q \in Seq(1 .. Count(p)) /\ Len(q) <= Len(r.queue) /\ Once(q, 1) /\ From(q, 1) = From(r.queue, 1) \ bs
      /\ bs \subseteq From(r.queue, 1)
  <2>1. CASE i = 0
    BY <1>1, <2>1
  <2>2. CASE i # 0
    <3>1. i \in 1 .. Len(r.queue)
      BY <1>1, <1>2, <2>2
    <3>2. q = RemoveAt(r.queue, i) /\ bs = {r.queue[i]} /\ bs \subseteq From(r.queue, 1)
      BY <2>2, <3>1 DEF From
    <3>3. /\ q \in Seq(1 .. Count(p)) /\ Len(q) = Len(r.queue) - 1 /\ Once(q, 1)
          /\ From(q, 1) = From(r.queue, 1) \ {r.queue[i]}
      BY <1>1, <3>1, <3>2, RemoveElems
    <3> QED BY <1>1, <3>2, <3>3
  <2> QED BY <2>1, <2>2
<1>5. e \in BOOLEAN
  BY DEF Shape, PortType
<1> HIDE DEF q, e, bs
<1>6. PICK t : t = PopBufferByFrameId(r, id, f)
  OBVIOUS
<1>7. /\ t \in PortType(p) /\ t.queue = q /\ t.qcap = r.qcap /\ t.event = e
      /\ t.buffers = r.buffers /\ t.bcap = r.bcap /\ t.populated = r.populated
  BY <1>3, <1>4, <1>5, <1>6 DEF Shape, PortType
<1>8. Shape(p, t)
  <2>1. t.qcap # 0 /\ Len(t.queue) <= t.qcap
    BY <1>1, <1>4, <1>7 DEF Shape
  <2> QED BY <1>7, <2>1, ShapeOf
<1>9. Own(t, h \cup bs, 1)
  BY <1>4, <1>7 DEF Own
<1> QED BY <1>2, <1>4, <1>6, <1>7, <1>8, <1>9 DEF i, q, e, bs, Found

\* The whole queue is given back.
LEMMA ClearOwn ==
  ASSUME NEW p \in Ports, NEW r, Shape(p, r), NEW h, Own(r, h, 1)
  PROVE  LET t == QueueClear(r)
         IN /\ Shape(p, t) /\ Own(t, h \cup ToSet(r.queue), 1)
            /\ t.queue = <<>> /\ t.event = (IF r.queue = <<>> THEN r.event ELSE FALSE)
            /\ t.buffers = r.buffers
<1>1. r.queue \in Seq(1 .. Count(p)) /\ ToSet(r.queue) = From(r.queue, 1)
  BY DEF Shape, PortType, ToSet, From
<1>2. <<>> \in Seq(1 .. Count(p)) /\ Len(<<>>) = 0
  OBVIOUS
<1>3. CASE r.queue = <<>>
  <2>1. QueueClear(r) = r /\ From(r.queue, 1) = {}
    BY <1>3, NoElems DEF QueueClear
  <2>2. h \cup ToSet(r.queue) = h
    BY <1>1, <2>1
  <2> QED BY <1>3, <2>1, <2>2
<1>4. CASE r.queue # <<>>
  <2> DEFINE q == <<>>
  <2>1. QueueClear(r) = [r EXCEPT !.queue = q, !.event = FALSE] /\ q \in Seq(1 .. Count(p)) /\ Len(q) = 0
        /\ From(q, 1) = {} /\ Once(q, 1)
    BY <1>2, <1>4, NoElems DEF QueueClear
  <2> HIDE DEF q
  <2>2. PICK t : t = QueueClear(r)
    OBVIOUS
  <2>3. /\ t \in PortType(p) /\ t.queue = q /\ t.qcap = r.qcap /\ t.event = FALSE
        /\ t.buffers = r.buffers /\ t.bcap = r.bcap /\ t.populated = r.populated
    BY <2>1, <2>2 DEF Shape, PortType
  <2>4. Shape(p, t)
    <3>1. t.qcap # 0 /\ Len(t.queue) <= t.qcap
      BY <2>1, <2>3 DEF Shape, PortType
    <3> QED BY <2>3, <3>1, ShapeOf
  <2>5. Own(t, h \cup ToSet(r.queue), 1)
    BY <1>1, <2>1, <2>3 DEF Own
  <2> QED BY <1>4, <2>2, <2>3, <2>4, <2>5 DEF q
<1> QED BY <1>3, <1>4

\* While a port is not populated there is a buffer to allocate.
LEMMA BufferLeft ==
  ASSUME NEW p \in Ports, NEW s \in Seq(1 .. Count(p)), Len(s) < Count(p)
  PROVE  \E n \in 1 .. Count(p) : ~Contains(s, n)
<1> DEFINE N == Count(p)
<1>1. N \in Nat /\ Len(s) \in Nat
  BY Counts
<1> HIDE DEF N
<1> SUFFICES ASSUME \A n \in 1 .. N : \E i \in 1 .. Len(s) : s[i] = n PROVE FALSE
  BY DEF Contains, N
<1>2. s \in [1 .. Len(s) -> 1 .. N]
  BY LenProperties DEF N
<1>3. s \in Surjection(1 .. Len(s), 1 .. N)
  BY <1>2 DEF Surjection
<1>4. /\ IsFiniteSet(1 .. Len(s)) /\ Cardinality(1 .. Len(s)) = Len(s)
      /\ Cardinality(1 .. N) = N
  <2>1. \A n \in Nat : IsFiniteSet(1 .. n) /\ Cardinality(1 .. n) = n
    <3> SUFFICES ASSUME NEW n \in Nat PROVE IsFiniteSet(1 .. n) /\ Cardinality(1 .. n) = n
      OBVIOUS
    <3>1. 1 \in Int /\ n \in Int
      OBVIOUS
    <3>2. IsFiniteSet(1 .. n) /\ Cardinality(1 .. n) = IF 1 > n THEN 0 ELSE n - 1 + 1
      BY <3>1, FS_Interval
    <3> QED BY <3>2
  <2> QED BY <1>1, <2>1
<1>5. Cardinality(1 .. N) <= Cardinality(1 .. Len(s))
  BY <1>3, <1>4, FS_Surjection
<1> QED BY <1>1, <1>4, <1>5 DEF N

\* What the operations that add a buffer do to the queue alone
LEMMA PushedQueue ==
  ASSUME NEW p \in Ports, NEW r, Shape(p, r), NEW b \in 1 .. Count(p)
  PROVE  PushBuffer(r, b).queue = Append(r.queue, b)
<1> DEFINE cap == IF Len(r.queue) = r.qcap THEN r.qcap * 2 ELSE r.qcap
<1>1. r \in PortType(p) /\ r.qcap \in Nat \ {0} /\ Len(r.queue) \in Nat /\ Len(r.queue) <= r.qcap
  BY DEF Shape, PortType
<1>2. Len(r.queue) # cap
  BY <1>1
<1>3. ListPush(r.queue, cap, b) = Append(r.queue, b)
  BY <1>2 DEF ListPush
<1>4. PushBuffer(r, b) = [r EXCEPT !.queue = ListPush(r.queue, cap, b), !.qcap = cap, !.event = TRUE]
  BY DEF PushBuffer
<1> HIDE DEF cap
<1> QED BY <1>1, <1>3, <1>4 DEF PortType

\* UseBuffer queues nothing.
LEMMA AllocatedQueue ==
  ASSUME NEW p \in Ports, NEW r, Shape(p, r)
  PROVE  Alloc(p, r).queue = r.queue /\ Alloc(p, r).event = r.event
BY DEF Alloc, AllocateNextBuffer, Shape, PortType

\* It becomes the client's,
LEMMA AllocOwn ==
  ASSUME NEW p \in Ports, NEW r, Shape(p, r), NEW h, NEW lo \in {1, 2}, Own(r, h, lo),
         r.populated = FALSE
  PROVE  /\ Shape(p, Alloc(p, r)) /\ Own(Alloc(p, r), h \cup {Fresh(p, r)}, lo)
         /\ Fresh(p, r) \in 1 .. Count(p) /\ Fresh(p, r) \notin h
         /\ Alloc(p, r).queue = r.queue /\ Alloc(p, r).event = r.event
<1> DEFINE S == 1 .. Count(p)
           b == CHOOSE n \in S : ~Contains(r.buffers, n)
           bs == Append(r.buffers, b)
           full == Len(bs) = Count(p)
<1>1. /\ r.buffers \in Seq(S) /\ Len(r.buffers) \in Nat /\ Count(p) \in Nat /\ r.bcap \in Nat
      /\ Len(r.buffers) < Count(p) /\ Len(r.buffers) # r.bcap /\ Once(r.buffers, 1)
  BY Counts DEF Shape, PortType
<1>2. b \in S /\ ~Contains(r.buffers, b)
  BY <1>1, BufferLeft
<1>3. b \notin From(r.buffers, 1)
  BY <1>1, <1>2 DEF From, Contains
<1>4. AllocateNextBuffer(r, b) = [r EXCEPT !.buffers = bs, !.bcap = r.bcap]
  BY <1>1 DEF AllocateNextBuffer, ListPush
<1> HIDE DEF b, S
<1>5. /\ bs \in Seq(S) /\ Len(bs) = Len(r.buffers) + 1 /\ Once(bs, 1)
      /\ From(bs, 1) = From(r.buffers, 1) \cup {b}
  BY <1>1, <1>2, <1>3, PushElems
<1> HIDE DEF bs
<1>6. PICK t : t = [r EXCEPT !.buffers = bs, !.populated = full]
  OBVIOUS
<1>7. full \in BOOLEAN
  OBVIOUS
<1> HIDE DEF full
<1>8. /\ t \in PortType(p) /\ t.queue = r.queue /\ t.qcap = r.qcap /\ t.event = r.event
      /\ t.buffers = bs /\ t.bcap = r.bcap /\ t.populated = full
  BY <1>5, <1>6, <1>7 DEF Shape, PortType, S
<1>9. Shape(p, t)
  <2>1. t.qcap # 0 /\ Len(t.queue) <= t.qcap
    BY <1>8 DEF Shape
  <2>2. Len(t.buffers) <= Count(p) /\ Count(p) <= t.bcap
    BY <1>1, <1>5, <1>8 DEF Shape
  <2>3. t.populated <=> Len(t.buffers) = Count(p)
    BY <1>8, Zenon DEF full
  <2> QED BY <1>5, <1>8, <2>1, <2>2, <2>3 DEF Shape
<1>10. Own(t, h \cup {b}, lo) /\ b \notin h
  <2>1. b \notin From(r.queue, lo) /\ b \notin h
    BY <1>3 DEF Own
  <2> QED BY <1>5, <1>8, <2>1 DEF Own
<1>11. LET q == AllocateNextBuffer(r, b) IN [q EXCEPT !.populated = Len(q.buffers) = Count(p)] = t
  BY <1>4, <1>6 DEF Shape, PortType, full
<1> QED BY <1>2, <1>8, <1>9, <1>10, <1>11 DEF b, S, Fresh, Alloc

\* and what the client frees is no longer allocated.
LEMMA FreeOwn ==
  ASSUME NEW p \in Ports, NEW r, Shape(p, r), NEW h, NEW lo \in {1, 2}, Own(r, h, lo), NEW b \in h
  PROVE  /\ Shape(p, Freed(r, b)) /\ Own(Freed(r, b), h \ {b}, lo)
         /\ Freed(r, b).queue = r.queue /\ Freed(r, b).event = r.event
<1> DEFINE S == 1 .. Count(p)
           i == FindBuffer(r, b)
           bs == RemoveAt(r.buffers, i)
<1>1. /\ r.buffers \in Seq(S) /\ Len(r.buffers) \in Nat /\ Count(p) \in Nat
      /\ Len(r.buffers) <= Count(p) /\ Once(r.buffers, 1) /\ DOMAIN r.buffers = 1 .. Len(r.buffers)
  BY Counts, LenProperties DEF Shape, PortType
<1>2. i \in 1 .. Len(r.buffers) /\ r.buffers[i] = b
  <2>1. \E j \in DOMAIN r.buffers : r.buffers[j] = b
    BY <1>1 DEF Own, From
  <2> QED BY <1>1, <2>1 DEF FindBuffer
<1> HIDE DEF i
<1>3. /\ bs \in Seq(S) /\ Len(bs) = Len(r.buffers) - 1 /\ Once(bs, 1)
      /\ From(bs, 1) = From(r.buffers, 1) \ {b}
  BY <1>1, <1>2, RemoveElems
<1> HIDE DEF bs
<1>4. PICK t : t = [r EXCEPT !.buffers = bs, !.populated = FALSE]
  OBVIOUS
<1>5. /\ t \in PortType(p) /\ t.queue = r.queue /\ t.qcap = r.qcap /\ t.event = r.event
      /\ t.buffers = bs /\ t.bcap = r.bcap /\ t.populated = FALSE
  BY <1>3, <1>4 DEF Shape, PortType
<1>6. Shape(p, t)
  <2>1. t.qcap # 0 /\ Len(t.queue) <= t.qcap /\ Count(p) <= t.bcap
    BY <1>5 DEF Shape
  <2>2. Len(t.buffers) <= Count(p) /\ Len(t.buffers) # Count(p)
    BY <1>1, <1>3, <1>5
  <2> QED BY <1>3, <1>5, <2>1, <2>2 DEF Shape
<1>7. Own(t, h \ {b}, lo)
  BY <1>3, <1>5 DEF Own
<1>8. [RemoveBufferAt(r, i) EXCEPT !.populated = FALSE] = t
  BY <1>4 DEF RemoveBufferAt, bs, Shape, PortType
<1> QED BY <1>5, <1>6, <1>7, <1>8 DEF i, Freed

\* Enabling a port leaves its buffers alone.
LEMMA EnableOwn ==
  ASSUME NEW p \in Ports, NEW r, Shape(p, r), NEW h, NEW lo \in {1, 2}, Own(r, h, lo), NEW on \in BOOLEAN
  PROVE  LET t == [r EXCEPT !.enabled = on]
         IN /\ Shape(p, t) /\ Own(t, h, lo) /\ t.queue = r.queue /\ t.event = r.event
<1>1. PICK t : t = [r EXCEPT !.enabled = on]
  OBVIOUS
<1>2. /\ t \in PortType(p) /\ t.queue = r.queue /\ t.qcap = r.qcap /\ t.event = r.event
      /\ t.buffers = r.buffers /\ t.bcap = r.bcap /\ t.populated = r.populated
  BY <1>1 DEF Shape, PortType
<1>3. t.qcap # 0 /\ Len(t.queue) <= t.qcap
  BY <1>2 DEF Shape
<1>4. Shape(p, t) /\ Own(t, h, lo)
  BY <1>2, <1>3, ShapeOf DEF Own
<1> QED BY <1>1, <1>2, <1>4
-----------------------------------------------------------------------------
(* The inductive invariant *)

Giving(p) == comp.pc \in (IF p = "in" THEN {"popfirst"} ELSE {"startpop", "endpop"})
Lo(p) == IF Giving(p) THEN 2 ELSE 1

Types ==
  /\ enc \in EncType /\ codec \in CodecType /\ hist \in HistType /\ DOMAIN port = Ports
  /\ frame \in [1 .. NIn -> FrameType]
  /\ cmdq \in Seq(Commands) /\ cli \in ClientType /\ comp \in CompType

PortInv(p) == Shape(p, port[p]) /\ Own(port[p], cli.held[p], Lo(p))

\* The frame being encoded is queued; the first frame of a stream is the head.
Picked ==
  comp.pc \in {"code", "coded"} =>
    /\ comp.buf \in From(port["in"].queue, 1)
    /\ enc.curr = NoId => comp.buf = Head(port["in"].queue)

\* The client waits for a command that is on its way, queued or being executed.
Enders == {"state", "reject", "done", "invalid"}
Ends(todo) == \E i \in 1 .. Len(todo) : todo[i][1] \in Enders
EndsOnce(todo) == \A i \in 1 .. Len(todo) : todo[i][1] \in Enders => i = Len(todo)

OneCommand ==
  /\ cli.pc = "sending" => cli.cmd # NoCmd /\ cmdq = <<>> /\ ~Ends(comp.todo)
  /\ cmdq # <<>> => cli.pc = "idle" /\ cmdq = <<cli.cmd>> /\ cli.cmd # NoCmd /\ ~Ends(comp.todo)
  /\ Ends(comp.todo) => cli.cmd # NoCmd /\ cli.pc = "idle"
  /\ EndsOnce(comp.todo)
  /\ comp.todo # <<>> => comp.pc \in {"cmd", "assert"}

\* No buffers are queued in a component at rest, nor when it comes to rest.
Resting == {"Loaded", "Idle", "WaitForResources"}
Empty(p) == port[p].queue = <<>>
Returns(todo, p) == \E j \in 1 .. Len(todo) : todo[j] = <<"return", p>>
Stops(todo) == \E i \in 1 .. Len(todo) : todo[i][1] = "state" /\ todo[i][2] \in Resting

Rests ==
  /\ enc.state \in Resting => \A p \in Ports : Empty(p)
  /\ Stops(comp.todo) => \A p \in Ports : Empty(p) \/ Returns(comp.todo, p)

BufInv == Types /\ (\A p \in Ports : PortInv(p)) /\ Picked /\ OneCommand /\ Rests

-----------------------------------------------------------------------------
(* Types *)

\* Every handler's plan is made of the steps.
LEMMA PlanSteps ==
  ASSUME NEW c \in Commands PROVE Plan(c) \in Seq(Steps)
<1>1. /\ <<"done">> \in Steps /\ <<"create">> \in Steps /\ <<"empty">> \in Steps /\ <<"destroy">> \in Steps
      /\ <<"stop">> \in Steps /\ <<"reject">> \in Steps /\ <<"invalid">> \in Steps
      /\ <<"return", "in">> \in Steps /\ <<"return", "out">> \in Steps
      /\ \A t \in States : <<"state", t>> \in Steps
      /\ \A P \in SUBSET Ports : <<"ready", P>> \in Steps /\ <<"freed", P>> \in Steps
  BY DEF Steps, Ports
<1> HIDE DEF Steps
<1>2. \A t \in Targets : ReturnPlan(t) \in Seq(Steps) /\ PortsOf(t) \in SUBSET Ports
  BY <1>1 DEF ReturnPlan, Targets, PortsOf, Ports
<1>3. CASE c[1] = "StateSet"
  <2>1. c[2] \in States /\ Plan(c) = StatePlan(c[2])
    BY <1>3 DEF Plan, Commands
  <2> DEFINE t == c[2]
  <2>2. <<"state", t>> \in Steps /\ Ports \in SUBSET Ports
    BY <1>1, <2>1
  <2> HIDE DEF t
  <2>3. /\ <<<<"done">>>> \in Seq(Steps) /\ <<<<"ready", Ports>>, <<"create">>, <<"state", t>>>> \in Seq(Steps)
        /\ <<<<"return", "in">>, <<"return", "out">>, <<"state", t>>>> \in Seq(Steps)
        /\ <<<<"return", "in">>, <<"return", "out">>, <<"stop">>, <<"state", t>>>> \in Seq(Steps)
        /\ <<<<"empty">>, <<"freed", Ports>>, <<"destroy">>, <<"state", t>>>> \in Seq(Steps)
        /\ <<<<"state", t>>>> \in Seq(Steps) /\ <<<<"invalid">>>> \in Seq(Steps) /\ <<<<"reject">>>> \in Seq(Steps)
    BY <1>1, <2>2
  <2>4. StatePlan(t) \in Seq(Steps)
    BY <2>3, Zenon DEF StatePlan
  <2> QED BY <2>1, <2>4 DEF t
<1>4. CASE c[1] # "StateSet"
  <2>1. c[2] \in Targets /\ c[1] \in {"Flush", "PortDisable", "PortEnable"}
    BY <1>4 DEF Commands
  <2> DEFINE P == PortsOf(c[2])
             r == ReturnPlan(c[2])
  <2>2. P \in SUBSET Ports /\ r \in Seq(Steps)
    BY <1>2, <2>1
  <2>3. Plan(c) \in {r \o <<<<"done">>>>, r \o <<<<"freed", P>>, <<"done">>>>,
                     <<>> \o <<<<"done">>>>, <<<<"ready", P>>>> \o <<<<"done">>>>}
    BY <1>4, <2>1 DEF Plan
  <2> HIDE DEF P, r
  <2>4. /\ <<<<"done">>>> \in Seq(Steps) /\ <<<<"freed", P>>, <<"done">>>> \in Seq(Steps)
        /\ <<<<"ready", P>>>> \in Seq(Steps) /\ <<>> \in Seq(Steps)
    BY <1>1, <2>2
  <2>5. \A a, b \in Seq(Steps) : a \o b \in Seq(Steps)
    OBVIOUS
  <2> QED BY <2>2, <2>3, <2>4, <2>5, Zenon
<1> QED BY <1>3, <1>4

\* The component thread stays well typed along its plan.
LEMMA CompTypes ==
  ASSUME comp \in CompType
  PROVE  /\ AtLoop \in CompType
         /\ \A x \in Places : [comp EXCEPT !.pc = x] \in CompType /\ [AtLoop EXCEPT !.pc = x] \in CompType
                             /\ (Goto(x) => comp' \in CompType)
         /\ \A t \in Seq(Steps) : [comp EXCEPT !.todo = t] \in CompType
         /\ comp.todo # <<>> => Tail(comp.todo) \in Seq(Steps) /\ comp.todo[1] \in Steps
         /\ comp.todo # <<>> /\ StepDone => comp' \in CompType
<1>1. <<>> \in Seq(Steps) /\ comp.todo \in Seq(Steps)
  BY DEF CompType
<1>2. AtLoop \in CompType
  <2>1. "loop" \in Places
    BY DEF Places
  <2> QED BY <1>1, <2>1 DEF AtLoop, CompType
<1>3. ASSUME NEW c \in CompType, NEW x \in Places PROVE [c EXCEPT !.pc = x] \in CompType
  BY DEF CompType
<1>4. \A t \in Seq(Steps) : [comp EXCEPT !.todo = t] \in CompType
  BY DEF CompType
<1>5. comp.todo # <<>> => Tail(comp.todo) \in Seq(Steps) /\ comp.todo[1] \in Steps
  <2> HIDE DEF Steps
  <2> QED BY <1>1
<1>6. \A x \in Places : Goto(x) => comp' \in CompType
  BY <1>2, <1>3 DEF Goto
<1>7. comp.todo # <<>> /\ StepDone => comp' \in CompType
  BY <1>4, <1>5 DEF StepDone
<1> QED BY <1>2, <1>3, <1>4, <1>5, <1>6, <1>7

\* What the callbacks and the client's calls do to the client's buffers
LEMMA ClientTypes ==
  ASSUME cli \in ClientType, NEW p \in Ports, NEW bs \in SUBSET Nat
  PROVE  /\ Give(p, bs) \in ClientType /\ Give(p, bs).pc = cli.pc /\ Give(p, bs).cmd = cli.cmd
         /\ Give(p, bs).held = [cli.held EXCEPT ![p] = @ \cup bs]
         /\ Take(p) \in ClientType /\ Take(p).pc = cli.pc /\ Take(p).cmd = cli.cmd
         /\ Take(p).held = [cli.held EXCEPT ![p] = @ \ {Held(p)}]
<1>1. cli.held \in [Ports -> SUBSET Nat]
  BY DEF ClientType
<1>2. [cli.held EXCEPT ![p] = @ \cup bs] \in [Ports -> SUBSET Nat]
  BY <1>1
<1>3. [cli.held EXCEPT ![p] = @ \ {Held(p)}] \in [Ports -> SUBSET Nat]
  BY <1>1
<1>4. Give(p, bs) = [cli EXCEPT !.held = [cli.held EXCEPT ![p] = @ \cup bs]]
  BY DEF Give, ClientType
<1>5. Take(p) = [cli EXCEPT !.held = [cli.held EXCEPT ![p] = @ \ {Held(p)}]]
  BY DEF Take, ClientType
<1> HIDE DEF Give, Take
<1>6. Give(p, bs) \in ClientType /\ Give(p, bs).pc = cli.pc /\ Give(p, bs).cmd = cli.cmd
      /\ Give(p, bs).held = [cli.held EXCEPT ![p] = @ \cup bs]
  BY <1>2, <1>4 DEF ClientType
<1>7. Take(p) \in ClientType /\ Take(p).pc = cli.pc /\ Take(p).cmd = cli.cmd
      /\ Take(p).held = [cli.held EXCEPT ![p] = @ \ {Held(p)}]
  BY <1>3, <1>5 DEF ClientType
<1> QED BY <1>6, <1>7

\* Buffers are numbers.
LEMMA BufferTypes ==
  ASSUME NEW p \in Ports, PortInv(p), cli \in ClientType
  PROVE  /\ cli.held[p] \subseteq 1 .. Count(p) /\ port[p].queue \in Seq(1 .. Count(p))
         /\ From(port[p].queue, 1) \subseteq 1 .. Count(p) /\ ToSet(port[p].queue) = From(port[p].queue, 1)
         /\ cli.held[p] # {} => Held(p) \in cli.held[p]
         /\ port[p].queue # <<>> => Head(port[p].queue) \in 1 .. Count(p)
<1> DEFINE S == 1 .. Count(p)
<1>1. port[p].queue \in Seq(S) /\ port[p].buffers \in Seq(S) /\ Count(p) \in Nat
  BY Counts DEF PortInv, Shape, PortType
<1>2. From(port[p].queue, 1) \subseteq S /\ From(port[p].buffers, 1) \subseteq S
  BY <1>1, FromType
<1>3. cli.held[p] \subseteq S /\ cli.held[p] \in SUBSET Nat
  BY <1>2 DEF PortInv, Own, ClientType
<1>4. ToSet(port[p].queue) = From(port[p].queue, 1)
  BY <1>1 DEF ToSet, From
<1>5. cli.held[p] # {} => Held(p) \in cli.held[p]
  BY <1>3, LeastOf DEF Held
<1>6. port[p].queue # <<>> => Head(port[p].queue) \in S
  BY <1>1, HeadElems
<1> QED BY <1>1, <1>2, <1>3, <1>4, <1>5, <1>6

\* The codec's plan is made of picture numbers.
LEMMA CodecTypes ==
  ASSUME codec \in CodecType
  PROVE  /\ \A c \in FindNextPic(codec) : c \in CodecType /\ c.cnt \in Nat
         /\ SkipPic(codec) \in CodecType
         /\ NoCodec \in CodecType /\ [NoCodec EXCEPT !.made = TRUE] \in CodecType
         /\ [NoCodec EXCEPT !.made = TRUE, !.phase = "stream"] \in CodecType
         /\ [codec EXCEPT !.phase = "init"] \in CodecType
<1>1. codec.cnt \in Nat /\ codec.end \in Nat /\ codec.left \in SUBSET Nat
  BY DEF CodecType
<1>2. GopSizes \subseteq Nat \ {0}
  BY EncoderConstantsOK DEF EncoderConstantsOK
<1>3. ASSUME NEW c \in FindNextPic(codec) PROVE c \in CodecType /\ c.cnt \in Nat
  <2>1. CASE codec.left # {}
    <3>1. PICK n \in codec.left : c = [codec EXCEPT !.phase = "frame", !.cnt = n, !.left = @ \ {n}]
      BY <1>3, <2>1 DEF FindNextPic
    <3> DEFINE l == codec.left \ {n}
    <3>2. n \in Nat /\ l \in SUBSET Nat /\ c = [codec EXCEPT !.phase = "frame", !.cnt = n, !.left = l]
      BY <1>1, <3>1
    <3> HIDE DEF l
    <3> QED BY <3>2 DEF CodecType
  <2>2. CASE codec.left = {}
    <3>1. PICK g \in GopSizes :
            c = [codec EXCEPT !.phase = "frame", !.cnt = codec.end + g, !.end = codec.end + g,
                              !.left = codec.end + 1 .. codec.end + g - 1]
      BY <1>3, <2>2 DEF FindNextPic
    <3> DEFINE l == codec.end + 1 .. codec.end + g - 1
               e == codec.end + g
    <3>2. e \in Nat /\ l \in SUBSET Nat
      BY <1>1, <1>2
    <3>3. c = [codec EXCEPT !.phase = "frame", !.cnt = e, !.end = e, !.left = l]
      BY <3>1
    <3> HIDE DEF l, e
    <3> QED BY <3>2, <3>3 DEF CodecType
  <2> QED BY <2>1, <2>2
<1>4. SkipPic(codec) \in CodecType
  <2> DEFINE l == {n + 1 : n \in codec.left}
             k == codec.cnt + 1
             e == codec.end + 1
  <2>1. l \in SUBSET Nat /\ k \in Nat /\ e \in Nat
    BY <1>1
  <2>2. SkipPic(codec) = [codec EXCEPT !.phase = "frame", !.cnt = k, !.end = e, !.left = l]
    BY DEF SkipPic, CodecType
  <2> HIDE DEF l, k, e
  <2> QED BY <2>1, <2>2 DEF CodecType
<1>5. /\ NoCodec \in CodecType /\ [NoCodec EXCEPT !.made = TRUE] \in CodecType
      /\ [NoCodec EXCEPT !.made = TRUE, !.phase = "stream"] \in CodecType
  BY DEF NoCodec, CodecType
<1>6. [codec EXCEPT !.phase = "init"] \in CodecType
  BY DEF CodecType
<1> QED BY <1>3, <1>4, <1>5, <1>6

\* A client that hands nothing over while buffers are being returned gets all of them.
ReturnAll ==
  /\ At("return") /\ StepDone
  /\ LET bs == ToSet(port[Arg].queue)
     IN cli' = Give(Arg, bs) /\ frame' = IF Arg = "in" THEN Emptied(bs) ELSE frame
  /\ port' = [port EXCEPT ![Arg] = QueueClear(@)]
  /\ UNCHANGED <<enc, codec, cmdq, hist>>

LEMMA AllReturned == ASSUME "refill" \notin Allow, ReturnBuffers PROVE ReturnAll
<1>1. Refills(Arg) = {{}}
  BY DEF Refills
<1>2. PICK lost \in {{}} :
        /\ cli' = [cli EXCEPT !.held[Arg] = (@ \cup ToSet(port[Arg].queue)) \ lost]
        /\ IF Arg = "in" /\ lost # {}
           THEN \E eos \in BOOLEAN : Send(Cardinality(lost), eos)
           ELSE UNCHANGED <<enc, hist>>
  BY <1>1 DEF ReturnBuffers
<1>3. UNCHANGED <<enc, hist>>
  BY <1>2
<1>4. (cli.held[Arg] \cup ToSet(port[Arg].queue)) \ lost = cli.held[Arg] \cup ToSet(port[Arg].queue)
  BY <1>2
<1>5. cli' = Give(Arg, ToSet(port[Arg].queue))
  BY <1>2, <1>4 DEF Give
<1> QED BY <1>3, <1>5 DEF ReturnBuffers, ReturnAll

\* Every step keeps the types.
LEMMA TypesStep == ASSUME "refill" \notin Allow, BufInv, Next PROVE Types'
<1>1. /\ enc \in EncType /\ codec \in CodecType /\ hist \in HistType /\ DOMAIN port = Ports
      /\ frame \in [1 .. NIn -> FrameType]
      /\ cmdq \in Seq(Commands) /\ cli \in ClientType /\ comp \in CompType
  BY DEF BufInv, Types
<1>2. /\ AtLoop \in CompType
      /\ \A x \in Places : [comp EXCEPT !.pc = x] \in CompType /\ [AtLoop EXCEPT !.pc = x] \in CompType
                          /\ (Goto(x) => comp' \in CompType)
      /\ \A t \in Seq(Steps) : [comp EXCEPT !.todo = t] \in CompType
      /\ comp.todo # <<>> => Tail(comp.todo) \in Seq(Steps) /\ comp.todo[1] \in Steps
      /\ comp.todo # <<>> /\ StepDone => comp' \in CompType
  BY <1>1, CompTypes
<1>3. /\ \A c \in FindNextPic(codec) : c \in CodecType /\ c.cnt \in Nat
      /\ SkipPic(codec) \in CodecType
      /\ NoCodec \in CodecType /\ [NoCodec EXCEPT !.made = TRUE] \in CodecType
      /\ [NoCodec EXCEPT !.made = TRUE, !.phase = "stream"] \in CodecType
      /\ [codec EXCEPT !.phase = "init"] \in CodecType
  BY <1>1, CodecTypes
<1>4. \A p \in Ports : \A bs \in SUBSET Nat : Give(p, bs) \in ClientType /\ Take(p) \in ClientType
  BY <1>1, ClientTypes
<1>5. \A p \in Ports : /\ cli.held[p] \subseteq 1 .. Count(p) /\ ToSet(port[p].queue) \in SUBSET Nat
                       /\ From(port[p].queue, 1) \subseteq 1 .. Count(p)
                       /\ cli.held[p] # {} => Held(p) \in cli.held[p]
                       /\ port[p].queue # <<>> => {Head(port[p].queue)} \in SUBSET Nat
  <2> SUFFICES ASSUME NEW p \in Ports
               PROVE  /\ cli.held[p] \subseteq 1 .. Count(p) /\ ToSet(port[p].queue) \in SUBSET Nat
                      /\ From(port[p].queue, 1) \subseteq 1 .. Count(p)
                      /\ cli.held[p] # {} => Held(p) \in cli.held[p]
                      /\ port[p].queue # <<>> => {Head(port[p].queue)} \in SUBSET Nat
    OBVIOUS
  <2>1. PortInv(p) /\ Count(p) \in Nat
    BY Counts DEF BufInv
  <2>2. /\ cli.held[p] \subseteq 1 .. Count(p) /\ port[p].queue \in Seq(1 .. Count(p))
        /\ From(port[p].queue, 1) \subseteq 1 .. Count(p) /\ ToSet(port[p].queue) = From(port[p].queue, 1)
        /\ cli.held[p] # {} => Held(p) \in cli.held[p]
        /\ port[p].queue # <<>> => Head(port[p].queue) \in 1 .. Count(p)
    BY <1>1, <2>1, BufferTypes
  <2> QED BY <2>1, <2>2
<1>6. NoFrameIn \in FrameType /\ (\A bs : Emptied(bs) \in [1 .. NIn -> FrameType])
  <2>1. NoFrameIn \in FrameType
    BY DEF NoFrameIn, FrameType, FrameId, NoId
  <2> QED BY <1>1, <2>1 DEF Emptied
<1>7. NotWhole \in HistType /\ NewStream \in HistType
  BY <1>1 DEF NotWhole, NewStream, HistType, FrameId, NoId
<1>8. Invalid => enc' \in EncType /\ comp' \in CompType /\ hist' \in HistType
  BY <1>1, <1>2, <1>7 DEF Invalid, EncType, States
<1>9. ASSUME NEW k \in Int, NEW x \in Places
      PROVE  [AtLoop EXCEPT !.pc = x, !.pic = k] \in CompType
  BY <1>2 DEF CompType
<1>p. "in" \in Ports /\ "out" \in Ports /\ Count("in") = NIn
  BY DEF Ports, Count
<1> HIDE DEF Places, EncType, CodecType, HistType, FrameType, ClientType, CompType, Steps, Ports, Commands
<1>10. ASSUME NEW c \in Commands, SendCommand(c) PROVE Types'
  <2>1. enc' \in EncType /\ DOMAIN port' = Ports
    <3>1. c[1] = "StateSet" => c[2] \in States
      BY DEF Commands
    <3>2. \A t \in States : [enc EXCEPT !.trans = t] \in EncType
      BY <1>1 DEF EncType
    <3> QED BY <1>1, <1>10, <3>1, <3>2 DEF SendCommand, SendFlags
  <2>2. cli' \in ClientType
    BY <1>1, <1>10 DEF SendCommand, ClientType
  <2>3. hist' \in HistType
    BY <1>1, <1>7, <1>10 DEF SendCommand
  <2> QED BY <1>1, <1>10, <2>1, <2>2, <2>3 DEF SendCommand, Types
<1>11. ASSUME SendQueue PROVE Types'
  <2>1. cmdq' \in Seq(Commands)
    <3>1. cli.cmd \in Commands
      BY <1>1, <1>11 DEF SendQueue, ClientType, BufInv, OneCommand
    <3> QED BY <1>1, <1>11, <3>1 DEF SendQueue
  <2>2. cli' \in ClientType
    BY <1>1, <1>11 DEF SendQueue, ClientType
  <2> QED BY <1>1, <1>11, <2>1, <2>2 DEF SendQueue, Types
<1>12. ASSUME NEW p \in Ports, UseBuffer(p) PROVE Types'
  <2> DEFINE b == Fresh(p, port[p])
  <2>1. {b} \in SUBSET Nat
    <3>1. Shape(p, port[p]) /\ Own(port[p], cli.held[p], Lo(p)) /\ ~port[p].populated /\ Lo(p) \in {1, 2}
      BY <1>12 DEF UseBuffer, BufInv, PortInv, Lo
    <3> HIDE DEF BufInv, Lo
    <3>2. b \in 1 .. Count(p)
      <4>1. port[p].populated = FALSE
        BY <3>1 DEF Shape, PortType
      <4> QED BY <3>1, <4>1, AllocOwn
    <3> HIDE DEF b
    <3> QED BY <3>2, Counts
  <2>2. cli' = Give(p, {b}) /\ DOMAIN port' = Ports
    BY <1>1, <1>12 DEF UseBuffer, Fresh
  <2> HIDE DEF b
  <2>3. cli' \in ClientType
    BY <1>4, <2>1, <2>2
  <2> QED BY <1>1, <1>12, <2>2, <2>3 DEF UseBuffer, Types
<1>13. ASSUME NEW p \in Ports, FreeBuffer(p) PROVE Types'
  <2>1. cli' \in ClientType /\ DOMAIN port' = Ports
    BY <1>1, <1>4, <1>13 DEF FreeBuffer
  <2> QED BY <1>1, <1>13, <2>1 DEF FreeBuffer, Types
<1>14. ASSUME FillThisBuffer PROVE Types'
  <2>1. cli' \in ClientType /\ DOMAIN port' = Ports
    BY <1>1, <1>4, <1>14, <1>p DEF FillThisBuffer
  <2> QED BY <1>1, <1>14, <2>1 DEF FillThisBuffer, Types
<1>15. ASSUME NEW eos \in BOOLEAN, NEW full \in BOOLEAN, EmptyThisBuffer(eos, full) PROVE Types'
  <2> DEFINE b == Held("in")
             h == IF hist.done /\ "again" \in Allow THEN NewStream ELSE hist
             fr == [id |-> enc.inId, eos |-> eos, full |-> full]
  <2>1. b \in 1 .. NIn
    BY <1>5, <1>15, <1>p DEF EmptyThisBuffer, MayPush
  <2>2. enc.inId \in Nat /\ fr \in FrameType
    BY <1>1 DEF EncType, FrameType, FrameId
  <2>3. h \in HistType /\ h.n \in Nat
    BY <1>1, <1>7 DEF HistType
  <2>4. /\ frame' = [frame EXCEPT ![b] = fr] /\ cli' = Take("in") /\ DOMAIN port' = Ports
        /\ hist' = [h EXCEPT !.n = @ + 1, !.last = IF eos THEN h.n + 1 - 1 ELSE NoId]
        /\ enc' = [enc EXCEPT !.inId = @ + 1, !.eos = @ \/ eos]
        /\ UNCHANGED <<codec, cmdq, comp>>
    BY <1>1, <1>15 DEF EmptyThisBuffer, Send
  <2> HIDE DEF b, h, fr
  <2>5. frame' \in [1 .. NIn -> FrameType] /\ cli' \in ClientType
    BY <1>1, <1>4, <1>p, <2>1, <2>2, <2>4
  <2>6. hist' \in HistType
    <3> DEFINE k == h.n + 1
               l == IF eos THEN h.n + 1 - 1 ELSE NoId
    <3>1. k \in Nat /\ l \in FrameId /\ hist' = [h EXCEPT !.n = k, !.last = l]
      BY <2>3, <2>4 DEF FrameId, NoId
    <3> HIDE DEF k, l
    <3> QED BY <2>3, <3>1 DEF HistType
  <2>7. enc' \in EncType
    <3> DEFINE e == enc.eos \/ eos
               k == enc.inId + 1
    <3>1. e \in BOOLEAN /\ k \in Nat /\ enc' = [enc EXCEPT !.inId = k, !.eos = e]
      BY <2>2, <2>4
    <3> HIDE DEF e, k
    <3> QED BY <1>1, <3>1 DEF EncType
  <2> QED BY <1>1, <2>4, <2>5, <2>6, <2>7 DEF Types
<1>16. ASSUME LoopWake \/ LoopFetch \/ LoopDrained PROVE Types'
  <2>1. "cmd" \in Places /\ "start" \in Places /\ "loop" \in Places
    BY DEF Places
  <2>2. CASE LoopWake
    <3>1. port["in"].event \in BOOLEAN
      BY <1>p DEF BufInv, PortInv, Shape, PortType
    <3>2. \A s \in BOOLEAN : [AtLoop EXCEPT !.pc = "cmd", !.sig = s] \in CompType
      BY <1>2, <2>1 DEF CompType
    <3>3. comp' \in CompType
      BY <1>2, <2>1, <2>2, <3>1, <3>2 DEF LoopWake
    <3> QED BY <1>1, <2>2, <3>3 DEF LoopWake, Types
  <2>3. CASE LoopFetch
    <3>1. Head(cmdq) \in Commands /\ Tail(cmdq) \in Seq(Commands)
      BY <1>1, <2>3 DEF LoopFetch
    <3>2. comp' \in CompType
      BY <1>2, <2>3, <3>1, PlanSteps DEF LoopFetch
    <3> QED BY <1>1, <2>3, <3>1, <3>2 DEF LoopFetch, Types
  <2>4. CASE LoopDrained
    <3>1. comp' \in CompType
      BY <1>2, <2>1, <2>4 DEF LoopDrained, AtLoop
    <3> QED BY <1>1, <2>4, <3>1 DEF LoopDrained, Types
  <2> QED BY <1>16, <2>2, <2>3, <2>4
<1>17. ASSUME ReturnBuffers PROVE Types'
  <2>1. comp.todo[1] \in Steps /\ comp.todo[1][1] = "return" /\ comp' \in CompType
    BY <1>2, <1>17 DEF ReturnBuffers, At
  <2>2. Arg \in Ports
    BY <2>1 DEF Steps, Arg
  <2>3. ReturnAll
    BY <1>17, AllReturned
  <2>4. cli' \in ClientType /\ frame' \in [1 .. NIn -> FrameType] /\ DOMAIN port' = Ports
    BY <1>1, <1>4, <1>5, <1>6, <2>2, <2>3 DEF ReturnAll
  <2> QED BY <1>1, <2>1, <2>3, <2>4 DEF ReturnAll, Types
<1>18. ASSUME WaitReady \/ WaitFreed \/ CreateCodec \/ AssertEmpty \/ DestroyCodec PROVE Types'
  <2>1. comp' \in CompType
    <3>1. "assert" \in Places
      BY DEF Places
    <3> QED BY <1>2, <1>18, <3>1 DEF WaitReady, WaitFreed, CreateCodec, AssertEmpty, DestroyCodec, At
  <2>2. codec' \in CodecType /\ UNCHANGED <<enc, port, frame, cmdq, cli, hist>>
    BY <1>1, <1>3, <1>18 DEF WaitReady, WaitFreed, CreateCodec, AssertEmpty, DestroyCodec
  <2> QED BY <1>1, <2>1, <2>2 DEF Types
<1>19. ASSUME StopStream \/ SetState \/ RejectState \/ CommandDone PROVE Types'
  <2>1. comp' \in CompType /\ UNCHANGED <<port, frame, codec, cmdq, hist>>
    BY <1>2, <1>19 DEF StopStream, SetState, RejectState, CommandDone, At
  <2>2. cli' \in ClientType
    <3>1. [cli EXCEPT !.cmd = NoCmd] \in ClientType
      BY <1>1 DEF ClientType
    <3> QED BY <1>1, <1>19, <3>1 DEF StopStream, SetState, RejectState, CommandDone
  <2>3. enc' \in EncType
    <3>1. /\ [enc EXCEPT !.started = FALSE] \in EncType /\ [enc EXCEPT !.trans = enc.state] \in EncType
          /\ \A s \in States : [enc EXCEPT !.state = s, !.trans = s] \in EncType
      BY <1>1 DEF EncType
    <3>2. SetState => Arg \in States
      <4> SUFFICES ASSUME SetState PROVE Arg \in States
        OBVIOUS
      <4>1. comp.todo[1] \in Steps /\ comp.todo[1][1] = "state"
        BY <1>2 DEF SetState, At
      <4> QED BY <4>1 DEF Steps, Arg
    <3> QED BY <1>1, <1>19, <3>1, <3>2 DEF StopStream, SetState, RejectState, CommandDone
  <2> QED BY <1>1, <2>1, <2>2, <2>3 DEF Types
<1>20. ASSUME CreateFails \/ SetInvalid \/ StartRefused \/ EncodeFails PROVE Types'
  <2>1. Invalid /\ UNCHANGED <<port, frame, codec, cmdq, cli>>
    BY <1>20 DEF CreateFails, SetInvalid, StartRefused, EncodeFails
  <2> QED BY <1>1, <1>8, <2>1 DEF Types
<1>21. ASSUME StreamRuns \/ StartGivesUp \/ NoFrame \/ EndGivesUp PROVE Types'
  <2>1. UNCHANGED <<enc, port, frame, codec, cmdq, cli, hist>>
    BY <1>21 DEF StreamRuns, StartGivesUp, NoFrame, EndGivesUp
  <2>2. comp' \in CompType
    <3>1. "pick" \in Places /\ "loop" \in Places /\ "end" \in Places
      BY DEF Places
    <3>2. \E x \in Places : Goto(x)
      BY <1>21, <3>1 DEF StreamRuns, StartGivesUp, NoFrame, EndGivesUp
    <3> QED BY <1>2, <3>2
  <2> QED BY <1>1, <2>1, <2>2 DEF Types
<1>22. ASSUME StartStream PROVE Types'
  <2>1. comp' \in CompType
    <3>1. "startpop" \in Places
      BY DEF Places
    <3> QED BY <1>2, <1>22, <3>1 DEF StartStream
  <2>2. enc' \in EncType /\ codec' \in CodecType
    BY <1>1, <1>3, <1>22 DEF StartStream, EncType
  <2>3. cli' \in ClientType
    BY <1>4, <1>5, <1>22, <1>p DEF StartStream, NoOutput, HeadOut
  <2> QED BY <1>1, <1>22, <2>1, <2>2, <2>3 DEF StartStream, Types
<1>23. ASSUME StartPop \/ PopFirst PROVE Types'
  <2>1. "pick" \in Places /\ "loop" \in Places
    BY DEF Places
  <2>2. comp' \in CompType /\ DOMAIN port' = Ports
    BY <1>1, <1>2, <1>23, <2>1 DEF StartPop, PopFirst
  <2> QED BY <1>1, <1>23, <2>2 DEF StartPop, PopFirst, Types
<1>24. ASSUME PickFrame PROVE Types'
  <2> DEFINE q == port["in"].queue
             i == IF enc.next # NoId THEN PlaceOfFrame(port["in"], Id, enc.next)
                  ELSE IF q = <<>> THEN 0 ELSE 1
             x == IF frame[q[i]].full THEN "code" ELSE "coded"
  <2>1. "nopick" \in Places /\ x \in Places
    BY DEF Places
  <2>2. CASE i = 0
    <3>1. comp' \in CompType
      BY <1>2, <1>24, <2>1, <2>2 DEF PickFrame
    <3> QED BY <1>1, <1>24, <2>2, <3>1 DEF PickFrame, Types
  <2>3. CASE i # 0
    <3>1. q \in Seq(1 .. NIn) /\ Len(q) \in Nat
      BY <1>p DEF BufInv, PortInv, Shape, PortType
    <3>2. i \in 1 .. Len(q)
      <4>1. CASE enc.next # NoId
        BY <2>3, <3>1, <4>1, FrameFound
      <4>2. CASE enc.next = NoId
        BY <2>3, <3>1, <4>2
      <4> QED BY <4>1, <4>2
    <3>3. q[i] \in Nat
      <4> HIDE DEF q, i
      <4> QED BY <3>1, <3>2, EncoderConstantsOK DEF EncoderConstantsOK
    <3>4. comp' = [comp EXCEPT !.buf = q[i], !.pc = x] /\ enc' = [enc EXCEPT !.curr = enc.next]
      BY <1>24, <2>3 DEF PickFrame
    <3> HIDE DEF q, i, x
    <3>5. comp' \in CompType /\ enc' \in EncType
      BY <1>1, <2>1, <3>3, <3>4 DEF CompType, EncType
    <3> QED BY <1>1, <1>24, <3>5 DEF PickFrame, Types
  <2> QED BY <2>2, <2>3
<1>25. ASSUME EncodeFrame \/ DiscardFrame PROVE Types'
  <2>1. Deliver /\ ~NoOutput /\ UNCHANGED <<frame, cmdq>>
    BY <1>25 DEF EncodeFrame, DiscardFrame
  <2>2. comp' \in CompType /\ DOMAIN port' = Ports
    <3>1. "coded" \in Places
      BY DEF Places
    <3> QED BY <1>1, <1>2, <2>1, <3>1 DEF Deliver
  <2>3. cli' \in ClientType
    BY <1>4, <1>5, <2>1, <1>p DEF Deliver, NoOutput, HeadOut
  <2>4. codec' \in CodecType /\ enc' \in EncType
    <3>1. \A k \in Nat : [enc EXCEPT !.next = k] \in EncType
      BY <1>1 DEF EncType, FrameId
    <3>2. codec.cnt + 1 \in Nat
      BY <1>1 DEF CodecType
    <3>3. CASE EncodeFrame
      <4>1. PICK c \in FindNextPic(codec) : codec' = c /\ enc' = [enc EXCEPT !.next = c.cnt]
        BY <3>3 DEF EncodeFrame
      <4> QED BY <1>3, <3>1, <4>1
    <3>4. CASE DiscardFrame
      BY <1>3, <3>1, <3>2, <3>4 DEF DiscardFrame
    <3> QED BY <1>25, <3>3, <3>4
  <2>5. hist' \in HistType
    <3>1. CASE DiscardFrame
      BY <1>7, <3>1 DEF DiscardFrame
    <3>2. CASE EncodeFrame /\ ~hist.whole
      BY <1>1, <3>2 DEF EncodeFrame
    <3>3. CASE EncodeFrame /\ hist.whole
      <4>1. comp.buf \in 1 .. NIn
        BY <1>5, <1>p, <3>3 DEF EncodeFrame, BufInv, Picked
      <4>2. frame[comp.buf].id \in FrameId
        BY <1>1, <4>1 DEF FrameType
      <4>3. hist' = [hist EXCEPT !.encoded = @ \cup {frame[comp.buf].id}]
        BY <3>3 DEF EncodeFrame
      <4> QED BY <1>1, <4>2, <4>3 DEF HistType
    <3> QED BY <1>25, <3>1, <3>2, <3>3
  <2> QED BY <1>1, <2>1, <2>2, <2>3, <2>4, <2>5 DEF Types
<1>26. ASSUME EncodeGivesUp \/ EncodeRejects PROVE Types'
  <2>1. codec' \in CodecType /\ NotEncoded
    BY <1>1, <1>3, <1>26 DEF EncodeGivesUp, EncodeRejects
  <2>2. enc' \in EncType /\ comp' \in CompType /\ hist' \in HistType
    <3>1. "coded" \in Places
      BY DEF Places
    <3> QED BY <1>1, <1>2, <1>7, <1>8, <2>1, <3>1 DEF NotEncoded
  <2> QED BY <1>1, <2>1, <2>2 DEF NotEncoded, Types
<1>27. ASSUME Coded PROVE Types'
  <2>1. comp' \in CompType
    <3> DEFINE pic == IF enc.next # NoId THEN enc.next ELSE enc.curr
    <3>1. pic - MaxGop \in Int
      BY <1>1, EncoderConstantsOK DEF EncoderConstantsOK, EncType, FrameId, NoId
    <3>2. "end" \in Places /\ "loop" \in Places /\ "popfirst" \in Places /\ "giveback" \in Places
      BY DEF Places
    <3>3. \/ Goto("end") \/ Goto("loop") \/ Goto("popfirst") \/ comp' = AtLoop
          \/ comp' = [AtLoop EXCEPT !.pc = "giveback", !.pic = pic - MaxGop]
      BY <1>27 DEF Coded
    <3> HIDE DEF pic
    <3> QED BY <1>2, <1>9, <3>1, <3>2, <3>3
  <2>2. cli' \in ClientType /\ frame' \in [1 .. NIn -> FrameType]
    <3>1. {comp.buf} \in SUBSET Nat
      BY <1>1 DEF CompType
    <3> QED BY <1>1, <1>4, <1>6, <1>27, <1>p, <3>1 DEF Coded
  <2> QED BY <1>1, <1>27, <2>1, <2>2 DEF Coded, Types
<1>28. ASSUME GiveBack PROVE Types'
  <2> DEFINE bs == Found(port["in"], Id, comp.pic)
  <2>1. bs \in SUBSET Nat
    <3>1. Shape("in", port["in"]) /\ Own(port["in"], cli.held["in"], 1)
      BY <1>28, <1>p DEF GiveBack, BufInv, PortInv, Lo, Giving
    <3>2. bs \subseteq From(port["in"].queue, 1)
      BY <1>p, <3>1, PopFrameOwn
    <3> HIDE DEF bs
    <3> QED BY <1>5, <1>p, <3>2, Counts
  <2>2. comp' \in CompType
    <3>1. [comp EXCEPT !.pic = @ - 1] \in CompType
      BY <1>1 DEF CompType
    <3> QED BY <1>2, <1>28, <3>1 DEF GiveBack
  <2>3. cli' = Give("in", bs) /\ frame' = Emptied(bs) /\ DOMAIN port' = Ports
        /\ UNCHANGED <<enc, codec, cmdq, hist>>
    BY <1>1, <1>28 DEF GiveBack, Found
  <2> HIDE DEF bs
  <2> QED BY <1>1, <1>4, <1>6, <1>p, <2>1, <2>2, <2>3 DEF Types
<1>29. ASSUME EndStream PROVE Types'
  <2>1. comp' \in CompType
    <3>1. "endpop" \in Places
      BY DEF Places
    <3> QED BY <1>2, <1>29, <3>1 DEF EndStream
  <2>2. enc' \in EncType /\ codec' \in CodecType /\ hist' \in HistType
    BY <1>1, <1>3, <1>29 DEF EndStream, EncType, HistType
  <2>3. cli' \in ClientType
    BY <1>4, <1>5, <1>29, <1>p DEF EndStream, NoOutput, HeadOut
  <2> QED BY <1>1, <1>29, <2>1, <2>2, <2>3 DEF EndStream, Types
<1>30. ASSUME EndPop PROVE Types'
  <2>1. "endid" \in Places
    BY DEF Places
  <2>2. comp' \in CompType /\ DOMAIN port' = Ports
    BY <1>1, <1>2, <1>30, <2>1 DEF EndPop
  <2> QED BY <1>1, <1>30, <2>2 DEF EndPop, Types
<1>31. ASSUME EndReset PROVE Types'
  <2>1. comp' \in CompType
    <3>1. "cmd" \in Places
      BY DEF Places
    <3>2. ReturnPlan("all") \in Seq(Steps)
      <4>1. <<"return", "in">> \in Steps /\ <<"return", "out">> \in Steps
        BY DEF Steps, Ports
      <4> QED BY <4>1 DEF ReturnPlan
    <3> DEFINE t == ReturnPlan("all")
    <3>3. comp' = [AtLoop EXCEPT !.pc = "cmd", !.todo = t]
      BY <1>31 DEF EndReset
    <3> HIDE DEF t
    <3> QED BY <1>2, <3>1, <3>2, <3>3 DEF CompType, t
  <2>2. enc' \in EncType
    BY <1>1, <1>31 DEF EndReset, EncType
  <2> QED BY <1>1, <1>31, <2>1, <2>2 DEF EndReset, Types
<1>32. ASSUME EndFails PROVE Types'
  <2>1. "loop" \in Places
    BY DEF Places
  <2>2. comp' \in CompType /\ hist' \in HistType
    BY <1>2, <1>7, <1>32, <2>1 DEF EndFails
  <2> QED BY <1>1, <1>32, <2>2 DEF EndFails, Types
<1> QED
  BY <1>10, <1>11, <1>12, <1>13, <1>14, <1>15, <1>16, <1>17, <1>18, <1>19, <1>20, <1>21, <1>22, <1>23,
     <1>24, <1>25, <1>26, <1>27, <1>28, <1>29, <1>30, <1>31, <1>32
  DEF Next, ClientNext, CompNext, CommandNext, EncodeNext

-----------------------------------------------------------------------------
(* The buffers of a port *)

Gives == {"popfirst", "startpop", "endpop"}

\* Where the component thread goes
LEMMA Goes ==
  ASSUME comp \in CompType
  PROVE  /\ \A x : Goto(x) => /\ comp'.pc = x /\ comp'.todo = (IF x = "loop" THEN <<>> ELSE comp.todo)
                              /\ comp'.buf = (IF x = "loop" THEN 0 ELSE comp.buf)
                              /\ comp'.sig = (IF x = "loop" THEN FALSE ELSE comp.sig)
         /\ StepDone => comp'.pc = comp.pc /\ comp'.todo = Tail(comp.todo) /\ comp'.sig = comp.sig
         /\ Invalid => comp'.pc = "loop" /\ comp'.todo = <<>>
         /\ AtLoop.pc = "loop" /\ AtLoop.todo = <<>>
<1>1. AtLoop.pc = "loop" /\ AtLoop.todo = <<>> /\ AtLoop.buf = 0 /\ AtLoop.sig = FALSE
  BY DEF AtLoop
<1>2. ASSUME NEW x, Goto(x)
      PROVE  /\ comp'.pc = x /\ comp'.todo = (IF x = "loop" THEN <<>> ELSE comp.todo)
             /\ comp'.buf = (IF x = "loop" THEN 0 ELSE comp.buf)
             /\ comp'.sig = (IF x = "loop" THEN FALSE ELSE comp.sig)
  <2>1. CASE x = "loop"
    BY <1>1, <1>2, <2>1 DEF Goto
  <2>2. CASE x # "loop"
    BY <1>2, <2>2 DEF Goto, CompType
  <2> QED BY <2>1, <2>2
<1>3. StepDone => comp'.pc = comp.pc /\ comp'.todo = Tail(comp.todo) /\ comp'.sig = comp.sig
  BY DEF StepDone, CompType
<1>4. Invalid => comp'.pc = "loop" /\ comp'.todo = <<>>
  BY <1>1 DEF Invalid
<1> QED BY <1>1, <1>2, <1>3, <1>4

\* A port that a step leaves alone, and from which no callback begins or ends, keeps
\* its invariant.
LEMMA PortSame ==
  ASSUME NEW p \in Ports, PortInv(p), port'[p] = port[p], cli'.held[p] = cli.held[p],
         comp'.pc = comp.pc \/ (comp.pc \notin Gives /\ comp'.pc \notin Gives)
  PROVE  PortInv(p)'
<1>1. Lo(p)' = Lo(p)
  BY DEF Lo, Giving, Gives
<1> QED BY <1>1 DEF PortInv

\* The steps that leave all buffers where they are
Quiet ==
  /\ UNCHANGED port /\ cli'.held = cli.held
  /\ comp'.pc = comp.pc \/ (comp.pc \notin Gives /\ comp'.pc \notin Gives)

QuietNext ==
  \/ SendQueue
  \/ LoopWake \/ LoopFetch \/ LoopDrained
  \/ WaitReady \/ WaitFreed \/ CreateCodec \/ CreateFails
  \/ AssertEmpty \/ DestroyCodec \/ StopStream
  \/ SetState \/ RejectState \/ SetInvalid \/ CommandDone
  \/ StreamRuns \/ StartRefused \/ StartGivesUp \/ PickFrame \/ NoFrame
  \/ EncodeGivesUp \/ EncodeRejects \/ EncodeFails \/ EndFails \/ EndGivesUp \/ EndReset

\* These steps change no port and begin no callback.
LEMMA QuietSteps == ASSUME Types, QuietNext PROVE Quiet
<1>1. comp \in CompType /\ cli \in ClientType
  BY DEF Types
<1>2. /\ \A x : Goto(x) => comp'.pc = x
      /\ StepDone => comp'.pc = comp.pc
      /\ Invalid => comp'.pc = "loop"
      /\ AtLoop.pc = "loop"
  BY <1>1, Goes
<1>3. CASE SendQueue
  BY <1>1, <1>3 DEF SendQueue, Quiet, ClientType
<1>4. CASE LoopWake \/ LoopFetch \/ LoopDrained
  <2>1. comp.pc \in {"loop", "cmd"} /\ UNCHANGED <<port, cli>>
    BY <1>4 DEF LoopWake, LoopFetch, LoopDrained
  <2>2. comp'.pc \in {"loop", "cmd", "start"}
    <3>1. CASE LoopWake
      BY <3>1 DEF LoopWake, AtLoop
    <3>2. CASE LoopFetch
      BY <1>1, <3>2 DEF LoopFetch, CompType
    <3>3. CASE LoopDrained
      BY <3>3 DEF LoopDrained, AtLoop
    <3> QED BY <1>4, <3>1, <3>2, <3>3
  <2> QED BY <2>1, <2>2 DEF Quiet, Gives
<1>5. CASE WaitReady \/ WaitFreed \/ CreateCodec \/ DestroyCodec \/ StopStream
  BY <1>2, <1>5 DEF WaitReady, WaitFreed, CreateCodec, DestroyCodec, StopStream, Quiet
<1>6. CASE SetState \/ RejectState \/ CommandDone
  <2>1. cli'.held = cli.held
    BY <1>1, <1>6 DEF SetState, RejectState, CommandDone, ClientType
  <2> QED BY <1>2, <1>6, <2>1 DEF SetState, RejectState, CommandDone, Quiet
<1>7. CASE CreateFails \/ SetInvalid \/ StartRefused \/ EncodeFails
  BY <1>2, <1>7 DEF CreateFails, SetInvalid, StartRefused, EncodeFails, At, Quiet, Gives
<1>8. CASE AssertEmpty
  BY <1>1, <1>2, <1>8 DEF AssertEmpty, At, Quiet, Gives, CompType
<1>9. CASE StreamRuns \/ StartGivesUp \/ NoFrame \/ EndFails \/ EndGivesUp
  BY <1>2, <1>9 DEF StreamRuns, StartGivesUp, NoFrame, EndFails, EndGivesUp, Quiet, Gives
<1>10. CASE PickFrame
  <2>1. comp.pc = "pick" /\ comp'.pc \in {"nopick", "code", "coded"} /\ UNCHANGED <<port, cli>>
    BY <1>1, <1>2, <1>10 DEF PickFrame, CompType
  <2> QED BY <2>1 DEF Quiet, Gives
<1>11. CASE EncodeGivesUp \/ EncodeRejects
  <2>1. comp.pc = "code" /\ NotEncoded
    BY <1>11 DEF EncodeGivesUp, EncodeRejects
  <2> QED BY <1>2, <2>1 DEF NotEncoded, Quiet, Gives
<1>12. CASE EndReset
  <2>1. comp.pc = "endid" /\ comp'.pc = "cmd" /\ UNCHANGED <<port, cli>>
    BY <1>12 DEF EndReset, AtLoop
  <2> QED BY <2>1 DEF Quiet, Gives
<1> QED BY <1>3, <1>4, <1>5, <1>6, <1>7, <1>8, <1>9, <1>10, <1>11, <1>12 DEF QuietNext

\* Every step keeps each port's buffers accounted for.
LEMMA PortStep == ASSUME "refill" \notin Allow, BufInv, Next PROVE \A p \in Ports : PortInv(p)'
<1>1. comp \in CompType /\ cli \in ClientType /\ DOMAIN port = Ports /\ cli.held \in [Ports -> SUBSET Nat]
  BY DEF BufInv, Types, ClientType
<1>2. \A p \in Ports : PortInv(p) /\ Lo(p) \in {1, 2}
  BY DEF BufInv, Lo
<1>3. /\ \A x : Goto(x) => comp'.pc = x
      /\ StepDone => comp'.pc = comp.pc
      /\ AtLoop.pc = "loop"
  BY <1>1, Goes
<1>4. \A p \in Ports : \A bs \in SUBSET Nat :
        /\ Give(p, bs).held = [cli.held EXCEPT ![p] = @ \cup bs]
        /\ Take(p).held = [cli.held EXCEPT ![p] = @ \ {Held(p)}]
  BY <1>1, ClientTypes
<1>5. \A p \in Ports : /\ cli.held[p] # {} => Held(p) \in cli.held[p]
                       /\ ToSet(port[p].queue) \in SUBSET Nat
                       /\ port[p].queue # <<>> => {Head(port[p].queue)} \in SUBSET Nat
  <2> SUFFICES ASSUME NEW p \in Ports
               PROVE  /\ cli.held[p] # {} => Held(p) \in cli.held[p]
                      /\ ToSet(port[p].queue) \in SUBSET Nat
                      /\ port[p].queue # <<>> => {Head(port[p].queue)} \in SUBSET Nat
    OBVIOUS
  <2>1. Count(p) \in Nat
    BY Counts
  <2>2. /\ cli.held[p] # {} => Held(p) \in cli.held[p]
        /\ ToSet(port[p].queue) \subseteq 1 .. Count(p)
        /\ port[p].queue # <<>> => Head(port[p].queue) \in 1 .. Count(p)
    BY <1>1, <1>2, BufferTypes
  <2> QED BY <2>1, <2>2
<1>p. "in" \in Ports /\ "out" \in Ports /\ (\A p \in Ports : p = "in" \/ p = "out")
  BY DEF Ports
<1>l. Lo("in") = (IF comp.pc = "popfirst" THEN 2 ELSE 1)
      /\ Lo("out") = (IF comp.pc \in {"startpop", "endpop"} THEN 2 ELSE 1)
      /\ Lo("in")' = (IF comp'.pc = "popfirst" THEN 2 ELSE 1)
      /\ Lo("out")' = (IF comp'.pc \in {"startpop", "endpop"} THEN 2 ELSE 1)
  BY DEF Lo, Giving
\* One port changes: the buffers of the other stay.
<1>6. ASSUME NEW p \in Ports, NEW r, port' = [port EXCEPT ![p] = r], NEW h, cli'.held = [cli.held EXCEPT ![p] = h],
             Shape(p, r), Own(r, h, Lo(p)'),
             \A o \in Ports \ {p} : Lo(o)' = Lo(o)
      PROVE  \A o \in Ports : PortInv(o)'
  <2> SUFFICES ASSUME NEW o \in Ports PROVE PortInv(o)'
    OBVIOUS
  <2>1. CASE o = p
    <3>1. port'[p] = r /\ cli'.held[p] = h
      BY <1>1, <1>6
    <3> QED BY <1>6, <2>1, <3>1 DEF PortInv
  <2>2. CASE o # p
    <3>1. port'[o] = port[o] /\ cli'.held[o] = cli.held[o] /\ Lo(o)' = Lo(o) /\ PortInv(o)
      BY <1>1, <1>2, <1>6, <2>2
    <3> QED BY <3>1 DEF PortInv
  <2> QED BY <2>1, <2>2
<1>7. CASE QuietNext
  <2>1. Quiet
    BY <1>7, QuietSteps DEF BufInv
  <2> QED BY <1>2, <2>1, PortSame DEF Quiet
<1>8. ASSUME NEW c \in Commands, SendCommand(c) PROVE \A p \in Ports : PortInv(p)'
  <2>1. cli'.held = cli.held /\ UNCHANGED comp
    BY <1>1, <1>8 DEF SendCommand, ClientType
  <2> SUFFICES ASSUME NEW p \in Ports PROVE PortInv(p)'
    OBVIOUS
  <2>2. PICK on \in BOOLEAN : port'[p] = port[p] \/ port'[p] = [port[p] EXCEPT !.enabled = on]
    <3>1. port[p] \in PortType(p)
      BY <1>2 DEF PortInv, Shape
    <3>2. port[p].enabled \in BOOLEAN
      BY <3>1 DEF PortType
    <3> DEFINE a == port[p].enabled /\ p \notin PortsOf(c[2])
               b == port[p].enabled \/ p \in PortsOf(c[2])
    <3>3. a \in BOOLEAN /\ b \in BOOLEAN
      OBVIOUS
    <3>4. port'[p] = port[p] \/ port'[p] = [port[p] EXCEPT !.enabled = a] \/ port'[p] = [port[p] EXCEPT !.enabled = b]
      BY <1>8 DEF SendCommand, SendFlags
    <3> HIDE DEF a, b
    <3> QED BY <3>3, <3>4
  <2>3. Lo(p)' = Lo(p)
    BY <2>1 DEF Lo, Giving
  <2>4. CASE port'[p] = port[p]
    BY <1>2, <2>1, <2>4, PortSame
  <2>5. CASE port'[p] = [port[p] EXCEPT !.enabled = on]
    <3>1. Shape(p, port'[p]) /\ Own(port'[p], cli.held[p], Lo(p))
      BY <1>2, <2>5, EnableOwn DEF PortInv
    <3> QED BY <2>1, <2>3, <3>1 DEF PortInv
  <2> QED BY <2>2, <2>4, <2>5
<1>9. ASSUME NEW p \in Ports, UseBuffer(p) PROVE \A o \in Ports : PortInv(o)'
  <2> DEFINE b == Fresh(p, port[p])
             r == Alloc(p, port[p])
             h == cli.held[p] \cup {b}
  <2>1. port[p].populated = FALSE
    BY <1>2, <1>9 DEF UseBuffer, PortInv, Shape, PortType
  <2>2. Shape(p, r) /\ Own(r, h, Lo(p)) /\ b \in 1 .. Count(p)
    <3>1. Shape(p, port[p]) /\ Own(port[p], cli.held[p], Lo(p)) /\ Lo(p) \in {1, 2}
      BY <1>2 DEF PortInv
    <3>2. PICK s, g, lo : s = port[p] /\ g = cli.held[p] /\ lo = Lo(p)
      BY <3>1
    <3>3. Shape(p, s) /\ Own(s, g, lo) /\ lo \in {1, 2} /\ s.populated = FALSE
      BY <2>1, <3>1, <3>2
    <3>4. /\ Shape(p, Alloc(p, s)) /\ Own(Alloc(p, s), g \cup {Fresh(p, s)}, lo)
          /\ Fresh(p, s) \in 1 .. Count(p)
      BY <3>3, AllocOwn
    <3> QED BY <3>2, <3>4
  <2>3. port' = [port EXCEPT ![p] = r] /\ cli' = Give(p, {b}) /\ UNCHANGED comp
    BY <1>9 DEF UseBuffer, Fresh, Alloc
  <2> HIDE DEF b, r
  <2>4. {b} \in SUBSET Nat
    BY <2>2, Counts
  <2>5. cli'.held = [cli.held EXCEPT ![p] = h]
    BY <1>1, <1>4, <2>3, <2>4
  <2>6. \A o \in Ports : Lo(o)' = Lo(o)
    BY <2>3 DEF Lo, Giving
  <2> HIDE DEF h
  <2> QED BY <1>6, <2>2, <2>3, <2>5, <2>6
<1>10. ASSUME NEW p \in Ports, FreeBuffer(p) PROVE \A o \in Ports : PortInv(o)'
  <2> DEFINE b == Held(p)
             r == Freed(port[p], b)
             h == cli.held[p] \ {b}
  <2>1. b \in cli.held[p]
    BY <1>5, <1>10 DEF FreeBuffer
  <2>2. Shape(p, r) /\ Own(r, h, Lo(p))
    BY <1>2, <2>1, FreeOwn DEF PortInv
  <2>3. port' = [port EXCEPT ![p] = r] /\ cli' = Take(p) /\ UNCHANGED comp
    BY <1>10 DEF FreeBuffer, Freed
  <2>5. cli'.held = [cli.held EXCEPT ![p] = h]
    BY <1>1, <1>4, <2>3
  <2>6. \A o \in Ports : Lo(o)' = Lo(o)
    BY <2>3 DEF Lo, Giving
  <2> HIDE DEF b, r, h
  <2> QED BY <1>6, <2>2, <2>3, <2>5, <2>6
<1>11. ASSUME NEW p \in Ports, cli.held[p] # {}, port' = [port EXCEPT ![p] = PushBuffer(@, Held(p))],
              cli' = Take(p), UNCHANGED comp
       PROVE  \A o \in Ports : PortInv(o)'
  <2> DEFINE b == Held(p)
             r == PushBuffer(port[p], b)
             h == cli.held[p] \ {b}
  <2>1. b \in cli.held[p]
    BY <1>5, <1>11
  <2>2. Shape(p, r) /\ Own(r, h, Lo(p))
    <3>1. Shape(p, port[p]) /\ Own(port[p], cli.held[p], Lo(p)) /\ Lo(p) \in {1, 2}
      BY <1>2 DEF PortInv
    <3>2. PICK s, g, lo, d : s = port[p] /\ g = cli.held[p] /\ lo = Lo(p) /\ d = b
      BY <2>1, <3>1
    <3>3. Shape(p, s) /\ Own(s, g, lo) /\ lo \in {1, 2} /\ d \in g
      BY <2>1, <3>1, <3>2
    <3>4. Shape(p, PushBuffer(s, d)) /\ Own(PushBuffer(s, d), g \ {d}, lo)
      BY <3>3, PushOwn
    <3> QED BY <3>2, <3>4
  <2>3. port' = [port EXCEPT ![p] = r] /\ cli' = Take(p) /\ UNCHANGED comp
    BY <1>11
  <2>5. cli'.held = [cli.held EXCEPT ![p] = h]
    BY <1>1, <1>4, <2>3
  <2>6. \A o \in Ports : Lo(o)' = Lo(o)
    BY <2>3 DEF Lo, Giving
  <2> HIDE DEF b, r, h
  <2> QED BY <1>6, <2>2, <2>3, <2>5, <2>6
<1>12. CASE FillThisBuffer
  BY <1>11, <1>12, <1>p DEF FillThisBuffer, MayPush
<1>13. ASSUME NEW eos \in BOOLEAN, NEW full \in BOOLEAN, EmptyThisBuffer(eos, full)
       PROVE  \A o \in Ports : PortInv(o)'
  BY <1>11, <1>13, <1>p DEF EmptyThisBuffer, MayPush
<1>14. CASE ReturnBuffers
  <2> DEFINE p == Arg
             bs == ToSet(port[p].queue)
             r == QueueClear(port[p])
             h == cli.held[p] \cup bs
  <2>1. p \in Ports /\ comp.pc = "cmd" /\ comp'.pc = "cmd"
    <3>1. comp.todo[1] \in Steps /\ comp.todo[1][1] = "return"
      BY <1>1, <1>14, CompTypes DEF ReturnBuffers, At
    <3> QED BY <1>3, <1>14, <3>1 DEF Steps, Arg, ReturnBuffers, At
  <2>2. \A o \in Ports : Lo(o)' = 1 /\ Lo(o) = 1
    BY <1>l, <1>p, <2>1
  <2>3. port' = [port EXCEPT ![p] = r] /\ cli' = Give(p, bs)
    BY <1>14, AllReturned DEF ReturnAll
  <2> HIDE DEF p
  <2>4. Shape(p, r) /\ Own(r, h, 1)
    BY <1>2, <2>1, <2>2, ClearOwn DEF PortInv
  <2>5. cli'.held = [cli.held EXCEPT ![p] = h]
    BY <1>1, <1>4, <1>5, <2>1, <2>3
  <2> HIDE DEF bs, r, h
  <2> QED BY <1>6, <2>1, <2>2, <2>3, <2>4, <2>5
\* The callback for the head of a queue
<1>15. ASSUME NEW p \in Ports, port[p].queue # <<>>, UNCHANGED port, cli' = Give(p, {Head(port[p].queue)}),
              Lo(p) = 1, Lo(p)' = 2, \A o \in Ports \ {p} : Lo(o)' = Lo(o)
       PROVE  \A o \in Ports : PortInv(o)'
  <2> DEFINE bs == {Head(port[p].queue)}
             h == cli.held[p] \cup bs
  <2>1. Shape(p, port[p]) /\ Own(port[p], h, 2)
    BY <1>2, <1>15, GiveHead DEF PortInv
  <2>2. cli'.held = [cli.held EXCEPT ![p] = h]
    BY <1>1, <1>4, <1>5, <1>15
  <2> HIDE DEF bs, h
  <2>3. \A o \in Ports \ {p} : PortInv(o) /\ cli'.held[o] = cli.held[o] /\ Lo(o)' = Lo(o)
    BY <1>1, <1>2, <1>15, <2>2
  <2>4. cli'.held[p] = h
    BY <1>1, <2>2
  <2> QED BY <1>15, <2>1, <2>3, <2>4 DEF PortInv
<1>16. CASE StartStream \/ EndStream
  <2>1. /\ port["out"].queue # <<>> /\ UNCHANGED port /\ cli' = Give("out", {Head(port["out"].queue)})
        /\ comp.pc \in {"start", "end"} /\ comp'.pc \in {"startpop", "endpop"}
    BY <1>3, <1>16 DEF StartStream, EndStream, NoOutput, HeadOut
  <2>2. Lo("out") = 1 /\ Lo("out")' = 2 /\ \A o \in Ports \ {"out"} : Lo(o)' = Lo(o)
    BY <1>l, <1>p, <2>1
  <2> QED BY <1>15, <1>p, <2>1, <2>2
<1>17. CASE Coded
  <2>1. comp.pc = "coded" /\ UNCHANGED port
    BY <1>17 DEF Coded
  <2>2. CASE comp'.pc # "popfirst"
    <3>1. UNCHANGED cli
      BY <1>3, <1>17, <2>2 DEF Coded
    <3>2. comp'.pc \notin Gives
      BY <1>1, <1>3, <1>17, <2>2 DEF Coded, Gives, AtLoop
    <3> QED BY <1>2, <2>1, <3>1, <3>2, PortSame DEF Gives
  <2>3. CASE comp'.pc = "popfirst"
    <3>1. cli' = Give("in", {comp.buf}) /\ enc.curr = NoId
      BY <1>3, <1>17, <2>3 DEF Coded, AtLoop
    <3>2. comp.buf = Head(port["in"].queue) /\ port["in"].queue # <<>>
      <4>1. comp.buf \in From(port["in"].queue, 1) /\ comp.buf = Head(port["in"].queue)
        BY <2>1, <3>1 DEF BufInv, Picked
      <4> QED BY <4>1, NoElems
    <3>3. Lo("in") = 1 /\ Lo("in")' = 2 /\ \A o \in Ports \ {"in"} : Lo(o)' = Lo(o)
      BY <1>l, <1>p, <2>1, <2>3
    <3> QED BY <1>15, <1>p, <2>1, <3>1, <3>2, <3>3
  <2> QED BY <2>2, <2>3
\* Its removal
<1>18. ASSUME NEW p \in Ports, port' = [port EXCEPT ![p] = PopBuffer(@)], UNCHANGED cli,
              Lo(p) = 2, Lo(p)' = 1, \A o \in Ports \ {p} : Lo(o)' = Lo(o)
       PROVE  \A o \in Ports : PortInv(o)'
  <2> DEFINE r == PopBuffer(port[p])
             h == cli.held[p]
  <2>1. Shape(p, r) /\ Own(r, h, 1)
    BY <1>2, <1>18, PopGiven DEF PortInv
  <2>2. port' = [port EXCEPT ![p] = r] /\ cli'.held = [cli.held EXCEPT ![p] = h]
    BY <1>1, <1>18
  <2> HIDE DEF r, h
  <2> QED BY <1>6, <1>18, <2>1, <2>2
<1>19. CASE StartPop \/ EndPop
  <2>1. /\ port' = [port EXCEPT !["out"] = PopBuffer(@)] /\ UNCHANGED cli
        /\ comp.pc \in {"startpop", "endpop"} /\ comp'.pc \in {"pick", "endid"}
    BY <1>3, <1>19 DEF StartPop, EndPop
  <2>2. Lo("out") = 2 /\ Lo("out")' = 1 /\ \A o \in Ports \ {"out"} : Lo(o)' = Lo(o)
    BY <1>l, <1>p, <2>1
  <2> QED BY <1>18, <1>p, <2>1, <2>2
<1>20. CASE PopFirst
  <2>1. /\ port' = [port EXCEPT !["in"] = PopBuffer(@)] /\ UNCHANGED cli
        /\ comp.pc = "popfirst" /\ comp'.pc = "loop"
    BY <1>3, <1>20 DEF PopFirst
  <2>2. Lo("in") = 2 /\ Lo("in")' = 1 /\ \A o \in Ports \ {"in"} : Lo(o)' = Lo(o)
    BY <1>l, <1>p, <2>1
  <2> QED BY <1>18, <1>p, <2>1, <2>2
<1>21. CASE EncodeFrame \/ DiscardFrame
  <2> DEFINE s == port["out"]
             r == PopBuffer(s)
             h == cli.held["out"] \cup {Head(s.queue)}
  <2>1. /\ port' = [port EXCEPT !["out"] = r] /\ cli' = Give("out", {Head(s.queue)})
        /\ comp.pc = "code" /\ comp'.pc = "coded" /\ s.queue # <<>>
    BY <1>3, <1>21 DEF EncodeFrame, DiscardFrame, Deliver, NoOutput, HeadOut
  <2>2. (\A o \in Ports : Lo(o)' = Lo(o)) /\ Lo("out") = 1
    BY <1>l, <1>p, <2>1
  <2>3. Shape("out", s) /\ Own(s, h, 2)
    BY <1>2, <1>p, <2>1, <2>2, GiveHead DEF PortInv
  <2>4. Shape("out", r) /\ Own(r, h, 1)
    <3> HIDE DEF h, s
    <3> QED BY <1>p, <2>3, PopGiven
  <2>5. cli'.held = [cli.held EXCEPT !["out"] = h]
    BY <1>1, <1>4, <1>5, <1>p, <2>1
  <2> HIDE DEF s, r, h
  <2> QED BY <1>6, <1>p, <2>1, <2>2, <2>4, <2>5
<1>22. CASE GiveBack
  <2> DEFINE bs == Found(port["in"], Id, comp.pic)
             r == PopBufferByFrameId(port["in"], Id, comp.pic)
             h == cli.held["in"] \cup bs
  <2>1. port' = [port EXCEPT !["in"] = r] /\ cli' = Give("in", bs) /\ comp.pc = "giveback" /\ comp'.pc \notin Gives
    BY <1>1, <1>3, <1>22 DEF GiveBack, Found, Gives, CompType
  <2>2. \A o \in Ports : Lo(o)' = 1 /\ Lo(o) = 1
    BY <1>l, <1>p, <2>1 DEF Gives
  <2>3. Shape("in", r) /\ Own(r, h, 1) /\ bs \subseteq From(port["in"].queue, 1)
    BY <1>2, <1>p, <2>2, PopFrameOwn DEF PortInv
  <2> HIDE DEF bs, r
  <2>4. bs \in SUBSET Nat
    <3>1. From(port["in"].queue, 1) \subseteq 1 .. Count("in") /\ Count("in") \in Nat
      BY <1>1, <1>2, <1>p, BufferTypes, Counts
    <3> QED BY <2>3, <3>1
  <2>5. cli'.held = [cli.held EXCEPT !["in"] = h]
    BY <1>1, <1>4, <1>p, <2>1, <2>4
  <2> HIDE DEF h
  <2> QED BY <1>6, <1>p, <2>1, <2>2, <2>3, <2>5
<1> QED
  BY <1>7, <1>8, <1>9, <1>10, <1>12, <1>13, <1>14, <1>16, <1>17, <1>19, <1>20, <1>21, <1>22
  DEF Next, ClientNext, CompNext, CommandNext, EncodeNext, QuietNext

-----------------------------------------------------------------------------
(* The frame that is being encoded *)

Coding == {"code", "coded"}

\* The component's steps that do not lead to the encoding of a frame
LEMMA NotCoding ==
  ASSUME Types, CompNext, ~PickFrame, ~EncodeFrame, ~DiscardFrame, ~EncodeGivesUp, ~EncodeRejects
  PROVE  comp'.pc \notin Coding
<1>1. comp \in CompType
  BY DEF Types
<1>2. /\ \A x : Goto(x) => comp'.pc = x
      /\ StepDone => comp'.pc = comp.pc
      /\ Invalid => comp'.pc = "loop"
      /\ AtLoop.pc = "loop"
  BY <1>1, Goes
<1>3. ASSUME LoopWake \/ LoopFetch \/ LoopDrained PROVE comp'.pc \notin Coding
  <2>1. CASE LoopWake
    BY <2>1 DEF LoopWake, AtLoop, Coding
  <2>2. CASE LoopFetch
    BY <1>1, <2>2 DEF LoopFetch, CompType, Coding
  <2>3. CASE LoopDrained
    BY <2>3 DEF LoopDrained, AtLoop, Coding
  <2> QED BY <1>3, <2>1, <2>2, <2>3
<1>4. ASSUME \/ ReturnBuffers \/ WaitReady \/ WaitFreed \/ CreateCodec \/ DestroyCodec \/ StopStream
             \/ SetState \/ RejectState \/ CommandDone
      PROVE  comp'.pc \notin Coding
  BY <1>2, <1>4
  DEF ReturnBuffers, WaitReady, WaitFreed, CreateCodec, DestroyCodec, StopStream, SetState, RejectState,
      CommandDone, At, Coding
<1>5. ASSUME CreateFails \/ SetInvalid \/ StartRefused \/ EncodeFails PROVE comp'.pc \notin Coding
  BY <1>2, <1>5 DEF CreateFails, SetInvalid, StartRefused, EncodeFails, Coding
<1>6. ASSUME AssertEmpty PROVE comp'.pc \notin Coding
  BY <1>1, <1>2, <1>6 DEF AssertEmpty, At, Coding, CompType
<1>7. ASSUME StreamRuns \/ StartStream \/ StartGivesUp \/ StartPop \/ NoFrame PROVE comp'.pc \notin Coding
  BY <1>2, <1>7 DEF StreamRuns, StartStream, StartGivesUp, StartPop, NoFrame, Coding
<1>8. ASSUME Coded PROVE comp'.pc \notin Coding
  BY <1>2, <1>8 DEF Coded, Coding, AtLoop
<1>9. ASSUME GiveBack PROVE comp'.pc \notin Coding
  BY <1>1, <1>2, <1>9 DEF GiveBack, Coding, CompType
<1>10. ASSUME PopFirst \/ EndStream \/ EndFails \/ EndGivesUp \/ EndPop PROVE comp'.pc \notin Coding
  BY <1>2, <1>10 DEF PopFirst, EndStream, EndFails, EndGivesUp, EndPop, Coding
<1>11. ASSUME EndReset PROVE comp'.pc \notin Coding
  BY <1>11 DEF EndReset, AtLoop, Coding
<1> QED
  BY <1>3, <1>4, <1>5, <1>6, <1>7, <1>8, <1>9, <1>10, <1>11 DEF CompNext, CommandNext, EncodeNext

\* Commands, allocations and releases leave the queues alone.
LEMMA ClientQueues ==
  ASSUME BufInv,
         \/ \E c \in Commands : SendCommand(c)
         \/ \E p \in Ports : UseBuffer(p) \/ FreeBuffer(p)
  PROVE  \A p \in Ports : port'[p].queue = port[p].queue /\ port'[p].event = port[p].event
<1>1. cli \in ClientType /\ DOMAIN port = Ports
  BY DEF BufInv, Types
<1>2. \A p \in Ports : Shape(p, port[p]) /\ Own(port[p], cli.held[p], Lo(p)) /\ Lo(p) \in {1, 2}
  BY DEF BufInv, PortInv, Lo
<1>3. ASSUME NEW p \in Ports, NEW r, port' = [port EXCEPT ![p] = r], r.queue = port[p].queue, r.event = port[p].event
      PROVE  \A o \in Ports : port'[o].queue = port[o].queue /\ port'[o].event = port[o].event
  BY <1>1, <1>3
<1>4. ASSUME NEW c \in Commands, SendCommand(c)
      PROVE  \A p \in Ports : port'[p].queue = port[p].queue /\ port'[p].event = port[p].event
  <2> SUFFICES ASSUME NEW p \in Ports
               PROVE  port'[p].queue = port[p].queue /\ port'[p].event = port[p].event
    OBVIOUS
  <2>1. port[p] \in PortType(p)
    BY <1>2 DEF Shape
  <2>2. port'[p] = port[p] \/ \E on : port'[p] = [port[p] EXCEPT !.enabled = on]
    BY <1>4 DEF SendCommand, SendFlags
  <2> QED BY <2>1, <2>2 DEF PortType
<1>5. ASSUME NEW p \in Ports, UseBuffer(p)
      PROVE  \A o \in Ports : port'[o].queue = port[o].queue /\ port'[o].event = port[o].event
  <2>1. PICK s, g, lo : s = port[p] /\ g = cli.held[p] /\ lo = Lo(p)
    OBVIOUS
  <2>2. Shape(p, s) /\ Own(s, g, lo) /\ lo \in {1, 2} /\ s.populated = FALSE
    BY <1>2, <1>5, <2>1 DEF UseBuffer, Shape, PortType
  <2>3. Alloc(p, s).queue = s.queue /\ Alloc(p, s).event = s.event
    BY <2>2, AllocatedQueue
  <2>4. port' = [port EXCEPT ![p] = Alloc(p, s)]
    BY <1>5, <2>1 DEF UseBuffer, Fresh, Alloc
  <2> QED BY <1>3, <2>1, <2>3, <2>4
<1>6. ASSUME NEW p \in Ports, FreeBuffer(p)
      PROVE  \A o \in Ports : port'[o].queue = port[o].queue /\ port'[o].event = port[o].event
  <2>1. PICK s, g, lo, b : s = port[p] /\ g = cli.held[p] /\ lo = Lo(p) /\ b = Held(p)
    OBVIOUS
  <2>2. Held(p) \in cli.held[p]
    BY <1>1, <1>6, BufferTypes DEF FreeBuffer, BufInv
  <2>3. Shape(p, s) /\ Own(s, g, lo) /\ lo \in {1, 2} /\ b \in g
    BY <1>2, <2>1, <2>2
  <2>4. Freed(s, b).queue = s.queue /\ Freed(s, b).event = s.event
    BY <2>3, FreeOwn
  <2>5. port' = [port EXCEPT ![p] = Freed(s, b)]
    BY <1>6, <2>1 DEF FreeBuffer, Freed
  <2> QED BY <1>3, <2>1, <2>4, <2>5
<1> QED BY <1>4, <1>5, <1>6

\* The frame that PickFrame found stays where it was found until it is encoded: the
\* client only appends to the queue.
LEMMA PickedStep == ASSUME BufInv, Next PROVE Picked'
<1>1. comp \in CompType /\ cli \in ClientType /\ DOMAIN port = Ports /\ enc \in EncType /\ Types
  BY DEF BufInv, Types
<1>p. "in" \in Ports /\ "out" \in Ports /\ "in" # "out"
  BY DEF Ports
<1>2. PortInv("in") /\ Picked
  BY <1>p DEF BufInv
<1>3. port["in"].queue \in Seq(1 .. Count("in"))
  BY <1>2 DEF PortInv, Shape, PortType
\* The queue of the in port and the thread stay as they are.
<1>4. ASSUME port'["in"].queue = port["in"].queue, comp'.buf = comp.buf, enc'.curr = enc.curr,
             comp'.pc \in Coding => comp.pc \in Coding
      PROVE  Picked'
  BY <1>2, <1>4 DEF Picked, Coding
<1>5. ASSUME NEW c \in Commands, SendCommand(c) PROVE Picked'
  <2>1. enc'.curr = enc.curr /\ UNCHANGED comp
    BY <1>1, <1>5 DEF SendCommand, SendFlags, EncType
  <2> QED BY <1>4, <1>5, <1>p, <2>1, ClientQueues
<1>6. ASSUME SendQueue PROVE Picked'
  BY <1>4, <1>6 DEF SendQueue
<1>7. ASSUME NEW p \in Ports, UseBuffer(p) \/ FreeBuffer(p) PROVE Picked'
  <2>1. UNCHANGED <<comp, enc>>
    BY <1>7 DEF UseBuffer, FreeBuffer
  <2> QED BY <1>4, <1>7, <1>p, <2>1, ClientQueues
<1>9. ASSUME FillThisBuffer PROVE Picked'
  BY <1>1, <1>4, <1>9, <1>p DEF FillThisBuffer
<1>10. ASSUME NEW eos \in BOOLEAN, NEW full \in BOOLEAN, EmptyThisBuffer(eos, full) PROVE Picked'
  <2> DEFINE b == Held("in")
             q == port["in"].queue
  <2>1. /\ UNCHANGED comp /\ enc'.curr = enc.curr /\ port' = [port EXCEPT !["in"] = PushBuffer(@, b)]
        /\ cli.held["in"] # {}
    BY <1>1, <1>10 DEF EmptyThisBuffer, Send, MayPush, EncType
  <2>2. b \in cli.held["in"] /\ b \in 1 .. Count("in")
    BY <1>1, <1>2, <1>p, <2>1, BufferTypes
  <2>3. port'["in"].queue = Append(q, b)
    <3>1. Shape("in", port["in"]) /\ Own(port["in"], cli.held["in"], Lo("in")) /\ Lo("in") \in {1, 2}
      BY <1>2 DEF PortInv, Lo
    <3>2. PushBuffer(port["in"], b).queue = Append(q, b)
      BY <1>p, <2>2, <3>1, PushedQueue
    <3> QED BY <1>1, <1>p, <2>1, <3>2
  <2> HIDE DEF b, q
  <2>4. \A i \in 1 .. Len(q) : i \in 1 .. Len(Append(q, b)) /\ Append(q, b)[i] = q[i]
    BY <1>3, <2>2 DEF q
  <2>5. From(q, 1) \subseteq From(Append(q, b), 1)
    BY <2>4 DEF From
  <2>6. q # <<>> => Head(Append(q, b)) = Head(q)
    BY <1>3, <2>2 DEF q
  <2>7. From(q, 1) # {} => q # <<>>
    BY NoElems
  <2> QED BY <1>2, <2>1, <2>3, <2>5, <2>6, <2>7 DEF Picked, q
<1>11. ASSUME CompNext, ~PickFrame, ~EncodeFrame, ~DiscardFrame, ~EncodeGivesUp, ~EncodeRejects PROVE Picked'
  BY <1>1, <1>11, NotCoding DEF Picked, Coding
<1>12. ASSUME PickFrame PROVE Picked'
  <2> DEFINE q == port["in"].queue
             i == IF enc.next # NoId THEN PlaceOfFrame(port["in"], Id, enc.next)
                  ELSE IF q = <<>> THEN 0 ELSE 1
  <2>1. CASE i = 0
    <3>1. comp'.pc = "nopick"
      BY <1>1, <1>12, <2>1, Goes DEF PickFrame
    <3> QED BY <3>1 DEF Picked
  <2>2. CASE i # 0
    <3>1. UNCHANGED port /\ comp'.buf = q[i] /\ enc'.curr = enc.next
      BY <1>1, <1>12, <2>2 DEF PickFrame, CompType, EncType
    <3>2. i \in 1 .. Len(q)
      <4>1. CASE enc.next # NoId
        BY <1>3, <2>2, <4>1, FrameFound
      <4>2. CASE enc.next = NoId
        BY <1>3, <2>2, <4>2
      <4> QED BY <4>1, <4>2
    <3>3. enc.next = NoId => i = 1 /\ q # <<>>
      BY <2>2
    <3> HIDE DEF i
    <3>4. q[i] \in From(q, 1)
      BY <3>2 DEF From
    <3>5. enc.next = NoId => q[i] = Head(q)
      BY <1>3, <3>3
    <3> QED BY <3>1, <3>4, <3>5 DEF Picked
  <2> QED BY <2>1, <2>2
<1>13. ASSUME EncodeFrame \/ DiscardFrame PROVE Picked'
  <2>1. Deliver /\ comp.pc = "code" /\ enc'.curr = enc.curr
    BY <1>1, <1>13 DEF EncodeFrame, DiscardFrame, EncType
  <2>2. port'["in"] = port["in"] /\ comp'.buf = comp.buf
    <3>1. Goto("coded")
      BY <2>1 DEF Deliver
    <3>2. comp'.buf = comp.buf
      BY <1>1, <3>1 DEF Goto, CompType
    <3> QED BY <1>1, <1>p, <2>1, <3>2 DEF Deliver
  <2> QED BY <1>4, <2>1, <2>2 DEF Coding
<1>14. ASSUME EncodeGivesUp \/ EncodeRejects PROVE Picked'
  <2>1. NotEncoded /\ comp.pc = "code"
    BY <1>14 DEF EncodeGivesUp, EncodeRejects
  <2>2. CASE enc.mine
    <3>1. comp'.pc = "loop"
      BY <1>1, <2>1, <2>2, Goes DEF NotEncoded
    <3> QED BY <3>1 DEF Picked
  <2>3. CASE ~enc.mine
    <3>1. UNCHANGED <<port, enc>> /\ comp'.buf = comp.buf
      <4>1. Goto("coded") /\ UNCHANGED <<port, enc>>
        BY <2>1, <2>3 DEF NotEncoded
      <4> QED BY <1>1, <4>1 DEF Goto, CompType
    <3> QED BY <1>4, <2>1, <3>1 DEF Coding
  <2> QED BY <2>2, <2>3
<1> QED
  BY <1>5, <1>6, <1>7, <1>9, <1>10, <1>11, <1>12, <1>13, <1>14 DEF Next, ClientNext

-----------------------------------------------------------------------------
(* The commands *)

\* A step of a plan is done.
LEMMA TailOf ==
  ASSUME NEW todo \in Seq(Steps), todo # <<>>
  PROVE  /\ Ends(Tail(todo)) => Ends(todo)
         /\ EndsOnce(todo) => EndsOnce(Tail(todo))
         /\ EndsOnce(todo) /\ todo[1][1] \in Enders => Tail(todo) = <<>> /\ Len(todo) = 1
         /\ todo[1][1] \in Enders => Ends(todo)
         /\ Ends(todo) /\ todo[1][1] \notin Enders => Ends(Tail(todo))
         /\ Stops(Tail(todo)) => Stops(todo)
         /\ \A p : Returns(todo, p) => Returns(Tail(todo), p) \/ todo[1] = <<"return", p>>
<1> HIDE DEF Steps
<1> DEFINE s == Tail(todo)
<1>1. /\ Len(todo) \in Nat /\ Len(todo) # 0 /\ s \in Seq(Steps) /\ Len(s) = Len(todo) - 1
      /\ \A i \in 1 .. Len(s) : s[i] = todo[i + 1]
  <2>1. Len(todo) \in Nat /\ Len(todo) # 0
    BY EmptySeq
  <2> QED BY <2>1, HeadTailProperties
<1>2. \A i \in 1 .. Len(s) : i + 1 \in 1 .. Len(todo)
  BY <1>1
<1>3. \A i \in 1 .. Len(todo) : i # 1 => i - 1 \in 1 .. Len(s) /\ s[i - 1] = todo[i]
  BY <1>1
<1>5. 1 \in 1 .. Len(todo)
  BY <1>1
<1> HIDE DEF s
<1>4. Len(todo) = 1 => s = <<>>
  BY <1>1, EmptySeq
<1>6. Ends(s) => Ends(todo)
  BY <1>1, <1>2 DEF Ends
<1>7. EndsOnce(todo) => EndsOnce(s)
  <2> SUFFICES ASSUME EndsOnce(todo), NEW i \in 1 .. Len(s), s[i][1] \in Enders PROVE i = Len(s)
    BY DEF EndsOnce
  <2>1. i + 1 = Len(todo)
    BY <1>1, <1>2 DEF EndsOnce
  <2> QED BY <1>1, <2>1
<1>8. EndsOnce(todo) /\ todo[1][1] \in Enders => s = <<>> /\ Len(todo) = 1
  BY <1>4, <1>5 DEF EndsOnce
<1>9. todo[1][1] \in Enders => Ends(todo)
  BY <1>5 DEF Ends
<1>10. Ends(todo) /\ todo[1][1] \notin Enders => Ends(s)
  <2> SUFFICES ASSUME NEW i \in 1 .. Len(todo), todo[i][1] \in Enders, todo[1][1] \notin Enders
               PROVE  Ends(s)
    BY DEF Ends
  <2>1. i # 1
    OBVIOUS
  <2>2. i - 1 \in 1 .. Len(s) /\ s[i - 1] = todo[i]
    BY <1>3, <2>1
  <2> QED BY <2>2 DEF Ends
<1>11. Stops(s) => Stops(todo)
  BY <1>1, <1>2 DEF Stops
<1>12. ASSUME NEW p, Returns(todo, p) PROVE Returns(s, p) \/ todo[1] = <<"return", p>>
  <2>1. PICK i \in 1 .. Len(todo) : todo[i] = <<"return", p>>
    BY <1>12 DEF Returns
  <2>2. CASE i = 1
    BY <2>1, <2>2
  <2>3. CASE i # 1
    <3>1. i - 1 \in 1 .. Len(s) /\ s[i - 1] = <<"return", p>>
      BY <1>3, <2>1, <2>3
    <3> QED BY <3>1 DEF Returns
  <2> QED BY <2>2, <2>3
<1> QED BY <1>6, <1>7, <1>8, <1>9, <1>10, <1>11, <1>12 DEF s

\* An empty plan, and plans of a few steps
LEMMA NoPlan == ~Ends(<<>>) /\ EndsOnce(<<>>) /\ ~Stops(<<>>)
BY DEF Ends, EndsOnce, Stops

\* The last step of a command ends it; buffers are returned before the component rests.
LEMMA PlanEnds ==
  ASSUME NEW c \in Commands
  PROVE  /\ EndsOnce(Plan(c)) /\ Ends(Plan(c))
         /\ Stops(Plan(c)) => enc.state \in Resting \/ \A p \in Ports : Returns(Plan(c), p)
<1>1. CASE c[1] = "StateSet"
  <2> DEFINE t == c[2]
  <2>1. Plan(c) = StatePlan(t) /\ t \in States
    BY <1>1 DEF Plan, Commands
  <2> HIDE DEF t
  <2>2. \/ StatePlan(t) \in {<<<<"done">>>>, <<<<"invalid">>>>, <<<<"reject">>>>}
        \/ StatePlan(t) = <<<<"state", t>>>> /\ (t \notin Resting \/ enc.state \in Resting)
        \/ StatePlan(t) = <<<<"ready", Ports>>, <<"create">>, <<"state", t>>>> /\ enc.state = "Loaded"
        \/ StatePlan(t) = <<<<"return", "in">>, <<"return", "out">>, <<"state", t>>>>
        \/ StatePlan(t) = <<<<"return", "in">>, <<"return", "out">>, <<"stop">>, <<"state", t>>>>
        \/ StatePlan(t) = <<<<"empty">>, <<"freed", Ports>>, <<"destroy">>, <<"state", t>>>> /\ enc.state = "Idle"
    <3>1. "Executing" \notin Resting /\ "Pause" \notin Resting
      BY DEF Resting
    <3>2. {enc.state, t} = {"Loaded", "WaitForResources"} => enc.state \in Resting
      BY DEF Resting
    <3> DEFINE s == enc.state
               a == <<<<"done">>>>
               b == <<<<"ready", Ports>>, <<"create">>, <<"state", t>>>>
               d == <<<<"return", "in">>, <<"return", "out">>, <<"state", t>>>>
               e == <<<<"return", "in">>, <<"return", "out">>, <<"stop">>, <<"state", t>>>>
               f == <<<<"empty">>, <<"freed", Ports>>, <<"destroy">>, <<"state", t>>>>
               g == <<<<"state", t>>>>
               i == <<<<"invalid">>>>
               r == <<<<"reject">>>>
    <3>3. StatePlan(t) =
            CASE s = t -> a
              [] s = "Loaded" /\ t = "Idle" -> b
              [] s = "Pause" /\ t = "Idle" -> d
              [] s = "Executing" /\ t = "Idle" -> e
              [] s = "Idle" /\ t = "Loaded" -> f
              [] s \in {"Idle", "Pause"} /\ t = "Executing" -> g
              [] s \in {"Idle", "Executing"} /\ t = "Pause" -> g
              [] {s, t} = {"Loaded", "WaitForResources"} -> g
              [] t = "Invalid" /\ s # t -> i
              [] OTHER -> r
      BY Zenon DEF StatePlan
    <3> HIDE DEF Resting, a, b, d, e, f, g, i, r
    <3>4. \/ StatePlan(t) \in {a, i, r}
          \/ StatePlan(t) = g /\ (t \notin Resting \/ s \in Resting)
          \/ StatePlan(t) = b /\ s = "Loaded"
          \/ StatePlan(t) = d
          \/ StatePlan(t) = e
          \/ StatePlan(t) = f /\ s = "Idle"
      BY <3>1, <3>2, <3>3
    <3> QED BY <3>4, Zenon DEF a, b, d, e, f, g, i, r
  <2> DEFINE P == StatePlan(t)
  <2>3. SUFFICES /\ EndsOnce(P) /\ Ends(P)
                 /\ Stops(P) => enc.state \in Resting \/ \A p \in Ports : Returns(P, p)
    BY <2>1
  <2> HIDE DEF P
  <2>4. CASE P \in {<<<<"done">>>>, <<<<"invalid">>>>, <<<<"reject">>>>}
    <3>1. CASE P = <<<<"done">>>>
      BY <3>1 DEF Ends, EndsOnce, Stops, Enders
    <3>2. CASE P = <<<<"invalid">>>>
      BY <3>2 DEF Ends, EndsOnce, Stops, Enders
    <3>3. CASE P = <<<<"reject">>>>
      BY <3>3 DEF Ends, EndsOnce, Stops, Enders
    <3> QED BY <2>4, <3>1, <3>2, <3>3
  <2>5. CASE P = <<<<"state", t>>>> /\ (t \notin Resting \/ enc.state \in Resting)
    BY <2>5 DEF Ends, EndsOnce, Stops, Enders
  <2>6. CASE P = <<<<"ready", Ports>>, <<"create">>, <<"state", t>>>> /\ enc.state = "Loaded"
    BY <2>6 DEF Ends, EndsOnce, Stops, Enders, Resting
  <2>7. CASE P = <<<<"return", "in">>, <<"return", "out">>, <<"state", t>>>>
    BY <2>7 DEF Ends, EndsOnce, Stops, Enders, Returns, Ports
  <2>8. CASE P = <<<<"return", "in">>, <<"return", "out">>, <<"stop">>, <<"state", t>>>>
    BY <2>8 DEF Ends, EndsOnce, Stops, Enders, Returns, Ports
  <2>9. CASE P = <<<<"empty">>, <<"freed", Ports>>, <<"destroy">>, <<"state", t>>>> /\ enc.state = "Idle"
    BY <2>9 DEF Ends, EndsOnce, Stops, Enders, Resting
  <2> QED BY <2>2, <2>4, <2>5, <2>6, <2>7, <2>8, <2>9 DEF P
<1>2. CASE c[1] # "StateSet"
  <2> DEFINE A == PortsOf(c[2])
             t == c[2]
             P == Plan(c)
  <2>1. t \in Targets /\ c[1] \in {"Flush", "PortDisable", "PortEnable"}
    BY <1>2 DEF Commands
  <2>2. \/ P = <<<<"return", "in">>, <<"return", "out">>>> \o <<<<"done">>>>
        \/ P = <<<<"return", t>>>> \o <<<<"done">>>>
        \/ P = <<<<"return", "in">>, <<"return", "out">>>> \o <<<<"freed", A>>, <<"done">>>>
        \/ P = <<<<"return", t>>>> \o <<<<"freed", A>>, <<"done">>>>
        \/ P = <<>> \o <<<<"done">>>>
        \/ P = <<<<"ready", A>>>> \o <<<<"done">>>>
    BY <1>2, <2>1 DEF Plan, ReturnPlan
  <2> HIDE DEF A, t, P
  <2>3. \/ P = <<<<"return", "in">>, <<"return", "out">>, <<"done">>>>
        \/ P = <<<<"return", t>>, <<"done">>>>
        \/ P = <<<<"return", "in">>, <<"return", "out">>, <<"freed", A>>, <<"done">>>>
        \/ P = <<<<"return", t>>, <<"freed", A>>, <<"done">>>>
        \/ P = <<<<"done">>>>
        \/ P = <<<<"ready", A>>, <<"done">>>>
    BY <2>2
  <2>4. EndsOnce(P) /\ Ends(P) /\ ~Stops(P)
    <3>1. CASE P = <<<<"return", "in">>, <<"return", "out">>, <<"done">>>>
      BY <3>1 DEF Ends, EndsOnce, Stops, Enders
    <3>2. CASE P = <<<<"return", t>>, <<"done">>>>
      BY <3>2 DEF Ends, EndsOnce, Stops, Enders
    <3>3. CASE P = <<<<"return", "in">>, <<"return", "out">>, <<"freed", A>>, <<"done">>>>
      BY <3>3 DEF Ends, EndsOnce, Stops, Enders
    <3>4. CASE P = <<<<"return", t>>, <<"freed", A>>, <<"done">>>>
      BY <3>4 DEF Ends, EndsOnce, Stops, Enders
    <3>5. CASE P = <<<<"done">>>>
      BY <3>5 DEF Ends, EndsOnce, Stops, Enders
    <3>6. CASE P = <<<<"ready", A>>, <<"done">>>>
      BY <3>6 DEF Ends, EndsOnce, Stops, Enders
    <3> QED BY <2>3, <3>1, <3>2, <3>3, <3>4, <3>5, <3>6
  <2> QED BY <2>4 DEF P
<1> QED BY <1>1, <1>2

\* Returning the buffers of both ports ends no command by itself.
LEMMA ReturnPlanEnds ==
  /\ ReturnPlan("all") # <<>> /\ ~Ends(ReturnPlan("all")) /\ EndsOnce(ReturnPlan("all")) /\ ~Stops(ReturnPlan("all"))
  /\ Returns(ReturnPlan("all"), "in")
BY DEF ReturnPlan, Ends, EndsOnce, Stops, Enders, Returns

\* While frames are encoded no command is being executed.
LEMMA EncodeTodo ==
  ASSUME Types, OneCommand, EncodeNext, ~EndReset
  PROVE  /\ comp.todo = <<>> /\ comp'.todo = <<>> /\ cmdq' = cmdq
         /\ cli'.pc = cli.pc /\ cli'.cmd = cli.cmd /\ comp.pc \notin {"cmd", "assert"}
<1>1. comp \in CompType /\ cli \in ClientType
  BY DEF Types
<1>2. comp.pc \notin {"cmd", "assert"}
  BY DEF EncodeNext, StreamRuns, StartStream, StartRefused, StartGivesUp, StartPop, PickFrame, NoFrame,
         EncodeFrame, DiscardFrame, EncodeGivesUp, EncodeRejects, EncodeFails, Coded, PopFirst, GiveBack,
         EndStream, EndFails, EndGivesUp, EndPop, EndReset
<1>3. comp.todo = <<>>
  BY <1>2 DEF OneCommand
<1>4. cmdq' = cmdq
  BY DEF EncodeNext, StreamRuns, StartStream, StartRefused, StartGivesUp, StartPop, PickFrame, NoFrame,
         EncodeFrame, DiscardFrame, EncodeGivesUp, EncodeRejects, EncodeFails, NotEncoded, Coded, PopFirst,
         GiveBack, EndStream, EndFails, EndGivesUp, EndPop, EndReset
<1>5. \A p \in Ports : \A bs : Give(p, bs).pc = cli.pc /\ Give(p, bs).cmd = cli.cmd
  BY <1>1 DEF Give, ClientType
<1>6. "in" \in Ports /\ "out" \in Ports
  BY DEF Ports
<1>7. cli'.pc = cli.pc /\ cli'.cmd = cli.cmd
  <2> HIDE DEF Give
  <2>1. cli' = cli \/ \E p \in Ports : \E bs : cli' = Give(p, bs)
    BY <1>6
    DEF EncodeNext, StreamRuns, StartStream, StartRefused, StartGivesUp, StartPop, PickFrame, NoFrame,
        EncodeFrame, DiscardFrame, EncodeGivesUp, EncodeRejects, EncodeFails, NotEncoded, Deliver, Coded,
        PopFirst, GiveBack, EndStream, EndFails, EndGivesUp, EndPop, EndReset
  <2> QED BY <1>5, <2>1
<1>8. comp'.todo = <<>>
  <2>1. (\E x : Goto(x)) => comp'.todo = <<>>
    BY <1>1, <1>3, Goes
  <2>2. Invalid => comp'.todo = <<>>
    BY <1>1, Goes
  <2>3. AtLoop.todo = <<>> /\ (\A i : [AtLoop EXCEPT !.pc = "giveback", !.pic = i].todo = <<>>)
    BY DEF AtLoop
  <2>4. CASE StartRefused \/ EncodeFails
    BY <2>2, <2>4 DEF StartRefused, EncodeFails
  <2>5. CASE \/ StreamRuns \/ StartStream \/ StartGivesUp \/ StartPop \/ NoFrame \/ EncodeFrame \/ DiscardFrame
             \/ PopFirst \/ EndStream \/ EndFails \/ EndGivesUp \/ EndPop
    BY <2>1, <2>5
    DEF StreamRuns, StartStream, StartGivesUp, StartPop, NoFrame, EncodeFrame, DiscardFrame, Deliver, PopFirst,
        EndStream, EndFails, EndGivesUp, EndPop
  <2>6. CASE PickFrame
    BY <1>1, <1>3, <2>1, <2>6 DEF PickFrame, CompType
  <2>7. CASE EncodeGivesUp \/ EncodeRejects
    BY <2>1, <2>2, <2>7 DEF EncodeGivesUp, EncodeRejects, NotEncoded
  <2>8. CASE Coded
    BY <2>1, <2>3, <2>8 DEF Coded
  <2>9. CASE GiveBack
    BY <1>1, <1>3, <2>3, <2>9 DEF GiveBack, CompType
  <2> QED BY <2>4, <2>5, <2>6, <2>7, <2>8, <2>9 DEF EncodeNext
<1> QED BY <1>2, <1>3, <1>4, <1>7, <1>8

\* The steps of a plan that do not end it
Inner == ReturnBuffers \/ WaitReady \/ WaitFreed \/ CreateCodec \/ DestroyCodec \/ StopStream

\* Such a step takes one step off the plan.
LEMMA InnerSteps ==
  ASSUME "refill" \notin Allow, Types, Inner
  PROVE  /\ comp.todo \in Seq(Steps) /\ comp.todo # <<>> /\ comp.todo[1][1] \notin Enders
         /\ comp'.todo = Tail(comp.todo) /\ comp'.pc = "cmd" /\ cmdq' = cmdq
         /\ cli'.pc = cli.pc /\ cli'.cmd = cli.cmd
<1>1. comp \in CompType /\ cli \in ClientType /\ comp.todo \in Seq(Steps)
  BY DEF Types, CompType
<1>2. StepDone /\ comp.todo # <<>> /\ comp.pc = "cmd"
  BY DEF Inner, ReturnBuffers, WaitReady, WaitFreed, CreateCodec, DestroyCodec, StopStream, At
<1>3. comp.todo[1][1] \in {"return", "ready", "freed", "create", "destroy", "stop"}
  BY DEF Inner, ReturnBuffers, WaitReady, WaitFreed, CreateCodec, DestroyCodec, StopStream, At
<1>4. cmdq' = cmdq /\ (cli' = cli \/ \E p, bs : cli' = Give(p, bs))
  BY AllReturned DEF Inner, ReturnAll, WaitReady, WaitFreed, CreateCodec, DestroyCodec, StopStream
<1>5. cli'.pc = cli.pc /\ cli'.cmd = cli.cmd
  BY <1>1, <1>4 DEF Give, ClientType
<1> QED BY <1>1, <1>2, <1>3, <1>4, <1>5, Goes DEF Enders

Final == SetState \/ RejectState \/ CommandDone

\* Such a step is the last of its plan, and the client's command is over with it.
LEMMA FinalSteps ==
  ASSUME Types, OneCommand, Final
  PROVE  /\ comp.todo \in Seq(Steps) /\ Len(comp.todo) = 1 /\ comp'.todo = <<>> /\ Ends(comp.todo)
         /\ cmdq' = cmdq /\ cli'.pc = cli.pc /\ cli'.cmd = NoCmd /\ cmdq = <<>> /\ cli.pc = "idle"
         /\ UNCHANGED port
<1>1. comp \in CompType /\ cli \in ClientType /\ comp.todo \in Seq(Steps)
  BY DEF Types, CompType
<1>2. StepDone /\ comp.todo # <<>> /\ comp.todo[1][1] \in Enders
  BY DEF Final, SetState, RejectState, CommandDone, At, Enders
<1>3. EndsOnce(comp.todo)
  BY DEF OneCommand
<1>4. Tail(comp.todo) = <<>> /\ Len(comp.todo) = 1 /\ Ends(comp.todo)
  BY <1>1, <1>2, <1>3, TailOf
<1>5. cmdq = <<>> /\ cli.pc = "idle"
  BY <1>4 DEF OneCommand
<1>6. cmdq' = cmdq /\ cli' = [cli EXCEPT !.cmd = NoCmd] /\ UNCHANGED port
  BY DEF Final, SetState, RejectState, CommandDone
<1>7. cli'.pc = cli.pc /\ cli'.cmd = NoCmd
  BY <1>1, <1>6 DEF ClientType
<1> QED BY <1>1, <1>2, <1>4, <1>5, <1>6, <1>7, Goes

Client ==
  \/ \E p \in Ports : UseBuffer(p) \/ FreeBuffer(p)
  \/ FillThisBuffer
  \/ \E eos, full \in BOOLEAN : EmptyThisBuffer(eos, full)

\* These calls leave commands and the component thread alone.
LEMMA ClientSteps ==
  ASSUME Types, Client
  PROVE  comp' = comp /\ cmdq' = cmdq /\ cli'.pc = cli.pc /\ cli'.cmd = cli.cmd
<1>1. cli \in ClientType
  BY DEF Types
<1>2. comp' = comp /\ cmdq' = cmdq /\ \E p \in Ports : cli' = Take(p) \/ \E bs : cli' = Give(p, bs)
  <2>1. "in" \in Ports /\ "out" \in Ports
    BY DEF Ports
  <2> QED BY <2>1 DEF Client, UseBuffer, FreeBuffer, FillThisBuffer, EmptyThisBuffer
<1> QED BY <1>1, <1>2 DEF Take, Give, ClientType

\* Every step keeps one command under way, whose plan has one end.
LEMMA CommandStep == ASSUME "refill" \notin Allow, BufInv, Next PROVE OneCommand'
<1>1. Types /\ OneCommand /\ comp \in CompType /\ cli \in ClientType /\ comp.todo \in Seq(Steps)
  BY DEF BufInv, Types, CompType
\* The plan becomes empty, or is a plan of the same command.
<1>2. ASSUME cmdq' = cmdq, cli'.pc = cli.pc, cli'.cmd = cli.cmd, Ends(comp'.todo) => Ends(comp.todo),
             EndsOnce(comp'.todo), comp'.todo # <<>> => comp'.pc \in {"cmd", "assert"}
      PROVE  OneCommand'
  BY <1>1, <1>2 DEF OneCommand
<1>3. ASSUME cmdq' = cmdq, cli'.pc = cli.pc, cli'.cmd = cli.cmd, comp'.todo = <<>> PROVE OneCommand'
  BY <1>2, <1>3, NoPlan
<1>4. ASSUME NEW c \in Commands, SendCommand(c) PROVE OneCommand'
  <2>1. cli'.pc = "sending" /\ cli'.cmd = c /\ UNCHANGED <<cmdq, comp>> /\ cli.cmd = NoCmd
    BY <1>1, <1>4 DEF SendCommand, ClientType
  <2>2. c # NoCmd
    BY DEF Commands, NoCmd
  <2> QED BY <1>1, <2>1, <2>2 DEF OneCommand
<1>5. ASSUME SendQueue PROVE OneCommand'
  <2>1. cli'.pc = "idle" /\ cli'.cmd = cli.cmd /\ cmdq' = Append(cmdq, cli.cmd) /\ UNCHANGED comp /\ cli.pc = "sending"
    BY <1>1, <1>5 DEF SendQueue, ClientType
  <2>2. cmdq = <<>> /\ cli.cmd # NoCmd /\ ~Ends(comp.todo)
    BY <1>1, <2>1 DEF OneCommand
  <2>3. cmdq' = <<cli.cmd>>
    BY <2>1, <2>2
  <2> QED BY <1>1, <2>1, <2>2, <2>3 DEF OneCommand
<1>6. ASSUME Client PROVE OneCommand'
  <2>1. comp' = comp /\ cmdq' = cmdq /\ cli'.pc = cli.pc /\ cli'.cmd = cli.cmd
    BY <1>1, <1>6, ClientSteps
  <2> QED BY <1>1, <2>1 DEF OneCommand
<1>7. ASSUME EncodeNext, ~EndReset PROVE OneCommand'
  BY <1>1, <1>3, <1>7, EncodeTodo
<1>8. ASSUME EndReset PROVE OneCommand'
  <2>1. /\ UNCHANGED <<cmdq, cli>> /\ comp'.pc = "cmd" /\ comp'.todo = ReturnPlan("all")
    BY <1>8 DEF EndReset, AtLoop
  <2> QED BY <1>2, <2>1, ReturnPlanEnds
<1>9. ASSUME LoopWake \/ LoopDrained \/ CreateFails \/ SetInvalid PROVE OneCommand'
  <2>1. comp'.todo = <<>> /\ UNCHANGED <<cmdq, cli>>
    <3>1. CASE LoopWake
      BY <3>1 DEF LoopWake, AtLoop
    <3>2. CASE LoopDrained
      BY <3>2 DEF LoopDrained, AtLoop
    <3>3. CASE CreateFails \/ SetInvalid
      BY <1>1, <3>3, Goes DEF CreateFails, SetInvalid
    <3> QED BY <1>9, <3>1, <3>2, <3>3
  <2> QED BY <1>3, <2>1
<1>10. ASSUME LoopFetch PROVE OneCommand'
  <2>1. comp'.todo = Plan(Head(cmdq)) /\ comp'.pc = "cmd" /\ cmdq' = Tail(cmdq) /\ UNCHANGED cli /\ cmdq # <<>>
    BY <1>1, <1>10 DEF LoopFetch, CompType
  <2>2. cmdq = <<cli.cmd>> /\ cli.pc = "idle" /\ cli.cmd # NoCmd
    BY <1>1, <2>1 DEF OneCommand
  <2>3. Head(cmdq) = cli.cmd /\ Tail(cmdq) = <<>>
    BY <2>2
  <2>4. cli.cmd \in Commands
    BY <1>1, <2>2 DEF ClientType
  <2>5. EndsOnce(comp'.todo)
    BY <2>1, <2>3, <2>4, PlanEnds
  <2> QED BY <2>1, <2>2, <2>3, <2>5 DEF OneCommand
<1>11. ASSUME Inner PROVE OneCommand'
  <2>1. /\ comp.todo # <<>> /\ comp'.todo = Tail(comp.todo) /\ comp'.pc = "cmd" /\ cmdq' = cmdq
        /\ cli'.pc = cli.pc /\ cli'.cmd = cli.cmd
    BY <1>1, <1>11, InnerSteps
  <2>2. (Ends(Tail(comp.todo)) => Ends(comp.todo)) /\ EndsOnce(Tail(comp.todo))
    BY <1>1, <2>1, TailOf DEF OneCommand
  <2> QED BY <1>2, <2>1, <2>2
<1>12. ASSUME AssertEmpty PROVE OneCommand'
  <2>1. comp.todo # <<>> /\ comp.pc = "cmd" /\ UNCHANGED <<cmdq, cli>>
    BY <1>12 DEF AssertEmpty, At
  <2>2. CASE StepDone
    <3>1. comp'.todo = Tail(comp.todo) /\ comp'.pc = "cmd"
      BY <1>1, <2>1, <2>2, Goes
    <3>2. (Ends(Tail(comp.todo)) => Ends(comp.todo)) /\ EndsOnce(Tail(comp.todo))
      BY <1>1, <2>1, TailOf DEF OneCommand
    <3> QED BY <1>2, <2>1, <3>1, <3>2
  <2>3. CASE comp' = [comp EXCEPT !.pc = "assert"]
    <3>1. comp'.todo = comp.todo /\ comp'.pc = "assert"
      BY <1>1, <2>3 DEF CompType
    <3> QED BY <1>1, <1>2, <2>1, <3>1 DEF OneCommand
  <2> QED BY <1>12, <2>2, <2>3 DEF AssertEmpty
<1>13. ASSUME Final PROVE OneCommand'
  BY <1>1, <1>13, FinalSteps, NoPlan DEF OneCommand
<1> QED
  BY <1>4, <1>5, <1>6, <1>7, <1>8, <1>9, <1>10, <1>11, <1>12, <1>13
  DEF Next, ClientNext, CompNext, CommandNext, EncodeNext, Client, Inner, Final

-----------------------------------------------------------------------------
(* A component at rest *)

\* Only the client fills a queue.
LEMMA EmptyStays ==
  ASSUME BufInv, Next, ~FillThisBuffer, ~\E eos, full \in BOOLEAN : EmptyThisBuffer(eos, full),
         NEW p \in Ports, Empty(p)
  PROVE  Empty(p)'
<1>1. DOMAIN port = Ports /\ Types
  BY DEF BufInv, Types
<1>p. "in" \in Ports /\ "out" \in Ports
  BY DEF Ports
<1>2. CASE QuietNext
  BY <1>1, <1>2, QuietSteps DEF Quiet, Empty
<1>3. CASE \/ \E c \in Commands : SendCommand(c)
           \/ \E o \in Ports : UseBuffer(o) \/ FreeBuffer(o)
  BY <1>3, ClientQueues DEF Empty
<1>4. CASE StartStream \/ EndStream \/ Coded
  BY <1>4 DEF StartStream, EndStream, Coded, Empty
<1>5. CASE StartPop \/ EndPop \/ PopFirst \/ EncodeFrame \/ DiscardFrame
  <2>1. PICK o \in Ports : port' = [port EXCEPT ![o] = PopBuffer(@)]
    BY <1>5, <1>p DEF StartPop, EndPop, PopFirst, EncodeFrame, DiscardFrame, Deliver
  <2>2. port'[p] = port[p] \/ port'[p] = PopBuffer(port[p])
    BY <1>1, <2>1
  <2> QED BY <2>2 DEF PopBuffer, Empty
<1>6. CASE ReturnBuffers
  <2>1. PICK o : port' = [port EXCEPT ![o] = QueueClear(@)]
    BY <1>6 DEF ReturnBuffers
  <2>2. port'[p] = port[p] \/ port'[p] = QueueClear(port[p])
    BY <1>1, <2>1
  <2> QED BY <2>2 DEF QueueClear, Empty
<1>7. CASE GiveBack
  <2> DEFINE r == PopBufferByFrameId(port["in"], Id, comp.pic)
             i == PlaceOfFrame(port["in"], Id, comp.pic)
             q == port["in"].queue
  <2>1. Shape("in", port["in"]) /\ Own(port["in"], cli.held["in"], 1)
    BY <1>7, <1>p DEF GiveBack, BufInv, PortInv, Lo, Giving
  <2>2. i \in 0 .. Len(q) /\ r.queue = (IF i = 0 THEN q ELSE RemoveAt(q, i))
    <3>1. q \in Seq(1 .. Count("in")) /\ Len(q) \in Nat
      BY <2>1 DEF Shape, PortType
    <3>2. i \in 0 .. Len(q)
      BY <3>1, FrameFound
    <3> HIDE DEF i
    <3>3. r = [port["in"] EXCEPT !.event = IF Len(q) = 1 THEN FALSE ELSE @, !.queue = IF i = 0 THEN q ELSE RemoveAt(q, i)]
      BY <2>1 DEF PopBufferByFrameId, Shape, PortType, i
    <3> HIDE DEF q, r
    <3> QED BY <2>1, <3>2, <3>3 DEF Shape, PortType
  <2>3. port' = [port EXCEPT !["in"] = r]
    BY <1>7 DEF GiveBack
  <2> HIDE DEF r, i
  <2>4. CASE p = "in"
    <3>1. q = <<>> /\ Len(<<>>) = 0
      BY <2>4 DEF Empty
    <3>2. i = 0
      BY <2>2, <3>1
    <3>3. port'[p] = r
      BY <1>1, <1>p, <2>3, <2>4
    <3> QED BY <2>2, <3>1, <3>2, <3>3 DEF Empty
  <2>5. CASE p # "in"
    BY <1>1, <2>3, <2>5 DEF Empty
  <2> QED BY <2>4, <2>5
<1> QED
  BY <1>2, <1>3, <1>4, <1>5, <1>6, <1>7
  DEF Next, ClientNext, CompNext, CommandNext, EncodeNext, QuietNext

\* Every step leaves an encoder that rests in Idle without buffers.
LEMMA RestStep == ASSUME "refill" \notin Allow, BufInv, Next PROVE Rests'
<1>1. Types /\ OneCommand /\ Rests /\ comp \in CompType /\ enc \in EncType /\ DOMAIN port = Ports
      /\ comp.todo \in Seq(Steps)
  BY DEF BufInv, Types, CompType
<1>2. \A todo : Stops(todo) => Ends(todo)
  BY DEF Stops, Ends, Enders
\* Buffers are handed over to a component that does not rest and executes no command.
<1>3. ASSUME FillThisBuffer \/ \E eos, full \in BOOLEAN : EmptyThisBuffer(eos, full) PROVE Rests'
  <2>1. comp' = comp /\ cli.cmd = NoCmd /\ enc.state \in {"Executing", "Pause"} /\ enc'.state = enc.state
    <3>1. CASE FillThisBuffer
      BY <3>1 DEF FillThisBuffer, MayPush, MayHandOver
    <3>2. ASSUME NEW eos \in BOOLEAN, NEW full \in BOOLEAN, EmptyThisBuffer(eos, full)
          PROVE  comp' = comp /\ cli.cmd = NoCmd /\ enc.state \in {"Executing", "Pause"} /\ enc'.state = enc.state
      BY <1>1, <3>2 DEF EmptyThisBuffer, Send, MayPush, MayHandOver, EncType
    <3> QED BY <1>3, <3>1, <3>2
  <2>2. ~Stops(comp.todo)
    BY <1>1, <1>2, <2>1 DEF OneCommand
  <2> QED BY <2>1, <2>2 DEF Rests, Resting
<1> DEFINE Push == FillThisBuffer \/ \E eos, full \in BOOLEAN : EmptyThisBuffer(eos, full)
<1>4. ~Push => \A p \in Ports : Empty(p) => Empty(p)'
  BY EmptyStays
<1> HIDE DEF Push
\* The state stays, or is not a state of rest.
<1>5. ASSUME ~Push, enc'.state = enc.state \/ enc'.state \notin Resting,
             Stops(comp'.todo) => Stops(comp.todo),
             \A p \in Ports : Stops(comp'.todo) /\ Returns(comp.todo, p) => Returns(comp'.todo, p) \/ Empty(p)'
      PROVE  Rests'
  <2>1. enc'.state \in Resting => \A p \in Ports : Empty(p)'
    BY <1>1, <1>4, <1>5 DEF Rests
  <2>2. ASSUME Stops(comp'.todo), NEW p \in Ports PROVE Empty(p)' \/ Returns(comp'.todo, p)
    BY <1>1, <1>4, <1>5, <2>2 DEF Rests
  <2> QED BY <2>1, <2>2 DEF Rests, Empty
<1>6. ASSUME ~Push, Client \/ SendQueue \/ \E c \in Commands : SendCommand(c) PROVE Rests'
  <2>1. comp' = comp
    BY <1>1, <1>6, ClientSteps DEF SendQueue, SendCommand
  <2>2. enc'.state = enc.state
    <3>1. CASE \E c \in Commands : SendCommand(c)
      BY <1>1, <3>1 DEF SendCommand, SendFlags, EncType
    <3>2. CASE SendQueue \/ Client
      BY <1>6, <3>2 DEF SendQueue, Client, UseBuffer, FreeBuffer, Push
    <3> QED BY <1>6, <3>1, <3>2
  <2> QED BY <1>5, <1>6, <2>1, <2>2
<1>7. ASSUME ~Push, EncodeNext, ~EndReset PROVE Rests'
  <2>1. comp'.todo = <<>>
    BY <1>1, <1>7, EncodeTodo
  <2>2. enc'.state = enc.state \/ enc'.state \notin Resting
    <3>1. Invalid => enc'.state \notin Resting
      BY <1>1 DEF Invalid, EncType, Resting
    <3>2. CASE EncodeFrame
      BY <1>1, <3>2 DEF EncodeFrame, EncType
    <3>3. CASE ~EncodeFrame
      <4> HIDE DEF Invalid
      <4> QED
        BY <1>1, <1>7, <3>1, <3>3
        DEF EncodeNext, StreamRuns, StartStream, StartRefused, StartGivesUp, StartPop, PickFrame, NoFrame,
            DiscardFrame, EncodeGivesUp, EncodeRejects, EncodeFails, NotEncoded, Coded, PopFirst, GiveBack,
            EndStream, EndFails, EndGivesUp, EndPop, EncType
    <3> QED BY <3>2, <3>3
  <2> QED BY <1>5, <1>7, <2>1, <2>2, NoPlan
<1>8. ASSUME ~Push, EndReset PROVE Rests'
  <2>1. comp'.todo = ReturnPlan("all") /\ enc'.state = enc.state
    BY <1>1, <1>8 DEF EndReset, AtLoop, EncType
  <2> QED BY <1>5, <1>8, <2>1, ReturnPlanEnds
<1>9. ASSUME ~Push, LoopWake \/ LoopDrained \/ CreateFails \/ SetInvalid PROVE Rests'
  <2>1. CASE LoopWake
    <3>1. comp'.todo = <<>> /\ enc' = enc
      BY <2>1 DEF LoopWake, AtLoop
    <3> QED BY <1>5, <1>9, <3>1, NoPlan
  <2>2. CASE LoopDrained
    <3>1. comp'.todo = <<>> /\ enc' = enc
      BY <2>2 DEF LoopDrained, AtLoop
    <3> QED BY <1>5, <1>9, <3>1, NoPlan
  <2>3. CASE CreateFails \/ SetInvalid
    <3>1. comp'.todo = <<>> /\ enc'.state = "Invalid"
      BY <1>1, <2>3, Goes DEF CreateFails, SetInvalid, Invalid, EncType
    <3> QED BY <1>5, <1>9, <3>1, NoPlan DEF Resting
  <2> QED BY <1>9, <2>1, <2>2, <2>3
<1>10. ASSUME LoopFetch PROVE Rests'
  <2>1. comp'.todo = Plan(Head(cmdq)) /\ Head(cmdq) \in Commands /\ UNCHANGED <<enc, port>>
    <3>1. Head(cmdq) \in Commands
      BY <1>1, <1>10 DEF LoopFetch, Types
    <3> QED BY <1>1, <1>10, <3>1 DEF LoopFetch, CompType
  <2>2. Stops(comp'.todo) => enc.state \in Resting \/ \A p \in Ports : Returns(comp'.todo, p)
    BY <2>1, PlanEnds
  <2> QED BY <1>1, <2>1, <2>2 DEF Rests, Empty
<1>11. ASSUME ~Push, Inner PROVE Rests'
  <2>1. comp.todo # <<>> /\ comp'.todo = Tail(comp.todo)
    BY <1>1, <1>11, InnerSteps
  <2>2. Stops(comp'.todo) => Stops(comp.todo)
    BY <1>1, <2>1, TailOf
  <2>3. enc'.state = enc.state
    BY <1>1, <1>11, AllReturned
    DEF Inner, ReturnAll, WaitReady, WaitFreed, CreateCodec, DestroyCodec, StopStream, EncType
  <2>4. ASSUME NEW p \in Ports, Returns(comp.todo, p) PROVE Returns(comp'.todo, p) \/ Empty(p)'
    <3>1. CASE comp.todo[1] = <<"return", p>>
      <4>1. ReturnBuffers /\ Arg = p
        BY <1>11, <3>1 DEF Inner, WaitReady, WaitFreed, CreateCodec, DestroyCodec, StopStream, At, Arg
      <4>2. port'[p] = QueueClear(port[p])
        BY <1>1, <4>1 DEF ReturnBuffers
      <4>3. PortInv(p)
        BY DEF BufInv
      <4>4. QueueClear(port[p]).queue = <<>>
        BY <4>3 DEF QueueClear, PortInv, Shape, PortType
      <4> QED BY <4>2, <4>4 DEF Empty
    <3>2. CASE comp.todo[1] # <<"return", p>>
      BY <1>1, <2>1, <2>4, <3>2, TailOf
    <3> QED BY <3>1, <3>2
  <2> QED BY <1>5, <1>11, <2>2, <2>3, <2>4
<1>12. ASSUME ~Push, AssertEmpty PROVE Rests'
  <2>1. comp.todo # <<>> /\ comp.todo[1][1] = "empty" /\ UNCHANGED enc
    BY <1>12 DEF AssertEmpty, At
  <2>2. CASE StepDone
    <3>1. comp'.todo = Tail(comp.todo)
      BY <1>1, <2>2, Goes
    <3>2. Stops(comp'.todo) => Stops(comp.todo)
      BY <1>1, <2>1, <3>1, TailOf
    <3>3. \A p : comp.todo[1] # <<"return", p>>
      BY <2>1
    <3>4. \A p : Returns(comp.todo, p) => Returns(comp'.todo, p)
      BY <1>1, <2>1, <3>1, <3>3, TailOf
    <3> QED BY <1>5, <1>12, <2>1, <3>2, <3>4
  <2>3. CASE comp' = [comp EXCEPT !.pc = "assert"]
    <3>1. comp'.todo = comp.todo
      BY <1>1, <2>3 DEF CompType
    <3> QED BY <1>5, <1>12, <2>1, <3>1
  <2> QED BY <1>12, <2>2, <2>3 DEF AssertEmpty
<1>13. ASSUME ~Push, Final PROVE Rests'
  <2>1. Len(comp.todo) = 1 /\ comp'.todo = <<>> /\ Ends(comp.todo) /\ UNCHANGED port
    BY <1>1, <1>13, FinalSteps
  <2>2. CASE RejectState \/ CommandDone
    <3>1. enc'.state = enc.state
      BY <1>1, <2>2 DEF RejectState, CommandDone, EncType
    <3> QED BY <1>5, <1>13, <2>1, <3>1, NoPlan
  <2>3. CASE SetState
    <3>1. enc'.state = comp.todo[1][2] /\ comp.todo[1][1] = "state"
      BY <1>1, <2>3 DEF SetState, At, Arg, EncType
    <3>2. ASSUME enc'.state \in Resting, NEW p \in Ports PROVE Empty(p)
      <4>1. 1 \in 1 .. Len(comp.todo)
        BY <2>1
      <4>2. Stops(comp.todo)
        BY <3>1, <3>2, <4>1 DEF Stops
      <4>3. ~Returns(comp.todo, p)
        BY <2>1, <3>1 DEF Returns
      <4> QED BY <1>1, <4>2, <4>3 DEF Rests
    <3> QED BY <2>1, <3>2, NoPlan DEF Rests, Empty
  <2> QED BY <1>13, <2>2, <2>3 DEF Final
<1> QED
  BY <1>3, <1>6, <1>7, <1>8, <1>9, <1>10, <1>11, <1>12, <1>13
  DEF Next, ClientNext, CompNext, CommandNext, EncodeNext, Client, Inner, Final, Push

-----------------------------------------------------------------------------
(* The theorems *)

\* The invariant holds when the component has been created.
LEMMA BufInit == ASSUME Init PROVE BufInv
<1>1. PICK m \in BOOLEAN :
        enc = [state |-> "Loaded", trans |-> "Loaded", run |-> TRUE, started |-> FALSE,
               inId |-> 0, next |-> NoId, curr |-> 0, eos |-> FALSE, mine |-> m]
  BY DEF Init
<1>2. enc \in EncType /\ enc.state = "Loaded"
  BY <1>1 DEF EncType, States, FrameId, NoId
<1>3. codec \in CodecType /\ hist \in HistType
  BY DEF Init, NoCodec, CodecType, NewStream, HistType, FrameId, NoId
<1>4. DOMAIN port = Ports /\ (\A p \in Ports : port[p] = NewPort(Count(p)))
  BY DEF Init
<1>5. frame \in [1 .. NIn -> FrameType]
  <2>1. NoFrameIn \in FrameType
    BY DEF NoFrameIn, FrameType, FrameId, NoId
  <2> QED BY <2>1 DEF Init
<1>6. cmdq = <<>> /\ cmdq \in Seq(Commands) /\ cli \in ClientType /\ cli.pc = "idle" /\ cli.cmd = NoCmd
      /\ \A p \in Ports : cli.held[p] = {}
  BY DEF Init, ClientType, NoCmd
<1>7. comp \in CompType /\ comp.todo = <<>> /\ comp.pc = "loop"
  <2>1. "loop" \in Places /\ <<>> \in Seq(Steps)
    BY DEF Places
  <2> QED BY <2>1 DEF Init, AtLoop, CompType
<1>8. Types
  BY <1>2, <1>3, <1>4, <1>5, <1>6, <1>7 DEF Types
<1>9. ASSUME NEW p \in Ports PROVE PortInv(p) /\ Empty(p)
  <2> DEFINE r == port[p]
             e == <<>>
  <2>1. /\ r = [buffers |-> e, bcap |-> Count(p), queue |-> e, qcap |-> Count(p),
                event |-> FALSE, enabled |-> TRUE, populated |-> FALSE]
        /\ Count(p) \in Nat \ {0} /\ e \in Seq(1 .. Count(p)) /\ Len(e) = 0
        /\ From(e, 1) = {} /\ Once(e, 1) /\ Lo(p) = 1
    BY <1>4, <1>7, Counts, NoElems DEF NewPort, Lo, Giving
  <2> HIDE DEF r, e
  <2>2. r \in PortType(p) /\ r.queue = e /\ r.buffers = e /\ r.qcap = Count(p) /\ r.bcap = Count(p) /\ r.populated = FALSE
    BY <2>1 DEF PortType
  <2>3. Shape(p, r)
    BY <2>1, <2>2 DEF Shape
  <2>4. Own(r, {}, 1)
    BY <2>1, <2>2 DEF Own
  <2> QED BY <1>6, <2>1, <2>2, <2>3, <2>4 DEF PortInv, Empty, r, e
<1>10. Picked /\ OneCommand /\ Rests
  BY <1>6, <1>7, <1>9, NoPlan DEF Picked, OneCommand, Rests
<1> QED BY <1>8, <1>9, <1>10 DEF BufInv

\* Every step keeps the invariant.
LEMMA BufStep == ASSUME "refill" \notin Allow, BufInv, [Next]_vars PROVE BufInv'
<1>1. CASE Next
  BY <1>1, TypesStep, PortStep, PickedStep, CommandStep, RestStep DEF BufInv
<1>2. CASE UNCHANGED vars
  BY <1>2
  DEF vars, BufInv, Types, PortInv, Lo, Giving, Picked, OneCommand, Rests, Empty
<1> QED BY <1>1, <1>2

\* The invariant that BuffersOwned follows from: of the encoder's threads, queues,
\* allocated buffers and commands in every reachable state, when the client hands
\* nothing over while async_encoder_return_buffers has the port locked.
THEOREM BufferInvariant == ASSUME "refill" \notin Allow PROVE Spec => []BufInv
<1>1. Init => BufInv
  BY BufInit
<1>2. BufInv /\ [Next]_vars => BufInv'
  BY BufStep
<1> QED BY <1>1, <1>2, PTL DEF Spec

\* Every variable of the encoder keeps its type (Encoder.TypeOK): the queues hold
\* allocated buffers, plans consist of known steps, frames have ids.
THEOREM EncoderTyped == ASSUME "refill" \notin Allow PROVE Spec => []TypeOK
<1>1. BufInv => TypeOK
  BY DEF BufInv, Types, TypeOK, PortInv, Shape
<1> QED BY <1>1, BufferInvariant, PTL

\* How often a buffer is queued
LEMMA QueuedOnce ==
  ASSUME NEW S, NEW s \in Seq(S), NEW lo \in {1, 2}, Once(s, lo), lo = 2 => s # <<>>, NEW b
  PROVE  LET J == {j \in DOMAIN s : s[j] = b}
             n == IF b \in From(s, lo) THEN 1 ELSE 0
         IN Cardinality(J) = IF lo = 2 /\ s[1] = b THEN n + 1 ELSE n
<1> DEFINE J == {j \in DOMAIN s : s[j] = b}
           K == {j \in lo .. Len(s) : s[j] = b}
           n == IF b \in From(s, lo) THEN 1 ELSE 0
<1>1. DOMAIN s = 1 .. Len(s) /\ Len(s) \in Nat /\ (s # <<>> => Len(s) # 0)
  BY EmptySeq
<1>2. IsFiniteSet(K) /\ Cardinality(K) = n
  <2>1. CASE b \in From(s, lo)
    <3>1. PICK j \in lo .. Len(s) : s[j] = b
      BY <2>1 DEF From
    <3>2. K = {j}
      BY <3>1 DEF Once
    <3> HIDE DEF K
    <3> QED BY <2>1, <3>2, FS_Singleton
  <2>2. CASE b \notin From(s, lo)
    <3>1. K = {}
      BY <2>2 DEF From
    <3> HIDE DEF K
    <3> QED BY <2>2, <3>1, FS_EmptySet
  <2> QED BY <2>1, <2>2
<1>3. CASE lo = 2 /\ s[1] = b
  <2>1. J = K \cup {1} /\ 1 \notin K
    BY <1>1, <1>3
  <2> HIDE DEF J, K
  <2>2. Cardinality(J) = Cardinality(K) + 1
    BY <1>2, <2>1, FS_AddElement
  <2> QED BY <1>2, <1>3, <2>2 DEF J
<1>4. CASE ~(lo = 2 /\ s[1] = b)
  <2>1. J = K
    BY <1>1, <1>4
  <2> HIDE DEF K
  <2> QED BY <1>2, <1>4, <2>1
<1> QED BY <1>3, <1>4

\* Every allocated buffer of the encoder is the client's or queued, once, whatever
\* the client does while a callback gives it a single buffer, and an encoder that has
\* come to rest in Idle holds no buffers (Encoder.BuffersOwned): for any numbers of
\* buffers, any groups of pictures, any errors of the codec, any legal commands, and
\* any client that hands nothing over from the callbacks in which
\* async_encoder_return_buffers returns a whole queue; what such a client hands over
\* is lost (encoder.c:6628-6654).
THEOREM BuffersKept == ASSUME "refill" \notin Allow PROVE Spec => []BuffersOwned
<1>1. ASSUME BufInv PROVE BuffersOwned
  <2>1. ASSUME NEW p \in Ports, NEW i \in DOMAIN port[p].buffers
        PROVE  LET b == port[p].buffers[i]
                   n == Cardinality({j \in DOMAIN port[p].queue : port[p].queue[j] = b})
                        + (IF b \in cli.held[p] THEN 1 ELSE 0)
               IN n = IF b \in BeingGiven(p) THEN 2 ELSE 1
    <3> DEFINE r == port[p]
               s == r.queue
               b == r.buffers[i]
               J == {j \in DOMAIN s : s[j] = b}
    <3>1. PICK lo \in {1, 2} : lo = Lo(p)
      BY DEF Lo
    <3>2. Shape(p, r) /\ Own(r, cli.held[p], lo)
      BY <1>1, <3>1 DEF BufInv, PortInv
    <3>3. r.buffers \in Seq(1 .. Count(p)) /\ s \in Seq(1 .. Count(p)) /\ Len(r.buffers) \in Nat
      BY <3>2 DEF Shape, PortType
    <3>4. b \in From(r.buffers, 1)
      BY <3>3 DEF From
    <3>5. Once(s, lo) /\ (lo = 2 => s # <<>>)
      BY <3>2 DEF Own
    <3>6. BeingGiven(p) = IF lo = 2 THEN {Head(s)} ELSE {}
      BY <3>1 DEF BeingGiven, Lo, Giving
    <3>7. lo = 2 => Head(s) = s[1]
      BY <3>3, <3>5
    <3>8. (b \in From(s, lo) /\ b \notin cli.held[p]) \/ (b \notin From(s, lo) /\ b \in cli.held[p])
      BY <3>2, <3>4 DEF Own
    <3> HIDE DEF s, r, b
    <3>9. Cardinality(J) = LET n == IF b \in From(s, lo) THEN 1 ELSE 0 IN IF lo = 2 /\ s[1] = b THEN n + 1 ELSE n
      BY <3>3, <3>5, QueuedOnce
    <3> HIDE DEF J
    <3>10. Cardinality(J) + (IF b \in cli.held[p] THEN 1 ELSE 0) = IF b \in BeingGiven(p) THEN 2 ELSE 1
      BY <3>1, <3>6, <3>7, <3>8, <3>9
    <3> QED BY <3>10 DEF J, s, r, b
  <2>2. ASSUME enc.state = "Idle", NEW p \in Ports PROVE port[p].queue = <<>>
    BY <1>1, <2>2 DEF BufInv, Rests, Resting, Empty
  <2> QED BY <2>1, <2>2 DEF BuffersOwned
<1> QED BY <1>1, BufferInvariant, PTL
=============================================================================
