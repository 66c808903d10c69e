----------------------------- MODULE PortProofs -----------------------------
(***************************************************************************)
(* What the operations of port.c keep true of a port, and what they do to  *)
(* the buffers in its queue, for the proofs of the components.             *)
(***************************************************************************)
EXTENDS Port, Integers, FiniteSets, FiniteSetTheorems, SequenceTheorems, WellFoundedInduction, TLAPS

\* What port.c keeps true of a port for the buffers S that was given room for one.
PortGood(S, p) ==
  /\ p \in [buffers : Seq(S), bcap : Nat, queue : Seq(S), qcap : Nat,
            event : BOOLEAN, enabled : BOOLEAN, populated : BOOLEAN]
  /\ p.qcap # 0 /\ Len(p.queue) <= p.qcap
  /\ EventInStep(p)

\* HantroOmx_port_init with room for at least one buffer gives a good port.
LEMMA NewPortGood ==
  ASSUME NEW S, NEW n \in Nat \ {0} PROVE PortGood(S, NewPort(n))
<1>1. <<>> \in Seq(S) /\ Len(<<>>) = 0
  OBVIOUS
<1> QED BY <1>1 DEF PortGood, NewPort, EventInStep

\* HantroOmx_port_push_buffer keeps a port good: the queue has grown if it was full.
LEMMA PushBufferGood ==
  ASSUME NEW S, NEW p, PortGood(S, p), NEW b \in S PROVE PortGood(S, PushBuffer(p, b))
<1> DEFINE cap == IF Len(p.queue) = p.qcap THEN p.qcap * 2 ELSE p.qcap
           q == Append(p.queue, b)
<1>1. p.queue \in Seq(S) /\ p.qcap \in Nat \ {0} /\ Len(p.queue) <= p.qcap
  BY DEF PortGood
<1>2. cap \in Nat \ {0} /\ Len(p.queue) # cap /\ Len(p.queue) + 1 <= cap
  BY <1>1
<1>3. q \in Seq(S) /\ Len(q) = Len(p.queue) + 1 /\ q # <<>>
  BY <1>1
<1>4. PushBuffer(p, b) = [p EXCEPT !.queue = q, !.qcap = cap, !.event = TRUE]
  BY <1>2 DEF PushBuffer, ListPush
<1> QED BY <1>2, <1>3, <1>4 DEF PortGood, EventInStep

\* Removing a place of a sequence makes it one shorter.
LEMMA RemoveAtLen ==
  ASSUME NEW S, NEW s \in Seq(S), NEW i \in 1 .. Len(s)
  PROVE  RemoveAt(s, i) \in Seq(S) /\ Len(RemoveAt(s, i)) = Len(s) - 1
<1> DEFINE l == SubSeq(s, 1, i - 1)
           r == SubSeq(s, i + 1, Len(s))
<1>1. l \in Seq(S) /\ Len(l) = i - 1
  OBVIOUS
<1>2. r \in Seq(S) /\ Len(r) = Len(s) - i
  OBVIOUS
<1> HIDE DEF l, r
<1>3. l \o r \in Seq(S) /\ Len(l \o r) = Len(l) + Len(r)
  BY <1>1, <1>2
<1>4. Len(s) \in Nat
  OBVIOUS
<1>5. Len(l \o r) = Len(s) - 1
  BY <1>1, <1>2, <1>3, <1>4
<1> QED BY <1>3, <1>5 DEF RemoveAt, l, r

\* HantroOmx_port_pop_buffer_at keeps a port good, given a place of its queue.
LEMMA PopBufferAtGood ==
  ASSUME NEW S, NEW p, PortGood(S, p), NEW i \in 1 .. Len(p.queue)
  PROVE  PortGood(S, PopBufferAt(p, i))
<1> DEFINE q == RemoveAt(p.queue, i)
           e == IF Len(p.queue) = 1 THEN FALSE ELSE p.event
<1>1. p.queue \in Seq(S) /\ Len(p.queue) \in Nat
  BY DEF PortGood
<1>2. q \in Seq(S) /\ Len(q) = Len(p.queue) - 1
  BY <1>1, RemoveAtLen
<1>3. p.event \in BOOLEAN /\ (p.event <=> p.queue # <<>>) /\ Len(p.queue) <= p.qcap
  BY Zenon DEF PortGood, EventInStep
<1>4. PopBufferAt(p, i) = [p EXCEPT !.queue = q, !.event = e]
  BY DEF PopBufferAt
<1> HIDE DEF q
<1>5. q = <<>> <=> Len(p.queue) = 1
  <2>1. q = <<>> <=> Len(q) = 0
    BY <1>2, EmptySeq
  <2> QED BY <1>1, <1>2, <2>1
<1>6. p.queue # <<>>
  BY <1>1
<1>7. e \in BOOLEAN /\ (e <=> q # <<>>)
  BY <1>3, <1>5, <1>6, Zenon
<1>8. Len(q) <= p.qcap
  BY <1>1, <1>2, <1>3 DEF PortGood
<1> HIDE DEF e
<1> QED BY <1>2, <1>4, <1>7, <1>8 DEF PortGood, EventInStep

\* HantroOmx_port_pop_buffer keeps a port good.
LEMMA PopBufferGood ==
  ASSUME NEW S, NEW p, PortGood(S, p) PROVE PortGood(S, PopBuffer(p))
<1>1. CASE p.queue = <<>>
  BY <1>1 DEF PopBuffer
<1>2. CASE p.queue # <<>>
  <2>1. 1 \in 1 .. Len(p.queue)
    BY <1>2 DEF PortGood
  <2>2. PortGood(S, PopBufferAt(p, 1))
    BY <2>1, PopBufferAtGood
  <2> QED BY <1>2, <2>2 DEF PopBuffer
<1> QED BY <1>1, <1>2

\* HantroOmx_port_buffer_queue_clear keeps a port good.
LEMMA QueueClearGood ==
  ASSUME NEW S, NEW p, PortGood(S, p) PROVE PortGood(S, QueueClear(p))
<1>1. <<>> \in Seq(S) /\ Len(<<>>) = 0
  OBVIOUS
<1>2. CASE p.queue = <<>>
  BY <1>2 DEF QueueClear
<1>3. CASE p.queue # <<>>
  <2>1. QueueClear(p) = [p EXCEPT !.queue = <<>>, !.event = FALSE]
    BY <1>3 DEF QueueClear
  <2> DEFINE q == <<>>
             e == FALSE
  <2>2. e \in BOOLEAN /\ (e <=> q # <<>>)
    BY Zenon
  <2>3. q \in Seq(S) /\ Len(q) <= p.qcap
    BY <1>1 DEF PortGood
  <2>4. QueueClear(p) = [p EXCEPT !.queue = q, !.event = e]
    BY <2>1
  <2> HIDE DEF q, e
  <2> QED BY <2>2, <2>3, <2>4 DEF PortGood, EventInStep
<1> QED BY <1>2, <1>3
\* The other fields of a port may change without disturbing its queue.
LEMMA OtherFieldsGood ==
  ASSUME NEW S, NEW p, PortGood(S, p), NEW on \in BOOLEAN, NEW full \in BOOLEAN,
         NEW bs \in Seq(S), NEW n \in Nat
  PROVE  /\ PortGood(S, [p EXCEPT !.enabled = on])
         /\ PortGood(S, [p EXCEPT !.buffers = bs, !.bcap = n, !.populated = full])
<1>1. ASSUME NEW q, q.queue = p.queue, q.qcap = p.qcap, q.event = p.event
      PROVE  (q.qcap # 0 /\ Len(q.queue) <= q.qcap) /\ EventInStep(q)
  BY <1>1 DEF PortGood, EventInStep
<1>2. PICK r : r = [p EXCEPT !.enabled = on]
  OBVIOUS
<1>3. /\ r \in [buffers : Seq(S), bcap : Nat, queue : Seq(S), qcap : Nat,
                event : BOOLEAN, enabled : BOOLEAN, populated : BOOLEAN]
      /\ r.queue = p.queue /\ r.qcap = p.qcap /\ r.event = p.event
  BY <1>2 DEF PortGood
<1>4. PICK t : t = [p EXCEPT !.buffers = bs, !.bcap = n, !.populated = full]
  OBVIOUS
<1>5. /\ t \in [buffers : Seq(S), bcap : Nat, queue : Seq(S), qcap : Nat,
                event : BOOLEAN, enabled : BOOLEAN, populated : BOOLEAN]
      /\ t.queue = p.queue /\ t.qcap = p.qcap /\ t.event = p.event
  BY <1>4 DEF PortGood
<1>6. PortGood(S, r) /\ PortGood(S, t)
  BY <1>1, <1>3, <1>5 DEF PortGood
<1> QED BY <1>2, <1>4, <1>6

-----------------------------------------------------------------------------
(* Finding a buffer *)

\* A set of natural numbers has a least element, and Min is one of the set.
LEMMA LeastOf ==
  ASSUME NEW S \in SUBSET Nat, S # {} PROVE Min(S) \in S /\ \A y \in S : Min(S) <= y
<1>1. PICK c \in S : \A d \in S : ~(<<d, c>> \in OpToRel(<, Nat))
  <2> DEFINE R == OpToRel(<, Nat)
  <2>1. IsWellFoundedOn(R, Nat)
    BY NatLessThanWellFounded
  <2> HIDE DEF R
  <2>2. \E c \in S : \A d \in S : ~(<<d, c>> \in R)
    BY <2>1, WFMin
  <2> QED BY <2>2 DEF R
<1>2. ASSUME NEW d \in S, d < c PROVE FALSE
  <2>1. <<d, c>> \in Nat \X Nat /\ <<d, c>>[1] < <<d, c>>[2]
    BY <1>2
  <2> QED BY <1>1, <2>1 DEF OpToRel
<1>3. \A d \in S : c <= d
  BY <1>2
<1> QED BY <1>3 DEF Min

\* get_buffer_by_frame_id finds a buffer that has the frame id, if there is one.
LEMMA FrameFound ==
  ASSUME NEW S, NEW p, p.queue \in Seq(S), NEW id, NEW f
  PROVE  LET i == PlaceOfFrame(p, id, f)
         IN IF \E j \in 1 .. Len(p.queue) : id[p.queue[j]] = f
            THEN i \in 1 .. Len(p.queue) /\ id[p.queue[i]] = f
            ELSE i = 0
<1> DEFINE I == {i \in 1 .. Len(p.queue) : id[p.queue[i]] = f}
<1>1. PlaceOfFrame(p, id, f) = IF I # {} THEN Min(I) ELSE 0
  BY DEF PlaceOfFrame, SelectInSeq
<1>2. I # {} => Min(I) \in I
  <2>1. I \in SUBSET Nat
    OBVIOUS
  <2> HIDE DEF I
  <2> QED BY <2>1, LeastOf
<1> QED BY <1>1, <1>2

-----------------------------------------------------------------------------
(* The elements of a queue from a place on *)

\* What is left when a place is removed.
LEMMA RemoveAtElems ==
  ASSUME NEW S, NEW s \in Seq(S), NEW i \in 1 .. Len(s)
  PROVE  /\ RemoveAt(s, i) \in Seq(S) /\ Len(RemoveAt(s, i)) = Len(s) - 1
         /\ \A j \in 1 .. Len(s) - 1 : RemoveAt(s, i)[j] = IF j < i THEN s[j] ELSE s[j + 1]
<1> DEFINE l == SubSeq(s, 1, i - 1)
           r == SubSeq(s, i + 1, Len(s))
<1>1. l \in Seq(S) /\ Len(l) = i - 1 /\ \A j \in 1 .. i - 1 : l[j] = s[j]
  OBVIOUS
<1>2. r \in Seq(S) /\ Len(r) = Len(s) - i /\ \A j \in 1 .. Len(s) - i : r[j] = s[i + j]
  OBVIOUS
<1> HIDE DEF l, r
<1>3. Len(s) \in Nat /\ i \in Nat
  OBVIOUS
<1>4. \A j \in 1 .. Len(l) + Len(r) : (l \o r)[j] = IF j <= Len(l) THEN l[j] ELSE r[j - Len(l)]
  BY <1>1, <1>2
<1>5. ASSUME NEW j \in 1 .. Len(s) - 1 PROVE (l \o r)[j] = IF j < i THEN s[j] ELSE s[j + 1]
  <2>1. CASE j < i
    BY <1>1, <1>2, <1>3, <1>4, <2>1
  <2>2. CASE ~(j < i)
    <3>1. j - (i - 1) \in 1 .. Len(s) - i /\ i + (j - (i - 1)) = j + 1
      BY <1>3, <2>2
    <3>2. (l \o r)[j] = r[j - (i - 1)]
      BY <1>1, <1>2, <1>3, <1>4, <2>2
    <3> QED BY <1>2, <2>2, <3>1, <3>2
  <2> QED BY <2>1, <2>2
<1> QED BY <1>5, RemoveAtLen DEF RemoveAt, l, r

From(s, lo) == {s[i] : i \in lo .. Len(s)}
Once(s, lo) == \A i, j \in lo .. Len(s) : s[i] = s[j] => i = j

\* A buffer that is not in the queue is pushed.
LEMMA PushElems ==
  ASSUME NEW S, NEW s \in Seq(S), NEW b \in S, NEW lo \in {1, 2}, lo <= Len(s) + 1,
         Once(s, lo), b \notin From(s, lo)
  PROVE  /\ Append(s, b) \in Seq(S) /\ Len(Append(s, b)) = Len(s) + 1
         /\ Once(Append(s, b), lo)
         /\ From(Append(s, b), lo) = From(s, lo) \cup {b}
<1> DEFINE t == Append(s, b)
<1>1. /\ t \in Seq(S) /\ Len(t) = Len(s) + 1 /\ Len(s) \in Nat /\ t[Len(s) + 1] = b
      /\ \A i \in 1 .. Len(s) : t[i] = s[i]
  OBVIOUS
<1> HIDE DEF t
<1>2. From(t, lo) = From(s, lo) \cup {b}
  <2>1. lo .. Len(t) = (lo .. Len(s)) \cup {Len(s) + 1}
    BY <1>1
  <2>2. \A i \in lo .. Len(s) : t[i] = s[i]
    BY <1>1
  <2> QED BY <1>1, <2>1, <2>2 DEF From
<1>3. Once(t, lo)
  <2> SUFFICES ASSUME NEW i \in lo .. Len(t), NEW j \in lo .. Len(t), t[i] = t[j], i < j PROVE FALSE
    BY <1>1 DEF Once
  <2>1. i \in lo .. Len(s) /\ t[i] = s[i]
    BY <1>1
  <2>2. CASE j = Len(s) + 1
    BY <1>1, <2>1, <2>2 DEF From
  <2>3. CASE j \in lo .. Len(s)
    <3>1. i # j /\ j \in 1 .. Len(s)
      BY <1>1, <2>3
    <3>2. t[j] = s[j]
      BY <1>1, <3>1
    <3>3. s[i] = s[j]
      BY <2>1, <3>2, Zenon
    <3> QED BY <2>1, <2>3, <3>1, <3>3 DEF Once
  <2> QED BY <1>1, <2>2, <2>3
<1> QED BY <1>1, <1>2, <1>3 DEF t

\* A place of a queue without repetition is removed.
LEMMA RemoveElems ==
  ASSUME NEW S, NEW s \in Seq(S), NEW i \in 1 .. Len(s), Once(s, 1)
  PROVE  /\ RemoveAt(s, i) \in Seq(S) /\ Len(RemoveAt(s, i)) = Len(s) - 1
         /\ Once(RemoveAt(s, i), 1)
         /\ From(RemoveAt(s, i), 1) = From(s, 1) \ {s[i]}
<1> DEFINE t == RemoveAt(s, i)  u(j) == IF j < i THEN j ELSE j + 1
<1>1. t \in Seq(S) /\ Len(t) = Len(s) - 1 /\ Len(s) \in Nat
  BY RemoveAtElems
<1>2. ASSUME NEW j \in 1 .. Len(t) PROVE u(j) \in 1 .. Len(s) /\ u(j) # i /\ t[j] = s[u(j)]
  <2>1. j \in 1 .. Len(s) - 1
    BY <1>1
  <2>2. t[j] = IF j < i THEN s[j] ELSE s[j + 1]
    BY <2>1, RemoveAtElems
  <2> QED BY <1>1, <2>1, <2>2
<1>3. \A m \in 1 .. Len(s) : m # i => \E j \in 1 .. Len(t) : u(j) = m
  <2> SUFFICES ASSUME NEW m \in 1 .. Len(s), m # i PROVE \E j \in 1 .. Len(t) : u(j) = m
    OBVIOUS
  <2>1. CASE m < i
    <3>1. m \in 1 .. Len(t) /\ u(m) = m
      BY <1>1, <2>1
    <3> QED BY <3>1
  <2>2. CASE m > i
    <3>1. m - 1 \in 1 .. Len(t) /\ u(m - 1) = m
      BY <1>1, <2>2
    <3> QED BY <3>1
  <2> QED BY <2>1, <2>2
<1>4. \A j, m \in 1 .. Len(t) : u(j) = u(m) => j = m
  BY <1>1
<1> HIDE DEF t, u
<1>5. Once(t, 1)
  BY <1>2, <1>4 DEF Once
<1>6. From(t, 1) = From(s, 1) \ {s[i]}
  <2>1. ASSUME NEW x \in From(t, 1) PROVE x \in From(s, 1) \ {s[i]}
    BY <1>2, <2>1 DEF From, Once
  <2>2. ASSUME NEW x \in From(s, 1) \ {s[i]} PROVE x \in From(t, 1)
    BY <1>2, <1>3, <2>2 DEF From
  <2> QED BY <2>1, <2>2
<1> QED BY <1>1, <1>5, <1>6 DEF t

\* The head of a queue is removed.
LEMMA HeadElems ==
  ASSUME NEW S, NEW s \in Seq(S), s # <<>>
  PROVE  /\ RemoveAt(s, 1) \in Seq(S) /\ Len(RemoveAt(s, 1)) = Len(s) - 1
         /\ \A j \in 1 .. Len(s) - 1 : RemoveAt(s, 1)[j] = s[j + 1]
         /\ Once(s, 2) => Once(RemoveAt(s, 1), 1)
         /\ From(RemoveAt(s, 1), 1) = From(s, 2)
         /\ From(s, 1) = From(s, 2) \cup {Head(s)}
         /\ Once(s, 1) => Once(s, 2) /\ Head(s) \notin From(s, 2)
         /\ Head(s) = s[1] /\ Head(s) \in S
<1> DEFINE t == RemoveAt(s, 1)
<1>1. Len(s) \in Nat /\ 1 \in 1 .. Len(s) /\ Head(s) = s[1] /\ s[1] \in S
  OBVIOUS
<1>2. t \in Seq(S) /\ Len(t) = Len(s) - 1 /\ \A j \in 1 .. Len(s) - 1 : t[j] = s[j + 1]
  BY <1>1, RemoveAtElems
<1> HIDE DEF t
<1>3. Once(s, 2) => Once(t, 1)
  <2> SUFFICES ASSUME Once(s, 2), NEW i \in 1 .. Len(t), NEW j \in 1 .. Len(t), t[i] = t[j] PROVE i = j
    BY DEF Once
  <2>1. i + 1 \in 2 .. Len(s) /\ j + 1 \in 2 .. Len(s) /\ s[i + 1] = s[j + 1]
    BY <1>1, <1>2
  <2>2. i + 1 = j + 1
    BY <2>1 DEF Once
  <2> QED BY <2>2
<1>4. From(t, 1) = From(s, 2)
  <2>1. ASSUME NEW j \in 1 .. Len(t) PROVE t[j] \in From(s, 2)
    <3>1. j + 1 \in 2 .. Len(s) /\ t[j] = s[j + 1]
      BY <1>1, <1>2
    <3> QED BY <3>1 DEF From
  <2>2. ASSUME NEW j \in 2 .. Len(s) PROVE s[j] \in From(t, 1)
    <3>1. j - 1 \in 1 .. Len(t) /\ t[j - 1] = s[(j - 1) + 1] /\ (j - 1) + 1 = j
      BY <1>1, <1>2
    <3> QED BY <3>1 DEF From
  <2> QED BY <2>1, <2>2 DEF From
<1>5. From(s, 1) = From(s, 2) \cup {Head(s)}
  <2>1. 1 .. Len(s) = (2 .. Len(s)) \cup {1}
    BY <1>1
  <2> QED BY <1>1, <2>1 DEF From
<1>6. Once(s, 1) => Once(s, 2) /\ Head(s) \notin From(s, 2)
  BY <1>1 DEF Once, From
<1> QED BY <1>1, <1>2, <1>3, <1>4, <1>5, <1>6 DEF t

\* An empty queue has no buffers.
LEMMA NoElems == ASSUME NEW lo \in {1, 2} PROVE From(<<>>, lo) = {} /\ Once(<<>>, lo)
<1>1. Len(<<>>) = 0
  OBVIOUS
<1>2. lo .. Len(<<>>) = {}
  BY <1>1
<1> QED BY <1>2 DEF From, Once
=============================================================================
