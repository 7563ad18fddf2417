---------------------------- MODULE TcpclProofs -----------------------------
(***************************************************************************)
(* Proofs about module Tcpcl, for any set of transfers of any size, any    *)
(* segment size, any capacity of the channels and of the connection.       *)
(***************************************************************************)
EXTENDS Tcpcl, SequenceTheorems, TLAPS

-----------------------------------------------------------------------------
(* Segments and acknowledgements, and what they say of the transfers.      *)

To(x) == Peer(Owner[x])

\* A bundle whose last segment is not a full one.
ShortTail(x) == \A q \in Nat : Size[x] # q * Mru[To(x)]

\* The transfer of a segment, and the positions between which it lies.
Of(seg) == seg.data[1][1]
Lo(seg) == seg.data[1][2] - 1
Hi(seg) == Lo(seg) + Len(seg.data)

(***************************************************************************)
(* What the two peers know of the transfers: whether Send was called, its  *)
(* ID, how much was sent and how much has arrived.                         *)
(***************************************************************************)
Views == [Transfers -> [on : BOOLEAN, id : Ids, pos : Nat, got : Nat]]

IsSegmentOf(x, msg) == msg.type = "segment" /\ Of(msg) = x

\* An acknowledgement to n of bytes that have arrived.
GoodAck(n, msg, v) ==
    \E x \in Transfers :
        /\ Owner[x] = n /\ v[x].on /\ msg.id = v[x].id
        /\ msg.len \in 1..v[x].got

\* A segment of n whose bytes were sent and have not yet arrived.
GoodSegment(n, msg, v) ==
    LET x == Of(msg)
    IN /\ x \in Transfers /\ Lo(msg) \in Nat /\ Hi(msg) \in Nat
       /\ Lo(msg) < Hi(msg)
       /\ Owner[x] = n /\ v[x].on /\ msg.id = v[x].id
       /\ msg.data = Payload(x, Lo(msg) + 1, Hi(msg))
       /\ v[x].got <= Lo(msg) /\ Hi(msg) <= v[x].pos
       /\ msg.end => Hi(msg) = Size[x]
       /\ ShortTail(x) /\ Hi(msg) = Size[x] => msg.end

\* The j-th message continues what has arrived or the segment before it.
Chained(q, j, v) ==
    LET x == Of(q[j])
    IN /\ \/ Lo(q[j]) = v[x].got
          \/ \E k \in 1..(j - 1) : IsSegmentOf(x, q[k]) /\ Hi(q[k]) = Lo(q[j])
       /\ \A k \in 1..(j - 1) : IsSegmentOf(x, q[k]) => Hi(q[k]) <= Lo(q[j])

\* Messages on their way from n to its peer.
PipeOK(q, n, v) ==
    \A j \in 1..Len(q) :
        /\ q[j].type = "segment" => GoodSegment(n, q[j], v) /\ Chained(q, j, v)
        /\ q[j].type = "ack" => GoodAck(Peer(n), q[j], v)

\* What was sent of x has arrived or is on its way.
Covered(q, x, v) ==
    \/ v[x].got = v[x].pos
    \/ \E j \in 1..Len(q) : IsSegmentOf(x, q[j]) /\ Hi(q[j]) = v[x].pos

LEMMA PeerPeer ==
    ASSUME NEW n \in Nodes
    PROVE  Peer(n) \in Nodes /\ Peer(n) # n /\ Peer(Peer(n)) = n
           /\ Nodes = {n, Peer(n)}
BY TcpclAssumption DEF Peer, Nodes

\* Losing the end of the pipe.
LEMMA PrefixOK ==
    ASSUME NEW n, NEW v, NEW r \in Seq(Messages), NEW t \in Seq(Messages),
           PipeOK(r \o t, n, v)
    PROVE  PipeOK(r, n, v)
<1> DEFINE q == r \o t
<1>1. /\ Len(q) = Len(r) + Len(t) /\ Len(r) \in Nat /\ Len(t) \in Nat
      /\ \A j \in 1..Len(r) : q[j] = r[j]
  BY ConcatProperties, LenProperties
<1> HIDE DEF q
<1> SUFFICES ASSUME NEW j \in 1..Len(r)
             PROVE  /\ r[j].type = "segment" => GoodSegment(n, r[j], v) /\ Chained(r, j, v)
                    /\ r[j].type = "ack" => GoodAck(Peer(n), r[j], v)
  BY DEF PipeOK
<1>2. j \in 1..Len(q) /\ q[j] = r[j] /\ \A k \in 1..(j - 1) : q[k] = r[k]
  BY <1>1
<1>3. Chained(q, j, v) => Chained(r, j, v)
  BY <1>2 DEF Chained
<1> QED
  BY <1>2, <1>3 DEF PipeOK, q

\* Anything but a segment at the end of the pipe.
LEMMA AppendOther ==
    ASSUME NEW n, NEW v, NEW q \in Seq(Messages), NEW msg \in Messages,
           PipeOK(q, n, v),
           msg.type # "segment",
           msg.type = "ack" => GoodAck(Peer(n), msg, v)
    PROVE  /\ PipeOK(Append(q, msg), n, v)
           /\ \A x \in Transfers : Covered(q, x, v) => Covered(Append(q, msg), x, v)
<1> DEFINE r == Append(q, msg)
<1>1. /\ Len(r) = Len(q) + 1 /\ Len(q) \in Nat /\ r[Len(r)] = msg
      /\ \A j \in 1..Len(q) : r[j] = q[j]
  BY AppendProperties, LenProperties
<1> HIDE DEF r
<1>2. ASSUME NEW j \in 1..Len(r)
      PROVE  /\ r[j].type = "segment" => GoodSegment(n, r[j], v) /\ Chained(r, j, v)
             /\ r[j].type = "ack" => GoodAck(Peer(n), r[j], v)
  <2>1. CASE j = Len(r)
    BY <2>1, <1>1
  <2>2. CASE j \in 1..Len(q)
    <3>1. r[j] = q[j] /\ \A k \in 1..(j - 1) : q[k] = r[k]
      BY <2>2, <1>1
    <3>2. Chained(q, j, v) => Chained(r, j, v)
      BY <3>1 DEF Chained
    <3> QED
      BY <2>2, <3>1, <3>2 DEF PipeOK
  <2> QED
    BY <2>1, <2>2, <1>1
<1>3. ASSUME NEW x \in Transfers, Covered(q, x, v) PROVE Covered(r, x, v)
  BY <1>1, <1>3 DEF Covered
<1> QED
  BY <1>2, <1>3 DEF PipeOK, r

\* Anything but a segment taken from the pipe.
LEMMA TailOther ==
    ASSUME NEW n, NEW v, NEW q \in Seq(Messages), q # <<>>,
           PipeOK(q, n, v),
           Head(q).type # "segment"
    PROVE  /\ PipeOK(Tail(q), n, v)
           /\ \A x \in Transfers : Covered(q, x, v) => Covered(Tail(q), x, v)
<1> DEFINE r == Tail(q)
<1>1. /\ Len(q) = Len(r) + 1 /\ Len(r) \in Nat /\ q[1].type # "segment"
      /\ \A j \in 1..Len(r) : r[j] = q[j + 1]
  BY HeadTailProperties, LenProperties
<1> HIDE DEF r
<1>2. ASSUME NEW j \in 1..Len(r)
      PROVE  /\ r[j].type = "segment" => GoodSegment(n, r[j], v) /\ Chained(r, j, v)
             /\ r[j].type = "ack" => GoodAck(Peer(n), r[j], v)
  <2>1. /\ j + 1 \in 1..Len(q) /\ r[j] = q[j + 1]
        /\ \A k \in 1..(j - 1) : r[k] = q[k + 1]
    BY <1>1
  <2>2. ASSUME Chained(q, j + 1, v) PROVE Chained(r, j, v)
    <3>1. ASSUME NEW k \in 1..(j + 1 - 1), IsSegmentOf(Of(r[j]), q[k])
          PROVE  k - 1 \in 1..(j - 1) /\ r[k - 1] = q[k]
      BY <3>1, <1>1, <2>1 DEF IsSegmentOf
    <3>2. ASSUME NEW k \in 1..(j - 1)
          PROVE  k + 1 \in 1..(j + 1 - 1) /\ r[k] = q[k + 1]
      BY <2>1
    <3> QED
      BY <2>1, <2>2, <3>1, <3>2 DEF Chained
  <2> QED
    BY <2>1, <2>2 DEF PipeOK
<1>3. ASSUME NEW x \in Transfers, Covered(q, x, v) PROVE Covered(r, x, v)
  <2>1. ASSUME NEW k \in 1..Len(q), IsSegmentOf(x, q[k])
        PROVE  k - 1 \in 1..Len(r) /\ r[k - 1] = q[k]
    BY <1>1, <2>1 DEF IsSegmentOf
  <2> QED
    BY <1>3, <2>1 DEF Covered
<1> QED
  BY <1>2, <1>3 DEF PipeOK, r

(***************************************************************************)
(* Sends start and go on, and bytes in the other direction arrive.         *)
(***************************************************************************)
LEMMA ViewOK ==
    ASSUME NEW n, NEW v \in Views, NEW w \in Views, NEW q, PipeOK(q, n, v),
           \A x \in Transfers : v[x].on =>
              /\ w[x].on /\ w[x].id = v[x].id
              /\ v[x].pos <= w[x].pos /\ v[x].got <= w[x].got
              /\ Owner[x] = n => w[x].got = v[x].got
    PROVE  PipeOK(q, n, w)
<1>1. \A x \in Transfers : /\ v[x].pos \in Nat /\ v[x].got \in Nat
                           /\ w[x].pos \in Nat /\ w[x].got \in Nat
  BY DEF Views
<1>2. ASSUME NEW msg, GoodAck(Peer(n), msg, v) PROVE GoodAck(Peer(n), msg, w)
  BY <1>1, <1>2 DEF GoodAck
<1>3. ASSUME NEW msg, GoodSegment(n, msg, v)
      PROVE  GoodSegment(n, msg, w) /\ w[Of(msg)].got = v[Of(msg)].got
  <2> DEFINE x == Of(msg)
  <2>1. /\ x \in Transfers /\ Lo(msg) \in Nat /\ Hi(msg) \in Nat
        /\ v[x].on /\ Owner[x] = n /\ Hi(msg) <= v[x].pos
    BY <1>3 DEF GoodSegment
  <2>2. Hi(msg) <= w[x].pos /\ w[x].got = v[x].got
    BY <2>1, <1>1
  <2> QED
    BY <1>3, <2>1, <2>2 DEF GoodSegment
<1>4. ASSUME NEW j \in 1..Len(q), q[j].type = "segment"
      PROVE  Chained(q, j, w)
  BY <1>3, <1>4 DEF PipeOK, Chained
<1> QED
  BY <1>2, <1>3, <1>4 DEF PipeOK

\* The next segment of x at the end of the pipe.
LEMMA PushOK ==
    ASSUME NEW n, NEW v \in Views, NEW w \in Views, NEW q \in Seq(Messages),
           NEW x \in Transfers, NEW seg \in Messages,
           PipeOK(q, n, v), Covered(q, x, v),
           seg.type = "segment", Of(seg) = x, Lo(seg) = v[x].pos,
           \A y \in Transfers \ {x} : w[y] = v[y],
           w[x].on = v[x].on, w[x].id = v[x].id, w[x].got = v[x].got,
           w[x].pos = Hi(seg),
           GoodSegment(n, seg, w)
    PROVE  /\ PipeOK(Append(q, seg), n, w)
           /\ \A y \in Transfers :
                 Covered(q, y, v) => Covered(Append(q, seg), y, w)
<1> DEFINE r == Append(q, seg)
<1>1. /\ Len(r) = Len(q) + 1 /\ Len(q) \in Nat /\ r[Len(r)] = seg
      /\ \A j \in 1..Len(q) : r[j] = q[j]
  BY AppendProperties, LenProperties
<1> HIDE DEF r
<1>2. v[x].pos <= w[x].pos
  BY DEF GoodSegment
<1>3. PipeOK(q, n, w)
  <2>1. \A y \in Transfers : /\ v[y].pos \in Nat /\ v[y].got \in Nat
                             /\ w[y].pos \in Nat /\ w[y].got \in Nat
    BY DEF Views
  <2>2. ASSUME NEW y \in Transfers, v[y].on
        PROVE  /\ w[y].on /\ w[y].id = v[y].id
               /\ v[y].pos <= w[y].pos /\ v[y].got <= w[y].got
               /\ Owner[y] = n => w[y].got = v[y].got
    BY <1>2, <2>1, <2>2
  <2> QED
    BY <2>2, ViewOK
<1>4. Chained(r, Len(r), w)
  <2>1. ASSUME NEW k \in 1..Len(q), IsSegmentOf(x, q[k])
        PROVE  Hi(q[k]) <= Lo(seg)
    BY <2>1 DEF PipeOK, GoodSegment, IsSegmentOf
  <2>2. \/ Lo(seg) = w[x].got
        \/ \E k \in 1..Len(q) : IsSegmentOf(x, q[k]) /\ Hi(q[k]) = Lo(seg)
    BY DEF Covered
  <2>3. Len(r) - 1 = Len(q)
    BY <1>1
  <2> QED
    BY <1>1, <2>1, <2>2, <2>3 DEF Chained
<1>5. ASSUME NEW j \in 1..Len(r)
      PROVE  /\ r[j].type = "segment" => GoodSegment(n, r[j], w) /\ Chained(r, j, w)
             /\ r[j].type = "ack" => GoodAck(Peer(n), r[j], w)
  <2>1. CASE j = Len(r)
    BY <2>1, <1>1, <1>4
  <2>2. CASE j \in 1..Len(q)
    <3>1. r[j] = q[j] /\ \A k \in 1..(j - 1) : q[k] = r[k]
      BY <2>2, <1>1
    <3>2. Chained(q, j, w) => Chained(r, j, w)
      BY <3>1 DEF Chained
    <3> QED
      BY <2>2, <3>1, <3>2, <1>3 DEF PipeOK
  <2> QED
    BY <2>1, <2>2, <1>1
<1>6. ASSUME NEW y \in Transfers, Covered(q, y, v) PROVE Covered(r, y, w)
  <2>1. CASE y = x
    <3>1. Len(r) \in 1..Len(r) /\ IsSegmentOf(x, r[Len(r)])
      BY <1>1 DEF IsSegmentOf
    <3> QED
      BY <3>1, <2>1, <1>1 DEF Covered
  <2>2. CASE y # x
    BY <1>1, <1>6, <2>2 DEF Covered
  <2> QED
    BY <2>1, <2>2
<1> QED
  BY <1>5, <1>6 DEF PipeOK, r

\* The next segment taken from the pipe, and added to what has arrived.
LEMMA PopOK ==
    ASSUME NEW n, NEW v \in Views, NEW w \in Views, NEW q \in Seq(Messages),
           q # <<>>, Head(q).type = "segment",
           PipeOK(q, n, v),
           \A y \in Transfers \ {Of(Head(q))} : w[y] = v[y],
           \A y \in Transfers :
              w[y].on = v[y].on /\ w[y].id = v[y].id /\ w[y].pos = v[y].pos,
           w[Of(Head(q))].got = Hi(Head(q))
    PROVE  /\ GoodSegment(n, Head(q), v)
           /\ Lo(Head(q)) = v[Of(Head(q))].got
           /\ PipeOK(Tail(q), n, w)
           /\ \A y \in Transfers : Covered(q, y, v) => Covered(Tail(q), y, w)
<1> DEFINE r == Tail(q)
           x == Of(Head(q))
<1>1. /\ Len(q) = Len(r) + 1 /\ Len(r) \in Nat /\ q[1] = Head(q)
      /\ \A j \in 1..Len(r) : r[j] = q[j + 1]
  BY HeadTailProperties, LenProperties
<1>2. GoodSegment(n, Head(q), v) /\ Lo(Head(q)) = v[x].got
  <2>1. 1 \in 1..Len(q)
    BY <1>1
  <2>2. GoodSegment(n, q[1], v) /\ Chained(q, 1, v)
    BY <1>1, <2>1 DEF PipeOK
  <2> QED
    BY <2>2, <1>1 DEF Chained
<1>3. /\ x \in Transfers /\ Owner[x] = n /\ Lo(Head(q)) \in Nat
      /\ Hi(Head(q)) \in Nat /\ Lo(Head(q)) < Hi(Head(q))
      /\ v[x].got < w[x].got
  BY <1>2 DEF GoodSegment
<1>4. IsSegmentOf(x, q[1]) /\ Hi(q[1]) = w[x].got
  BY <1>1 DEF IsSegmentOf
<1>5. \A y \in Transfers : v[y].got \in Nat /\ w[y].got \in Nat /\ v[y].got <= w[y].got
  <2>1. \A y \in Transfers : v[y].got \in Nat /\ w[y].got \in Nat
    BY DEF Views
  <2> QED
    BY <1>3, <2>1
<1> HIDE DEF r, x
<1>6. ASSUME NEW j \in 1..Len(r)
      PROVE  /\ r[j].type = "segment" => GoodSegment(n, r[j], w) /\ Chained(r, j, w)
             /\ r[j].type = "ack" => GoodAck(Peer(n), r[j], w)
  <2>1. /\ j + 1 \in 1..Len(q) /\ r[j] = q[j + 1]
        /\ 1 \in 1..(j + 1 - 1)
        /\ \A k \in 1..(j - 1) : r[k] = q[k + 1]
    BY <1>1
  <2>2. ASSUME r[j].type = "ack" PROVE GoodAck(Peer(n), r[j], w)
    <3>1. GoodAck(Peer(n), r[j], v)
      BY <2>1, <2>2 DEF PipeOK
    <3> QED
      BY <3>1, <1>5 DEF GoodAck
  <2>3. ASSUME r[j].type = "segment"
        PROVE  GoodSegment(n, r[j], w) /\ Chained(r, j, w)
    <3>1. GoodSegment(n, r[j], v) /\ Chained(q, j + 1, v)
      BY <2>1, <2>3 DEF PipeOK
    <3>2. CASE Of(r[j]) = x
      <4>1. w[x].got <= Lo(r[j])
        BY <3>1, <3>2, <2>1, <1>4 DEF Chained
      <4>2. GoodSegment(n, r[j], w)
        BY <4>1, <3>1, <3>2 DEF GoodSegment
      <4>3. Lo(r[j]) # v[x].got
        BY <4>1, <1>3, <3>1, <1>5 DEF GoodSegment
      <4>4. PICK k \in 1..(j + 1 - 1) : IsSegmentOf(x, q[k]) /\ Hi(q[k]) = Lo(r[j])
        BY <3>1, <3>2, <4>3, <2>1 DEF Chained
      <4>5. Lo(r[j]) = w[x].got \/
            \E i \in 1..(j - 1) : IsSegmentOf(x, r[i]) /\ Hi(r[i]) = Lo(r[j])
        <5>1. CASE k = 1
          BY <5>1, <4>4, <1>4
        <5>2. CASE k # 1
          <6>1. k - 1 \in 1..(j - 1) /\ r[k - 1] = q[k]
            BY <5>2, <2>1
          <6> QED
            BY <6>1, <4>4
        <5> QED
          BY <5>1, <5>2
      <4>6. ASSUME NEW i \in 1..(j - 1), IsSegmentOf(x, r[i])
            PROVE  Hi(r[i]) <= Lo(r[j])
        <5>1. i + 1 \in 1..(j + 1 - 1) /\ r[i] = q[i + 1]
          BY <2>1
        <5> QED
          BY <5>1, <4>6, <3>1, <3>2, <2>1 DEF Chained
      <4> QED
        BY <4>2, <4>5, <4>6, <3>2 DEF Chained
    <3>3. CASE Of(r[j]) # x
      <4>1. Of(r[j]) \in Transfers /\ w[Of(r[j])] = v[Of(r[j])]
        BY <3>1, <3>3 DEF GoodSegment, x
      <4>2. GoodSegment(n, r[j], w)
        BY <4>1, <3>1 DEF GoodSegment
      <4>3. ASSUME NEW k \in 1..(j + 1 - 1), IsSegmentOf(Of(r[j]), q[k])
            PROVE  k - 1 \in 1..(j - 1) /\ r[k - 1] = q[k]
        <5>1. k # 1
          BY <4>3, <3>3, <1>4 DEF IsSegmentOf
        <5> QED
          BY <5>1, <2>1
      <4>4. ASSUME NEW k \in 1..(j - 1)
            PROVE  k + 1 \in 1..(j + 1 - 1) /\ r[k] = q[k + 1]
        BY <2>1
      <4>5. Chained(r, j, w)
        BY <4>1, <4>3, <4>4, <3>1, <2>1 DEF Chained
      <4> QED
        BY <4>2, <4>5
    <3> QED
      BY <3>2, <3>3
  <2> QED
    BY <2>2, <2>3
<1>7. ASSUME NEW y \in Transfers, Covered(q, y, v) PROVE Covered(r, y, w)
  <2>1. CASE y = x
    <3>1. w[x].pos = v[x].pos
      BY <1>3
    <3>2. v[x].got # v[x].pos
      <4>1. v[x].pos \in Nat /\ Hi(Head(q)) <= v[x].pos
        BY <1>2, <1>3 DEF GoodSegment, Views, x
      <4> QED
        BY <4>1, <1>3, <1>2
    <3>3. PICK k \in 1..Len(q) : IsSegmentOf(x, q[k]) /\ Hi(q[k]) = v[x].pos
      BY <3>2, <1>7, <2>1 DEF Covered
    <3>4. CASE k = 1
      BY <3>4, <3>3, <3>1, <1>4, <2>1 DEF Covered
    <3>5. CASE k # 1
      <4>1. k - 1 \in 1..Len(r) /\ r[k - 1] = q[k]
        BY <3>5, <1>1
      <4> QED
        BY <4>1, <3>3, <3>1, <2>1 DEF Covered
    <3> QED
      BY <3>4, <3>5
  <2>2. CASE y # x
    <3>1. w[y] = v[y]
      BY <2>2 DEF x
    <3>2. ASSUME NEW k \in 1..Len(q), IsSegmentOf(y, q[k])
          PROVE  k - 1 \in 1..Len(r) /\ r[k - 1] = q[k]
      <4>1. k # 1
        BY <3>2, <2>2, <1>4 DEF IsSegmentOf
      <4> QED
        BY <4>1, <1>1
    <3> QED
      BY <3>1, <3>2, <1>7 DEF Covered
  <2> QED
    BY <2>1, <2>2
<1> QED
  BY <1>2, <1>6, <1>7 DEF PipeOK, r, x

-----------------------------------------------------------------------------
(* The inductive invariant.                                                *)

Dead == {"term", "error", "stalled"}

\* The stage of n reads and writes no more messages of transfers.
Done(n) == client[n] = "down" \/ stage[n] \in Dead

HeldIn(n) == IF stage[n] = "in" THEN <<held[n]>> ELSE <<>>
HeldOut(n) == IF stage[n] = "out" THEN <<held[n]>> ELSE <<>>

\* What n has read, will write and has written or will write.
Read(n) == exIn[n] \o HeldIn(n)
Unsent(n) == IF Done(n) THEN <<>> ELSE HeldOut(n) \o exOut[n]
Outgoing(n) == wire[n] \o Unsent(n)

\* All that will reach the TransferManager of n's peer, in this order.
Pipe(n) == Read(Peer(n)) \o (IF Done(Peer(n)) THEN <<>> ELSE Outgoing(n))

Started(x) == send[x].pc \in {"run", "ok", "failed"}

Buf(x) == bufs[To(x)][send[x].id]

\* The bytes of x that have arrived.
Got(x) == IF x \in delivered[To(x)] THEN Size[x] ELSE Len(Buf(x).data)

View == [x \in Transfers |->
            [on |-> Started(x), id |-> send[x].id, pos |-> send[x].pos,
             got |-> IF Started(x) THEN Got(x) ELSE 0]]

\* The SESS_INITs of n.
InitsOK(s, n) ==
    \A i \in 1..Len(s) : s[i].type = "init" => s[i].mru = Mru[n]

\* The peer's SESS_INIT has come before any Send.
StageInv(n) ==
    /\ stage[n] \in {"sendContact", "recvContact", "sendInit", "recvInit",
                     "ready"} => client[n] = "starting"
    /\ client[n] = "starting" =>
          /\ exIn[n] = <<>> /\ exOut[n] = <<>> /\ tm[n] = "none"
          /\ stage[n] \notin {"select", "in", "out"}
          /\ nextId[n] = 0
    /\ (\/ client[n] # "starting" \/ stage[n] = "ready"
        \/ n = Passive /\ stage[n] = "sendInit")
          => mtu[n] = Mru[Peer(n)]
    /\ InitsOK(wire[n], n)
    /\ stage[n] \in {"in", "out"} => held[n] \in Exchanged
    /\ exIn[n] \in Seq(Exchanged) /\ exOut[n] \in Seq(Exchanged)

\* IDs are not used twice; a buffer is used for a transfer that was started.
IdInv ==
    /\ \A x \in Transfers : Started(x) => send[x].id < nextId[Owner[x]]
    /\ \A x, y \in Transfers :
          Started(x) /\ Started(y) /\ Owner[x] = Owner[y]
             /\ send[x].id = send[y].id => x = y
    /\ \A n \in Nodes, i \in Ids :
          i >= nextId[Peer(n)] => bufs[n][i] = Unused
    /\ \A n \in Nodes : \A x \in delivered[n] : Started(x) /\ To(x) = n

\* The variables of a Send call.
SendInv(x) ==
    /\ send[x].pc \in {"idle", "panic"} =>
          /\ send[x].out = "off" /\ send[x].pos = 0 /\ send[x].total = None
          /\ send[x].acks = <<>> /\ send[x].inLen = 0 /\ send[x].outLen = 0
    /\ send[x].pos <= Size[x]
    /\ send[x].out = "push" => send[x].pos < Size[x]
    /\ \/ send[x].pos = Size[x]
       \/ \E q \in Nat : send[x].pos = q * mtu[Owner[x]]
    /\ send[x].total \in {None, Size[x]}
    /\ send[x].outLen \in {0, Size[x]}

\* What Send knows of acknowledgements has arrived.
AckedInv(x) ==
    Started(x) =>
       /\ send[x].inLen <= Got(x)
       /\ \A i \in 1..Len(send[x].acks) : send[x].acks[i] \in 1..Got(x)
       /\ send[x].pc = "ok" => Got(x) = Size[x]

\* A buffer holds the bundle up to what has arrived.
BufInv(x) ==
    Started(x) =>
       /\ Got(x) <= send[x].pos
       /\ x \in delivered[To(x)] => Buf(x) = Unused
       /\ x \notin delivered[To(x)] =>
            /\ Buf(x).data = Payload(x, 1, Len(Buf(x).data))
            /\ Buf(x).end => Len(Buf(x).data) = Size[x]
            /\ ShortTail(x) /\ Len(Buf(x).data) = Size[x] => Buf(x).end

Acks == [type : {"ack"}, id : Ids, len : Nat]

\* The acknowledgement that TransferManager.handle has in hand.
TmInv(n) ==
    /\ tm[n] = "feedback" => cur[n] \in Acks /\ GoodAck(n, cur[n], View)
    /\ tm[n] \in {"ack", "deliver"} =>
          /\ cur[n] \in Acks /\ GoodAck(Peer(n), cur[n], View)
          /\ cur[n].len = Len(bufs[n][cur[n].id].data)
    /\ tm[n] = "deliver" => bufs[n][cur[n].id].end

FlowInv ==
    /\ \A n \in Nodes : PipeOK(Pipe(n), n, View)
    /\ \A x \in Transfers :
          Started(x) /\ ~Done(Owner[x]) /\ ~Done(To(x))
             => Covered(Pipe(Owner[x]), x, View)

IInv ==
    /\ TypeOK
    /\ \A n \in Nodes : StageInv(n)
    /\ IdInv
    /\ \A x \in Transfers : SendInv(x)
    /\ \A x \in Transfers : BufInv(x)
    /\ \A x \in Transfers : AckedInv(x)
    /\ \A n \in Nodes : TmInv(n)
    /\ FlowInv

-----------------------------------------------------------------------------
(* Types.                                                                  *)

LEMMA MessageTypes ==
    /\ Acks \subseteq Exchanged /\ Exchanged \subseteq Messages
    /\ \A msg \in Messages :
          /\ msg.type = "ack" => msg \in Acks
          /\ msg.type = "init" => msg.mru \in Nat \ {0}
          /\ msg.type = "segment" =>
                /\ msg.id \in Ids /\ msg.data \in Seq(Bytes)
                /\ msg.end \in BOOLEAN
          /\ msg.type \in {"segment", "ack"} => msg \in Exchanged
          /\ msg \in Exchanged => msg.type \in {"segment", "ack"}
BY DEF Acks, Exchanged, Messages, Handshake

LEMMA PayloadType ==
    ASSUME NEW x \in Transfers, NEW lo \in Nat \ {0}, NEW hi \in Nat,
           lo <= hi + 1
    PROVE  /\ Payload(x, lo, hi) \in Seq(Bytes)
           /\ Len(Payload(x, lo, hi)) = hi - lo + 1
           /\ \A k \in 1..(hi - lo + 1) : Payload(x, lo, hi)[k] = <<x, lo + k - 1>>
<1> DEFINE k == hi - lo + 1
<1>1. k \in Nat
  OBVIOUS
<1>2. \A i \in 1..k : <<x, lo + i - 1>> \in Bytes
  BY DEF Bytes
<1>3. Payload(x, lo, hi) = [i \in 1..k |-> <<x, lo + i - 1>>]
  BY DEF Payload
<1>4. Payload(x, lo, hi) \in [1..k -> Bytes]
  BY <1>2, <1>3
<1> HIDE DEF k
<1>5. Payload(x, lo, hi) \in Seq(Bytes) /\ Len(Payload(x, lo, hi)) = k
  BY <1>1, <1>4
<1> QED
  BY <1>3, <1>5 DEF k

\* The next segment of a running Send.
LEMMA SegmentType ==
    ASSUME TypeOK, NEW x \in Transfers, send[x].pos < Size[x],
           mtu[Owner[x]] >= 1
    PROVE  /\ SegmentEnd(x) \in Nat
           /\ send[x].pos < SegmentEnd(x) /\ SegmentEnd(x) <= Size[x]
           /\ Segment(x) \in Exchanged
           /\ Of(Segment(x)) = x /\ Lo(Segment(x)) = send[x].pos
           /\ Hi(Segment(x)) = SegmentEnd(x)
<1> DEFINE lo == send[x].pos
           hi == SegmentEnd(x)
<1>1. /\ lo \in Nat /\ Size[x] \in Nat /\ mtu[Owner[x]] \in Nat
      /\ send[x].id \in Ids
  BY TcpclAssumption DEF TypeOK, SendRec
<1>2. hi \in Nat /\ lo < hi /\ hi <= Size[x]
  BY <1>1 DEF SegmentEnd
<1> HIDE DEF lo, hi
<1> DEFINE data == Payload(x, lo + 1, hi)
<1>3. data \in Seq(Bytes) /\ Len(data) = hi - lo /\ data[1] = <<x, lo + 1>>
  <2>1. /\ lo + 1 \in Nat \ {0} /\ lo + 1 <= hi + 1
        /\ 1 \in 1..(hi - (lo + 1) + 1) /\ hi - (lo + 1) + 1 = hi - lo
        /\ lo + 1 + 1 - 1 = lo + 1
    BY <1>1, <1>2 DEF lo
  <2>2. /\ data \in Seq(Bytes) /\ Len(data) = hi - (lo + 1) + 1
        /\ \A k \in 1..(hi - (lo + 1) + 1) : data[k] = <<x, lo + 1 + k - 1>>
    BY <2>1, <1>2, PayloadType
  <2> HIDE DEF data
  <2>3. data[1] = <<x, lo + 1 + 1 - 1>>
    BY <2>1, <2>2
  <2> QED
    BY <2>1, <2>2, <2>3
<1> HIDE DEF data
<1>4. Segment(x) = [type |-> "segment", id |-> send[x].id, data |-> data,
                    end |-> Size[x] - lo < mtu[Owner[x]]]
  BY DEF Segment, data, lo, hi
<1>5. Segment(x) \in Exchanged
  BY <1>1, <1>3, <1>4 DEF Exchanged
<1>6. Of(Segment(x)) = x /\ Lo(Segment(x)) = lo
  BY <1>3, <1>4, <1>1 DEF Of, Lo, lo
<1>7. Hi(Segment(x)) = hi
  <2>1. Len(Segment(x).data) = hi - lo
    BY <1>3, <1>4
  <2>2. lo \in Nat
    BY <1>1 DEF lo
  <2> QED
    BY <2>1, <2>2, <1>6, <1>2 DEF Hi
<1> QED
  BY <1>2, <1>5, <1>6, <1>7 DEF lo, hi

LEMMA InitInv == Init => IInv
<1> SUFFICES ASSUME Init PROVE IInv
  OBVIOUS
<1>1. TypeOK
  <2>1. 0 \in Ids /\ Unused \in [data : Seq(Bytes), end : BOOLEAN]
    BY TcpclAssumption DEF Ids, Unused
  <2> QED
    BY <2>1 DEF Init, TypeOK, Stages, SendRec
<1>2. ASSUME NEW n \in Nodes PROVE StageInv(n)
  BY <1>2, PeerPeer, TcpclAssumption DEF Init, StageInv, InitsOK, Nodes
<1>3. IdInv
  BY PeerPeer, TcpclAssumption DEF Init, IdInv, Started, Ids
<1>4. ASSUME NEW x \in Transfers PROVE SendInv(x) /\ BufInv(x) /\ AckedInv(x)
  <2>1. /\ send[x].pos = 0 /\ send[x].out = "off" /\ send[x].pc = "idle"
        /\ send[x].total = None /\ send[x].acks = <<>> /\ send[x].inLen = 0
        /\ send[x].outLen = 0
    BY DEF Init
  <2>2. 0 = 0 * mtu[Owner[x]] /\ Size[x] \in Nat
    BY <1>1, TcpclAssumption DEF TypeOK
  <2> QED
    BY <2>1, <2>2 DEF SendInv, BufInv, AckedInv, Started
<1>5. ASSUME NEW n \in Nodes PROVE TmInv(n)
  BY DEF Init, TmInv
<1>6. FlowInv
  <2>1. ASSUME NEW n \in Nodes PROVE PipeOK(Pipe(n), n, View)
    <3>1. Pipe(n) = <<>>
      <4>1. Peer(n) \in Nodes
        BY PeerPeer
      <4>2. Read(Peer(n)) = <<>> /\ Outgoing(n) = <<>>
        BY <4>1, TcpclAssumption DEF Init, Read, Outgoing, Unsent, HeldIn, HeldOut, Nodes
      <4> QED
        BY <4>2 DEF Pipe
    <3> QED
      BY <3>1 DEF PipeOK
  <2>2. ASSUME NEW x \in Transfers PROVE ~Started(x)
    BY DEF Init, Started
  <2> QED
    BY <2>1, <2>2 DEF FlowInv
<1> QED
  BY <1>1, <1>2, <1>3, <1>4, <1>5, <1>6 DEF IInv

-----------------------------------------------------------------------------
(* Concatenated sequences.                                                 *)

LEMMA MoveHead ==
    ASSUME NEW S, NEW s \in Seq(S), NEW t \in Seq(S), t # <<>>
    PROVE  Append(s, Head(t)) \o Tail(t) = s \o t
<1>1. /\ Head(t) \in S /\ Tail(t) \in Seq(S) /\ Len(t) \in Nat /\ Len(s) \in Nat
      /\ Len(Tail(t)) = Len(t) - 1 /\ Len(t) >= 1
      /\ \A i \in 1..(Len(t) - 1) : Tail(t)[i] = t[i + 1]
      /\ Head(t) = t[1]
  BY HeadTailProperties, LenProperties
<1> DEFINE h == Head(t)
           u == Tail(t)
           a == Append(s, h)
<1>2. /\ a \in Seq(S) /\ Len(a) = Len(s) + 1 /\ a[Len(s) + 1] = t[1]
      /\ \A i \in 1..Len(s) : a[i] = s[i]
  BY <1>1, AppendProperties
<1>3. /\ s \o t \in Seq(S) /\ Len(s \o t) = Len(s) + Len(t)
      /\ \A i \in 1..Len(s) + Len(t) :
            (s \o t)[i] = IF i <= Len(s) THEN s[i] ELSE t[i - Len(s)]
  BY ConcatProperties
<1> HIDE DEF h, u, a
<1>4. /\ a \o u \in Seq(S) /\ Len(a \o u) = Len(a) + Len(u)
      /\ \A i \in 1..Len(a) + Len(u) :
            (a \o u)[i] = IF i <= Len(a) THEN a[i] ELSE u[i - Len(a)]
  BY <1>1, <1>2, ConcatProperties DEF u
<1>5. ASSUME NEW i \in 1..Len(a \o u) PROVE (a \o u)[i] = (s \o t)[i]
  <2>1. i \in 1..(Len(s) + Len(t)) /\ Len(a) + Len(u) = Len(s) + Len(t)
    BY <1>1, <1>2, <1>4 DEF u
  <2>2. CASE i <= Len(s)
    BY <2>1, <2>2, <1>1, <1>2, <1>3, <1>4
  <2>3. CASE i = Len(s) + 1
    BY <2>1, <2>3, <1>1, <1>2, <1>3, <1>4
  <2>4. CASE i > Len(s) + 1
    <3>1. i - Len(a) \in 1..(Len(t) - 1) /\ i - Len(a) + 1 = i - Len(s)
      BY <2>1, <2>4, <1>1, <1>2
    <3>2. u[i - Len(a)] = t[i - Len(s)]
      BY <3>1, <1>1 DEF u
    <3> QED
      BY <2>1, <2>4, <3>1, <3>2, <1>1, <1>2, <1>3, <1>4
  <2> QED
    BY <2>1, <2>2, <2>3, <2>4, <1>1
<1>6. Len(a \o u) = Len(s \o t)
  BY <1>1, <1>2, <1>3, <1>4 DEF u
<1>7. a \o u = s \o t
  BY <1>3, <1>4, <1>5, <1>6, SeqEqual
<1> QED
  BY <1>7 DEF a, u, h

LEMMA SeqAlgebra ==
    ASSUME NEW S, NEW s \in Seq(S), NEW t \in Seq(S), NEW e \in S
    PROVE  /\ s \o t \in Seq(S) /\ Append(s, e) \in Seq(S) /\ <<e>> \in Seq(S)
           /\ s \o <<>> = s /\ <<>> \o s = s
           /\ Append(s, e) = s \o <<e>>
           /\ Append(s, e) \o t = s \o (<<e>> \o t)
           /\ s \o Append(t, e) = Append(s \o t, e)
<1>1. <<e>> \in Seq(S)
  OBVIOUS
<1>2. Append(s, e) = s \o <<e>> /\ Append(t, e) = t \o <<e>>
  BY AppendIsConcat
<1>3. Append(s, e) \o t = s \o (<<e>> \o t)
  BY <1>1, <1>2, ConcatAssociative
<1>4. s \o t \in Seq(S) /\ Append(s, e) \in Seq(S)
  BY ConcatProperties, AppendProperties
<1>5. s \o Append(t, e) = Append(s \o t, e)
  BY <1>1, <1>2, <1>4, ConcatAssociative, AppendIsConcat
<1> QED
  BY <1>1, <1>2, <1>3, <1>4, <1>5, ConcatEmptySeq

LEMMA TailFront ==
    ASSUME NEW S, NEW s \in Seq(S), NEW t \in Seq(S), s # <<>>
    PROVE  /\ s \o t # <<>> /\ Head(s \o t) = Head(s)
           /\ Tail(s \o t) = Tail(s) \o t
<1>1. /\ Head(s) \in S /\ Tail(s) \in Seq(S)
      /\ <<Head(s)>> \o Tail(s) = s
  <2>1. Head(s) \in S /\ Tail(s) \in Seq(S)
    BY HeadTailProperties
  <2>2. Append(<<>>, Head(s)) \o Tail(s) = <<>> \o s
    BY MoveHead
  <2>3. Append(<<>>, Head(s)) = <<Head(s)>>
    OBVIOUS
  <2> QED
    BY <2>1, <2>2, <2>3, SeqAlgebra
<1> DEFINE h == Head(s)
           u == Tail(s) \o t
<1>2. s \o t = <<h>> \o u
  <2>1. <<h>> \in Seq(S)
    BY <1>1
  <2> QED
    BY <1>1, <2>1, ConcatAssociative
<1>3. u \in Seq(S) /\ h \in S /\ <<h>> \in Seq(S)
  BY <1>1, ConcatProperties
<1> HIDE DEF h, u
<1> DEFINE w == <<h>> \o u
<1>4. /\ w \in Seq(S) /\ Len(w) = 1 + Len(u) /\ Len(u) \in Nat
      /\ w[1] = h /\ \A i \in 1..Len(u) : w[i + 1] = u[i]
  <2>1. Len(u) \in Nat /\ Len(<<h>>) = 1
    BY <1>3, LenProperties
  <2>2. /\ w \in Seq(S) /\ Len(w) = 1 + Len(u)
        /\ \A i \in 1..1 + Len(u) :
              w[i] = IF i <= 1 THEN <<h>>[i] ELSE u[i - 1]
    BY <1>3, <2>1, ConcatProperties
  <2> HIDE DEF w
  <2>3. w[1] = h
    BY <2>1, <2>2
  <2>4. ASSUME NEW i \in 1..Len(u) PROVE w[i + 1] = u[i]
    <3>1. i + 1 \in 1..1 + Len(u) /\ ~(i + 1 <= 1) /\ i + 1 - 1 = i
      BY <2>1
    <3> QED
      BY <3>1, <2>2
  <2> QED
    BY <2>1, <2>2, <2>3, <2>4
<1> HIDE DEF w
<1>5. w # <<>> /\ Head(w) = h
  BY <1>4
<1>6. /\ Tail(w) \in Seq(S) /\ Len(Tail(w)) = Len(w) - 1
      /\ \A i \in 1..Len(Tail(w)) : Tail(w)[i] = w[i + 1]
  BY <1>4, <1>5, HeadTailProperties
<1>7. Tail(w) = u
  <2>1. Len(Tail(w)) = Len(u)
    BY <1>4, <1>6
  <2>2. \A i \in 1..Len(Tail(w)) : Tail(w)[i] = u[i]
    BY <2>1, <1>4, <1>6
  <2> QED
    BY <2>1, <2>2, <1>3, <1>6, SeqEqual
<1> QED
  BY <1>2, <1>5, <1>7 DEF w, u, h

LEMMA PrefixSuffix ==
    ASSUME NEW S, NEW s \in Seq(S), NEW k \in 0..Len(s)
    PROVE  /\ SubSeq(s, 1, k) \in Seq(S)
           /\ SubSeq(s, k + 1, Len(s)) \in Seq(S)
           /\ s = SubSeq(s, 1, k) \o SubSeq(s, k + 1, Len(s))
           /\ Len(SubSeq(s, 1, k)) = k
           /\ \A i \in 1..k : SubSeq(s, 1, k)[i] = s[i]
<1>1. Len(s) \in Nat /\ \A i \in 1..Len(s) : s[i] \in S
  BY LenProperties, ElementOfSeq
<1>2. /\ SubSeq(s, 1, k) \in Seq(S) /\ Len(SubSeq(s, 1, k)) = k
      /\ \A i \in 1..k : SubSeq(s, 1, k)[i] = s[i]
  BY <1>1
<1>3. SubSeq(s, k + 1, Len(s)) \in Seq(S)
  BY <1>1
<1>4. SubSeq(s, 1, k) \o SubSeq(s, k + 1, Len(s)) = SubSeq(s, 1, Len(s))
  <2>1. 1 \in 1..Len(s) + 1 /\ k \in (1 - 1)..Len(s) /\ Len(s) \in k..Len(s)
    BY <1>1
  <2> QED
    BY <2>1, ConcatAdjacentSubSeq
<1>5. SubSeq(s, 1, Len(s)) = s
  BY SubSeqFull
<1> QED
  BY <1>2, <1>3, <1>4, <1>5

-----------------------------------------------------------------------------
(* What a step does to the pipes.                                          *)

Typed == TypeOK /\ \A n \in Nodes : StageInv(n)

\* The parts of the pipes are sequences of messages.
FlowTyped ==
    \A n \in Nodes :
       /\ wire[n] \in Seq(Messages) /\ exIn[n] \in Seq(Messages)
       /\ exOut[n] \in Seq(Messages)
       /\ HeldIn(n) \in Seq(Messages) /\ HeldOut(n) \in Seq(Messages)
       /\ Read(n) \in Seq(Messages) /\ Unsent(n) \in Seq(Messages)
       /\ Outgoing(n) \in Seq(Messages) /\ Pipe(n) \in Seq(Messages)

LEMMA Concat3 ==
    \A s, t, u \in Seq(Messages) : (s \o t) \o u = s \o (t \o u)
BY ConcatAssociative

LEMMA MoveMessage ==
    /\ \A s, t \in Seq(Messages) :
          t # <<>> => Append(s, Head(t)) \o Tail(t) = s \o t
    /\ \A s, t \in Seq(Messages), e \in Messages :
          Append(s, e) \o t = s \o (<<e>> \o t)
<1>1. ASSUME NEW s \in Seq(Messages), NEW t \in Seq(Messages), t # <<>>
      PROVE  Append(s, Head(t)) \o Tail(t) = s \o t
  BY <1>1, MoveHead
<1>2. ASSUME NEW s \in Seq(Messages), NEW t \in Seq(Messages), NEW e \in Messages
      PROVE  Append(s, e) \o t = s \o (<<e>> \o t)
  BY SeqAlgebra
<1> QED
  BY <1>1, <1>2

LEMMA FlowTypes == Typed => FlowTyped
<1> SUFFICES ASSUME Typed, NEW n \in Nodes
             PROVE  /\ wire[n] \in Seq(Messages) /\ exIn[n] \in Seq(Messages)
                    /\ exOut[n] \in Seq(Messages)
                    /\ HeldIn(n) \in Seq(Messages) /\ HeldOut(n) \in Seq(Messages)
                    /\ Read(n) \in Seq(Messages) /\ Unsent(n) \in Seq(Messages)
                    /\ Outgoing(n) \in Seq(Messages) /\ Pipe(n) \in Seq(Messages)
  BY DEF FlowTyped
<1>1. ASSUME NEW k \in Nodes
      PROVE  /\ wire[k] \in Seq(Messages) /\ exIn[k] \in Seq(Messages)
             /\ exOut[k] \in Seq(Messages)
             /\ HeldIn(k) \in Seq(Messages) /\ HeldOut(k) \in Seq(Messages)
  <2>1. /\ wire[k] \in Seq(Messages) /\ exIn[k] \in Seq(Messages)
        /\ exOut[k] \in Seq(Messages)
    BY DEF Typed, TypeOK
  <2>2. stage[k] \in {"in", "out"} => <<held[k]>> \in Seq(Messages)
    <3>1. stage[k] \in {"in", "out"} => held[k] \in Messages
      BY MessageTypes DEF Typed, StageInv
    <3> QED
      BY <3>1
  <2>3. <<>> \in Seq(Messages)
    OBVIOUS
  <2> QED
    BY <2>1, <2>2, <2>3 DEF HeldIn, HeldOut
<1>2. ASSUME NEW k \in Nodes
      PROVE  /\ Read(k) \in Seq(Messages) /\ Unsent(k) \in Seq(Messages)
             /\ Outgoing(k) \in Seq(Messages)
  <2>1. Read(k) \in Seq(Messages)
    BY <1>1, ConcatProperties DEF Read
  <2>2. Unsent(k) \in Seq(Messages)
    BY <1>1, ConcatProperties, EmptySeq DEF Unsent
  <2> QED
    BY <1>1, <2>1, <2>2, ConcatProperties DEF Outgoing
<1>3. Peer(n) \in Nodes
  BY PeerPeer
<1>4. Pipe(n) \in Seq(Messages)
  BY <1>2, <1>3, ConcatProperties, EmptySeq DEF Pipe
<1> QED
  BY <1>1, <1>2, <1>4

(***************************************************************************)
(* No segment or acknowledgement is added and no segment is taken; if some *)
(* are lost, then one of the stages has ended.                             *)
(***************************************************************************)
PipeKept(n) ==
    \/ Pipe(n)' = Pipe(n)
    \/ \E msg \in Messages : /\ msg.type \notin {"segment", "ack"}
                             /\ Pipe(n)' = Append(Pipe(n), msg)
    \/ /\ Pipe(n) # <<>> /\ Head(Pipe(n)).type # "segment"
       /\ Pipe(n)' = Tail(Pipe(n))
    \/ /\ Done(n)' \/ Done(Peer(n))'
       /\ \E t \in Seq(Messages) : Pipe(n) = Pipe(n)' \o t

LEMMA FlowKept ==
    ASSUME Typed, Typed', FlowInv, View' = View,
           \A n \in Nodes : PipeKept(n) /\ (Done(n) => Done(n)')
    PROVE  FlowInv'
<1>1. \A n \in Nodes : Pipe(n) \in Seq(Messages)
  BY FlowTypes DEF FlowTyped
<1>2. \A n \in Nodes : Pipe(n)' \in Seq(Messages)
  <2>1. FlowTyped'
    BY FlowTypes, PTL
  <2> QED
    BY <2>1 DEF FlowTyped
<1>3. ASSUME NEW n \in Nodes
      PROVE  /\ PipeOK(Pipe(n)', n, View)
             /\ Done(n)' \/ Done(Peer(n))' \/
                   \A x \in Transfers :
                      Covered(Pipe(n), x, View) => Covered(Pipe(n)', x, View)
  <2>1. PipeOK(Pipe(n), n, View)
    BY DEF FlowInv
  <2>2. CASE Pipe(n)' = Pipe(n)
    BY <2>1, <2>2
  <2>3. ASSUME NEW msg \in Messages, msg.type \notin {"segment", "ack"},
               Pipe(n)' = Append(Pipe(n), msg)
        PROVE  /\ PipeOK(Pipe(n)', n, View)
               /\ \A x \in Transfers :
                     Covered(Pipe(n), x, View) => Covered(Pipe(n)', x, View)
    BY <2>1, <2>3, <1>1, AppendOther
  <2>4. CASE /\ Pipe(n) # <<>> /\ Head(Pipe(n)).type # "segment"
             /\ Pipe(n)' = Tail(Pipe(n))
    BY <2>1, <2>4, <1>1, TailOther
  <2>5. CASE /\ Done(n)' \/ Done(Peer(n))'
             /\ \E t \in Seq(Messages) : Pipe(n) = Pipe(n)' \o t
    BY <2>1, <2>5, <1>2, PrefixOK
  <2> QED
    BY <2>2, <2>3, <2>4, <2>5 DEF PipeKept
<1>4. \A x \in Transfers : Started(x)' = Started(x)
  <2>1. \A x \in Transfers : View[x].on = Started(x) /\ View'[x].on = Started(x)'
    BY DEF View
  <2> QED
    BY <2>1
<1>5. ASSUME NEW x \in Transfers,
             Started(x)' /\ ~Done(Owner[x])' /\ ~Done(To(x))'
      PROVE  Covered(Pipe(Owner[x])', x, View)
  <2>1. Owner[x] \in Nodes /\ To(x) \in Nodes
    BY TcpclAssumption, PeerPeer DEF To
  <2>2. Covered(Pipe(Owner[x]), x, View)
    BY <2>1, <1>4, <1>5 DEF FlowInv
  <2> QED
    BY <2>1, <2>2, <1>3, <1>5 DEF To
<1> QED
  BY <1>3, <1>5 DEF FlowInv

\* A step of n leaves the variables of its peer alone.
PeerAlone(n) ==
    LET m == Peer(n)
    IN /\ exIn'[m] = exIn[m] /\ exOut'[m] = exOut[m] /\ stage'[m] = stage[m]
       /\ held'[m] = held[m] /\ client'[m] = client[m]

LEMMA PeerKept ==
    ASSUME NEW n \in Nodes, PeerAlone(n)
    PROVE  /\ Read(Peer(n))' = Read(Peer(n))
           /\ Unsent(Peer(n))' = Unsent(Peer(n))
           /\ Done(Peer(n))' = Done(Peer(n))
BY DEF PeerAlone, Read, Unsent, Done, HeldIn, HeldOut

\* What a step of n does to what it sends.
LEMMA OutStep ==
    ASSUME Typed, Typed', NEW n \in Nodes, PeerAlone(n),
           \/ Done(Peer(n))
           \/ Outgoing(n)' = Outgoing(n)
           \/ \E msg \in Messages : /\ msg.type \notin {"segment", "ack"}
                                    /\ Outgoing(n)' = Append(Outgoing(n), msg)
           \/ /\ Done(n)'
              /\ \E t \in Seq(Messages) : Outgoing(n) = Outgoing(n)' \o t
    PROVE  PipeKept(n)
<1> DEFINE m == Peer(n)
           a == Read(m)
           q == Outgoing(n)
<1>1. m \in Nodes /\ a \in Seq(Messages) /\ q \in Seq(Messages)
  BY PeerPeer, FlowTypes DEF FlowTyped
<1>2. q' \in Seq(Messages)
  <2>1. FlowTyped'
    BY FlowTypes, PTL
  <2> QED
    BY <2>1 DEF FlowTyped
<1>3. a' = a /\ Done(m)' = Done(m)
  BY PeerKept
<1>4. Pipe(n) = a \o (IF Done(m) THEN <<>> ELSE q)
  BY DEF Pipe
<1>5. Pipe(n)' = a \o (IF Done(m) THEN <<>> ELSE q')
  BY <1>3 DEF Pipe
<1>6. CASE Done(m) \/ q' = q
  BY <1>4, <1>5, <1>6 DEF PipeKept
<1>7. ASSUME ~Done(m), NEW msg \in Messages, msg.type \notin {"segment", "ack"},
             q' = Append(q, msg)
      PROVE  PipeKept(n)
  <2>1. a \o Append(q, msg) = Append(a \o q, msg)
    BY <1>1, SeqAlgebra
  <2>2. Pipe(n)' = Append(Pipe(n), msg)
    BY <2>1, <1>4, <1>5, <1>7
  <2> QED
    BY <2>2, <1>7 DEF PipeKept
<1>8. ASSUME ~Done(m), Done(n)', NEW t \in Seq(Messages), q = q' \o t
      PROVE  PipeKept(n)
  <2>1. a \o (q' \o t) = (a \o q') \o t
    BY <1>1, <1>2, Concat3
  <2>2. Pipe(n) = Pipe(n)' \o t
    BY <2>1, <1>4, <1>5, <1>8
  <2> QED
    BY <2>2, <1>8 DEF PipeKept
<1> QED
  BY <1>6, <1>7, <1>8

\* What a step of n does to what it receives.
LEMMA InStep ==
    ASSUME Typed, Typed', NEW n \in Nodes, PeerAlone(n),
           LET m == Peer(n)
           IN \/ Done(n)' /\ Read(n)' = Read(n)
              \/ /\ ~Done(n) /\ ~Done(n)'
                 /\ \/ Read(n)' \o wire'[m] = Read(n) \o wire[m]
                    \/ /\ Read(n) = <<>> /\ Read(n)' = <<>> /\ wire[m] # <<>>
                       /\ Head(wire[m]).type \notin {"segment", "ack"}
                       /\ wire'[m] = Tail(wire[m])
    PROVE  PipeKept(Peer(n))
<1> DEFINE m == Peer(n)
           a == Read(n)
           u == Unsent(m)
<1>1. /\ m \in Nodes /\ Peer(m) = n /\ a \in Seq(Messages) /\ u \in Seq(Messages)
      /\ wire[m] \in Seq(Messages) /\ Outgoing(m) = wire[m] \o u
      /\ Outgoing(m) \in Seq(Messages)
  BY PeerPeer, FlowTypes DEF FlowTyped, Outgoing
<1>2. a' \in Seq(Messages) /\ wire'[m] \in Seq(Messages)
  <2>1. FlowTyped'
    BY FlowTypes, PTL
  <2> QED
    BY <2>1, <1>1 DEF FlowTyped
<1>3. u' = u /\ Outgoing(m)' = wire'[m] \o u
  BY PeerKept DEF Outgoing
<1>4. Pipe(m) = a \o (IF Done(n) THEN <<>> ELSE wire[m] \o u)
  BY <1>1 DEF Pipe
<1>5. Pipe(m)' = a' \o (IF Done(n)' THEN <<>> ELSE wire'[m] \o u)
  BY <1>1, <1>3 DEF Pipe
<1>6. CASE Done(n)' /\ a' = a
  <2>1. Pipe(m)' = a
    BY <1>5, <1>6, <1>1, ConcatEmptySeq
  <2>2. \E t \in Seq(Messages) : Pipe(m) = a \o t
    BY <1>4, <1>1, EmptySeq
  <2> QED
    BY <1>1, <1>6, <2>1, <2>2 DEF PipeKept
<1>7. CASE ~Done(n) /\ ~Done(n)' /\ a' \o wire'[m] = a \o wire[m]
  <2>1. Pipe(m)' = (a' \o wire'[m]) \o u
    BY <1>1, <1>2, <1>5, <1>7, Concat3
  <2>2. Pipe(m) = (a \o wire[m]) \o u
    BY <1>1, <1>4, <1>7, Concat3
  <2> QED
    BY <1>7, <2>1, <2>2 DEF PipeKept
<1>8. CASE /\ ~Done(n) /\ ~Done(n)' /\ a = <<>> /\ a' = <<>> /\ wire[m] # <<>>
           /\ Head(wire[m]).type \notin {"segment", "ack"}
           /\ wire'[m] = Tail(wire[m])
  <2>1. Pipe(m) = wire[m] \o u
    BY <1>1, <1>4, <1>8, ConcatEmptySeq
  <2>2. Pipe(m)' = Tail(wire[m]) \o u
    <3>1. Tail(wire[m]) \o u \in Seq(Messages)
      BY <1>1, <1>2, <1>8, ConcatProperties
    <3> QED
      BY <3>1, <1>5, <1>8, ConcatEmptySeq
  <2>3. /\ Pipe(m) # <<>> /\ Head(Pipe(m)) = Head(wire[m])
        /\ Tail(Pipe(m)) = Tail(wire[m]) \o u
    BY <2>1, <1>1, <1>8, TailFront
  <2> QED
    BY <2>2, <2>3, <1>8 DEF PipeKept
<1> QED
  BY <1>6, <1>7, <1>8

-----------------------------------------------------------------------------
(* The stages.                                                             *)

LEMMA WireOK ==
    ASSUME NEW n, NEW s \in Seq(Messages), InitsOK(s, n)
    PROVE  /\ \A msg \in Messages :
                 (msg.type = "init" => msg.mru = Mru[n])
                    => InitsOK(Append(s, msg), n)
           /\ s # <<>> => /\ InitsOK(Tail(s), n)
                          /\ Head(s) \in Messages /\ Tail(s) \in Seq(Messages)
                          /\ Head(s).type = "init" => Head(s).mru = Mru[n]
           /\ \A k \in 0..Len(s) : InitsOK(SubSeq(s, 1, k), n)
<1>1. ASSUME NEW msg \in Messages, msg.type = "init" => msg.mru = Mru[n]
      PROVE  InitsOK(Append(s, msg), n)
  BY <1>1, AppendProperties, LenProperties DEF InitsOK
<1>2. ASSUME s # <<>>
      PROVE  /\ InitsOK(Tail(s), n)
             /\ Head(s) \in Messages /\ Tail(s) \in Seq(Messages)
             /\ Head(s).type = "init" => Head(s).mru = Mru[n]
  <2>1. /\ Head(s) \in Messages /\ Tail(s) \in Seq(Messages) /\ Head(s) = s[1]
        /\ Len(Tail(s)) = Len(s) - 1 /\ Len(s) \in Nat /\ Len(s) >= 1
        /\ \A i \in 1..Len(Tail(s)) : Tail(s)[i] = s[i + 1]
    BY <1>2, HeadTailProperties, LenProperties
  <2> QED
    BY <2>1 DEF InitsOK
<1>3. ASSUME NEW k \in 0..Len(s) PROVE InitsOK(SubSeq(s, 1, k), n)
  <2>1. /\ Len(s) \in Nat /\ Len(SubSeq(s, 1, k)) = k
        /\ \A i \in 1..k : SubSeq(s, 1, k)[i] = s[i]
    BY PrefixSuffix, LenProperties
  <2> QED
    BY <2>1 DEF InitsOK
<1> QED
  BY <1>1, <1>2, <1>3

\* StageInv(n) does not depend on the variables of other nodes.
LEMMA StageFrame ==
    ASSUME NEW n \in Nodes, StageInv(n),
           stage'[n] = stage[n], client'[n] = client[n], exIn'[n] = exIn[n],
           exOut'[n] = exOut[n], tm'[n] = tm[n], nextId'[n] = nextId[n],
           mtu'[n] = mtu[n], held'[n] = held[n], InitsOK(wire'[n], n)
    PROVE  StageInv(n)'
BY DEF StageInv

LEMMA TransmitTyped ==
    ASSUME Typed, NEW n \in Nodes, NEW msg \in Messages, Transmit(n, msg),
           msg.type = "init" => msg.mru = Mru[n]
    PROVE  /\ wire' \in [Nodes -> Seq(Messages)]
           /\ wire'[Peer(n)] = wire[Peer(n)]
           /\ wire'[n] = IF client[Peer(n)] = "down" THEN wire[n]
                         ELSE Append(wire[n], msg)
           /\ \A k \in Nodes : InitsOK(wire'[k], k)
           /\ client[n] # "down"
<1>1. /\ wire \in [Nodes -> Seq(Messages)] /\ Peer(n) \in Nodes /\ Peer(n) # n
      /\ \A k \in Nodes : InitsOK(wire[k], k)
  BY PeerPeer DEF Typed, TypeOK, StageInv
<1>2. Append(wire[n], msg) \in Seq(Messages) /\ InitsOK(Append(wire[n], msg), n)
  BY <1>1, WireOK, AppendProperties
<1>3. /\ wire' = [wire EXCEPT ![n] = IF client[Peer(n)] = "down" THEN wire[n]
                                     ELSE Append(wire[n], msg)]
      /\ client[n] # "down"
  BY DEF Transmit, CanTransmit
<1> QED
  BY <1>1, <1>2, <1>3

LEMMA TakeTyped ==
    ASSUME Typed, NEW m \in Nodes, wire[m] # <<>>,
           wire' = [wire EXCEPT ![m] = Tail(wire[m])]
    PROVE  /\ wire' \in [Nodes -> Seq(Messages)]
           /\ wire'[m] = Tail(wire[m])
           /\ \A k \in Nodes : InitsOK(wire'[k], k)
           /\ Head(wire[m]) \in Messages
           /\ Head(wire[m]).type = "init" => Head(wire[m]).mru = Mru[m]
<1>1. /\ wire \in [Nodes -> Seq(Messages)]
      /\ \A k \in Nodes : InitsOK(wire[k], k)
  BY DEF Typed, TypeOK, StageInv
<1>2. /\ Tail(wire[m]) \in Seq(Messages) /\ InitsOK(Tail(wire[m]), m)
      /\ Head(wire[m]) \in Messages
      /\ Head(wire[m]).type = "init" => Head(wire[m]).mru = Mru[m]
  BY <1>1, WireOK
<1> QED
  BY <1>1, <1>2

LEMMA SendHandshakeTyped ==
    ASSUME Typed, NEW n \in Nodes, SendHandshake(n)
    PROVE  Typed'
<1> DEFINE msg == IF stage[n] = "sendContact" THEN [type |-> "contact"]
                  ELSE [type |-> "init", mru |-> Mru[n]]
<1>1. msg \in Messages /\ (msg.type = "init" => msg.mru = Mru[n])
  BY TcpclAssumption DEF Messages, Handshake
<1>2. Transmit(n, msg)
  BY DEF SendHandshake
<1> HIDE DEF msg
<1>3. /\ wire' \in [Nodes -> Seq(Messages)]
      /\ \A k \in Nodes : InitsOK(wire'[k], k)
  BY <1>1, <1>2, TransmitTyped
<1>4. /\ stage' = [stage EXCEPT ![n] = AfterSend(n)]
      /\ stage[n] \in {"sendContact", "sendInit"}
      /\ UNCHANGED <<held, mtu, exIn, exOut, tmVars, nextId, send, client,
                     asked, delivered>>
  BY DEF SendHandshake
<1>5. /\ AfterSend(n) \in {"recvContact", "recvInit", "ready"}
      /\ AfterSend(n) = "ready" => n = Passive /\ stage[n] = "sendInit"
  BY <1>4, TcpclAssumption DEF AfterSend, Nodes
<1>6. TypeOK'
  BY <1>3, <1>4, <1>5 DEF Typed, TypeOK, Stages, tmVars
<1>7. ASSUME NEW k \in Nodes PROVE StageInv(k)'
  <2>1. StageInv(k) /\ stage \in [Nodes -> Stages]
    BY DEF Typed, TypeOK
  <2>2. CASE k # n
    <3>1. stage'[k] = stage[k]
      BY <2>1, <2>2, <1>4
    <3> QED
      BY <2>1, <3>1, <1>3, <1>4, StageFrame DEF tmVars
  <2>3. CASE k = n
    <3>1. stage'[k] = AfterSend(n)
      BY <2>1, <2>3, <1>4
    <3> QED
      BY <2>1, <2>3, <3>1, <1>3, <1>4, <1>5 DEF StageInv, tmVars
  <2> QED
    BY <2>2, <2>3
<1> QED
  BY <1>6, <1>7 DEF Typed

LEMMA ReceiveHandshakeTyped ==
    ASSUME Typed, NEW n \in Nodes, ReceiveHandshake(n)
    PROVE  Typed'
<1> DEFINE m == Peer(n)
           msg == Head(wire[m])
           awaited == IF stage[n] = "recvContact" THEN "contact" ELSE "init"
           next == IF msg.type = awaited THEN AfterReceive(n) ELSE "error"
<1>1. /\ stage[n] \in {"recvContact", "recvInit"} /\ wire[m] # <<>>
      /\ stage' = [stage EXCEPT ![n] = next]
      /\ mtu' = IF msg.type = awaited /\ awaited = "init"
                THEN [mtu EXCEPT ![n] = msg.mru] ELSE mtu
      /\ wire' = [wire EXCEPT ![m] = Tail(wire[m])]
      /\ UNCHANGED <<held, exIn, exOut, tmVars, nextId, send, client, asked,
                     delivered>>
  BY DEF ReceiveHandshake
<1>2. m \in Nodes /\ m # n
  BY PeerPeer
<1>3. /\ wire' \in [Nodes -> Seq(Messages)]
      /\ \A k \in Nodes : InitsOK(wire'[k], k)
      /\ msg \in Messages /\ (msg.type = "init" => msg.mru = Mru[m])
  BY <1>1, <1>2, TakeTyped
<1>4. next \in {"sendInit", "sendContact", "ready", "error"}
  BY DEF AfterReceive
<1>5. next = "ready" \/ (n = Passive /\ next = "sendInit")
        => msg.type = awaited /\ awaited = "init"
  BY <1>1, TcpclAssumption DEF AfterReceive
<1>6. msg.type = awaited /\ awaited = "init" => msg.mru = Mru[m]
  BY <1>3
<1> HIDE DEF m, msg, awaited, next
<1>7. TypeOK'
  <2>1. Mru[m] \in Nat
    BY <1>2, TcpclAssumption
  <2> QED
    BY <1>1, <1>3, <1>4, <1>6, <2>1 DEF Typed, TypeOK, Stages, tmVars
<1>8. ASSUME NEW k \in Nodes PROVE StageInv(k)'
  <2>1. /\ StageInv(k) /\ stage \in [Nodes -> Stages] /\ mtu \in [Nodes -> Nat]
    BY DEF Typed, TypeOK
  <2>2. CASE k # n
    <3>1. stage'[k] = stage[k] /\ mtu'[k] = mtu[k]
      BY <2>1, <2>2, <1>1
    <3> QED
      BY <2>1, <3>1, <1>3, <1>1, StageFrame DEF tmVars
  <2>3. CASE k = n
    <3>1. stage'[n] = next /\ client[n] = "starting"
      BY <2>1, <2>3, <1>1 DEF StageInv
    <3>2. next = "ready" \/ (n = Passive /\ next = "sendInit") => mtu'[n] = Mru[m]
      BY <2>1, <1>1, <1>5, <1>6
    <3>3. /\ client'[n] = "starting" /\ exIn'[n] = <<>> /\ exOut'[n] = <<>>
          /\ tm'[n] = "none" /\ nextId'[n] = 0 /\ InitsOK(wire'[n], n)
      BY <2>1, <2>3, <3>1, <1>1, <1>3 DEF StageInv, tmVars
    <3>4. stage'[n] \notin {"select", "in", "out"}
      BY <3>1, <1>4
    <3>5. <<>> \in Seq(Exchanged) /\ m = Peer(n)
      BY DEF m
    <3>6. stage'[n] = "ready" \/ (n = Passive /\ stage'[n] = "sendInit")
             => mtu'[n] = Mru[Peer(n)]
      BY <3>1, <3>2, <3>5
    <3>7. exIn'[n] \in Seq(Exchanged) /\ exOut'[n] \in Seq(Exchanged)
      BY <3>3, <3>5
    <3>8. (\/ client'[n] # "starting" \/ stage'[n] = "ready"
           \/ n = Passive /\ stage'[n] = "sendInit") => mtu'[n] = Mru[Peer(n)]
      BY <3>3, <3>6
    <3>9. StageInv(n)'
      BY <3>3, <3>4, <3>7, <3>8 DEF StageInv
    <3> QED
      BY <2>3, <3>9
  <2> QED
    BY <2>2, <2>3
<1> QED
  BY <1>7, <1>8 DEF Typed

LEMMA LateStage ==
    ASSUME Typed, NEW n \in Nodes, client[n] # "starting",
           client'[n] # "starting", mtu'[n] = mtu[n],
           stage'[n] \in {"select", "in", "out"} \cup Dead,
           stage'[n] \in {"in", "out"} => held'[n] \in Exchanged,
           exIn'[n] \in Seq(Exchanged), exOut'[n] \in Seq(Exchanged),
           InitsOK(wire'[n], n)
    PROVE  StageInv(n)'
BY DEF Typed, StageInv, Dead

LEMMA DeadStage ==
    ASSUME Typed, NEW n \in Nodes, stage'[n] \in Dead,
           client'[n] = client[n], exIn'[n] = exIn[n], exOut'[n] = exOut[n],
           tm'[n] = tm[n], nextId'[n] = nextId[n], mtu'[n] = mtu[n],
           InitsOK(wire'[n], n)
    PROVE  StageInv(n)'
BY DEF Typed, StageInv, Dead

LEMMA StartTyped ==
    ASSUME Typed, NEW n \in Nodes, Start(n)
    PROVE  Typed'
<1>1. TypeOK'
  BY DEF Typed, TypeOK, Start, Stages
<1>2. ASSUME NEW k \in Nodes PROVE StageInv(k)'
  <2>1. /\ StageInv(k) /\ stage \in [Nodes -> Stages]
        /\ client \in [Nodes -> {"starting", "up", "closing", "down"}]
        /\ tm \in [Nodes -> {"none", "run", "feedback", "ack", "deliver",
                             "error", "gone"}]
    BY DEF Typed, TypeOK
  <2>2. CASE k # n
    BY <2>1, <2>2, StageFrame DEF Start, StageInv
  <2>3. CASE k = n
    BY <2>1, <2>3 DEF Start, StageInv
  <2> QED
    BY <2>2, <2>3
<1> QED
  BY <1>1, <1>2 DEF Typed

LEMMA HandleMsgInTyped ==
    ASSUME Typed, NEW n \in Nodes, HandleMsgIn(n)
    PROVE  Typed'
<1> DEFINE m == Peer(n)
           msg == Head(wire[m])
<1>1. /\ stage[n] = "select" /\ wire[m] # <<>>
      /\ wire' = [wire EXCEPT ![m] = Tail(wire[m])]
      /\ UNCHANGED <<mtu, exOut, tmVars, nextId, send, client, asked, delivered>>
  BY DEF HandleMsgIn
<1>2. \/ /\ stage' = [stage EXCEPT ![n] =
                        IF msg.type = "term" THEN "term" ELSE "error"]
         /\ UNCHANGED <<held, exIn>>
      \/ /\ exIn' = [exIn EXCEPT ![n] = Append(exIn[n], msg)]
         /\ msg.type \in {"segment", "ack"}
         /\ UNCHANGED <<stage, held>>
      \/ /\ stage' = [stage EXCEPT ![n] = "in"]
         /\ held' = [held EXCEPT ![n] = msg]
         /\ msg.type \in {"segment", "ack"}
         /\ UNCHANGED exIn
  BY DEF HandleMsgIn
<1>3. m \in Nodes /\ m # n
  BY PeerPeer
<1>4. /\ wire' \in [Nodes -> Seq(Messages)]
      /\ \A k \in Nodes : InitsOK(wire'[k], k)
      /\ msg \in Messages
  BY <1>1, <1>3, TakeTyped
<1>5. msg.type \in {"segment", "ack"} => msg \in Exchanged
  BY <1>4, MessageTypes
<1>6. StageInv(n) /\ client[n] # "starting" /\ exIn[n] \in Seq(Exchanged)
  BY <1>1 DEF Typed, StageInv
<1>7. msg \in Exchanged => Append(exIn[n], msg) \in Seq(Exchanged)
  BY <1>6, AppendProperties
<1> HIDE DEF m, msg
<1>8. TypeOK'
  <2>1. msg \in Exchanged => Append(exIn[n], msg) \in Seq(Messages)
    BY <1>7, MessageTypes, SeqMonotonic
  <2>2. /\ stage \in [Nodes -> Stages] /\ exIn \in [Nodes -> Seq(Messages)]
        /\ held \in [Nodes -> Messages \cup {None}]
    BY DEF Typed, TypeOK
  <2>3. stage' \in [Nodes -> Stages]
    BY <2>2, <1>2 DEF Stages
  <2>4. held' \in [Nodes -> Messages \cup {None}]
    BY <2>2, <1>2, <1>4
  <2>5. exIn' \in [Nodes -> Seq(Messages)]
    BY <2>1, <2>2, <1>2, <1>5
  <2> QED
    BY <1>1, <1>4, <2>3, <2>4, <2>5 DEF Typed, TypeOK, tmVars
<1>9. ASSUME NEW k \in Nodes PROVE StageInv(k)'
  <2>1. /\ StageInv(k) /\ stage \in [Nodes -> Stages]
        /\ held \in [Nodes -> Messages \cup {None}]
        /\ exIn \in [Nodes -> Seq(Messages)]
    BY DEF Typed, TypeOK
  <2>2. CASE k # n
    <3>1. stage'[k] = stage[k] /\ held'[k] = held[k] /\ exIn'[k] = exIn[k]
      BY <2>1, <2>2, <1>2
    <3> QED
      BY <2>1, <3>1, <1>1, <1>4, StageFrame DEF tmVars
  <2>3. CASE k = n
    <3>1. /\ stage'[n] \in {"select", "in"} \cup Dead
          /\ stage'[n] = "in" => held'[n] \in Exchanged
      BY <2>1, <1>1, <1>2, <1>5 DEF Dead
    <3>2. exIn'[n] \in Seq(Exchanged)
      BY <2>1, <1>2, <1>5, <1>6, <1>7
    <3>3. exOut'[n] \in Seq(Exchanged) /\ client'[n] = client[n] /\ mtu'[n] = mtu[n]
      BY <1>1, <1>6 DEF StageInv
    <3>4. stage'[n] \in {"select", "in", "out"} \cup Dead
      BY <3>1
    <3>5. stage'[n] # "out"
      BY <3>1 DEF Dead
    <3>6. StageInv(n)'
      BY <3>1, <3>2, <3>3, <3>4, <3>5, <1>4, <1>6, LateStage
    <3> QED
      BY <2>3, <3>6
  <2> QED
    BY <2>2, <2>3
<1> QED
  BY <1>8, <1>9 DEF Typed

LEMMA PassInTyped ==
    ASSUME Typed, NEW n \in Nodes, PassIn(n)
    PROVE  Typed'
<1>1. /\ stage[n] = "in" /\ stage' = [stage EXCEPT ![n] = "select"]
      /\ exIn' = [exIn EXCEPT ![n] = Append(exIn[n], held[n])]
      /\ held' = [held EXCEPT ![n] = None]
      /\ UNCHANGED <<mtu, wire, exOut, tmVars, nextId, send, client, asked,
                     delivered>>
  BY DEF PassIn
<1>2. /\ client[n] # "starting" /\ exIn[n] \in Seq(Exchanged)
      /\ exOut[n] \in Seq(Exchanged) /\ held[n] \in Exchanged
  BY <1>1 DEF Typed, StageInv
<1>3. Append(exIn[n], held[n]) \in Seq(Exchanged)
  BY <1>2, AppendProperties
<1>4. Append(exIn[n], held[n]) \in Seq(Messages)
  BY <1>3, MessageTypes, SeqMonotonic
<1>5. TypeOK'
  BY <1>1, <1>4 DEF Typed, TypeOK, Stages, tmVars
<1>6. ASSUME NEW k \in Nodes PROVE StageInv(k)'
  <2>1. /\ StageInv(k) /\ stage \in [Nodes -> Stages] /\ InitsOK(wire'[k], k)
        /\ held \in [Nodes -> Messages \cup {None}]
        /\ exIn \in [Nodes -> Seq(Messages)]
    BY <1>1 DEF Typed, TypeOK, StageInv
  <2>2. CASE k # n
    <3>1. stage'[k] = stage[k] /\ held'[k] = held[k] /\ exIn'[k] = exIn[k]
      BY <2>1, <2>2, <1>1
    <3> QED
      BY <2>1, <3>1, <1>1, StageFrame DEF tmVars
  <2>3. CASE k = n
    <3>1. stage'[n] = "select" /\ exIn'[n] \in Seq(Exchanged)
      BY <2>1, <1>1, <1>3
    <3> QED
      BY <2>1, <2>3, <3>1, <1>1, <1>2, LateStage
  <2> QED
    BY <2>2, <2>3
<1> QED
  BY <1>5, <1>6 DEF Typed

LEMMA MessageOutTyped ==
    ASSUME Typed, NEW n \in Nodes, MessageOut(n)
    PROVE  Typed'
<1> DEFINE msg == Head(exOut[n])
<1>1. /\ stage[n] = "select" /\ exOut[n] # <<>>
      /\ exOut' = [exOut EXCEPT ![n] = Tail(exOut[n])]
      /\ UNCHANGED <<mtu, exIn, tmVars, nextId, send, client, asked, delivered>>
      /\ \/ Transmit(n, msg) /\ UNCHANGED <<stage, held>>
         \/ /\ held' = [held EXCEPT ![n] = msg]
            /\ stage' = [stage EXCEPT ![n] = "out"]
            /\ UNCHANGED wire
  BY DEF MessageOut
<1>2. /\ client[n] # "starting" /\ exIn[n] \in Seq(Exchanged)
      /\ exOut[n] \in Seq(Exchanged)
  BY <1>1 DEF Typed, StageInv
<1>3. msg \in Exchanged /\ Tail(exOut[n]) \in Seq(Exchanged)
  BY <1>1, <1>2, HeadTailProperties
<1>4. msg \in Messages /\ msg.type # "init" /\ Tail(exOut[n]) \in Seq(Messages)
  <2>1. msg \in Messages
    BY <1>3, MessageTypes
  <2>2. msg.type # "init"
    BY <2>1, <1>3, MessageTypes
  <2> QED
    BY <2>1, <2>2, <1>3, MessageTypes, SeqMonotonic
<1> HIDE DEF msg
<1>5. /\ wire' \in [Nodes -> Seq(Messages)]
      /\ \A k \in Nodes : InitsOK(wire'[k], k)
  <2>1. CASE Transmit(n, msg)
    BY <2>1, <1>4, TransmitTyped
  <2>2. CASE UNCHANGED wire
    BY <2>2 DEF Typed, TypeOK, StageInv
  <2> QED
    BY <2>1, <2>2, <1>1
<1>6. TypeOK'
  <2>1. /\ stage \in [Nodes -> Stages] /\ exOut \in [Nodes -> Seq(Messages)]
        /\ held \in [Nodes -> Messages \cup {None}]
    BY DEF Typed, TypeOK
  <2>2. /\ stage' \in [Nodes -> Stages] /\ exOut' \in [Nodes -> Seq(Messages)]
        /\ held' \in [Nodes -> Messages \cup {None}]
    BY <2>1, <1>1, <1>4 DEF Stages
  <2> QED
    BY <1>1, <1>5, <2>2 DEF Typed, TypeOK, tmVars
<1>7. ASSUME NEW k \in Nodes PROVE StageInv(k)'
  <2>1. /\ StageInv(k) /\ stage \in [Nodes -> Stages]
        /\ held \in [Nodes -> Messages \cup {None}]
        /\ exOut \in [Nodes -> Seq(Messages)]
    BY DEF Typed, TypeOK
  <2>2. CASE k # n
    <3>1. stage'[k] = stage[k] /\ held'[k] = held[k] /\ exOut'[k] = exOut[k]
      BY <2>1, <2>2, <1>1
    <3> QED
      BY <2>1, <3>1, <1>1, <1>5, StageFrame DEF tmVars
  <2>3. CASE k = n
    <3>1. /\ stage'[n] \in {"select", "out"} /\ exOut'[n] \in Seq(Exchanged)
          /\ stage'[n] = "out" => held'[n] \in Exchanged
      BY <2>1, <1>1, <1>3
    <3> QED
      BY <2>3, <3>1, <1>1, <1>2, <1>5, LateStage
  <2> QED
    BY <2>2, <2>3
<1> QED
  BY <1>6, <1>7 DEF Typed

LEMMA PassOutTyped ==
    ASSUME Typed, NEW n \in Nodes, PassOut(n)
    PROVE  Typed'
<1>1. /\ stage[n] = "out" /\ stage' = [stage EXCEPT ![n] = "select"]
      /\ held' = [held EXCEPT ![n] = None] /\ Transmit(n, held[n])
      /\ UNCHANGED <<mtu, exIn, exOut, tmVars, nextId, send, client, asked,
                     delivered>>
  BY DEF PassOut
<1>2. /\ client[n] # "starting" /\ exIn[n] \in Seq(Exchanged)
      /\ exOut[n] \in Seq(Exchanged) /\ held[n] \in Exchanged
  BY <1>1 DEF Typed, StageInv
<1>3. held[n] \in Messages /\ held[n].type # "init"
  <2>1. held[n] \in Messages
    BY <1>2, MessageTypes
  <2> QED
    BY <2>1, <1>2, MessageTypes
<1>4. /\ wire' \in [Nodes -> Seq(Messages)]
      /\ \A k \in Nodes : InitsOK(wire'[k], k)
  BY <1>1, <1>3, TransmitTyped
<1>5. TypeOK'
  BY <1>1, <1>4 DEF Typed, TypeOK, Stages, tmVars
<1>6. ASSUME NEW k \in Nodes PROVE StageInv(k)'
  <2>1. /\ StageInv(k) /\ stage \in [Nodes -> Stages]
        /\ held \in [Nodes -> Messages \cup {None}]
    BY DEF Typed, TypeOK
  <2>2. CASE k # n
    <3>1. stage'[k] = stage[k] /\ held'[k] = held[k]
      BY <2>1, <2>2, <1>1
    <3> QED
      BY <2>1, <3>1, <1>1, <1>4, StageFrame DEF tmVars
  <2>3. CASE k = n
    <3>1. stage'[n] = "select"
      BY <2>1, <1>1
    <3> QED
      BY <2>3, <3>1, <1>1, <1>2, <1>4, LateStage
  <2> QED
    BY <2>2, <2>3
<1> QED
  BY <1>5, <1>6 DEF Typed

\* The stage of n ends.
LEMMA EndOfStageTyped ==
    ASSUME Typed, NEW n \in Nodes, NEW st \in Dead,
           stage' = [stage EXCEPT ![n] = st],
           \/ UNCHANGED wire
           \/ Transmit(n, [type |-> "term"]),
           UNCHANGED <<held, mtu, exIn, exOut, tmVars, nextId, send, client,
                       asked, delivered>>
    PROVE  Typed'
<1>1. /\ wire' \in [Nodes -> Seq(Messages)]
      /\ \A k \in Nodes : InitsOK(wire'[k], k)
  <2>1. CASE Transmit(n, [type |-> "term"])
    <3>1. [type |-> "term"] \in Messages /\ [type |-> "term"].type # "init"
      BY DEF Messages
    <3> QED
      BY <2>1, <3>1, TransmitTyped
  <2>2. CASE UNCHANGED wire
    BY <2>2 DEF Typed, TypeOK, StageInv
  <2> QED
    BY <2>1, <2>2
<1>2. TypeOK'
  BY <1>1 DEF Typed, TypeOK, Stages, tmVars, Dead
<1>3. ASSUME NEW k \in Nodes PROVE StageInv(k)'
  <2>1. StageInv(k) /\ stage \in [Nodes -> Stages]
    BY DEF Typed, TypeOK
  <2>2. CASE k # n
    <3>1. stage'[k] = stage[k]
      BY <2>1, <2>2
    <3> QED
      BY <2>1, <3>1, <1>1, StageFrame DEF tmVars
  <2>3. CASE k = n
    <3>1. stage'[n] \in Dead
      BY <2>1
    <3> QED
      BY <2>3, <3>1, <1>1, DeadStage DEF tmVars
  <2> QED
    BY <2>2, <2>3
<1> QED
  BY <1>2, <1>3 DEF Typed

\* The Client of n is closed.
LEMMA ClientTyped ==
    ASSUME Typed, NEW n \in Nodes, Close(n) \/ Shutdown(n) \/ Disconnect(n)
    PROVE  Typed'
<1>1. PICK c \in {"closing", "down"} :
         /\ client' = [client EXCEPT ![n] = c] /\ client[n] # "starting"
         /\ asked' \in SUBSET Nodes
         /\ UNCHANGED <<stage, held, mtu, exIn, exOut, tmVars, nextId, send,
                        delivered>>
  BY DEF Close, Shutdown, Disconnect, Typed, TypeOK, stageVars
<1>2. /\ wire' \in [Nodes -> Seq(Messages)]
      /\ \A k \in Nodes : InitsOK(wire'[k], k)
  <2>1. /\ wire \in [Nodes -> Seq(Messages)] /\ Peer(n) \in Nodes /\ Peer(n) # n
        /\ \A k \in Nodes : InitsOK(wire[k], k)
    BY PeerPeer DEF Typed, TypeOK, StageInv
  <2>2. CASE UNCHANGED wire
    BY <2>1, <2>2
  <2>3. CASE Disconnect(n)
    <3>1. PICK i \in 0..Len(wire[n]) :
             wire' = [wire EXCEPT ![n] = SubSeq(wire[n], 1, i),
                                  ![Peer(n)] = <<>>]
      BY <2>3 DEF Disconnect
    <3>2. /\ SubSeq(wire[n], 1, i) \in Seq(Messages)
          /\ InitsOK(SubSeq(wire[n], 1, i), n)
      BY <2>1, WireOK, PrefixSuffix
    <3>3. <<>> \in Seq(Messages) /\ InitsOK(<<>>, Peer(n))
      BY DEF InitsOK
    <3> QED
      BY <2>1, <3>1, <3>2, <3>3
  <2> QED
    BY <2>2, <2>3 DEF Close, Shutdown, stageVars
<1>3. TypeOK'
  BY <1>1, <1>2 DEF Typed, TypeOK, tmVars
<1>4. ASSUME NEW k \in Nodes PROVE StageInv(k)'
  <2>1. /\ StageInv(k)
        /\ client \in [Nodes -> {"starting", "up", "closing", "down"}]
    BY DEF Typed, TypeOK
  <2>2. CASE k # n
    <3>1. client'[k] = client[k]
      BY <2>1, <2>2, <1>1
    <3> QED
      BY <2>1, <3>1, <1>1, <1>2, StageFrame DEF tmVars
  <2>3. CASE k = n
    <3>1. client'[n] # "starting"
      BY <2>1, <1>1
    <3> QED
      BY <2>1, <2>3, <3>1, <1>1, <1>2 DEF StageInv
  <2> QED
    BY <2>2, <2>3
<1> QED
  BY <1>3, <1>4 DEF Typed

LEMMA StopTransferManagerTyped ==
    ASSUME Typed, NEW n \in Nodes, StopTransferManager(n)
    PROVE  Typed'
<1>1. TypeOK'
  BY DEF Typed, TypeOK, StopTransferManager, stageVars
<1>2. ASSUME NEW k \in Nodes PROVE StageInv(k)'
  <2>1. StageInv(k) /\ (k = n => client[k] # "starting")
    BY DEF Typed, StopTransferManager, Closed
  <2> QED
    BY <2>1 DEF Typed, TypeOK, StopTransferManager, StageInv, stageVars
<1> QED
  BY <1>1, <1>2 DEF Typed

-----------------------------------------------------------------------------
(* The stages and the pipes.                                               *)

PipesKept == \A n \in Nodes : PipeKept(n) /\ (Done(n) => Done(n)')

\* Both pipes are kept by a step of n.
LEMMA BothKept ==
    ASSUME NEW n \in Nodes, PeerAlone(n), PipeKept(n), PipeKept(Peer(n)),
           Done(n) => Done(n)'
    PROVE  PipesKept
BY PeerPeer, PeerKept DEF PipesKept

LEMMA SendHandshakeKept ==
    ASSUME Typed, Typed', NEW n \in Nodes, SendHandshake(n)
    PROVE  PipesKept
<1> DEFINE m == Peer(n)
           msg == IF stage[n] = "sendContact" THEN [type |-> "contact"]
                  ELSE [type |-> "init", mru |-> Mru[n]]
<1>1. /\ stage[n] \in {"sendContact", "sendInit"} /\ Transmit(n, msg)
      /\ stage' = [stage EXCEPT ![n] = AfterSend(n)]
      /\ UNCHANGED <<held, exIn, exOut, client>>
  BY DEF SendHandshake
<1>2. /\ msg \in Messages /\ msg.type \notin {"segment", "ack"}
      /\ msg.type = "init" => msg.mru = Mru[n]
  BY TcpclAssumption DEF Messages, Handshake
<1> HIDE DEF msg
<1>3. /\ m \in Nodes /\ m # n /\ stage \in [Nodes -> Stages]
      /\ client[n] = "starting" /\ exIn[n] = <<>> /\ exOut[n] = <<>>
  BY <1>1, PeerPeer DEF Typed, TypeOK, StageInv
<1>4. stage'[n] \in {"recvContact", "recvInit", "ready"} /\ PeerAlone(n)
  BY <1>1, <1>3 DEF AfterSend, PeerAlone
<1>5. /\ Read(n)' = Read(n) /\ ~Done(n) /\ ~Done(n)'
      /\ Unsent(n) = <<>> /\ Unsent(n)' = <<>>
  BY <1>1, <1>3, <1>4 DEF Read, Unsent, HeldIn, HeldOut, Done, Dead
<1>6. /\ wire'[m] = wire[m] /\ wire[n] \in Seq(Messages)
      /\ wire'[n] = IF client[m] = "down" THEN wire[n] ELSE Append(wire[n], msg)
  BY <1>1, <1>2, TransmitTyped DEF Typed, TypeOK
<1>7. Outgoing(n) = wire[n] /\ Outgoing(n)' = wire'[n]
  <2>1. wire'[n] \in Seq(Messages)
    BY <1>2, <1>6, AppendProperties
  <2> QED
    BY <1>5, <1>6, <2>1, ConcatEmptySeq DEF Outgoing
<1>8. Done(m) \/ Outgoing(n)' = Append(Outgoing(n), msg)
  BY <1>6, <1>7 DEF Done
<1>9. PipeKept(n)
  BY <1>8, <1>4, <1>2, OutStep
<1>10. PipeKept(m)
  BY <1>4, <1>5, <1>6, InStep
<1> QED
  BY <1>4, <1>5, <1>9, <1>10, BothKept

LEMMA ReceiveHandshakeKept ==
    ASSUME Typed, Typed', NEW n \in Nodes, ReceiveHandshake(n)
    PROVE  PipesKept
<1> DEFINE m == Peer(n)
           msg == Head(wire[m])
           awaited == IF stage[n] = "recvContact" THEN "contact" ELSE "init"
           next == IF msg.type = awaited THEN AfterReceive(n) ELSE "error"
<1>1. /\ stage[n] \in {"recvContact", "recvInit"} /\ wire[m] # <<>>
      /\ stage' = [stage EXCEPT ![n] = next]
      /\ wire' = [wire EXCEPT ![m] = Tail(wire[m])]
      /\ UNCHANGED <<held, exIn, exOut, client>>
  BY DEF ReceiveHandshake
<1>2. /\ next \in {"sendInit", "sendContact", "ready", "error"}
      /\ next # "error" => msg.type \notin {"segment", "ack"}
  BY <1>1 DEF AfterReceive
<1> HIDE DEF msg, next
<1>3. /\ m \in Nodes /\ m # n /\ stage \in [Nodes -> Stages]
      /\ wire \in [Nodes -> Seq(Messages)]
      /\ client[n] = "starting" /\ exIn[n] = <<>> /\ exOut[n] = <<>>
  BY <1>1, PeerPeer DEF Typed, TypeOK, StageInv
<1>4. /\ stage'[n] = next /\ PeerAlone(n) /\ wire'[n] = wire[n]
      /\ wire'[m] = Tail(wire[m])
  BY <1>1, <1>3 DEF PeerAlone
<1>5. /\ Read(n)' = <<>> /\ Read(n) = <<>> /\ ~Done(n)
      /\ Done(n)' <=> next = "error"
      /\ Unsent(n) = <<>> /\ Unsent(n)' = <<>>
  BY <1>1, <1>2, <1>3, <1>4 DEF Read, Unsent, HeldIn, HeldOut, Done, Dead
<1>6. PipeKept(n)
  <2>1. Outgoing(n)' = Outgoing(n)
    BY <1>4, <1>5 DEF Outgoing
  <2> QED
    BY <2>1, <1>4, OutStep
<1>7. PipeKept(m)
  BY <1>1, <1>2, <1>4, <1>5, InStep DEF msg
<1> QED
  BY <1>4, <1>5, <1>6, <1>7, BothKept

LEMMA StartKept ==
    ASSUME Typed, Typed', NEW n \in Nodes, Start(n)
    PROVE  PipesKept
<1> DEFINE m == Peer(n)
<1>1. /\ m \in Nodes /\ m # n /\ stage \in [Nodes -> Stages]
      /\ client \in [Nodes -> {"starting", "up", "closing", "down"}]
  BY PeerPeer DEF Typed, TypeOK
<1>2. /\ stage[n] = "ready" /\ client[n] = "starting"
      /\ stage'[n] = "select" /\ client'[n] = "up" /\ PeerAlone(n)
      /\ UNCHANGED <<wire, held, exIn, exOut>>
  BY <1>1 DEF Start, PeerAlone
<1>3. /\ Read(n)' = Read(n) /\ ~Done(n) /\ ~Done(n)' /\ Outgoing(n)' = Outgoing(n)
  BY <1>2 DEF Read, Outgoing, Unsent, HeldIn, HeldOut, Done, Dead
<1>4. PipeKept(n)
  BY <1>2, <1>3, OutStep
<1>5. PipeKept(m)
  BY <1>2, <1>3, InStep
<1> QED
  BY <1>2, <1>3, <1>4, <1>5, BothKept

LEMMA HandleMsgInKept ==
    ASSUME Typed, Typed', NEW n \in Nodes, HandleMsgIn(n)
    PROVE  PipesKept
<1> DEFINE m == Peer(n)
           msg == Head(wire[m])
<1>1. /\ stage[n] = "select" /\ client[n] # "down" /\ wire[m] # <<>>
      /\ wire' = [wire EXCEPT ![m] = Tail(wire[m])]
      /\ UNCHANGED <<exOut, client>>
  BY DEF HandleMsgIn
<1>2. /\ m \in Nodes /\ m # n /\ stage \in [Nodes -> Stages]
      /\ wire \in [Nodes -> Seq(Messages)] /\ exIn \in [Nodes -> Seq(Messages)]
      /\ held \in [Nodes -> Messages \cup {None}]
      /\ Unsent(n) \in Seq(Messages)
  BY PeerPeer, FlowTypes DEF Typed, TypeOK, FlowTyped
<1>3. wire'[n] = wire[n] /\ wire'[m] = Tail(wire[m])
  BY <1>1, <1>2
<1>4. ~Done(n) /\ HeldIn(n) = <<>> /\ HeldOut(n) = <<>> /\ Read(n) = exIn[n]
  <2>1. ~Done(n) /\ HeldIn(n) = <<>> /\ HeldOut(n) = <<>>
    BY <1>1 DEF Done, HeldIn, HeldOut, Dead
  <2> QED
    BY <2>1, <1>2, ConcatEmptySeq DEF Read
<1>5. msg \in Messages /\ Tail(wire[m]) \in Seq(Messages)
  BY <1>1, <1>2, HeadTailProperties
<1>6. CASE /\ stage' = [stage EXCEPT ![n] =
                          IF msg.type = "term" THEN "term" ELSE "error"]
           /\ UNCHANGED <<held, exIn>>
  <2>1. stage'[n] \in Dead /\ stage'[n] \notin {"in", "out"} /\ PeerAlone(n)
    BY <1>1, <1>2, <1>6 DEF Dead, PeerAlone
  <2>2. Done(n)' /\ HeldIn(n)' = <<>> /\ Unsent(n)' = <<>>
    BY <2>1 DEF Done, HeldIn, Unsent
  <2>3. Read(n)' = Read(n)
    BY <2>2, <1>4, <1>6 DEF Read
  <2>4. Outgoing(n)' = wire[n] /\ Outgoing(n) = wire[n] \o Unsent(n)
    BY <2>2, <1>2, <1>3, ConcatEmptySeq DEF Outgoing
  <2>5. PipeKept(n)
    BY <2>1, <2>2, <2>4, <1>2, OutStep
  <2>6. PipeKept(m)
    BY <2>1, <2>2, <2>3, InStep
  <2> QED
    BY <2>1, <2>2, <2>5, <2>6, BothKept
<1>7. CASE /\ exIn' = [exIn EXCEPT ![n] = Append(exIn[n], msg)]
           /\ UNCHANGED <<stage, held>>
  <2>1. /\ stage'[n] = "select" /\ PeerAlone(n)
        /\ exIn'[n] = Append(exIn[n], msg)
    BY <1>1, <1>2, <1>7 DEF PeerAlone
  <2>2. ~Done(n)' /\ HeldIn(n)' = <<>> /\ HeldOut(n)' = <<>>
    BY <2>1, <1>1 DEF Done, HeldIn, HeldOut, Dead
  <2>3. Read(n)' = Append(exIn[n], msg)
    BY <2>1, <2>2, <1>2, <1>5, SeqAlgebra DEF Read
  <2>4. Read(n)' \o wire'[m] = Read(n) \o wire[m]
    <3>1. exIn[n] \in Seq(Messages) /\ wire[m] \in Seq(Messages)
      BY <1>2
    <3>2. Append(exIn[n], Head(wire[m])) \o Tail(wire[m]) = exIn[n] \o wire[m]
      BY <3>1, <1>1, MoveMessage
    <3> QED
      BY <3>2, <2>3, <1>3, <1>4
  <2>5. Outgoing(n)' = Outgoing(n)
    BY <2>2, <1>1, <1>3, <1>4 DEF Outgoing, Unsent
  <2>6. PipeKept(n)
    BY <2>1, <2>5, OutStep
  <2>7. PipeKept(m)
    BY <2>1, <2>2, <2>4, <1>4, InStep
  <2> QED
    BY <2>1, <2>6, <2>7, <1>4, BothKept
<1>8. CASE /\ stage' = [stage EXCEPT ![n] = "in"]
           /\ held' = [held EXCEPT ![n] = msg]
           /\ UNCHANGED exIn
  <2>1. /\ stage'[n] = "in" /\ held'[n] = msg /\ PeerAlone(n)
    BY <1>1, <1>2, <1>8 DEF PeerAlone
  <2>2. ~Done(n)' /\ HeldIn(n)' = <<msg>> /\ HeldOut(n)' = <<>>
    BY <2>1, <1>1 DEF Done, HeldIn, HeldOut, Dead
  <2>3. Read(n)' = Append(exIn[n], msg)
    BY <2>2, <1>2, <1>5, <1>8, SeqAlgebra DEF Read
  <2>4. Read(n)' \o wire'[m] = Read(n) \o wire[m]
    <3>1. exIn[n] \in Seq(Messages) /\ wire[m] \in Seq(Messages)
      BY <1>2
    <3>2. Append(exIn[n], Head(wire[m])) \o Tail(wire[m]) = exIn[n] \o wire[m]
      BY <3>1, <1>1, MoveMessage
    <3> QED
      BY <3>2, <2>3, <1>3, <1>4
  <2>5. Outgoing(n)' = Outgoing(n)
    BY <2>2, <1>1, <1>3, <1>4 DEF Outgoing, Unsent
  <2>6. PipeKept(n)
    BY <2>1, <2>5, OutStep
  <2>7. PipeKept(m)
    BY <2>1, <2>2, <2>4, <1>4, InStep
  <2> QED
    BY <2>1, <2>6, <2>7, <1>4, BothKept
<1> QED
  BY <1>6, <1>7, <1>8 DEF HandleMsgIn

LEMMA PassInKept ==
    ASSUME Typed, Typed', NEW n \in Nodes, PassIn(n)
    PROVE  PipesKept
<1> DEFINE m == Peer(n)
<1>1. /\ stage[n] = "in" /\ stage' = [stage EXCEPT ![n] = "select"]
      /\ exIn' = [exIn EXCEPT ![n] = Append(exIn[n], held[n])]
      /\ held' = [held EXCEPT ![n] = None]
      /\ UNCHANGED <<wire, exOut, client>>
  BY DEF PassIn
<1>2. /\ m \in Nodes /\ m # n /\ stage \in [Nodes -> Stages]
      /\ exIn \in [Nodes -> Seq(Messages)]
      /\ held \in [Nodes -> Messages \cup {None}]
  BY PeerPeer DEF Typed, TypeOK
<1>3. held[n] \in Messages
  BY <1>1, MessageTypes DEF Typed, StageInv
<1>4. /\ stage'[n] = "select" /\ exIn'[n] = Append(exIn[n], held[n])
      /\ PeerAlone(n)
  BY <1>1, <1>2 DEF PeerAlone
<1>5. /\ Done(n)' = Done(n) /\ HeldOut(n) = <<>> /\ HeldOut(n)' = <<>>
      /\ HeldIn(n) = <<held[n]>> /\ HeldIn(n)' = <<>>
  BY <1>1, <1>4 DEF Done, HeldIn, HeldOut, Dead
<1>6. Read(n)' = Read(n)
  BY <1>2, <1>3, <1>4, <1>5, SeqAlgebra DEF Read
<1>7. Outgoing(n)' = Outgoing(n)
  BY <1>1, <1>5 DEF Outgoing, Unsent
<1>8. PipeKept(n)
  BY <1>4, <1>7, OutStep
<1>9. PipeKept(m)
  BY <1>1, <1>4, <1>5, <1>6, InStep
<1> QED
  BY <1>4, <1>5, <1>8, <1>9, BothKept

LEMMA MessageOutKept ==
    ASSUME Typed, Typed', NEW n \in Nodes, MessageOut(n)
    PROVE  PipesKept
<1> DEFINE m == Peer(n)
           msg == Head(exOut[n])
<1>1. /\ stage[n] = "select" /\ client[n] # "down" /\ exOut[n] # <<>>
      /\ exOut' = [exOut EXCEPT ![n] = Tail(exOut[n])]
      /\ UNCHANGED <<exIn, client>>
      /\ \/ Transmit(n, msg) /\ UNCHANGED <<stage, held>>
         \/ /\ held' = [held EXCEPT ![n] = msg]
            /\ stage' = [stage EXCEPT ![n] = "out"]
            /\ UNCHANGED wire
  BY DEF MessageOut
<1>2. /\ m \in Nodes /\ m # n /\ stage \in [Nodes -> Stages]
      /\ wire \in [Nodes -> Seq(Messages)] /\ exOut \in [Nodes -> Seq(Messages)]
      /\ held \in [Nodes -> Messages \cup {None}]
  BY PeerPeer DEF Typed, TypeOK
<1>3. /\ msg \in Messages /\ Tail(exOut[n]) \in Seq(Messages) /\ msg.type # "init"
  <2>1. exOut[n] \in Seq(Exchanged)
    BY DEF Typed, StageInv
  <2>2. msg \in Exchanged
    BY <2>1, <1>1, HeadTailProperties
  <2>3. msg \in Messages /\ Tail(exOut[n]) \in Seq(Messages)
    BY <1>1, <1>2, HeadTailProperties
  <2> QED
    BY <2>2, <2>3, MessageTypes
<1>4. PeerAlone(n) /\ exOut'[n] = Tail(exOut[n])
  BY <1>1, <1>2 DEF PeerAlone
<1>5. /\ ~Done(n) /\ ~Done(n)' /\ Read(n)' = Read(n) /\ HeldOut(n) = <<>>
  <2>1. stage'[n] \in {"select", "out"}
    BY <1>1, <1>2
  <2> QED
    BY <2>1, <1>1 DEF Done, Read, HeldIn, HeldOut, Dead
<1>6. wire'[m] = wire[m]
  BY <1>1, <1>3, TransmitTyped
<1>7. Done(m) \/ Outgoing(n)' = Outgoing(n)
  <2>1. Outgoing(n) = wire[n] \o exOut[n]
    BY <1>2, <1>5, ConcatEmptySeq DEF Outgoing, Unsent
  <2>2. CASE Transmit(n, msg) /\ UNCHANGED <<stage, held>> /\ ~Done(m)
    <3>1. wire'[n] = Append(wire[n], msg)
      BY <2>2, <1>3, TransmitTyped DEF Done
    <3>2. HeldOut(n)' = <<>>
      BY <2>2, <1>1 DEF HeldOut
    <3>3. Outgoing(n)' = Append(wire[n], msg) \o Tail(exOut[n])
      BY <3>1, <3>2, <1>3, <1>4, <1>5, ConcatEmptySeq DEF Outgoing, Unsent
    <3> QED
      BY <3>3, <2>1, <1>1, <1>2, MoveHead
  <2>3. CASE /\ held' = [held EXCEPT ![n] = msg]
             /\ stage' = [stage EXCEPT ![n] = "out"]
             /\ UNCHANGED wire
    <3>1. HeldOut(n)' = <<msg>>
      BY <2>3, <1>2 DEF HeldOut
    <3>2. Outgoing(n)' = wire[n] \o (<<msg>> \o Tail(exOut[n]))
      BY <3>1, <2>3, <1>4, <1>5 DEF Outgoing, Unsent
    <3>3. Append(wire[n], msg) \o Tail(exOut[n]) = wire[n] \o (<<msg>> \o Tail(exOut[n]))
      BY <1>2, <1>3, MoveMessage
    <3> QED
      BY <3>2, <3>3, <2>1, <1>1, <1>2, MoveHead
  <2> QED
    BY <2>2, <2>3, <1>1
<1>8. PipeKept(n)
  BY <1>4, <1>7, OutStep
<1>9. PipeKept(m)
  BY <1>4, <1>5, <1>6, InStep
<1> QED
  BY <1>4, <1>5, <1>8, <1>9, BothKept

LEMMA PassOutKept ==
    ASSUME Typed, Typed', NEW n \in Nodes, PassOut(n)
    PROVE  PipesKept
<1> DEFINE m == Peer(n)
<1>1. /\ stage[n] = "out" /\ stage' = [stage EXCEPT ![n] = "select"]
      /\ held' = [held EXCEPT ![n] = None] /\ Transmit(n, held[n])
      /\ UNCHANGED <<exIn, exOut, client>>
  BY DEF PassOut
<1>2. /\ m \in Nodes /\ m # n /\ stage \in [Nodes -> Stages]
      /\ wire \in [Nodes -> Seq(Messages)] /\ exOut \in [Nodes -> Seq(Messages)]
      /\ held \in [Nodes -> Messages \cup {None}]
  BY PeerPeer DEF Typed, TypeOK
<1>3. held[n] \in Messages /\ held[n].type # "init"
  <2>1. held[n] \in Exchanged
    BY <1>1 DEF Typed, StageInv
  <2>2. held[n] \in Messages
    BY <2>1, MessageTypes
  <2> QED
    BY <2>1, <2>2, MessageTypes
<1>4. /\ wire'[m] = wire[m] /\ client[n] # "down"
      /\ ~Done(m) => wire'[n] = Append(wire[n], held[n])
  BY <1>1, <1>3, TransmitTyped DEF Done
<1>5. stage'[n] = "select" /\ PeerAlone(n)
  BY <1>1, <1>2 DEF PeerAlone
<1>6. /\ ~Done(n) /\ ~Done(n)' /\ Read(n)' = Read(n)
      /\ HeldOut(n) = <<held[n]>> /\ HeldOut(n)' = <<>>
  BY <1>1, <1>4, <1>5 DEF Done, Read, HeldIn, HeldOut, Dead
<1>7. Done(m) \/ Outgoing(n)' = Outgoing(n)
  <2>1. Outgoing(n) = wire[n] \o (<<held[n]>> \o exOut[n])
    BY <1>6 DEF Outgoing, Unsent
  <2>2. ~Done(m) => Outgoing(n)' = Append(wire[n], held[n]) \o exOut[n]
    BY <1>1, <1>2, <1>4, <1>6, ConcatEmptySeq DEF Outgoing, Unsent
  <2>3. Append(wire[n], held[n]) \o exOut[n] = wire[n] \o (<<held[n]>> \o exOut[n])
    <3>1. wire[n] \in Seq(Messages) /\ exOut[n] \in Seq(Messages)
      BY <1>2
    <3> QED
      BY <3>1, <1>3, MoveMessage
  <2> QED
    BY <2>1, <2>2, <2>3
<1>8. PipeKept(n)
  BY <1>5, <1>7, OutStep
<1>9. PipeKept(m)
  BY <1>4, <1>5, <1>6, InStep
<1> QED
  BY <1>5, <1>6, <1>8, <1>9, BothKept

LEMMA EndOfStageKept ==
    ASSUME Typed, Typed', NEW n \in Nodes, NEW st \in Dead,
           stage[n] \in {"select", "term"},
           stage' = [stage EXCEPT ![n] = st],
           \/ UNCHANGED wire
           \/ stage[n] = "term" /\ Transmit(n, [type |-> "term"]),
           UNCHANGED <<held, exIn, exOut, client>>
    PROVE  PipesKept
<1> DEFINE m == Peer(n)
           msg == [type |-> "term"]
<1>1. /\ m \in Nodes /\ m # n /\ stage \in [Nodes -> Stages]
      /\ wire \in [Nodes -> Seq(Messages)] /\ Unsent(n) \in Seq(Messages)
  BY PeerPeer, FlowTypes DEF Typed, TypeOK, FlowTyped
<1>2. stage'[n] \in Dead /\ stage'[n] \notin {"in", "out"} /\ PeerAlone(n)
  BY <1>1 DEF Dead, PeerAlone
<1>3. /\ Done(n)' /\ Unsent(n)' = <<>> /\ Read(n)' = Read(n)
      /\ stage[n] = "term" => Unsent(n) = <<>>
  BY <1>2 DEF Done, Unsent, Read, HeldIn, Dead
<1>4. PipeKept(n)
  <2>1. CASE UNCHANGED wire
    <3>1. Outgoing(n)' = wire[n] /\ Outgoing(n) = wire[n] \o Unsent(n)
      BY <2>1, <1>1, <1>3, ConcatEmptySeq DEF Outgoing
    <3> QED
      BY <3>1, <1>1, <1>2, <1>3, OutStep
  <2>2. CASE stage[n] = "term" /\ Transmit(n, msg)
    <3>1. msg \in Messages /\ msg.type \notin {"segment", "ack", "init"}
      BY DEF Messages
    <3> HIDE DEF msg
    <3>2. ~Done(m) => wire'[n] = Append(wire[n], msg)
      BY <2>2, <3>1, TransmitTyped DEF Done
    <3>3. Append(wire[n], msg) \in Seq(Messages)
      BY <1>1, <3>1, AppendProperties
    <3>4. /\ Outgoing(n) = wire[n]
          /\ ~Done(m) => Outgoing(n)' = Append(wire[n], msg)
      BY <2>2, <3>2, <3>3, <1>1, <1>3, ConcatEmptySeq DEF Outgoing
    <3>5. Done(m) \/ Outgoing(n)' = Append(Outgoing(n), msg)
      BY <3>4
    <3> QED
      BY <3>1, <3>5, <1>2, OutStep
  <2> QED
    BY <2>1, <2>2
<1>5. PipeKept(m)
  BY <1>2, <1>3, InStep
<1> QED
  BY <1>2, <1>3, <1>4, <1>5, BothKept

LEMMA ClientKept ==
    ASSUME Typed, Typed', NEW n \in Nodes, Close(n) \/ Shutdown(n) \/ Disconnect(n)
    PROVE  PipesKept
<1> DEFINE m == Peer(n)
<1>1. /\ m \in Nodes /\ m # n /\ wire \in [Nodes -> Seq(Messages)]
      /\ client \in [Nodes -> {"starting", "up", "closing", "down"}]
      /\ Unsent(n) \in Seq(Messages)
  BY PeerPeer, FlowTypes DEF Typed, TypeOK, FlowTyped
<1>2. PeerAlone(n) /\ UNCHANGED <<stage, held, exIn, exOut>>
  BY <1>1 DEF Close, Shutdown, Disconnect, PeerAlone, stageVars
<1>3. Read(n)' = Read(n)
  BY <1>2 DEF Read, HeldIn
<1>4. CASE Close(n) \/ Shutdown(n)
  <2>1. Done(n)' = Done(n) /\ UNCHANGED wire
    BY <1>1, <1>4 DEF Close, Shutdown, Done, stageVars
  <2>2. Outgoing(n)' = Outgoing(n)
    BY <2>1, <1>2 DEF Outgoing, Unsent, HeldOut
  <2>3. PipeKept(n)
    BY <2>2, <1>2, OutStep
  <2>4. PipeKept(m)
    BY <2>1, <1>2, <1>3, InStep
  <2> QED
    BY <2>1, <2>3, <2>4, <1>2, BothKept
<1>5. CASE Disconnect(n)
  <2>1. client'[n] = "down"
    BY <1>1, <1>5 DEF Disconnect
  <2>2. Done(n)' /\ Unsent(n)' = <<>>
    BY <2>1 DEF Done, Unsent
  <2>3. PICK k \in 0..Len(wire[n]) : wire'[n] = SubSeq(wire[n], 1, k)
    BY <1>1, <1>5 DEF Disconnect
  <2>4. /\ wire'[n] \in Seq(Messages)
        /\ \E t \in Seq(Messages) : wire[n] = wire'[n] \o t
    <3>1. wire[n] \in Seq(Messages)
      BY <1>1
    <3>2. /\ SubSeq(wire[n], 1, k) \in Seq(Messages)
          /\ SubSeq(wire[n], k + 1, Len(wire[n])) \in Seq(Messages)
          /\ wire[n] = SubSeq(wire[n], 1, k) \o SubSeq(wire[n], k + 1, Len(wire[n]))
      BY <2>3, <3>1, PrefixSuffix
    <3> QED
      BY <2>3, <3>2
  <2>5. PICK t \in Seq(Messages) : wire[n] = wire'[n] \o t
    BY <2>4
  <2>6. Outgoing(n)' = wire'[n] /\ Outgoing(n) = (wire'[n] \o t) \o Unsent(n)
    BY <2>2, <2>4, <2>5, ConcatEmptySeq DEF Outgoing
  <2>7. Outgoing(n) = wire'[n] \o (t \o Unsent(n))
    BY <2>4, <2>6, <1>1, Concat3
  <2>8. t \o Unsent(n) \in Seq(Messages)
    BY <1>1, ConcatProperties
  <2>9. PipeKept(n)
    BY <2>2, <2>6, <2>7, <2>8, <1>2, OutStep
  <2>10. PipeKept(m)
    BY <2>2, <1>2, <1>3, InStep
  <2> QED
    BY <2>2, <2>9, <2>10, <1>2, BothKept
<1> QED
  BY <1>4, <1>5

(***************************************************************************)
(* A step of the stages or of the Clients leaves the transfers alone.      *)
(***************************************************************************)
LEMMA StageStepInv ==
    ASSUME IInv, Typed', PipesKept,
           UNCHANGED <<send, nextId, bufs, delivered, cur>>,
           \A n \in Nodes : tm'[n] = tm[n] \/ tm'[n] \in {"run", "gone"},
           \A n \in Nodes : mtu'[n] = mtu[n] \/ client[n] = "starting"
    PROVE  IInv'
<1>1. /\ View' = View /\ \A x \in Transfers : Started(x)' = Started(x)
      /\ \A x \in Transfers : Got(x)' = Got(x) /\ Buf(x)' = Buf(x)
  BY DEF View, Started, Got, Buf
<1>2. IdInv'
  <2>1. \A n \in Nodes : delivered[n] \subseteq Transfers
    BY DEF IInv, TypeOK
  <2> QED
    BY <1>1, <2>1 DEF IInv, IdInv
<1>3. ASSUME NEW x \in Transfers PROVE SendInv(x)'
  <2>1. SendInv(x) /\ Owner[x] \in Nodes
    BY TcpclAssumption DEF IInv
  <2>2. CASE mtu'[Owner[x]] = mtu[Owner[x]]
    BY <2>1, <2>2 DEF SendInv
  <2>3. CASE client[Owner[x]] = "starting"
    <3>1. nextId[Owner[x]] = 0
      BY <2>1, <2>3 DEF IInv, StageInv
    <3>2. send[x].pc \in {"idle", "panic"}
      <4>1. send[x].id \in Nat /\ send[x].pc \in {"idle", "run", "ok", "failed", "panic"}
        BY TcpclAssumption DEF IInv, TypeOK, SendRec, Ids
      <4>2. ~Started(x)
        BY <3>1, <4>1 DEF IInv, IdInv
      <4> QED
        BY <4>1, <4>2 DEF Started
    <3>3. send[x].pos = 0 /\ 0 = 0 * mtu'[Owner[x]]
      BY <2>1, <3>2 DEF SendInv, Typed, TypeOK
    <3> QED
      BY <2>1, <3>3 DEF SendInv
  <2> QED
    BY <2>1, <2>2, <2>3
<1>4. ASSUME NEW x \in Transfers PROVE BufInv(x)' /\ AckedInv(x)'
  BY <1>1 DEF IInv, BufInv, AckedInv
<1>5. ASSUME NEW n \in Nodes PROVE TmInv(n)'
  <2>1. TmInv(n)
    BY DEF IInv
  <2>2. CASE tm'[n] = tm[n]
    BY <2>1, <2>2, <1>1 DEF TmInv
  <2>3. CASE tm'[n] \in {"run", "gone"}
    BY <2>3 DEF TmInv
  <2> QED
    BY <2>2, <2>3
<1>6. FlowInv'
  BY <1>1, FlowKept DEF IInv, Typed, PipesKept
<1> QED
  BY <1>2, <1>3, <1>4, <1>5, <1>6 DEF IInv, Typed

\* The steps of the StageHandler and of the Client.
LEMMA StageStepsInv ==
    ASSUME IInv, NEW n \in Nodes,
           \/ SendHandshake(n) \/ ReceiveHandshake(n) \/ Start(n)
           \/ HandleMsgIn(n) \/ PassIn(n) \/ MessageOut(n) \/ PassOut(n)
           \/ CloseStage(n) \/ SendTermination(n) \/ HandleKeepalive(n)
           \/ StopTransferManager(n) \/ Close(n) \/ Shutdown(n) \/ Disconnect(n)
    PROVE  IInv'
<1>1. Typed /\ FlowTyped
  BY FlowTypes DEF IInv, Typed
<1>2. CASE SendHandshake(n)
  <2>1. Typed' /\ PipesKept
    BY <1>1, <1>2, SendHandshakeTyped, SendHandshakeKept
  <2> QED
    BY <1>2, <2>1, StageStepInv DEF SendHandshake, tmVars
<1>3. CASE ReceiveHandshake(n)
  <2>1. Typed' /\ PipesKept
    BY <1>1, <1>3, ReceiveHandshakeTyped, ReceiveHandshakeKept
  <2>2. client[n] = "starting"
    BY <1>1, <1>3 DEF ReceiveHandshake, Typed, StageInv
  <2>3. \A k \in Nodes : mtu'[k] = mtu[k] \/ client[k] = "starting"
    BY <1>1, <1>3, <2>2 DEF ReceiveHandshake, Typed, TypeOK
  <2>4. UNCHANGED <<send, nextId, bufs, delivered, cur, tm>>
    BY <1>3 DEF ReceiveHandshake, tmVars
  <2> QED
    BY <2>1, <2>3, <2>4, StageStepInv
<1>4. CASE Start(n)
  <2>1. Typed' /\ PipesKept
    BY <1>1, <1>4, StartTyped, StartKept
  <2>2. \A k \in Nodes : tm'[k] = tm[k] \/ tm'[k] = "run"
    BY <1>1, <1>4 DEF Start, Typed, TypeOK
  <2> QED
    BY <1>4, <2>1, <2>2, StageStepInv DEF Start
<1>5. CASE HandleMsgIn(n)
  <2>1. Typed' /\ PipesKept
    BY <1>1, <1>5, HandleMsgInTyped, HandleMsgInKept
  <2> QED
    BY <1>5, <2>1, StageStepInv DEF HandleMsgIn, tmVars
<1>6. CASE PassIn(n)
  <2>1. Typed' /\ PipesKept
    BY <1>1, <1>6, PassInTyped, PassInKept
  <2> QED
    BY <1>6, <2>1, StageStepInv DEF PassIn, tmVars
<1>7. CASE MessageOut(n)
  <2>1. Typed' /\ PipesKept
    BY <1>1, <1>7, MessageOutTyped, MessageOutKept
  <2> QED
    BY <1>7, <2>1, StageStepInv DEF MessageOut, tmVars
<1>8. CASE PassOut(n)
  <2>1. Typed' /\ PipesKept
    BY <1>1, <1>8, PassOutTyped, PassOutKept
  <2> QED
    BY <1>8, <2>1, StageStepInv DEF PassOut, tmVars
<1>9. CASE CloseStage(n) \/ SendTermination(n) \/ HandleKeepalive(n)
  <2>1. PICK st \in Dead :
           /\ stage' = [stage EXCEPT ![n] = st]
           /\ stage[n] \in {"select", "term"}
           /\ \/ UNCHANGED wire
              \/ stage[n] = "term" /\ Transmit(n, [type |-> "term"])
           /\ UNCHANGED <<held, mtu, exIn, exOut, tmVars, nextId, send, client,
                          asked, delivered>>
    BY <1>9 DEF CloseStage, SendTermination, HandleKeepalive, Dead
  <2>2. Typed'
    BY <1>1, <2>1, EndOfStageTyped
  <2>3. PipesKept
    BY <1>1, <2>1, <2>2, EndOfStageKept
  <2> QED
    BY <2>1, <2>2, <2>3, StageStepInv DEF tmVars
<1>10. CASE StopTransferManager(n)
  <2>1. Typed'
    BY <1>1, <1>10, StopTransferManagerTyped
  <2>2. UNCHANGED <<stage, held, wire, exIn, exOut, client, send, nextId, bufs,
                    delivered, cur, mtu>>
    BY <1>10 DEF StopTransferManager, stageVars
  <2>3. PipesKept
    BY <2>2 DEF PipesKept, PipeKept, Pipe, Outgoing, Read, Unsent, HeldIn,
                HeldOut, Done
  <2>4. \A k \in Nodes : tm'[k] = tm[k] \/ tm'[k] = "gone"
    BY <1>1, <1>10 DEF StopTransferManager, Typed, TypeOK
  <2> QED
    BY <2>1, <2>2, <2>3, <2>4, StageStepInv
<1>11. CASE Close(n) \/ Shutdown(n) \/ Disconnect(n)
  <2>1. Typed' /\ PipesKept
    BY <1>1, <1>11, ClientTyped, ClientKept
  <2>2. UNCHANGED <<send, nextId, bufs, delivered, cur, tm, mtu>>
    BY <1>11 DEF Close, Shutdown, Disconnect, stageVars, tmVars
  <2> QED
    BY <2>1, <2>2, StageStepInv
<1> QED
  BY <1>2, <1>3, <1>4, <1>5, <1>6, <1>7, <1>8, <1>9, <1>10, <1>11

-----------------------------------------------------------------------------
(* The Send calls.                                                         *)

(***************************************************************************)
(* A step of Send or of its goroutine that sends nothing: what it knows    *)
(* stays true.                                                             *)
(***************************************************************************)
LEMMA SendFrame ==
    ASSUME IInv, NEW x \in Transfers, Started(x), NEW r \in SendRec,
           send' = [send EXCEPT ![x] = r],
           UNCHANGED <<nextId, bufs, delivered, mtu>>,
           r.pc \in {"run", "ok", "failed"},
           r.id = send[x].id, r.pos = send[x].pos,
           r.out = "push" => send[x].pos < Size[x],
           r.total \in {None, Size[x]}, r.outLen \in {0, Size[x]},
           r.inLen <= Got(x),
           \A i \in 1..Len(r.acks) : r.acks[i] \in 1..Got(x),
           r.pc = "ok" => Got(x) = Size[x]
    PROVE  /\ View' = View /\ IdInv' /\ send' \in [Transfers -> SendRec]
           /\ \A y \in Transfers : /\ SendInv(y)' /\ BufInv(y)' /\ AckedInv(y)'
                                   /\ Started(y)' = Started(y)
<1>1. /\ send \in [Transfers -> SendRec] /\ send'[x] = r
      /\ \A y \in Transfers \ {x} : send'[y] = send[y]
      /\ \A n \in Nodes : delivered[n] \subseteq Transfers
  BY DEF IInv, TypeOK
<1>2. \A y \in Transfers : /\ send'[y].id = send[y].id
                           /\ send'[y].pos = send[y].pos
                           /\ Started(y)' = Started(y)
  <2>1. Started(x)'
    BY <1>1 DEF Started
  <2>2. \A y \in Transfers \ {x} : Started(y)' = Started(y)
    BY <1>1 DEF Started
  <2>3. Started(x)' = Started(x)
    BY <2>1 DEF Started
  <2>4. ASSUME NEW y \in Transfers
        PROVE  /\ send'[y].id = send[y].id /\ send'[y].pos = send[y].pos
               /\ Started(y)' = Started(y)
    <3>1. CASE y = x
      BY <3>1, <2>3, <1>1
    <3>2. CASE y # x
      BY <3>2, <2>2, <1>1
    <3> QED
      BY <3>1, <3>2
  <2> QED
    BY <2>4
<1>3. \A y \in Transfers : Got(y)' = Got(y) /\ Buf(y)' = Buf(y)
  BY <1>2 DEF Got, Buf
<1>4. View' = View
  BY <1>2, <1>3 DEF View
<1>5. IdInv'
  BY <1>1, <1>2 DEF IInv, IdInv
<1>6. ASSUME NEW y \in Transfers PROVE BufInv(y)'
  BY <1>2, <1>3 DEF IInv, BufInv
<1>7. ASSUME NEW y \in Transfers PROVE SendInv(y)' /\ AckedInv(y)'
  <2>1. SendInv(y) /\ AckedInv(y)
    BY DEF IInv
  <2>2. CASE y = x
    <3>1. SendInv(x)'
      BY <2>1, <2>2, <1>1 DEF SendInv
    <3>2. AckedInv(x)'
      BY <1>1, <1>3 DEF AckedInv
    <3> QED
      BY <2>2, <3>1, <3>2
  <2>3. CASE y # x
    BY <2>1, <2>3, <1>1, <1>2, <1>3 DEF SendInv, AckedInv
  <2> QED
    BY <2>2, <2>3
<1>8. send' \in [Transfers -> SendRec]
  BY <1>1
<1> QED
  BY <1>2, <1>4, <1>5, <1>6, <1>7, <1>8

\* Nothing but the variables of one Send is changed.
LEMMA SendOnlyInv ==
    ASSUME IInv, NEW x \in Transfers, Started(x), NEW r \in SendRec,
           send' = [send EXCEPT ![x] = r],
           UNCHANGED <<stageVars, exIn, exOut, tmVars, nextId, client, asked,
                       delivered>>,
           r.pc \in {"run", "ok", "failed"},
           r.id = send[x].id, r.pos = send[x].pos,
           r.out = "push" => send[x].pos < Size[x],
           r.total \in {None, Size[x]}, r.outLen \in {0, Size[x]},
           r.inLen <= Got(x),
           \A i \in 1..Len(r.acks) : r.acks[i] \in 1..Got(x),
           r.pc = "ok" => Got(x) = Size[x]
    PROVE  IInv'
<1>1. UNCHANGED <<stage, held, mtu, wire, exIn, exOut, tm, cur, bufs, nextId,
                  client, asked, delivered>>
  BY DEF stageVars, tmVars
<1>2. /\ View' = View /\ IdInv' /\ send' \in [Transfers -> SendRec]
      /\ \A y \in Transfers : /\ SendInv(y)' /\ BufInv(y)' /\ AckedInv(y)'
                              /\ Started(y)' = Started(y)
  BY <1>1, SendFrame
<1>3. TypeOK'
  BY <1>1, <1>2 DEF IInv, TypeOK
<1>4. ASSUME NEW n \in Nodes PROVE StageInv(n)' /\ TmInv(n)'
  BY <1>1, <1>2 DEF IInv, StageInv, TmInv
<1>5. FlowInv'
  <2>1. \A n \in Nodes : Pipe(n)' = Pipe(n) /\ Done(n)' = Done(n)
    BY <1>1 DEF Pipe, Outgoing, Read, Unsent, HeldIn, HeldOut, Done
  <2>2. \A n \in Nodes : PipeOK(Pipe(n)', n, View')
    BY <2>1, <1>2 DEF IInv, FlowInv
  <2>3. \A y \in Transfers : Owner[y] \in Nodes /\ To(y) \in Nodes
    BY TcpclAssumption, PeerPeer DEF To
  <2>4. \A y \in Transfers :
          Started(y)' /\ ~Done(Owner[y])' /\ ~Done(To(y))'
             => Covered(Pipe(Owner[y])', y, View')
    BY <2>1, <2>3, <1>2 DEF IInv, FlowInv
  <2> QED
    BY <2>2, <2>4 DEF FlowInv
<1> QED
  BY <1>2, <1>3, <1>4, <1>5 DEF IInv

LEMMA SendFacts ==
    ASSUME IInv, NEW x \in Transfers
    PROVE  /\ send[x] \in SendRec /\ SendInv(x) /\ AckedInv(x) /\ BufInv(x)
           /\ send[x].pc \in {"idle", "run", "ok", "failed", "panic"}
           /\ send[x].id \in Ids /\ send[x].id \in Nat /\ send[x].pos \in Nat
           /\ send[x].acks \in Seq(Nat) /\ send[x].inLen \in Nat
           /\ Size[x] \in Nat /\ Size[x] > 0 /\ Got(x) \in Nat
           /\ Started(x) => Got(x) <= Size[x]
           /\ Owner[x] \in Nodes /\ To(x) \in Nodes
           /\ Peer(To(x)) = Owner[x] /\ Peer(Owner[x]) = To(x)
<1>1. /\ send[x] \in SendRec /\ SendInv(x) /\ AckedInv(x) /\ BufInv(x)
      /\ Owner[x] \in Nodes /\ Size[x] \in Nat /\ Size[x] > 0
  BY TcpclAssumption DEF IInv, TypeOK
<1>2. /\ send[x].pc \in {"idle", "run", "ok", "failed", "panic"}
      /\ send[x].id \in Ids /\ send[x].pos \in Nat
      /\ send[x].acks \in Seq(Nat) /\ send[x].inLen \in Nat
  BY <1>1 DEF SendRec
<1>3. send[x].id \in Nat
  BY <1>2, TcpclAssumption DEF Ids
<1>4. To(x) \in Nodes /\ Peer(To(x)) = Owner[x] /\ Peer(Owner[x]) = To(x)
  BY <1>1, PeerPeer DEF To
<1>5. Got(x) \in Nat
  <2>1. Buf(x) \in [data : Seq(Bytes), end : BOOLEAN]
    BY <1>2, <1>4 DEF IInv, TypeOK, Buf
  <2>2. Len(Buf(x).data) \in Nat
    BY <2>1, LenProperties
  <2> QED
    BY <2>2, <1>1 DEF Got
<1>6. Started(x) => Got(x) <= Size[x]
  <2>1. Started(x) => Got(x) <= send[x].pos
    BY <1>1 DEF BufInv
  <2>2. send[x].pos <= Size[x]
    BY <1>1 DEF SendInv
  <2> QED
    BY <2>1, <2>2, <1>1, <1>2, <1>5
<1> QED
  BY <1>1, <1>2, <1>3, <1>4, <1>5, <1>6

\* A Send call with a goroutine or a result was started.
LEMMA RunningStarted ==
    ASSUME IInv, NEW x \in Transfers,
           send[x].pc = "run" \/ send[x].out # "off"
    PROVE  Started(x)
BY SendFacts DEF SendInv, Started

\* StopSending, EndOfBundle
LEMMA EndOfSendingInv ==
    ASSUME IInv, NEW x \in Transfers, StopSending(x) \/ EndOfBundle(x)
    PROVE  IInv'
<1>1. Started(x) /\ send \in [Transfers -> SendRec]
  BY RunningStarted DEF StopSending, EndOfBundle, IInv, TypeOK
<1>2. /\ send[x] \in SendRec /\ SendInv(x) /\ AckedInv(x) /\ Size[x] \in Nat
  BY SendFacts
<1>3. CASE StopSending(x)
  <2> DEFINE r == [send[x] EXCEPT !.out = "off", !.err = ~send[x].stop]
  <2>1. send' = [send EXCEPT ![x] = r]
    BY <1>1, <1>3 DEF StopSending
  <2>2. r \in SendRec
    BY <1>2 DEF SendRec
  <2>3. /\ r.pc = send[x].pc /\ r.id = send[x].id /\ r.pos = send[x].pos
        /\ r.out = "off" /\ r.total = send[x].total /\ r.outLen = send[x].outLen
        /\ r.inLen = send[x].inLen /\ r.acks = send[x].acks
    BY <1>2 DEF SendRec
  <2> HIDE DEF r
  <2>4. UNCHANGED <<stageVars, exIn, exOut, tmVars, nextId, client, asked,
                    delivered>>
    BY <1>3 DEF StopSending
  <2> QED
    BY <1>1, <1>2, <2>1, <2>2, <2>3, <2>4, SendOnlyInv
       DEF SendInv, AckedInv, Started
<1>4. CASE EndOfBundle(x)
  <2> DEFINE r == [send[x] EXCEPT !.out = "off", !.total = send[x].pos]
  <2>1. send' = [send EXCEPT ![x] = r] /\ send[x].pos = Size[x]
    BY <1>1, <1>4 DEF EndOfBundle
  <2>2. r \in SendRec
    BY <1>2 DEF SendRec
  <2>3. /\ r.pc = send[x].pc /\ r.id = send[x].id /\ r.pos = send[x].pos
        /\ r.out = "off" /\ r.total = Size[x] /\ r.outLen = send[x].outLen
        /\ r.inLen = send[x].inLen /\ r.acks = send[x].acks
    BY <1>2, <2>1 DEF SendRec
  <2> HIDE DEF r
  <2>4. UNCHANGED <<stageVars, exIn, exOut, tmVars, nextId, client, asked,
                    delivered>>
    BY <1>4 DEF EndOfBundle
  <2> QED
    BY <1>1, <1>2, <2>1, <2>2, <2>3, <2>4, SendOnlyInv
       DEF SendInv, AckedInv, Started
<1> QED
  BY <1>3, <1>4

LEMMA ReturnRec ==
    ASSUME NEW r \in SendRec, NEW pc \in {"ok", "failed"}
    PROVE  LET s == Return(r, pc)
           IN /\ s \in SendRec /\ s.pc = pc /\ s.id = r.id /\ s.pos = r.pos
              /\ s.out = r.out /\ s.total = None /\ s.outLen = 0 /\ s.inLen = 0
              /\ s.acks = <<>> /\ s.stop = r.stop
<1>1. <<>> \in Seq(Nat)
  OBVIOUS
<1>2. Return(r, pc) \in SendRec
  BY <1>1 DEF Return, SendRec
<1> QED
  BY <1>2 DEF Return, SendRec

\* ReceiveError, Timeout
LEMMA GivingUpInv ==
    ASSUME IInv, NEW x \in Transfers, ReceiveError(x) \/ Timeout(x)
    PROVE  IInv'
<1>1. Started(x) /\ send \in [Transfers -> SendRec]
  BY RunningStarted DEF ReceiveError, Timeout, IInv, TypeOK
<1>2. /\ send[x] \in SendRec /\ Size[x] \in Nat /\ Got(x) \in Nat
      /\ send[x].out = "push" => send[x].pos < Size[x]
  BY SendFacts DEF SendInv
<1>3. PICK r \in SendRec :
        /\ send' = [send EXCEPT ![x] = r]
        /\ r.pc = "failed" /\ r.id = send[x].id /\ r.pos = send[x].pos
        /\ r.out = send[x].out /\ r.total = None /\ r.outLen = 0 /\ r.inLen = 0
        /\ r.acks = <<>>
  <2> DEFINE s == Return(send[x], "failed")
  <2>1. /\ s \in SendRec /\ s.pc = "failed" /\ s.id = send[x].id
        /\ s.pos = send[x].pos /\ s.out = send[x].out /\ s.total = None
        /\ s.outLen = 0 /\ s.inLen = 0 /\ s.acks = <<>>
    BY <1>2, ReturnRec
  <2>2. CASE ReceiveError(x)
    BY <2>1, <2>2 DEF ReceiveError
  <2>3. CASE Timeout(x)
    <3> DEFINE t == [s EXCEPT !.stop = TRUE]
    <3>1. send' = [send EXCEPT ![x] = t]
      BY <2>3 DEF Timeout
    <3> HIDE DEF s
    <3>2. /\ t \in SendRec /\ t.pc = s.pc /\ t.id = s.id /\ t.pos = s.pos
          /\ t.out = s.out /\ t.total = s.total /\ t.outLen = s.outLen
          /\ t.inLen = s.inLen /\ t.acks = s.acks
      BY <2>1 DEF SendRec
    <3> HIDE DEF t
    <3> QED
      BY <3>1, <3>2, <2>1
  <2> QED
    BY <2>2, <2>3
<1>4. UNCHANGED <<stageVars, exIn, exOut, tmVars, nextId, client, asked,
                  delivered>>
  BY DEF ReceiveError, Timeout
<1>5. \A i \in 1..Len(r.acks) : r.acks[i] \in 1..Got(x)
  BY <1>3
<1>6. /\ r.pc \in {"run", "ok", "failed"} /\ r.pc # "ok"
      /\ r.total \in {None, Size[x]} /\ r.outLen \in {0, Size[x]}
      /\ r.inLen <= Got(x) /\ (r.out = "push" => send[x].pos < Size[x])
  BY <1>2, <1>3
<1> QED
  BY <1>1, <1>3, <1>4, <1>5, <1>6, SendOnlyInv

(***************************************************************************)
(* Send compares its length with an acknowledgement: all has arrived.      *)
(***************************************************************************)
LEMMA ReceiveLengthInv ==
    ASSUME IInv, NEW x \in Transfers, ReceiveLength(x)
    PROVE  IInv'
<1>1. Started(x) /\ send \in [Transfers -> SendRec]
  BY RunningStarted DEF ReceiveLength, IInv, TypeOK
<1>2. /\ send[x] \in SendRec /\ Size[x] \in Nat /\ Got(x) \in Nat
      /\ Got(x) <= Size[x] /\ SendInv(x) /\ AckedInv(x)
  BY <1>1, SendFacts
<1>3. /\ send[x].total = Size[x] /\ send[x].pc = "run"
      /\ send' = [send EXCEPT ![x] =
                    IF Size[x] = send[x].inLen THEN Return(send[x], "ok")
                    ELSE [send[x] EXCEPT !.outLen = Size[x], !.total = None]]
      /\ UNCHANGED <<stageVars, exIn, exOut, tmVars, nextId, client, asked,
                     delivered>>
  BY <1>2 DEF ReceiveLength, SendInv
<1>4. CASE Size[x] = send[x].inLen
  <2> DEFINE r == Return(send[x], "ok")
  <2>1. send' = [send EXCEPT ![x] = r]
    BY <1>3, <1>4
  <2>2. /\ r \in SendRec /\ r.pc = "ok" /\ r.id = send[x].id
        /\ r.pos = send[x].pos /\ r.out = send[x].out /\ r.total = None
        /\ r.outLen = 0 /\ r.inLen = 0 /\ r.acks = <<>>
    BY <1>2, ReturnRec
  <2> HIDE DEF r
  <2>3. Got(x) = Size[x]
    BY <1>1, <1>2, <1>4 DEF AckedInv
  <2>4. \A i \in 1..Len(r.acks) : r.acks[i] \in 1..Got(x)
    BY <2>2
  <2>5. /\ r.total \in {None, Size[x]} /\ r.outLen \in {0, Size[x]}
        /\ r.inLen <= Got(x) /\ (r.out = "push" => send[x].pos < Size[x])
    BY <2>2, <1>2 DEF SendInv
  <2> QED
    BY <1>1, <1>3, <2>1, <2>2, <2>3, <2>4, <2>5, SendOnlyInv
<1>5. CASE Size[x] # send[x].inLen
  <2> DEFINE r == [send[x] EXCEPT !.outLen = Size[x], !.total = None]
  <2>1. send' = [send EXCEPT ![x] = r]
    BY <1>3, <1>5
  <2>2. /\ r \in SendRec /\ r.pc = send[x].pc /\ r.id = send[x].id
        /\ r.pos = send[x].pos /\ r.out = send[x].out /\ r.total = None
        /\ r.outLen = Size[x] /\ r.inLen = send[x].inLen /\ r.acks = send[x].acks
    BY <1>2 DEF SendRec
  <2> HIDE DEF r
  <2>3. r.inLen <= Got(x) /\ \A i \in 1..Len(r.acks) : r.acks[i] \in 1..Got(x)
    BY <2>2, <1>1, <1>2 DEF AckedInv
  <2>4. /\ r.pc \in {"run", "ok", "failed"} /\ r.pc # "ok"
        /\ r.total \in {None, Size[x]} /\ r.outLen \in {0, Size[x]}
        /\ r.out = "push" => send[x].pos < Size[x]
    BY <2>2, <1>2, <1>3 DEF SendInv
  <2> QED
    BY <1>1, <1>3, <2>1, <2>2, <2>3, <2>4, SendOnlyInv
<1> QED
  BY <1>4, <1>5

LEMMA ReceiveAckInv ==
    ASSUME IInv, NEW x \in Transfers, ReceiveAck(x)
    PROVE  IInv'
<1>1. Started(x) /\ send \in [Transfers -> SendRec]
  BY RunningStarted DEF ReceiveAck, IInv, TypeOK
<1>2. /\ send[x] \in SendRec /\ Size[x] \in Nat /\ Got(x) \in Nat
      /\ Got(x) <= Size[x] /\ SendInv(x) /\ AckedInv(x)
      /\ send[x].acks \in Seq(Nat)
  BY <1>1, SendFacts
<1> DEFINE len == Head(send[x].acks)
           rest == Tail(send[x].acks)
<1>3. /\ send[x].acks # <<>> /\ send[x].pc = "run"
      /\ send' = [send EXCEPT ![x] =
                    IF send[x].outLen = len THEN Return(send[x], "ok")
                    ELSE [send[x] EXCEPT !.inLen = len, !.acks = rest]]
      /\ UNCHANGED <<stageVars, exIn, exOut, tmVars, nextId, client, asked,
                     delivered>>
  BY DEF ReceiveAck
<1>4. /\ len \in 1..Got(x) /\ rest \in Seq(Nat)
      /\ \A i \in 1..Len(rest) : rest[i] \in 1..Got(x)
  <2>1. /\ len = send[x].acks[1] /\ 1 \in 1..Len(send[x].acks)
        /\ rest \in Seq(Nat)
        /\ \A i \in 1..Len(rest) : /\ i + 1 \in 1..Len(send[x].acks)
                                   /\ rest[i] = send[x].acks[i + 1]
    BY <1>2, <1>3, HeadTailProperties, LenProperties
  <2> QED
    BY <2>1, <1>1, <1>2 DEF AckedInv
<1> HIDE DEF len, rest
<1>5. CASE send[x].outLen = len
  <2> DEFINE r == Return(send[x], "ok")
  <2>1. send' = [send EXCEPT ![x] = r]
    BY <1>3, <1>5
  <2>2. /\ r \in SendRec /\ r.pc = "ok" /\ r.id = send[x].id
        /\ r.pos = send[x].pos /\ r.out = send[x].out /\ r.total = None
        /\ r.outLen = 0 /\ r.inLen = 0 /\ r.acks = <<>>
    BY <1>2, ReturnRec
  <2> HIDE DEF r
  <2>3. Got(x) = Size[x]
    <3>1. send[x].outLen \in {0, Size[x]}
      BY <1>2 DEF SendInv
    <3> QED
      BY <3>1, <1>2, <1>4, <1>5
  <2>4. \A i \in 1..Len(r.acks) : r.acks[i] \in 1..Got(x)
    BY <2>2
  <2>5. /\ r.total \in {None, Size[x]} /\ r.outLen \in {0, Size[x]}
        /\ r.inLen <= Got(x) /\ (r.out = "push" => send[x].pos < Size[x])
    BY <2>2, <1>2 DEF SendInv
  <2> QED
    BY <1>1, <1>3, <2>1, <2>2, <2>3, <2>4, <2>5, SendOnlyInv
<1>6. CASE send[x].outLen # len
  <2> DEFINE r == [send[x] EXCEPT !.inLen = len, !.acks = rest]
  <2>1. send' = [send EXCEPT ![x] = r]
    BY <1>3, <1>6
  <2>2. /\ r \in SendRec /\ r.pc = send[x].pc /\ r.id = send[x].id
        /\ r.pos = send[x].pos /\ r.out = send[x].out /\ r.total = send[x].total
        /\ r.outLen = send[x].outLen /\ r.inLen = len /\ r.acks = rest
    <3>1. len \in Nat
      BY <1>4, <1>2
    <3> QED
      BY <3>1, <1>2, <1>4 DEF SendRec
  <2> HIDE DEF r
  <2>3. r.inLen <= Got(x) /\ \A i \in 1..Len(r.acks) : r.acks[i] \in 1..Got(x)
    BY <2>2, <1>4, <1>2
  <2>4. /\ r.total \in {None, Size[x]} /\ r.outLen \in {0, Size[x]}
        /\ r.pc \in {"run", "ok", "failed"} /\ r.pc # "ok"
        /\ r.out = "push" => send[x].pos < Size[x]
    BY <2>2, <1>2, <1>3 DEF SendInv
  <2> QED
    BY <1>1, <1>3, <2>1, <2>2, <2>3, <2>4, SendOnlyInv
<1> QED
  BY <1>5, <1>6

-----------------------------------------------------------------------------
(* TransferManager.handle and the pipes.                                   *)

\* A message is taken from ExchangeMsgIn of n.
LEMMA TakeIn ==
    ASSUME Typed, NEW n \in Nodes, exIn[n] # <<>>,
           exIn' = [exIn EXCEPT ![n] = Tail(exIn[n])],
           exOut'[Peer(n)] = exOut[Peer(n)],
           UNCHANGED <<stage, held, wire, client>>
    PROVE  /\ Pipe(Peer(n)) \in Seq(Messages) /\ Pipe(Peer(n)) # <<>>
           /\ Head(Pipe(Peer(n))) = Head(exIn[n])
           /\ Pipe(Peer(n))' = Tail(Pipe(Peer(n)))
           /\ Head(exIn[n]) \in Exchanged /\ Tail(exIn[n]) \in Seq(Exchanged)
           /\ Tail(exIn[n]) \in Seq(Messages)
           /\ exIn'[n] = Tail(exIn[n]) /\ exIn'[Peer(n)] = exIn[Peer(n)]
<1> DEFINE m == Peer(n)
           u == IF Done(n) THEN <<>> ELSE Outgoing(m)
<1>1. /\ m \in Nodes /\ m # n /\ Peer(m) = n /\ exIn \in [Nodes -> Seq(Messages)]
      /\ HeldIn(n) \in Seq(Messages) /\ u \in Seq(Messages)
      /\ Pipe(m) \in Seq(Messages) /\ exIn[n] \in Seq(Exchanged)
      /\ exIn[n] \in Seq(Messages)
  BY PeerPeer, FlowTypes, EmptySeq DEF Typed, TypeOK, FlowTyped, StageInv
<1>2. Pipe(m) = (exIn[n] \o HeldIn(n)) \o u
  BY <1>1 DEF Pipe, Read
<1>3. Pipe(m)' = (Tail(exIn[n]) \o HeldIn(n)) \o u
  <2>1. exIn'[n] = Tail(exIn[n]) /\ HeldIn(n)' = HeldIn(n) /\ u' = u
    BY <1>1 DEF HeldIn, Done, Outgoing, Unsent, HeldOut
  <2> HIDE DEF u
  <2>2. Pipe(m)' = Read(n)' \o u'
    BY <1>1 DEF Pipe, u
  <2> QED
    BY <2>1, <2>2 DEF Read
<1> HIDE DEF u
<1>4. /\ exIn[n] \o HeldIn(n) # <<>>
      /\ Head(exIn[n] \o HeldIn(n)) = Head(exIn[n])
      /\ Tail(exIn[n] \o HeldIn(n)) = Tail(exIn[n]) \o HeldIn(n)
      /\ exIn[n] \o HeldIn(n) \in Seq(Messages)
  BY <1>1, TailFront, ConcatProperties
<1> DEFINE a == exIn[n] \o HeldIn(n)
<1> HIDE DEF a
<1>5. a # <<>> /\ a \in Seq(Messages) /\ Head(a) = Head(exIn[n])
  BY <1>4 DEF a
<1>6. a \o u # <<>> /\ Head(a \o u) = Head(a) /\ Tail(a \o u) = Tail(a) \o u
  BY <1>1, <1>5, TailFront
<1>7. /\ Head(exIn[n]) \in Exchanged /\ Tail(exIn[n]) \in Seq(Exchanged)
      /\ Tail(exIn[n]) \in Seq(Messages)
  BY <1>1, HeadTailProperties
<1>8. exIn'[n] = Tail(exIn[n]) /\ exIn'[m] = exIn[m]
  BY <1>1
<1> QED
  BY <1>1, <1>2, <1>3, <1>4, <1>5, <1>6, <1>7, <1>8 DEF a

\* A message is passed to ExchangeMsgOut of n.
LEMMA PushOut ==
    ASSUME Typed, NEW n \in Nodes, NEW msg \in Messages,
           exOut'[n] = Append(exOut[n], msg),
           exIn'[Peer(n)] = exIn[Peer(n)],
           UNCHANGED <<stage, held, wire, client>>
    PROVE  Pipe(n)' = IF Done(n) \/ Done(Peer(n)) THEN Pipe(n)
                      ELSE Append(Pipe(n), msg)
<1> DEFINE m == Peer(n)
<1>1. /\ m \in Nodes /\ Read(m) \in Seq(Messages) /\ wire[n] \in Seq(Messages)
      /\ HeldOut(n) \in Seq(Messages) /\ exOut[n] \in Seq(Messages)
      /\ Outgoing(n) \in Seq(Messages) /\ HeldOut(n) \o exOut[n] \in Seq(Messages)
  BY PeerPeer, FlowTypes, ConcatProperties DEF FlowTyped
<1>2. /\ Read(m)' = Read(m) /\ Done(n)' = Done(n) /\ Done(m)' = Done(m)
      /\ HeldOut(n)' = HeldOut(n)
  BY DEF Read, HeldIn, HeldOut, Done
<1>3. CASE Done(m)
  BY <1>2, <1>3 DEF Pipe
<1>4. CASE Done(n)
  BY <1>2, <1>4 DEF Pipe, Outgoing, Unsent
<1>5. CASE ~Done(m) /\ ~Done(n)
  <2> DEFINE h == HeldOut(n)
             e == exOut[n]
             w == wire[n]
             r == Read(m)
  <2>1. Pipe(n) = r \o (w \o (h \o e))
    BY <1>5 DEF Pipe, Outgoing, Unsent
  <2>2. Pipe(n)' = r \o (w \o (h \o Append(e, msg)))
    BY <1>2, <1>5 DEF Pipe, Outgoing, Unsent
  <2> HIDE DEF h, e, w, r
  <2>3. /\ h \in Seq(Messages) /\ e \in Seq(Messages) /\ w \in Seq(Messages)
        /\ r \in Seq(Messages)
    BY <1>1 DEF h, e, w, r
  <2>4. h \o Append(e, msg) = Append(h \o e, msg) /\ h \o e \in Seq(Messages)
    BY <2>3, SeqAlgebra
  <2>5. /\ w \o Append(h \o e, msg) = Append(w \o (h \o e), msg)
        /\ w \o (h \o e) \in Seq(Messages)
    BY <2>3, <2>4, SeqAlgebra
  <2> DEFINE z == w \o (h \o e)
  <2> HIDE DEF z
  <2>6. r \o Append(z, msg) = Append(r \o z, msg)
    <3>1. z \in Seq(Messages)
      BY <2>5 DEF z
    <3> QED
      BY <2>3, <3>1, SeqAlgebra
  <2> QED
    BY <2>1, <2>2, <2>4, <2>5, <2>6, <1>5 DEF z
<1> QED
  BY <1>3, <1>4, <1>5

\* Neither channel of the pipe from n is touched.
LEMMA PipeSame ==
    ASSUME NEW n \in Nodes, exOut'[n] = exOut[n],
           exIn'[Peer(n)] = exIn[Peer(n)],
           UNCHANGED <<stage, held, wire, client>>
    PROVE  Pipe(n)' = Pipe(n)
BY DEF Pipe, Outgoing, Read, Unsent, HeldIn, HeldOut, Done

\* The Send an acknowledgement is for.
LEMMA FeedbackAck ==
    ASSUME IInv, NEW n \in Nodes, NEW msg, GoodAck(n, msg, View),
           NEW x \in Feedback(n, msg.id)
    PROVE  /\ x \in Transfers /\ Started(x) /\ Owner[x] = n
           /\ send[x].id = msg.id /\ send[x].pc = "run"
           /\ msg.len \in 1..Got(x)
<1>1. /\ x \in Transfers /\ Started(x) /\ Owner[x] = n /\ send[x].id = msg.id
      /\ send[x].pc = "run"
  BY DEF Feedback, Started
<1>2. PICK y \in Transfers : /\ Owner[y] = n /\ View[y].on
                             /\ msg.id = View[y].id
                             /\ msg.len \in 1..View[y].got
  BY DEF GoodAck
<1>3. Started(y) /\ send[y].id = msg.id /\ View[y].got = Got(y)
  BY <1>2 DEF View
<1>4. y = x
  BY <1>1, <1>2, <1>3 DEF IInv, IdInv
<1> QED
  BY <1>1, <1>2, <1>3, <1>4

\* ackChan <- msg
LEMMA AckPassed ==
    ASSUME IInv, NEW x \in Transfers, Started(x), send[x].pc = "run",
           NEW len \in 1..Got(x),
           send' = [send EXCEPT ![x].acks = Append(send[x].acks, len)],
           UNCHANGED <<nextId, bufs, delivered, mtu>>
    PROVE  /\ View' = View /\ IdInv' /\ send' \in [Transfers -> SendRec]
           /\ \A y \in Transfers : /\ SendInv(y)' /\ BufInv(y)' /\ AckedInv(y)'
                                   /\ Started(y)' = Started(y)
<1>1. /\ send[x] \in SendRec /\ send[x].acks \in Seq(Nat) /\ SendInv(x)
      /\ AckedInv(x) /\ Got(x) \in Nat
  BY SendFacts
<1> DEFINE a == Append(send[x].acks, len)
           r == [send[x] EXCEPT !.acks = a]
<1>2. a \in Seq(Nat) /\ \A i \in 1..Len(a) : a[i] \in 1..Got(x)
  <2>1. len \in Nat
    BY <1>1
  <2>2. /\ a \in Seq(Nat) /\ Len(a) = Len(send[x].acks) + 1
        /\ \A i \in 1..Len(send[x].acks) : a[i] = send[x].acks[i]
        /\ a[Len(send[x].acks) + 1] = len /\ Len(send[x].acks) \in Nat
    BY <1>1, <2>1, AppendProperties, LenProperties
  <2>3. \A i \in 1..Len(send[x].acks) : send[x].acks[i] \in 1..Got(x)
    BY <1>1 DEF AckedInv
  <2> QED
    BY <2>2, <2>3
<1>3. send' = [send EXCEPT ![x] = r]
  BY DEF IInv, TypeOK
<1> HIDE DEF a
<1>4. /\ r \in SendRec /\ r.pc = "run" /\ r.id = send[x].id
      /\ r.pos = send[x].pos /\ r.out = send[x].out /\ r.total = send[x].total
      /\ r.outLen = send[x].outLen /\ r.inLen = send[x].inLen /\ r.acks = a
  BY <1>1, <1>2 DEF SendRec
<1> HIDE DEF r
<1>5. /\ r.out = "push" => send[x].pos < Size[x]
      /\ r.total \in {None, Size[x]} /\ r.outLen \in {0, Size[x]}
      /\ r.inLen <= Got(x)
  BY <1>1, <1>4 DEF SendInv, AckedInv
<1> QED
  BY <1>2, <1>3, <1>4, <1>5, SendFrame

LEMMA HandleAckInv ==
    ASSUME IInv, NEW n \in Nodes, HandleAck(n)
    PROVE  IInv'
<1> DEFINE msg == Head(exIn[n])
           m == Peer(n)
<1>1. Typed
  BY DEF IInv, Typed
<1>2. /\ exIn[n] # <<>> /\ msg.type = "ack" /\ tm[n] = "run"
      /\ exIn' = [exIn EXCEPT ![n] = Tail(exIn[n])]
      /\ UNCHANGED <<stage, held, mtu, wire, exOut, bufs, nextId, client, asked,
                     delivered>>
  BY DEF HandleAck, stageVars
<1>3. /\ Pipe(m) \in Seq(Messages) /\ Pipe(m) # <<>> /\ Head(Pipe(m)) = msg
      /\ Pipe(m)' = Tail(Pipe(m)) /\ msg \in Exchanged
      /\ Tail(exIn[n]) \in Seq(Exchanged) /\ Tail(exIn[n]) \in Seq(Messages)
      /\ exIn'[n] = Tail(exIn[n]) /\ exIn'[m] = exIn[m]
  BY <1>1, <1>2, TakeIn
<1>4. m \in Nodes /\ Peer(m) = n /\ m # n /\ Nodes = {n, m}
  BY PeerPeer
<1>5. GoodAck(n, msg, View) /\ msg \in Acks /\ msg \in Messages
  <2>1. PipeOK(Pipe(m), m, View)
    BY <1>4 DEF IInv, FlowInv
  <2>2. 1 \in 1..Len(Pipe(m)) /\ Pipe(m)[1] = msg
    BY <1>3, HeadTailProperties, LenProperties
  <2> QED
    BY <2>1, <2>2, <1>2, <1>3, <1>4, MessageTypes DEF PipeOK
<1>6. Pipe(n)' = Pipe(n)
  BY <1>2, <1>3, PipeSame
<1>7. PipesKept
  <2>1. PipeKept(m)
    BY <1>2, <1>3 DEF PipeKept
  <2>2. PipeKept(n)
    BY <1>6 DEF PipeKept
  <2>3. \A k \in Nodes : Done(k) => Done(k)'
    BY <1>2 DEF Done
  <2> QED
    BY <2>1, <2>2, <2>3, <1>4 DEF PipesKept
<1> HIDE DEF msg
<1>8. \/ /\ tm' = [tm EXCEPT ![n] = "error"] /\ UNCHANGED <<send, cur>>
      \/ \E x \in Feedback(n, msg.id) :
           \/ /\ send' = [send EXCEPT ![x].acks = Append(send[x].acks, msg.len)]
              /\ UNCHANGED <<tm, cur>>
           \/ /\ tm' = [tm EXCEPT ![n] = "feedback"]
              /\ cur' = [cur EXCEPT ![n] = msg]
              /\ UNCHANGED send
  BY DEF HandleAck, msg
<1>9. /\ View' = View /\ IdInv' /\ send' \in [Transfers -> SendRec]
      /\ \A y \in Transfers : SendInv(y)' /\ BufInv(y)' /\ AckedInv(y)'
  <2>1. CASE UNCHANGED send
    <3>1. UNCHANGED <<send, nextId, bufs, delivered, mtu>>
      BY <2>1, <1>2
    <3>2. /\ View' = View /\ \A x \in Transfers : Started(x)' = Started(x)
          /\ \A x \in Transfers : Got(x)' = Got(x) /\ Buf(x)' = Buf(x)
      BY <3>1 DEF View, Started, Got, Buf
    <3>3. IdInv'
      <4>1. \A k \in Nodes : delivered[k] \subseteq Transfers
        BY DEF IInv, TypeOK
      <4> QED
        BY <3>1, <3>2, <4>1 DEF IInv, IdInv
    <3>4. ASSUME NEW x \in Transfers
          PROVE  SendInv(x)' /\ BufInv(x)' /\ AckedInv(x)'
      BY <3>1, <3>2 DEF IInv, SendInv, BufInv, AckedInv
    <3> QED
      BY <3>1, <3>2, <3>3, <3>4 DEF IInv, TypeOK
  <2>2. ASSUME NEW x \in Feedback(n, msg.id),
               send' = [send EXCEPT ![x].acks = Append(send[x].acks, msg.len)]
        PROVE  /\ View' = View /\ IdInv' /\ send' \in [Transfers -> SendRec]
               /\ \A y \in Transfers : SendInv(y)' /\ BufInv(y)' /\ AckedInv(y)'
    <3>1. /\ x \in Transfers /\ Started(x) /\ send[x].pc = "run"
          /\ msg.len \in 1..Got(x)
      BY <2>2, <1>5, FeedbackAck
    <3>2. UNCHANGED <<nextId, bufs, delivered, mtu>>
      BY <1>2
    <3> DEFINE len == msg.len
    <3> HIDE DEF len
    <3>3. /\ len \in 1..Got(x)
          /\ send' = [send EXCEPT ![x].acks = Append(send[x].acks, len)]
      BY <3>1, <2>2 DEF len
    <3> QED
      BY <3>1, <3>2, <3>3, AckPassed
  <2> QED
    BY <2>1, <2>2, <1>8
<1>10. /\ tm \in [Nodes -> {"none", "run", "feedback", "ack", "deliver", "error",
                            "gone"}]
       /\ cur \in [Nodes -> Messages \cup {None}]
       /\ exIn \in [Nodes -> Seq(Messages)]
  BY DEF IInv, TypeOK
<1>11. /\ tm' \in [Nodes -> {"none", "run", "feedback", "ack", "deliver", "error",
                             "gone"}]
       /\ cur' \in [Nodes -> Messages \cup {None}]
       /\ tm'[m] = tm[m] /\ cur'[m] = cur[m] /\ tm'[n] \in {"run", "error", "feedback"}
       /\ tm'[n] = "feedback" => cur'[n] = msg
  <2>1. CASE tm' = [tm EXCEPT ![n] = "error"] /\ UNCHANGED <<send, cur>>
    BY <2>1, <1>4, <1>10
  <2>2. CASE UNCHANGED <<tm, cur>>
    BY <2>2, <1>2, <1>10
  <2>3. CASE /\ tm' = [tm EXCEPT ![n] = "feedback"]
             /\ cur' = [cur EXCEPT ![n] = msg]
    BY <2>3, <1>4, <1>5, <1>10
  <2> QED
    BY <2>1, <2>2, <2>3, <1>8
<1>12. Typed'
  <2>1. TypeOK'
    BY <1>2, <1>3, <1>9, <1>10, <1>11 DEF IInv, TypeOK
  <2>2. StageInv(m)'
    <3>1. StageInv(m) /\ InitsOK(wire'[m], m)
      BY <1>2, <1>4 DEF IInv, StageInv
    <3> QED
      BY <3>1, <1>2, <1>3, <1>4, <1>11, StageFrame
  <2>3. StageInv(n)'
    <3>1. StageInv(n) /\ client[n] # "starting"
      BY <1>2 DEF IInv, StageInv
    <3> QED
      BY <3>1, <1>2, <1>3 DEF StageInv
  <2> QED
    BY <2>1, <2>2, <2>3, <1>4 DEF Typed
<1>13. FlowInv'
  BY <1>1, <1>7, <1>9, <1>12, FlowKept DEF IInv, PipesKept
<1>14. TmInv(n)'
  BY <1>5, <1>9, <1>11 DEF TmInv
<1>15. TmInv(m)'
  <2>1. TmInv(m)
    BY <1>4 DEF IInv
  <2> QED
    BY <2>1, <1>2, <1>9, <1>11 DEF TmInv
<1> QED
  BY <1>4, <1>9, <1>12, <1>13, <1>14, <1>15 DEF IInv, Typed

LEMMA PassAckInv ==
    ASSUME IInv, NEW n \in Nodes, PassAck(n)
    PROVE  IInv'
<1>1. /\ tm[n] = "feedback"
      /\ tm' = [tm EXCEPT ![n] = "run"] /\ cur' = [cur EXCEPT ![n] = None]
      /\ UNCHANGED <<stage, held, mtu, wire, exIn, exOut, bufs, nextId, client,
                     asked, delivered>>
  BY DEF PassAck, stageVars
<1>2. GoodAck(n, cur[n], View)
  BY <1>1 DEF IInv, TmInv
<1>3. PICK x \in Feedback(n, cur[n].id) :
         send' = [send EXCEPT ![x].acks = Append(send[x].acks, cur[n].len)]
  BY DEF PassAck
<1>4. /\ View' = View /\ IdInv' /\ send' \in [Transfers -> SendRec]
      /\ \A y \in Transfers : /\ SendInv(y)' /\ BufInv(y)' /\ AckedInv(y)'
                              /\ Started(y)' = Started(y)
  BY <1>1, <1>2, <1>3, FeedbackAck, AckPassed
<1>5. /\ tm' \in [Nodes -> {"none", "run", "feedback", "ack", "deliver", "error",
                            "gone"}]
      /\ cur' \in [Nodes -> Messages \cup {None}]
      /\ \A k \in Nodes : k # n => tm'[k] = tm[k] /\ cur'[k] = cur[k]
      /\ tm'[n] = "run"
  BY <1>1 DEF IInv, TypeOK
<1>6. Typed'
  <2>1. TypeOK'
    BY <1>1, <1>4, <1>5 DEF IInv, TypeOK
  <2>2. ASSUME NEW k \in Nodes PROVE StageInv(k)'
    <3>1. StageInv(k) /\ (k = n => client[k] # "starting")
      BY <1>1 DEF IInv, StageInv
    <3> QED
      BY <3>1, <1>1, <1>5 DEF StageInv
  <2> QED
    BY <2>1, <2>2 DEF Typed
<1>7. PipesKept
  <2>1. \A k \in Nodes : Pipe(k)' = Pipe(k) /\ Done(k)' = Done(k)
    BY <1>1 DEF Pipe, Outgoing, Read, Unsent, HeldIn, HeldOut, Done
  <2> QED
    BY <2>1 DEF PipesKept, PipeKept
<1>8. FlowInv'
  BY <1>4, <1>6, <1>7, FlowKept DEF IInv, Typed, PipesKept
<1>9. ASSUME NEW k \in Nodes PROVE TmInv(k)'
  <2>1. TmInv(k)
    BY DEF IInv
  <2>2. CASE k = n
    BY <2>2, <1>5 DEF TmInv
  <2>3. CASE k # n
    BY <2>1, <2>3, <1>1, <1>4, <1>5 DEF TmInv
  <2> QED
    BY <2>2, <2>3
<1> QED
  BY <1>4, <1>6, <1>8, <1>9 DEF IInv, Typed

-----------------------------------------------------------------------------
(* Send calls start and send.                                              *)

\* Transfers stay started, and nothing that was sent or has arrived is undone.
Grows(v, w) ==
    \A x \in Transfers : v[x].on =>
        /\ w[x].on /\ w[x].id = v[x].id
        /\ v[x].pos <= w[x].pos /\ v[x].got <= w[x].got

LEMMA GrowsAck ==
    ASSUME NEW v \in Views, NEW w \in Views, Grows(v, w),
           NEW n, NEW msg, GoodAck(n, msg, v)
    PROVE  GoodAck(n, msg, w)
<1>1. \A x \in Transfers : v[x].got \in Nat /\ w[x].got \in Nat
  BY DEF Views
<1>2. PICK x \in Transfers : /\ Owner[x] = n /\ v[x].on /\ msg.id = v[x].id
                             /\ msg.len \in 1..v[x].got
  BY DEF GoodAck
<1>3. msg.len \in 1..w[x].got /\ w[x].on /\ msg.id = w[x].id
  BY <1>1, <1>2 DEF Grows
<1> QED
  BY <1>2, <1>3 DEF GoodAck

ViewTyped == View \in Views

LEMMA ViewTypes == TypeOK => ViewTyped
<1> SUFFICES ASSUME TypeOK PROVE ViewTyped
  OBVIOUS
<1>1. ASSUME NEW x \in Transfers
      PROVE  /\ Started(x) \in BOOLEAN /\ send[x].id \in Ids
             /\ send[x].pos \in Nat /\ Got(x) \in Nat
  <2>1. send[x] \in SendRec /\ To(x) \in Nodes /\ Size[x] \in Nat
    BY PeerPeer, TcpclAssumption DEF TypeOK, To
  <2>2. send[x].id \in Ids /\ send[x].pos \in Nat
    BY <2>1 DEF SendRec
  <2>3. Buf(x) \in [data : Seq(Bytes), end : BOOLEAN]
    BY <2>1, <2>2 DEF TypeOK, Buf
  <2>4. Len(Buf(x).data) \in Nat
    BY <2>3, LenProperties
  <2> QED
    BY <2>1, <2>2, <2>4 DEF Got, Started
<1>2. \A x \in Transfers : (IF Started(x) THEN Got(x) ELSE 0) \in Nat
  BY <1>1
<1> QED
  BY <1>1, <1>2 DEF ViewTyped, View, Views

(***************************************************************************)
(* What is needed of the views in a step of a Send.                        *)
(***************************************************************************)
LEMMA SendStep ==
    ASSUME IInv, Typed', IdInv', Grows(View, View'),
           \A y \in Transfers : SendInv(y)' /\ BufInv(y)' /\ AckedInv(y)',
           FlowInv',
           UNCHANGED <<tm, cur, bufs>>
    PROVE  IInv'
<1>1. View \in Views /\ View' \in Views
  <2>1. TypeOK /\ TypeOK'
    BY DEF IInv, Typed
  <2>2. ViewTyped
    BY <2>1, ViewTypes
  <2>3. ViewTyped'
    BY <2>1, ViewTypes, PTL
  <2> QED
    BY <2>2, <2>3 DEF ViewTyped
<1>2. ASSUME NEW n \in Nodes PROVE TmInv(n)'
  <2>1. TmInv(n)
    BY DEF IInv
  <2>2. ASSUME NEW k, GoodAck(k, cur[n], View) PROVE GoodAck(k, cur[n], View')
    BY <1>1, <2>2, GrowsAck
  <2> QED
    BY <2>1, <2>2 DEF TmInv
<1> QED
  BY <1>2 DEF IInv, Typed

\* Send is called.
LEMMA SendCallInv ==
    ASSUME IInv, NEW x \in Transfers, Send(x)
    PROVE  IInv'
<1> DEFINE n == Owner[x]
<1>1. /\ send[x].pc = "idle"
      /\ UNCHANGED <<stage, held, mtu, wire, exIn, exOut, tm, cur, bufs, client,
                     asked, delivered>>
  BY DEF Send, stageVars, tmVars
<1>2. /\ send[x] \in SendRec /\ SendInv(x) /\ ~Started(x) /\ n \in Nodes
      /\ To(x) \in Nodes /\ Peer(To(x)) = n /\ Peer(n) = To(x)
      /\ Size[x] \in Nat /\ send[x].pos = 0
  BY <1>1, SendFacts DEF Started, SendInv
<1>3. /\ send \in [Transfers -> SendRec] /\ nextId \in [Nodes -> Nat]
      /\ \A k \in Nodes : delivered[k] \subseteq Transfers
      /\ mtu \in [Nodes -> Nat]
  BY DEF IInv, TypeOK
<1>4. \A k \in Nodes : Pipe(k)' = Pipe(k) /\ Done(k)' = Done(k)
  BY <1>1 DEF Pipe, Outgoing, Read, Unsent, HeldIn, HeldOut, Done
<1>5. \A y \in Transfers : Owner[y] \in Nodes /\ To(y) \in Nodes
  BY TcpclAssumption, PeerPeer DEF To
<1>6. CASE client[n] = "down"
  <2> DEFINE r == [send[x] EXCEPT !.pc = "panic"]
  <2>1. send' = [send EXCEPT ![x] = r] /\ UNCHANGED nextId
    BY <1>6, <1>3 DEF Send
  <2>2. /\ r \in SendRec /\ r.pc = "panic" /\ r.id = send[x].id /\ r.pos = send[x].pos
        /\ r.out = send[x].out /\ r.total = send[x].total /\ r.acks = send[x].acks
        /\ r.inLen = send[x].inLen /\ r.outLen = send[x].outLen
    BY <1>2 DEF SendRec
  <2> HIDE DEF r
  <2>3. send'[x] = r /\ \A y \in Transfers \ {x} : send'[y] = send[y]
    BY <2>1, <1>3
  <2>4. ~Started(x)'
    BY <2>2, <2>3 DEF Started
  <2>5. ASSUME NEW y \in Transfers
        PROVE  /\ send'[y].id = send[y].id /\ send'[y].pos = send[y].pos
               /\ Started(y)' = Started(y)
    <3>1. CASE y = x
      BY <3>1, <2>2, <2>3, <2>4, <1>2 DEF Started
    <3>2. CASE y # x
      BY <3>2, <2>3 DEF Started
    <3> QED
      BY <3>1, <3>2
  <2>6. \A y \in Transfers : Got(y)' = Got(y) /\ Buf(y)' = Buf(y)
    BY <2>5, <1>1 DEF Got, Buf
  <2>7. View' = View
    BY <2>5, <2>6 DEF View
  <2>8. IdInv'
    BY <2>1, <2>5, <1>1, <1>3 DEF IInv, IdInv
  <2>9. ASSUME NEW y \in Transfers PROVE SendInv(y)' /\ BufInv(y)' /\ AckedInv(y)'
    <3>1. SendInv(y) /\ BufInv(y) /\ AckedInv(y)
      BY DEF IInv
    <3>2. BufInv(y)'
      BY <3>1, <2>5, <2>6, <1>1 DEF BufInv
    <3>3. CASE y = x
      <4>1. SendInv(x)'
        BY <1>1, <1>2, <2>2, <2>3 DEF SendInv
      <4> QED
        BY <3>2, <3>3, <4>1, <2>4 DEF AckedInv
    <3>4. CASE y # x
      BY <3>1, <3>2, <3>4, <2>3, <2>5, <2>6, <1>1 DEF SendInv, AckedInv
    <3> QED
      BY <3>3, <3>4
  <2>10. Typed'
    <3>1. TypeOK'
      BY <1>1, <1>3, <2>1, <2>2 DEF IInv, TypeOK
    <3>2. \A k \in Nodes : StageInv(k)'
      BY <1>1, <2>1 DEF IInv, StageInv
    <3> QED
      BY <3>1, <3>2 DEF Typed
  <2>11. FlowInv'
    BY <2>5, <2>7, <1>4, <1>5 DEF IInv, FlowInv
  <2>12. Grows(View, View')
    <3>1. View \in Views
      BY ViewTypes DEF IInv, ViewTyped
    <3> QED
      BY <3>1, <2>7 DEF Grows, Views
  <2> QED
    BY <1>1, <2>8, <2>9, <2>10, <2>11, <2>12, SendStep
<1>7. CASE client[n] # "down"
  <2> DEFINE i == nextId[n]
             r == [send[x] EXCEPT !.pc = "run", !.out = "next", !.id = i]
  <2>1. /\ client[n] \in {"up", "closing"} /\ i \in Ids
        /\ send' = [send EXCEPT ![x] = r] /\ nextId' = [nextId EXCEPT ![n] = i + 1]
    BY <1>7, <1>3 DEF Send
  <2>2. /\ r \in SendRec /\ r.pc = "run" /\ r.id = i /\ r.pos = 0
        /\ r.out = "next" /\ r.total = None /\ r.acks = <<>>
        /\ r.inLen = 0 /\ r.outLen = 0
    BY <2>1, <1>1, <1>2 DEF SendRec, SendInv
  <2> HIDE DEF r
  <2>3. send'[x] = r /\ \A y \in Transfers \ {x} : send'[y] = send[y]
    BY <2>1, <1>3
  <2>4. /\ nextId'[n] = i + 1 /\ i \in Nat
        /\ \A k \in Nodes : k # n => nextId'[k] = nextId[k]
        /\ nextId' \in [Nodes -> Nat]
        /\ \A k \in Nodes : nextId[k] \in Nat
    BY <2>1, <1>2, <1>3
  <2> HIDE DEF i
  <2>5. Started(x)' /\ send'[x].id = i /\ send'[x].pos = 0
    BY <2>2, <2>3 DEF Started
  <2>6. \A y \in Transfers \ {x} :
           /\ send'[y] = send[y] /\ Started(y)' = Started(y)
           /\ Got(y)' = Got(y) /\ Buf(y)' = Buf(y)
    BY <2>3, <1>1 DEF Started, Got, Buf
  <2>7. Buf(x)' = Unused /\ x \notin delivered[To(x)] /\ Got(x)' = 0
    <3>1. x \notin delivered[To(x)]
      BY <1>2 DEF IInv, IdInv
    <3>2. bufs[To(x)][i] = Unused
      <4>1. i >= nextId[Peer(To(x))] /\ i \in Ids
        BY <2>1, <2>4, <1>2 DEF i
      <4> QED
        BY <4>1, <1>2 DEF IInv, IdInv
    <3>3. Buf(x)' = Unused
      BY <3>2, <2>5, <1>1 DEF Buf
    <3> QED
      BY <3>1, <3>3, <1>1 DEF Got, Unused
  <2>8. /\ View'[x] = [on |-> TRUE, id |-> i, pos |-> 0, got |-> 0]
        /\ \A y \in Transfers \ {x} : View'[y] = View[y]
        /\ ~View[x].on
    BY <2>5, <2>6, <2>7, <1>2 DEF View
  <2>9. IdInv'
    <3>1. ASSUME NEW y \in Transfers, Started(y)'
          PROVE  send'[y].id < nextId'[Owner[y]] /\ send'[y].id \in Nat
                 /\ (y # x => send'[y].id < nextId[Owner[y]])
      <4>1. CASE y = x
        BY <4>1, <2>4, <2>5
      <4>2. CASE y # x
        <5>1. Started(y) /\ send'[y].id = send[y].id
          BY <3>1, <4>2, <2>6
        <5>2. send[y].id < nextId[Owner[y]] /\ send[y].id \in Nat
          BY <5>1, SendFacts DEF IInv, IdInv
        <5>3. nextId[Owner[y]] <= nextId'[Owner[y]] /\ nextId'[Owner[y]] \in Nat
          <6>1. CASE Owner[y] = n
            BY <6>1, <2>4, <1>2 DEF i
          <6>2. CASE Owner[y] # n
            BY <6>2, <2>4, <1>5
          <6> QED
            BY <6>1, <6>2
        <5> QED
          BY <5>1, <5>2, <5>3, <2>4, <1>5
      <4> QED
        BY <4>1, <4>2
    <3>2. ASSUME NEW y \in Transfers, NEW z \in Transfers, Started(y)', Started(z)',
                 Owner[y] = Owner[z], send'[y].id = send'[z].id
          PROVE  y = z
      <4>1. ASSUME NEW u \in Transfers, u # x, Started(u)', Owner[u] = n
            PROVE  send'[u].id # i
        BY <4>1, <3>1, <2>4 DEF i
      <4>2. CASE y # x /\ z # x
        BY <4>2, <3>2, <2>6 DEF IInv, IdInv
      <4>3. CASE y = x \/ z = x
        BY <4>1, <4>3, <3>2, <2>5
      <4> QED
        BY <4>2, <4>3
    <3>3. ASSUME NEW k \in Nodes, NEW j \in Ids, j >= nextId'[Peer(k)]
          PROVE  bufs'[k][j] = Unused
      <4>1. j \in Nat /\ Peer(k) \in Nodes
        BY PeerPeer, TcpclAssumption DEF Ids
      <4>2. j >= nextId[Peer(k)]
        <5>1. CASE Peer(k) = n
          BY <5>1, <4>1, <3>3, <2>4 DEF i
        <5>2. CASE Peer(k) # n
          BY <5>2, <4>1, <3>3, <2>4
        <5> QED
          BY <5>1, <5>2
      <4> QED
        BY <4>2, <1>1 DEF IInv, IdInv
    <3>4. ASSUME NEW k \in Nodes, NEW y \in delivered'[k]
          PROVE  Started(y)' /\ To(y) = k
      <4>1. y \in delivered[k] /\ y \in Transfers
        BY <1>1, <1>3
      <4>2. Started(y) /\ To(y) = k
        BY <4>1 DEF IInv, IdInv
      <4> QED
        BY <4>1, <4>2, <2>5, <2>6
    <3> QED
      BY <3>1, <3>2, <3>3, <3>4 DEF IdInv
  <2>10. ASSUME NEW y \in Transfers PROVE SendInv(y)' /\ BufInv(y)' /\ AckedInv(y)'
    <3>1. SendInv(y) /\ BufInv(y) /\ AckedInv(y)
      BY DEF IInv
    <3>2. CASE y = x
      <4>1. SendInv(x)'
        <5>1. 0 = 0 * mtu'[n]
          BY <1>1, <1>2, <1>3
        <5> QED
          BY <5>1, <1>2, <2>2, <2>3 DEF SendInv
      <4>2. BufInv(x)'
        <5>1. Payload(x, 1, 0) = <<>>
          BY DEF Payload
        <5>2. Buf(x)'.data = <<>> /\ Buf(x)'.end = FALSE /\ Len(<<>>) = 0
          BY <2>7 DEF Unused
        <5>3. Size[x] # 0
          BY SendFacts
        <5> QED
          BY <5>1, <5>2, <5>3, <2>5, <2>7, <1>1 DEF BufInv
      <4>3. AckedInv(x)'
        <5>1. send'[x].inLen = 0 /\ send'[x].acks = <<>> /\ send'[x].pc = "run"
          BY <2>2, <2>3
        <5> QED
          BY <5>1, <2>7 DEF AckedInv
      <4> QED
        BY <4>1, <4>2, <4>3, <3>2
    <3>3. CASE y # x
      <4>1. /\ send'[y] = send[y] /\ Started(y)' = Started(y)
            /\ Got(y)' = Got(y) /\ Buf(y)' = Buf(y)
        BY <3>3, <2>6
      <4> QED
        BY <4>1, <3>1, <1>1 DEF SendInv, BufInv, AckedInv
    <3> QED
      BY <3>2, <3>3
  <2>11. Typed'
    <3>1. TypeOK'
      BY <1>1, <1>3, <2>1, <2>2, <2>4 DEF IInv, TypeOK
    <3>2. ASSUME NEW k \in Nodes PROVE StageInv(k)'
      <4>1. StageInv(k)
        BY DEF IInv
      <4>2. CASE k = n
        BY <4>1, <4>2, <2>1, <1>1 DEF StageInv
      <4>3. CASE k # n
        BY <4>1, <4>3, <2>4, <1>1 DEF StageInv
      <4> QED
        BY <4>2, <4>3
    <3> QED
      BY <3>1, <3>2 DEF Typed
  <2>12. View \in Views /\ View' \in Views
    <3>1. ViewTyped /\ TypeOK'
      BY <2>11, ViewTypes DEF IInv, Typed
    <3>2. ViewTyped'
      BY <3>1, ViewTypes, PTL
    <3> QED
      BY <3>1, <3>2 DEF ViewTyped
  <2>13. Grows(View, View')
    BY <2>8, <2>12 DEF Grows, Views
  <2>14. FlowInv'
    <3>1. \A y \in Transfers : View[y].on => View'[y] = View[y]
      BY <2>8
    <3>2. ASSUME NEW k \in Nodes PROVE PipeOK(Pipe(k)', k, View')
      <4>1. PipeOK(Pipe(k), k, View)
        BY DEF IInv, FlowInv
      <4>2. PipeOK(Pipe(k), k, View')
        <5>1. \A y \in Transfers : View[y].on =>
                 /\ View'[y].on /\ View'[y].id = View[y].id
                 /\ View[y].pos <= View'[y].pos /\ View[y].got <= View'[y].got
                 /\ Owner[y] = k => View'[y].got = View[y].got
          BY <3>1, <2>12 DEF Views
        <5> QED
          BY <4>1, <5>1, <2>12, ViewOK
      <4> QED
        BY <4>2, <1>4
    <3>3. ASSUME NEW y \in Transfers, Started(y)', ~Done(Owner[y])', ~Done(To(y))'
          PROVE  Covered(Pipe(Owner[y])', y, View')
      <4>1. CASE y = x
        BY <4>1, <2>8 DEF Covered
      <4>2. CASE y # x
        <5>1. Covered(Pipe(Owner[y]), y, View)
          BY <4>2, <3>3, <2>6, <1>4, <1>5 DEF IInv, FlowInv
        <5> QED
          BY <5>1, <4>2, <2>8, <1>4, <1>5 DEF Covered
      <4> QED
        BY <4>1, <4>2
    <3> QED
      BY <3>2, <3>3 DEF FlowInv
  <2> QED
    BY <1>1, <2>9, <2>10, <2>11, <2>13, <2>14, SendStep
<1> QED
  BY <1>6, <1>7

\* The peer's SegmentMru is known.
LEMMA KnownMtu ==
    ASSUME IInv, NEW x \in Transfers, Started(x)
    PROVE  /\ mtu[Owner[x]] = Mru[To(x)] /\ mtu[Owner[x]] \in Nat
           /\ mtu[Owner[x]] >= 1 /\ client[Owner[x]] # "starting"
<1>1. /\ Owner[x] \in Nodes /\ To(x) \in Nodes /\ Peer(Owner[x]) = To(x)
      /\ send[x].id \in Nat
  BY SendFacts
<1>2. send[x].id < nextId[Owner[x]] /\ nextId[Owner[x]] \in Nat
  BY <1>1 DEF IInv, IdInv, TypeOK
<1>3. nextId[Owner[x]] # 0
  BY <1>1, <1>2
<1>4. client[Owner[x]] # "starting"
  BY <1>1, <1>3 DEF IInv, StageInv
<1>5. mtu[Owner[x]] = Mru[To(x)]
  <2>1. StageInv(Owner[x])
    BY <1>1 DEF IInv
  <2>2. mtu[Owner[x]] = Mru[Peer(Owner[x])]
    BY <2>1, <1>4 DEF StageInv
  <2> QED
    BY <2>2, <1>1
<1>6. Mru[To(x)] \in Nat \ {0}
  BY <1>1, TcpclAssumption
<1> QED
  BY <1>4, <1>5, <1>6

\* One more full segment.
LEMMA OneMore == \A q, k \in Nat : q + 1 \in Nat /\ q * k + k = (q + 1) * k
OBVIOUS

\* msgOut <- dtm
LEMMA SegmentInv ==
    ASSUME IInv, NEW x \in Transfers, Started(x), send[x].pos < Size[x],
           NEW r \in SendRec, send' = [send EXCEPT ![x] = r],
           r.pos = SegmentEnd(x), r.out = "next", r.pc = send[x].pc,
           r.id = send[x].id, r.total = send[x].total, r.outLen = send[x].outLen,
           r.inLen = send[x].inLen, r.acks = send[x].acks,
           exOut' = [exOut EXCEPT ![Owner[x]] = Append(exOut[Owner[x]], Segment(x))],
           UNCHANGED <<stageVars, exIn, tmVars, nextId, client, asked, delivered>>
    PROVE  IInv'
<1> DEFINE n == Owner[x]
           m == To(x)
           msg == Segment(x)
           lo == send[x].pos
           hi == SegmentEnd(x)
<1>1. UNCHANGED <<stage, held, mtu, wire, exIn, tm, cur, bufs, nextId, client,
                  asked, delivered>>
  BY DEF stageVars, tmVars
<1>2. /\ n \in Nodes /\ m \in Nodes /\ Peer(n) = m /\ Peer(m) = n /\ m # n
      /\ Nodes = {n, m} /\ lo \in Nat /\ Size[x] \in Nat /\ Got(x) \in Nat
      /\ SendInv(x) /\ BufInv(x) /\ AckedInv(x)
  BY SendFacts, PeerPeer
<1>3. /\ mtu[n] = Mru[m] /\ mtu[n] \in Nat /\ mtu[n] >= 1
      /\ client[n] # "starting"
  BY KnownMtu
<1>4. /\ hi \in Nat /\ lo < hi /\ hi <= Size[x] /\ msg \in Exchanged
      /\ Of(msg) = x /\ Lo(msg) = lo /\ Hi(msg) = hi
  BY <1>3, SegmentType DEF IInv
<1>5. /\ msg.type = "segment" /\ msg.id = send[x].id
      /\ msg.data = Payload(x, lo + 1, hi)
      /\ msg.end = (Size[x] - lo < mtu[n]) /\ msg \in Messages
  BY <1>4, MessageTypes DEF Segment
<1>6. lo # Size[x] /\ \E q \in Nat : lo = q * mtu[n]
  BY <1>2 DEF SendInv
<1>7. /\ hi = Size[x] \/ \E q \in Nat : hi = q * mtu[n]
      /\ msg.end => hi = Size[x]
      /\ ShortTail(x) /\ hi = Size[x] => msg.end
  <2>1. PICK q \in Nat : lo = q * mtu[n]
    BY <1>6
  <2>2. q + 1 \in Nat /\ lo + mtu[n] = (q + 1) * mtu[n]
    BY <2>1, <1>3, OneMore
  <2>3. CASE Size[x] - lo < mtu[n]
    BY <2>3, <1>5 DEF SegmentEnd
  <2>4. CASE ~(Size[x] - lo < mtu[n])
    <3>1. hi = (q + 1) * mtu[n] /\ ~msg.end
      BY <2>2, <2>4, <1>5 DEF SegmentEnd
    <3>2. ShortTail(x) => hi # Size[x]
      BY <3>1, <2>2, <1>3 DEF ShortTail
    <3> QED
      BY <3>1, <3>2, <2>2
  <2> QED
    BY <2>3, <2>4
<1>8. /\ send \in [Transfers -> SendRec] /\ exOut \in [Nodes -> Seq(Messages)]
      /\ \A k \in Nodes : delivered[k] \subseteq Transfers
      /\ send'[x] = r /\ \A y \in Transfers \ {x} : send'[y] = send[y]
      /\ send' \in [Transfers -> SendRec]
  BY DEF IInv, TypeOK
<1> HIDE DEF msg, lo, hi
<1>9. ASSUME NEW y \in Transfers
      PROVE  /\ Started(y)' = Started(y) /\ send'[y].id = send[y].id
             /\ Got(y)' = Got(y) /\ Buf(y)' = Buf(y)
  <2>1. send'[y].id = send[y].id /\ send'[y].pc = send[y].pc
    BY <1>8
  <2> QED
    BY <2>1, <1>1 DEF Started, Got, Buf
<1>10. /\ \A y \in Transfers \ {x} : View'[y] = View[y]
       /\ View'[x].on = View[x].on /\ View'[x].id = View[x].id
       /\ View'[x].got = View[x].got /\ View'[x].pos = hi
       /\ View[x].on /\ View[x].pos = lo /\ View[x].got = Got(x)
       /\ View[x].id = send[x].id
  BY <1>8, <1>9 DEF View, lo, hi
<1>11. IdInv'
  BY <1>1, <1>8, <1>9 DEF IInv, IdInv
<1>12. ASSUME NEW y \in Transfers PROVE SendInv(y)' /\ BufInv(y)' /\ AckedInv(y)'
  <2>1. SendInv(y) /\ BufInv(y) /\ AckedInv(y)
    BY DEF IInv
  <2>2. CASE y = x
    <3>1. SendInv(x)'
      <4>1. send[x].pc \notin {"idle", "panic"}
        BY DEF Started
      <4>2. send'[x].pos = hi /\ mtu'[Owner[x]] = mtu[n]
        BY <1>1, <1>8 DEF hi
      <4> QED
        BY <4>1, <4>2, <1>2, <1>4, <1>7, <1>8 DEF SendInv
    <3>2. BufInv(x)'
      <4>1. Got(x) <= send'[x].pos
        <5>1. Got(x) <= lo /\ send'[x].pos = hi
          BY <1>2, <1>8 DEF BufInv, lo, hi
        <5> QED
          BY <5>1, <1>2, <1>4
      <4> QED
        BY <4>1, <2>1, <2>2, <1>1, <1>9 DEF BufInv
    <3>3. AckedInv(x)'
      BY <2>1, <2>2, <1>8, <1>9 DEF AckedInv
    <3> QED
      BY <2>2, <3>1, <3>2, <3>3
  <2>3. CASE y # x
    <3>1. send'[y] = send[y]
      BY <2>3, <1>8
    <3> QED
      BY <3>1, <2>1, <1>1, <1>9 DEF SendInv, BufInv, AckedInv
  <2> QED
    BY <2>2, <2>3
<1>13. /\ exOut'[n] = Append(exOut[n], msg) /\ exOut'[m] = exOut[m]
       /\ exOut' \in [Nodes -> Seq(Messages)]
  <2>1. exOut[n] \in Seq(Messages)
    BY <1>2, <1>8
  <2>2. Append(exOut[n], msg) \in Seq(Messages)
    BY <2>1, <1>5, AppendProperties
  <2> QED
    BY <2>2, <1>2, <1>8 DEF msg
<1>14. Typed'
  <2>1. TypeOK'
    BY <1>1, <1>8, <1>13 DEF IInv, TypeOK
  <2>2. StageInv(n)'
    <3>1. StageInv(n)
      BY <1>2 DEF IInv
    <3>2. Append(exOut[n], msg) \in Seq(Exchanged)
      BY <3>1, <1>4, AppendProperties DEF StageInv
    <3> QED
      BY <3>1, <3>2, <1>1, <1>3, <1>13 DEF StageInv
  <2>3. StageInv(m)'
    <3>1. StageInv(m)
      BY <1>2 DEF IInv
    <3> QED
      BY <3>1, <1>1, <1>13 DEF StageInv
  <2> QED
    BY <2>1, <2>2, <2>3, <1>2 DEF Typed
<1>15. View \in Views /\ View' \in Views
  <2>1. ViewTyped /\ TypeOK'
    BY <1>14, ViewTypes DEF IInv, Typed
  <2>2. ViewTyped'
    BY <2>1, ViewTypes, PTL
  <2> QED
    BY <2>1, <2>2 DEF ViewTyped
<1>16. \A y \in Transfers :
          /\ View'[y].on = View[y].on /\ View'[y].id = View[y].id
          /\ View[y].pos <= View'[y].pos /\ View[y].got <= View'[y].got
          /\ View'[y].got = View[y].got
  <2>1. ASSUME NEW y \in Transfers
        PROVE  /\ View'[y].on = View[y].on /\ View'[y].id = View[y].id
               /\ View[y].pos <= View'[y].pos /\ View[y].got <= View'[y].got
               /\ View'[y].got = View[y].got
    <3>1. View[y].pos \in Nat /\ View[y].got \in Nat
      BY <1>15 DEF Views
    <3>2. CASE y = x
      BY <3>1, <3>2, <1>2, <1>4, <1>10
    <3>3. CASE y # x
      BY <3>1, <3>3, <1>10
    <3> QED
      BY <3>2, <3>3
  <2> QED
    BY <2>1
<1>17. Grows(View, View')
  BY <1>16 DEF Grows
<1>18. ASSUME NEW k \in Nodes PROVE PipeOK(Pipe(k), k, View')
  <2>1. PipeOK(Pipe(k), k, View)
    BY DEF IInv, FlowInv
  <2> QED
    BY <2>1, <1>15, <1>16, ViewOK
<1>19. GoodSegment(n, msg, View')
  <2>1. View'[x].got <= lo
    BY <1>2, <1>10 DEF BufInv, lo
  <2> QED
    BY <2>1, <1>2, <1>4, <1>5, <1>7, <1>10 DEF GoodSegment
<1>20. /\ Pipe(m)' = Pipe(m)
       /\ Pipe(n)' = IF Done(n) \/ Done(m) THEN Pipe(n) ELSE Append(Pipe(n), msg)
       /\ Done(n)' = Done(n) /\ Done(m)' = Done(m)
       /\ Pipe(n) \in Seq(Messages)
  <2>1. Typed
    BY DEF IInv, Typed
  <2>2. Pipe(m)' = Pipe(m)
    BY <1>1, <1>2, <1>13, PipeSame
  <2>3. Pipe(n)' = IF Done(n) \/ Done(m) THEN Pipe(n) ELSE Append(Pipe(n), msg)
    BY <2>1, <1>1, <1>2, <1>5, <1>13, PushOut
  <2>4. Pipe(n) \in Seq(Messages)
    BY <2>1, <1>2, FlowTypes DEF FlowTyped
  <2> QED
    BY <2>2, <2>3, <2>4, <1>1 DEF Done
<1>21. \A y \in Transfers :
          Started(y) /\ ~Done(Owner[y]) /\ ~Done(To(y))
             => Covered(Pipe(Owner[y]), y, View)
  BY DEF IInv, FlowInv
<1>22. ASSUME ~Done(n), ~Done(m)
       PROVE  /\ PipeOK(Append(Pipe(n), msg), n, View')
              /\ \A y \in Transfers : Covered(Pipe(n), y, View) =>
                    Covered(Append(Pipe(n), msg), y, View')
  <2>1. Covered(Pipe(n), x, View) /\ PipeOK(Pipe(n), n, View)
    BY <1>2, <1>21, <1>22 DEF IInv, FlowInv
  <2>2. View'[x].pos = Hi(msg) /\ Lo(msg) = View[x].pos
    BY <1>4, <1>10
  <2> DEFINE v == View
             w == View'
             p == Pipe(n)
  <2>3. /\ v \in Views /\ w \in Views /\ p \in Seq(Messages) /\ msg \in Messages
        /\ PipeOK(p, n, v) /\ Covered(p, x, v)
        /\ msg.type = "segment" /\ Of(msg) = x /\ Lo(msg) = v[x].pos
        /\ \A y \in Transfers \ {x} : w[y] = v[y]
        /\ w[x].on = v[x].on /\ w[x].id = v[x].id /\ w[x].got = v[x].got
        /\ w[x].pos = Hi(msg) /\ GoodSegment(n, msg, w)
    BY <2>1, <2>2, <1>4, <1>5, <1>10, <1>15, <1>19, <1>20
  <2> HIDE DEF v, w, p
  <2>4. /\ PipeOK(Append(p, msg), n, w)
        /\ \A y \in Transfers : Covered(p, y, v) => Covered(Append(p, msg), y, w)
    BY <2>3, PushOK
  <2> QED
    BY <2>4 DEF v, w, p
<1>23. FlowInv'
  <2>1. PipeOK(Pipe(m)', m, View')
    BY <1>2, <1>18, <1>20
  <2>2. PipeOK(Pipe(n)', n, View')
    BY <1>2, <1>18, <1>20, <1>22
  <2>3. ASSUME NEW y \in Transfers, Started(y)', ~Done(Owner[y])', ~Done(To(y))'
        PROVE  Covered(Pipe(Owner[y])', y, View')
    <3>1. /\ Started(y) /\ {Owner[y], To(y)} = {n, m}
          /\ Owner[y] \in {n, m}
      BY <2>3, <1>2, <1>9, PeerPeer, TcpclAssumption DEF To
    <3>2. ~Done(n) /\ ~Done(m)
      BY <3>1, <2>3, <1>20
    <3>3. Covered(Pipe(Owner[y]), y, View)
      BY <3>1, <3>2, <1>21
    <3>4. CASE Owner[y] = n
      BY <3>2, <3>3, <3>4, <1>20, <1>22
    <3>5. CASE Owner[y] = m
      <4>1. y # x
        BY <3>5, <1>2
      <4>2. View'[y] = View[y]
        BY <4>1, <1>10
      <4> QED
        BY <4>2, <3>3, <3>5, <1>20 DEF Covered
    <3> QED
      BY <3>1, <3>4, <3>5
  <2> QED
    BY <2>1, <2>2, <2>3, <1>2 DEF FlowInv
<1> QED
  BY <1>1, <1>11, <1>12, <1>14, <1>17, <1>23, SendStep

LEMMA NextSegmentInv ==
    ASSUME IInv, NEW x \in Transfers, NextSegment(x)
    PROVE  IInv'
<1>1. /\ send[x].out = "next" /\ send[x].pos < Size[x]
      /\ UNCHANGED <<stageVars, exIn, tmVars, nextId, client, asked, delivered>>
  BY DEF NextSegment
<1>2. /\ Started(x) /\ send[x] \in SendRec /\ SendInv(x) /\ AckedInv(x)
      /\ send[x].pc \in {"run", "ok", "failed"}
  BY <1>1, SendFacts, RunningStarted DEF Started
<1>3. send \in [Transfers -> SendRec]
  BY DEF IInv, TypeOK
<1>4. CASE Len(exOut[Owner[x]]) < ChanCap
  <2> DEFINE r == [send[x] EXCEPT !.pos = SegmentEnd(x)]
  <2>1. /\ send' = [send EXCEPT ![x] = r]
        /\ exOut' = [exOut EXCEPT ![Owner[x]] = Append(exOut[Owner[x]], Segment(x))]
    BY <1>3, <1>4 DEF NextSegment
  <2>2. SegmentEnd(x) \in Nat
    BY <1>1, <1>2, KnownMtu, SegmentType DEF IInv
  <2>3. /\ r \in SendRec /\ r.pos = SegmentEnd(x) /\ r.out = "next"
        /\ r.pc = send[x].pc /\ r.id = send[x].id /\ r.total = send[x].total
        /\ r.outLen = send[x].outLen /\ r.inLen = send[x].inLen
        /\ r.acks = send[x].acks
    BY <2>2, <1>1, <1>2 DEF SendRec
  <2> HIDE DEF r
  <2> QED
    BY <2>1, <2>3, <1>1, <1>2, SegmentInv
<1>5. CASE ~(Len(exOut[Owner[x]]) < ChanCap)
  <2> DEFINE r == [send[x] EXCEPT !.out = "push"]
  <2>1. send' = [send EXCEPT ![x] = r] /\ UNCHANGED exOut
    BY <1>3, <1>5 DEF NextSegment
  <2>2. /\ r \in SendRec /\ r.pos = send[x].pos
        /\ r.pc = send[x].pc /\ r.id = send[x].id /\ r.total = send[x].total
        /\ r.outLen = send[x].outLen /\ r.inLen = send[x].inLen
        /\ r.acks = send[x].acks
    BY <1>2 DEF SendRec
  <2> HIDE DEF r
  <2>3. /\ r.total \in {None, Size[x]} /\ r.outLen \in {0, Size[x]}
        /\ r.pc \in {"run", "ok", "failed"}
    BY <2>2, <1>2 DEF SendInv
  <2>4. /\ r.inLen <= Got(x) /\ \A i \in 1..Len(r.acks) : r.acks[i] \in 1..Got(x)
        /\ r.pc = "ok" => Got(x) = Size[x]
    BY <2>2, <1>2 DEF AckedInv
  <2> QED
    BY <2>1, <2>2, <2>3, <2>4, <1>1, <1>2, SendOnlyInv
<1> QED
  BY <1>4, <1>5

LEMMA PushSegmentInv ==
    ASSUME IInv, NEW x \in Transfers, PushSegment(x)
    PROVE  IInv'
<1>1. /\ send[x].out = "push"
      /\ UNCHANGED <<stageVars, exIn, tmVars, nextId, client, asked, delivered>>
  BY DEF PushSegment
<1>2. /\ Started(x) /\ send[x] \in SendRec /\ send[x].pos < Size[x]
  BY <1>1, SendFacts, RunningStarted DEF SendInv
<1>3. send \in [Transfers -> SendRec]
  BY DEF IInv, TypeOK
<1> DEFINE r == [send[x] EXCEPT !.pos = SegmentEnd(x), !.out = "next"]
<1>4. /\ send' = [send EXCEPT ![x] = r]
      /\ exOut' = [exOut EXCEPT ![Owner[x]] = Append(exOut[Owner[x]], Segment(x))]
  BY <1>3 DEF PushSegment
<1>5. SegmentEnd(x) \in Nat
  BY <1>2, KnownMtu, SegmentType DEF IInv
<1>6. /\ r \in SendRec /\ r.pos = SegmentEnd(x) /\ r.out = "next"
      /\ r.pc = send[x].pc /\ r.id = send[x].id /\ r.total = send[x].total
      /\ r.outLen = send[x].outLen /\ r.inLen = send[x].inLen
      /\ r.acks = send[x].acks
  BY <1>5, <1>2 DEF SendRec
<1> HIDE DEF r
<1> QED
  BY <1>1, <1>2, <1>4, <1>6, SegmentInv

-----------------------------------------------------------------------------
(* Segments arrive, are acknowledged and delivered.                        *)

\* The bytes in front of a segment and the segment.
LEMMA PayloadConcat ==
    ASSUME NEW x \in Transfers, NEW lo \in Nat, NEW hi \in Nat, lo <= hi
    PROVE  Payload(x, 1, lo) \o Payload(x, lo + 1, hi) = Payload(x, 1, hi)
<1> DEFINE s == Payload(x, 1, lo)
           t == Payload(x, lo + 1, hi)
           u == Payload(x, 1, hi)
<1>1. /\ s \in Seq(Bytes) /\ Len(s) = lo /\ \A k \in 1..lo : s[k] = <<x, 1 + k - 1>>
  <2>1. lo - 1 + 1 = lo /\ 1 \in Nat \ {0} /\ 1 <= lo + 1
    OBVIOUS
  <2> QED
    BY <2>1, PayloadType
<1>2. /\ u \in Seq(Bytes) /\ Len(u) = hi /\ \A k \in 1..hi : u[k] = <<x, 1 + k - 1>>
  <2>1. hi - 1 + 1 = hi /\ 1 \in Nat \ {0} /\ 1 <= hi + 1
    OBVIOUS
  <2> QED
    BY <2>1, PayloadType
<1>3. /\ t \in Seq(Bytes) /\ Len(t) = hi - lo
      /\ \A k \in 1..(hi - lo) : t[k] = <<x, lo + 1 + k - 1>>
  <2>1. /\ hi - (lo + 1) + 1 = hi - lo /\ lo + 1 \in Nat \ {0}
        /\ lo + 1 <= hi + 1
    OBVIOUS
  <2> QED
    BY <2>1, PayloadType
<1> HIDE DEF s, t, u
<1>4. /\ s \o t \in Seq(Bytes) /\ Len(s \o t) = hi
      /\ \A k \in 1..lo : (s \o t)[k] = s[k]
      /\ \A k \in (lo + 1)..hi : (s \o t)[k] = t[k - lo]
  <2>1. /\ s \o t \in Seq(Bytes) /\ Len(s \o t) = Len(s) + Len(t)
        /\ \A k \in 1..(Len(s) + Len(t)) :
              (s \o t)[k] = IF k <= Len(s) THEN s[k] ELSE t[k - Len(s)]
    BY <1>1, <1>3, ConcatProperties
  <2> QED
    BY <2>1, <1>1, <1>3
<1>5. ASSUME NEW k \in 1..hi PROVE (s \o t)[k] = u[k]
  <2>1. CASE k <= lo
    <3>1. k \in 1..lo
      BY <2>1
    <3>2. s[k] = <<x, 1 + k - 1>> /\ u[k] = <<x, 1 + k - 1>>
      BY <3>1, <1>1, <1>2
    <3> QED
      BY <3>1, <3>2, <1>4
  <2>2. CASE ~(k <= lo)
    <3>1. k - lo \in 1..(hi - lo) /\ k \in (lo + 1)..hi /\ lo + 1 + (k - lo) - 1 = 1 + k - 1
      BY <2>2
    <3>2. t[k - lo] = <<x, lo + 1 + (k - lo) - 1>>
      BY <3>1, <1>3
    <3> QED
      BY <3>1, <3>2, <1>2, <1>4
  <2> QED
    BY <2>1, <2>2
<1>6. s \o t = u
  BY <1>2, <1>4, <1>5, SeqEqual
<1> QED
  BY <1>6 DEF s, t, u

\* The next segment out of the pipe.
LEMMA HeadSegment ==
    ASSUME NEW n, NEW v, NEW q \in Seq(Messages), q # <<>>,
           Head(q).type = "segment", PipeOK(q, n, v)
    PROVE  GoodSegment(n, Head(q), v) /\ Lo(Head(q)) = v[Of(Head(q))].got
<1>1. 1 \in 1..Len(q) /\ q[1] = Head(q)
  BY HeadTailProperties, LenProperties
<1>2. GoodSegment(n, q[1], v) /\ Chained(q, 1, v)
  BY <1>1 DEF PipeOK
<1> QED
  BY <1>1, <1>2 DEF Chained

(***************************************************************************)
(* The segment at hand continues what its receiver has.                    *)
(***************************************************************************)
LEMMA SegmentFits ==
    ASSUME IInv, NEW n \in Nodes, HandleSegment(n)
    PROVE  LET msg == Head(exIn[n])
               x == Of(msg)
               buf == WithSegment(bufs[n][msg.id], msg)
           IN /\ GoodSegment(Peer(n), msg, View) /\ Lo(msg) = Got(x)
              /\ x \in Transfers /\ Started(x) /\ Owner[x] = Peer(n) /\ To(x) = n
              /\ msg.id = send[x].id /\ msg.id \in Ids
              /\ x \notin delivered[n] /\ ~Buf(x).end
              /\ Hi(msg) \in Nat /\ Got(x) < Hi(msg) /\ Hi(msg) <= send[x].pos
              /\ Hi(msg) <= Size[x]
              /\ buf = [data |-> Payload(x, 1, Hi(msg)), end |-> msg.end]
              /\ buf.data \in Seq(Bytes) /\ Len(buf.data) = Hi(msg)
              /\ msg.end \in BOOLEAN
<1> DEFINE msg == Head(exIn[n])
           m == Peer(n)
           x == Of(msg)
           buf == WithSegment(bufs[n][msg.id], msg)
<1>1. /\ exIn[n] # <<>> /\ msg.type = "segment"
      /\ exIn' = [exIn EXCEPT ![n] = Tail(exIn[n])]
  BY DEF HandleSegment
<1>2. /\ m \in Nodes /\ Peer(m) = n /\ m # n
  BY PeerPeer
<1>3. PipeOK(Pipe(m), m, View) /\ Typed
  BY <1>2 DEF IInv, FlowInv, Typed
<1>4. /\ Pipe(m) \in Seq(Messages) /\ Pipe(m) # <<>> /\ Head(Pipe(m)) = msg
      /\ msg \in Exchanged
  <2>1. UNCHANGED <<stage, held, wire, client>>
    BY DEF HandleSegment, stageVars
  <2>2. exOut'[m] = exOut[m]
    BY <1>2 DEF HandleSegment, IInv, TypeOK
  <2> QED
    BY <1>1, <1>3, <2>1, <2>2, TakeIn
<1>5. /\ msg.id \in Ids /\ msg.data \in Seq(Bytes) /\ msg.end \in BOOLEAN
  BY <1>1, <1>4, MessageTypes
<1> HIDE DEF msg
<1>6. GoodSegment(m, msg, View) /\ Lo(msg) = View[x].got
  BY <1>1, <1>3, <1>4, HeadSegment
<1>7. /\ x \in Transfers /\ Lo(msg) \in Nat /\ Hi(msg) \in Nat
      /\ Lo(msg) < Hi(msg) /\ Owner[x] = m /\ View[x].on /\ msg.id = View[x].id
      /\ msg.data = Payload(x, Lo(msg) + 1, Hi(msg)) /\ Hi(msg) <= View[x].pos
  BY <1>6 DEF GoodSegment
<1>8. /\ Started(x) /\ msg.id = send[x].id /\ Lo(msg) = Got(x)
      /\ Hi(msg) <= send[x].pos /\ To(x) = n
  BY <1>2, <1>6, <1>7 DEF View, To
<1>9. /\ send[x].pos <= Size[x] /\ send[x].pos \in Nat /\ Size[x] \in Nat
      /\ BufInv(x)
  BY <1>7, SendFacts DEF SendInv
<1> HIDE DEF x
<1>10. Got(x) < Size[x] /\ Hi(msg) <= Size[x] /\ Got(x) \in Nat
  BY <1>7, <1>8, <1>9
<1>11. x \notin delivered[n] /\ Got(x) = Len(Buf(x).data) /\ Buf(x) = bufs[n][msg.id]
  BY <1>8, <1>10 DEF Got, Buf
<1>12. ~Buf(x).end /\ Buf(x).data = Payload(x, 1, Got(x))
  <2>1. /\ Buf(x).data = Payload(x, 1, Len(Buf(x).data))
        /\ Buf(x).end => Len(Buf(x).data) = Size[x]
    BY <1>8, <1>9, <1>11 DEF BufInv
  <2> QED
    BY <2>1, <1>10, <1>11
<1>13. buf = [data |-> Payload(x, 1, Hi(msg)), end |-> msg.end]
  <2>1. Payload(x, 1, Lo(msg)) \o Payload(x, Lo(msg) + 1, Hi(msg)) = Payload(x, 1, Hi(msg))
    <3>1. Lo(msg) <= Hi(msg)
      BY <1>7
    <3> QED
      BY <3>1, <1>7, PayloadConcat
  <2> QED
    BY <2>1, <1>7, <1>8, <1>11, <1>12 DEF WithSegment
<1>14. Payload(x, 1, Hi(msg)) \in Seq(Bytes) /\ Len(Payload(x, 1, Hi(msg))) = Hi(msg)
  <2>1. 1 \in Nat \ {0} /\ 1 <= Hi(msg) + 1 /\ Hi(msg) - 1 + 1 = Hi(msg)
    BY <1>7
  <2> QED
    BY <2>1, <1>7, PayloadType
<1> QED
  BY <1>5, <1>6, <1>7, <1>8, <1>10, <1>11, <1>12, <1>13, <1>14 DEF msg, x

\* msgOut <- dam
LEMMA AckOut ==
    ASSUME Typed, NEW n \in Nodes, NEW ack \in Acks, NEW w,
           PipeOK(Pipe(n), n, w), GoodAck(Peer(n), ack, w),
           exOut'[n] = Append(exOut[n], ack),
           exIn'[Peer(n)] = exIn[Peer(n)],
           UNCHANGED <<stage, held, wire, client>>
    PROVE  /\ PipeOK(Pipe(n)', n, w)
           /\ \A y \in Transfers : Covered(Pipe(n), y, w) => Covered(Pipe(n)', y, w)
<1>1. ack \in Messages /\ ack.type = "ack"
  BY MessageTypes DEF Acks
<1>2. Pipe(n) \in Seq(Messages)
  BY FlowTypes DEF FlowTyped
<1>3. Pipe(n)' = IF Done(n) \/ Done(Peer(n)) THEN Pipe(n) ELSE Append(Pipe(n), ack)
  BY <1>1, PushOut
<1>4. /\ PipeOK(Append(Pipe(n), ack), n, w)
      /\ \A y \in Transfers : Covered(Pipe(n), y, w) => Covered(Append(Pipe(n), ack), y, w)
  <2> DEFINE q == Pipe(n)
  <2>1. q \in Seq(Messages) /\ PipeOK(q, n, w) /\ ack.type # "segment"
    BY <1>1, <1>2
  <2> HIDE DEF q
  <2>2. /\ PipeOK(Append(q, ack), n, w)
        /\ \A y \in Transfers : Covered(q, y, w) => Covered(Append(q, ack), y, w)
    BY <1>1, <2>1, AppendOther
  <2> QED
    BY <2>2 DEF q
<1>5. CASE Done(n) \/ Done(Peer(n))
  BY <1>3, <1>5
<1>6. CASE ~(Done(n) \/ Done(Peer(n)))
  BY <1>3, <1>4, <1>6
<1> QED
  BY <1>5, <1>6

LEMMA SegmentArrives ==
    ASSUME IInv, NEW n \in Nodes, HandleSegment(n),
           NEW msg, msg = Head(exIn[n]), NEW x, x = Of(msg),
           NEW buf, buf = WithSegment(bufs[n][msg.id], msg)
    PROVE  IInv'
<1> DEFINE m == Peer(n)
           i == msg.id
           hi == Hi(msg)
           ack == [type |-> "ack", id |-> i, len |-> Len(buf.data)]
<1>1. /\ tm[n] = "run" /\ exIn[n] # <<>> /\ msg.type = "segment"
      /\ exIn' = [exIn EXCEPT ![n] = Tail(exIn[n])]
      /\ UNCHANGED <<stage, held, mtu, wire, nextId, send, client, asked,
                     delivered>>
  BY DEF HandleSegment, stageVars
<1>2. /\ GoodSegment(m, msg, View) /\ Lo(msg) = Got(x)
      /\ x \in Transfers /\ Started(x) /\ Owner[x] = m /\ To(x) = n
      /\ i = send[x].id /\ i \in Ids
      /\ x \notin delivered[n] /\ ~Buf(x).end
      /\ hi \in Nat /\ Got(x) < hi /\ hi <= send[x].pos /\ hi <= Size[x]
      /\ buf = [data |-> Payload(x, 1, hi), end |-> msg.end]
      /\ buf.data \in Seq(Bytes) /\ Len(buf.data) = hi
      /\ msg.end \in BOOLEAN
  BY SegmentFits
<1>3. bufs[n][i] = Buf(x)
  BY <1>2 DEF Buf
<1>4. /\ bufs' = [bufs EXCEPT ![n][i] = buf]
      /\ cur' = [cur EXCEPT ![n] = ack]
      /\ \/ /\ exOut' = [exOut EXCEPT ![n] = Append(exOut[n], ack)]
            /\ tm' = [tm EXCEPT ![n] = AfterSegment(buf)]
         \/ /\ tm' = [tm EXCEPT ![n] = "ack"]
            /\ UNCHANGED exOut
  BY <1>2, <1>3 DEF HandleSegment
<1>5. /\ m \in Nodes /\ Peer(m) = n /\ m # n /\ Nodes = {n, m}
  BY PeerPeer
<1>6. /\ Typed /\ PipeOK(Pipe(m), m, View) /\ PipeOK(Pipe(n), n, View)
  BY <1>5 DEF IInv, FlowInv, Typed
<1>7. /\ bufs \in [Nodes -> [Ids -> [data : Seq(Bytes), end : BOOLEAN]]]
      /\ cur \in [Nodes -> Messages \cup {None}]
      /\ exOut \in [Nodes -> Seq(Messages)] /\ exIn \in [Nodes -> Seq(Messages)]
      /\ tm \in [Nodes -> {"none", "run", "feedback", "ack", "deliver", "error",
                           "gone"}]
      /\ \A k \in Nodes : delivered[k] \subseteq Transfers
  BY DEF IInv, TypeOK
<1>8. exOut'[m] = exOut[m]
  BY <1>4, <1>5, <1>7
<1>9. /\ Pipe(m) \in Seq(Messages) /\ Pipe(m) # <<>> /\ Head(Pipe(m)) = msg
      /\ Pipe(m)' = Tail(Pipe(m)) /\ Tail(exIn[n]) \in Seq(Exchanged)
      /\ Tail(exIn[n]) \in Seq(Messages)
      /\ exIn'[n] = Tail(exIn[n]) /\ exIn'[m] = exIn[m]
  BY <1>1, <1>6, <1>8, TakeIn
<1> DEFINE st == AfterSegment(buf)
<1>10. st \in {"run", "error", "deliver"} /\ (st = "deliver" => buf.end)
  BY DEF AfterSegment
<1>11. buf \in [data : Seq(Bytes), end : BOOLEAN] /\ buf.end = msg.end
  BY <1>2
<1>12. ack \in Acks /\ ack.id = i /\ ack.len = hi
  BY <1>2 DEF Acks
<1> HIDE DEF i, hi, ack, st
<1>13. /\ bufs'[n][i] = buf /\ bufs'[m] = bufs[m]
       /\ \A j \in Ids \ {i} : bufs'[n][j] = bufs[n][j]
       /\ bufs' \in [Nodes -> [Ids -> [data : Seq(Bytes), end : BOOLEAN]]]
  BY <1>2, <1>4, <1>5, <1>7, <1>11
<1>14. \A y \in Transfers : Started(y)' = Started(y)
  BY <1>1 DEF Started
<1>15. ASSUME NEW y \in Transfers \ {x}, Started(y)
       PROVE  Buf(y)' = Buf(y) /\ Got(y)' = Got(y)
  <2>1. /\ send[y].id \in Ids /\ To(y) \in Nodes /\ Peer(To(y)) = Owner[y]
    BY SendFacts
  <2>2. CASE To(y) = m
    BY <2>2, <1>1, <1>13 DEF Buf, Got
  <2>3. CASE To(y) = n
    <3>1. send[y].id # i
      BY <2>1, <2>3, <1>2, <1>15 DEF IInv, IdInv
    <3> QED
      BY <2>1, <2>3, <3>1, <1>1, <1>13 DEF Buf, Got
  <2> QED
    BY <2>1, <2>2, <2>3, <1>5
<1>16. Buf(x)' = buf /\ Got(x)' = hi
  BY <1>1, <1>2, <1>13 DEF Buf, Got
<1>17. /\ \A y \in Transfers \ {x} : View'[y] = View[y]
       /\ \A y \in Transfers : /\ View'[y].on = View[y].on
                               /\ View'[y].id = View[y].id
                               /\ View'[y].pos = View[y].pos
       /\ View'[x].got = hi /\ View[x].got = Got(x) /\ View[x].on /\ View[x].id = i
  BY <1>1, <1>2, <1>14, <1>15, <1>16 DEF View
<1>18. /\ tm' \in [Nodes -> {"none", "run", "feedback", "ack", "deliver", "error",
                             "gone"}]
       /\ tm'[n] \in {"ack", "run", "error", "deliver"} /\ tm'[m] = tm[m]
       /\ tm'[n] = "deliver" => buf.end
  BY <1>4, <1>5, <1>7, <1>10 DEF st
<1>19. /\ cur' \in [Nodes -> Messages \cup {None}] /\ cur'[n] = ack
       /\ cur'[m] = cur[m]
  <2>1. ack \in Messages
    BY <1>12, MessageTypes
  <2> QED
    BY <2>1, <1>4, <1>5, <1>7
<1>20. /\ exOut' \in [Nodes -> Seq(Messages)]
       /\ exOut'[n] = exOut[n] \/ exOut'[n] = Append(exOut[n], ack)
       /\ exOut'[n] \in Seq(Exchanged)
  <2>1. /\ exOut[n] \in Seq(Messages) /\ exOut[n] \in Seq(Exchanged)
        /\ ack \in Messages /\ ack \in Exchanged
    BY <1>7, <1>12, MessageTypes DEF IInv, StageInv
  <2>2. Append(exOut[n], ack) \in Seq(Messages) /\ Append(exOut[n], ack) \in Seq(Exchanged)
    BY <2>1, AppendProperties
  <2> QED
    BY <2>1, <2>2, <1>4, <1>7
<1>21. Typed'
  <2>1. TypeOK'
    BY <1>1, <1>7, <1>9, <1>13, <1>18, <1>19, <1>20 DEF IInv, TypeOK
  <2>2. StageInv(m)'
    <3>1. StageInv(m) /\ InitsOK(wire'[m], m)
      BY <1>1, <1>5 DEF IInv, StageInv
    <3> QED
      BY <3>1, <1>1, <1>5, <1>8, <1>9, <1>18, StageFrame
  <2>3. StageInv(n)'
    <3>1. StageInv(n) /\ client[n] # "starting"
      BY <1>1 DEF IInv, StageInv
    <3> QED
      BY <3>1, <1>1, <1>9, <1>20 DEF StageInv
  <2> QED
    BY <2>1, <2>2, <2>3, <1>5 DEF Typed
<1>22. View \in Views /\ View' \in Views
  <2>1. ViewTyped /\ TypeOK'
    BY <1>21, ViewTypes DEF IInv, Typed
  <2>2. ViewTyped'
    BY <2>1, ViewTypes, PTL
  <2> QED
    BY <2>1, <2>2 DEF ViewTyped
<1>23. \A y \in Transfers : /\ View[y].pos \in Nat /\ View[y].got \in Nat
                            /\ View[y].got <= View'[y].got
                            /\ y # x => View'[y].got = View[y].got
  <2>1. ASSUME NEW y \in Transfers
        PROVE  /\ View[y].pos \in Nat /\ View[y].got \in Nat
               /\ View[y].got <= View'[y].got
               /\ y # x => View'[y].got = View[y].got
    <3>1. View[y].pos \in Nat /\ View[y].got \in Nat
      BY <1>22 DEF Views
    <3>2. CASE y = x
      BY <3>1, <3>2, <1>2, <1>17
    <3>3. CASE y # x
      BY <3>1, <3>3, <1>17
    <3> QED
      BY <3>1, <3>2, <3>3
  <2> QED
    BY <2>1
<1>24. Grows(View, View')
  BY <1>17, <1>23 DEF Grows
<1>25. GoodAck(m, ack, View')
  <2>1. hi \in 1..hi
    <3>1. Got(x) \in Nat
      BY <1>2, SendFacts
    <3> QED
      BY <3>1, <1>2
  <2> QED
    BY <2>1, <1>2, <1>12, <1>17 DEF GoodAck
<1>26. IdInv'
  <2>1. ASSUME NEW k \in Nodes, NEW j \in Ids, j >= nextId'[Peer(k)]
        PROVE  bufs'[k][j] = Unused
    <3>1. bufs[k][j] = Unused
      BY <2>1, <1>1 DEF IInv, IdInv
    <3>2. CASE k = m
      BY <3>1, <3>2, <1>13
    <3>3. CASE k = n
      <4>1. i < nextId[m] /\ i \in Nat /\ nextId[m] \in Nat /\ j \in Nat
        <5>1. send[x].id < nextId[m] /\ send[x].id \in Nat
          BY <1>2, SendFacts DEF IInv, IdInv
        <5>2. nextId[m] \in Nat
          BY <1>5 DEF IInv, TypeOK
        <5>3. j \in Nat
          BY TcpclAssumption DEF Ids
        <5> QED
          BY <5>1, <5>2, <5>3, <1>2
      <4>2. j # i
        BY <4>1, <2>1, <3>3, <1>1
      <4> QED
        BY <4>2, <3>1, <3>3, <1>13
    <3> QED
      BY <3>2, <3>3, <1>5
  <2> QED
    BY <2>1, <1>1, <1>7, <1>14 DEF IInv, IdInv
<1>27. ASSUME NEW y \in Transfers PROVE SendInv(y)' /\ BufInv(y)' /\ AckedInv(y)'
  <2>1. SendInv(y) /\ BufInv(y) /\ AckedInv(y)
    BY DEF IInv
  <2>2. SendInv(y)'
    BY <2>1, <1>1 DEF SendInv
  <2>3. CASE y = x
    <3>1. BufInv(x)'
      <4>1. /\ Buf(x)'.data = Payload(x, 1, hi) /\ Buf(x)'.end = msg.end
            /\ Len(Buf(x)'.data) = hi
        BY <1>2, <1>16
      <4>2. /\ msg.end => hi = Size[x]
            /\ ShortTail(x) /\ hi = Size[x] => msg.end
        BY <1>2 DEF GoodSegment, hi
      <4>3. x \notin delivered'[To(x)]
        BY <1>1, <1>2
      <4>4. Got(x)' <= send'[x].pos
        BY <1>1, <1>2, <1>16
      <4> QED
        BY <4>1, <4>2, <4>3, <4>4 DEF BufInv
    <3>2. AckedInv(x)'
      <4>1. /\ Got(x) \in Nat /\ Size[x] \in Nat /\ send[x].inLen \in Nat
            /\ send[x].inLen <= Got(x)
            /\ \A j \in 1..Len(send[x].acks) : send[x].acks[j] \in 1..Got(x)
            /\ send[x].pc = "ok" => Got(x) = Size[x]
        BY <1>2, SendFacts DEF AckedInv
      <4>2. send[x].pc # "ok"
        BY <4>1, <1>2
      <4>3. send[x].inLen <= hi
        BY <4>1, <1>2
      <4>4. \A j \in 1..Len(send[x].acks) : send[x].acks[j] \in 1..hi
        BY <4>1, <1>2
      <4> QED
        BY <4>2, <4>3, <4>4, <1>1, <1>16 DEF AckedInv
    <3> QED
      BY <2>2, <2>3, <3>1, <3>2
  <2>4. CASE y # x
    <3>1. CASE Started(y)
      <4>1. Buf(y)' = Buf(y) /\ Got(y)' = Got(y)
        BY <2>4, <3>1, <1>15
      <4> QED
        BY <4>1, <2>1, <2>2, <1>1, <1>14 DEF BufInv, AckedInv
    <3>2. CASE ~Started(y)
      BY <3>2, <2>2, <1>14 DEF BufInv, AckedInv
    <3> QED
      BY <3>1, <3>2
  <2> QED
    BY <2>3, <2>4
<1>28. TmInv(n)'
  BY <1>5, <1>12, <1>13, <1>16, <1>18, <1>19, <1>2, <1>25 DEF TmInv
<1>29. TmInv(m)'
  <2>1. TmInv(m)
    BY <1>5 DEF IInv
  <2>2. ASSUME NEW k, GoodAck(k, cur[m], View) PROVE GoodAck(k, cur[m], View')
    BY <1>22, <1>24, <2>2, GrowsAck
  <2> QED
    BY <2>1, <2>2, <1>13, <1>18, <1>19 DEF TmInv
<1>30. /\ PipeOK(Pipe(m)', m, View')
       /\ \A y \in Transfers : Covered(Pipe(m), y, View) => Covered(Pipe(m)', y, View')
  <2> DEFINE v == View
             w == View'
             q == Pipe(m)
  <2>1. /\ v \in Views /\ w \in Views /\ q \in Seq(Messages) /\ q # <<>>
        /\ Head(q) = msg /\ PipeOK(q, m, v) /\ Head(q).type = "segment"
        /\ \A y \in Transfers \ {Of(Head(q))} : w[y] = v[y]
        /\ \A y \in Transfers :
              w[y].on = v[y].on /\ w[y].id = v[y].id /\ w[y].pos = v[y].pos
        /\ w[Of(Head(q))].got = Hi(Head(q))
    BY <1>1, <1>6, <1>9, <1>17, <1>22 DEF hi
  <2>2. Pipe(m)' = Tail(q)
    BY <1>9
  <2> HIDE DEF v, w, q
  <2>3. /\ PipeOK(Tail(q), m, w)
        /\ \A y \in Transfers : Covered(q, y, v) => Covered(Tail(q), y, w)
    BY <2>1, PopOK
  <2> QED
    BY <2>2, <2>3 DEF v, w, q
<1>31. PipeOK(Pipe(n), n, View')
  <2>1. \A y \in Transfers : View[y].on =>
           /\ View'[y].on /\ View'[y].id = View[y].id
           /\ View[y].pos <= View'[y].pos /\ View[y].got <= View'[y].got
           /\ Owner[y] = n => View'[y].got = View[y].got
    <3>1. \A y \in Transfers : Owner[y] = n => y # x
      BY <1>2, <1>5
    <3> QED
      BY <3>1, <1>17, <1>23
  <2> QED
    BY <2>1, <1>6, <1>22, ViewOK
<1>32. /\ PipeOK(Pipe(n)', n, View')
       /\ \A y \in Transfers : Covered(Pipe(n), y, View') => Covered(Pipe(n)', y, View')
  <2>1. CASE exOut'[n] = exOut[n]
    <3>1. Pipe(n)' = Pipe(n)
      BY <2>1, <1>1, <1>9, PipeSame
    <3> QED
      BY <3>1, <1>31
  <2>2. CASE exOut'[n] = Append(exOut[n], ack)
    <3> DEFINE w == View'
    <3>1. PipeOK(Pipe(n), n, w) /\ GoodAck(Peer(n), ack, w)
      BY <1>25, <1>31
    <3> HIDE DEF w
    <3>2. /\ PipeOK(Pipe(n)', n, w)
          /\ \A y \in Transfers : Covered(Pipe(n), y, w) => Covered(Pipe(n)', y, w)
      BY <2>2, <3>1, <1>1, <1>6, <1>9, <1>12, AckOut
    <3> QED
      BY <3>2 DEF w
  <2> QED
    BY <2>1, <2>2, <1>20
<1>33. FlowInv'
  <2>1. ASSUME NEW y \in Transfers, Started(y)', ~Done(Owner[y])', ~Done(To(y))'
        PROVE  Covered(Pipe(Owner[y])', y, View')
    <3>1. /\ Started(y) /\ ~Done(Owner[y]) /\ ~Done(To(y)) /\ Owner[y] \in {n, m}
      BY <2>1, <1>1, <1>5, <1>14, TcpclAssumption DEF Done
    <3>2. Covered(Pipe(Owner[y]), y, View)
      BY <3>1 DEF IInv, FlowInv
    <3>3. CASE Owner[y] = m
      BY <3>2, <3>3, <1>30
    <3>4. CASE Owner[y] = n
      <4>1. y # x
        BY <3>4, <1>2, <1>5
      <4>2. View'[y] = View[y]
        BY <4>1, <1>17
      <4>3. Covered(Pipe(n), y, View')
        BY <4>2, <3>2, <3>4 DEF Covered
      <4> QED
        BY <4>3, <3>4, <1>32
    <3> QED
      BY <3>1, <3>3, <3>4
  <2> QED
    BY <2>1, <1>5, <1>30, <1>32 DEF FlowInv
<1> QED
  BY <1>5, <1>21, <1>26, <1>27, <1>28, <1>29, <1>33 DEF IInv, Typed

LEMMA HandleSegmentInv ==
    ASSUME IInv, NEW n \in Nodes, HandleSegment(n)
    PROVE  IInv'
BY SegmentArrives

LEMMA AcknowledgeInv ==
    ASSUME IInv, NEW n \in Nodes, Acknowledge(n)
    PROVE  IInv'
<1> DEFINE m == Peer(n)
           st == AfterSegment(bufs[n][cur[n].id])
<1>1. /\ tm[n] = "ack"
      /\ exOut' = [exOut EXCEPT ![n] = Append(exOut[n], cur[n])]
      /\ tm' = [tm EXCEPT ![n] = st]
      /\ UNCHANGED <<stage, held, mtu, wire, exIn, cur, bufs, nextId, send, client,
                     asked, delivered>>
  BY DEF Acknowledge, stageVars
<1>2. /\ m \in Nodes /\ Peer(m) = n /\ m # n /\ Nodes = {n, m}
  BY PeerPeer
<1>3. /\ cur[n] \in Acks /\ GoodAck(m, cur[n], View)
      /\ cur[n].len = Len(bufs[n][cur[n].id].data)
  BY <1>1 DEF IInv, TmInv
<1>4. st \in {"run", "error", "deliver"} /\ (st = "deliver" => bufs[n][cur[n].id].end)
  BY DEF AfterSegment
<1> HIDE DEF st
<1>5. /\ tm \in [Nodes -> {"none", "run", "feedback", "ack", "deliver", "error",
                           "gone"}]
      /\ exOut \in [Nodes -> Seq(Messages)] /\ exOut[n] \in Seq(Exchanged)
      /\ cur[n] \in Messages /\ cur[n] \in Exchanged
  BY <1>3, MessageTypes DEF IInv, TypeOK, StageInv
<1>6. /\ tm' \in [Nodes -> {"none", "run", "feedback", "ack", "deliver", "error",
                            "gone"}]
      /\ tm'[n] = st /\ tm'[m] = tm[m]
  BY <1>1, <1>2, <1>4, <1>5
<1>7. /\ exOut' \in [Nodes -> Seq(Messages)] /\ exOut'[n] \in Seq(Exchanged)
      /\ exOut'[n] = Append(exOut[n], cur[n]) /\ exOut'[m] = exOut[m]
  <2>1. exOut[n] \in Seq(Messages)
    BY <1>5
  <2>2. /\ Append(exOut[n], cur[n]) \in Seq(Messages)
        /\ Append(exOut[n], cur[n]) \in Seq(Exchanged)
    BY <2>1, <1>5, AppendProperties
  <2> QED
    BY <2>2, <1>1, <1>2, <1>5
<1>8. /\ View' = View
      /\ \A y \in Transfers : Started(y)' = Started(y) /\ Got(y)' = Got(y) /\ Buf(y)' = Buf(y)
  BY <1>1 DEF View, Started, Got, Buf
<1>9. IdInv'
  <2>1. \A k \in Nodes : delivered[k] \subseteq Transfers
    BY DEF IInv, TypeOK
  <2> QED
    BY <1>1, <1>8, <2>1 DEF IInv, IdInv
<1>10. ASSUME NEW y \in Transfers PROVE SendInv(y)' /\ BufInv(y)' /\ AckedInv(y)'
  BY <1>1, <1>8 DEF IInv, SendInv, BufInv, AckedInv
<1>11. Typed'
  <2>1. TypeOK'
    BY <1>1, <1>6, <1>7 DEF IInv, TypeOK
  <2>2. StageInv(m)'
    <3>1. StageInv(m) /\ InitsOK(wire'[m], m)
      BY <1>1, <1>2 DEF IInv, StageInv
    <3> QED
      BY <3>1, <1>1, <1>2, <1>6, <1>7, StageFrame
  <2>3. StageInv(n)'
    <3>1. StageInv(n) /\ client[n] # "starting"
      BY <1>1 DEF IInv, StageInv
    <3> QED
      BY <3>1, <1>1, <1>7 DEF StageInv
  <2> QED
    BY <2>1, <2>2, <2>3, <1>2 DEF Typed
<1>12. TmInv(n)'
  BY <1>1, <1>3, <1>4, <1>6, <1>8 DEF TmInv
<1>13. TmInv(m)'
  <2>1. TmInv(m)
    BY <1>2 DEF IInv
  <2> QED
    BY <2>1, <1>1, <1>6, <1>8 DEF TmInv
<1>14. FlowInv'
  <2>1. Typed /\ PipeOK(Pipe(n), n, View) /\ PipeOK(Pipe(m), m, View)
    BY <1>2 DEF IInv, FlowInv, Typed
  <2>2. /\ PipeOK(Pipe(n)', n, View)
        /\ \A y \in Transfers : Covered(Pipe(n), y, View) => Covered(Pipe(n)', y, View)
    <3> DEFINE v == View
               ack == cur[n]
    <3>1. /\ PipeOK(Pipe(n), n, v) /\ GoodAck(Peer(n), ack, v) /\ ack \in Acks
          /\ exOut'[n] = Append(exOut[n], ack)
      BY <2>1, <1>3, <1>7
    <3>2. exIn'[Peer(n)] = exIn[Peer(n)] /\ UNCHANGED <<stage, held, wire, client>>
      BY <1>1
    <3> HIDE DEF v, ack
    <3>3. /\ PipeOK(Pipe(n)', n, v)
          /\ \A y \in Transfers : Covered(Pipe(n), y, v) => Covered(Pipe(n)', y, v)
      BY <2>1, <3>1, <3>2, AckOut
    <3> QED
      BY <3>3 DEF v
  <2>3. Pipe(m)' = Pipe(m)
    BY <1>1, <1>2, <1>7, PipeSame
  <2>4. ASSUME NEW y \in Transfers, Started(y)', ~Done(Owner[y])', ~Done(To(y))'
        PROVE  Covered(Pipe(Owner[y])', y, View')
    <3>1. /\ Started(y) /\ ~Done(Owner[y]) /\ ~Done(To(y)) /\ Owner[y] \in {n, m}
      BY <2>4, <1>1, <1>2, <1>8, TcpclAssumption DEF Done
    <3>2. Covered(Pipe(Owner[y]), y, View)
      BY <3>1 DEF IInv, FlowInv
    <3>3. CASE Owner[y] = m
      BY <3>2, <3>3, <2>3, <1>8
    <3>4. CASE Owner[y] = n
      BY <3>2, <3>4, <2>2, <1>8
    <3> QED
      BY <3>1, <3>3, <3>4
  <2> QED
    BY <2>1, <2>2, <2>3, <2>4, <1>2, <1>8 DEF FlowInv
<1> QED
  BY <1>2, <1>9, <1>10, <1>11, <1>12, <1>13, <1>14 DEF IInv, Typed

\* A serialized bundle is recognized.
LEMMA OnlyBundle ==
    ASSUME NEW x \in Transfers
    PROVE  ToBundle(Payload(x, 1, Size[x])) = {x}
<1>1. ASSUME NEW y \in Transfers, Payload(x, 1, Size[x]) = Payload(y, 1, Size[y])
      PROVE  y = x
  <2>1. ASSUME NEW z \in Transfers PROVE Payload(z, 1, Size[z])[1] = <<z, 1>>
    <3> DEFINE k == Size[z]
    <3>1. k \in Nat /\ k # 0
      BY TcpclAssumption
    <3> HIDE DEF k
    <3>2. /\ 1 \in Nat \ {0} /\ 1 <= k + 1 /\ 1 \in 1..(k - 1 + 1)
          /\ 1 + 1 - 1 = 1
      BY <3>1
    <3>3. \A j \in 1..(k - 1 + 1) : Payload(z, 1, k)[j] = <<z, 1 + j - 1>>
      BY <3>1, <3>2, PayloadType
    <3>4. Payload(z, 1, k)[1] = <<z, 1 + 1 - 1>>
      BY <3>2, <3>3
    <3> QED
      BY <3>2, <3>4 DEF k
  <2>2. <<x, 1>> = <<y, 1>>
    BY <1>1, <2>1
  <2> QED
    BY <2>2
<1> QED
  BY <1>1 DEF ToBundle

LEMMA DeliverInv ==
    ASSUME IInv, NEW n \in Nodes, Deliver(n)
    PROVE  IInv'
<1> DEFINE m == Peer(n)
<1>1. /\ tm[n] = "deliver" /\ client[n] = "up"
      /\ delivered' = [delivered EXCEPT ![n] =
                          delivered[n] \cup ToBundle(bufs[n][cur[n].id].data)]
      /\ bufs' = [bufs EXCEPT ![n][cur[n].id] = Unused]
      /\ tm' = [tm EXCEPT ![n] = "run"] /\ cur' = [cur EXCEPT ![n] = None]
      /\ UNCHANGED <<stage, held, mtu, wire, exIn, exOut, nextId, send, client,
                     asked>>
  BY DEF Deliver, stageVars
<1>2. /\ m \in Nodes /\ Peer(m) = n /\ m # n /\ Nodes = {n, m}
  BY PeerPeer
<1>3. /\ cur[n] \in Acks /\ GoodAck(m, cur[n], View)
      /\ cur[n].len = Len(bufs[n][cur[n].id].data)
      /\ bufs[n][cur[n].id].end
  BY <1>1 DEF IInv, TmInv
<1>4. PICK x \in Transfers : /\ Owner[x] = m /\ View[x].on
                             /\ cur[n].id = View[x].id
                             /\ cur[n].len \in 1..View[x].got
  BY <1>3 DEF GoodAck
<1>5. PICK i \in Ids : i = cur[n].id
  BY <1>3 DEF Acks
<1>6. /\ Started(x) /\ send[x].id = i /\ To(x) = n /\ Buf(x) = bufs[n][i]
      /\ cur[n].len \in 1..Got(x) /\ Got(x) \in Nat /\ BufInv(x) /\ Size[x] \in Nat
  BY <1>2, <1>4, <1>5, SendFacts DEF View, To, Buf
<1>7. x \notin delivered[n]
  <2>1. cur[n].len = Len(Buf(x).data) /\ cur[n].len # 0
    BY <1>3, <1>5, <1>6
  <2>2. Len(Unused.data) = 0
    BY DEF Unused
  <2> QED
    BY <2>1, <2>2, <1>6 DEF BufInv
<1>8. bufs[n][i].data = Payload(x, 1, Size[x]) /\ Got(x) = Size[x]
  <2>1. Buf(x).data = Payload(x, 1, Len(Buf(x).data)) /\ Len(Buf(x).data) = Size[x]
    BY <1>3, <1>5, <1>6, <1>7 DEF BufInv
  <2> QED
    BY <2>1, <1>6, <1>7 DEF Got
<1>9. /\ bufs \in [Nodes -> [Ids -> [data : Seq(Bytes), end : BOOLEAN]]]
      /\ cur \in [Nodes -> Messages \cup {None}]
      /\ tm \in [Nodes -> {"none", "run", "feedback", "ack", "deliver", "error",
                           "gone"}]
      /\ delivered \in [Nodes -> SUBSET Transfers]
  BY DEF IInv, TypeOK
<1>10. Unused \in [data : Seq(Bytes), end : BOOLEAN]
  BY DEF Unused
<1>11. /\ bufs'[n][i] = Unused /\ bufs'[m] = bufs[m]
       /\ \A j \in Ids \ {i} : bufs'[n][j] = bufs[n][j]
       /\ bufs' \in [Nodes -> [Ids -> [data : Seq(Bytes), end : BOOLEAN]]]
  BY <1>1, <1>2, <1>5, <1>9, <1>10
<1>12. /\ delivered'[n] = delivered[n] \cup {x} /\ delivered'[m] = delivered[m]
       /\ delivered' \in [Nodes -> SUBSET Transfers]
  <2>1. ToBundle(bufs[n][cur[n].id].data) = {x}
    BY <1>5, <1>8, OnlyBundle
  <2> QED
    BY <2>1, <1>1, <1>2, <1>9
<1>13. /\ tm'[n] = "run" /\ tm'[m] = tm[m] /\ cur'[m] = cur[m]
       /\ tm' \in [Nodes -> {"none", "run", "feedback", "ack", "deliver", "error",
                             "gone"}]
       /\ cur' \in [Nodes -> Messages \cup {None}]
  BY <1>1, <1>2, <1>9
<1>14. \A y \in Transfers : Started(y)' = Started(y)
  BY <1>1 DEF Started
<1>15. ASSUME NEW y \in Transfers \ {x}, Started(y)
       PROVE  /\ Buf(y)' = Buf(y) /\ Got(y)' = Got(y)
              /\ (y \in delivered'[To(y)]) = (y \in delivered[To(y)])
  <2>1. /\ send[y].id \in Ids /\ To(y) \in Nodes /\ Peer(To(y)) = Owner[y]
    BY SendFacts
  <2>2. (y \in delivered'[To(y)]) = (y \in delivered[To(y)])
    BY <2>1, <1>2, <1>12
  <2>3. CASE To(y) = m
    BY <2>2, <2>3, <1>1, <1>11 DEF Buf, Got
  <2>4. CASE To(y) = n
    <3>1. send[y].id # i
      BY <2>1, <2>4, <1>4, <1>6, <1>15 DEF IInv, IdInv
    <3>2. Buf(y)' = Buf(y)
      BY <2>1, <2>4, <3>1, <1>1, <1>11 DEF Buf
    <3> QED
      BY <2>2, <3>2 DEF Got
  <2> QED
    BY <2>1, <2>2, <2>3, <2>4, <1>2
<1>16. Buf(x)' = Unused /\ Got(x)' = Got(x) /\ x \in delivered'[To(x)]
  BY <1>1, <1>6, <1>8, <1>11, <1>12 DEF Buf, Got
<1>17. View' = View
  <2>1. ASSUME NEW y \in Transfers
        PROVE  (IF Started(y) THEN Got(y) ELSE 0)' = (IF Started(y) THEN Got(y) ELSE 0)
    BY <1>14, <1>15, <1>16
  <2> QED
    BY <2>1, <1>1, <1>14 DEF View
<1>18. IdInv'
  <2>1. ASSUME NEW k \in Nodes, NEW j \in Ids, j >= nextId'[Peer(k)]
        PROVE  bufs'[k][j] = Unused
    <3>1. bufs[k][j] = Unused
      BY <2>1, <1>1 DEF IInv, IdInv
    <3> QED
      BY <3>1, <1>2, <1>11
  <2>2. ASSUME NEW k \in Nodes, NEW y \in delivered'[k]
        PROVE  Started(y)' /\ To(y) = k
    <3>1. CASE y \in delivered[k]
      <4>1. y \in Transfers /\ Started(y) /\ To(y) = k
        BY <3>1, <1>9 DEF IInv, IdInv
      <4> QED
        BY <4>1, <1>14
    <3>2. CASE y \notin delivered[k]
      BY <3>2, <2>2, <1>2, <1>6, <1>12, <1>14
    <3> QED
      BY <3>1, <3>2
  <2> QED
    BY <2>1, <2>2, <1>1, <1>14 DEF IInv, IdInv
<1>19. ASSUME NEW y \in Transfers PROVE SendInv(y)' /\ BufInv(y)' /\ AckedInv(y)'
  <2>1. SendInv(y) /\ BufInv(y) /\ AckedInv(y)
    BY DEF IInv
  <2>2. SendInv(y)'
    BY <2>1, <1>1 DEF SendInv
  <2>3. CASE y = x
    <3>1. BufInv(x)'
      <4>1. Got(x) <= send'[x].pos
        BY <2>1, <2>3, <1>1, <1>6 DEF BufInv
      <4> QED
        BY <4>1, <1>16 DEF BufInv
    <3>2. AckedInv(x)'
      BY <2>1, <2>3, <1>1, <1>6, <1>16 DEF AckedInv
    <3> QED
      BY <2>2, <2>3, <3>1, <3>2
  <2>4. CASE y # x
    <3>1. CASE Started(y)
      <4>1. /\ Buf(y)' = Buf(y) /\ Got(y)' = Got(y)
            /\ (y \in delivered'[To(y)]) = (y \in delivered[To(y)])
        BY <2>4, <3>1, <1>15
      <4> QED
        BY <4>1, <2>1, <2>2, <1>1, <1>14 DEF BufInv, AckedInv
    <3>2. CASE ~Started(y)
      BY <3>2, <2>2, <1>14 DEF BufInv, AckedInv
    <3> QED
      BY <3>1, <3>2
  <2> QED
    BY <2>3, <2>4
<1>20. Typed'
  <2>1. TypeOK'
    BY <1>1, <1>11, <1>12, <1>13 DEF IInv, TypeOK
  <2>2. StageInv(m)'
    <3>1. StageInv(m) /\ InitsOK(wire'[m], m)
      BY <1>1, <1>2 DEF IInv, StageInv
    <3> QED
      BY <3>1, <1>1, <1>2, <1>13, StageFrame
  <2>3. StageInv(n)'
    <3>1. StageInv(n)
      BY DEF IInv
    <3> QED
      BY <3>1, <1>1 DEF StageInv
  <2> QED
    BY <2>1, <2>2, <2>3, <1>2 DEF Typed
<1>21. TmInv(n)'
  BY <1>13 DEF TmInv
<1>22. TmInv(m)'
  <2>1. TmInv(m)
    BY <1>2 DEF IInv
  <2> QED
    BY <2>1, <1>11, <1>13, <1>17 DEF TmInv
<1>23. FlowInv'
  <2>1. \A k \in Nodes : Pipe(k)' = Pipe(k) /\ Done(k)' = Done(k)
    BY <1>1 DEF Pipe, Outgoing, Read, Unsent, HeldIn, HeldOut, Done
  <2>2. PipesKept
    BY <2>1 DEF PipesKept, PipeKept
  <2> QED
    BY <2>2, <1>17, <1>20, FlowKept DEF IInv, Typed, PipesKept
<1> QED
  BY <1>2, <1>18, <1>19, <1>20, <1>21, <1>22, <1>23 DEF IInv, Typed

-----------------------------------------------------------------------------
(* The theorems.                                                           *)

LEMMA NextInv == IInv /\ [Next]_vars => IInv'
<1> SUFFICES ASSUME IInv, [Next]_vars PROVE IInv'
  OBVIOUS
<1>1. CASE UNCHANGED vars
  <2>1. UNCHANGED <<stage, held, mtu, wire, exIn, exOut, tm, cur, bufs, nextId,
                    send, client, asked, delivered>>
    BY <1>1 DEF vars
  <2>2. Typed'
    BY <2>1 DEF IInv, Typed, TypeOK, StageInv
  <2>3. PipesKept
    BY <2>1 DEF PipesKept, PipeKept, Pipe, Outgoing, Read, Unsent, HeldIn,
                HeldOut, Done
  <2> QED
    BY <2>1, <2>2, <2>3, StageStepInv
<1>2. ASSUME NEW n \in Nodes,
             \/ SendHandshake(n) \/ ReceiveHandshake(n) \/ Start(n)
             \/ HandleMsgIn(n) \/ PassIn(n) \/ MessageOut(n) \/ PassOut(n)
             \/ CloseStage(n) \/ SendTermination(n) \/ HandleKeepalive(n)
             \/ StopTransferManager(n) \/ Close(n) \/ Shutdown(n) \/ Disconnect(n)
      PROVE  IInv'
  BY <1>2, StageStepsInv
<1>3. ASSUME NEW n \in Nodes,
             \/ HandleAck(n) \/ PassAck(n)
             \/ HandleSegment(n) \/ Acknowledge(n) \/ Deliver(n)
      PROVE  IInv'
  BY <1>3, HandleAckInv, PassAckInv, HandleSegmentInv, AcknowledgeInv, DeliverInv
<1>4. ASSUME NEW x \in Transfers,
             \/ Send(x) \/ NextSegment(x) \/ PushSegment(x)
             \/ EndOfBundle(x) \/ StopSending(x)
             \/ ReceiveError(x) \/ ReceiveLength(x) \/ ReceiveAck(x)
             \/ Timeout(x)
      PROVE  IInv'
  BY <1>4, SendCallInv, NextSegmentInv, PushSegmentInv, EndOfSendingInv,
     GivingUpInv, ReceiveLengthInv, ReceiveAckInv
<1>5. Impatient \subseteq Transfers /\ Closers \subseteq Nodes
  BY TcpclAssumption
<1> QED
  BY <1>1, <1>2, <1>3, <1>4, <1>5 DEF Next

(***************************************************************************)
(* Whatever way the goroutines of both peers interleave, segments arrive   *)
(* in order and without a gap, no transfer ID is used twice, a buffer      *)
(* holds the beginning of its bundle, and what Send counts as acknowledged *)
(* has arrived: the parts of IInv.                                         *)
(***************************************************************************)
THEOREM Inductive == Spec => []IInv
<1>1. Init => IInv
  BY InitInv
<1>2. IInv /\ [Next]_vars => IInv'
  BY NextInv
<1> QED
  BY <1>1, <1>2, PTL DEF Spec

\* Every variable of the two peers keeps its type.
THEOREM TypeCorrect == Spec => []TypeOK
<1>1. IInv => TypeOK
  BY DEF IInv
<1> QED
  BY <1>1, Inductive, PTL

(***************************************************************************)
(* A Send that has returned without an error: the peer has every byte of   *)
(* the bundle, though perhaps not its end flag.                            *)
(***************************************************************************)
BytesReceived ==
    \A x \in Transfers :
        LET m == Peer(Owner[x])
        IN send[x].pc = "ok" =>
              \/ x \in delivered[m]
              \/ bufs[m][send[x].id].data = Payload(x, 1, Size[x])

LEMMA InvBytes == IInv => BytesReceived
<1> SUFFICES ASSUME IInv, NEW x \in Transfers, send[x].pc = "ok",
                    x \notin delivered[Peer(Owner[x])]
             PROVE  bufs[Peer(Owner[x])][send[x].id].data = Payload(x, 1, Size[x])
  BY DEF BytesReceived
<1>1. Started(x) /\ x \notin delivered[To(x)]
  BY DEF Started, To
<1>2. Got(x) = Size[x] /\ Got(x) = Len(Buf(x).data)
  BY <1>1 DEF IInv, AckedInv, Got
<1>3. Buf(x).data = Payload(x, 1, Len(Buf(x).data))
  BY <1>1 DEF IInv, BufInv
<1> QED
  BY <1>2, <1>3 DEF Buf, To

(***************************************************************************)
(* For bundles and segments of any size: Send returns without an error     *)
(* only if the peer has all bytes of the bundle, in their order.           *)
(***************************************************************************)
THEOREM BytesArrived == Spec => []BytesReceived
BY InvBytes, Inductive, PTL

LEMMA InvReceived ==
    ASSUME \A x \in Transfers : ShortTail(x)
    PROVE  IInv => SentIsReceived
<1> SUFFICES ASSUME IInv, NEW x \in Transfers, send[x].pc = "ok",
                    x \notin delivered[Peer(Owner[x])]
             PROVE  bufs[Peer(Owner[x])][send[x].id] =
                       [data |-> Payload(x, 1, Size[x]), end |-> TRUE]
  BY DEF SentIsReceived
<1>1. Started(x) /\ x \notin delivered[To(x)] /\ ShortTail(x)
  BY DEF Started, To
<1>2. Got(x) = Size[x] /\ Got(x) = Len(Buf(x).data)
  BY <1>1 DEF IInv, AckedInv, Got
<1>3. Buf(x).data = Payload(x, 1, Len(Buf(x).data)) /\ Buf(x).end
  BY <1>1, <1>2 DEF IInv, BufInv
<1>4. Buf(x) \in [data : Seq(Bytes), end : BOOLEAN]
  <2>1. To(x) \in Nodes /\ send[x].id \in Ids
    BY SendFacts
  <2> QED
    BY <2>1 DEF IInv, TypeOK, Buf
<1>5. Buf(x) = [data |-> Buf(x).data, end |-> Buf(x).end] /\ Buf(x).end = TRUE
  BY <1>3, <1>4
<1> QED
  BY <1>2, <1>3, <1>5 DEF Buf, To

(***************************************************************************)
(* If no bundle's length is a multiple of the peer's SegmentMru, a Send    *)
(* that returns without an error means that the peer has the whole bundle  *)
(* with its end flag.  NextSegment sets the flag only on a short segment:  *)
(* without this assumption SentIsReceived is false.                        *)
(***************************************************************************)
THEOREM SentReceived ==
    ASSUME \A x \in Transfers : ShortTail(x)
    PROVE  Spec => []SentIsReceived
<1>1. IInv => SentIsReceived
  BY InvReceived
<1> QED
  BY <1>1, Inductive, PTL
=============================================================================
