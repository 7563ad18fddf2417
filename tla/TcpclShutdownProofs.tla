------------------------ MODULE TcpclShutdownProofs -------------------------
(***************************************************************************)
(* Why a TCPCLv4 session ends: proofs about module Tcpcl that rest on the  *)
(* inductive invariant of TcpclProofs.                                     *)
(*                                                                         *)
(* TransferManager.handle ends the session when it gets an acknowledgement *)
(* that no Send waits for, or a finished buffer that is no bundle, and the *)
(* stage does when a message is not the awaited one.  Neither happens if   *)
(* no Manager closes its Client, no Send gives up and no stage stalls.     *)
(***************************************************************************)
EXTENDS TcpclProofs

-----------------------------------------------------------------------------
(* The inductive invariant.                                                *)

\* There has been no reason to shut down.
Calm == /\ asked = {}
        /\ \A x \in Transfers : send[x].pc # "failed"
        /\ \A n \in Nodes : stage[n] # "stalled"

Established == {"ready", "select", "in", "out"}
OnlyExchanged(s) == \A i \in 1..Len(s) : s[i].type \in {"segment", "ack"}
Contact == [type |-> "contact"]
SessInit(n) == [type |-> "init", mru |-> Mru[n]]

\* The peers take turns, until both are established.
Handshaken(sa, sp, wa, wp) ==
    \/ sa = "sendContact" /\ sp = "recvContact" /\ wa = <<>> /\ wp = <<>>
    \/ sa = "recvContact" /\ sp = "recvContact" /\ wa = <<Contact>> /\ wp = <<>>
    \/ sa = "recvContact" /\ sp = "sendContact" /\ wa = <<>> /\ wp = <<>>
    \/ sa = "recvContact" /\ sp = "recvInit" /\ wa = <<>> /\ wp = <<Contact>>
    \/ sa = "sendInit" /\ sp = "recvInit" /\ wa = <<>> /\ wp = <<>>
    \/ sa = "recvInit" /\ sp = "recvInit" /\ wa = <<SessInit(Active)>> /\ wp = <<>>
    \/ sa = "recvInit" /\ sp = "sendInit" /\ wa = <<>> /\ wp = <<>>
    \/ /\ sa = "recvInit" /\ sp \in Established /\ wa = <<>>
       /\ wp # <<>> /\ Head(wp) = SessInit(Passive) /\ OnlyExchanged(Tail(wp))
    \/ /\ sa \in Established /\ sp \in Established
       /\ OnlyExchanged(wa) /\ OnlyExchanged(wp)

TurnInv == Handshaken(stage[Active], stage[Passive], wire[Active], wire[Passive])

QuietInv ==
    \A n \in Nodes : client[n] \in {"starting", "up"} /\ tm[n] # "error"

IsAckOf(i, msg) == msg.type = "ack" /\ msg.id = i

\* The acknowledgements of i in q are increasing, above L and below U.
Ordered(q, i, L, U) ==
    \A j \in 1..Len(q) : IsAckOf(i, q[j]) =>
        /\ \A k \in 1..(j - 1) : IsAckOf(i, q[k]) => q[k].len < q[j].len
        /\ \A l \in L : l < q[j].len
        /\ \A u \in U : q[j].len < u

\* An acknowledgement that TransferManager.handle waits to pass on to Send.
Waiting(x) == IF tm[Owner[x]] = "feedback" /\ cur[Owner[x]].id = send[x].id
              THEN {cur[Owner[x]].len} ELSE {}

\* One that the peer's TransferManager.handle waits to send.
Owed(x) == IF tm[To(x)] = "ack" /\ cur[To(x)].id = send[x].id
           THEN {Got(x)} ELSE {}

\* What Send has taken, and what is queued for it.
Taken(r) == {r.inLen} \cup {r.acks[k] : k \in 1..Len(r.acks)}

\* The acknowledgements Send has taken and has in its channel increase.
Rising(r, W) ==
    /\ \A k \in 1..Len(r.acks) :
          /\ r.inLen < r.acks[k]
          /\ \A j \in 1..(k - 1) : r.acks[j] < r.acks[k]
    /\ \A l \in W, t \in Taken(r) : t < l

\* No acknowledgement is on its way.
Silent(q, i) == \A j \in 1..Len(q) : ~IsAckOf(i, q[j])

(***************************************************************************)
(* Each acknowledgement is larger than those before it, and Send waits as  *)
(* long as one is on its way.                                              *)
(***************************************************************************)
OrderOK(r, q, W, U) ==
    /\ Ordered(q, r.id, Taken(r) \cup W, U)
    /\ Rising(r, W)
    /\ \A l \in Taken(r) \cup W, u \in U : l < u
    /\ r.pc # "run" => Silent(q, r.id) /\ W = {} /\ U = {}

OrderInv(x) == OrderOK(send[x], Pipe(To(x)), Waiting(x), Owed(x))

CalmBody ==
    /\ QuietInv /\ TurnInv
    /\ \A x \in Transfers : Started(x) => OrderInv(x)

CalmInv == Calm => CalmBody

-----------------------------------------------------------------------------
(* Acknowledgements in a pipe.                                             *)

\* p has no acknowledgement of i that q has not.
Sub(p, q, i) ==
    \/ p = q
    \/ \E msg \in Messages : ~IsAckOf(i, msg) /\ p = Append(q, msg)
    \/ q # <<>> /\ p = Tail(q)
    \/ \E t \in Seq(Messages) : q = p \o t

LEMMA OrderSub ==
    ASSUME NEW p \in Seq(Messages), NEW q \in Seq(Messages), NEW i, Sub(p, q, i),
           NEW L, NEW U
    PROVE  /\ Ordered(q, i, L, U) => Ordered(p, i, L, U)
           /\ Silent(q, i) => Silent(p, i)
<1>1. Len(p) \in Nat /\ Len(q) \in Nat
  BY LenProperties
<1>2. CASE p = q
  BY <1>2
<1>3. ASSUME NEW msg \in Messages, ~IsAckOf(i, msg), p = Append(q, msg)
      PROVE  /\ Ordered(q, i, L, U) => Ordered(p, i, L, U)
             /\ Silent(q, i) => Silent(p, i)
  <2>1. /\ Len(p) = Len(q) + 1 /\ p[Len(p)] = msg
        /\ \A j \in 1..Len(q) : p[j] = q[j]
    BY <1>3, AppendProperties
  <2>2. ASSUME NEW j \in 1..Len(p), IsAckOf(i, p[j])
        PROVE  /\ j \in 1..Len(q) /\ p[j] = q[j]
               /\ \A k \in 1..(j - 1) : p[k] = q[k]
    <3>1. j # Len(p)
      BY <2>1, <2>2, <1>3
    <3>2. j \in 1..Len(q)
      BY <2>1, <3>1, <1>1
    <3> QED
      BY <2>1, <3>2, <1>1
  <2> QED
    BY <2>2 DEF Ordered, Silent
<1>4. CASE q # <<>> /\ p = Tail(q)
  <2>1. /\ Len(q) = Len(p) + 1 /\ \A j \in 1..Len(p) : p[j] = q[j + 1]
    BY <1>1, <1>4, HeadTailProperties
  <2>2. ASSUME NEW j \in 1..Len(p)
        PROVE  /\ j + 1 \in 1..Len(q) /\ p[j] = q[j + 1]
               /\ \A k \in 1..(j - 1) : k + 1 \in 1..(j + 1 - 1) /\ p[k] = q[k + 1]
    BY <2>1, <1>1
  <2> QED
    BY <2>2 DEF Ordered, Silent
<1>5. ASSUME NEW t \in Seq(Messages), q = p \o t
      PROVE  /\ Ordered(q, i, L, U) => Ordered(p, i, L, U)
             /\ Silent(q, i) => Silent(p, i)
  <2>1. /\ Len(q) = Len(p) + Len(t) /\ Len(t) \in Nat
        /\ \A j \in 1..Len(p) : q[j] = p[j]
    BY <1>5, ConcatProperties, LenProperties
  <2>2. ASSUME NEW j \in 1..Len(p)
        PROVE  /\ j \in 1..Len(q) /\ p[j] = q[j]
               /\ \A k \in 1..(j - 1) : p[k] = q[k]
    BY <2>1, <1>1
  <2> QED
    BY <2>2 DEF Ordered, Silent
<1> QED
  BY <1>2, <1>3, <1>4, <1>5 DEF Sub

\* The next acknowledgement of i is taken.
LEMMA OrderTake ==
    ASSUME NEW q \in Seq(Messages), q # <<>>, NEW i, IsAckOf(i, Head(q)),
           NEW L, NEW U, Ordered(q, i, L, U)
    PROVE  /\ Ordered(Tail(q), i, L \cup {Head(q).len}, U)
           /\ \A l \in L : l < Head(q).len
           /\ \A u \in U : Head(q).len < u
<1> DEFINE p == Tail(q)
<1>1. /\ Len(q) = Len(p) + 1 /\ Len(p) \in Nat /\ q[1] = Head(q) /\ 1 \in 1..Len(q)
      /\ \A j \in 1..Len(p) : p[j] = q[j + 1]
  BY HeadTailProperties, LenProperties
<1>2. /\ \A l \in L : l < Head(q).len
      /\ \A u \in U : Head(q).len < u
  BY <1>1 DEF Ordered
<1> HIDE DEF p
<1>3. ASSUME NEW j \in 1..Len(p), IsAckOf(i, p[j])
      PROVE  /\ \A k \in 1..(j - 1) : IsAckOf(i, p[k]) => p[k].len < p[j].len
             /\ \A l \in L \cup {Head(q).len} : l < p[j].len
             /\ \A u \in U : p[j].len < u
  <2>1. /\ j + 1 \in 1..Len(q) /\ p[j] = q[j + 1] /\ 1 \in 1..(j + 1 - 1)
        /\ \A k \in 1..(j - 1) : k + 1 \in 1..(j + 1 - 1) /\ p[k] = q[k + 1]
    BY <1>1
  <2>2. /\ \A k \in 1..(j + 1 - 1) : IsAckOf(i, q[k]) => q[k].len < p[j].len
        /\ \A l \in L : l < p[j].len
        /\ \A u \in U : p[j].len < u
    BY <2>1, <1>3 DEF Ordered
  <2>3. Head(q).len < p[j].len
    BY <2>1, <2>2, <1>1
  <2> QED
    BY <2>1, <2>2, <2>3
<1>4. Ordered(p, i, L \cup {Head(q).len}, U)
  BY <1>3 DEF Ordered
<1> QED
  BY <1>2, <1>4 DEF p

\* The next acknowledgement of i is sent.
LEMMA OrderPush ==
    ASSUME NEW q \in Seq(Messages), NEW msg \in Messages, NEW i, IsAckOf(i, msg),
           NEW L, Ordered(q, i, L, {msg.len}), \A l \in L : l < msg.len
    PROVE  Ordered(Append(q, msg), i, L, {})
<1> DEFINE p == Append(q, msg)
<1>1. /\ Len(p) = Len(q) + 1 /\ Len(q) \in Nat /\ p[Len(p)] = msg
      /\ \A j \in 1..Len(q) : p[j] = q[j]
  BY AppendProperties, LenProperties
<1> HIDE DEF p
<1>2. ASSUME NEW j \in 1..Len(p), IsAckOf(i, p[j])
      PROVE  /\ \A k \in 1..(j - 1) : IsAckOf(i, p[k]) => p[k].len < p[j].len
             /\ \A l \in L : l < p[j].len
  <2>1. CASE j = Len(p)
    <3>1. \A k \in 1..(j - 1) : k \in 1..Len(q) /\ p[k] = q[k]
      BY <2>1, <1>1
    <3> QED
      BY <2>1, <3>1, <1>1 DEF Ordered
  <2>2. CASE j # Len(p)
    <3>1. /\ j \in 1..Len(q) /\ p[j] = q[j]
          /\ \A k \in 1..(j - 1) : p[k] = q[k]
      BY <2>2, <1>1
    <3> QED
      BY <3>1, <1>2 DEF Ordered
  <2> QED
    BY <2>1, <2>2
<1>3. Ordered(p, i, L, {})
  BY <1>2 DEF Ordered
<1> QED
  BY <1>3 DEF p

\* Nothing is changed for Send but perhaps what is behind in the pipe.
LEMMA OrderKept ==
    ASSUME NEW r, NEW s, s.id = r.id, s.pc = r.pc, s.inLen = r.inLen,
           s.acks = r.acks,
           NEW p \in Seq(Messages), NEW q \in Seq(Messages), Sub(p, q, r.id),
           NEW W, NEW U, OrderOK(r, q, W, U)
    PROVE  OrderOK(s, p, W, U)
<1>1. Taken(s) = Taken(r)
  BY DEF Taken
<1>2. Rising(s, W) = Rising(r, W)
  BY <1>1 DEF Rising
<1>3. Ordered(p, r.id, Taken(r) \cup W, U) /\ (Silent(q, r.id) => Silent(p, r.id))
  BY OrderSub DEF OrderOK
<1> QED
  BY <1>1, <1>2, <1>3 DEF OrderOK

-----------------------------------------------------------------------------
(* Steps of the stages.                                                    *)

LEMMA CalmFacts ==
    ASSUME CalmBody, NEW n \in Nodes
    PROVE  /\ ~Done(n) /\ ~Closed(n) /\ stage[n] \notin Dead
           /\ tm[n] # "error" /\ client[n] \in {"starting", "up"}
<1>1. client[n] \in {"starting", "up"} /\ tm[n] # "error"
  BY DEF CalmBody, QuietInv
<1>2. stage[n] \notin Dead
  <2>1. n = Active \/ n = Passive
    BY DEF Nodes
  <2> QED
    BY <2>1 DEF CalmBody, TurnInv, Handshaken, Dead, Established
<1> QED
  BY <1>1, <1>2 DEF Done, Closed

\* The state of the pipes in the next state.
LEMMA NextPipes ==
    ASSUME IInv, IInv'
    PROVE  \A n \in Nodes : Pipe(n) \in Seq(Messages) /\ Pipe(n)' \in Seq(Messages)
<1>1. Typed /\ Typed'
  BY DEF IInv, Typed
<1>2. FlowTyped /\ FlowTyped'
  <2>1. FlowTyped
    BY <1>1, FlowTypes
  <2>2. FlowTyped'
    BY <1>1, FlowTypes, PTL
  <2> QED
    BY <2>1, <2>2
<1> QED
  BY <1>2 DEF FlowTyped

LEMMA KeptSub ==
    ASSUME NEW n, PipeKept(n), NEW i
    PROVE  Sub(Pipe(n)', Pipe(n), i)
BY DEF PipeKept, Sub, IsAckOf

LEMMA StageOrder ==
    ASSUME IInv, IInv', CalmBody, PipesKept,
           UNCHANGED <<send, bufs, delivered, cur>>,
           \A n \in Nodes : \/ tm'[n] = tm[n]
                            \/ tm[n] = "none" /\ tm'[n] = "run",
           NEW x \in Transfers, Started(x)'
    PROVE  OrderInv(x)'
<1>1. /\ Owner[x] \in Nodes /\ To(x) \in Nodes
  BY SendFacts
<1>2. Started(x) /\ OrderInv(x)
  BY DEF Started, CalmBody
<1>3. Waiting(x)' = Waiting(x) /\ Owed(x)' = Owed(x)
  <2>1. Got(x)' = Got(x)
    BY DEF Got, Buf
  <2>2. /\ (tm'[Owner[x]] = "feedback") = (tm[Owner[x]] = "feedback")
        /\ (tm'[To(x)] = "ack") = (tm[To(x)] = "ack")
    BY <1>1
  <2> QED
    BY <2>1, <2>2 DEF Waiting, Owed
<1>4. /\ Pipe(To(x)) \in Seq(Messages) /\ Pipe(To(x))' \in Seq(Messages)
      /\ Sub(Pipe(To(x))', Pipe(To(x)), send[x].id)
  BY <1>1, NextPipes, KeptSub DEF PipesKept
<1> DEFINE r == send[x]
           p == Pipe(To(x))'
           q == Pipe(To(x))
           W == Waiting(x)
           U == Owed(x)
<1>5. /\ p \in Seq(Messages) /\ q \in Seq(Messages) /\ Sub(p, q, r.id)
      /\ OrderOK(r, q, W, U)
  BY <1>2, <1>4 DEF OrderInv
<1>6. OrderInv(x)' = OrderOK(r, p, W, U)
  BY <1>3 DEF OrderInv
<1> HIDE DEF r, p, q, W, U
<1>7. OrderOK(r, p, W, U)
  BY <1>5, OrderKept
<1> QED
  BY <1>6, <1>7

LEMMA OnlyKept ==
    ASSUME NEW s \in Seq(Messages), OnlyExchanged(s)
    PROVE  /\ \A msg \in Exchanged : OnlyExchanged(Append(s, msg))
           /\ s # <<>> => OnlyExchanged(Tail(s)) /\ Head(s).type \in {"segment", "ack"}
<1>1. ASSUME NEW msg \in Exchanged PROVE OnlyExchanged(Append(s, msg))
  <2>1. msg \in Messages /\ msg.type \in {"segment", "ack"}
    BY MessageTypes
  <2>2. /\ Len(Append(s, msg)) = Len(s) + 1 /\ Append(s, msg)[Len(s) + 1] = msg
        /\ \A i \in 1..Len(s) : Append(s, msg)[i] = s[i]
        /\ Len(s) \in Nat
    BY <2>1, AppendProperties, LenProperties
  <2> QED
    BY <2>1, <2>2 DEF OnlyExchanged
<1>2. ASSUME s # <<>>
      PROVE  OnlyExchanged(Tail(s)) /\ Head(s).type \in {"segment", "ack"}
  <2>1. /\ Len(s) = Len(Tail(s)) + 1 /\ Len(Tail(s)) \in Nat /\ Head(s) = s[1]
        /\ \A i \in 1..Len(Tail(s)) : Tail(s)[i] = s[i + 1]
    BY <1>2, HeadTailProperties, LenProperties
  <2>2. 1 \in 1..Len(s) /\ \A i \in 1..Len(Tail(s)) : i + 1 \in 1..Len(s)
    BY <2>1
  <2> QED
    BY <2>1, <2>2 DEF OnlyExchanged
<1> QED
  BY <1>1, <1>2

\* An established stage may have written one more message.
Written(w, s) == w = s \/ \E msg \in Exchanged : w = Append(s, msg)

\* ... or have read one.
OneRead(w, s) == w = s \/ (s # <<>> /\ w = Tail(s))

LEMMA ActiveMoves ==
    ASSUME NEW sa \in Established, NEW sp, NEW wa \in Seq(Messages),
           NEW wp \in Seq(Messages), Handshaken(sa, sp, wa, wp),
           NEW ta \in Established, NEW va, NEW vp, Written(va, wa), OneRead(vp, wp)
    PROVE  Handshaken(ta, sp, va, vp)
<1>1. sp \in Established /\ OnlyExchanged(wa) /\ OnlyExchanged(wp)
  BY DEF Handshaken, Established
<1>2. OnlyExchanged(va)
  BY <1>1, OnlyKept DEF Written
<1>3. OnlyExchanged(vp)
  BY <1>1, OnlyKept DEF OneRead
<1> QED
  BY <1>1, <1>2, <1>3 DEF Handshaken

LEMMA PassiveMoves ==
    ASSUME NEW sp \in Established, NEW sa, NEW wa \in Seq(Messages),
           NEW wp \in Seq(Messages), Handshaken(sa, sp, wa, wp),
           NEW tp \in Established, NEW va, NEW vp, Written(vp, wp), OneRead(va, wa)
    PROVE  Handshaken(sa, tp, va, vp)
<1>1. CASE sa \in Established
  <2>1. OnlyExchanged(wa) /\ OnlyExchanged(wp)
    BY <1>1 DEF Handshaken, Established
  <2>2. OnlyExchanged(vp)
    BY <2>1, OnlyKept DEF Written
  <2>3. OnlyExchanged(va)
    BY <2>1, OnlyKept DEF OneRead
  <2> QED
    BY <1>1, <2>2, <2>3 DEF Handshaken
<1>2. CASE sa \notin Established
  <2>1. /\ sa = "recvInit" /\ wa = <<>> /\ wp # <<>>
        /\ Head(wp) = SessInit(Passive) /\ OnlyExchanged(Tail(wp))
    BY <1>2 DEF Handshaken, Established
  <2>2. va = <<>>
    BY <2>1 DEF OneRead
  <2>3. vp # <<>> /\ Head(vp) = SessInit(Passive) /\ OnlyExchanged(Tail(vp))
    <3>1. CASE vp = wp
      BY <3>1, <2>1
    <3>2. ASSUME NEW msg \in Exchanged, vp = Append(wp, msg)
          PROVE  vp # <<>> /\ Head(vp) = SessInit(Passive) /\ OnlyExchanged(Tail(vp))
      <4>1. Tail(wp) \in Seq(Messages) /\ msg \in Messages /\ <<msg>> \in Seq(Messages)
        BY <2>1, HeadTailProperties, MessageTypes
      <4>2. vp = wp \o <<msg>> /\ Tail(wp) \o <<msg>> = Append(Tail(wp), msg)
        BY <3>2, <4>1, SeqAlgebra
      <4>3. vp # <<>> /\ Head(vp) = Head(wp) /\ Tail(vp) = Append(Tail(wp), msg)
        BY <4>1, <4>2, <2>1, TailFront
      <4> QED
        BY <4>1, <4>3, <2>1, OnlyKept
    <3> QED
      BY <3>1, <3>2 DEF Written
  <2> QED
    BY <2>1, <2>2, <2>3 DEF Handshaken
<1> QED
  BY <1>1, <1>2

LEMMA EstablishedTurn ==
    ASSUME IInv, TurnInv, NEW n \in Nodes, stage[n] \in Established,
           stage'[n] \in Established, stage'[Peer(n)] = stage[Peer(n)],
           Written(wire'[n], wire[n]), OneRead(wire'[Peer(n)], wire[Peer(n)])
    PROVE  TurnInv'
<1>1. /\ wire[Active] \in Seq(Messages) /\ wire[Passive] \in Seq(Messages)
      /\ Active # Passive
  BY TcpclAssumption DEF IInv, TypeOK, Nodes
<1>2. CASE n = Active
  <2>1. Peer(n) = Passive
    BY <1>2 DEF Peer
  <2> QED
    BY <1>1, <1>2, <2>1, ActiveMoves DEF TurnInv
<1>3. CASE n = Passive
  <2>1. Peer(n) = Active
    BY <1>1, <1>3 DEF Peer
  <2> QED
    BY <1>1, <1>3, <2>1, PassiveMoves DEF TurnInv
<1> QED
  BY <1>2, <1>3 DEF Nodes

LEMMA SendHandshakeTurn ==
    ASSUME IInv, CalmBody, NEW n \in Nodes, SendHandshake(n)
    PROVE  TurnInv'
<1>1. /\ Active # Passive /\ stage \in [Nodes -> Stages] /\ wire \in [Nodes -> Seq(Messages)]
      /\ Peer(Active) = Passive /\ Peer(Passive) = Active
      /\ Active \in Nodes /\ Passive \in Nodes
  BY TcpclAssumption DEF IInv, TypeOK, Nodes, Peer
<1>2. client[Active] # "down" /\ client[Passive] # "down"
  BY <1>1, CalmFacts
<1>3. TurnInv
  BY DEF CalmBody
<1> DEFINE msg == IF stage[n] = "sendContact" THEN Contact ELSE SessInit(n)
<1>4. /\ stage[n] \in {"sendContact", "sendInit"}
      /\ wire' = [wire EXCEPT ![n] = Append(wire[n], msg)]
      /\ stage' = [stage EXCEPT ![n] = AfterSend(n)]
  <2>1. client[Peer(n)] # "down"
    BY <1>1, <1>2 DEF Nodes
  <2> QED
    BY <2>1 DEF SendHandshake, Transmit, Contact, SessInit
<1>5. \A e : Append(<<>>, e) = <<e>>
  OBVIOUS
<1>6. CASE n = Active
  <2>1. /\ stage'[Active] = AfterSend(Active) /\ stage'[Passive] = stage[Passive]
        /\ wire'[Active] = Append(wire[Active], msg) /\ wire'[Passive] = wire[Passive]
    BY <1>1, <1>4, <1>6
  <2>2. CASE stage[Active] = "sendContact"
    <3>1. stage[Passive] = "recvContact" /\ wire[Active] = <<>> /\ wire[Passive] = <<>>
      BY <2>2, <1>3 DEF TurnInv, Handshaken, Established
    <3>2. wire'[Active] = <<Contact>> /\ stage'[Active] = "recvContact"
      BY <2>1, <2>2, <3>1, <1>5, <1>6 DEF AfterSend
    <3> QED
      BY <3>1, <3>2, <2>1 DEF TurnInv, Handshaken
  <2>3. CASE stage[Active] = "sendInit"
    <3>1. stage[Passive] = "recvInit" /\ wire[Active] = <<>> /\ wire[Passive] = <<>>
      BY <2>3, <1>3 DEF TurnInv, Handshaken, Established
    <3>2. wire'[Active] = <<SessInit(Active)>> /\ stage'[Active] = "recvInit"
      BY <2>1, <2>3, <3>1, <1>5, <1>6 DEF AfterSend
    <3> QED
      BY <3>1, <3>2, <2>1 DEF TurnInv, Handshaken
  <2> QED
    BY <2>2, <2>3, <1>4, <1>6
<1>7. CASE n = Passive
  <2>1. /\ stage'[Passive] = AfterSend(Passive) /\ stage'[Active] = stage[Active]
        /\ wire'[Passive] = Append(wire[Passive], msg) /\ wire'[Active] = wire[Active]
    BY <1>1, <1>4, <1>7
  <2>2. CASE stage[Passive] = "sendContact"
    <3>1. stage[Active] = "recvContact" /\ wire[Active] = <<>> /\ wire[Passive] = <<>>
      BY <2>2, <1>3 DEF TurnInv, Handshaken, Established
    <3>2. wire'[Passive] = <<Contact>> /\ stage'[Passive] = "recvInit"
      BY <2>1, <2>2, <3>1, <1>1, <1>5, <1>7 DEF AfterSend
    <3> QED
      BY <3>1, <3>2, <2>1 DEF TurnInv, Handshaken
  <2>3. CASE stage[Passive] = "sendInit"
    <3>1. stage[Active] = "recvInit" /\ wire[Active] = <<>> /\ wire[Passive] = <<>>
      BY <2>3, <1>3 DEF TurnInv, Handshaken, Established
    <3>2. wire'[Passive] = <<SessInit(Passive)>> /\ stage'[Passive] = "ready"
      BY <2>1, <2>3, <3>1, <1>1, <1>5, <1>7 DEF AfterSend
    <3>3. /\ wire'[Passive] # <<>> /\ Head(wire'[Passive]) = SessInit(Passive)
          /\ OnlyExchanged(Tail(wire'[Passive]))
      <4>1. Tail(wire'[Passive]) = <<>>
        BY <3>2
      <4> QED
        BY <3>2, <4>1 DEF OnlyExchanged
    <3> QED
      BY <3>1, <3>2, <3>3, <2>1 DEF TurnInv, Handshaken, Established
  <2> QED
    BY <2>2, <2>3, <1>4, <1>7
<1> QED
  BY <1>6, <1>7 DEF Nodes

LEMMA ReceiveHandshakeTurn ==
    ASSUME IInv, CalmBody, NEW n \in Nodes, ReceiveHandshake(n)
    PROVE  TurnInv'
<1>1. /\ Active # Passive /\ stage \in [Nodes -> Stages] /\ wire \in [Nodes -> Seq(Messages)]
      /\ Peer(Active) = Passive /\ Peer(Passive) = Active
      /\ Active \in Nodes /\ Passive \in Nodes
  BY TcpclAssumption DEF IInv, TypeOK, Nodes, Peer
<1>2. TurnInv
  BY DEF CalmBody
<1> DEFINE awaited == IF stage[n] = "recvContact" THEN "contact" ELSE "init"
<1>3. /\ stage[n] \in {"recvContact", "recvInit"} /\ wire[Peer(n)] # <<>>
      /\ stage' = [stage EXCEPT ![n] = IF Head(wire[Peer(n)]).type = awaited
                                       THEN AfterReceive(n) ELSE "error"]
      /\ wire' = [wire EXCEPT ![Peer(n)] = Tail(wire[Peer(n)])]
  BY DEF ReceiveHandshake
<1>4. /\ Contact.type = "contact" /\ \A k : SessInit(k).type = "init"
      /\ \A e : Tail(<<e>>) = <<>> /\ Head(<<e>>) = e
  BY DEF Contact, SessInit
<1>5. CASE n = Active
  <2>1. /\ stage'[Passive] = stage[Passive] /\ wire[Passive] # <<>>
        /\ Head(wire[Passive]).type = awaited => stage'[Active] = AfterReceive(Active)
        /\ wire'[Passive] = Tail(wire[Passive]) /\ wire'[Active] = wire[Active]
    BY <1>1, <1>3, <1>5
  <2>2. CASE stage[Active] = "recvContact"
    <3>1. stage[Passive] = "recvInit" /\ wire[Active] = <<>> /\ wire[Passive] = <<Contact>>
      BY <2>1, <2>2, <1>2 DEF TurnInv, Handshaken, Established
    <3>2. Head(wire[Passive]).type = awaited /\ wire'[Passive] = <<>>
      BY <2>1, <2>2, <3>1, <1>4, <1>5
    <3>3. stage'[Active] = "sendInit"
      BY <2>1, <2>2, <3>2 DEF AfterReceive
    <3> QED
      BY <3>1, <3>2, <3>3, <2>1 DEF TurnInv, Handshaken
  <2>3. CASE stage[Active] = "recvInit"
    <3>1. /\ stage[Passive] \in Established /\ wire[Active] = <<>>
          /\ Head(wire[Passive]) = SessInit(Passive)
          /\ OnlyExchanged(Tail(wire[Passive]))
      BY <2>1, <2>3, <1>2 DEF TurnInv, Handshaken, Established
    <3>2. Head(wire[Passive]).type = awaited
      BY <2>3, <3>1, <1>4, <1>5
    <3>3. stage'[Active] = "ready" /\ OnlyExchanged(<<>>)
      BY <2>1, <2>3, <3>2 DEF AfterReceive, OnlyExchanged
    <3> QED
      BY <3>1, <3>3, <2>1 DEF TurnInv, Handshaken, Established
  <2> QED
    BY <2>2, <2>3, <1>3, <1>5
<1>6. CASE n = Passive
  <2>1. /\ stage'[Active] = stage[Active] /\ wire[Active] # <<>>
        /\ Head(wire[Active]).type = awaited => stage'[Passive] = AfterReceive(Passive)
        /\ wire'[Active] = Tail(wire[Active]) /\ wire'[Passive] = wire[Passive]
    BY <1>1, <1>3, <1>6
  <2>2. CASE stage[Passive] = "recvContact"
    <3>1. stage[Active] = "recvContact" /\ wire[Active] = <<Contact>> /\ wire[Passive] = <<>>
      BY <2>1, <2>2, <1>2 DEF TurnInv, Handshaken, Established
    <3>2. Head(wire[Active]).type = awaited /\ wire'[Active] = <<>>
      BY <2>1, <2>2, <3>1, <1>4, <1>6
    <3>3. stage'[Passive] = "sendContact"
      BY <2>1, <2>2, <3>2, <1>1 DEF AfterReceive
    <3> QED
      BY <3>1, <3>2, <3>3, <2>1 DEF TurnInv, Handshaken
  <2>3. CASE stage[Passive] = "recvInit"
    <3>1. /\ stage[Active] = "recvInit" /\ wire[Active] = <<SessInit(Active)>>
          /\ wire[Passive] = <<>>
      BY <2>1, <2>3, <1>2 DEF TurnInv, Handshaken, Established
    <3>2. Head(wire[Active]).type = awaited /\ wire'[Active] = <<>>
      BY <2>1, <2>3, <3>1, <1>4, <1>6
    <3>3. stage'[Passive] = "sendInit"
      BY <2>1, <2>3, <3>2, <1>1 DEF AfterReceive
    <3> QED
      BY <3>1, <3>2, <3>3, <2>1 DEF TurnInv, Handshaken
  <2> QED
    BY <2>2, <2>3, <1>3, <1>6
<1> QED
  BY <1>5, <1>6 DEF Nodes

LEMMA StartTurn ==
    ASSUME IInv, CalmBody, NEW n \in Nodes, Start(n)
    PROVE  TurnInv'
<1>1. /\ stage[n] = "ready" /\ stage'[n] = "select" /\ stage'[Peer(n)] = stage[Peer(n)]
      /\ UNCHANGED wire
  BY PeerPeer DEF Start, IInv, TypeOK
<1>2. /\ Written(wire'[n], wire[n]) /\ OneRead(wire'[Peer(n)], wire[Peer(n)])
      /\ TurnInv
  BY <1>1 DEF Written, OneRead, CalmBody
<1> QED
  BY <1>1, <1>2, EstablishedTurn DEF Established

\* No message but those of transfers comes to an established stage.
LEMMA HandleMsgInTurn ==
    ASSUME IInv, CalmBody, NEW n \in Nodes, HandleMsgIn(n)
    PROVE  TurnInv'
<1> DEFINE m == Peer(n)
           msg == Head(wire[m])
<1>1. m \in Nodes /\ m # n /\ TurnInv /\ wire[m] \in Seq(Messages)
  BY PeerPeer DEF CalmBody, IInv, TypeOK
<1>2. stage[n] = "select" /\ wire[m] # <<>> /\ wire' = [wire EXCEPT ![m] = Tail(wire[m])]
  BY DEF HandleMsgIn
<1>3. msg.type \in {"segment", "ack"}
  <2>1. OnlyExchanged(wire[m])
    <3>1. CASE n = Active
      <4>1. m = Passive
        BY <3>1 DEF Peer
      <4> QED
        BY <3>1, <4>1, <1>1, <1>2 DEF TurnInv, Handshaken
    <3>2. CASE n = Passive
      <4>1. m = Active
        BY <3>2, TcpclAssumption DEF Peer
      <4> QED
        BY <3>2, <4>1, <1>1, <1>2 DEF TurnInv, Handshaken
    <3> QED
      BY <3>1, <3>2 DEF Nodes
  <2> QED
    BY <2>1, <1>1, <1>2, OnlyKept
<1>4. /\ stage'[n] \in {"select", "in"} /\ stage'[m] = stage[m]
      /\ wire'[n] = wire[n] /\ wire'[m] = Tail(wire[m])
  <2>1. stage' = stage \/ stage' = [stage EXCEPT ![n] = "in"]
    BY <1>3 DEF HandleMsgIn
  <2> QED
    BY <2>1, <1>1, <1>2 DEF IInv, TypeOK
<1>5. Written(wire'[n], wire[n]) /\ OneRead(wire'[m], wire[m])
  BY <1>2, <1>4 DEF Written, OneRead
<1> QED
  BY <1>1, <1>2, <1>4, <1>5, EstablishedTurn DEF Established

LEMMA PassInTurn ==
    ASSUME IInv, CalmBody, NEW n \in Nodes, PassIn(n)
    PROVE  TurnInv'
<1>1. /\ stage[n] = "in" /\ stage'[n] = "select" /\ stage'[Peer(n)] = stage[Peer(n)]
      /\ UNCHANGED wire
  BY PeerPeer DEF PassIn, IInv, TypeOK
<1>2. /\ Written(wire'[n], wire[n]) /\ OneRead(wire'[Peer(n)], wire[Peer(n)])
      /\ TurnInv
  BY <1>1 DEF Written, OneRead, CalmBody
<1> QED
  BY <1>1, <1>2, EstablishedTurn DEF Established

LEMMA MessageOutTurn ==
    ASSUME IInv, CalmBody, NEW n \in Nodes, MessageOut(n)
    PROVE  TurnInv'
<1> DEFINE m == Peer(n)
<1>1. /\ m \in Nodes /\ m # n /\ TurnInv /\ stage \in [Nodes -> Stages]
      /\ wire \in [Nodes -> Seq(Messages)] /\ client[m] # "down"
  BY PeerPeer, CalmFacts DEF CalmBody, IInv, TypeOK
<1>2. stage[n] = "select" /\ exOut[n] # <<>> /\ exOut[n] \in Seq(Exchanged)
  BY DEF MessageOut, IInv, StageInv
<1>3. Head(exOut[n]) \in Exchanged
  BY <1>2, HeadTailProperties
<1>4. \/ wire' = [wire EXCEPT ![n] = Append(wire[n], Head(exOut[n]))] /\ UNCHANGED stage
      \/ UNCHANGED wire /\ stage' = [stage EXCEPT ![n] = "out"]
  BY <1>1 DEF MessageOut, Transmit
<1>5. /\ stage'[n] \in {"select", "out"} /\ stage'[m] = stage[m]
      /\ Written(wire'[n], wire[n]) /\ OneRead(wire'[m], wire[m])
  BY <1>1, <1>2, <1>3, <1>4 DEF Written, OneRead
<1> QED
  BY <1>1, <1>2, <1>5, EstablishedTurn DEF Established

LEMMA PassOutTurn ==
    ASSUME IInv, CalmBody, NEW n \in Nodes, PassOut(n)
    PROVE  TurnInv'
<1> DEFINE m == Peer(n)
<1>1. /\ m \in Nodes /\ m # n /\ TurnInv /\ stage \in [Nodes -> Stages]
      /\ wire \in [Nodes -> Seq(Messages)] /\ client[m] # "down"
  BY PeerPeer, CalmFacts DEF CalmBody, IInv, TypeOK
<1>2. /\ stage[n] = "out" /\ held[n] \in Exchanged
      /\ stage' = [stage EXCEPT ![n] = "select"]
  BY DEF PassOut, IInv, StageInv
<1>3. wire' = [wire EXCEPT ![n] = Append(wire[n], held[n])]
  BY <1>1 DEF PassOut, Transmit
<1>4. /\ stage'[n] = "select" /\ stage'[m] = stage[m]
      /\ Written(wire'[n], wire[n]) /\ OneRead(wire'[m], wire[m])
  BY <1>1, <1>2, <1>3 DEF Written, OneRead
<1> QED
  BY <1>1, <1>2, <1>4, EstablishedTurn DEF Established

LEMMA StageCalm ==
    ASSUME IInv, IInv', CalmBody, NEW n \in Nodes,
           \/ SendHandshake(n) \/ ReceiveHandshake(n) \/ Start(n)
           \/ HandleMsgIn(n) \/ PassIn(n) \/ MessageOut(n) \/ PassOut(n)
    PROVE  CalmBody'
<1>1. Typed /\ Typed'
  BY DEF IInv, Typed
<1>2. TurnInv'
  BY SendHandshakeTurn, ReceiveHandshakeTurn, StartTurn, HandleMsgInTurn,
     PassInTurn, MessageOutTurn, PassOutTurn
<1>3. PipesKept
  BY <1>1, SendHandshakeKept, ReceiveHandshakeKept, StartKept, HandleMsgInKept,
     PassInKept, MessageOutKept, PassOutKept
<1>4. /\ UNCHANGED <<send, bufs, delivered, cur>>
      /\ \/ UNCHANGED <<tm, client>>
         \/ /\ client' = [client EXCEPT ![n] = "up"]
            /\ tm' = [tm EXCEPT ![n] = "run"]
            /\ client[n] = "starting"
  BY DEF SendHandshake, ReceiveHandshake, Start, HandleMsgIn, PassIn, MessageOut,
         PassOut, tmVars
<1>5. \A k \in Nodes : /\ \/ tm'[k] = tm[k]
                          \/ tm[k] = "none" /\ tm'[k] = "run"
                       /\ client'[k] \in {client[k], "up"}
  <2>1. client[n] = "starting" => tm[n] = "none"
    BY DEF IInv, StageInv
  <2>2. /\ tm \in [Nodes -> {"none", "run", "feedback", "ack", "deliver", "error",
                             "gone"}]
        /\ client \in [Nodes -> {"starting", "up", "closing", "down"}]
    BY DEF IInv, TypeOK
  <2> QED
    BY <2>1, <2>2, <1>4
<1>6. QuietInv'
  BY <1>5 DEF CalmBody, QuietInv
<1>7. ASSUME NEW x \in Transfers, Started(x)' PROVE OrderInv(x)'
  BY <1>3, <1>4, <1>5, <1>7, StageOrder
<1> QED
  BY <1>2, <1>6, <1>7 DEF CalmBody

\* The steps of a shutdown.
LEMMA NoShutdown ==
    ASSUME IInv, CalmBody, NEW n \in Nodes
    PROVE  ~\/ CloseStage(n) \/ SendTermination(n)
            \/ StopTransferManager(n) \/ Shutdown(n) \/ Disconnect(n)
<1>1. /\ ~Closed(n) /\ stage[n] \notin Dead /\ tm[n] # "error"
      /\ client[n] \in {"starting", "up"} /\ client[Peer(n)] # "down"
  BY CalmFacts, PeerPeer
<1> QED
  BY <1>1 DEF CloseStage, SendTermination, StopTransferManager, Shutdown,
              Disconnect, Closed, Dead

-----------------------------------------------------------------------------
(* What a Send call sees of its acknowledgements.                          *)

\* The next acknowledgement is about to be passed on.
LEMMA AckHeld ==
    ASSUME NEW r, NEW q \in Seq(Messages), q # <<>>, IsAckOf(r.id, Head(q)),
           NEW U, OrderOK(r, q, {}, U)
    PROVE  r.pc = "run" /\ OrderOK(r, Tail(q), {Head(q).len}, U)
<1> DEFINE l == Head(q).len
           i == r.id
           L == Taken(r)
<1>1. /\ Ordered(q, i, L, U) /\ Rising(r, {})
      /\ \A t \in L, u \in U : t < u
      /\ r.pc # "run" => Silent(q, i)
  BY DEF OrderOK
<1>2. r.pc = "run"
  <2>1. 1 \in 1..Len(q) /\ q[1] = Head(q)
    BY HeadTailProperties, LenProperties
  <2> QED
    BY <1>1, <2>1 DEF Silent
<1> HIDE DEF i, L, l
<1>3. IsAckOf(i, Head(q))
  BY DEF i
<1>4. /\ Ordered(Tail(q), i, L \cup {l}, U)
      /\ \A t \in L : t < l
      /\ \A u \in U : l < u
  BY <1>1, <1>3, OrderTake DEF l
<1>5. Rising(r, {l})
  BY <1>1, <1>4 DEF Rising, L
<1> QED
  BY <1>1, <1>2, <1>4, <1>5 DEF OrderOK, i, L, l

\* It is passed on.
LEMMA AckGiven ==
    ASSUME NEW r, NEW s, NEW l \in Nat, r.acks \in Seq(Nat),
           s.id = r.id, s.pc = r.pc, s.inLen = r.inLen,
           s.acks = Append(r.acks, l),
           NEW q, NEW U, OrderOK(r, q, {l}, U)
    PROVE  OrderOK(s, q, {}, U)
<1> DEFINE a == r.acks
           b == s.acks
<1>1. /\ Len(b) = Len(a) + 1 /\ b[Len(a) + 1] = l /\ Len(a) \in Nat
      /\ \A k \in 1..Len(a) : b[k] = a[k]
  BY AppendProperties, LenProperties
<1>2. Taken(s) = Taken(r) \cup {l}
  <2>1. \A t : (t \in {b[k] : k \in 1..Len(b)})
                 <=> (t = l \/ t \in {a[k] : k \in 1..Len(a)})
    <3>1. 1..Len(b) = 1..Len(a) \cup {Len(a) + 1}
      BY <1>1
    <3> QED
      BY <1>1, <3>1
  <2> QED
    BY <2>1 DEF Taken
<1>3. \A t \in Taken(r) : t < l
  BY DEF OrderOK, Rising
<1>4. ASSUME NEW k \in 1..Len(b)
      PROVE  s.inLen < b[k] /\ \A j \in 1..(k - 1) : b[j] < b[k]
  <2>1. CASE k \in 1..Len(a)
    <3>1. \A j \in 1..(k - 1) : b[j] = a[j]
      BY <2>1, <1>1
    <3> QED
      BY <2>1, <3>1, <1>1 DEF OrderOK, Rising
  <2>2. CASE k = Len(a) + 1
    <3>1. \A j \in 1..(k - 1) : j \in 1..Len(a) /\ b[j] = a[j] /\ a[j] \in Taken(r)
      BY <2>2, <1>1 DEF Taken
    <3>2. s.inLen \in Taken(r)
      BY DEF Taken
    <3> QED
      BY <2>2, <3>1, <3>2, <1>1, <1>3
  <2> QED
    BY <2>1, <2>2, <1>1
<1>5. Rising(s, {})
  BY <1>4 DEF Rising
<1>6. Taken(s) \cup {} = Taken(r) \cup {l}
  BY <1>2
<1> QED
  BY <1>5, <1>6 DEF OrderOK

\* More bytes arrive.
LEMMA AckBound ==
    ASSUME NEW r, NEW q, NEW W, NEW h, OrderOK(r, q, W, {}), r.pc = "run",
           \A l \in Taken(r) \cup W : l < h,
           \A j \in 1..Len(q) : IsAckOf(r.id, q[j]) => q[j].len < h
    PROVE  OrderOK(r, q, W, {h})
BY DEF OrderOK, Ordered

\* They are acknowledged.
LEMMA AckSent ==
    ASSUME NEW r, NEW q \in Seq(Messages), NEW W, NEW msg \in Messages,
           IsAckOf(r.id, msg), OrderOK(r, q, W, {msg.len})
    PROVE  OrderOK(r, Append(q, msg), W, {})
<1> DEFINE L == Taken(r) \cup W
           i == r.id
<1>1. Ordered(q, i, L, {msg.len}) /\ (\A l \in L : l < msg.len) /\ Rising(r, W)
      /\ r.pc = "run" /\ IsAckOf(i, msg)
  BY DEF OrderOK
<1> HIDE DEF L, i
<1>2. Ordered(Append(q, msg), i, L, {})
  BY <1>1, OrderPush
<1> QED
  BY <1>1, <1>2 DEF OrderOK, L, i

\* Nothing is on its way to a Send call, and it has nothing in its channel.
LEMMA OrderNone ==
    ASSUME NEW s, NEW q, Silent(q, s.id), s.acks = <<>>
    PROVE  OrderOK(s, q, {}, {})
BY DEF OrderOK, Ordered, Rising, Silent

\* An acknowledgement of the whole bundle is the last one.
LEMMA OrderEnd ==
    ASSUME NEW r, NEW q \in Seq(Messages), NEW W, NEW U, OrderOK(r, q, W, U),
           NEW h \in Nat, h \in Taken(r),
           \A l \in W \cup U : l \in Nat /\ l <= h,
           \A j \in 1..Len(q) : IsAckOf(r.id, q[j]) => q[j].len \in 1..h
    PROVE  Silent(q, r.id) /\ W = {} /\ U = {}
<1>1. ASSUME NEW j \in 1..Len(q), IsAckOf(r.id, q[j]) PROVE FALSE
  <2>1. h < q[j].len
    BY <1>1 DEF OrderOK, Ordered
  <2> QED
    BY <1>1, <2>1
<1>2. \A l \in W : h < l
  BY DEF OrderOK, Rising
<1>3. \A u \in U : h < u
  BY DEF OrderOK
<1> QED
  BY <1>1, <1>2, <1>3 DEF Silent

\* Send takes an acknowledgement that is not the last one.
LEMMA OrderNext ==
    ASSUME NEW r, NEW s, r.acks \in Seq(Nat), r.acks # <<>>,
           s.id = r.id, s.pc = r.pc, s.inLen = Head(r.acks),
           s.acks = Tail(r.acks),
           NEW q, NEW W, NEW U, OrderOK(r, q, W, U)
    PROVE  OrderOK(s, q, W, U)
<1> DEFINE a == r.acks
           b == s.acks
<1>1. /\ Len(a) = Len(b) + 1 /\ Len(b) \in Nat /\ s.inLen = a[1]
      /\ 1 \in 1..Len(a) /\ \A k \in 1..Len(b) : b[k] = a[k + 1]
  BY HeadTailProperties, LenProperties
<1>2. \A k \in 1..Len(b) : k + 1 \in 1..Len(a) /\ 1 \in 1..(k + 1 - 1)
  BY <1>1
<1>3. Taken(s) \subseteq Taken(r)
  BY <1>1, <1>2 DEF Taken
<1>4. ASSUME NEW k \in 1..Len(b)
      PROVE  s.inLen < b[k] /\ \A j \in 1..(k - 1) : b[j] < b[k]
  <2>1. \A j \in 1..(k + 1 - 1) : a[j] < a[k + 1]
    BY <1>2 DEF OrderOK, Rising
  <2>2. \A j \in 1..(k - 1) : j \in 1..Len(b) /\ j + 1 \in 1..(k + 1 - 1)
    BY <1>1
  <2> QED
    BY <2>1, <2>2, <1>1, <1>2
<1>5. Rising(s, W)
  BY <1>3, <1>4 DEF Rising, OrderOK
<1> QED
  BY <1>3, <1>5 DEF OrderOK, Ordered

\* The acknowledgements of a transfer are of bytes that have arrived.
LEMMA AcksArrived ==
    ASSUME IInv, NEW x \in Transfers, Started(x)
    PROVE  /\ \A l \in Taken(send[x]) \cup Waiting(x) : l \in Nat /\ l <= Got(x)
           /\ \A j \in 1..Len(Pipe(To(x))) : IsAckOf(send[x].id, Pipe(To(x))[j]) =>
                 Pipe(To(x))[j].len \in 1..Got(x)
<1>1. /\ Got(x) \in Nat /\ send[x].inLen \in Nat /\ AckedInv(x)
      /\ Owner[x] \in Nodes /\ To(x) \in Nodes /\ Peer(To(x)) = Owner[x]
  BY SendFacts
<1>2. ASSUME NEW msg, GoodAck(Owner[x], msg, View), msg.id = send[x].id
      PROVE  msg.len \in 1..Got(x)
  <2>1. PICK y \in Transfers : /\ Owner[y] = Owner[x] /\ View[y].on
                               /\ msg.id = View[y].id
                               /\ msg.len \in 1..View[y].got
    BY <1>2 DEF GoodAck
  <2>2. Started(y) /\ send[y].id = send[x].id /\ View[y].got = Got(y)
    BY <2>1, <1>2 DEF View
  <2>3. y = x
    BY <2>1, <2>2 DEF IInv, IdInv
  <2> QED
    BY <2>1, <2>2, <2>3
<1>3. \A l \in Taken(send[x]) : l \in Nat /\ l <= Got(x)
  BY <1>1 DEF Taken, AckedInv
<1>4. \A l \in Waiting(x) : l \in Nat /\ l <= Got(x)
  <2>1. ASSUME tm[Owner[x]] = "feedback", cur[Owner[x]].id = send[x].id
        PROVE  cur[Owner[x]].len \in 1..Got(x)
    <3>1. GoodAck(Owner[x], cur[Owner[x]], View)
      BY <2>1, <1>1 DEF IInv, TmInv
    <3> QED
      BY <3>1, <2>1, <1>2
  <2>2. \A l \in Waiting(x) : l \in 1..Got(x)
    BY <2>1 DEF Waiting
  <2> QED
    BY <2>2, <1>1
<1>5. ASSUME NEW j \in 1..Len(Pipe(To(x))), IsAckOf(send[x].id, Pipe(To(x))[j])
      PROVE  Pipe(To(x))[j].len \in 1..Got(x)
  <2>1. PipeOK(Pipe(To(x)), To(x), View)
    BY <1>1 DEF IInv, FlowInv
  <2>2. GoodAck(Owner[x], Pipe(To(x))[j], View)
    BY <2>1, <1>1, <1>5 DEF PipeOK, IsAckOf
  <2> QED
    BY <2>2, <1>2, <1>5 DEF IsAckOf
<1> QED
  BY <1>3, <1>4, <1>5

\* A step that changes nothing for the acknowledgements of x.
LEMMA OrderStep ==
    ASSUME IInv, IInv', NEW x \in Transfers, OrderInv(x),
           send'[x].id = send[x].id, send'[x].pc = send[x].pc,
           send'[x].inLen = send[x].inLen, send'[x].acks = send[x].acks,
           Waiting(x)' = Waiting(x), Owed(x)' = Owed(x),
           Sub(Pipe(To(x))', Pipe(To(x)), send[x].id)
    PROVE  OrderInv(x)'
<1>1. To(x) \in Nodes
  BY SendFacts
<1>2. Pipe(To(x)) \in Seq(Messages) /\ Pipe(To(x))' \in Seq(Messages)
  BY <1>1, NextPipes
<1> DEFINE r == send[x]
           s == send'[x]
           p == Pipe(To(x))'
           q == Pipe(To(x))
           W == Waiting(x)
           U == Owed(x)
<1>3. /\ p \in Seq(Messages) /\ q \in Seq(Messages) /\ Sub(p, q, r.id)
      /\ OrderOK(r, q, W, U)
      /\ s.id = r.id /\ s.pc = r.pc /\ s.inLen = r.inLen /\ s.acks = r.acks
  BY <1>2 DEF OrderInv
<1>4. OrderInv(x)' = OrderOK(s, p, W, U)
  BY DEF OrderInv
<1> HIDE DEF r, s, p, q, W, U
<1>5. OrderOK(s, p, W, U)
  BY <1>3, OrderKept
<1> QED
  BY <1>4, <1>5

LEMMA SubCases ==
    ASSUME NEW p, NEW q, NEW i
    PROVE  /\ p = q => Sub(p, q, i)
           /\ q # <<>> /\ p = Tail(q) => Sub(p, q, i)
           /\ \A msg \in Messages :
                 msg.type # "ack" \/ msg.id # i => Sub(Append(q, msg), q, i)
BY DEF Sub, IsAckOf

\* Waiting and Owed in the next state.
LEMMA WaitingSame ==
    ASSUME NEW x \in Transfers, send'[x].id = send[x].id,
           tm'[Owner[x]] = tm[Owner[x]], cur'[Owner[x]] = cur[Owner[x]]
    PROVE  Waiting(x)' = Waiting(x)
BY DEF Waiting

LEMMA OwedSame ==
    ASSUME NEW x \in Transfers, send'[x].id = send[x].id,
           tm'[To(x)] = tm[To(x)], cur'[To(x)] = cur[To(x)], Got(x)' = Got(x)
    PROVE  Owed(x)' = Owed(x)
BY DEF Owed

\* The TransferManager has no acknowledgement in hand before and after.
LEMMA WaitingNone ==
    ASSUME NEW x \in Transfers,
           tm[Owner[x]] # "feedback" \/ cur[Owner[x]].id # send[x].id,
           tm'[Owner[x]] # "feedback" \/ cur'[Owner[x]].id # send'[x].id
    PROVE  Waiting(x) = {} /\ Waiting(x)' = {}
BY DEF Waiting

LEMMA OwedNone ==
    ASSUME NEW x \in Transfers,
           tm[To(x)] # "ack" \/ cur[To(x)].id # send[x].id,
           tm'[To(x)] # "ack" \/ cur'[To(x)].id # send'[x].id
    PROVE  Owed(x) = {} /\ Owed(x)' = {}
BY DEF Owed

\* What is left of CalmBody in a step of no stage.
LEMMA CalmRest ==
    ASSUME CalmBody, UNCHANGED <<stage, wire, client>>,
           \A n \in Nodes : tm'[n] # "error",
           \A x \in Transfers : Started(x)' => OrderInv(x)'
    PROVE  CalmBody'
<1>1. TurnInv'
  BY DEF CalmBody, TurnInv, Handshaken
<1>2. QuietInv'
  BY DEF CalmBody, QuietInv
<1> QED
  BY <1>1, <1>2 DEF CalmBody

-----------------------------------------------------------------------------
(* Steps of the Send calls.                                                *)

(***************************************************************************)
(* A step of x that changes nothing of the TransferManagers; r is the new  *)
(* value of its variables.                                                 *)
(***************************************************************************)
LEMMA SendCalm ==
    ASSUME IInv, IInv', CalmBody, NEW x \in Transfers, NEW r,
           send' = [send EXCEPT ![x] = r], r.id = send[x].id, Started(x),
           UNCHANGED <<stage, held, wire, exIn, tm, cur, bufs, client, delivered>>,
           \A y \in Transfers : Sub(Pipe(To(y))', Pipe(To(y)), send[y].id),
           \/ r.pc = send[x].pc /\ r.inLen = send[x].inLen /\ r.acks = send[x].acks
           \/ OrderInv(x)'
    PROVE  CalmBody'
<1>1. send'[x] = r /\ \A y \in Transfers \ {x} : send'[y] = send[y]
  BY DEF IInv, TypeOK
<1>2. ASSUME NEW y \in Transfers
      PROVE  /\ send'[y].id = send[y].id
             /\ Waiting(y)' = Waiting(y) /\ Owed(y)' = Owed(y)
  <2>1. send'[y].id = send[y].id
    BY <1>1
  <2>2. Got(y)' = Got(y)
    BY <2>1 DEF Got, Buf
  <2> QED
    BY <2>1, <2>2, WaitingSame, OwedSame
<1>3. ASSUME NEW y \in Transfers, Started(y)' PROVE OrderInv(y)'
  <2>1. CASE y # x
    <3>1. Started(y) /\ send'[y] = send[y]
      BY <2>1, <1>1, <1>3 DEF Started
    <3>2. OrderInv(y)
      BY <3>1 DEF CalmBody
    <3> QED
      BY <3>1, <3>2, <1>2, OrderStep
  <2>2. CASE y = x
    <3>1. OrderInv(x)
      BY DEF CalmBody
    <3>2. CASE r.pc = send[x].pc /\ r.inLen = send[x].inLen /\ r.acks = send[x].acks
      BY <3>1, <3>2, <1>1, <1>2, OrderStep, <2>2
    <3> QED
      BY <3>2, <2>2
  <2> QED
    BY <2>1, <2>2
<1>4. \A n \in Nodes : tm'[n] # "error"
  BY CalmFacts
<1> QED
  BY <1>3, <1>4, CalmRest

\* StopSending, EndOfBundle
LEMMA EndOfSendingCalm ==
    ASSUME IInv, IInv', CalmBody, NEW x \in Transfers,
           StopSending(x) \/ EndOfBundle(x)
    PROVE  CalmBody'
<1>1. Started(x) /\ send \in [Transfers -> SendRec] /\ send[x] \in SendRec
  BY RunningStarted, SendFacts DEF StopSending, EndOfBundle, IInv, TypeOK
<1>2. UNCHANGED <<stage, held, mtu, wire, exIn, exOut, tm, cur, bufs, nextId,
                  client, asked, delivered>>
  BY DEF StopSending, EndOfBundle, stageVars, tmVars
<1>3. \A y \in Transfers : Sub(Pipe(To(y))', Pipe(To(y)), send[y].id)
  <2>1. \A y \in Transfers : To(y) \in Nodes
    BY SendFacts
  <2>2. \A k \in Nodes : Pipe(k)' = Pipe(k)
    BY <1>2, PipeSame
  <2> QED
    BY <2>1, <2>2, SubCases
<1>4. PICK r : /\ send' = [send EXCEPT ![x] = r] /\ r.id = send[x].id
               /\ r.pc = send[x].pc /\ r.inLen = send[x].inLen
               /\ r.acks = send[x].acks
  <2>1. CASE StopSending(x)
    <3> DEFINE r == [send[x] EXCEPT !.out = "off", !.err = ~send[x].stop]
    <3>1. send' = [send EXCEPT ![x] = r]
      BY <1>1, <2>1 DEF StopSending
    <3>2. /\ r.id = send[x].id /\ r.pc = send[x].pc /\ r.inLen = send[x].inLen
          /\ r.acks = send[x].acks
      BY <1>1 DEF SendRec
    <3> HIDE DEF r
    <3> QED
      BY <3>1, <3>2
  <2>2. CASE EndOfBundle(x)
    <3> DEFINE r == [send[x] EXCEPT !.out = "off", !.total = send[x].pos]
    <3>1. send' = [send EXCEPT ![x] = r]
      BY <1>1, <2>2 DEF EndOfBundle
    <3>2. /\ r.id = send[x].id /\ r.pc = send[x].pc /\ r.inLen = send[x].inLen
          /\ r.acks = send[x].acks
      BY <1>1 DEF SendRec
    <3> HIDE DEF r
    <3> QED
      BY <3>1, <3>2
  <2> QED
    BY <2>1, <2>2
<1> QED
  BY <1>1, <1>2, <1>3, <1>4, SendCalm

\* NextSegment, PushSegment
LEMMA SegmentCalm ==
    ASSUME IInv, IInv', CalmBody, NEW x \in Transfers,
           NextSegment(x) \/ PushSegment(x)
    PROVE  CalmBody'
<1> DEFINE n == Owner[x]
           m == To(x)
<1>1. /\ Started(x) /\ send \in [Transfers -> SendRec] /\ send[x] \in SendRec
      /\ n \in Nodes /\ m \in Nodes /\ Peer(n) = m /\ Peer(m) = n
      /\ send[x].pos < Size[x] /\ exOut \in [Nodes -> Seq(Messages)]
  BY RunningStarted, SendFacts DEF NextSegment, PushSegment, IInv, TypeOK, SendInv
<1>2. UNCHANGED <<stage, held, mtu, wire, exIn, tm, cur, bufs, nextId,
                  client, asked, delivered>>
  BY DEF NextSegment, PushSegment, stageVars, tmVars
<1>3. /\ Segment(x) \in Messages /\ Segment(x).type # "ack"
      /\ SegmentEnd(x) \in Nat
  <2>1. Segment(x) \in Exchanged /\ SegmentEnd(x) \in Nat
    BY <1>1, KnownMtu, SegmentType DEF IInv
  <2> QED
    BY <2>1, MessageTypes DEF Segment
<1>4. \/ UNCHANGED exOut
      \/ exOut' = [exOut EXCEPT ![n] = Append(exOut[n], Segment(x))]
  BY DEF NextSegment, PushSegment
<1>5. ASSUME NEW k \in Nodes, NEW i PROVE Sub(Pipe(k)', Pipe(k), i)
  <2>1. CASE exOut'[k] = exOut[k]
    <3>1. Pipe(k)' = Pipe(k)
      BY <2>1, <1>2, PipeSame
    <3> QED
      BY <3>1, SubCases
  <2>2. CASE exOut'[k] # exOut[k]
    <3>1. exOut'[k] = Append(exOut[k], Segment(x))
      BY <2>2, <1>1, <1>4
    <3>2. Typed
      BY DEF IInv, Typed
    <3> DEFINE msg == Segment(x)
    <3> HIDE DEF msg
    <3>3. msg \in Messages /\ exOut'[k] = Append(exOut[k], msg) /\ msg.type # "ack"
      BY <3>1, <1>3 DEF msg
    <3>4. \/ Pipe(k)' = Pipe(k)
          \/ Pipe(k)' = Append(Pipe(k), msg)
      BY <3>2, <3>3, <1>2, PushOut
    <3> QED
      BY <3>3, <3>4, SubCases
  <2> QED
    BY <2>1, <2>2
<1>6. \A y \in Transfers : Sub(Pipe(To(y))', Pipe(To(y)), send[y].id)
  BY <1>5, SendFacts
<1>7. PICK r : /\ send' = [send EXCEPT ![x] = r] /\ r.id = send[x].id
               /\ r.pc = send[x].pc /\ r.inLen = send[x].inLen
               /\ r.acks = send[x].acks
  <2>1. PICK r : /\ send' = [send EXCEPT ![x] = r]
                 /\ \/ r = [send[x] EXCEPT !.pos = SegmentEnd(x)]
                    \/ r = [send[x] EXCEPT !.out = "push"]
                    \/ r = [send[x] EXCEPT !.pos = SegmentEnd(x), !.out = "next"]
    <3>1. CASE PushSegment(x)
      <4>1. send' = [send EXCEPT ![x] = [send[x] EXCEPT !.pos = SegmentEnd(x), !.out = "next"]]
        BY <3>1, <1>1 DEF PushSegment
      <4> QED
        BY <4>1
    <3>2. CASE NextSegment(x)
      <4>1. \/ send' = [send EXCEPT ![x] = [send[x] EXCEPT !.pos = SegmentEnd(x)]]
            \/ send' = [send EXCEPT ![x] = [send[x] EXCEPT !.out = "push"]]
        BY <3>2, <1>1 DEF NextSegment
      <4> QED
        BY <4>1
    <3> QED
      BY <3>1, <3>2
  <2>2. /\ r.id = send[x].id /\ r.pc = send[x].pc
        /\ r.inLen = send[x].inLen /\ r.acks = send[x].acks
    BY <2>1, <1>1 DEF SendRec
  <2> QED
    BY <2>1, <2>2
<1> QED
  BY <1>1, <1>2, <1>6, <1>7, SendCalm

\* The Send call has all acknowledgements.
LEMMA LastAck ==
    ASSUME IInv, CalmBody, NEW x \in Transfers, Started(x),
           Size[x] \in Taken(send[x])
    PROVE  Silent(Pipe(To(x)), send[x].id) /\ Waiting(x) = {} /\ Owed(x) = {}
<1> DEFINE r == send[x]
           q == Pipe(To(x))
           W == Waiting(x)
           U == Owed(x)
           h == Size[x]
<1>1. /\ Got(x) \in Nat /\ h \in Nat /\ Got(x) <= h /\ To(x) \in Nodes
  BY SendFacts
<1>2. q \in Seq(Messages)
  BY <1>1, FlowTypes DEF FlowTyped, IInv, Typed
<1>3. OrderOK(r, q, W, U)
  BY DEF CalmBody, OrderInv
<1>4. /\ \A l \in W : l \in Nat /\ l <= h
      /\ \A j \in 1..Len(q) : IsAckOf(r.id, q[j]) => q[j].len \in 1..h
  <2>1. /\ \A l \in W : l \in Nat /\ l <= Got(x)
        /\ \A j \in 1..Len(q) : IsAckOf(r.id, q[j]) => q[j].len \in 1..Got(x)
    BY AcksArrived
  <2> HIDE DEF r, q, W, h
  <2> QED
    BY <2>1, <1>1
<1>5. \A l \in U : l \in Nat /\ l <= h
  BY <1>1 DEF Owed
<1> HIDE DEF r, q, W, U, h
<1>6. h \in Taken(r)
  BY DEF r, h
<1>7. Silent(q, r.id) /\ W = {} /\ U = {}
  BY <1>1, <1>2, <1>3, <1>4, <1>5, <1>6, OrderEnd
<1> QED
  BY <1>7 DEF r, q, W, U

\* Send returns without an error: no acknowledgement comes late.
LEMMA ReturnCalm ==
    ASSUME IInv, IInv', CalmBody, NEW x \in Transfers, Started(x),
           Size[x] \in Taken(send[x]),
           send' = [send EXCEPT ![x] = Return(send[x], "ok")],
           UNCHANGED <<stage, held, wire, exIn, exOut, tm, cur, bufs, client,
                       delivered>>
    PROVE  CalmBody'
<1>1. Silent(Pipe(To(x)), send[x].id) /\ Waiting(x) = {} /\ Owed(x) = {}
  BY LastAck
<1> DEFINE r == Return(send[x], "ok")
<1>2. r.id = send[x].id /\ r.acks = <<>> /\ send'[x] = r /\ To(x) \in Nodes
  BY SendFacts, ReturnRec DEF IInv, TypeOK
<1> HIDE DEF r
<1>3. \A k \in Nodes : Pipe(k)' = Pipe(k)
  BY PipeSame
<1>4. \A y \in Transfers : Sub(Pipe(To(y))', Pipe(To(y)), send[y].id)
  BY <1>3, SendFacts, SubCases
<1>5. Got(x)' = Got(x)
  BY <1>2 DEF Got, Buf
<1>6. Waiting(x)' = {} /\ Owed(x)' = {}
  BY <1>1, <1>2, <1>5, WaitingSame, OwedSame
<1>7. OrderInv(x)'
  <2>1. OrderInv(x)' = OrderOK(r, Pipe(To(x)), {}, {})
    BY <1>2, <1>3, <1>6 DEF OrderInv
  <2> QED
    BY <2>1, <1>1, <1>2, OrderNone
<1> QED
  BY <1>2, <1>4, <1>7, SendCalm DEF r

LEMMA ReceiveLengthCalm ==
    ASSUME IInv, IInv', CalmBody, NEW x \in Transfers, ReceiveLength(x)
    PROVE  CalmBody'
<1>1. Started(x) /\ send[x] \in SendRec /\ SendInv(x)
  BY RunningStarted, SendFacts DEF ReceiveLength
<1>2. /\ send[x].total = Size[x]
      /\ send' = [send EXCEPT ![x] =
                    IF Size[x] = send[x].inLen THEN Return(send[x], "ok")
                    ELSE [send[x] EXCEPT !.outLen = Size[x], !.total = None]]
      /\ UNCHANGED <<stage, held, wire, exIn, exOut, tm, cur, bufs, client,
                     delivered>>
  BY <1>1 DEF ReceiveLength, SendInv, stageVars, tmVars
<1>3. CASE Size[x] = send[x].inLen
  <2>1. Size[x] \in Taken(send[x])
    BY <1>3 DEF Taken
  <2> QED
    BY <2>1, <1>1, <1>2, <1>3, ReturnCalm
<1>4. CASE Size[x] # send[x].inLen
  <2> DEFINE r == [send[x] EXCEPT !.outLen = Size[x], !.total = None]
  <2>1. send' = [send EXCEPT ![x] = r]
    BY <1>2, <1>4
  <2>2. /\ r.id = send[x].id /\ r.pc = send[x].pc /\ r.inLen = send[x].inLen
        /\ r.acks = send[x].acks
    BY <1>1 DEF SendRec
  <2> HIDE DEF r
  <2>3. \A y \in Transfers : Sub(Pipe(To(y))', Pipe(To(y)), send[y].id)
    BY <1>2, SendFacts, PipeSame, SubCases
  <2> QED
    BY <2>1, <2>2, <2>3, <1>1, <1>2, SendCalm
<1> QED
  BY <1>3, <1>4

LEMMA ReceiveAckCalm ==
    ASSUME IInv, IInv', CalmBody, NEW x \in Transfers, ReceiveAck(x)
    PROVE  CalmBody'
<1> DEFINE len == Head(send[x].acks)
           rest == Tail(send[x].acks)
<1>1. /\ Started(x) /\ send[x] \in SendRec /\ SendInv(x)
      /\ send[x].acks \in Seq(Nat) /\ send[x].inLen \in Nat
  BY RunningStarted, SendFacts DEF ReceiveAck
<1>2. /\ send[x].acks # <<>>
      /\ send' = [send EXCEPT ![x] =
                    IF send[x].outLen = len THEN Return(send[x], "ok")
                    ELSE [send[x] EXCEPT !.inLen = len, !.acks = rest]]
      /\ UNCHANGED <<stage, held, wire, exIn, exOut, tm, cur, bufs, client,
                     delivered>>
  BY DEF ReceiveAck, stageVars, tmVars
<1>3. /\ len = send[x].acks[1] /\ 1 \in 1..Len(send[x].acks) /\ len \in Nat
  BY <1>1, <1>2, HeadTailProperties, LenProperties
<1>4. OrderInv(x)
  BY <1>1 DEF CalmBody
<1>5. CASE send[x].outLen = len
  <2>1. send[x].inLen < len
    BY <1>3, <1>4 DEF OrderInv, OrderOK, Rising
  <2>2. len = Size[x]
    BY <2>1, <1>1, <1>3, <1>5 DEF SendInv
  <2>3. Size[x] \in Taken(send[x])
    BY <2>2, <1>3 DEF Taken
  <2> QED
    BY <2>3, <1>1, <1>2, <1>5, ReturnCalm
<1>6. CASE send[x].outLen # len
  <2> DEFINE r == [send[x] EXCEPT !.inLen = len, !.acks = rest]
  <2>1. send' = [send EXCEPT ![x] = r]
    BY <1>2, <1>6
  <2>2. /\ r.id = send[x].id /\ r.pc = send[x].pc /\ r.inLen = len
        /\ r.acks = rest
    BY <1>1 DEF SendRec
  <2>3. send'[x] = r
    BY <2>1 DEF IInv, TypeOK
  <2> HIDE DEF r
  <2>4. \A y \in Transfers : To(y) \in Nodes /\ Pipe(To(y))' = Pipe(To(y))
    BY <1>2, SendFacts, PipeSame
  <2>5. \A y \in Transfers : Sub(Pipe(To(y))', Pipe(To(y)), send[y].id)
    BY <2>4, SubCases
  <2>6. Got(x)' = Got(x)
    BY <2>2, <2>3, <1>2 DEF Got, Buf
  <2>7. Waiting(x)' = Waiting(x) /\ Owed(x)' = Owed(x)
    BY <2>2, <2>3, <2>6, <1>2, WaitingSame, OwedSame
  <2>8. OrderInv(x)'
    <3> DEFINE s == send[x]
               q == Pipe(To(x))
               W == Waiting(x)
               U == Owed(x)
    <3>1. OrderInv(x)' = OrderOK(r, q, W, U)
      BY <2>3, <2>4, <2>7 DEF OrderInv
    <3>2. /\ OrderOK(s, q, W, U) /\ s.acks \in Seq(Nat) /\ s.acks # <<>>
          /\ r.id = s.id /\ r.pc = s.pc /\ r.inLen = Head(s.acks)
          /\ r.acks = Tail(s.acks)
      BY <2>2, <1>1, <1>2, <1>4 DEF OrderInv
    <3> HIDE DEF s, q, W, U
    <3>3. OrderOK(r, q, W, U)
      BY <3>2, OrderNext
    <3> QED
      BY <3>1, <3>3
  <2> QED
    BY <2>1, <2>2, <2>5, <2>8, <1>1, <1>2, SendCalm
<1> QED
  BY <1>5, <1>6

\* A new transfer has an ID of its own, of which there is no acknowledgement.
LEMMA SendCallCalm ==
    ASSUME IInv, IInv', CalmBody, NEW x \in Transfers, Send(x)
    PROVE  CalmBody'
<1> DEFINE n == Owner[x]
           m == To(x)
           i == nextId[n]
<1>1. /\ n \in Nodes /\ m \in Nodes /\ Peer(m) = n /\ Peer(n) = m
      /\ send[x] \in SendRec /\ SendInv(x) /\ send[x].pc = "idle"
  BY SendFacts DEF Send
<1>2. client[n] # "down" /\ send \in [Transfers -> SendRec]
  BY <1>1, CalmFacts DEF IInv, TypeOK
<1>3. UNCHANGED <<stage, held, mtu, wire, exIn, exOut, tm, cur, bufs, client,
                  asked, delivered>>
  BY DEF Send, stageVars, tmVars
<1> DEFINE r == [send[x] EXCEPT !.pc = "run", !.out = "next", !.id = i]
<1>4. send' = [send EXCEPT ![x] = r]
  BY <1>2 DEF Send
<1>5. r.id = i /\ r.acks = <<>>
  BY <1>1 DEF SendRec, SendInv
<1> HIDE DEF r
<1>6. send'[x] = r /\ \A y \in Transfers \ {x} : send'[y] = send[y]
  BY <1>2, <1>4
<1>7. ASSUME NEW msg, msg.id = i PROVE ~GoodAck(n, msg, View)
  <2>1. ASSUME NEW y \in Transfers, Owner[y] = n, View[y].on, msg.id = View[y].id
        PROVE  FALSE
    <3>1. Started(y) /\ send[y].id = i
      BY <2>1, <1>7 DEF View
    <3>2. send[y].id < nextId[n] /\ send[y].id \in Nat /\ nextId[n] \in Nat
      BY <2>1, <3>1, <1>1, SendFacts DEF IInv, IdInv, TypeOK
    <3> QED
      BY <3>1, <3>2
  <2> QED
    BY <2>1 DEF GoodAck
<1>8. Silent(Pipe(m), i)
  <2>1. PipeOK(Pipe(m), m, View)
    BY <1>1 DEF IInv, FlowInv
  <2> QED
    BY <2>1, <1>1, <1>7 DEF PipeOK, Silent, IsAckOf
<1>9. Waiting(x)' = {} /\ Owed(x)' = {}
  <2>1. ~(tm[n] = "feedback" /\ cur[n].id = i)
    BY <1>1, <1>7 DEF IInv, TmInv
  <2>2. ~(tm[m] = "ack" /\ cur[m].id = i)
    BY <1>1, <1>7 DEF IInv, TmInv
  <2> QED
    BY <2>1, <2>2, <1>3, <1>5, <1>6 DEF Waiting, Owed
<1>10. \A k \in Nodes : Pipe(k)' = Pipe(k)
  BY <1>3, PipeSame
<1>11. OrderInv(x)'
  <2>1. OrderInv(x)' = OrderOK(r, Pipe(m), {}, {})
    BY <1>1, <1>6, <1>9, <1>10 DEF OrderInv
  <2> QED
    BY <2>1, <1>5, <1>8, OrderNone
<1>12. ASSUME NEW y \in Transfers, y # x, Started(y)' PROVE OrderInv(y)'
  <2>1. Started(y) /\ send'[y] = send[y]
    BY <1>6, <1>12 DEF Started
  <2>2. OrderInv(y) /\ To(y) \in Nodes
    BY <2>1, SendFacts DEF CalmBody
  <2>3. Got(y)' = Got(y)
    BY <2>1, <1>3 DEF Got, Buf
  <2>4. Waiting(y)' = Waiting(y) /\ Owed(y)' = Owed(y)
    BY <2>1, <2>3, <1>3, WaitingSame, OwedSame
  <2>5. Sub(Pipe(To(y))', Pipe(To(y)), send[y].id)
    BY <2>2, <1>10, SubCases
  <2> QED
    BY <2>1, <2>2, <2>4, <2>5, OrderStep
<1>13. \A k \in Nodes : tm'[k] # "error"
  BY <1>3, CalmFacts
<1> QED
  BY <1>3, <1>11, <1>12, <1>13, CalmRest

-----------------------------------------------------------------------------
(* Steps of the TransferManagers.                                          *)

(***************************************************************************)
(* A step of the TransferManager of n, for a transfer of another ID than   *)
(* the message it is about.                                                *)
(***************************************************************************)
LEMMA OtherOrder ==
    ASSUME IInv, IInv', CalmBody, NEW n \in Nodes, NEW y \in Transfers, Started(y)',
           send'[y] = send[y],
           tm'[Peer(n)] = tm[Peer(n)], cur'[Peer(n)] = cur[Peer(n)],
           bufs'[Peer(n)] = bufs[Peer(n)], delivered'[Peer(n)] = delivered[Peer(n)],
           Owner[y] = n => /\ tm[n] # "feedback" \/ cur[n].id # send[y].id
                           /\ tm'[n] # "feedback" \/ cur'[n].id # send[y].id,
           To(y) = n => /\ tm[n] # "ack" \/ cur[n].id # send[y].id
                        /\ tm'[n] # "ack" \/ cur'[n].id # send[y].id,
           Sub(Pipe(To(y))', Pipe(To(y)), send[y].id)
    PROVE  OrderInv(y)'
<1>1. Started(y) /\ Peer(n) \in Nodes /\ Nodes = {n, Peer(n)} /\ Peer(n) # n
  BY PeerPeer DEF Started
<1>2. /\ OrderInv(y) /\ Owner[y] \in Nodes /\ To(y) \in Nodes
      /\ Peer(To(y)) = Owner[y]
  BY <1>1, SendFacts DEF CalmBody
<1>3. CASE Owner[y] = n
  <2>1. To(y) = Peer(n)
    BY <1>3 DEF To
  <2>2. Got(y)' = Got(y)
    BY <2>1 DEF Got, Buf
  <2>3. Waiting(y)' = Waiting(y) /\ Owed(y)' = Owed(y)
    BY <2>1, <2>2, <1>3, WaitingNone, OwedSame
  <2> QED
    BY <2>3, <1>2, OrderStep
<1>4. CASE Owner[y] = Peer(n)
  <2>1. To(y) = n
    BY <1>4, PeerPeer DEF To
  <2>2. Waiting(y)' = Waiting(y) /\ Owed(y)' = Owed(y)
    BY <2>1, <1>4, WaitingSame, OwedNone
  <2> QED
    BY <2>2, <1>2, OrderStep
<1> QED
  BY <1>1, <1>2, <1>3, <1>4

\* The Send call an acknowledgement is for is there and waits.
LEMMA AckAwaited ==
    ASSUME IInv, CalmBody, NEW n \in Nodes, NEW msg, GoodAck(n, msg, View),
           msg.type = "ack",
           \/ \E j \in 1..Len(Pipe(Peer(n))) : Pipe(Peer(n))[j] = msg
           \/ tm[n] = "feedback" /\ cur[n] = msg
    PROVE  \E x \in Transfers : Feedback(n, msg.id) = {x}
<1>1. PICK x \in Transfers : /\ Owner[x] = n /\ View[x].on
                             /\ msg.id = View[x].id
  BY DEF GoodAck
<1>2. Started(x) /\ send[x].id = msg.id /\ To(x) = Peer(n)
  BY <1>1 DEF View, To
<1>3. OrderOK(send[x], Pipe(Peer(n)), Waiting(x), Owed(x))
  BY <1>2 DEF CalmBody, OrderInv
<1>4. send[x].pc = "run"
  <2>1. CASE \E j \in 1..Len(Pipe(Peer(n))) : Pipe(Peer(n))[j] = msg
    BY <2>1, <1>2, <1>3 DEF OrderOK, Silent, IsAckOf
  <2>2. CASE tm[n] = "feedback" /\ cur[n] = msg
    <3>1. Waiting(x) # {}
      BY <2>2, <1>1, <1>2 DEF Waiting
    <3> QED
      BY <3>1, <1>3 DEF OrderOK
  <2> QED
    BY <2>1, <2>2
<1>5. \A y \in Feedback(n, msg.id) : y = x
  BY <1>1, <1>2, <1>4 DEF Feedback, IInv, IdInv, Started
<1>6. x \in Feedback(n, msg.id)
  BY <1>1, <1>2, <1>4 DEF Feedback
<1> QED
  BY <1>5, <1>6

LEMMA HandleAckCalm ==
    ASSUME IInv, IInv', CalmBody, NEW n \in Nodes, HandleAck(n),
           NEW msg, msg = Head(exIn[n])
    PROVE  CalmBody'
<1> DEFINE m == Peer(n)
<1>1. /\ tm[n] = "run" /\ exIn[n] # <<>> /\ msg.type = "ack"
      /\ exIn' = [exIn EXCEPT ![n] = Tail(exIn[n])]
      /\ UNCHANGED <<stage, held, mtu, wire, exOut, bufs, nextId, client, asked,
                     delivered>>
  BY DEF HandleAck, stageVars
<1>2. /\ m \in Nodes /\ Peer(m) = n /\ m # n /\ Nodes = {n, m} /\ Typed
  BY PeerPeer DEF IInv, Typed
<1>3. /\ Pipe(m) \in Seq(Messages) /\ Pipe(m) # <<>> /\ Head(Pipe(m)) = msg
      /\ Pipe(m)' = Tail(Pipe(m)) /\ msg \in Exchanged
      /\ exIn'[n] = Tail(exIn[n]) /\ exIn'[m] = exIn[m]
  BY <1>1, <1>2, TakeIn
<1>4. Pipe(n)' = Pipe(n)
  BY <1>1, <1>3, PipeSame
<1>5. 1 \in 1..Len(Pipe(m)) /\ Pipe(m)[1] = msg
  BY <1>3, HeadTailProperties, LenProperties
<1>6. GoodAck(n, msg, View) /\ msg \in Acks /\ msg.len \in Nat
  <2>1. PipeOK(Pipe(m), m, View)
    BY <1>2 DEF IInv, FlowInv
  <2> QED
    BY <2>1, <1>1, <1>2, <1>3, <1>5, MessageTypes DEF PipeOK, Acks
<1>7. PICK x \in Transfers : Feedback(n, msg.id) = {x}
  BY <1>1, <1>5, <1>6, AckAwaited
<1>8. /\ Owner[x] = n /\ send[x].pc = "run" /\ send[x].id = msg.id /\ Started(x)
      /\ To(x) = m /\ send[x] \in SendRec /\ send[x].acks \in Seq(Nat)
  <2>1. x \in Feedback(n, msg.id)
    BY <1>7
  <2> QED
    BY <2>1, SendFacts DEF Feedback, Started, To
<1> DEFINE a == Append(send[x].acks, msg.len)
           r == [send[x] EXCEPT !.acks = a]
<1>9. \/ send' = [send EXCEPT ![x] = r] /\ UNCHANGED <<tm, cur>>
      \/ /\ tm' = [tm EXCEPT ![n] = "feedback"]
         /\ cur' = [cur EXCEPT ![n] = msg]
         /\ UNCHANGED send
  <2>1. \/ send' = [send EXCEPT ![x].acks = a] /\ UNCHANGED <<tm, cur>>
        \/ /\ tm' = [tm EXCEPT ![n] = "feedback"]
           /\ cur' = [cur EXCEPT ![n] = msg]
           /\ UNCHANGED send
    BY <1>7 DEF HandleAck
  <2>2. [send EXCEPT ![x].acks = a] = [send EXCEPT ![x] = r]
    BY DEF IInv, TypeOK
  <2> HIDE DEF a, r
  <2> QED
    BY <2>1, <2>2
<1>10. /\ r.id = send[x].id /\ r.pc = send[x].pc /\ r.inLen = send[x].inLen
       /\ r.acks = a
  BY <1>8 DEF SendRec
<1> HIDE DEF r, a
<1>11. /\ tm \in [Nodes -> {"none", "run", "feedback", "ack", "deliver", "error",
                            "gone"}]
       /\ cur \in [Nodes -> Messages \cup {None}] /\ send \in [Transfers -> SendRec]
  BY DEF IInv, TypeOK
<1>12. /\ tm'[m] = tm[m] /\ cur'[m] = cur[m] /\ tm'[n] \in {"run", "feedback"}
       /\ tm'[n] = "feedback" => cur'[n] = msg
       /\ \A y \in Transfers \ {x} : send'[y] = send[y]
  BY <1>1, <1>2, <1>9, <1>11
<1>13. ASSUME NEW y \in Transfers \ {x}, Started(y)' PROVE OrderInv(y)'
  <2>1. send'[y] = send[y] /\ Started(y) /\ To(y) \in Nodes
    BY <1>12, <1>13, SendFacts DEF Started
  <2>2. Owner[y] = n => send[y].id # msg.id
    BY <2>1, <1>8, <1>13 DEF IInv, IdInv
  <2>3. Sub(Pipe(To(y))', Pipe(To(y)), send[y].id)
    BY <2>1, <1>2, <1>3, <1>4, SubCases
  <2> QED
    BY <2>1, <2>2, <2>3, <1>1, <1>12, <1>13, OtherOrder
<1>14. OrderInv(x)'
  <2> DEFINE s == send[x]
             q == Pipe(m)
             l == msg.len
             U == Owed(x)
  <2>1. Waiting(x) = {}
    BY <1>1, <1>8 DEF Waiting
  <2>2. OrderOK(s, q, {}, U)
    BY <2>1, <1>8 DEF CalmBody, OrderInv
  <2>3. Got(x)' = Got(x)
    <3>1. send'[x].id = send[x].id
      BY <1>9, <1>10, <1>11
    <3> QED
      BY <3>1, <1>1 DEF Got, Buf
  <2>4. Owed(x)' = U
    <3>1. send'[x].id = send[x].id
      BY <1>9, <1>10, <1>11
    <3> QED
      BY <3>1, <2>3, <1>8, <1>12, OwedSame
  <2>5. OrderOK(s, Tail(q), {l}, U)
    <3>1. IsAckOf(s.id, Head(q)) /\ q \in Seq(Messages) /\ q # <<>> /\ Head(q).len = l
      BY <1>1, <1>3, <1>8 DEF IsAckOf
    <3> HIDE DEF s, q, l, U
    <3> QED
      BY <2>2, <3>1, AckHeld
  <2>6. CASE send' = [send EXCEPT ![x] = r] /\ UNCHANGED <<tm, cur>>
    <3>1. send'[x] = r /\ Waiting(x)' = {}
      BY <2>6, <1>1, <1>8, <1>11 DEF Waiting
    <3>2. OrderInv(x)' = OrderOK(r, Tail(q), {}, U)
      BY <3>1, <2>4, <1>3, <1>8 DEF OrderInv
    <3>3. /\ s.acks \in Seq(Nat) /\ l \in Nat /\ r.id = s.id /\ r.pc = s.pc
          /\ r.inLen = s.inLen /\ r.acks = Append(s.acks, l)
      BY <1>6, <1>8, <1>10 DEF a
    <3> HIDE DEF s, q, l, U
    <3>4. OrderOK(r, Tail(q), {}, U)
      BY <3>3, <2>5, AckGiven
    <3> QED
      BY <3>2, <3>4
  <2>7. CASE /\ tm' = [tm EXCEPT ![n] = "feedback"]
             /\ cur' = [cur EXCEPT ![n] = msg]
             /\ UNCHANGED send
    <3>1. Waiting(x)' = {l}
      BY <2>7, <1>2, <1>8, <1>11 DEF Waiting
    <3>2. OrderInv(x)' = OrderOK(s, Tail(q), {l}, U)
      BY <3>1, <2>4, <2>7, <1>3, <1>8 DEF OrderInv
    <3> QED
      BY <3>2, <2>5
  <2> QED
    BY <2>6, <2>7, <1>9
<1>15. \A k \in Nodes : tm'[k] # "error"
  BY <1>2, <1>12, CalmFacts
<1> QED
  BY <1>1, <1>13, <1>14, <1>15, CalmRest

LEMMA PassAckCalm ==
    ASSUME IInv, IInv', CalmBody, NEW n \in Nodes, PassAck(n),
           NEW msg, msg = cur[n]
    PROVE  CalmBody'
<1> DEFINE m == Peer(n)
<1>1. /\ tm[n] = "feedback"
      /\ tm' = [tm EXCEPT ![n] = "run"] /\ cur' = [cur EXCEPT ![n] = None]
      /\ UNCHANGED <<stage, held, mtu, wire, exIn, exOut, bufs, nextId, client,
                     asked, delivered>>
  BY DEF PassAck, stageVars
<1>2. /\ m \in Nodes /\ Peer(m) = n /\ m # n /\ Nodes = {n, m}
  BY PeerPeer
<1>3. GoodAck(n, msg, View) /\ msg \in Acks /\ msg.len \in Nat /\ msg.type = "ack"
  BY <1>1 DEF IInv, TmInv, Acks
<1>4. PICK x \in Transfers : Feedback(n, msg.id) = {x}
  BY <1>1, <1>3, AckAwaited
<1>5. /\ Owner[x] = n /\ send[x].pc = "run" /\ send[x].id = msg.id /\ Started(x)
      /\ To(x) = m /\ send[x] \in SendRec /\ send[x].acks \in Seq(Nat)
  <2>1. x \in Feedback(n, msg.id)
    BY <1>4
  <2> QED
    BY <2>1, SendFacts DEF Feedback, Started, To
<1> DEFINE a == Append(send[x].acks, msg.len)
           r == [send[x] EXCEPT !.acks = a]
<1>6. send' = [send EXCEPT ![x] = r]
  <2>1. send' = [send EXCEPT ![x].acks = a]
    BY <1>4 DEF PassAck
  <2>2. [send EXCEPT ![x].acks = a] = [send EXCEPT ![x] = r]
    BY DEF IInv, TypeOK
  <2> HIDE DEF a, r
  <2> QED
    BY <2>1, <2>2
<1>7. /\ r.id = send[x].id /\ r.pc = send[x].pc /\ r.inLen = send[x].inLen
      /\ r.acks = a
  BY <1>5 DEF SendRec
<1> HIDE DEF r, a
<1>8. /\ tm'[m] = tm[m] /\ cur'[m] = cur[m] /\ tm'[n] = "run"
      /\ send'[x] = r /\ \A y \in Transfers \ {x} : send'[y] = send[y]
  BY <1>1, <1>2, <1>6 DEF IInv, TypeOK
<1>9. \A k \in Nodes : Pipe(k)' = Pipe(k)
  BY <1>1, PipeSame
<1>10. ASSUME NEW y \in Transfers \ {x}, Started(y)' PROVE OrderInv(y)'
  <2>1. send'[y] = send[y] /\ Started(y) /\ To(y) \in Nodes
    BY <1>8, <1>10, SendFacts DEF Started
  <2>2. Owner[y] = n => send[y].id # msg.id
    BY <2>1, <1>5, <1>10 DEF IInv, IdInv
  <2>3. Sub(Pipe(To(y))', Pipe(To(y)), send[y].id)
    BY <2>1, <1>9, SubCases
  <2> QED
    BY <2>1, <2>2, <2>3, <1>1, <1>8, <1>10, OtherOrder
<1>11. OrderInv(x)'
  <2> DEFINE s == send[x]
             q == Pipe(m)
             l == msg.len
             U == Owed(x)
  <2>1. Waiting(x) = {l} /\ Waiting(x)' = {}
    BY <1>1, <1>5, <1>8 DEF Waiting
  <2>2. OrderOK(s, q, {l}, U)
    BY <2>1, <1>5 DEF CalmBody, OrderInv
  <2>3. Got(x)' = Got(x)
    BY <1>1, <1>7, <1>8 DEF Got, Buf
  <2>4. Owed(x)' = U
    BY <2>3, <1>5, <1>7, <1>8, OwedSame
  <2>5. OrderInv(x)' = OrderOK(r, q, {}, U)
    BY <2>1, <2>4, <1>2, <1>5, <1>8, <1>9 DEF OrderInv
  <2>6. /\ s.acks \in Seq(Nat) /\ l \in Nat /\ r.id = s.id /\ r.pc = s.pc
        /\ r.inLen = s.inLen /\ r.acks = Append(s.acks, l)
    BY <1>3, <1>5, <1>7 DEF a
  <2> HIDE DEF s, q, l, U
  <2>7. OrderOK(r, q, {}, U)
    BY <2>2, <2>6, AckGiven
  <2> QED
    BY <2>5, <2>7
<1>12. \A k \in Nodes : tm'[k] # "error"
  BY <1>2, <1>8, CalmFacts
<1> QED
  BY <1>1, <1>10, <1>11, <1>12, CalmRest

\* A finished buffer is a bundle.
LEMMA FinishedIsBundle ==
    ASSUME NEW x \in Transfers, NEW buf, NEW h, buf.data = Payload(x, 1, h),
           buf.end => h = Size[x]
    PROVE  AfterSegment(buf) \in {"run", "deliver"}
BY OnlyBundle DEF AfterSegment

LEMMA HandleSegmentCalm ==
    ASSUME IInv, IInv', CalmBody, Calm, NEW n \in Nodes, HandleSegment(n),
           NEW msg, msg = Head(exIn[n]), NEW x, x = Of(msg),
           NEW buf, buf = WithSegment(bufs[n][msg.id], msg)
    PROVE  CalmBody'
<1> DEFINE m == Peer(n)
           i == msg.id
           hi == Hi(msg)
           ack == [type |-> "ack", id |-> i, len |-> Len(buf.data)]
<1>1. /\ tm[n] = "run" /\ exIn[n] # <<>> /\ msg.type = "segment"
      /\ exIn' = [exIn EXCEPT ![n] = Tail(exIn[n])]
      /\ UNCHANGED <<stage, held, mtu, wire, nextId, send, client, asked,
                     delivered>>
  BY DEF HandleSegment, stageVars
<1>2. /\ GoodSegment(m, msg, View) /\ x \in Transfers /\ Started(x)
      /\ Owner[x] = m /\ To(x) = n /\ i = send[x].id /\ i \in Ids
      /\ x \notin delivered[n] /\ ~Buf(x).end
      /\ hi \in Nat /\ Got(x) < hi /\ hi <= Size[x]
      /\ buf = [data |-> Payload(x, 1, hi), end |-> msg.end]
      /\ Len(buf.data) = hi
  BY SegmentFits
<1>3. bufs[n][i] = Buf(x)
  BY <1>2 DEF Buf
<1>4. /\ bufs' = [bufs EXCEPT ![n][i] = buf]
      /\ cur' = [cur EXCEPT ![n] = ack]
      /\ \/ /\ exOut' = [exOut EXCEPT ![n] = Append(exOut[n], ack)]
            /\ tm' = [tm EXCEPT ![n] = AfterSegment(buf)]
         \/ /\ tm' = [tm EXCEPT ![n] = "ack"]
            /\ UNCHANGED exOut
  BY <1>2, <1>3 DEF HandleSegment
<1>5. /\ m \in Nodes /\ Peer(m) = n /\ m # n /\ Nodes = {n, m} /\ Typed
  BY PeerPeer DEF IInv, Typed
<1>6. AfterSegment(buf) \in {"run", "deliver"}
  <2>1. buf.data = Payload(x, 1, hi) /\ (buf.end => hi = Size[x])
    BY <1>2 DEF GoodSegment
  <2> HIDE DEF hi
  <2> QED
    BY <2>1, <1>2, FinishedIsBundle
<1>7. ack \in Acks /\ ack \in Messages /\ ack.id = i /\ ack.len = hi /\ ack.type = "ack"
  BY <1>2, MessageTypes DEF Acks
<1> DEFINE st == AfterSegment(buf)
<1> HIDE DEF i, hi, ack, st
<1>8. /\ bufs'[n][i] = buf /\ bufs'[m] = bufs[m]
      /\ cur'[n] = ack /\ cur'[m] = cur[m] /\ tm'[m] = tm[m]
      /\ exOut'[m] = exOut[m]
      /\ \/ exOut'[n] = Append(exOut[n], ack) /\ tm'[n] = st
         \/ exOut'[n] = exOut[n] /\ tm'[n] = "ack"
  <2>1. /\ bufs \in [Nodes -> [Ids -> [data : Seq(Bytes), end : BOOLEAN]]]
        /\ cur \in [Nodes -> Messages \cup {None}]
        /\ exOut \in [Nodes -> Seq(Messages)]
        /\ tm \in [Nodes -> {"none", "run", "feedback", "ack", "deliver", "error",
                             "gone"}]
    BY DEF IInv, TypeOK
  <2> QED
    BY <2>1, <1>2, <1>4, <1>5 DEF st
<1>9. /\ Pipe(m) \in Seq(Messages) /\ Pipe(m) # <<>> /\ Pipe(m)' = Tail(Pipe(m))
      /\ exIn'[m] = exIn[m]
  BY <1>1, <1>5, <1>8, TakeIn
<1>10. \/ Pipe(n)' = Append(Pipe(n), ack) /\ tm'[n] = st
       \/ Pipe(n)' = Pipe(n) /\ tm'[n] = "ack"
  <2>1. CASE exOut'[n] = Append(exOut[n], ack) /\ tm'[n] = st
    <3>1. ~Done(n) /\ ~Done(m)
      BY <1>5, CalmFacts
    <3>2. Pipe(n)' = IF Done(n) \/ Done(Peer(n)) THEN Pipe(n) ELSE Append(Pipe(n), ack)
      BY <2>1, <1>1, <1>5, <1>7, <1>9, PushOut
    <3> QED
      BY <2>1, <3>1, <3>2
  <2>2. CASE exOut'[n] = exOut[n] /\ tm'[n] = "ack"
    BY <2>2, <1>1, <1>9, PipeSame
  <2> QED
    BY <2>1, <2>2, <1>8
<1>11. ASSUME NEW y \in Transfers \ {x}, Started(y)' PROVE OrderInv(y)'
  <2>1. send'[y] = send[y] /\ Started(y) /\ To(y) \in Nodes /\ Peer(To(y)) = Owner[y]
    BY <1>1, <1>11, SendFacts DEF Started
  <2>2. To(y) = n => send[y].id # i
    BY <2>1, <1>2, <1>11 DEF IInv, IdInv
  <2>3. Sub(Pipe(To(y))', Pipe(To(y)), send[y].id)
    BY <2>1, <2>2, <1>5, <1>7, <1>9, <1>10, SubCases
  <2>4. /\ tm'[n] # "feedback" /\ delivered'[m] = delivered[m]
        /\ tm[n] = "run" /\ cur'[n].id = i
    BY <1>1, <1>6, <1>7, <1>8 DEF st
  <2> QED
    BY <2>1, <2>2, <2>3, <2>4, <1>8, <1>11, OtherOrder
<1>12. OrderInv(x)'
  <2> DEFINE r == send[x]
             q == Pipe(n)
             W == Waiting(x)
  <2>1. Owed(x) = {} /\ Waiting(x)' = W
    BY <1>1, <1>2, <1>8, WaitingSame DEF Owed
  <2>2. OrderOK(r, q, W, {})
    BY <2>1, <1>2 DEF CalmBody, OrderInv
  <2>3. r.pc = "run"
    <3>1. Got(x) # Size[x] /\ AckedInv(x)
      BY <1>2, SendFacts
    <3> QED
      BY <3>1, <1>2 DEF AckedInv, Started, Calm
  <2>4. /\ \A l \in Taken(r) \cup W : l < hi
        /\ \A j \in 1..Len(q) : IsAckOf(r.id, q[j]) => q[j].len < hi
    <3>1. Got(x) \in Nat
      BY <1>2, SendFacts
    <3>2. /\ \A l \in Taken(r) \cup W : l \in Nat /\ l <= Got(x)
          /\ \A j \in 1..Len(q) : IsAckOf(r.id, q[j]) => q[j].len \in 1..Got(x)
      BY <1>2, AcksArrived
    <3> DEFINE g == Got(x)
    <3>3. g \in Nat /\ g < hi /\ hi \in Nat
      BY <3>1, <1>2
    <3> HIDE DEF r, q, W, g
    <3> QED
      BY <3>2, <3>3 DEF g
  <2>5. OrderOK(r, q, W, {hi})
    <3> HIDE DEF r, q, W
    <3> QED
      BY <2>2, <2>3, <2>4, AckBound
  <2>6. Got(x)' = hi
    BY <1>1, <1>2, <1>8 DEF Got, Buf
  <2>7. CASE Pipe(n)' = Pipe(n) /\ tm'[n] = "ack"
    <3>1. Owed(x)' = {hi}
      BY <2>6, <2>7, <1>1, <1>2, <1>7, <1>8 DEF Owed
    <3>2. OrderInv(x)' = OrderOK(r, q, W, {hi})
      BY <3>1, <2>1, <2>7, <1>1, <1>2 DEF OrderInv
    <3> QED
      BY <3>2, <2>5
  <2>8. CASE Pipe(n)' = Append(Pipe(n), ack) /\ tm'[n] = st
    <3>1. Owed(x)' = {}
      BY <2>8, <1>2, <1>6 DEF Owed, st
    <3>2. OrderInv(x)' = OrderOK(r, Append(q, ack), W, {})
      BY <3>1, <2>1, <2>8, <1>1, <1>2 DEF OrderInv
    <3>3. /\ q \in Seq(Messages) /\ IsAckOf(r.id, ack)
      BY <1>2, <1>7, NextPipes DEF IsAckOf
    <3> HIDE DEF r, q, W
    <3>4. OrderOK(r, Append(q, ack), W, {})
      BY <3>3, <2>5, <1>7, AckSent
    <3> QED
      BY <3>2, <3>4
  <2> QED
    BY <2>7, <2>8, <1>10
<1>13. \A k \in Nodes : tm'[k] # "error"
  <2>1. tm'[n] # "error"
    BY <1>6, <1>8 DEF st
  <2>2. tm'[m] # "error"
    BY <1>5, <1>8, CalmFacts
  <2> QED
    BY <2>1, <2>2, <1>5
<1> QED
  BY <1>1, <1>11, <1>12, <1>13, CalmRest

LEMMA AcknowledgeCalm ==
    ASSUME IInv, IInv', CalmBody, NEW n \in Nodes, Acknowledge(n),
           NEW ack, ack = cur[n]
    PROVE  CalmBody'
<1> DEFINE m == Peer(n)
           st == AfterSegment(bufs[n][ack.id])
<1>1. /\ tm[n] = "ack"
      /\ exOut' = [exOut EXCEPT ![n] = Append(exOut[n], ack)]
      /\ tm' = [tm EXCEPT ![n] = st]
      /\ UNCHANGED <<stage, held, mtu, wire, exIn, cur, bufs, nextId, send, client,
                     asked, delivered>>
  BY DEF Acknowledge, stageVars
<1>2. /\ m \in Nodes /\ Peer(m) = n /\ m # n /\ Nodes = {n, m} /\ Typed
  BY PeerPeer DEF IInv, Typed
<1>3. /\ ack \in Acks /\ GoodAck(m, ack, View)
      /\ ack.len = Len(bufs[n][ack.id].data)
  BY <1>1 DEF IInv, TmInv
<1>4. ack \in Messages /\ ack.type = "ack"
  BY <1>3, MessageTypes DEF Acks
<1>5. PICK x \in Transfers : /\ Owner[x] = m /\ View[x].on
                             /\ ack.id = View[x].id
                             /\ ack.len \in 1..View[x].got
  BY <1>3 DEF GoodAck
<1>6. /\ Started(x) /\ send[x].id = ack.id /\ To(x) = n /\ Buf(x) = bufs[n][ack.id]
      /\ ack.len \in 1..Got(x) /\ Got(x) \in Nat /\ BufInv(x) /\ Size[x] \in Nat
  BY <1>2, <1>5, SendFacts DEF View, To, Buf
<1>7. x \notin delivered[n]
  <2>1. ack.len = Len(Buf(x).data) /\ ack.len # 0
    BY <1>3, <1>6
  <2>2. Len(Unused.data) = 0
    BY DEF Unused
  <2> QED
    BY <2>1, <2>2, <1>6 DEF BufInv
<1>8. /\ ack.len = Got(x) /\ Buf(x).data = Payload(x, 1, ack.len)
      /\ Buf(x).end => ack.len = Size[x]
  <2>1. ack.len = Got(x) /\ Len(Buf(x).data) = ack.len
    BY <1>3, <1>6, <1>7 DEF Got
  <2> QED
    BY <2>1, <1>6, <1>7 DEF BufInv
<1>9. st \in {"run", "deliver"}
  <2>1. AfterSegment(Buf(x)) \in {"run", "deliver"}
    BY <1>8, FinishedIsBundle
  <2> QED
    BY <2>1, <1>6
<1> HIDE DEF st
<1>10. /\ tm'[n] = st /\ tm'[m] = tm[m]
       /\ exOut'[n] = Append(exOut[n], ack) /\ exOut'[m] = exOut[m]
  BY <1>1, <1>2 DEF IInv, TypeOK
<1>11. Pipe(n)' = Append(Pipe(n), ack)
  <2>1. ~Done(n) /\ ~Done(m)
    BY <1>2, CalmFacts
  <2>2. Pipe(n)' = IF Done(n) \/ Done(Peer(n)) THEN Pipe(n) ELSE Append(Pipe(n), ack)
    BY <1>1, <1>2, <1>4, <1>10, PushOut
  <2> QED
    BY <2>1, <2>2
<1>12. Pipe(m)' = Pipe(m)
  BY <1>1, <1>2, <1>10, PipeSame
<1>13. ASSUME NEW y \in Transfers \ {x}, Started(y)' PROVE OrderInv(y)'
  <2>1. send'[y] = send[y] /\ Started(y) /\ To(y) \in Nodes /\ Peer(To(y)) = Owner[y]
    BY <1>1, <1>13, SendFacts DEF Started
  <2>2. To(y) = n => send[y].id # ack.id
    BY <2>1, <1>2, <1>5, <1>6, <1>13 DEF IInv, IdInv
  <2>3. Sub(Pipe(To(y))', Pipe(To(y)), send[y].id)
    BY <2>1, <2>2, <1>2, <1>4, <1>11, <1>12, SubCases
  <2>4. tm'[n] # "feedback" /\ tm'[n] # "ack"
    BY <1>9, <1>10
  <2> QED
    BY <2>1, <2>2, <2>3, <2>4, <1>1, <1>10, <1>13, OtherOrder
<1>14. OrderInv(x)'
  <2> DEFINE r == send[x]
             q == Pipe(n)
             W == Waiting(x)
  <2>1. /\ Owed(x) = {ack.len} /\ Owed(x)' = {} /\ Waiting(x)' = W
    <3>1. Owed(x) = {ack.len}
      BY <1>1, <1>6, <1>8 DEF Owed
    <3>2. Owed(x)' = {}
      BY <1>6, <1>9, <1>10 DEF Owed
    <3> QED
      BY <3>1, <3>2, <1>1, <1>5, <1>10, WaitingSame
  <2>2. OrderOK(r, q, W, {ack.len})
    BY <2>1, <1>6 DEF CalmBody, OrderInv
  <2>3. OrderInv(x)' = OrderOK(r, Append(q, ack), W, {})
    BY <2>1, <1>1, <1>6, <1>11 DEF OrderInv
  <2>4. q \in Seq(Messages) /\ IsAckOf(r.id, ack)
    BY <1>4, <1>6, NextPipes DEF IsAckOf
  <2> HIDE DEF r, q, W
  <2>5. OrderOK(r, Append(q, ack), W, {})
    BY <2>2, <2>4, <1>4, AckSent
  <2> QED
    BY <2>3, <2>5
<1>15. \A k \in Nodes : tm'[k] # "error"
  BY <1>2, <1>9, <1>10, CalmFacts
<1> QED
  BY <1>1, <1>13, <1>14, <1>15, CalmRest

LEMMA DeliverCalm ==
    ASSUME IInv, IInv', CalmBody, NEW n \in Nodes, Deliver(n)
    PROVE  CalmBody'
<1> DEFINE m == Peer(n)
<1>1. /\ tm[n] = "deliver" /\ tm' = [tm EXCEPT ![n] = "run"]
      /\ cur' = [cur EXCEPT ![n] = None]
      /\ UNCHANGED <<stage, held, mtu, wire, exIn, exOut, nextId, send, client,
                     asked>>
  BY DEF Deliver, stageVars
<1>2. /\ m \in Nodes /\ Peer(m) = n /\ m # n /\ Nodes = {n, m}
  BY PeerPeer
<1>3. /\ tm'[n] = "run" /\ tm'[m] = tm[m] /\ cur'[m] = cur[m]
      /\ bufs'[m] = bufs[m] /\ delivered'[m] = delivered[m]
  BY <1>1, <1>2 DEF Deliver, IInv, TypeOK
<1>4. \A k \in Nodes : Pipe(k)' = Pipe(k)
  BY <1>1, PipeSame
<1>5. ASSUME NEW y \in Transfers, Started(y)' PROVE OrderInv(y)'
  <2>1. send'[y] = send[y] /\ To(y) \in Nodes
    BY <1>1, SendFacts
  <2>2. Sub(Pipe(To(y))', Pipe(To(y)), send[y].id)
    BY <2>1, <1>4, SubCases
  <2> QED
    BY <2>1, <2>2, <1>1, <1>3, <1>5, OtherOrder
<1>6. \A k \in Nodes : tm'[k] # "error"
  BY <1>2, <1>3, CalmFacts
<1> QED
  BY <1>1, <1>5, <1>6, CalmRest

-----------------------------------------------------------------------------
(* The theorem.                                                            *)

\* A reason to shut down stays one.
LEMMA ReasonStays ==
    ASSUME IInv, [Next]_vars, Calm'
    PROVE  Calm
<1>1. /\ stage \in [Nodes -> Stages] /\ send \in [Transfers -> SendRec]
  BY DEF IInv, TypeOK
<1>2. asked' = {} /\ (\A x \in Transfers : send'[x].pc # "failed")
      /\ \A n \in Nodes : stage'[n] # "stalled"
  BY DEF Calm
<1>3. CASE UNCHANGED vars
  BY <1>3 DEF vars, Calm
<1>4. ASSUME NEW n \in Nodes,
             \/ SendHandshake(n) \/ ReceiveHandshake(n) \/ Start(n)
             \/ HandleMsgIn(n) \/ PassIn(n) \/ MessageOut(n) \/ PassOut(n)
             \/ CloseStage(n) \/ SendTermination(n) \/ HandleKeepalive(n)
      PROVE  Calm
  <2>1. UNCHANGED <<asked, send>>
    BY <1>4 DEF SendHandshake, ReceiveHandshake, Start, HandleMsgIn, PassIn,
                MessageOut, PassOut, CloseStage, SendTermination, HandleKeepalive
  <2>2. stage[n] # "stalled"
    BY <1>4 DEF SendHandshake, ReceiveHandshake, Start, HandleMsgIn, PassIn,
                MessageOut, PassOut, CloseStage, SendTermination, HandleKeepalive
  <2>3. \A k \in Nodes \ {n} : stage'[k] = stage[k]
    BY <1>1, <1>4 DEF SendHandshake, ReceiveHandshake, Start, HandleMsgIn, PassIn,
                MessageOut, PassOut, CloseStage, SendTermination, HandleKeepalive
  <2> QED
    BY <2>1, <2>2, <2>3, <1>2 DEF Calm
<1>5. ASSUME NEW n \in Nodes,
             \/ HandleSegment(n) \/ Acknowledge(n) \/ Deliver(n)
             \/ StopTransferManager(n) \/ Shutdown(n) \/ Disconnect(n) \/ Close(n)
      PROVE  Calm
  <2>1. UNCHANGED <<send, stage>> /\ asked \subseteq asked'
    BY <1>5 DEF HandleSegment, Acknowledge, Deliver, StopTransferManager, Shutdown,
                Disconnect, Close, stageVars
  <2> QED
    BY <2>1, <1>2 DEF Calm
<1>6. ASSUME NEW n \in Nodes, HandleAck(n) \/ PassAck(n)
      PROVE  Calm
  <2>1. UNCHANGED <<asked, stage>>
    BY <1>6 DEF HandleAck, PassAck, stageVars
  <2>2. \/ UNCHANGED send
        \/ \E x \in Transfers : \E a : send' = [send EXCEPT ![x].acks = a]
    BY <1>6 DEF HandleAck, PassAck, Feedback
  <2>3. ASSUME NEW y \in Transfers PROVE send'[y].pc = send[y].pc
    <3>1. ASSUME NEW x \in Transfers, NEW a, send' = [send EXCEPT ![x].acks = a]
          PROVE  send'[y].pc = send[y].pc
      <4>1. CASE y = x
        <5>1. send'[x] = [send[x] EXCEPT !.acks = a] /\ send[x] \in SendRec
          BY <3>1, <1>1
        <5> QED
          BY <5>1, <4>1 DEF SendRec
      <4>2. CASE y # x
        BY <3>1, <4>2, <1>1
      <4> QED
        BY <4>1, <4>2
    <3> QED
      BY <2>2, <3>1
  <2> QED
    BY <2>1, <2>3, <1>2 DEF Calm
<1>7. ASSUME NEW x \in Transfers,
             \/ Send(x) \/ NextSegment(x) \/ PushSegment(x)
             \/ EndOfBundle(x) \/ StopSending(x)
             \/ ReceiveError(x) \/ ReceiveLength(x) \/ ReceiveAck(x) \/ Timeout(x)
      PROVE  Calm
  <2>1. UNCHANGED <<asked, stage>>
    BY <1>7 DEF Send, NextSegment, PushSegment, EndOfBundle, StopSending,
                ReceiveError, ReceiveLength, ReceiveAck, Timeout, stageVars
  <2>2. \A y \in Transfers \ {x} : send'[y] = send[y]
    BY <1>1, <1>7 DEF Send, NextSegment, PushSegment, EndOfBundle, StopSending,
                ReceiveError, ReceiveLength, ReceiveAck, Timeout
  <2>3. send[x].pc # "failed"
    <3>1. CASE \/ Send(x) \/ ReceiveError(x) \/ ReceiveLength(x) \/ ReceiveAck(x)
               \/ Timeout(x)
      BY <3>1 DEF Send, ReceiveError, ReceiveLength, ReceiveAck, Timeout
    <3>2. CASE \/ NextSegment(x) \/ PushSegment(x) \/ EndOfBundle(x)
               \/ StopSending(x)
      <4>1. send'[x].pc = send[x].pc
        BY <3>2, <1>1 DEF NextSegment, PushSegment, EndOfBundle, StopSending, SendRec
      <4> QED
        BY <4>1, <1>2
    <3> QED
      BY <3>1, <3>2, <1>7
  <2> QED
    BY <2>1, <2>2, <2>3, <1>2 DEF Calm
<1>8. Impatient \subseteq Transfers /\ Closers \subseteq Nodes
  BY TcpclAssumption
<1> QED
  BY <1>3, <1>4, <1>5, <1>6, <1>7, <1>8 DEF Next

LEMMA CalmInit == Init => CalmInv
<1> SUFFICES ASSUME Init PROVE CalmBody
  BY DEF CalmInv
<1>1. /\ stage[Active] = "sendContact" /\ stage[Passive] = "recvContact"
      /\ wire[Active] = <<>> /\ wire[Passive] = <<>>
  BY TcpclAssumption DEF Init, Nodes
<1>2. TurnInv
  BY <1>1 DEF TurnInv, Handshaken
<1>3. QuietInv
  BY DEF Init, QuietInv
<1>4. \A x \in Transfers : ~Started(x)
  BY DEF Init, Started
<1> QED
  BY <1>2, <1>3, <1>4 DEF CalmBody

LEMMA CalmNext == IInv /\ IInv' /\ CalmInv /\ [Next]_vars => CalmInv'
<1> SUFFICES ASSUME IInv, IInv', CalmInv, [Next]_vars, Calm'
             PROVE  CalmBody'
  BY DEF CalmInv
<1>1. Calm /\ CalmBody
  BY ReasonStays DEF CalmInv
<1>2. CASE UNCHANGED vars
  <2>1. UNCHANGED <<stage, held, wire, exIn, exOut, tm, cur, bufs, send, client,
                    delivered>>
    BY <1>2 DEF vars
  <2>2. ASSUME NEW x \in Transfers, Started(x)' PROVE OrderInv(x)'
    <3>1. OrderInv(x) /\ Got(x)' = Got(x) /\ To(x) \in Nodes
      BY <2>1, <2>2, <1>1, SendFacts DEF CalmBody, Started, Got, Buf
    <3>2. Waiting(x)' = Waiting(x) /\ Owed(x)' = Owed(x)
      BY <3>1, <2>1, WaitingSame, OwedSame
    <3>3. Sub(Pipe(To(x))', Pipe(To(x)), send[x].id)
      BY <3>1, <2>1, PipeSame, SubCases
    <3> QED
      BY <3>1, <3>2, <3>3, <2>1, OrderStep
  <2>3. \A n \in Nodes : tm'[n] # "error"
    BY <2>1, <1>1, CalmFacts
  <2> QED
    BY <2>1, <2>2, <2>3, <1>1, CalmRest
<1>3. ASSUME NEW n \in Nodes,
             \/ SendHandshake(n) \/ ReceiveHandshake(n) \/ Start(n)
             \/ HandleMsgIn(n) \/ PassIn(n) \/ MessageOut(n) \/ PassOut(n)
      PROVE  CalmBody'
  BY <1>1, <1>3, StageCalm
<1>4. ASSUME NEW n \in Nodes
      PROVE  ~\/ CloseStage(n) \/ SendTermination(n)
              \/ StopTransferManager(n) \/ Shutdown(n) \/ Disconnect(n)
  BY <1>1, NoShutdown
<1>5. ASSUME NEW n \in Nodes, HandleKeepalive(n) PROVE FALSE
  BY <1>5 DEF HandleKeepalive, Calm, IInv, TypeOK
<1>6. ASSUME NEW n \in Nodes, Close(n) PROVE FALSE
  BY <1>6 DEF Close, Calm
<1>7. ASSUME NEW x \in Transfers, ReceiveError(x) \/ Timeout(x) PROVE FALSE
  <2>1. send[x] \in SendRec /\ send \in [Transfers -> SendRec]
    BY SendFacts DEF IInv, TypeOK
  <2> DEFINE s == Return(send[x], "failed")
  <2>2. s \in SendRec /\ s.pc = "failed"
    BY <2>1, ReturnRec
  <2>3. send' = [send EXCEPT ![x] = s] \/ send' = [send EXCEPT ![x] = [s EXCEPT !.stop = TRUE]]
    BY <1>7 DEF ReceiveError, Timeout
  <2> HIDE DEF s
  <2>4. send'[x].pc = "failed"
    BY <2>1, <2>2, <2>3 DEF SendRec
  <2> QED
    BY <2>4 DEF Calm
<1>8. ASSUME NEW n \in Nodes,
             \/ HandleAck(n) \/ PassAck(n) \/ HandleSegment(n) \/ Acknowledge(n)
             \/ Deliver(n)
      PROVE  CalmBody'
  BY <1>1, <1>8, HandleAckCalm, PassAckCalm, HandleSegmentCalm, AcknowledgeCalm,
     DeliverCalm
<1>9. ASSUME NEW x \in Transfers,
             \/ Send(x) \/ NextSegment(x) \/ PushSegment(x)
             \/ EndOfBundle(x) \/ StopSending(x)
             \/ ReceiveLength(x) \/ ReceiveAck(x)
      PROVE  CalmBody'
  BY <1>1, <1>9, SendCallCalm, SegmentCalm, EndOfSendingCalm, ReceiveLengthCalm,
     ReceiveAckCalm
<1>10. Impatient \subseteq Transfers /\ Closers \subseteq Nodes
  BY TcpclAssumption
<1> QED
  BY <1>2, <1>3, <1>4, <1>5, <1>6, <1>7, <1>8, <1>9, <1>10 DEF Next

LEMMA CalmReason == CalmInv => ShutdownHasReason
<1> SUFFICES ASSUME CalmInv, NEW n \in Nodes, Closed(n), Calm
             PROVE  FALSE
  BY DEF ShutdownHasReason, Calm
<1> QED
  BY CalmFacts DEF CalmInv

(***************************************************************************)
(* Peers that run this code do not misunderstand each other: as long as no *)
(* Manager closes its Client, no Send gives up and handleKeepalive notices *)
(* no stall, neither stage gets a message it does not await, every         *)
(* acknowledgement finds its Send call waiting and every finished buffer   *)
(* is a bundle, so that no Client is shut down.                            *)
(***************************************************************************)
THEOREM ShutdownReason == Spec => []ShutdownHasReason
<1>1. Spec => []IInv
  BY Inductive
<1>2. Init => CalmInv
  BY CalmInit
<1>3. IInv /\ IInv' /\ CalmInv /\ [Next]_vars => CalmInv'
  BY CalmNext
<1>4. CalmInv => ShutdownHasReason
  BY CalmReason
<1> QED
  BY <1>1, <1>2, <1>3, <1>4, PTL DEF Spec
=============================================================================
