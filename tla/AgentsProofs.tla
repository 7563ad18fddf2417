---------------------------- MODULE AgentsProofs ----------------------------
(***************************************************************************)
(* Type correctness of Agents, the proof that no mux sends on a closed     *)
(* channel and the proof that a REST client fetches only bundles for its   *)
(* endpoint, for any number of bundles, agents' clients and requests.      *)
(***************************************************************************)
EXTENDS Agents, FiniteSetTheorems, SequenceTheorems, TLAPS

CallerRec == [pc : {"idle", "check", "deliver"}, msg : Message \cup {None}]
MuxRec == [msg : Message \cup {None}, todo : Seq(Agent \cup WsClients), sending : BOOLEAN]
ConnRec == [conn : {"none", "open", "down"}, known : BOOLEAN,
            rcv : {"none", "read", "write", "ended"}, msg : Message \cup {None},
            out : Message \cup {None}, sender : {"open", "closed"}, receiver : {"open", "closed"}]
RestRec == [pc : {"idle", "range", "store"}, msg : Message \cup {None}, uuids : SUBSET Uuids]

(***************************************************************************)
(* The messages on their way: a goroutine that delivers one holds it.      *)
(***************************************************************************)
MsgInv ==
    /\ unsent \subseteq Bundles
    /\ caller \in [Caller -> CallerRec]
    /\ child \in [Agent \cup WsClients -> Message \cup {None}]
    /\ ping \in Message \cup {None} /\ ws \in Message \cup {None}
    /\ \A p \in Caller : caller[p].pc # "idle" => caller[p].msg \in Message

(***************************************************************************)
(* The muxes.  A child of the WebSocket mux has an open receiver, and a    *)
(* client that has not connected yet is no child.  While the mux           *)
(* distributes a message, those left to do are children; otherwise nothing *)
(* is left to do.  A mux that sends has a message and someone to send to.  *)
(***************************************************************************)
MuxTypes ==
    /\ mux \in [Mux -> MuxRec]
    /\ children \in Seq(WsClients) /\ IsInjective(children)
    /\ conn \in [WsClients -> ConnRec]

ChildInv ==
    /\ \A i \in 1..Len(children) : /\ conn[children[i]].receiver = "open"
                                   /\ conn[children[i]].conn # "none"
    /\ \A w \in WsClients :
          conn[w].conn = "none" => /\ conn[w].receiver = "open" /\ conn[w].sender = "open"
                                   /\ conn[w].rcv = "none" /\ conn[w].out = None

TodoInv ==
    /\ Range(mux["clients"].todo) \subseteq Range(children)
    /\ ~Locked("clients") => mux["clients"].todo = <<>>
    /\ \A m \in Mux : mux[m].sending => mux[m].msg # None /\ mux[m].todo # <<>>

MuxInv == MuxTypes /\ ChildInv /\ TodoInv

(***************************************************************************)
(* The mailboxes: each is finite, and a /fetch under way has looked one up *)
(***************************************************************************)
RestInv ==
    /\ rest \in RestRec /\ (rest.pc # "idle" => rest.msg \in Message)
    /\ clients \subseteq Uuids
    /\ box \in Seq(SUBSET Message)
    /\ mailboxes \in [Uuids -> 0..Len(box)]
    /\ fetch \in [Fetchers -> [uuid : Uuids \cup {None}, box : 0..Len(box)]]
    /\ owed \in [Uuids -> SUBSET Message]
    /\ fetched \in [Uuids -> Seq(Message)]
    /\ \A f \in Fetchers : fetch[f].uuid # None => fetch[f].box # 0
    /\ \A i \in 1..Len(box) : IsFiniteSet(box[i])

IInv == MsgInv /\ MuxInv /\ RestInv

-----------------------------------------------------------------------------
(* Sequences                                                               *)

LEMMA TailRange ==
    ASSUME NEW S, NEW s \in Seq(S), s # <<>>
    PROVE  Tail(s) \in Seq(S) /\ Range(Tail(s)) \subseteq Range(s)
<1>1. /\ Len(s) \in Nat /\ Tail(s) \in Seq(S) /\ Len(Tail(s)) = Len(s) - 1
      /\ DOMAIN s = 1..Len(s) /\ DOMAIN Tail(s) = 1..(Len(s) - 1)
      /\ \A i \in 1..(Len(s) - 1) : Tail(s)[i] = s[i + 1] /\ i + 1 \in 1..Len(s)
  OBVIOUS
<1> QED
  BY <1>1 DEF Range

\* Removing the element at i keeps a slice injective, and without s[i].
LEMMA RemoveAtKeeps ==
    ASSUME NEW S, NEW s \in Seq(S), IsInjective(s), NEW i \in 1..Len(s)
    PROVE  /\ RemoveAt(s, i) \in Seq(S) /\ IsInjective(RemoveAt(s, i))
           /\ \A k \in 1..Len(RemoveAt(s, i)) :
                 \E j \in 1..Len(s) : j # i /\ RemoveAt(s, i)[k] = s[j]
<1> DEFINE r == RemoveAt(s, i)
<1> DEFINE back(k) == IF k < i THEN k ELSE k + 1
<1>1. Len(s) \in Nat /\ i \in Nat
  OBVIOUS
<1> DEFINE u == SubSeq(s, 1, i - 1)
<1> DEFINE v == SubSeq(s, i + 1, Len(s))
<1>2. /\ u \in Seq(S) /\ Len(u) = i - 1 /\ v \in Seq(S) /\ Len(v) = Len(s) - i
      /\ \A k \in 1..(i - 1) : u[k] = s[k]
      /\ \A k \in 1..(Len(s) - i) : v[k] = s[i + k]
  BY <1>1
<1>3. r = u \o v
  BY DEF RemoveAt
<1> HIDE DEF r, u, v
<1>4. /\ r \in Seq(S) /\ Len(r) = Len(s) - 1
      /\ \A k \in 1..Len(r) : r[k] = IF k <= i - 1 THEN u[k] ELSE v[k - (i - 1)]
  <2>1. /\ u \o v \in Seq(S) /\ Len(u \o v) = Len(u) + Len(v)
        /\ \A k \in 1..(Len(u) + Len(v)) :
              (u \o v)[k] = IF k <= Len(u) THEN u[k] ELSE v[k - Len(u)]
    BY <1>2, ConcatProperties
  <2>2. Len(u) + Len(v) = Len(s) - 1
    BY <1>1, <1>2
  <2> QED
    BY <1>2, <1>3, <2>1, <2>2
<1>5. \A k \in 1..Len(r) : r[k] = s[back(k)] /\ back(k) \in 1..Len(s) /\ back(k) # i
  <2> SUFFICES ASSUME NEW k \in 1..Len(r)
               PROVE  r[k] = s[back(k)] /\ back(k) \in 1..Len(s) /\ back(k) # i
    OBVIOUS
  <2>1. CASE k < i
    <3>1. k \in 1..(i - 1) /\ k <= i - 1 /\ back(k) = k
      BY <1>1, <1>4, <2>1
    <3>2. r[k] = u[k]
      BY <1>4, <3>1
    <3> QED
      BY <1>1, <1>2, <3>1, <3>2
  <2>2. CASE ~(k < i)
    <3>1. k - (i - 1) \in 1..(Len(s) - i) /\ i + (k - (i - 1)) = k + 1
      BY <1>1, <1>4, <2>2
    <3>2. r[k] = s[k + 1]
      BY <1>1, <1>2, <1>4, <2>2, <3>1
    <3> QED
      BY <1>1, <1>4, <2>2, <3>2
  <2> QED
    BY <2>1, <2>2
<1>6. \A k, l \in 1..Len(r) : back(k) = back(l) => k = l
  BY <1>1, <1>4
<1> HIDE DEF back
<1>7. IsInjective(r)
  <2>1. DOMAIN r = 1..Len(r) /\ DOMAIN s = 1..Len(s)
    BY <1>4
  <2> QED
    BY <1>5, <1>6, <2>1 DEF IsInjective
<1> QED
  BY <1>4, <1>5, <1>7 DEF r

LEMMA AppendKeeps ==
    ASSUME NEW S, NEW s \in Seq(S), IsInjective(s), NEW x \in S, x \notin Range(s)
    PROVE  /\ Append(s, x) \in Seq(S) /\ IsInjective(Append(s, x))
           /\ Len(Append(s, x)) = Len(s) + 1 /\ Append(s, x)[Len(s) + 1] = x
           /\ \A i \in 1..Len(s) : Append(s, x)[i] = s[i]
<1> DEFINE r == Append(s, x)
<1>1. /\ Len(s) \in Nat /\ r \in Seq(S) /\ Len(r) = Len(s) + 1 /\ r[Len(s) + 1] = x
      /\ \A i \in 1..Len(s) : r[i] = s[i]
      /\ DOMAIN r = 1..(Len(s) + 1) /\ DOMAIN s = 1..Len(s)
  OBVIOUS
<1> HIDE DEF r
<1>2. \A i \in 1..Len(s) : s[i] # x
  BY <1>1 DEF Range
<1>3. IsInjective(r)
  BY <1>1, <1>2 DEF IsInjective
<1> QED
  BY <1>1, <1>3 DEF r

\* SetToSeq lists the bundles of a finite mailbox.
LEMMA SetToSeqType ==
    ASSUME NEW S, IsFiniteSet(S)
    PROVE  SetToSeq(S) \in Seq(S)
<1> DEFINE n == Cardinality(S)
<1>1. n \in Nat /\ ExistsBijection(1..n, S)
  BY FS_CardinalityType
<1>2. \E f \in [1..n -> S] : IsInjective(f)
  <2>1. PICK f \in Bijection(1..n, S) : TRUE
    BY <1>1 DEF ExistsBijection
  <2>2. f \in [1..n -> S] /\ \A a, b \in 1..n : f[a] = f[b] => a = b
    BY <2>1 DEF Bijection, Injection, IsInjective
  <2> QED
    BY <2>2 DEF IsInjective
<1>3. SetToSeq(S) \in [1..n -> S]
  BY <1>2 DEF SetToSeq
<1> HIDE DEF n
<1> QED
  BY <1>1, <1>3

-----------------------------------------------------------------------------
(* What a step leaves alone                                                *)

LEMMA SameMsg ==
    ASSUME MsgInv, UNCHANGED <<unsent, caller, child, ping, ws>> PROVE MsgInv'
BY DEF MsgInv

LEMMA SameMux == ASSUME MuxInv, UNCHANGED <<mux, children, conn>> PROVE MuxInv'
BY DEF MuxInv, MuxTypes, ChildInv, TodoInv, Locked

LEMMA SameRest == ASSUME RestInv, UNCHANGED restVars PROVE RestInv'
BY DEF RestInv, restVars

LEMMA InitInv == Init => IInv
<1> SUFFICES ASSUME Init PROVE IInv
  OBVIOUS
<1>1. MsgInv
  BY AgentsAssumption DEF Init, MsgInv, CallerRec
<1>2. MuxInv
  <2>1. MuxTypes
    BY DEF Init, MuxTypes, MuxRec, ConnRec, Free, Offline, IsInjective
  <2>2. ChildInv /\ TodoInv
    BY DEF Init, ChildInv, TodoInv, Free, Offline, Range, Mux
  <2> QED
    BY <2>1, <2>2 DEF MuxInv
<1>3. RestInv
  BY DEF Init, RestInv, RestRec, Waiting
<1> QED
  BY <1>1, <1>2, <1>3 DEF IInv

-----------------------------------------------------------------------------
(* Core.handler, AgentManager, PingAgent and what agents send              *)

LEMMA MessageType ==
    /\ \A b \in Bundles : Bundle(b) \in Message
    /\ \A m \in Message : Pong(m) \in Message
BY DEF Message, Bundle, Pong

LEMMA CallerUpdate ==
    ASSUME MsgInv, NEW p \in Caller, NEW r \in CallerRec,
           r.pc # "idle" => r.msg \in Message, caller' = [caller EXCEPT ![p] = r]
    PROVE  /\ caller' \in [Caller -> CallerRec]
           /\ \A q \in Caller : caller'[q].pc # "idle" => caller'[q].msg \in Message
BY DEF MsgInv

LEMMA ReceiveInv == ASSUME IInv, NEW b \in Bundles, Receive(b) PROVE IInv'
<1> DEFINE r == [pc |-> "check", msg |-> Bundle(b)]
<1>1. r \in CallerRec /\ r.msg \in Message
  BY MessageType DEF CallerRec
<1>2. /\ caller' \in [Caller -> CallerRec]
      /\ \A q \in Caller : caller'[q].pc # "idle" => caller'[q].msg \in Message
  <2> HIDE DEF r
  <2>1. caller' = [caller EXCEPT !["core"] = r]
    BY DEF Receive, r
  <2> QED
    BY <1>1, <2>1, CallerUpdate DEF IInv, Caller
<1>3. MsgInv'
  BY <1>2 DEF MsgInv, IInv, Receive, muxVars
<1> QED
  BY <1>3, SameMux, SameRest DEF IInv, Receive, muxVars

LEMMA HandleMessageInv == ASSUME IInv, NEW a \in Agent, HandleMessage(a) PROVE IInv'
<1> DEFINE r == [pc |-> "check", msg |-> child[a]]
<1>1. r \in CallerRec /\ r.msg \in Message
  BY DEF CallerRec, IInv, MsgInv, HandleMessage
<1>2. /\ caller' \in [Caller -> CallerRec]
      /\ \A q \in Caller : caller'[q].pc # "idle" => caller'[q].msg \in Message
  <2> HIDE DEF r
  <2>1. caller' = [caller EXCEPT !["agents"] = r]
    BY DEF HandleMessage, r
  <2> QED
    BY <1>1, <2>1, CallerUpdate DEF IInv, Caller
<1>3. MsgInv'
  BY <1>2 DEF MsgInv, IInv, HandleMessage
<1> QED
  BY <1>3, SameMux, SameRest DEF IInv, HandleMessage

LEMMA HasEndpointInv == ASSUME IInv, NEW p \in Caller, HasEndpoint(p) PROVE IInv'
<1>1. caller[p] \in CallerRec /\ caller[p].msg \in Message
  BY DEF IInv, MsgInv, HasEndpoint
<1>2. PICK r \in CallerRec : /\ caller' = [caller EXCEPT ![p] = r]
                             /\ r.pc # "idle" => r.msg \in Message
  <2>1. [caller[p] EXCEPT !.pc = "deliver"] \in CallerRec
    BY <1>1 DEF CallerRec
  <2>2. [caller[p] EXCEPT !.pc = "deliver"].msg = caller[p].msg
    BY <1>1 DEF CallerRec
  <2>3. [pc |-> "idle", msg |-> None] \in CallerRec
    BY DEF CallerRec
  <2>4. \/ caller' = [caller EXCEPT ![p] = [caller[p] EXCEPT !.pc = "deliver"]]
        \/ caller' = [caller EXCEPT ![p] = [pc |-> "idle", msg |-> None]]
    BY DEF HasEndpoint
  <2> QED
    BY <1>1, <2>1, <2>2, <2>3, <2>4
<1>3. MsgInv'
  BY <1>2, CallerUpdate DEF MsgInv, IInv, HasEndpoint, muxVars
<1> QED
  BY <1>3, SameMux, SameRest DEF IInv, HasEndpoint, muxVars

LEMMA HandleChildInv == ASSUME IInv, NEW w \in WsClients, HandleChild(w) PROVE IInv'
<1>1. MsgInv'
  BY DEF MsgInv, IInv, HandleChild
<1> QED
  BY <1>1, SameMux, SameRest DEF IInv, HandleChild

LEMMA AckBundleInv == ASSUME IInv, AckBundle PROVE IInv'
<1>1. Pong(ping) \in Message
  BY MessageType DEF IInv, MsgInv, AckBundle
<1>2. MsgInv'
  BY <1>1 DEF MsgInv, IInv, AckBundle
<1> QED
  BY <1>2, SameMux, SameRest DEF IInv, AckBundle

LEMMA HandleBuildInv == ASSUME IInv, NEW b \in Bundles, HandleBuild(b) PROVE IInv'
<1>1. MsgInv'
  BY MessageType DEF MsgInv, IInv, HandleBuild
<1> QED
  BY <1>1, SameMux, SameRest DEF IInv, HandleBuild

-----------------------------------------------------------------------------
(* RestAgent                                                               *)

LEMMA RangeClientsInv == ASSUME IInv, RangeClients PROVE IInv'
<1> DEFINE to == Recipient(rest.msg)
<1>1. rest \in RestRec /\ rest.msg \in Message
  BY DEF RangeClients, IInv, RestInv
<1>2. PICK first \in FirstClient :
         rest' = [rest EXCEPT !.pc = "store", !.uuids = {u \in first : RestEid[u] = to}]
  BY DEF RangeClients
<1>3. first \subseteq Uuids
  BY <1>2 DEF FirstClient, IInv, RestInv
<1> HIDE DEF to
<1>4. rest' \in RestRec /\ rest'.msg \in Message
  BY <1>1, <1>2, <1>3 DEF RestRec
<1>5. owed' \in [Uuids -> SUBSET Message]
  BY <1>1 DEF RangeClients, IInv, RestInv
<1>6. RestInv'
  BY <1>4, <1>5 DEF RestInv, IInv, RangeClients
<1> QED
  BY <1>6, SameMsg, SameMux DEF IInv, RangeClients, muxVars

LEMMA ReceiveBundleMessageInv == ASSUME IInv, ReceiveBundleMessage PROVE IInv'
<1> DEFINE new == {u \in rest.uuids : mailboxes[u] = 0}
<1>1. /\ rest.msg \in Message /\ rest.uuids \subseteq Uuids
      /\ rest' \in RestRec /\ rest'.pc = "idle"
      /\ UNCHANGED <<clients, fetch, owed, fetched>>
  BY DEF ReceiveBundleMessage, IInv, RestInv, RestRec, Waiting
<1>2. /\ box \in Seq(SUBSET Message) /\ Len(box) \in Nat /\ DOMAIN box = 1..Len(box)
      /\ \A i \in 1..Len(box) : box[i] \in SUBSET Message /\ IsFiniteSet(box[i])
      /\ mailboxes \in [Uuids -> 0..Len(box)]
      /\ fetch \in [Fetchers -> [uuid : Uuids \cup {None}, box : 0..Len(box)]]
  BY DEF IInv, RestInv
<1>3. ASSUME box' = [i \in DOMAIN box |->
                        IF \E u \in rest.uuids : mailboxes[u] = i
                        THEN box[i] \cup {rest.msg} ELSE box[i]],
             UNCHANGED mailboxes
      PROVE  RestInv'
  <2>1. ASSUME NEW i \in 1..Len(box)
        PROVE  box'[i] \in SUBSET Message /\ IsFiniteSet(box'[i])
    <3>1. box'[i] = box[i] \/ box'[i] = box[i] \cup {rest.msg}
      BY <1>2, <1>3
    <3>2. IsFiniteSet(box[i] \cup {rest.msg})
      BY <1>2, FS_AddElement
    <3> QED
      BY <1>1, <1>2, <3>1, <3>2
  <2>2. box' \in Seq(SUBSET Message) /\ Len(box') = Len(box)
    <3>1. box' = [i \in 1..Len(box) |-> box'[i]]
      BY <1>2, <1>3
    <3> QED
      BY <1>2, <2>1, <3>1
  <2> QED
    BY <1>1, <1>2, <1>3, <2>1, <2>2 DEF RestInv, IInv
<1>4. ASSUME NEW u \in new, box' = Append(box, {rest.msg}),
             mailboxes' = [mailboxes EXCEPT ![u] = Len(box) + 1]
      PROVE  RestInv'
  <2>1. {rest.msg} \in SUBSET Message /\ IsFiniteSet({rest.msg}) /\ u \in Uuids
    BY <1>1, FS_Singleton
  <2>2. /\ box' \in Seq(SUBSET Message) /\ Len(box') = Len(box) + 1
        /\ box'[Len(box) + 1] = {rest.msg}
        /\ \A i \in 1..Len(box) : box'[i] = box[i]
    BY <1>2, <1>4, <2>1
  <2>3. ASSUME NEW i \in 1..Len(box') PROVE IsFiniteSet(box'[i])
    <3>1. i \in 1..Len(box) \/ i = Len(box) + 1
      BY <1>2, <2>2
    <3>2. CASE i \in 1..Len(box)
      BY <1>2, <2>2, <3>2
    <3>3. CASE i = Len(box) + 1
      BY <2>1, <2>2, <3>3
    <3> QED
      BY <3>1, <3>2, <3>3
  <2>4. 0..Len(box) \subseteq 0..Len(box') /\ Len(box) + 1 \in 0..Len(box')
    BY <1>2, <2>2
  <2>5. mailboxes' \in [Uuids -> 0..Len(box')]
    BY <1>2, <1>4, <2>1, <2>4
  <2>6. fetch \in [Fetchers -> [uuid : Uuids \cup {None}, box : 0..Len(box')]]
    BY <1>2, <2>4
  <2> QED
    BY <1>1, <2>2, <2>3, <2>5, <2>6 DEF RestInv, IInv
<1>5. RestInv'
  BY <1>3, <1>4 DEF ReceiveBundleMessage
<1> QED
  BY <1>5, SameMsg, SameMux DEF IInv, ReceiveBundleMessage, muxVars

LEMMA HandleRegisterInv == ASSUME IInv, NEW u \in Uuids, HandleRegister(u) PROVE IInv'
<1>1. RestInv'
  BY DEF RestInv, IInv, HandleRegister
<1> QED
  BY <1>1, SameMsg, SameMux DEF IInv, HandleRegister, muxVars

LEMMA HandleUnregisterInv == ASSUME IInv, NEW u \in Uuids, HandleUnregister(u) PROVE IInv'
<1>1. RestInv'
  BY DEF RestInv, IInv, HandleUnregister
<1> QED
  BY <1>1, SameMsg, SameMux DEF IInv, HandleUnregister, muxVars

LEMMA FetchLookupInv ==
    ASSUME IInv, NEW f \in Fetchers, NEW u \in Uuids, FetchLookup(f, u) PROVE IInv'
<1>1. RestInv'
  BY DEF RestInv, IInv, FetchLookup
<1> QED
  BY <1>1, SameMsg, SameMux DEF IInv, FetchLookup, muxVars

LEMMA FetchTakeInv == ASSUME IInv, NEW f \in Fetchers, FetchTake(f) PROVE IInv'
<1> DEFINE u == fetch[f].uuid
<1> DEFINE q == SetToSeq(box[fetch[f].box])
<1>1. u \in Uuids /\ fetch[f].box \in 1..Len(box) /\ Len(box) \in Nat
  BY DEF FetchTake, IInv, RestInv
<1>2. box[fetch[f].box] \in SUBSET Message /\ IsFiniteSet(box[fetch[f].box])
  BY <1>1 DEF IInv, RestInv
<1>3. q \in Seq(Message)
  BY <1>2, SetToSeqType
<1>4. fetched' = [fetched EXCEPT ![u] = @ \o q] /\ fetched \in [Uuids -> Seq(Message)]
  BY DEF FetchTake, IInv, RestInv
<1> HIDE DEF q
<1>5. fetched' \in [Uuids -> Seq(Message)]
  <2>1. fetched[u] \o q \in Seq(Message)
    BY <1>1, <1>3, <1>4
  <2> QED
    BY <1>1, <1>4, <2>1
<1>6. RestInv'
  BY <1>1, <1>5 DEF RestInv, IInv, FetchTake
<1> QED
  BY <1>6, SameMsg, SameMux DEF IInv, FetchTake, muxVars

-----------------------------------------------------------------------------
(* MuxAgent and WebSocketAgent                                             *)

\* A step that works on one mux and keeps its children, with the connection
\* states that matter to the mux.
LEMMA MuxStep ==
    ASSUME MuxInv, NEW m \in Mux, NEW r \in MuxRec, mux' = [mux EXCEPT ![m] = r],
           m = "clients" => /\ Range(r.todo) \subseteq Range(children)
                            /\ r.msg = None => r.todo = <<>>,
           r.sending => r.msg # None /\ r.todo # <<>>,
           UNCHANGED children, conn' \in [WsClients -> ConnRec],
           \A w \in WsClients : /\ conn'[w].receiver = conn[w].receiver
                                /\ conn'[w].conn = conn[w].conn
                                /\ conn[w].conn = "none" => conn'[w] = conn[w]
    PROVE  MuxInv'
<1>1. MuxTypes'
  BY DEF MuxInv, MuxTypes
<1>2. ChildInv'
  BY DEF MuxInv, MuxTypes, ChildInv
<1>3. mux'["clients"] = IF m = "clients" THEN r ELSE mux["clients"]
  BY DEF MuxInv, MuxTypes, Mux
<1>4. \A n \in Mux : mux'[n].sending => mux'[n].msg # None /\ mux'[n].todo # <<>>
  BY DEF MuxInv, MuxTypes, TodoInv
<1>5. TodoInv'
  BY <1>3, <1>4 DEF MuxInv, TodoInv, Locked
<1> QED
  BY <1>1, <1>2, <1>5 DEF MuxInv

LEMMA DeliverInv == ASSUME IInv, NEW p \in Caller, Deliver(p) PROVE IInv'
<1>1. caller[p].msg \in Message
  BY DEF IInv, MsgInv, Deliver
<1> DEFINE r == [msg |-> caller[p].msg, todo |-> <<"ping", "rest", "ws">>, sending |-> FALSE]
<1>2. r \in MuxRec /\ ~r.sending /\ mux' = [mux EXCEPT !["manager"] = r]
  BY <1>1 DEF MuxRec, Deliver, Agent
<1>3. MuxInv'
  <2> HIDE DEF r
  <2> QED
    BY <1>2, MuxStep DEF Mux, Deliver, IInv, MuxInv, MuxTypes
<1>4. MsgInv'
  <2>1. [pc |-> "idle", msg |-> None] \in CallerRec
    BY DEF CallerRec
  <2> QED
    BY <2>1, CallerUpdate DEF MsgInv, IInv, Deliver
<1> QED
  BY <1>3, <1>4, SameRest DEF IInv, Deliver

LEMMA WsHandlerInv == ASSUME IInv, WsHandler PROVE IInv'
<1> DEFINE r == [msg |-> ws, todo |-> children, sending |-> FALSE]
<1>1. ws \in Message /\ ws # None /\ children \in Seq(Agent \cup WsClients)
  BY DEF IInv, MsgInv, MuxInv, MuxTypes, WsHandler
<1>2. r \in MuxRec /\ r.todo = children /\ r.msg # None /\ ~r.sending
  BY <1>1 DEF MuxRec
<1>3. mux' = [mux EXCEPT !["clients"] = r]
  BY DEF WsHandler
<1> HIDE DEF r
<1>4. MuxInv'
  BY <1>2, <1>3, MuxStep DEF Mux, WsHandler, IInv, MuxInv, MuxTypes
<1>5. MsgInv'
  BY DEF MsgInv, IInv, WsHandler
<1> QED
  BY <1>4, <1>5, SameRest DEF IInv, WsHandler

\* The rest of the children, after one was skipped or has the message
LEMMA TodoTail ==
    ASSUME MuxInv, NEW m \in Mux, Locked(m), mux[m].todo # <<>>,
           \/ mux' = [mux EXCEPT ![m].todo = Tail(@)] /\ ~mux[m].sending
           \/ mux' = [mux EXCEPT ![m].todo = Tail(@), ![m].sending = FALSE],
           UNCHANGED children, conn' \in [WsClients -> ConnRec],
           \A w \in WsClients : /\ conn'[w].receiver = conn[w].receiver
                                /\ conn'[w].conn = conn[w].conn
                                /\ conn[w].conn = "none" => conn'[w] = conn[w]
    PROVE  MuxInv'
<1>1. mux[m] \in MuxRec /\ mux[m].todo \in Seq(Agent \cup WsClients)
  BY DEF MuxInv, MuxTypes, MuxRec
<1>2. /\ Tail(mux[m].todo) \in Seq(Agent \cup WsClients)
      /\ Range(Tail(mux[m].todo)) \subseteq Range(mux[m].todo)
  BY <1>1, TailRange
<1> DEFINE r == [mux[m] EXCEPT !.todo = Tail(@), !.sending = FALSE]
<1>3. /\ r \in MuxRec /\ r.todo = Tail(mux[m].todo) /\ r.msg = mux[m].msg /\ ~r.sending
  BY <1>1, <1>2 DEF MuxRec
<1>4. mux' = [mux EXCEPT ![m] = r]
  <2>1. ~mux[m].sending => r = [mux[m] EXCEPT !.todo = Tail(@)]
    BY <1>1 DEF MuxRec
  <2> QED
    BY <2>1
<1> HIDE DEF r
<1>5. m = "clients" => /\ Range(r.todo) \subseteq Range(children)
                       /\ r.msg = None => r.todo = <<>>
  BY <1>2, <1>3 DEF MuxInv, TodoInv, Locked
<1> QED
  BY <1>3, <1>4, <1>5, MuxStep

LEMMA AskInv == ASSUME IInv, NEW m \in Mux, Ask(m) PROVE IInv'
<1>1. CASE mux' = [mux EXCEPT ![m].todo = Tail(@)]
  BY <1>1, TodoTail, SameMsg, SameRest DEF IInv, Ask, MuxInv, MuxTypes
<1>2. CASE mux' = [mux EXCEPT ![m].sending = TRUE]
  <2> DEFINE r == [mux[m] EXCEPT !.sending = TRUE]
  <2>1. mux[m] \in MuxRec
    BY DEF IInv, MuxInv, MuxTypes
  <2>2. r \in MuxRec /\ r.todo = mux[m].todo /\ r.msg = mux[m].msg
    BY <2>1 DEF MuxRec
  <2>3. mux' = [mux EXCEPT ![m] = r]
    BY <1>2
  <2> HIDE DEF r
  <2>4. mux[m].msg # None /\ mux[m].todo # <<>>
    BY DEF Ask, Locked
  <2>5. m = "clients" => Range(r.todo) \subseteq Range(children)
    BY <2>2 DEF IInv, MuxInv, TodoInv
  <2>6. MuxInv'
    BY <2>2, <2>3, <2>4, <2>5, MuxStep DEF IInv, MuxInv, MuxTypes, Ask
  <2> QED
    BY <2>6, SameMsg, SameRest DEF IInv, Ask
<1> QED
  BY <1>1, <1>2 DEF Ask

LEMMA UnlockInv == ASSUME IInv, NEW m \in Mux, Unlock(m) PROVE IInv'
<1>1. Free \in MuxRec /\ Free.todo = <<>> /\ Range(Free.todo) = {} /\ ~Free.sending
  BY DEF Free, MuxRec, Range
<1>2. MuxInv'
  BY <1>1, MuxStep DEF IInv, Unlock, MuxInv, MuxTypes
<1> QED
  BY <1>2, SameMsg, SameRest DEF IInv, Unlock

\* One step writes the record of one client.
LEMMA ConnUpdate ==
    ASSUME MuxTypes, NEW w \in WsClients, NEW r \in ConnRec, conn' = [conn EXCEPT ![w] = r]
    PROVE  /\ conn' \in [WsClients -> ConnRec] /\ conn'[w] = r
           /\ \A x \in WsClients \ {w} : conn'[x] = conn[x]
BY DEF MuxTypes

LEMMA HandInv == ASSUME IInv, NEW m \in Mux, Hand(m) PROVE IInv'
<1> DEFINE c == Head(mux[m].todo)
           msg == mux[m].msg
<1>1. /\ Locked(m) /\ mux[m].todo # <<>> /\ msg \in Message
      /\ mux' = [mux EXCEPT ![m].todo = Tail(@), ![m].sending = FALSE]
      /\ UNCHANGED <<unsent, caller, children, child>>
  BY DEF Hand, Locked, IInv, MuxInv, MuxTypes, MuxRec, TodoInv
<1> HIDE DEF msg
<1>2. ASSUME UNCHANGED conn PROVE MuxInv'
  BY <1>1, <1>2, TodoTail DEF IInv, MuxInv, MuxTypes
<1>3. CASE ping' = msg /\ UNCHANGED <<ws, restVars, conn>>
  <2>1. MsgInv'
    BY <1>1, <1>3 DEF MsgInv, IInv
  <2> QED
    BY <1>2, <1>3, <2>1, SameRest DEF IInv
<1>4. CASE /\ rest' = [pc |-> "range", msg |-> msg, uuids |-> {}]
           /\ UNCHANGED <<ping, ws, conn, clients, mailboxes, box, fetch, owed, fetched>>
  <2>1. rest' \in RestRec /\ rest'.msg \in Message
    BY <1>1, <1>4 DEF RestRec
  <2>2. RestInv'
    BY <1>4, <2>1 DEF RestInv, IInv
  <2> QED
    BY <1>1, <1>2, <1>4, <2>2, SameMsg DEF IInv
<1>5. CASE ws' = msg /\ UNCHANGED <<ping, restVars, conn>>
  <2>1. MsgInv'
    BY <1>1, <1>5 DEF MsgInv, IInv
  <2> QED
    BY <1>2, <1>5, <2>1, SameRest DEF IInv
<1>6. CASE /\ c \in WsClients /\ conn[c].rcv = "read"
           /\ conn' = [conn EXCEPT ![c].rcv = "write", ![c].msg = msg]
           /\ UNCHANGED <<ping, ws, restVars>>
  <2> DEFINE r == [conn[c] EXCEPT !.rcv = "write", !.msg = msg]
  <2>1. conn[c] \in ConnRec
    BY <1>6 DEF IInv, MuxInv, MuxTypes
  <2>2. r \in ConnRec /\ r.receiver = conn[c].receiver /\ r.conn = conn[c].conn
    BY <1>1, <2>1 DEF ConnRec
  <2>3. conn' = [conn EXCEPT ![c] = r]
    BY <1>6
  <2> HIDE DEF r, c
  <2>4. /\ conn' \in [WsClients -> ConnRec]
        /\ \A w \in WsClients : /\ conn'[w].receiver = conn[w].receiver
                                /\ conn'[w].conn = conn[w].conn
                                /\ conn[w].conn = "none" => conn'[w] = conn[w]
    BY <1>6, <2>2, <2>3, ConnUpdate DEF IInv, MuxInv, ChildInv
  <2>5. MuxInv'
    BY <1>1, <2>4, TodoTail DEF IInv
  <2> QED
    BY <1>1, <1>6, <2>5, SameMsg, SameRest DEF IInv
<1> QED
  BY <1>3, <1>4, <1>5, <1>6 DEF Hand, msg

\* Steps of a client that keep its receiver and its registration
LEMMA ClientStep ==
    ASSUME IInv, NEW w \in WsClients, NEW r \in ConnRec, conn' = [conn EXCEPT ![w] = r],
           r.receiver = conn[w].receiver, conn[w].conn # "none", r.conn # "none",
           UNCHANGED <<mux, children, restVars>>, MsgInv'
    PROVE  IInv'
<1>1. /\ conn' \in [WsClients -> ConnRec] /\ conn'[w] = r
      /\ \A x \in WsClients \ {w} : conn'[x] = conn[x]
  BY ConnUpdate DEF IInv, MuxInv
<1>2. MuxInv'
  BY <1>1 DEF IInv, MuxInv, MuxTypes, ChildInv, TodoInv, Locked
<1> QED
  BY <1>2, SameRest DEF IInv

LEMMA HandleIncomingRegisterInv ==
    ASSUME IInv, NEW w \in WsClients, HandleIncomingRegister(w) PROVE IInv'
<1> DEFINE r == [conn[w] EXCEPT !.known = TRUE]
<1>1. conn[w] \in ConnRec /\ conn[w].conn = "open"
  BY DEF IInv, MuxInv, MuxTypes, HandleIncomingRegister
<1>2. r \in ConnRec /\ r.receiver = conn[w].receiver /\ r.conn = "open"
  BY <1>1 DEF ConnRec
<1>3. conn' = [conn EXCEPT ![w] = r]
  BY DEF HandleIncomingRegister
<1> HIDE DEF r
<1> QED
  BY <1>1, <1>2, <1>3, SameMsg, ClientStep DEF HandleIncomingRegister, IInv, muxVars

LEMMA ShutdownInv == ASSUME IInv, NEW w \in WsClients, Shutdown(w) PROVE IInv'
<1> DEFINE r == [conn[w] EXCEPT !.sender = "closed"]
<1>1. conn[w] \in ConnRec /\ conn[w].conn = "down"
  BY DEF IInv, MuxInv, MuxTypes, Shutdown
<1>2. r \in ConnRec /\ r.receiver = conn[w].receiver /\ r.conn = "down"
  BY <1>1 DEF ConnRec
<1>3. conn' = [conn EXCEPT ![w] = r]
  BY DEF Shutdown
<1> HIDE DEF r
<1> QED
  BY <1>1, <1>2, <1>3, SameMsg, ClientStep DEF Shutdown, IInv, muxVars

LEMMA DisconnectInv == ASSUME IInv, NEW w \in WsClients, Disconnect(w) PROVE IInv'
<1> DEFINE r == [conn[w] EXCEPT !.conn = "down"]
<1>1. conn[w] \in ConnRec /\ conn[w].conn = "open"
  BY DEF IInv, MuxInv, MuxTypes, Disconnect
<1>2. r \in ConnRec /\ r.receiver = conn[w].receiver /\ r.conn = "down"
  BY <1>1 DEF ConnRec
<1>3. conn' = [conn EXCEPT ![w] = r]
  BY DEF Disconnect
<1> HIDE DEF r
<1> QED
  BY <1>1, <1>2, <1>3, SameMsg, ClientStep DEF Disconnect, IInv, muxVars

LEMMA HandleReceiverInv == ASSUME IInv, NEW w \in WsClients, HandleReceiver(w) PROVE IInv'
<1>1. conn[w] \in ConnRec /\ conn[w].conn # "none"
  BY DEF IInv, MuxInv, MuxTypes, ChildInv, HandleReceiver
<1>2. PICK goesOn \in BOOLEAN :
         conn' = [conn EXCEPT ![w].msg = None,
                              ![w].rcv = IF goesOn THEN "read" ELSE "ended",
                              ![w].conn = IF goesOn THEN @ ELSE "down",
                              ![w].sender = IF goesOn THEN @ ELSE "closed"]
  BY DEF HandleReceiver
<1> DEFINE r == [conn[w] EXCEPT !.msg = None,
                                !.rcv = IF goesOn THEN "read" ELSE "ended",
                                !.conn = IF goesOn THEN @ ELSE "down",
                                !.sender = IF goesOn THEN @ ELSE "closed"]
<1>3. r \in ConnRec /\ r.receiver = conn[w].receiver /\ r.conn # "none"
  BY <1>1 DEF ConnRec
<1>4. conn' = [conn EXCEPT ![w] = r]
  BY <1>2
<1> HIDE DEF r
<1> QED
  BY <1>1, <1>3, <1>4, SameMsg, ClientStep DEF HandleReceiver, IInv, muxVars

LEMMA HandleConnInv ==
    ASSUME IInv, NEW w \in WsClients, NEW b \in Bundles, HandleConn(w, b) PROVE IInv'
<1> DEFINE r == [conn[w] EXCEPT !.out = Bundle(b)]
<1>1. conn[w] \in ConnRec /\ conn[w].conn = "open"
  BY DEF IInv, MuxInv, MuxTypes, HandleConn
<1>2. r \in ConnRec /\ r.receiver = conn[w].receiver /\ r.conn = "open"
  BY <1>1, MessageType DEF ConnRec
<1>3. conn' = [conn EXCEPT ![w] = r]
  BY DEF HandleConn
<1> HIDE DEF r
<1>4. MsgInv'
  BY DEF MsgInv, IInv, HandleConn, muxVars
<1> QED
  BY <1>1, <1>2, <1>3, <1>4, ClientStep DEF HandleConn, muxVars

LEMMA SpeakInv == ASSUME IInv, NEW w \in WsClients, Speak(w) PROVE IInv'
<1> DEFINE r == [conn[w] EXCEPT !.out = None]
<1>1. conn[w] \in ConnRec /\ conn[w].conn # "none" /\ conn[w].out \in Message
  BY DEF IInv, MuxInv, MuxTypes, ChildInv, Speak, ConnRec
<1>2. r \in ConnRec /\ r.receiver = conn[w].receiver /\ r.conn = conn[w].conn
  BY <1>1 DEF ConnRec
<1>3. conn' = [conn EXCEPT ![w] = r]
  BY DEF Speak
<1> HIDE DEF r
<1>4. MsgInv'
  BY <1>1 DEF MsgInv, IInv, Speak
<1> QED
  BY <1>1, <1>2, <1>3, <1>4, ClientStep DEF Speak

\* A new client is a child with an open receiver.
LEMMA ServeHTTPInv == ASSUME IInv, NEW w \in WsClients, ServeHTTP(w) PROVE IInv'
<1> DEFINE r == [conn[w] EXCEPT !.conn = "open", !.rcv = "read"]
<1>1. /\ conn[w] \in ConnRec /\ conn[w].conn = "none" /\ conn[w].receiver = "open"
      /\ children \in Seq(WsClients) /\ IsInjective(children) /\ Len(children) \in Nat
      /\ DOMAIN children = 1..Len(children)
  BY DEF IInv, MuxInv, MuxTypes, ChildInv, ServeHTTP
<1>2. r \in ConnRec /\ r.receiver = "open" /\ r.conn = "open"
  BY <1>1 DEF ConnRec
<1>3. /\ conn' = [conn EXCEPT ![w] = r] /\ children' = Append(children, w)
      /\ ~Locked("clients") /\ UNCHANGED mux
  BY DEF ServeHTTP, Register
<1> HIDE DEF r
<1>4. /\ conn' \in [WsClients -> ConnRec] /\ conn'[w] = r
      /\ \A x \in WsClients \ {w} : conn'[x] = conn[x]
  BY <1>2, <1>3, ConnUpdate DEF IInv, MuxInv
<1>5. w \notin Range(children)
  BY <1>1 DEF IInv, MuxInv, ChildInv, Range
<1>6. /\ children' \in Seq(WsClients) /\ IsInjective(children')
      /\ Len(children') = Len(children) + 1 /\ children'[Len(children) + 1] = w
      /\ \A i \in 1..Len(children) : children'[i] = children[i]
  BY <1>1, <1>3, <1>5, AppendKeeps
<1>7. MuxTypes'
  BY <1>3, <1>4, <1>6 DEF IInv, MuxInv, MuxTypes
<1>8. ChildInv'
  <2>1. ASSUME NEW i \in 1..Len(children')
        PROVE  conn'[children'[i]].receiver = "open" /\ conn'[children'[i]].conn # "none"
    <3>1. CASE i = Len(children) + 1
      BY <1>2, <1>4, <1>6, <3>1
    <3>2. CASE i # Len(children) + 1
      <4>1. i \in 1..Len(children) /\ children[i] \in WsClients
        BY <1>1, <1>6, <3>2
      <4>2. conn'[children[i]] = conn[children[i]]
        BY <1>1, <1>4, <1>5, <4>1 DEF Range
      <4> QED
        BY <1>6, <4>1, <4>2 DEF IInv, MuxInv, ChildInv
    <3> QED
      BY <3>1, <3>2
  <2> QED
    BY <1>2, <1>4, <2>1 DEF ChildInv, IInv, MuxInv
<1>9. TodoInv'
  BY <1>3 DEF IInv, MuxInv, TodoInv, Locked, Range
<1>10. MuxInv'
  BY <1>7, <1>8, <1>9 DEF MuxInv
<1> QED
  BY <1>10, SameMsg, SameRest DEF IInv, ServeHTTP

\* unregister closes the receiver of a client that is no child any more.
LEMMA UnregisterInv == ASSUME IInv, NEW w \in WsClients, Unregister(w) PROVE IInv'
<1> DEFINE r == [conn[w] EXCEPT !.receiver = "closed",
                                !.rcv = IF @ = "read" THEN "ended" ELSE @]
<1>1. /\ conn[w] \in ConnRec /\ conn[w].conn # "none"
      /\ children \in Seq(WsClients) /\ IsInjective(children)
      /\ DOMAIN children = 1..Len(children)
  BY DEF IInv, MuxInv, MuxTypes, ChildInv, Unregister
<1>2. r \in ConnRec /\ r.conn = conn[w].conn
  BY <1>1 DEF ConnRec
<1>3. conn' = [conn EXCEPT ![w] = r] /\ Cut(w) /\ ~Locked("clients") /\ UNCHANGED mux
  BY DEF Unregister
<1> HIDE DEF r
<1>4. /\ conn' \in [WsClients -> ConnRec] /\ conn'[w] = r
      /\ \A x \in WsClients \ {w} : conn'[x] = conn[x]
  BY <1>2, <1>3, ConnUpdate DEF IInv, MuxInv
<1>5. /\ children' \in Seq(WsClients) /\ IsInjective(children')
      /\ \A k \in 1..Len(children') :
            \E j \in 1..Len(children) : children'[k] = children[j] /\ children[j] # w
  <2>1. CASE w \notin Range(children) /\ UNCHANGED children
    BY <1>1, <2>1 DEF Range
  <2>2. ASSUME NEW i \in 1..Len(children), children[i] = w, children' = RemoveAt(children, i)
        PROVE  /\ children' \in Seq(WsClients) /\ IsInjective(children')
               /\ \A k \in 1..Len(children') :
                     \E j \in 1..Len(children) : children'[k] = children[j] /\ children[j] # w
    <3>1. /\ children' \in Seq(WsClients) /\ IsInjective(children')
          /\ \A k \in 1..Len(children') :
                \E j \in 1..Len(children) : j # i /\ children'[k] = children[j]
      BY <1>1, <2>2, RemoveAtKeeps
    <3>2. \A j \in 1..Len(children) : j # i => children[j] # w
      BY <1>1, <2>2 DEF IsInjective
    <3> QED
      BY <3>1, <3>2
  <2> QED
    BY <1>3, <2>1, <2>2 DEF Cut
<1>6. MuxTypes'
  BY <1>3, <1>4, <1>5 DEF IInv, MuxInv, MuxTypes
<1>7. ChildInv'
  <2>1. ASSUME NEW k \in 1..Len(children')
        PROVE  conn'[children'[k]].receiver = "open" /\ conn'[children'[k]].conn # "none"
    <3>1. PICK j \in 1..Len(children) : children'[k] = children[j] /\ children[j] # w
      BY <1>5
    <3>2. children[j] \in WsClients \ {w}
      BY <1>1, <3>1
    <3> QED
      BY <1>4, <3>1, <3>2 DEF IInv, MuxInv, ChildInv
  <2> QED
    BY <1>1, <1>2, <1>4, <2>1 DEF ChildInv, IInv, MuxInv
<1>8. TodoInv'
  BY <1>3 DEF IInv, MuxInv, TodoInv, Locked, Range
<1>9. MuxInv'
  BY <1>6, <1>7, <1>8 DEF MuxInv
<1> QED
  BY <1>9, SameMsg, SameRest DEF IInv, Unregister

-----------------------------------------------------------------------------
(* Theorems                                                                *)

LEMMA StutterInv == ASSUME IInv, UNCHANGED vars PROVE IInv'
BY SameMsg, SameMux, SameRest DEF IInv, vars, muxVars

LEMMA NextInv == ASSUME IInv, [Next]_vars PROVE IInv'
<1>1. ASSUME NEW b \in Bundles, Receive(b) \/ HandleBuild(b) PROVE IInv'
  BY <1>1, ReceiveInv, HandleBuildInv
<1>2. ASSUME NEW a \in Agent, HandleMessage(a) PROVE IInv'
  BY <1>2, HandleMessageInv
<1>3. ASSUME NEW p \in Caller, Call(p) PROVE IInv'
  BY <1>3, HasEndpointInv, DeliverInv DEF Call
<1>4. ASSUME NEW m \in Mux, Distribute(m) PROVE IInv'
  BY <1>4, AskInv, HandInv, UnlockInv DEF Distribute
<1>5. CASE AckBundle \/ WsHandler \/ RestHandler
  BY <1>5, AckBundleInv, WsHandlerInv, RangeClientsInv, ReceiveBundleMessageInv DEF RestHandler
<1>6. ASSUME NEW w \in WsClients,
             \/ Converse(w) \/ Listen(w) \/ HandleReceiver(w)
             \/ ServeHTTP(w) \/ HandleIncomingRegister(w) \/ Disconnect(w)
             \/ \E b \in Bundles : HandleConn(w, b)
      PROVE  IInv'
  BY <1>6, HandleChildInv, UnregisterInv, SpeakInv, ShutdownInv, HandleReceiverInv, ServeHTTPInv,
     HandleIncomingRegisterInv, DisconnectInv, HandleConnInv DEF Converse, Listen
<1>7. ASSUME NEW u \in Uuids,
             \/ HandleRegister(u) \/ HandleUnregister(u)
             \/ \E f \in Fetchers : FetchLookup(f, u)
      PROVE  IInv'
  BY <1>7, HandleRegisterInv, HandleUnregisterInv, FetchLookupInv
<1>8. ASSUME NEW f \in Fetchers, FetchTake(f) PROVE IInv'
  BY <1>8, FetchTakeInv
<1>9. CASE UNCHANGED vars
  BY <1>9, StutterInv
<1> QED
  BY <1>1, <1>2, <1>3, <1>4, <1>5, <1>6, <1>7, <1>8, <1>9 DEF Next

\* The invariant behind the theorems below
THEOREM Inductive == Spec => []IInv
BY InitInv, NextInv, PTL DEF Spec

\* Every variable keeps its type; no client is a child of the WebSocket mux
\* twice, and every mailbox number that a client or a /fetch holds belongs
\* to a mailbox.
THEOREM TypeCorrect == Spec => []TypeOK
<1>1. IInv => TypeOK
  BY DEF IInv, MsgInv, MuxInv, MuxTypes, RestInv, TypeOK, CallerRec, MuxRec, ConnRec, RestRec
<1> QED
  BY <1>1, Inductive, PTL

\* MuxAgent.handle never sends to a child whose receiver unregister has
\* closed, however many clients shut down while it distributes.
THEOREM NoSendOnClosed == Spec => []NeverSendsOnClosed
<1>1. IInv => NeverSendsOnClosed
  <2> SUFFICES ASSUME IInv, NEW w \in Range(mux["clients"].todo)
               PROVE  conn[w].receiver = "open"
    BY DEF NeverSendsOnClosed
  <2>1. w \in Range(children)
    BY DEF IInv, MuxInv, TodoInv
  <2>2. PICK i \in 1..Len(children) : children[i] = w
    BY <2>1 DEF Range, IInv, MuxInv, MuxTypes
  <2> QED
    BY <2>2 DEF IInv, MuxInv, ChildInv
<1> QED
  BY <1>1, Inductive, PTL

-----------------------------------------------------------------------------
(* What a REST client may fetch                                            *)

For(u) == {msg \in Message : Recipient(msg) = RestEid[u]}

(***************************************************************************)
(* Every bundle that a client was given, that its mailbox holds, that a    *)
(* /fetch of it is about to return or that the RestAgent is about to put   *)
(* into its mailbox is for the client's endpoint.  This needs that no two  *)
(* clients share a mailbox, and that a mailbox a /fetch has looked up is   *)
(* not another client's by the time it is emptied.                         *)
(***************************************************************************)
OwnInv ==
    /\ \A u \in Uuids : fetched[u] \in Seq(For(u))
    /\ \A u \in Uuids : mailboxes[u] # 0 => box[mailboxes[u]] \subseteq For(u)
    /\ \A f \in Fetchers : fetch[f].uuid # None => box[fetch[f].box] \subseteq For(fetch[f].uuid)
    /\ \A u \in rest.uuids : rest.msg \in For(u)
    /\ \A u, v \in Uuids : mailboxes[u] = mailboxes[v] /\ mailboxes[u] # 0 => u = v
    /\ \A f \in Fetchers, u \in Uuids :
          fetch[f].uuid # None /\ fetch[f].box = mailboxes[u] => fetch[f].uuid = u

LEMMA OwnInit == Init => OwnInv
BY DEF Init, OwnInv, Waiting

LEMMA SameOwn ==
    ASSUME OwnInv, UNCHANGED <<rest, mailboxes, box, fetch, fetched>> PROVE OwnInv'
BY DEF OwnInv, For

LEMMA HandOwn == ASSUME OwnInv, NEW m \in Mux, Hand(m) PROVE OwnInv'
<1>1. CASE UNCHANGED restVars
  BY <1>1, SameOwn DEF restVars
<1>2. CASE rest'.uuids = {} /\ UNCHANGED <<mailboxes, box, fetch, fetched>>
  BY <1>2 DEF OwnInv, For
<1> QED
  BY <1>1, <1>2 DEF Hand

LEMMA RangeClientsOwn == ASSUME IInv, OwnInv, RangeClients PROVE OwnInv'
<1>1. rest \in RestRec /\ rest.msg \in Message
  BY DEF RangeClients, IInv, RestInv
<1>2. PICK first \in FirstClient :
         rest' = [rest EXCEPT !.pc = "store",
                              !.uuids = {u \in first : RestEid[u] = Recipient(rest.msg)}]
  BY DEF RangeClients
<1>3. /\ rest'.msg = rest.msg
      /\ rest'.uuids = {u \in first : RestEid[u] = Recipient(rest.msg)}
  BY <1>1, <1>2 DEF RestRec
<1>4. \A u \in rest'.uuids : rest'.msg \in For(u)
  BY <1>1, <1>3 DEF For
<1> QED
  BY <1>4 DEF OwnInv, For, RangeClients

LEMMA ReceiveBundleMessageOwn == ASSUME IInv, OwnInv, ReceiveBundleMessage PROVE OwnInv'
<1>1. /\ rest.uuids \subseteq Uuids /\ rest'.uuids = {} /\ UNCHANGED <<fetch, fetched>>
  BY DEF ReceiveBundleMessage, IInv, RestInv, RestRec, Waiting
<1>2. /\ box \in Seq(SUBSET Message) /\ Len(box) \in Nat /\ DOMAIN box = 1..Len(box)
      /\ mailboxes \in [Uuids -> 0..Len(box)]
      /\ fetch \in [Fetchers -> [uuid : Uuids \cup {None}, box : 0..Len(box)]]
      /\ \A f \in Fetchers : fetch[f].uuid # None => fetch[f].box # 0
  BY DEF IInv, RestInv
<1>3. ASSUME box' = [i \in DOMAIN box |->
                        IF \E u \in rest.uuids : mailboxes[u] = i
                        THEN box[i] \cup {rest.msg} ELSE box[i]],
             UNCHANGED mailboxes
      PROVE  OwnInv'
  <2>1. ASSUME NEW u \in Uuids, mailboxes[u] # 0
        PROVE  box'[mailboxes[u]] \subseteq For(u)
    <3>1. mailboxes[u] \in DOMAIN box /\ box[mailboxes[u]] \subseteq For(u)
      BY <1>2, <2>1 DEF OwnInv
    <3>2. CASE \E v \in rest.uuids : mailboxes[v] = mailboxes[u]
      <4>1. u \in rest.uuids
        BY <1>1, <2>1, <3>2 DEF OwnInv
      <4> QED
        BY <1>3, <3>1, <4>1 DEF OwnInv
    <3>3. CASE ~\E v \in rest.uuids : mailboxes[v] = mailboxes[u]
      BY <1>3, <3>1, <3>3
    <3> QED
      BY <3>2, <3>3
  <2>2. ASSUME NEW f \in Fetchers, fetch[f].uuid # None
        PROVE  box'[fetch[f].box] \subseteq For(fetch[f].uuid)
    <3>1. fetch[f].box \in DOMAIN box /\ box[fetch[f].box] \subseteq For(fetch[f].uuid)
      BY <1>2, <2>2 DEF OwnInv
    <3>2. CASE \E v \in rest.uuids : mailboxes[v] = fetch[f].box
      <4>1. fetch[f].uuid \in rest.uuids
        BY <1>1, <2>2, <3>2 DEF OwnInv
      <4> QED
        BY <1>3, <3>1, <4>1 DEF OwnInv
    <3>3. CASE ~\E v \in rest.uuids : mailboxes[v] = fetch[f].box
      BY <1>3, <3>1, <3>3
    <3> QED
      BY <3>2, <3>3
  <2> QED
    BY <1>1, <1>3, <2>1, <2>2 DEF OwnInv, For
<1>4. ASSUME NEW u \in rest.uuids, box' = Append(box, {rest.msg}),
             mailboxes' = [mailboxes EXCEPT ![u] = Len(box) + 1]
      PROVE  OwnInv'
  <2>1. u \in Uuids /\ rest.msg \in For(u) /\ rest.msg \in Message
    BY <1>1 DEF OwnInv, For
  <2>2. /\ box'[Len(box) + 1] = {rest.msg}
        /\ \A i \in 1..Len(box) : box'[i] = box[i]
    BY <1>2, <1>4, <2>1
  <2>3. /\ mailboxes'[u] = Len(box) + 1
        /\ \A v \in Uuids : v # u => mailboxes'[v] = mailboxes[v]
        /\ \A v \in Uuids : mailboxes[v] # Len(box) + 1
    BY <1>2, <1>4, <2>1
  <2>4. \A v \in Uuids : mailboxes'[v] # 0 => box'[mailboxes'[v]] \subseteq For(v)
    BY <1>2, <2>1, <2>2, <2>3 DEF OwnInv
  <2>5. \A f \in Fetchers : fetch[f].uuid # None =>
           /\ fetch[f].box \in 1..Len(box) /\ box'[fetch[f].box] = box[fetch[f].box]
           /\ fetch[f].box # Len(box) + 1
    BY <1>2, <2>2
  <2>6. \A v, x \in Uuids : mailboxes'[v] = mailboxes'[x] /\ mailboxes'[v] # 0 => v = x
    BY <2>3 DEF OwnInv
  <2>7. \A f \in Fetchers, v \in Uuids :
           fetch[f].uuid # None /\ fetch[f].box = mailboxes'[v] => fetch[f].uuid = v
    BY <2>3, <2>5 DEF OwnInv
  <2> QED
    BY <1>1, <2>4, <2>5, <2>6, <2>7 DEF OwnInv, For
<1> QED
  BY <1>3, <1>4 DEF ReceiveBundleMessage

LEMMA HandleUnregisterOwn == ASSUME IInv, OwnInv, NEW u \in Uuids, HandleUnregister(u) PROVE OwnInv'
<1>1. /\ \A v \in Uuids : mailboxes'[v] = IF v = u THEN 0 ELSE mailboxes[v]
      /\ \A f \in Fetchers : fetch[f].uuid # None => fetch[f].box # 0
  BY DEF HandleUnregister, IInv, RestInv
<1> QED
  BY <1>1 DEF OwnInv, For, HandleUnregister

LEMMA FetchLookupOwn ==
    ASSUME IInv, OwnInv, NEW g \in Fetchers, NEW u \in Uuids, FetchLookup(g, u) PROVE OwnInv'
<1>1. /\ \A f \in Fetchers : fetch'[f] = IF f = g THEN [uuid |-> u, box |-> mailboxes[u]] ELSE fetch[f]
      /\ mailboxes[u] # 0 /\ UNCHANGED <<rest, mailboxes, box, fetched>>
  BY DEF FetchLookup, IInv, RestInv
<1>2. ASSUME NEW f \in Fetchers, fetch'[f].uuid # None
      PROVE  /\ box[fetch'[f].box] \subseteq For(fetch'[f].uuid)
             /\ \A v \in Uuids : fetch'[f].box = mailboxes[v] => fetch'[f].uuid = v
  BY <1>1, <1>2 DEF OwnInv
<1> QED
  BY <1>1, <1>2 DEF OwnInv, For

LEMMA FetchTakeOwn == ASSUME IInv, OwnInv, NEW g \in Fetchers, FetchTake(g) PROVE OwnInv'
<1> DEFINE u == fetch[g].uuid
           q == SetToSeq(box[fetch[g].box])
<1>1. u \in Uuids /\ u # None /\ fetch[g].box \in 1..Len(box) /\ IsFiniteSet(box[fetch[g].box])
  BY DEF FetchTake, IInv, RestInv
<1>2. q \in Seq(For(u))
  <2>1. box[fetch[g].box] \subseteq For(u)
    BY <1>1 DEF OwnInv
  <2>2. q \in Seq(box[fetch[g].box])
    BY <1>1, SetToSeqType
  <2> HIDE DEF q, u
  <2> QED
    BY <2>1, <2>2
<1>3. /\ fetched' = [fetched EXCEPT ![u] = @ \o q] /\ fetched \in [Uuids -> Seq(Message)]
      /\ mailboxes' = [mailboxes EXCEPT ![u] = 0] /\ mailboxes \in [Uuids -> 0..Len(box)]
      /\ fetch' = [fetch EXCEPT ![g] = [uuid |-> None, box |-> 0]]
      /\ fetch \in [Fetchers -> [uuid : Uuids \cup {None}, box : 0..Len(box)]]
      /\ UNCHANGED <<rest, box>>
      /\ \A f \in Fetchers : fetch[f].uuid # None => fetch[f].box # 0
  BY DEF FetchTake, IInv, RestInv
<1> HIDE DEF q, u
<1>4. \A v \in Uuids : fetched'[v] \in Seq(For(v))
  <2>1. fetched[u] \o q \in Seq(For(u))
    BY <1>1, <1>2 DEF OwnInv
  <2> QED
    BY <1>1, <1>3, <2>1 DEF OwnInv
<1>5. /\ \A v \in Uuids : mailboxes'[v] = IF v = u THEN 0 ELSE mailboxes[v]
      /\ \A f \in Fetchers : fetch'[f] = IF f = g THEN [uuid |-> None, box |-> 0] ELSE fetch[f]
  BY <1>1, <1>3
<1>6. \A v \in Uuids : mailboxes'[v] # 0 => box'[mailboxes'[v]] \subseteq For(v)
  BY <1>3, <1>5 DEF OwnInv
<1>7. ASSUME NEW f \in Fetchers, fetch'[f].uuid # None
      PROVE  /\ box'[fetch'[f].box] \subseteq For(fetch'[f].uuid)
             /\ \A v \in Uuids : fetch'[f].box = mailboxes'[v] => fetch'[f].uuid = v
  BY <1>3, <1>5, <1>7 DEF OwnInv
<1>8. \A v, x \in Uuids : mailboxes'[v] = mailboxes'[x] /\ mailboxes'[v] # 0 => v = x
  BY <1>5 DEF OwnInv
<1> QED
  BY <1>3, <1>4, <1>6, <1>7, <1>8 DEF OwnInv, For

LEMMA OwnStep == ASSUME IInv, OwnInv, [Next]_vars PROVE OwnInv'
<1>1. CASE UNCHANGED restVars
  BY <1>1, SameOwn DEF restVars
<1>2. ASSUME NEW m \in Mux, Distribute(m) PROVE OwnInv'
  BY <1>1, <1>2, HandOwn DEF Distribute, Ask, Unlock
<1>3. CASE RestHandler
  BY <1>3, RangeClientsOwn, ReceiveBundleMessageOwn DEF RestHandler
<1>4. ASSUME NEW u \in Uuids,
             \/ HandleRegister(u) \/ HandleUnregister(u)
             \/ \E f \in Fetchers : FetchLookup(f, u)
      PROVE  OwnInv'
  BY <1>4, SameOwn, HandleUnregisterOwn, FetchLookupOwn DEF HandleRegister
<1>5. ASSUME NEW f \in Fetchers, FetchTake(f) PROVE OwnInv'
  BY <1>5, FetchTakeOwn
<1>6. ASSUME \/ \E b \in Bundles : Receive(b) \/ HandleBuild(b)
             \/ \E a \in Agent : HandleMessage(a)
             \/ \E p \in Caller : Call(p)
             \/ AckBundle \/ WsHandler
      PROVE  OwnInv'
  BY <1>1, <1>6 DEF Receive, HandleBuild, HandleMessage, Call, HasEndpoint, Deliver, AckBundle, WsHandler
<1>7. ASSUME NEW w \in WsClients,
             \/ Converse(w) \/ Listen(w) \/ HandleReceiver(w)
             \/ ServeHTTP(w) \/ HandleIncomingRegister(w) \/ Disconnect(w)
             \/ \E b \in Bundles : HandleConn(w, b)
      PROVE  OwnInv'
  BY <1>1, <1>7 DEF Converse, Listen, HandleChild, Unregister, Speak, Shutdown, HandleReceiver,
     ServeHTTP, HandleIncomingRegister, Disconnect, HandleConn
<1>8. CASE UNCHANGED vars
  BY <1>1, <1>8 DEF vars
<1> QED
  BY <1>2, <1>3, <1>4, <1>5, <1>6, <1>7, <1>8 DEF Next

(***************************************************************************)
(* A /fetch returns only bundles for the endpoint that its client          *)
(* registered, for any number of REST clients and of requests at a time:   *)
(* handleFetch's lookup without the mutex never ends in another client's   *)
(* mailbox.  That a bundle is fetched once needs one client and one        *)
(* request at a time, and is left to TLC.                                  *)
(***************************************************************************)
THEOREM OwnBundlesOnly == Spec => []FetchedIsOwn
<1>1. OwnInv => FetchedIsOwn
  <2> SUFFICES ASSUME OwnInv, NEW u \in Uuids, NEW msg \in Range(fetched[u])
               PROVE  Recipient(msg) = RestEid[u]
    BY DEF FetchedIsOwn
  <2>1. fetched[u] \in Seq(For(u))
    BY DEF OwnInv
  <2>2. msg \in For(u)
    BY <2>1 DEF Range
  <2> QED
    BY <2>2 DEF For
<1>2. IInv /\ OwnInv /\ [Next]_vars => OwnInv'
  BY OwnStep
<1> QED
  BY <1>1, <1>2, OwnInit, Inductive, PTL DEF Spec
=============================================================================
