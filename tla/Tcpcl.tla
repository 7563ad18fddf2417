------------------------------- MODULE Tcpcl --------------------------------
(***************************************************************************)
(* A TCPCLv4 session between two nodes that both run pkg/cla/tcpclv4: the  *)
(* stages of the StageHandler, the TransferManager with its concurrent     *)
(* Send calls, and the shutdown of the Client.                             *)
(*                                                                         *)
(* Each node has a stage goroutine, a TransferManager.handle goroutine, a  *)
(* Client.handle goroutine and two goroutines per Send.  wire[n] is what n *)
(* has passed to MsgOut and its peer has not yet taken from MsgIn: the     *)
(* MessageSwitch channels of both sides and the TCP connection in between. *)
(* A send on a channel that has room belongs to the step that leads to it; *)
(* on a full channel the goroutine waits in a state of its own.            *)
(***************************************************************************)
EXTENDS Naturals, Sequences

CONSTANTS
    Active, Passive,  \* the two nodes
    Transfers,        \* the Send calls of both nodes
    Owner,            \* Owner[x]: the node that calls Send
    Size,             \* Size[x]: length of the serialized bundle
    Mru,              \* Mru[n]: the SegmentMru n announces
    MaxId,            \* bound: the largest transfer ID
    ChanCap,          \* capacity of the channels (32 in the code)
    WireCap,          \* bound: messages in transit in one direction
    Impatient,        \* Send calls that may wait for 10 s in vain
    LateCalls,        \* Send calls that may come after the Client is closed
    Closers,          \* nodes whose Manager may close the Client
    None              \* an empty lenChan, no message in hand

Nodes == {Active, Passive}
Ids == 0 .. MaxId

ASSUME TcpclAssumption ==
    /\ Active # Passive
    /\ Owner \in [Transfers -> Nodes]
    /\ Size \in [Transfers -> Nat \ {0}]
    /\ Mru \in [Nodes -> Nat \ {0}]
    /\ MaxId \in Nat
    /\ ChanCap \in Nat \ {0}
    /\ WireCap \in Nat \ {0}
    /\ Impatient \subseteq Transfers
    /\ LateCalls \subseteq Transfers
    /\ Closers \subseteq Nodes
    /\ None \notin Nat

VARIABLES
    stage,      \* where the stage goroutine is
    held,       \* the message it is about to pass on
    mtu,        \* State.SegmentMtu, the peer's SegmentMru
    wire,       \* messages in transit from n to its peer
    exIn,       \* State.ExchangeMsgIn
    exOut,      \* State.ExchangeMsgOut
    tm,         \* where TransferManager.handle is
    cur,        \* the acknowledgement it has in hand
    bufs,       \* inTransfers: an IncomingTransfer per transfer ID
    nextId,     \* outNextId
    send,       \* the local variables of the Send calls
    client,     \* the Client's state
    asked,      \* nodes whose Client.Close was called
    delivered   \* transfers whose bundle reached Client.handle

stageVars == <<stage, held, mtu, wire>>
tmVars == <<tm, cur, bufs>>
vars == <<stage, held, mtu, wire, exIn, exOut, tm, cur, bufs, nextId, send,
          client, asked, delivered>>

-----------------------------------------------------------------------------
Peer(n) == IF n = Active THEN Passive ELSE Active

Bytes == Transfers \X (Nat \ {0})

\* The serialized bundle of x from position lo to hi.
Payload(x, lo, hi) == [k \in 1 .. (hi - lo + 1) |-> <<x, lo + k - 1>>]

Handshake ==
    [type : {"contact"}] \cup [type : {"init"}, mru : Nat \ {0}]

Exchanged ==
    [type : {"segment"}, id : Ids, data : Seq(Bytes), end : BOOLEAN]
      \cup [type : {"ack"}, id : Ids, len : Nat]

Messages == Handshake \cup Exchanged \cup [type : {"term"}]

Stages == {"sendContact", "recvContact", "sendInit", "recvInit", "ready",
           "select", "in", "out", "term", "error", "stalled"}

SendRec ==
    [pc : {"idle", "run", "ok", "failed", "panic"},  \* Send itself
     out : {"off", "next", "push"},                  \* its sending goroutine
     id : Ids,
     pos : Nat,                  \* bytes read from the bundle and sent
     total : Nat \cup {None},    \* lenChan
     err : BOOLEAN,              \* errChan holds an error
     acks : Seq(Nat),            \* ackChan
     stop : BOOLEAN,             \* stopped
     inLen : Nat, outLen : Nat]

Unused == [data |-> <<>>, end |-> FALSE]

\* Every variable has its type.
TypeOK ==
    /\ stage \in [Nodes -> Stages]
    /\ held \in [Nodes -> Messages \cup {None}]
    /\ mtu \in [Nodes -> Nat]
    /\ wire \in [Nodes -> Seq(Messages)]
    /\ exIn \in [Nodes -> Seq(Messages)]
    /\ exOut \in [Nodes -> Seq(Messages)]
    /\ tm \in [Nodes -> {"none", "run", "feedback", "ack", "deliver", "error",
                       "gone"}]
    /\ cur \in [Nodes -> Messages \cup {None}]
    /\ bufs \in [Nodes -> [Ids -> [data : Seq(Bytes), end : BOOLEAN]]]
    /\ nextId \in [Nodes -> Nat]
    /\ send \in [Transfers -> SendRec]
    /\ client \in [Nodes -> {"starting", "up", "closing", "down"}]
    /\ asked \in SUBSET Nodes
    /\ delivered \in [Nodes -> SUBSET Transfers]

Init ==
    /\ stage = [n \in Nodes |-> IF n = Active THEN "sendContact"
                                              ELSE "recvContact"]
    /\ held = [n \in Nodes |-> None]
    /\ mtu = [n \in Nodes |-> 0]
    /\ wire = [n \in Nodes |-> <<>>]
    /\ exIn = [n \in Nodes |-> <<>>]
    /\ exOut = [n \in Nodes |-> <<>>]
    /\ tm = [n \in Nodes |-> "none"]
    /\ cur = [n \in Nodes |-> None]
    /\ bufs = [n \in Nodes |-> [i \in Ids |-> Unused]]
    /\ nextId = [n \in Nodes |-> 0]
    /\ send = [x \in Transfers |->
                 [pc |-> "idle", out |-> "off", id |-> 0, pos |-> 0,
                  total |-> None, err |-> FALSE, acks |-> <<>>,
                  stop |-> FALSE, inLen |-> 0, outLen |-> 0]]
    /\ client = [n \in Nodes |-> "starting"]
    /\ asked = {}
    /\ delivered = [n \in Nodes |-> {}]

-----------------------------------------------------------------------------
\* ContactStage and SessInitStage.

CanTransmit(n) == Len(wire[n]) < WireCap /\ client[n] # "down"

\* MsgOut <- msg; nobody reads it once the peer has closed the connection.
Transmit(n, msg) ==
    /\ CanTransmit(n)
    /\ wire' = [wire EXCEPT ![n] = IF client[Peer(n)] = "down" THEN @
                                   ELSE Append(@, msg)]

\* The active peer speaks first in both stages.
AfterSend(n) ==
    IF stage[n] = "sendContact"
    THEN IF n = Active THEN "recvContact" ELSE "recvInit"
    ELSE IF n = Active THEN "recvInit" ELSE "ready"

AfterReceive(n) ==
    IF stage[n] = "recvContact"
    THEN IF n = Active THEN "sendInit" ELSE "sendContact"
    ELSE IF n = Active THEN "ready" ELSE "sendInit"

SendHandshake(n) ==
    /\ stage[n] \in {"sendContact", "sendInit"}
    /\ Transmit(n, IF stage[n] = "sendContact" THEN [type |-> "contact"]
                   ELSE [type |-> "init", mru |-> Mru[n]])
    /\ stage' = [stage EXCEPT ![n] = AfterSend(n)]
    /\ UNCHANGED <<held, mtu, exIn, exOut, tmVars, nextId, send, client,
                   asked, delivered>>

(***************************************************************************)
(* receiveMsgOrClose of both stages; any other message is an error.        *)
(***************************************************************************)
ReceiveHandshake(n) ==
    /\ stage[n] \in {"recvContact", "recvInit"}
    /\ wire[Peer(n)] # <<>>
    /\ LET msg == Head(wire[Peer(n)])
           awaited == IF stage[n] = "recvContact" THEN "contact" ELSE "init"
       IN /\ stage' = [stage EXCEPT ![n] =
                IF msg.type = awaited THEN AfterReceive(n) ELSE "error"]
          /\ mtu' = IF msg.type = awaited /\ awaited = "init"
                    THEN [mtu EXCEPT ![n] = msg.mru] ELSE mtu
    /\ wire' = [wire EXCEPT ![Peer(n)] = Tail(@)]
    /\ UNCHANGED <<held, exIn, exOut, tmVars, nextId, send, client, asked,
                   delivered>>

(***************************************************************************)
(* The PreHook of SessEstablishedStage passes the MTU to Client.Start,     *)
(* which creates the TransferManager and starts Client.handle.             *)
(***************************************************************************)
Start(n) ==
    /\ stage[n] = "ready"
    /\ client[n] = "starting"
    /\ stage' = [stage EXCEPT ![n] = "select"]
    /\ client' = [client EXCEPT ![n] = "up"]
    /\ tm' = [tm EXCEPT ![n] = "run"]
    /\ UNCHANGED <<held, mtu, wire, exIn, exOut, cur, bufs, nextId, send,
                   asked, delivered>>

-----------------------------------------------------------------------------
\* SessEstablishedStage.

\* TransferManager.stopped and the StageHandler's closed closeChan.
Closed(n) == client[n] \in {"closing", "down"}

(***************************************************************************)
(* handleMsgIn: SESS_TERM is answered, what belongs to a transfer goes to  *)
(* ExchangeMsgIn.  A second handshake message is an error.                 *)
(***************************************************************************)
HandleMsgIn(n) ==
    /\ stage[n] = "select"
    /\ client[n] # "down"
    /\ wire[Peer(n)] # <<>>
    /\ LET msg == Head(wire[Peer(n)])
       IN IF msg.type \notin {"segment", "ack"}
          THEN /\ stage' = [stage EXCEPT ![n] =
                     IF msg.type = "term" THEN "term" ELSE "error"]
               /\ UNCHANGED <<held, exIn>>
          ELSE IF Len(exIn[n]) < ChanCap
          THEN /\ exIn' = [exIn EXCEPT ![n] = Append(@, msg)]
               /\ UNCHANGED <<stage, held>>
          ELSE /\ stage' = [stage EXCEPT ![n] = "in"]
               /\ held' = [held EXCEPT ![n] = msg]
               /\ UNCHANGED exIn
    /\ wire' = [wire EXCEPT ![Peer(n)] = Tail(@)]
    /\ UNCHANGED <<mtu, exOut, tmVars, nextId, send, client, asked,
                   delivered>>

\* ExchangeMsgIn <- msg; meanwhile the stage serves nothing else.
PassIn(n) ==
    /\ stage[n] = "in"
    /\ Len(exIn[n]) < ChanCap
    /\ exIn' = [exIn EXCEPT ![n] = Append(@, held[n])]
    /\ held' = [held EXCEPT ![n] = None]
    /\ stage' = [stage EXCEPT ![n] = "select"]
    /\ UNCHANGED <<mtu, wire, exOut, tmVars, nextId, send, client, asked,
                   delivered>>

\* The ExchangeMsgOut case.
MessageOut(n) ==
    /\ stage[n] = "select"
    /\ client[n] # "down"
    /\ exOut[n] # <<>>
    /\ exOut' = [exOut EXCEPT ![n] = Tail(@)]
    /\ \/ /\ Transmit(n, Head(exOut[n]))
          /\ UNCHANGED <<stage, held>>
       \/ /\ ~CanTransmit(n)
          /\ held' = [held EXCEPT ![n] = Head(exOut[n])]
          /\ stage' = [stage EXCEPT ![n] = "out"]
          /\ UNCHANGED wire
    /\ UNCHANGED <<mtu, exIn, tmVars, nextId, send, client, asked,
                   delivered>>

PassOut(n) ==
    /\ stage[n] = "out"
    /\ Transmit(n, held[n])
    /\ held' = [held EXCEPT ![n] = None]
    /\ stage' = [stage EXCEPT ![n] = "select"]
    /\ UNCHANGED <<mtu, exIn, exOut, tmVars, nextId, send, client, asked,
                   delivered>>

\* The closeChan case.
CloseStage(n) ==
    /\ stage[n] = "select"
    /\ client[n] = "closing"
    /\ stage' = [stage EXCEPT ![n] = "term"]
    /\ UNCHANGED <<held, mtu, wire, exIn, exOut, tmVars, nextId, send,
                   client, asked, delivered>>

\* SESS_TERM is sent, then the stage ends with StageClose.
SendTermination(n) ==
    /\ stage[n] = "term"
    /\ Transmit(n, [type |-> "term"])
    /\ stage' = [stage EXCEPT ![n] = "error"]
    /\ UNCHANGED <<held, mtu, exIn, exOut, tmVars, nextId, send, client, asked,
                   delivered>>

(***************************************************************************)
(* handleKeepalive: nothing came for too long.  The peer sends at least    *)
(* its KEEPALIVEs in time, unless its stage waits for ExchangeMsgIn.       *)
(***************************************************************************)
HandleKeepalive(n) ==
    /\ stage[n] = "select"
    /\ stage[Peer(n)] = "in"
    /\ Len(exIn[Peer(n)]) = ChanCap
    /\ wire[Peer(n)] = <<>>
    /\ stage' = [stage EXCEPT ![n] = "stalled"]
    /\ UNCHANGED <<held, mtu, wire, exIn, exOut, tmVars, nextId, send,
                   client, asked, delivered>>

-----------------------------------------------------------------------------
\* TransferManager.handle.

\* outFeedback: the Send call that waits for answers to transfer i.
Feedback(n, i) ==
    {x \in Transfers : Owner[x] = n /\ send[x].pc = "run" /\ send[x].id = i}

HandleAck(n) ==
    /\ tm[n] = "run"
    /\ exIn[n] # <<>>
    /\ Head(exIn[n]).type = "ack"
    /\ LET msg == Head(exIn[n])
           calls == Feedback(n, msg.id)
       IN IF calls = {}
          THEN /\ tm' = [tm EXCEPT ![n] = "error"]
               /\ UNCHANGED <<send, cur>>
          ELSE \E x \in calls :
            IF Len(send[x].acks) < ChanCap
            THEN /\ send' = [send EXCEPT ![x].acks = Append(@, msg.len)]
                 /\ UNCHANGED <<tm, cur>>
            ELSE /\ tm' = [tm EXCEPT ![n] = "feedback"]
                 /\ cur' = [cur EXCEPT ![n] = msg]
                 /\ UNCHANGED send
    /\ exIn' = [exIn EXCEPT ![n] = Tail(@)]
    /\ UNCHANGED <<stageVars, exOut, bufs, nextId, client, asked, delivered>>

\* ackChan <- msg; in vain once Send has returned.
PassAck(n) ==
    /\ tm[n] = "feedback"
    /\ \E x \in Feedback(n, cur[n].id) :
          /\ Len(send[x].acks) < ChanCap
          /\ send' = [send EXCEPT ![x].acks = Append(@, cur[n].len)]
    /\ tm' = [tm EXCEPT ![n] = "run"]
    /\ cur' = [cur EXCEPT ![n] = None]
    /\ UNCHANGED <<stageVars, exIn, exOut, bufs, nextId, client, asked,
                   delivered>>

(***************************************************************************)
(* IncomingTransfer.NextSegment.                                           *)
(***************************************************************************)
WithSegment(buf, msg) ==
    [data |-> buf.data \o msg.data, end |-> msg.end]

\* The transfers a buffer is a complete serialization of, for ToBundle.
ToBundle(data) == {x \in Transfers : data = Payload(x, 1, Size[x])}

\* IsFinished and ToBundle decide how handle goes on.
AfterSegment(buf) ==
    IF ~buf.end THEN "run"
    ELSE IF ToBundle(buf.data) = {} THEN "error" ELSE "deliver"

HandleSegment(n) ==
    /\ tm[n] = "run"
    /\ exIn[n] # <<>>
    /\ Head(exIn[n]).type = "segment"
    /\ LET msg == Head(exIn[n])
           buf == WithSegment(bufs[n][msg.id], msg)
           ack == [type |-> "ack", id |-> msg.id, len |-> Len(buf.data)]
       IN IF bufs[n][msg.id].end
          THEN /\ tm' = [tm EXCEPT ![n] = "error"]
               /\ UNCHANGED <<bufs, cur, exOut>>
          ELSE /\ bufs' = [bufs EXCEPT ![n][msg.id] = buf]
               /\ cur' = [cur EXCEPT ![n] = ack]
               /\ IF Len(exOut[n]) < ChanCap
                  THEN /\ exOut' = [exOut EXCEPT ![n] = Append(@, ack)]
                       /\ tm' = [tm EXCEPT ![n] = AfterSegment(buf)]
                  ELSE /\ tm' = [tm EXCEPT ![n] = "ack"]
                       /\ UNCHANGED exOut
    /\ exIn' = [exIn EXCEPT ![n] = Tail(@)]
    /\ UNCHANGED <<stageVars, nextId, send, client, asked, delivered>>

\* msgOut <- dam
Acknowledge(n) ==
    /\ tm[n] = "ack"
    /\ Len(exOut[n]) < ChanCap
    /\ exOut' = [exOut EXCEPT ![n] = Append(@, cur[n])]
    /\ tm' = [tm EXCEPT ![n] = AfterSegment(bufs[n][cur[n].id])]
    /\ UNCHANGED <<stageVars, exIn, cur, bufs, nextId, send, client, asked,
                   delivered>>

\* chanBundles is not buffered: Client.handle has to be there.
Deliver(n) ==
    /\ tm[n] = "deliver"
    /\ client[n] = "up"
    /\ delivered' = [delivered EXCEPT ![n] =
                        @ \cup ToBundle(bufs[n][cur[n].id].data)]
    /\ bufs' = [bufs EXCEPT ![n][cur[n].id] = Unused]
    /\ tm' = [tm EXCEPT ![n] = "run"]
    /\ cur' = [cur EXCEPT ![n] = None]
    /\ UNCHANGED <<stageVars, exIn, exOut, nextId, send, client, asked>>

StopTransferManager(n) ==
    /\ tm[n] = "run"
    /\ Closed(n)
    /\ tm' = [tm EXCEPT ![n] = "gone"]
    /\ UNCHANGED <<stageVars, exIn, exOut, cur, bufs, nextId, send, client,
                   asked, delivered>>

-----------------------------------------------------------------------------
\* TransferManager.Send.

(***************************************************************************)
(* The caller got the Client from Manager.Sender(), which lists it until   *)
(* Client.Close has returned; by then transferManager is nil.              *)
(***************************************************************************)
Send(x) ==
    /\ send[x].pc = "idle"
    /\ LET n == Owner[x]
       IN IF client[n] = "down"
          THEN /\ x \in LateCalls
               /\ send' = [send EXCEPT ![x].pc = "panic"]
               /\ UNCHANGED nextId
          ELSE /\ client[n] \in {"up", "closing"}
               /\ nextId[n] \in Ids
               /\ send' = [send EXCEPT ![x].pc = "run", ![x].out = "next",
                                       ![x].id = nextId[n]]
               /\ nextId' = [nextId EXCEPT ![n] = @ + 1]
    /\ UNCHANGED <<stageVars, exIn, exOut, tmVars, client, asked, delivered>>

\* io.ReadFull: where the next segment ends, and whether it is a short one.
SegmentEnd(x) ==
    IF Size[x] - send[x].pos < mtu[Owner[x]] THEN Size[x]
    ELSE send[x].pos + mtu[Owner[x]]

Segment(x) ==
    [type |-> "segment", id |-> send[x].id,
     data |-> Payload(x, send[x].pos + 1, SegmentEnd(x)),
     end |-> Size[x] - send[x].pos < mtu[Owner[x]]]

(***************************************************************************)
(* The sending goroutine: the two stop flags, then OutgoingTransfer's      *)
(* NextSegment, which has an EOF instead of a segment in the end.          *)
(***************************************************************************)
StopSending(x) ==
    /\ send[x].out = "next"
    /\ send[x].stop \/ Closed(Owner[x])
    /\ send' = [send EXCEPT ![x].out = "off", ![x].err = ~send[x].stop]
    /\ UNCHANGED <<stageVars, exIn, exOut, tmVars, nextId, client, asked,
                   delivered>>

EndOfBundle(x) ==
    /\ send[x].out = "next"
    /\ ~send[x].stop /\ ~Closed(Owner[x])
    /\ send[x].pos = Size[x]
    /\ send' = [send EXCEPT ![x].out = "off", ![x].total = send[x].pos]
    /\ UNCHANGED <<stageVars, exIn, exOut, tmVars, nextId, client, asked,
                   delivered>>

NextSegment(x) ==
    LET n == Owner[x]
    IN /\ send[x].out = "next"
       /\ ~send[x].stop /\ ~Closed(n)
       /\ send[x].pos < Size[x]
       /\ IF Len(exOut[n]) < ChanCap
          THEN /\ exOut' = [exOut EXCEPT ![n] = Append(@, Segment(x))]
               /\ send' = [send EXCEPT ![x].pos = SegmentEnd(x)]
          ELSE /\ send' = [send EXCEPT ![x].out = "push"]
               /\ UNCHANGED exOut
       /\ UNCHANGED <<stageVars, exIn, tmVars, nextId, client, asked,
                      delivered>>

\* msgOut <- dtm
PushSegment(x) ==
    LET n == Owner[x]
    IN /\ send[x].out = "push"
       /\ Len(exOut[n]) < ChanCap
       /\ exOut' = [exOut EXCEPT ![n] = Append(@, Segment(x))]
       /\ send' = [send EXCEPT ![x].pos = SegmentEnd(x), ![x].out = "next"]
       /\ UNCHANGED <<stageVars, exIn, tmVars, nextId, client, asked,
                      delivered>>

\* Send returns: nobody looks at its channels and variables any more.
Return(r, pc) == [r EXCEPT !.pc = pc, !.total = None, !.err = FALSE,
                           !.acks = <<>>, !.inLen = 0, !.outLen = 0]

\* The select of Send itself.
ReceiveError(x) ==
    /\ send[x].pc = "run"
    /\ send[x].err
    /\ send' = [send EXCEPT ![x] = Return(send[x], "failed")]
    /\ UNCHANGED <<stageVars, exIn, exOut, tmVars, nextId, client, asked,
                   delivered>>

\* Mutant of ReceiveLength: lenChan is read as soon as the sender is done.
ReceiveNoLength(x) ==
    /\ send[x].pc = "run"
    /\ send[x].out = "off"
    /\ send' = [send EXCEPT ![x].outLen = send[x].total, ![x].total = None]
    /\ UNCHANGED <<stageVars, exIn, exOut, tmVars, nextId, client, asked,
                   delivered>>

ReceiveLength(x) ==
    /\ send[x].pc = "run"
    /\ send[x].total # None
    /\ LET len == send[x].total
       IN send' = [send EXCEPT ![x] =
            IF len = send[x].inLen THEN Return(send[x], "ok")
            ELSE [send[x] EXCEPT !.outLen = len, !.total = None]]
    /\ UNCHANGED <<stageVars, exIn, exOut, tmVars, nextId, client, asked,
                   delivered>>

\* Mutant of ReceiveAck: what was not yet sent is not waited for.
ReceiveAnyAck(x) ==
    /\ send[x].pc = "run"
    /\ send[x].acks # <<>>
    /\ LET len == Head(send[x].acks)
       IN send' = [send EXCEPT ![x] =
            IF send[x].outLen <= len THEN Return(send[x], "ok")
            ELSE [send[x] EXCEPT !.inLen = len, !.acks = Tail(send[x].acks)]]
    /\ UNCHANGED <<stageVars, exIn, exOut, tmVars, nextId, client, asked,
                   delivered>>

ReceiveAck(x) ==
    /\ send[x].pc = "run"
    /\ send[x].acks # <<>>
    /\ LET len == Head(send[x].acks)
       IN send' = [send EXCEPT ![x] =
            IF send[x].outLen = len THEN Return(send[x], "ok")
            ELSE [send[x] EXCEPT !.inLen = len, !.acks = Tail(send[x].acks)]]
    /\ UNCHANGED <<stageVars, exIn, exOut, tmVars, nextId, client, asked,
                   delivered>>

Timeout(x) ==
    /\ send[x].pc = "run"
    /\ send' = [send EXCEPT ![x] =
                    [Return(send[x], "failed") EXCEPT !.stop = TRUE]]
    /\ UNCHANGED <<stageVars, exIn, exOut, tmVars, nextId, client, asked,
                   delivered>>

-----------------------------------------------------------------------------
\* Client.Close and Client.handle.

(***************************************************************************)
(* The deferred function of Client.handle closes the TransferManager and   *)
(* the StageHandler.  The Manager's Close asks for it; ...                 *)
(***************************************************************************)
Close(n) ==
    /\ client[n] = "up"
    /\ asked' = asked \cup {n}
    /\ client' = [client EXCEPT ![n] = "closing"]
    /\ UNCHANGED <<stageVars, exIn, exOut, tmVars, nextId, send, delivered>>

(***************************************************************************)
(* ... or an error of the stage, of the TransferManager or, for an EOF, of *)
(* the MessageSwitch is the reason.                                        *)
(***************************************************************************)
Shutdown(n) ==
    /\ client[n] = "up"
    /\ \/ stage[n] \in {"error", "stalled"} \/ tm[n] = "error"
       \/ client[Peer(n)] = "down"
    /\ client' = [client EXCEPT ![n] = "closing"]
    /\ UNCHANGED <<stageVars, exIn, exOut, tmVars, nextId, send, asked,
                   delivered>>

(***************************************************************************)
(* MessageSwitch.Close and connCloser.Close: what handleOut has not        *)
(* written by then is lost, what is still to be read is not looked at any  *)
(* more.  Finally transferManager is set to nil.                           *)
(***************************************************************************)
Disconnect(n) ==
    /\ client[n] = "closing"
    /\ client' = [client EXCEPT ![n] = "down"]
    /\ \E k \in 0 .. Len(wire[n]) :
          wire' = [wire EXCEPT ![n] = SubSeq(@, 1, k), ![Peer(n)] = <<>>]
    /\ UNCHANGED <<stage, held, mtu, exIn, exOut, tmVars, nextId, send, asked,
                   delivered>>

-----------------------------------------------------------------------------
Next ==
    \/ \E n \in Nodes :
          \/ SendHandshake(n) \/ ReceiveHandshake(n) \/ Start(n)
          \/ HandleMsgIn(n) \/ PassIn(n) \/ MessageOut(n) \/ PassOut(n)
          \/ CloseStage(n) \/ SendTermination(n) \/ HandleKeepalive(n)
          \/ HandleAck(n) \/ PassAck(n)
          \/ HandleSegment(n) \/ Acknowledge(n) \/ Deliver(n)
          \/ StopTransferManager(n) \/ Shutdown(n) \/ Disconnect(n)
    \/ \E x \in Transfers :
          \/ Send(x) \/ NextSegment(x) \/ PushSegment(x)
          \/ EndOfBundle(x) \/ StopSending(x)
          \/ ReceiveError(x) \/ ReceiveLength(x) \/ ReceiveAck(x)
    \/ \E x \in Impatient : Timeout(x)
    \/ \E n \in Closers : Close(n)

Spec == Init /\ [][Next]_vars

-----------------------------------------------------------------------------
(***************************************************************************)
(* A Send that returns without an error means that the peer has the whole  *)
(* bundle with its end flag: handed to its Client or about to be.          *)
(***************************************************************************)
SentIsReceived ==
    \A x \in Transfers :
        LET m == Peer(Owner[x])
        IN send[x].pc = "ok" =>
              \/ x \in delivered[m]
              \/ bufs[m][send[x].id] =
                    [data |-> Payload(x, 1, Size[x]), end |-> TRUE]

(***************************************************************************)
(* Two peers that run this code do not misunderstand each other: a session *)
(* is shut down only if a Manager asked for it, a Send gave up and its     *)
(* acknowledgement came late, or handleKeepalive noticed a stall.          *)
(***************************************************************************)
ShutdownHasReason ==
    \A n \in Nodes :
        Closed(n) => \/ asked # {}
                     \/ \E x \in Transfers : send[x].pc = "failed"
                     \/ \E m \in Nodes : stage[m] = "stalled"

\* The stage waits for TransferManager.handle to empty ExchangeMsgIn, and
\* this goroutine waits for the stage to empty ExchangeMsgOut.
Stuck(n) ==
    /\ stage[n] = "in" /\ Len(exIn[n]) = ChanCap
    /\ tm[n] = "ack" /\ Len(exOut[n]) = ChanCap

(***************************************************************************)
(* handleKeepalive finds a stalled session: the goroutines of at least one *)
(* of the peers are not stuck, so that it gets back to its select.         *)
(***************************************************************************)
StallIsNoticed == ~(Stuck(Active) /\ Stuck(Passive))

(***************************************************************************)
(* A ConvergenceSender may be used concurrently to its own shutdown.       *)
(***************************************************************************)
NoPanic == \A x \in Transfers : send[x].pc # "panic"
=============================================================================
