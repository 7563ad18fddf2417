-------------------------------- MODULE Agents --------------------------------
(***************************************************************************)
(* The application agents of a node (pkg/agent) behind the AgentManager    *)
(* (pkg/routing/agent_manager.go): a PingAgent, a RestAgent with its       *)
(* clients' mailboxes and a WebSocketAgent with its clients.  One MuxAgent *)
(* distributes to the three agents, a second one, inside the WebSocket     *)
(* agent, to its clients.                                                  *)
(*                                                                         *)
(* No channel is buffered: sending and receiving is one step of two        *)
(* goroutines.  A mux holds its lock from the moment it takes a message    *)
(* until every child has it, and asks a child for its endpoints before it  *)
(* sends to it.  AgentManager.Close is never called: only WebSocket        *)
(* clients come and go.  System calls (SyscallRequestMessage) are left     *)
(* out.                                                                    *)
(***************************************************************************)
EXTENDS Naturals, Sequences, FiniteSets, SequencesExt

CONSTANTS
    Bundles, To, ReportTo,      \* bundles, their destination and report-to
    Network, Built, Spoken,     \* those received by the Core, built by a REST
                                \* client, sent by a WebSocket client
    Uuids, RestEid,             \* REST registrations and their endpoints
    WsClients, WsEid,           \* WebSocket connections and their endpoints
    PingEid,
    Fetchers,                   \* concurrent /fetch requests
    None,
    MaxClients                  \* bound: REST clients registered at a time

ASSUME AgentsAssumption ==
    /\ To \in [Bundles -> STRING] /\ ReportTo \in [Bundles -> STRING]
    /\ Network \cup Built \cup Spoken \subseteq Bundles
    /\ WsClients \cap {"ping", "rest", "ws"} = {}
    /\ None \notin Uuids \cup [id : Bundles, pong : BOOLEAN]
    /\ MaxClients \in Nat

\* BundleMessage: a bundle, or the PingAgent's answer to it
Message == [id : Bundles, pong : BOOLEAN]
Bundle(b) == [id |-> b, pong |-> FALSE]
Pong(msg) == [msg EXCEPT !.pong = TRUE]
Recipient(msg) == IF msg.pong THEN ReportTo[msg.id] ELSE To[msg.id]

Agent == {"ping", "rest", "ws"}
Mux == {"manager", "clients"}
Caller == {"core", "agents"}   \* Core.handler and AgentManager.handler

VARIABLES
    unsent,    \* bundles nobody has sent yet
    caller,    \* what Core.handler and AgentManager.handler deliver
    mux,       \* MuxAgent.handle: the message whose lock it holds, children to
               \* go, whether it sends to the first of these
    children,  \* the WebSocket mux's children, in order of registration
    child,     \* MuxAgent.handleChild: the message on its way up, or None
    ping,      \* PingAgent.handler: the bundle it answers, or None
    ws,        \* WebSocketAgent.handler: the message it passes on, or None
    rest,      \* RestAgent.handler: where it is, the message and the uuids it is for
    clients,   \* RestAgent.clients: the registered uuids
    mailboxes, \* RestAgent.mailboxes: uuid -> its mailbox, 0 for none
    box,       \* the mailboxes that were made: the bundles in each
    fetch,     \* handleFetch: the uuid and the mailbox it looked up
    conn,      \* webAgentClient
    owed,      \* what the RestAgent took while this uuid was registered for it
    fetched    \* what /fetch returned to each uuid, in order

restVars == <<rest, clients, mailboxes, box, fetch, owed, fetched>>
muxVars == <<mux, children, child>>
vars == <<unsent, caller, muxVars, ping, ws, restVars, conn>>

Free == [msg |-> None, todo |-> <<>>, sending |-> FALSE]
Waiting == [pc |-> "idle", msg |-> None, uuids |-> {}]

\* webAgentClient: its connection, whether its endpoint is set, what
\* handleReceiver does with which message, what handleConn is about to send
\* and whether its two channels are closed
Offline == [conn |-> "none", known |-> FALSE, rcv |-> "none", msg |-> None,
            out |-> None, sender |-> "open", receiver |-> "open"]

Init ==
    /\ unsent = Network \cup Built \cup Spoken
    /\ caller = [p \in Caller |-> [pc |-> "idle", msg |-> None]]
    /\ mux = [m \in Mux |-> Free]
    /\ children = <<>>
    /\ child = [a \in Agent \cup WsClients |-> None]
    /\ ping = None
    /\ ws = None
    /\ rest = Waiting
    /\ clients = {}
    /\ mailboxes = [u \in Uuids |-> 0]
    /\ box = <<>>
    /\ fetch = [f \in Fetchers |-> [uuid |-> None, box |-> 0]]
    /\ conn = [w \in WsClients |-> Offline]
    /\ owed = [u \in Uuids |-> {}]
    /\ fetched = [u \in Uuids |-> <<>>]

-----------------------------------------------------------------------------
(* Endpoints                                                               *)

Locked(m) == mux[m].msg # None

\* RestAgent.Endpoints and the Range of receiveBundleMessage stop at the first
\* client of a map without order.
FirstClient == IF clients = {} THEN {{}} ELSE {{u} : u \in clients}
RestEndpoints(first) == {RestEid[u] : u \in first}

WsEndpoints == {WsEid[w] : w \in {x \in Range(children) : conn[x].known}}

\* MuxAgent.Endpoints of the AgentManager's mux
MuxEndpoints(first) == {PingEid} \cup RestEndpoints(first) \cup WsEndpoints

-----------------------------------------------------------------------------
(* Core.handler and AgentManager                                           *)

\* A bundle from another node is to be delivered.
Receive(b) ==
    /\ caller["core"].pc = "idle" /\ b \in unsent \cap Network
    /\ unsent' = unsent \ {b}
    /\ caller' = [caller EXCEPT !["core"] = [pc |-> "check", msg |-> Bundle(b)]]
    /\ UNCHANGED <<muxVars, ping, ws, restVars, conn>>

\* AgentManager.handler takes a bundle of an agent and calls SendBundle.
HandleMessage(a) ==
    /\ caller["agents"].pc = "idle" /\ child[a] # None
    /\ caller' = [caller EXCEPT !["agents"] = [pc |-> "check", msg |-> child[a]]]
    /\ child' = [child EXCEPT ![a] = None]
    /\ UNCHANGED <<unsent, mux, children, ping, ws, restVars, conn>>

\* AgentManager.HasEndpoint needs the locks of both muxes.  A bundle for
\* nobody here is forwarded or rejected.
HasEndpoint(p) ==
    /\ caller[p].pc = "check" /\ ~Locked("manager") /\ ~Locked("clients")
    /\ \E first \in FirstClient :
          caller' = [caller EXCEPT ![p] =
                        IF Recipient(@.msg) \in MuxEndpoints(first)
                        THEN [@ EXCEPT !.pc = "deliver"]
                        ELSE [pc |-> "idle", msg |-> None]]
    /\ UNCHANGED <<unsent, muxVars, ping, ws, restVars, conn>>

\* The end of AgentManager.Deliver: mux.MessageReceiver() <- msg
Deliver(p) ==
    /\ caller[p].pc = "deliver" /\ ~Locked("manager")
    /\ mux' = [mux EXCEPT !["manager"] = [msg |-> caller[p].msg, todo |-> <<"ping", "rest", "ws">>, sending |-> FALSE]]
    /\ caller' = [caller EXCEPT ![p] = [pc |-> "idle", msg |-> None]]
    /\ UNCHANGED <<unsent, children, child, ping, ws, restVars, conn>>

-----------------------------------------------------------------------------
(* MuxAgent                                                                *)

\* What AppAgentContainsEndpoint may say of a child: the RestAgent's answer
\* depends on the client its Range meets first.
ContainsEndpoint(c, to) ==
    IF c = "ping" THEN {to = PingEid}
    ELSE IF c = "rest" THEN {(to \in RestEndpoints(first)) : first \in FirstClient}
    ELSE IF c = "ws" THEN {to \in WsEndpoints}
    ELSE {conn[c].known /\ to = WsEid[c]}

\* handle's loop asks the next child for its endpoints: the WebSocket agent's
\* are those of its mux, under that mux's lock.
Ask(m) ==
    /\ Locked(m) /\ mux[m].todo # <<>> /\ ~mux[m].sending
    /\ Head(mux[m].todo) = "ws" => ~Locked("clients")
    /\ \E yes \in ContainsEndpoint(Head(mux[m].todo), Recipient(mux[m].msg)) :
          mux' = IF yes THEN [mux EXCEPT ![m].sending = TRUE]
                 ELSE [mux EXCEPT ![m].todo = Tail(@)]
    /\ UNCHANGED <<unsent, caller, children, child, ping, ws, restVars, conn>>

\* child.MessageReceiver() <- msg: waits for the child
Hand(m) ==
    /\ mux[m].sending
    /\ LET c == Head(mux[m].todo)
           msg == mux[m].msg
       IN \/ /\ c = "ping" /\ ping = None
             /\ ping' = msg
             /\ UNCHANGED <<ws, restVars, conn>>
          \/ /\ c = "rest" /\ rest.pc = "idle"
             /\ rest' = [pc |-> "range", msg |-> msg, uuids |-> {}]
             /\ UNCHANGED <<ping, ws, conn, clients, mailboxes, box, fetch, owed, fetched>>
          \/ /\ c = "ws" /\ ws = None
             /\ ws' = msg
             /\ UNCHANGED <<ping, restVars, conn>>
          \/ /\ c \in WsClients /\ conn[c].rcv = "read"
             /\ conn' = [conn EXCEPT ![c].rcv = "write", ![c].msg = msg]
             /\ UNCHANGED <<ping, ws, restVars>>
    /\ mux' = [mux EXCEPT ![m].todo = Tail(@), ![m].sending = FALSE]
    /\ UNCHANGED <<unsent, caller, children, child>>

\* The lock is released.
Unlock(m) ==
    /\ Locked(m) /\ mux[m].todo = <<>>
    /\ mux' = [mux EXCEPT ![m] = Free]
    /\ UNCHANGED <<unsent, caller, children, child, ping, ws, restVars, conn>>

\* handleChild of a WebSocket client: its mux's sender is the WebSocket
\* agent's, which the handleChild of that agent reads.
HandleChild(w) ==
    /\ child[w] # None /\ child["ws"] = None
    /\ child' = [child EXCEPT ![w] = None, !["ws"] = child[w]]
    /\ UNCHANGED <<unsent, caller, mux, children, ping, ws, restVars, conn>>

\* unregister's loop: the slice without the first occurrence of the client
Cut(w) ==
    \/ \E i \in 1..Len(children) :
          /\ children[i] = w /\ \A j \in 1..(i - 1) : children[j] # w
          /\ children' = RemoveAt(children, i)
    \/ w \notin Range(children) /\ UNCHANGED children

\* A mutant: unregister does not take the mux's lock.
UnregisterUnlocked(w) ==
    /\ conn[w].sender = "closed" /\ conn[w].receiver = "open" /\ child[w] = None
    /\ Cut(w)
    /\ conn' = [conn EXCEPT ![w].receiver = "closed",
                            ![w].rcv = IF @ = "read" THEN "ended" ELSE @]
    /\ UNCHANGED <<unsent, caller, mux, child, ping, ws, restVars>>

\* unregister, once the client's sender is closed and empty
Unregister(w) ==
    /\ conn[w].sender = "closed" /\ conn[w].receiver = "open" /\ child[w] = None
    /\ ~Locked("clients")
    /\ Cut(w)
    /\ conn' = [conn EXCEPT ![w].receiver = "closed",
                            ![w].rcv = IF @ = "read" THEN "ended" ELSE @]
    /\ UNCHANGED <<unsent, caller, mux, child, ping, ws, restVars>>

-----------------------------------------------------------------------------
(* PingAgent and WebSocketAgent                                            *)

\* ackBundle sends the answer before the next message is read.
AckBundle ==
    /\ ping # None /\ child["ping"] = None
    /\ child' = [child EXCEPT !["ping"] = Pong(ping)]
    /\ ping' = None
    /\ UNCHANGED <<unsent, caller, mux, children, ws, restVars, conn>>

\* WebSocketAgent.handler: clientMux.MessageReceiver() <- msg
WsHandler ==
    /\ ws # None /\ ~Locked("clients")
    /\ mux' = [mux EXCEPT !["clients"] = [msg |-> ws, todo |-> children, sending |-> FALSE]]
    /\ ws' = None
    /\ UNCHANGED <<unsent, caller, children, child, ping, restVars, conn>>

\* A mutant: a client that is connected is registered again.
ServeAgain(w) ==
    /\ conn[w].conn \in {"none", "open"} /\ ~Locked("clients") /\ Len(children) < 3
    /\ children' = Append(children, w)
    /\ conn' = [conn EXCEPT ![w].conn = "open", ![w].rcv = "read"]
    /\ UNCHANGED <<unsent, caller, mux, child, ping, ws, restVars>>

\* MuxAgent.Register, under the lock
Register(w) ==
    /\ ~Locked("clients")
    /\ children' = Append(children, w)

\* ServeHTTP registers a new client with the mux.
ServeHTTP(w) ==
    /\ conn[w].conn = "none" /\ Register(w)
    /\ conn' = [conn EXCEPT ![w].conn = "open", ![w].rcv = "read"]
    /\ UNCHANGED <<unsent, caller, mux, child, ping, ws, restVars>>

\* handleConn: a registration sets the endpoint ...
HandleIncomingRegister(w) ==
    /\ conn[w].conn = "open" /\ conn[w].out = None /\ ~conn[w].known
    /\ conn' = [conn EXCEPT ![w].known = TRUE]
    /\ UNCHANGED <<unsent, caller, muxVars, ping, ws, restVars>>

\* ... a bundle is read ...
HandleConn(w, b) ==
    /\ conn[w].conn = "open" /\ conn[w].out = None
    /\ b \in unsent \cap Spoken
    /\ unsent' = unsent \ {b}
    /\ conn' = [conn EXCEPT ![w].out = Bundle(b)]
    /\ UNCHANGED <<caller, muxVars, ping, ws, restVars>>

\* ... and sent.  The send panics if handleReceiver has closed the sender:
\* net/http recovers from it and the bundle is lost.
Speak(w) ==
    /\ conn[w].out # None
    /\ \/ /\ conn[w].sender = "open" /\ child[w] = None
          /\ child' = [child EXCEPT ![w] = conn[w].out]
       \/ conn[w].sender = "closed" /\ UNCHANGED child
    /\ conn' = [conn EXCEPT ![w].out = None]
    /\ UNCHANGED <<unsent, caller, mux, children, ping, ws, restVars>>

\* ... and an error ends it in shutdown.
Shutdown(w) ==
    /\ conn[w].conn = "down" /\ conn[w].out = None /\ conn[w].sender = "open"
    /\ conn' = [conn EXCEPT ![w].sender = "closed"]
    /\ UNCHANGED <<unsent, caller, muxVars, ping, ws, restVars>>

\* handleReceiver writes the bundle to the connection.  An error ends it in
\* shutdown, and so does a closed receiver.
HandleReceiver(w) ==
    /\ conn[w].rcv = "write"
    /\ \E goesOn \in BOOLEAN :
          /\ goesOn => conn[w].conn = "open" /\ conn[w].receiver = "open"
          /\ conn' = [conn EXCEPT ![w].msg = None,
                                  ![w].rcv = IF goesOn THEN "read" ELSE "ended",
                                  ![w].conn = IF goesOn THEN @ ELSE "down",
                                  ![w].sender = IF goesOn THEN @ ELSE "closed"]
    /\ UNCHANGED <<unsent, caller, muxVars, ping, ws, restVars>>

\* The connection is lost, or ended by what the client sent: a message that
\* is not understood, a second registration.
Disconnect(w) ==
    /\ conn[w].conn = "open"
    /\ conn' = [conn EXCEPT ![w].conn = "down"]
    /\ UNCHANGED <<unsent, caller, muxVars, ping, ws, restVars>>

-----------------------------------------------------------------------------
(* RestAgent                                                               *)

\* A mutant: the endpoint is not compared.
RangeUnchecked ==
    /\ rest.pc = "range"
    /\ \E first \in FirstClient : rest' = [rest EXCEPT !.pc = "store", !.uuids = first]
    /\ owed' = [u \in Uuids |-> IF u \in clients THEN owed[u] \cup {rest.msg} ELSE owed[u]]
    /\ UNCHANGED <<unsent, caller, muxVars, ping, ws, conn, clients, mailboxes, box, fetch, fetched>>

\* receiveBundleMessage's Range over the clients
RangeClients ==
    /\ rest.pc = "range"
    /\ \E first \in FirstClient :
          rest' = [rest EXCEPT !.pc = "store",
                               !.uuids = {u \in first : RestEid[u] = Recipient(rest.msg)}]
    /\ owed' = [u \in Uuids |-> IF u \in clients /\ RestEid[u] = Recipient(rest.msg)
                                THEN owed[u] \cup {rest.msg} ELSE owed[u]]
    /\ UNCHANGED <<unsent, caller, muxVars, ping, ws, conn, clients, mailboxes, box, fetch, fetched>>

\* A mutant: every bundle gets a new mailbox.
ReceiveIntoNew ==
    /\ rest.pc = "store"
    /\ \/ rest.uuids = {} /\ UNCHANGED <<box, mailboxes>>
       \/ \E u \in rest.uuids :
             /\ box' = Append(box, {rest.msg})
             /\ mailboxes' = [mailboxes EXCEPT ![u] = Len(box) + 1]
    /\ rest' = Waiting
    /\ UNCHANGED <<unsent, caller, muxVars, ping, ws, conn, clients, fetch, owed, fetched>>

\* The end of receiveBundleMessage, under mailboxMutex
ReceiveBundleMessage ==
    LET new == {u \in rest.uuids : mailboxes[u] = 0}
    IN /\ rest.pc = "store"
       /\ \/ /\ new = {}
             /\ box' = [i \in DOMAIN box |->
                           IF \E u \in rest.uuids : mailboxes[u] = i
                           THEN box[i] \cup {rest.msg} ELSE box[i]]
             /\ UNCHANGED mailboxes
          \/ \E u \in new :
                /\ box' = Append(box, {rest.msg})
                /\ mailboxes' = [mailboxes EXCEPT ![u] = Len(box) + 1]
       /\ rest' = Waiting
       /\ UNCHANGED <<unsent, caller, muxVars, ping, ws, conn, clients, fetch, owed, fetched>>

\* handleRegister and handleUnregister; a uuid is used once.
HandleRegister(u) ==
    /\ u \notin clients /\ fetched[u] = <<>> /\ owed[u] = {}
    /\ Cardinality(clients) < MaxClients
    /\ clients' = clients \cup {u}
    /\ UNCHANGED <<unsent, caller, muxVars, ping, ws, conn, rest, mailboxes, box, fetch, owed, fetched>>

HandleUnregister(u) ==
    /\ u \in clients
    /\ clients' = clients \ {u}
    /\ mailboxes' = [mailboxes EXCEPT ![u] = 0]
    /\ UNCHANGED <<unsent, caller, muxVars, ping, ws, conn, rest, box, fetch, owed, fetched>>

\* handleFetch looks the mailbox up without the mutex ...
FetchLookup(f, u) ==
    /\ fetch[f].uuid = None /\ mailboxes[u] # 0
    /\ fetch' = [fetch EXCEPT ![f] = [uuid |-> u, box |-> mailboxes[u]]]
    /\ UNCHANGED <<unsent, caller, muxVars, ping, ws, conn, rest, clients, mailboxes, box, owed, fetched>>

\* ... and empties it with the mutex.
FetchTake(f) ==
    LET u == fetch[f].uuid
    IN /\ u # None
       /\ fetched' = [fetched EXCEPT ![u] = @ \o SetToSeq(box[fetch[f].box])]
       /\ mailboxes' = [mailboxes EXCEPT ![u] = 0]
       /\ fetch' = [fetch EXCEPT ![f] = [uuid |-> None, box |-> 0]]
       /\ UNCHANGED <<unsent, caller, muxVars, ping, ws, conn, rest, clients, box, owed>>

\* handleBuild sends the client's bundle.
HandleBuild(b) ==
    /\ b \in unsent \cap Built /\ clients # {} /\ child["rest"] = None
    /\ unsent' = unsent \ {b}
    /\ child' = [child EXCEPT !["rest"] = Bundle(b)]
    /\ UNCHANGED <<caller, mux, children, ping, ws, restVars, conn>>

-----------------------------------------------------------------------------
Distribute(m) == Ask(m) \/ Hand(m) \/ Unlock(m)
Converse(w) == HandleChild(w) \/ Unregister(w)
Listen(w) == Speak(w) \/ Shutdown(w)
RestHandler == RangeClients \/ ReceiveBundleMessage
Call(p) == HasEndpoint(p) \/ Deliver(p)

Next ==
    \/ \E b \in Bundles : Receive(b) \/ HandleBuild(b)
    \/ \E a \in Agent : HandleMessage(a)
    \/ \E p \in Caller : Call(p)
    \/ \E m \in Mux : Distribute(m)
    \/ AckBundle \/ WsHandler \/ RestHandler
    \/ \E w \in WsClients :
          \/ Converse(w) \/ Listen(w) \/ HandleReceiver(w)
          \/ ServeHTTP(w) \/ HandleIncomingRegister(w) \/ Disconnect(w)
          \/ \E b \in Bundles : HandleConn(w, b)
    \/ \E u \in Uuids :
          \/ HandleRegister(u) \/ HandleUnregister(u)
          \/ \E f \in Fetchers : FetchLookup(f, u)
    \/ \E f \in Fetchers : FetchTake(f)

Spec == Init /\ [][Next]_vars

\* Every goroutine that can go on is scheduled.
FairSpec ==
    /\ Spec
    /\ \A p \in Caller : WF_vars(Call(p))
    /\ WF_vars(\E a \in Agent : HandleMessage(a))
    /\ \A m \in Mux : WF_vars(Distribute(m))
    /\ WF_vars(AckBundle) /\ WF_vars(WsHandler) /\ WF_vars(RestHandler)
    /\ \A w \in WsClients : WF_vars(Converse(w)) /\ WF_vars(Listen(w)) /\ WF_vars(HandleReceiver(w))

-----------------------------------------------------------------------------
(* Properties                                                              *)

\* Every variable has its type.
TypeOK ==
    /\ unsent \subseteq Bundles
    /\ caller \in [Caller -> [pc : {"idle", "check", "deliver"}, msg : Message \cup {None}]]
    /\ mux \in [Mux -> [msg : Message \cup {None}, todo : Seq(Agent \cup WsClients),
                       sending : BOOLEAN]]
    /\ children \in Seq(WsClients) /\ IsInjective(children)
    /\ child \in [Agent \cup WsClients -> Message \cup {None}]
    /\ {ping, ws} \subseteq Message \cup {None}
    /\ rest \in [pc : {"idle", "range", "store"}, msg : Message \cup {None}, uuids : SUBSET Uuids]
    /\ clients \subseteq Uuids
    /\ box \in Seq(SUBSET Message)
    /\ mailboxes \in [Uuids -> 0..Len(box)]
    /\ fetch \in [Fetchers -> [uuid : Uuids \cup {None}, box : 0..Len(box)]]
    /\ conn \in [WsClients -> [conn : {"none", "open", "down"}, known : BOOLEAN,
                               rcv : {"none", "read", "write", "ended"}, msg : Message \cup {None},
                               out : Message \cup {None}, sender : {"open", "closed"}, receiver : {"open", "closed"}]]
    /\ owed \in [Uuids -> SUBSET Message]
    /\ fetched \in [Uuids -> Seq(Message)]

\* What the RestAgent took for a registered client is with its handler, in
\* the client's mailbox or was fetched, and in one of these places only: a
\* /fetch that overlaps with a delivery neither loses a bundle nor returns
\* one twice.
RetrievedOnce ==
    \A u \in clients :
        LET here == IF u \in rest.uuids THEN {rest.msg} ELSE {}
            inbox == IF mailboxes[u] = 0 THEN {} ELSE box[mailboxes[u]]
        IN /\ owed[u] = here \cup inbox \cup Range(fetched[u])
           /\ here \cap inbox = {}
           /\ Range(fetched[u]) \cap (here \cup inbox) = {}
           /\ IsInjective(fetched[u])

\* A /fetch returns only bundles for the endpoint that its client registered:
\* the mailbox that was looked up without the mutex is that client's, although
\* clients come and go and bundles arrive before it is emptied.
FetchedIsOwn ==
    \A u \in Uuids : \A msg \in Range(fetched[u]) : Recipient(msg) = RestEid[u]

\* A mux never sends to a child whose receiver its unregister has closed,
\* which would panic: clients may shut down while a message is distributed.
NeverSendsOnClosed ==
    \A w \in Range(mux["clients"].todo) : conn[w].receiver = "open"

\* handleConn never sends on the sender that handleReceiver has closed.  It
\* may: the two share the channel and shutdown takes no lock.
NeverSpeaksOnClosed ==
    \A w \in WsClients : conn[w].out # None => conn[w].sender = "open"

\* "If this ApplicationAgent closes its channel or broadcasts a
\* ShutdownMessage, it will be unregistered."  (src/pkg/agent/mux_agent.go:54)
ShutdownIsUnregistered ==
    \A w \in WsClients : conn[w].sender = "closed" ~> conn[w].receiver = "closed"
=============================================================================
