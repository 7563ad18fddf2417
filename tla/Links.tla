-------------------------------- MODULE Links --------------------------------
(***************************************************************************)
(* The CLA Manager of a node (pkg/cla) with the MTCP clients and servers   *)
(* it supervises (pkg/cla/mtcp).                                           *)
(*                                                                         *)
(* Each goroutine is a process: the Manager's handler, the handler of each *)
(* convergenceElem, the handler of each MTCPClient and the accept loop of  *)
(* each MTCPServer, the Core's handler, which reads the Manager's channel, *)
(* the goroutines that Send, and those that Register: discovery has one    *)
(* for every announcement.  A step ends where a goroutine may wait for     *)
(* another one, and before each access to Manager.convs or an element's    *)
(* ttl that others may have changed meanwhile.  The channels of CLAs and   *)
(* outChnl are not buffered: sending and receiving is one step.            *)
(*                                                                         *)
(* No lock spans a registration, so that a CLA that runs may be started a  *)
(* second time, which replaces the channels its goroutine uses.  The CLA   *)
(* is not followed any further then.                                       *)
(***************************************************************************)
EXTENDS Integers, Sequences, FiniteSets

CONSTANTS
    Convs,       \* the instances of MTCPClient and MTCPServer
    Servers,     \* those that are servers
    Permanent,   \* those whose IsPermanent is true
    Address,     \* Convs -> their addresses
    Endpoint,    \* Convs -> GetEndpointID of a server, the client's peer
    Senders,     \* goroutines that call Send, the Core's handler among them
    Discoverers, \* goroutines that call Register: discovery's and the main one
    QueueTtl,    \* NewManager: attempts to start a CLA, 10 in the code
    InCap,       \* NewManager: capacity of inChnl, 100 in the code
    None,
    MaxDowns,    \* bound: how often peers become unreachable
    MaxSends,    \* bound: Send calls of each goroutine
    MaxBundles,  \* bound: bundles that servers receive
    MaxRegisters \* bound: Register calls of discovery and the main goroutine

Core == "core"
Mgr == "manager"
Registrars == Discoverers \cup {Mgr}
Clients == Convs \ Servers
Addresses == {Address[c] : c \in Convs}

ASSUME LinksAssumption ==
    /\ Servers \subseteq Convs /\ Permanent \subseteq Convs
    /\ Address \in [Convs -> Addresses]
    /\ Core \in Senders /\ None \notin Convs /\ Mgr \notin Discoverers
    /\ QueueTtl \in Nat \ {0} /\ InCap \in Nat \ {0}
    /\ {MaxDowns, MaxSends, MaxBundles, MaxRegisters} \subseteq Nat

VARIABLES
    convs,    \* Manager.convs: address -> the CLA of the stored element, or None
    ttl,      \* convergenceElem.ttl: negative for an active element
    elem,     \* convergenceElem.handler: where it is, what it forwards, and
              \* whether its stopSyn is closed
    cla,      \* the CLA's own goroutine, whether its stopSyn is closed, its
              \* connection, and whether writing to it has failed
    mutex,    \* MTCPClient.mutex: the goroutine in Send that holds it, or None
    inChnl,   \* Manager.inChnl
    mgr,      \* Manager.handler: where it is, its message, what is left to do
    reg,      \* each goroutine that registers: where it is, for Register or
              \* for the ticker's retry, and its CLA, then that of its element
    send,     \* each goroutine that sends: where it is, and to which client
    view,     \* what the Core was told last about each CLA
    closing,  \* Manager.stopFlag and stopSyn
    reach,    \* the addresses of peers that can be dialled
    count,    \* the bounded events so far
    contested \* what no step reads: the addresses that two goroutines were
              \* registering, unregistering or restarting at the same time

links == <<convs, ttl, elem, cla>>
surroundings == <<reach, count>>
vars == <<links, mutex, inChnl, mgr, reg, send, view, closing, surroundings, contested>>

Appeared(c) == [type |-> "appeared", cla |-> c]
Disappeared(c) == [type |-> "disappeared", cla |-> c]
Received(c) == [type |-> "received", cla |-> c]
Status == [type : {"appeared", "disappeared", "received"}, cla : Convs]

Active(c) == ttl[c] < 0
Stored(c) == convs[Address[c]] = c

Waiting == [pc |-> "select", msg |-> None, todo |-> {}]
Resting == [pc |-> "idle", to |-> None]
NoJob == [pc |-> "idle", job |-> None, cla |-> None]

Init ==
    /\ convs = [a \in Addresses |-> None]
    /\ ttl = [c \in Convs |-> QueueTtl]
    /\ elem = [c \in Convs |-> [pc |-> "none", msg |-> None, stop |-> FALSE]]
    /\ cla = [c \in Convs |-> [pc |-> "none", stop |-> FALSE, conn |-> "none", failed |-> FALSE]]
    /\ mutex = [c \in Convs |-> None]
    /\ inChnl = <<>>
    /\ mgr = Waiting
    /\ reg = [g \in Registrars |-> NoJob]
    /\ send = [s \in Senders |-> Resting]
    /\ view = [c \in Convs |-> None]
    /\ closing = "no"
    /\ reach = Addresses
    /\ count = [downs |-> 0, bundles |-> 0, registers |-> 0, sends |-> [s \in Senders |-> 0]]
    /\ contested = {}

-----------------------------------------------------------------------------
(* Starting a CLA                                                          *)

\* A mutant: a client that is started again does not introduce itself.
StartedSilently(c) == [pc |-> "run", stop |-> FALSE, conn |-> "up", failed |-> FALSE]

\* MTCPClient.Start and MTCPServer.Start: new goroutine, connection and
\* channels; the client introduces itself first.
Started(c) ==
    [pc |-> CASE cla[c].pc # "none" -> "twice"
              [] c \in Servers -> "run"
              [] OTHER -> "hello",
     stop |-> FALSE, conn |-> "up", failed |-> FALSE]

\* What activate may come to: a server's address may be in use, or it cannot
\* be resolved, which is the one error that asks for no retry.
Results(c) ==
    CASE ttl[c] = 0 /\ c \notin Permanent -> {"expired"}
      [] c \in Servers -> {"up", "retry", "never"}
      [] Address[c] \in reach -> {"up"}
      [] OTHER -> {"retry"}

\* convergenceElem.activate once it has the element's mutex; for a permanent
\* CLA ttl may count down to -1.
activate(c, result) ==
    /\ result \in Results(c)
    /\ ttl' = [ttl EXCEPT ![c] = CASE result = "up" -> -1
                                   [] result = "retry" -> @ - 1
                                   [] OTHER -> 0]
    /\ elem' = IF result = "up"
               THEN [elem EXCEPT ![c] = [pc |-> "select", msg |-> None, stop |-> FALSE]]
               ELSE elem
    /\ cla' = IF result = "up" THEN [cla EXCEPT ![c] = Started(c)] ELSE cla

-----------------------------------------------------------------------------
(* Registering: steps of goroutine g in Manager.Register, and of the       *)
(* Manager's handler in the retry of its ticker                            *)

\* Those that are registering, unregistering or restarting a CLA of address a
InHand(a) ==
    {g \in Registrars : reg[g].pc # "idle" /\ Address[reg[g].cla] = a} \cup
    {g \in {Mgr} : mgr.pc \in {"await", "delete", "register"} /\ Address[mgr.msg.cla] = a}

Enter(g, a) == contested' = IF InHand(a) \subseteq {g} THEN contested ELSE contested \cup {a}

Goto(g, r) == reg' = [reg EXCEPT ![g] = r]

\* Manager.Register of a CLA, when the Manager is not stopped
RegisterCla(g, c) ==
    /\ Goto(g, [pc |-> "load", job |-> "register", cla |-> c])
    /\ Enter(g, Address[c])

\* An instance that has not been started before
Fresh(c) ==
    /\ ~Stored(c) /\ cla[c].conn = "none"
    /\ \A g \in Registrars : reg[g].cla # c

\* A configured CLA, or one that discovery has just created
Register(g, c) ==
    /\ reg[g].pc = "idle" /\ Fresh(c) /\ closing = "no" /\ count.registers < MaxRegisters
    /\ RegisterCla(g, c)
    /\ count' = [count EXCEPT !.registers = @ + 1]
    /\ UNCHANGED <<links, mutex, inChnl, mgr, send, view, closing, reach>>

\* A mutant: an element of the same address is not looked up.
RegLoadUnchecked(g) ==
    /\ reg[g].pc = "load"
    /\ Goto(g, [reg[g] EXCEPT !.pc = "check"])
    /\ UNCHANGED <<links, mutex, inChnl, mgr, send, view, closing, surroundings, contested>>

\* registerConvergence looks its address up: a known element is started
\* again, even for another instance; a new one has a fresh ttl.
RegLoad(g) ==
    LET c == reg[g].cla
        known == convs[Address[c]]
    IN /\ reg[g].pc = "load"
       /\ \/ /\ known # None /\ Active(known)
             /\ Goto(g, NoJob)
             /\ UNCHANGED ttl
          \/ /\ known # None /\ ~Active(known)
             /\ Goto(g, [reg[g] EXCEPT !.pc = "check", !.cla = known])
             /\ UNCHANGED ttl
          \/ /\ known = None
             /\ Goto(g, [reg[g] EXCEPT !.pc = "check"])
             /\ ttl' = [ttl EXCEPT ![c] = QueueTtl]
       /\ UNCHANGED <<convs, elem, cla, mutex, inChnl, mgr, send, view, closing,
                      surroundings, contested>>

\* The receivers that Manager.Receiver lists
Receivers == {r \in Servers : Stored(r) /\ Active(r)}

\* The comparison with the receivers, and activate's isActive before it takes
\* the element's mutex.  The ticker deletes what it finds active here.
RegCheck(g) ==
    LET c == reg[g].cla
        known == \E r \in Receivers : c \in Clients /\ Endpoint[r] = Endpoint[c]
    IN /\ reg[g].pc = "check"
       /\ Goto(g, CASE reg[g].job = "register" /\ (known \/ Active(c)) -> NoJob
                    [] reg[g].job = "retry" /\ Active(c) -> [reg[g] EXCEPT !.pc = "delete"]
                    [] OTHER -> [reg[g] EXCEPT !.pc = "start"])
       /\ UNCHANGED <<links, mutex, inChnl, mgr, send, view, closing, surroundings, contested>>

\* The rest of activate, while deactivate does not hold the element's mutex
RegStart(g) ==
    LET c == reg[g].cla
    IN /\ reg[g].pc = "start" /\ ~(mgr.pc = "await" /\ mgr.msg.cla = c)
       /\ \E result \in {"up", "retry", "never", "expired"} :
             /\ activate(c, result)
             /\ Goto(g, CASE reg[g].job = "register" /\ result \in {"up", "retry"} ->
                               [reg[g] EXCEPT !.pc = "store"]
                          [] reg[g].job = "retry" /\ result \in {"never", "expired"} ->
                               [reg[g] EXCEPT !.pc = "delete"]
                          [] OTHER -> NoJob)
       /\ UNCHANGED <<convs, mutex, inChnl, mgr, send, view, closing, surroundings, contested>>

\* convs.Store and the ticker's convs.Delete
RegStore(g) ==
    LET c == reg[g].cla
    IN /\ \/ reg[g].pc = "store" /\ convs' = [convs EXCEPT ![Address[c]] = c]
          \/ reg[g].pc = "delete" /\ convs' = [convs EXCEPT ![Address[c]] = None]
       /\ Goto(g, NoJob)
       /\ UNCHANGED <<ttl, elem, cla, mutex, inChnl, mgr, send, view, closing,
                      surroundings, contested>>

-----------------------------------------------------------------------------
(* The Manager's handler                                                   *)

\* Where the handler is, unless it is registering
MgrAt(pc) == mgr.pc = pc /\ reg[Mgr].pc = "idle"

\* Manager.unregisterConvergence of the stored instance, up to the wait for
\* the element's handler; next is where the Manager goes on afterwards.
\* Closing stopSyn again, or that of an element that never ran, panics.
unregisterConvergence(c, next) ==
    \/ /\ Active(c)
       /\ mgr' = [next EXCEPT !.pc = IF elem[c].pc = "none" THEN "panic" ELSE "await",
                              !.msg = Disappeared(c)]
       /\ elem' = [elem EXCEPT ![c].stop = TRUE]
    \/ /\ ~Active(c)
       /\ mgr' = [next EXCEPT !.pc = "delete", !.msg = Disappeared(c)]
       /\ UNCHANGED elem

\* A message: PeerDisappeared starts with Restart's Unregister, which leaves
\* another instance alone.
MgrTake ==
    /\ MgrAt("select") /\ inChnl # <<>>
    /\ inChnl' = Tail(inChnl)
    /\ LET cs == Head(inChnl)
           next(pc) == [pc |-> pc, msg |-> cs, todo |-> {}]
           gone == cs.type = "disappeared"
       IN /\ IF gone /\ Stored(cs.cla)
             THEN unregisterConvergence(cs.cla, next("await"))
             ELSE mgr' = next(IF gone THEN "register" ELSE "forward") /\ UNCHANGED elem
          /\ IF gone THEN Enter(Mgr, Address[cs.cla]) ELSE UNCHANGED contested
    /\ UNCHANGED <<convs, ttl, cla, mutex, reg, send, view, closing, surroundings>>

\* deactivate's wait for stopAck, and its ttl for the element
MgrAwait ==
    LET c == mgr.msg.cla
    IN /\ MgrAt("await") /\ elem[c].pc = "none"
       /\ ttl' = [ttl EXCEPT ![c] = QueueTtl]
       /\ mgr' = [mgr EXCEPT !.pc = "delete"]
       /\ UNCHANGED <<convs, elem, cla, mutex, inChnl, reg, send, view, closing,
                      surroundings, contested>>

\* The end of unregisterConvergence
MgrDelete ==
    /\ MgrAt("delete")
    /\ convs' = [convs EXCEPT ![Address[mgr.msg.cla]] = None]
    /\ mgr' = [mgr EXCEPT !.pc = IF closing = "range" THEN "range" ELSE "register"]
    /\ UNCHANGED <<ttl, elem, cla, mutex, inChnl, reg, send, view, closing,
                   surroundings, contested>>

\* Restart's Register
MgrRegister ==
    /\ MgrAt("register")
    /\ mgr' = [mgr EXCEPT !.pc = "forward"]
    /\ IF closing = "no" THEN RegisterCla(Mgr, mgr.msg.cla) ELSE UNCHANGED <<reg, contested>>
    /\ UNCHANGED <<links, mutex, inChnl, send, view, closing, surroundings>>

\* outChnl <- cs, read by Core.handler between two of its tasks
MgrForward ==
    /\ MgrAt("forward")
    /\ send[Core].pc = "idle" /\ closing = "no"
    /\ view' = [view EXCEPT ![mgr.msg.cla] = mgr.msg.type]
    /\ mgr' = Waiting
    /\ UNCHANGED <<links, mutex, inChnl, reg, send, closing, surroundings, contested>>

\* The ticker: each element that is not active is started again or removed.
MgrTick ==
    /\ MgrAt("select")
    /\ \E a \in Addresses : convs[a] # None /\ ~Active(convs[a])
    /\ mgr' = [Waiting EXCEPT !.pc = "tick",
                   !.todo = {a \in Addresses : convs[a] # None /\ ~Active(convs[a])}]
    /\ UNCHANGED <<links, mutex, inChnl, reg, send, view, closing, surroundings, contested>>

MgrActivate ==
    /\ MgrAt("tick")
    /\ \E a \in mgr.todo :
          /\ mgr' = IF mgr.todo = {a} THEN Waiting ELSE [mgr EXCEPT !.todo = @ \ {a}]
          /\ IF convs[a] # None /\ ~Active(convs[a])
             THEN /\ Goto(Mgr, [pc |-> "check", job |-> "retry", cla |-> convs[a]])
                  /\ Enter(Mgr, a)
             ELSE UNCHANGED <<reg, contested>>
    /\ UNCHANGED <<links, mutex, inChnl, send, view, closing, surroundings>>

\* stopSyn: every stored CLA is unregistered, and perhaps some that are
\* stored meanwhile, then the channels are closed.
MgrStop ==
    /\ MgrAt("select") /\ closing = "asked"
    /\ closing' = "range"
    /\ \E later \in SUBSET {a \in Addresses : convs[a] = None} :
          mgr' = [Waiting EXCEPT !.pc = "range",
                      !.todo = later \cup {a \in Addresses : convs[a] # None}]
    /\ UNCHANGED <<links, mutex, inChnl, reg, send, view, surroundings, contested>>

MgrRange ==
    /\ MgrAt("range")
    /\ \/ /\ \E a \in mgr.todo :
                LET next == [mgr EXCEPT !.todo = @ \ {a}]
                IN \/ convs[a] # None /\ unregisterConvergence(convs[a], next) /\ Enter(Mgr, a)
                   \/ convs[a] = None /\ mgr' = next /\ UNCHANGED <<elem, contested>>
          /\ UNCHANGED <<inChnl, closing>>
       \/ /\ mgr.todo = {}
          /\ mgr' = [mgr EXCEPT !.pc = "ended"]
          /\ closing' = "done"
          /\ inChnl' = <<>>
          /\ UNCHANGED <<elem, contested>>
    /\ UNCHANGED <<convs, ttl, cla, mutex, reg, send, view, surroundings>>

\* Core.handler reads its stopSyn, calls Manager.Close and waits.
CoreClose ==
    /\ closing = "no" /\ send[Core].pc = "idle"
    /\ closing' = "asked"
    /\ UNCHANGED <<links, mutex, inChnl, mgr, reg, send, view, surroundings, contested>>

-----------------------------------------------------------------------------
(* An element's handler                                                    *)

\* A mutant: inChnl has no limit.
ElemForwardUnbounded(c) ==
    /\ elem[c].pc = "forward"
    /\ inChnl' = Append(inChnl, elem[c].msg)
    /\ elem' = [elem EXCEPT ![c].pc = "select", ![c].msg = None]
    /\ UNCHANGED <<convs, ttl, cla, mutex, mgr, reg, send, view, closing, surroundings, contested>>

\* ce.convChnl <- cs, which panics when the Manager has closed the channel
ElemForward(c) ==
    /\ elem[c].pc = "forward"
    /\ \/ /\ closing # "done" /\ Len(inChnl) < InCap
          /\ inChnl' = Append(inChnl, elem[c].msg)
          /\ elem' = [elem EXCEPT ![c].pc = "select", ![c].msg = None]
       \/ /\ closing = "done"
          /\ elem' = [elem EXCEPT ![c].pc = "panic"]
          /\ UNCHANGED inChnl
    /\ UNCHANGED <<convs, ttl, cla, mutex, mgr, reg, send, view, closing, surroundings, contested>>

\* stopSyn: the CLA's Close closes the CLA's stopSyn.
ElemStop(c) ==
    /\ elem[c].pc = "select" /\ elem[c].stop
    /\ elem' = [elem EXCEPT ![c].pc = "closing"]
    /\ cla' = [cla EXCEPT ![c].stop = TRUE]
    /\ UNCHANGED <<convs, ttl, mutex, inChnl, mgr, reg, send, view, closing,
                   surroundings, contested>>

\* Close returns with the CLA's stopAck.
ElemAck(c) ==
    /\ elem[c].pc = "closing" /\ cla[c].pc \in {"none", "twice"}
    /\ elem' = [elem EXCEPT ![c].pc = "none", ![c].stop = FALSE]
    /\ UNCHANGED <<convs, ttl, cla, mutex, inChnl, mgr, reg, send, view, closing,
                   surroundings, contested>>

\* A message on the CLA's channel; the handler waits for it in its select.
Report(c, cs) ==
    /\ elem[c].pc = "select"
    /\ elem' = [elem EXCEPT ![c].pc = "forward", ![c].msg = cs]

-----------------------------------------------------------------------------
(* MTCPClient and MTCPServer                                               *)

\* The messages of MTCPClient.handler and of the server's handleSender
ClaReport(c) ==
    /\ \/ cla[c].pc = "hello" /\ Report(c, Appeared(c))
       \/ cla[c].pc = "report" /\ c \in Clients /\ Report(c, Disappeared(c))
       \/ cla[c].pc = "report" /\ c \in Servers /\ Report(c, Received(c))
    /\ cla' = [cla EXCEPT ![c].pc = "run"]
    /\ UNCHANGED <<convs, ttl, mutex, inChnl, mgr, reg, send, view, closing,
                   surroundings, contested>>

\* stopSyn; the server's accept loop does not wait for handleSender, which
\* recovers from its closed channel.
ClaStop(c) ==
    /\ cla[c].stop
    /\ cla[c].pc = "run" \/ (c \in Servers /\ cla[c].pc = "report")
    /\ cla' = [cla EXCEPT ![c].pc = "none", ![c].stop = FALSE, ![c].conn = "closed"]
    /\ UNCHANGED <<convs, ttl, elem, mutex, inChnl, mgr, reg, send, view, closing,
                   surroundings, contested>>

\* The client's ticker writes an empty packet under the mutex.  Only a broken
\* connection makes a difference.
Keepalive(c) ==
    /\ c \in Clients /\ cla[c].pc = "run" /\ mutex[c] = None
    /\ cla[c].conn = "broken"
    /\ cla' = [cla EXCEPT ![c].pc = "report", ![c].failed = TRUE]
    /\ UNCHANGED <<convs, ttl, elem, mutex, inChnl, mgr, reg, send, view, closing,
                   surroundings, contested>>

\* handleSender has read a bundle.
Incoming(c) ==
    /\ c \in Servers /\ cla[c].pc = "run" /\ count.bundles < MaxBundles
    /\ cla' = [cla EXCEPT ![c].pc = "report"]
    /\ count' = [count EXCEPT !.bundles = @ + 1]
    /\ UNCHANGED <<convs, ttl, elem, mutex, inChnl, mgr, reg, send, view, closing, reach,
                   contested>>

\* What writing to the client's connection does: a broken one may still take
\* the data.
Writable(c) == cla[c].conn \in {"up", "broken"}
Erring(c) == cla[c].conn \in {"broken", "closed"}
WriteFails(c) == cla' = IF cla[c].conn = "broken" THEN [cla EXCEPT ![c].failed = TRUE] ELSE cla

\* MTCPClient.Send to a client of Manager.Sender: length, bundle and Flush
\* under the mutex
SendChoose(s) ==
    /\ send[s].pc = "idle" /\ count.sends[s] < MaxSends
    /\ s = Core => closing = "no"
    /\ \E c \in Clients :
          /\ Stored(c) /\ Active(c)
          /\ send' = [send EXCEPT ![s] = [pc |-> "lock", to |-> c]]
    /\ count' = [count EXCEPT !.sends[s] = @ + 1]
    /\ UNCHANGED <<links, mutex, inChnl, mgr, reg, view, closing, reach, contested>>

SendWrite(s) ==
    LET c == send[s].to
    IN /\ send[s].pc = "lock" /\ mutex[c] = None
       /\ \/ /\ Writable(c)
             /\ mutex' = [mutex EXCEPT ![c] = s]
             /\ send' = [send EXCEPT ![s].pc = "probe"]
             /\ UNCHANGED cla
          \/ /\ Erring(c) /\ WriteFails(c)
             /\ send' = [send EXCEPT ![s].pc = "report"]
             /\ UNCHANGED mutex
          \/ /\ cla[c].conn = "none"
             /\ send' = [send EXCEPT ![s] = Resting]
             /\ UNCHANGED <<cla, mutex>>
       /\ UNCHANGED <<convs, ttl, elem, inChnl, mgr, reg, view, closing, surroundings, contested>>

\* The empty packet that follows goes to the connection of that moment.
SendProbe(s) ==
    LET c == send[s].to
    IN /\ send[s].pc = "probe"
       /\ mutex' = [mutex EXCEPT ![c] = None]
       /\ \/ /\ Writable(c)
             /\ send' = [send EXCEPT ![s] = Resting]
             /\ UNCHANGED cla
          \/ /\ Erring(c) /\ WriteFails(c)
             /\ send' = [send EXCEPT ![s].pc = "report"]
       /\ UNCHANGED <<convs, ttl, elem, inChnl, mgr, reg, view, closing, surroundings, contested>>

\* A mutant: a report the handler does not wait for is dropped.
SendReportOrDrop(s) ==
    LET c == send[s].to
    IN /\ send[s].pc = "report"
       /\ \/ cla[c].pc # "none" /\ Report(c, Disappeared(c))
          \/ (cla[c].pc = "none" \/ elem[c].pc # "select") /\ UNCHANGED elem
       /\ send' = [send EXCEPT ![s] = Resting]
       /\ UNCHANGED <<convs, ttl, cla, mutex, inChnl, mgr, reg, view, closing,
                      surroundings, contested>>

\* An error is reported after the mutex is free; a closed channel panics,
\* which Send recovers from.
SendReport(s) ==
    LET c == send[s].to
    IN /\ send[s].pc = "report"
       /\ \/ cla[c].pc # "none" /\ Report(c, Disappeared(c))
          \/ cla[c].pc = "none" /\ UNCHANGED elem
       /\ send' = [send EXCEPT ![s] = Resting]
       /\ UNCHANGED <<convs, ttl, cla, mutex, inChnl, mgr, reg, view, closing,
                      surroundings, contested>>

-----------------------------------------------------------------------------
(* The environment                                                         *)

\* A peer becomes unreachable, which breaks the connections to it.
PeerDown(a) ==
    /\ a \in reach /\ count.downs < MaxDowns
    /\ reach' = reach \ {a}
    /\ count' = [count EXCEPT !.downs = @ + 1]
    /\ cla' = [c \in Convs |->
                  IF c \in Clients /\ Address[c] = a /\ cla[c].conn = "up"
                  THEN [cla[c] EXCEPT !.conn = "broken"] ELSE cla[c]]
    /\ UNCHANGED <<convs, ttl, elem, mutex, inChnl, mgr, reg, send, view, closing, contested>>

PeerUp(a) ==
    /\ a \notin reach
    /\ reach' = reach \cup {a}
    /\ UNCHANGED <<links, mutex, inChnl, mgr, reg, send, view, closing, count, contested>>

Manage ==
    \/ MgrTake \/ MgrAwait \/ MgrDelete \/ MgrRegister \/ MgrForward
    \/ MgrTick \/ MgrActivate \/ MgrStop \/ MgrRange
Registration(g) == RegLoad(g) \/ RegCheck(g) \/ RegStart(g) \/ RegStore(g)
Supervise(c) == ElemForward(c) \/ ElemStop(c) \/ ElemAck(c)
Serve(c) == ClaReport(c) \/ ClaStop(c) \/ Keepalive(c)
Transmit(s) == SendWrite(s) \/ SendProbe(s) \/ SendReport(s)

Next ==
    \/ Manage \/ CoreClose
    \/ \E c \in Convs : Supervise(c) \/ Serve(c) \/ Incoming(c)
    \/ \E g \in Discoverers, c \in Convs : Register(g, c)
    \/ \E g \in Registrars : Registration(g)
    \/ \E s \in Senders : SendChoose(s) \/ Transmit(s)
    \/ \E a \in {Address[c] : c \in Clients} : PeerDown(a) \/ PeerUp(a)

Spec == Init /\ [][Next]_vars

\* Every goroutine that can go on is scheduled.
FairSpec ==
    /\ Spec
    /\ WF_vars(Manage)
    /\ \A g \in Registrars : WF_vars(Registration(g))
    /\ \A c \in Convs : WF_vars(Supervise(c)) /\ WF_vars(Serve(c))
    /\ \A s \in Senders : WF_vars(Transmit(s))

-----------------------------------------------------------------------------
(* Properties                                                              *)

\* Every variable has its type.  A permanent CLA's ttl has no lower limit.
TypeOK ==
    /\ convs \in [Addresses -> Convs \cup {None}]
    /\ ttl \in [Convs -> Int] /\ \A c \in Convs : ttl[c] <= QueueTtl
    /\ elem \in [Convs -> [pc : {"none", "select", "forward", "closing", "panic"},
                           msg : Status \cup {None}, stop : BOOLEAN]]
    /\ cla \in [Convs -> [pc : {"none", "hello", "run", "report", "twice"}, stop : BOOLEAN,
                          conn : {"none", "up", "broken", "closed"}, failed : BOOLEAN]]
    /\ mutex \in [Convs -> Senders \cup {None}]
    /\ inChnl \in Seq(Status) /\ Len(inChnl) <= InCap
    /\ mgr \in [pc : {"select", "await", "delete", "register", "forward", "tick", "range",
                      "ended", "panic"},
                msg : Status \cup {None}, todo : SUBSET Addresses]
    /\ reg \in [Registrars -> [pc : {"idle", "load", "check", "start", "store", "delete"},
                               job : {"register", "retry", None}, cla : Convs \cup {None}]]
    /\ send \in [Senders -> [pc : {"idle", "lock", "probe", "report"}, to : Clients \cup {None}]]
    /\ view \in [Convs -> {"appeared", "disappeared", "received", None}]
    /\ closing \in {"no", "asked", "range", "done"}
    /\ reach \subseteq Addresses /\ contested \subseteq Addresses
    /\ count \in [downs : 0..MaxDowns, bundles : 0..MaxBundles, registers : 0..MaxRegisters,
                  sends : [Senders -> 0..MaxSends]]

Running(c) == elem[c].pc # "none" \/ cla[c].pc # "none"
Contested(c) == Address[c] \in contested

\* A CLA whose goroutines run counts as active and is stored in the Manager,
\* or is about to be: it can be closed, and no other CLA is opened to its
\* address.  This is so as long as no two goroutines register and unregister
\* CLAs of one address at a time.
RunningIsSupervised ==
    \A c \in Convs : Running(c) /\ ~Contested(c) =>
        /\ Active(c)
        /\ Stored(c) \/ \E g \in Registrars : reg[g].pc = "store" /\ reg[g].cla = c

\* The same without this condition, which nothing in the code ensures
RunningIsStored ==
    \A c \in Convs : Running(c) =>
        \/ Stored(c)
        \/ \E g \in Registrars : reg[g].pc = "store" /\ reg[g].cla = c

\* Nothing is under way that concerns c
Quiet(c) ==
    /\ MgrAt("select") /\ inChnl = <<>>
    /\ elem[c].pc = "select" /\ cla[c].pc = "run"
    /\ \A s \in Senders : send[s] # [pc |-> "report", to |-> c]

\* However restarts, failed sends and keepalives overlap, a client that runs
\* undisturbed was announced to the Core, and not taken back since: without
\* it, pending bundles for this peer are not dispatched.
RunningIsAnnounced ==
    \A c \in Clients : Quiet(c) /\ ~Contested(c) => view[c] = "appeared"

\* A client whose connection failed in Send or in its keepalive does not go
\* on with this connection: one report got through to a restart.
FailedIsRestarted ==
    \A c \in Clients : Quiet(c) /\ ~Contested(c) => ~cla[c].failed

\* When Manager.Close has returned, nothing is left that could send to its
\* closed inChnl or use a connection.  A registration that began before Close
\* may come after it.
ClosedIsQuiet ==
    closing = "done" => \A c \in Convs : elem[c].pc = "none" /\ cla[c].pc = "none"

\* "Close the Manager and all supervised CLAs."  (src/pkg/cla/manager.go:161)
\* Close waits for this, and so does Core.Close.
CloseReturns == closing = "asked" ~> closing = "done"
=============================================================================
