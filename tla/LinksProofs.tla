---------------------------- MODULE LinksProofs ----------------------------
(***************************************************************************)
(* The safety properties of Links, for any number of CLAs, addresses,      *)
(* goroutines that send or register, capacities and restarts.              *)
(***************************************************************************)
EXTENDS Links, TLAPS

\* What an element's handler forwards: clients never report a bundle.
Messages == {m \in Status : m.type = "received" => m.cla \in Servers}

\* m waits in the Manager's channel.
Queued(m) == \E i \in 1..Len(inChnl) : inChnl[i] = m

\* unregisterConvergence waits for the handler of c.
Awaits(c) == mgr.pc = "await" /\ mgr.msg.cla = c

ElemRec == [pc : {"none", "select", "forward", "closing", "panic"},
            msg : Status \cup {None}, stop : BOOLEAN]
ClaRec == [pc : {"none", "hello", "run", "report", "twice"}, stop : BOOLEAN,
           conn : {"none", "up", "broken", "closed"}, failed : BOOLEAN]
SendRec == [pc : {"idle", "lock", "probe", "report"}, to : Clients \cup {None}]
RegRec == [pc : {"idle", "load", "check", "start", "store", "delete"},
           job : {"register", "retry", None}, cla : Convs \cup {None}]
MgrRec == [pc : {"select", "await", "delete", "register", "forward", "tick", "range",
                 "ended", "panic"},
           msg : Status \cup {None}, todo : SUBSET Addresses]
CountRec == [downs : 0..MaxDowns, bundles : 0..MaxBundles, registers : 0..MaxRegisters,
             sends : [Senders -> 0..MaxSends]]

(***************************************************************************)
(* Each goroutine holds what its next step needs.                          *)
(***************************************************************************)
HoldInv ==
    /\ inChnl \in Seq(Messages)
    /\ mgr.pc \in {"await", "delete", "register", "forward"} => mgr.msg \in Messages
    /\ \A c \in Convs :
          elem[c].pc = "forward" => elem[c].msg \in Messages /\ elem[c].msg.cla = c
    /\ \A s \in Senders : send[s].pc # "idle" => send[s].to \in Clients
    /\ \A g \in Registrars :
          reg[g].pc # "idle" => reg[g].cla \in Convs /\ reg[g].job \in {"register", "retry"}
    /\ reg[Mgr].pc # "idle" => mgr.pc \in {"select", "tick", "forward"}
    /\ closing = "done" => mgr.pc = "ended"

\* An element is stored under its own address.
StoreInv == \A a \in Addresses : convs[a] # None => Address[convs[a]] = a

\* g is registering a CLA of address a; the Manager is restarting one or
\* closing it; no element of a runs.
Busy(g, a) == reg[g].pc # "idle" /\ Address[reg[g].cla] = a
Restarting(a) == mgr.pc \in {"await", "delete", "register"} /\ Address[mgr.msg.cla] = a
Free(a) == \A d \in Convs : Address[d] = a => elem[d].pc = "none"

\* One goroutine at a time has an address that is not contested in hand.
CalmInv ==
    \A a \in Addresses : a \notin contested =>
        /\ \A g, h \in Registrars : Busy(g, a) /\ Busy(h, a) => g = h
        /\ \A g \in Registrars : ~(Busy(g, a) /\ Restarting(a))

\* Until it is started, a CLA that is being registered is the only one of its
\* address; until it is deleted from the Manager, so is one that is closed.
RegInv ==
    /\ \A g \in Registrars : reg[g].pc # "idle" /\ ~Contested(reg[g].cla) =>
          /\ reg[g].pc # "load" => convs[Address[reg[g].cla]] \in {None, reg[g].cla}
          /\ reg[g].job = "retry" => reg[g].pc # "load" /\ convs[Address[reg[g].cla]] = reg[g].cla
          /\ reg[g].pc \in {"check", "start", "delete"} => Free(Address[reg[g].cla])
          /\ reg[g].pc = "store" =>
                \A d \in Convs \ {reg[g].cla} :
                    Address[d] = Address[reg[g].cla] => elem[d].pc = "none"
    /\ mgr.pc = "await" /\ ~Contested(mgr.msg.cla) => Stored(mgr.msg.cla)
    /\ mgr.pc = "delete" /\ ~Contested(mgr.msg.cla) => Free(Address[mgr.msg.cla])

\* A registration is about to store c.
Storing(c) == \E g \in Registrars : reg[g].pc = "store" /\ reg[g].cla = c

\* A CLA's goroutine does not outlive its element's handler, and the handler
\* runs while the element is active, and stored or about to be.
RunInv ==
    \A c \in Convs : ~Contested(c) =>
        /\ cla[c].pc # "none" => elem[c].pc # "none"
        /\ cla[c].pc # "twice"
        /\ elem[c].pc # "none" => Active(c) /\ (Stored(c) \/ Storing(c))

\* Only the element that unregisterConvergence waits for is asked to stop.
StopInv ==
    \A c \in Convs : ~Contested(c) =>
        /\ elem[c].pc = "closing" => elem[c].stop
        /\ elem[c].stop => (Awaits(c) /\ elem[c].pc # "none") \/ mgr.pc = "panic"

\* A report of the failed connection of c is on its way, or it has arrived.
FailureNoticed(c) ==
    \/ cla[c].pc = "report" \/ elem[c].stop \/ closing = "done"
    \/ \E s \in Senders : send[s].pc = "report" /\ send[s].to = c
    \/ elem[c].pc = "forward" /\ elem[c].msg = Disappeared(c)
    \/ Queued(Disappeared(c))

FailInv ==
    \A c \in Clients :
        ~Contested(c) /\ cla[c].pc # "none" /\ cla[c].failed => FailureNoticed(c)

\* The Core has heard of c, or it will.
Announced(c) ==
    \/ cla[c].pc = "hello" \/ elem[c].stop \/ closing = "done"
    \/ elem[c].pc = "forward"
    \/ Queued(Appeared(c)) \/ Queued(Disappeared(c))
    \/ mgr.pc = "forward" /\ mgr.msg = Appeared(c)
    \/ /\ view[c] = "appeared"
       /\ mgr.pc \in {"await", "delete", "register", "forward"} => mgr.msg # Disappeared(c)

AnnounceInv == \A c \in Clients : ~Contested(c) /\ elem[c].pc # "none" => Announced(c)

IInv ==
    /\ TypeOK /\ HoldInv /\ StoreInv /\ CalmInv /\ RegInv /\ RunInv /\ StopInv
    /\ FailInv /\ AnnounceInv

USE DEF links, surroundings, CountRec
-----------------------------------------------------------------------------
(* The Manager's channel                                                   *)

\* The message that the Manager takes is the only one that leaves the channel.
LEMMA QueueTail ==
    ASSUME inChnl \in Seq(Messages), inChnl # <<>>, inChnl' = Tail(inChnl)
    PROVE  /\ Head(inChnl) \in Messages
           /\ inChnl' \in Seq(Messages)
           /\ Len(inChnl') = Len(inChnl) - 1
           /\ \A m : Queued(m) => m = Head(inChnl) \/ Queued(m)'
<1>1. /\ Len(inChnl) \in Nat /\ Len(inChnl) # 0
      /\ Head(inChnl) = inChnl[1] /\ inChnl[1] \in Messages
      /\ Tail(inChnl) \in Seq(Messages) /\ Len(Tail(inChnl)) = Len(inChnl) - 1
      /\ \A i \in 1..Len(inChnl) - 1 : Tail(inChnl)[i] = inChnl[i + 1]
  OBVIOUS
<1>2. ASSUME NEW m, NEW i \in 1..Len(inChnl), inChnl[i] = m, i # 1 PROVE Queued(m)'
  <2>1. i - 1 \in 1..Len(inChnl') /\ inChnl'[i - 1] = m
    BY <1>1, <1>2
  <2> QED
    BY <2>1 DEF Queued
<1> QED
  BY <1>1, <1>2 DEF Queued

\* Forwarding a message loses no other one.
LEMMA QueueAppend ==
    ASSUME inChnl \in Seq(Messages), NEW x \in Messages, inChnl' = Append(inChnl, x)
    PROVE  /\ inChnl' \in Seq(Messages)
           /\ Len(inChnl') = Len(inChnl) + 1
           /\ Queued(x)'
           /\ \A m : Queued(m) => Queued(m)'
<1>1. /\ Len(inChnl) \in Nat
      /\ inChnl' \in Seq(Messages) /\ Len(inChnl') = Len(inChnl) + 1
      /\ inChnl'[Len(inChnl) + 1] = x
      /\ \A i \in 1..Len(inChnl) : inChnl'[i] = inChnl[i]
  OBVIOUS
<1> QED
  BY <1>1 DEF Queued

LEMMA QueueSame == ASSUME inChnl' = inChnl PROVE \A m : Queued(m)' <=> Queued(m)
BY DEF Queued

LEMMA MessageType ==
    /\ Messages \subseteq Status
    /\ \A c \in Convs : Appeared(c) \in Messages /\ Disappeared(c) \in Messages
    /\ \A c \in Servers : Received(c) \in Messages
    /\ \A c \in Clients, m \in Messages : m.cla = c => m = Appeared(c) \/ m = Disappeared(c)
    /\ \A m \in Messages : m.cla \in Convs /\ m.type \in {"appeared", "disappeared", "received"}
    /\ \A c \in Convs : Appeared(c) # Disappeared(c)
    /\ \A c \in Convs : Disappeared(c).cla = c /\ Appeared(c).cla = c /\ Received(c).cla = c
BY LinksAssumption DEF Messages, Status, Appeared, Disappeared, Received, Clients

LEMMA AddressType ==
    /\ \A c \in Convs : Address[c] \in Addresses
    /\ Clients \subseteq Convs /\ Servers \subseteq Convs /\ None \notin Convs
BY LinksAssumption DEF Addresses, Clients

LEMMA InitInv == Init => IInv
<1> SUFFICES ASSUME Init PROVE IInv
  OBVIOUS
<1> USE LinksAssumption, AddressType
<1>1. TypeOK
  BY DEF Init, TypeOK, Waiting, Resting, NoJob
<1>2. HoldInv /\ StoreInv /\ RunInv /\ StopInv
  BY DEF Init, HoldInv, StoreInv, RunInv, StopInv, Waiting, Resting, NoJob, Registrars,
         Stored, Active
<1>3. CalmInv /\ RegInv
  BY DEF Init, CalmInv, RegInv, Busy, Restarting, Waiting, NoJob
<1>4. FailInv /\ AnnounceInv
  BY DEF Init, FailInv, AnnounceInv
<1> QED
  BY <1>1, <1>2, <1>3, <1>4 DEF IInv

-----------------------------------------------------------------------------
(* One step writes the record of one goroutine.                            *)

LEMMA RecordTypes ==
    ASSUME TypeOK
    PROVE /\ cla \in [Convs -> ClaRec] /\ elem \in [Convs -> ElemRec]
          /\ send \in [Senders -> SendRec]
          /\ \A c \in Convs : cla[c] \in ClaRec /\ elem[c] \in ElemRec
          /\ \A s \in Senders : send[s] \in SendRec
BY DEF TypeOK, ClaRec, ElemRec, SendRec

LEMMA ClaUpdate ==
    ASSUME TypeOK, NEW x \in Convs, NEW r \in ClaRec, cla' = [cla EXCEPT ![x] = r]
    PROVE  /\ cla' \in [Convs -> ClaRec] /\ cla'[x] = r
           /\ \A c \in Convs \ {x} : cla'[c] = cla[c]
BY RecordTypes

LEMMA ElemUpdate ==
    ASSUME TypeOK, NEW x \in Convs, NEW r \in ElemRec, elem' = [elem EXCEPT ![x] = r]
    PROVE  /\ elem' \in [Convs -> ElemRec] /\ elem'[x] = r
           /\ \A c \in Convs \ {x} : elem'[c] = elem[c]
BY RecordTypes

LEMMA SendUpdate ==
    ASSUME TypeOK, NEW t \in Senders, NEW r \in SendRec, send' = [send EXCEPT ![t] = r]
    PROVE  /\ send' \in [Senders -> SendRec] /\ send'[t] = r
           /\ \A s \in Senders \ {t} : send'[s] = send[s]
BY RecordTypes

\* The element's handler takes a message while it waits in its select.
LEMMA ReportEffect ==
    ASSUME TypeOK, NEW x \in Convs, NEW m \in Messages, Report(x, m)
    PROVE  /\ elem' \in [Convs -> ElemRec]
           /\ elem[x].pc = "select" /\ elem'[x].pc = "forward"
           /\ elem'[x].msg = m /\ elem'[x].stop = elem[x].stop
           /\ \A c \in Convs \ {x} : elem'[c] = elem[c]
<1> DEFINE r == [elem[x] EXCEPT !.pc = "forward", !.msg = m]
<1>1. elem[x] \in ElemRec /\ m \in Status
  BY RecordTypes, MessageType
<1>2. r \in ElemRec /\ r.pc = "forward" /\ r.msg = m /\ r.stop = elem[x].stop
  BY <1>1 DEF ElemRec
<1>3. elem' = [elem EXCEPT ![x] = r] /\ elem[x].pc = "select"
  BY DEF Report
<1> HIDE DEF r
<1> QED
  BY <1>2, <1>3, ElemUpdate

\* A failed write marks the connection and does not stop the goroutine.
LEMMA WriteFailsEffect ==
    ASSUME TypeOK, NEW x \in Convs, WriteFails(x)
    PROVE  /\ cla' \in [Convs -> ClaRec]
           /\ \A c \in Convs : /\ cla'[c].pc = cla[c].pc
                               /\ cla'[c].failed => cla[c].failed \/ c = x
<1>1. CASE cla[x].conn = "broken"
  <2> DEFINE r == [cla[x] EXCEPT !.failed = TRUE]
  <2>1. r \in ClaRec /\ r.pc = cla[x].pc
    BY RecordTypes DEF ClaRec
  <2>2. cla' = [cla EXCEPT ![x] = r]
    BY <1>1 DEF WriteFails
  <2>3. /\ cla' \in [Convs -> ClaRec] /\ cla'[x] = r
        /\ \A c \in Convs \ {x} : cla'[c] = cla[c]
    BY <2>1, <2>2, ClaUpdate
  <2> HIDE DEF r
  <2> QED
    BY <2>1, <2>3
<1>2. CASE cla[x].conn # "broken"
  BY <1>2, RecordTypes DEF WriteFails
<1> QED
  BY <1>1, <1>2

-----------------------------------------------------------------------------
(* The goroutines that send                                                *)

\* A step of a goroutine that sends keeps everything but its own record, the
\* mutex and the marks of failed connections.
LEMMA SenderFrame ==
    ASSUME IInv, NEW t \in Senders,
           cla' \in [Convs -> ClaRec], \A c \in Convs : cla'[c].pc = cla[c].pc,
           send' \in [Senders -> SendRec],
           \A s \in Senders \ {t} : send'[s] = send[s],
           send'[t].pc # "idle" => send'[t].to \in Clients,
           UNCHANGED <<convs, ttl, elem, inChnl, mgr, reg, view, closing, reach, contested>>,
           \A c \in Clients : cla[c].pc # "none" /\ cla'[c].failed /\ ~cla[c].failed =>
                                  send'[t].pc = "report" /\ send'[t].to = c,
           send[t].pc # "report",
           mutex' \in [Convs -> Senders \cup {None}],
           count' \in CountRec
    PROVE  IInv'
<1> USE AddressType DEF IInv
<1>1. TypeOK'
  BY DEF TypeOK, ClaRec, SendRec, CountRec
<1>2. HoldInv'
  BY DEF HoldInv
<1>3. StoreInv' /\ RunInv' /\ StopInv'
  BY DEF StoreInv, RunInv, StopInv, Stored, Storing, Active, Awaits, Contested
<1>4. CalmInv' /\ RegInv'
  BY DEF CalmInv, RegInv, Busy, Restarting, Free, Contested, Stored
<1>5. FailInv'
  BY QueueSame DEF FailInv, FailureNoticed, Contested
<1>6. AnnounceInv'
  BY QueueSame DEF AnnounceInv, Announced, Contested
<1> QED
  BY <1>1, <1>2, <1>3, <1>4, <1>5, <1>6

LEMMA SendChooseInv == ASSUME IInv, NEW t \in Senders, SendChoose(t) PROVE IInv'
<1> USE DEF SendChoose
<1>1. /\ count.sends \in [Senders -> 0..MaxSends] /\ count.sends[t] \in 0..(MaxSends - 1)
      /\ MaxSends \in Nat
  BY LinksAssumption DEF TypeOK, IInv
<1>2. count' \in CountRec
  <2> DEFINE f == [count.sends EXCEPT ![t] = @ + 1]
  <2>1. f \in [Senders -> 0..MaxSends]
    BY <1>1
  <2>2. count' = [count EXCEPT !.sends = f]
    OBVIOUS
  <2> QED
    BY <2>1, <2>2 DEF TypeOK, IInv
<1>3. PICK c \in Clients : send' = [send EXCEPT ![t] = [pc |-> "lock", to |-> c]]
  OBVIOUS
<1>4. [pc |-> "lock", to |-> c] \in SendRec
  BY DEF SendRec
<1>5. /\ send' \in [Senders -> SendRec] /\ send'[t] = [pc |-> "lock", to |-> c]
      /\ \A s \in Senders \ {t} : send'[s] = send[s]
  BY <1>3, <1>4, SendUpdate DEF IInv
<1>6. mutex' \in [Convs -> Senders \cup {None}] /\ cla' \in [Convs -> ClaRec]
  BY RecordTypes DEF IInv, TypeOK
<1> QED
  BY <1>2, <1>5, <1>6, SenderFrame

LEMMA SendWriteInv == ASSUME IInv, NEW t \in Senders, SendWrite(t) PROVE IInv'
<1> USE DEF SendWrite
<1> DEFINE c == send[t].to
<1>1. c \in Clients /\ c \in Convs /\ send[t] \in SendRec
  BY RecordTypes, AddressType DEF IInv, HoldInv
<1>2. /\ mutex' \in [Convs -> Senders \cup {None}]
      /\ count' \in CountRec
  <2>1. mutex' = mutex \/ mutex' = [mutex EXCEPT ![c] = t]
    OBVIOUS
  <2>2. mutex \in [Convs -> Senders \cup {None}]
    BY DEF IInv, TypeOK
  <2>3. mutex' \in [Convs -> Senders \cup {None}]
    BY <2>1, <2>2
  <2> QED
    BY <2>3 DEF IInv, TypeOK
<1>3. ASSUME NEW p \in {"probe", "report"}, send' = [send EXCEPT ![t].pc = p]
      PROVE  /\ send' \in [Senders -> SendRec]
             /\ send'[t].pc = p /\ send'[t].to = c
             /\ \A s \in Senders \ {t} : send'[s] = send[s]
  <2> DEFINE r == [send[t] EXCEPT !.pc = p]
  <2>1. r \in SendRec /\ r.pc = p /\ r.to = c
    BY <1>1 DEF SendRec
  <2>2. send' = [send EXCEPT ![t] = r]
    BY <1>3
  <2> HIDE DEF r
  <2> QED
    BY <2>1, <2>2, SendUpdate DEF IInv
<1>4. CASE Writable(c) /\ send' = [send EXCEPT ![t].pc = "probe"] /\ UNCHANGED cla
  BY <1>1, <1>2, <1>3, <1>4, RecordTypes, SenderFrame DEF IInv
<1>5. CASE Erring(c) /\ WriteFails(c) /\ send' = [send EXCEPT ![t].pc = "report"]
  BY <1>1, <1>2, <1>3, <1>5, WriteFailsEffect, AddressType, SenderFrame DEF IInv
<1>6. CASE send' = [send EXCEPT ![t] = Resting] /\ UNCHANGED cla
  <2>1. Resting \in SendRec /\ Resting.pc = "idle"
    BY DEF Resting, SendRec
  <2> QED
    BY <1>1, <1>2, <1>6, <2>1, RecordTypes, SendUpdate, SenderFrame DEF IInv
<1> QED
  BY <1>4, <1>5, <1>6

LEMMA SendProbeInv == ASSUME IInv, NEW t \in Senders, SendProbe(t) PROVE IInv'
<1> USE DEF SendProbe
<1> DEFINE c == send[t].to
<1>1. c \in Clients /\ c \in Convs /\ send[t] \in SendRec
  BY RecordTypes, AddressType DEF IInv, HoldInv
<1>2. /\ mutex' \in [Convs -> Senders \cup {None}]
      /\ count' \in CountRec
  <2>1. mutex \in [Convs -> Senders \cup {None}] /\ mutex' = [mutex EXCEPT ![c] = None]
    BY DEF IInv, TypeOK
  <2>2. mutex' \in [Convs -> Senders \cup {None}]
    BY <2>1
  <2> QED
    BY <2>2 DEF IInv, TypeOK
<1>3. CASE send' = [send EXCEPT ![t] = Resting] /\ UNCHANGED cla
  <2>1. Resting \in SendRec /\ Resting.pc = "idle"
    BY DEF Resting, SendRec
  <2> QED
    BY <1>1, <1>2, <1>3, <2>1, RecordTypes, SendUpdate, SenderFrame DEF IInv
<1>4. CASE WriteFails(c) /\ send' = [send EXCEPT ![t].pc = "report"]
  <2> DEFINE r == [send[t] EXCEPT !.pc = "report"]
  <2>1. r \in SendRec /\ r.pc = "report" /\ r.to = c
    BY <1>1 DEF SendRec
  <2>2. send' = [send EXCEPT ![t] = r]
    BY <1>4
  <2>3. /\ send' \in [Senders -> SendRec] /\ send'[t].pc = "report" /\ send'[t].to = c
        /\ \A s \in Senders \ {t} : send'[s] = send[s]
    <3> HIDE DEF r
    <3> QED
      BY <2>1, <2>2, SendUpdate DEF IInv
  <2> QED
    BY <1>1, <1>2, <1>4, <2>3, WriteFailsEffect, AddressType, SenderFrame DEF IInv
<1> QED
  BY <1>3, <1>4

\* The report of a failed Send passes to the element's handler, unless the
\* CLA has stopped meanwhile.
LEMMA SendReportInv == ASSUME IInv, NEW t \in Senders, SendReport(t) PROVE IInv'
<1> USE AddressType DEF SendReport
<1> DEFINE x == send[t].to
<1>1. x \in Clients /\ x \in Convs /\ send[t] \in SendRec
  BY RecordTypes DEF IInv, HoldInv
<1>2. /\ send' \in [Senders -> SendRec] /\ send'[t].pc = "idle"
      /\ \A s \in Senders \ {t} : send'[s] = send[s]
  <2>1. Resting \in SendRec /\ Resting.pc = "idle"
    BY DEF Resting, SendRec
  <2> QED
    BY <2>1, SendUpdate DEF IInv
<1>3. CASE cla[x].pc = "none" /\ UNCHANGED elem
  <2> USE <1>1, <1>2, <1>3 DEF IInv
  <2>1. TypeOK'
    BY DEF TypeOK, SendRec
  <2>2. HoldInv'
    BY DEF HoldInv
  <2>3. StoreInv' /\ RunInv' /\ StopInv'
    BY DEF StoreInv, RunInv, StopInv, Stored, Storing, Active, Awaits, Contested
  <2>4. CalmInv' /\ RegInv'
    BY DEF CalmInv, RegInv, Busy, Restarting, Free, Contested, Stored
  <2>5. FailInv'
    BY QueueSame DEF FailInv, FailureNoticed, Contested
  <2>6. AnnounceInv'
    BY QueueSame DEF AnnounceInv, Announced, Contested
  <2> QED
    BY <2>1, <2>2, <2>3, <2>4, <2>5, <2>6
<1>4. CASE Report(x, Disappeared(x))
  <2>1. Disappeared(x) \in Messages
    BY <1>1, MessageType
  <2>2. /\ elem' \in [Convs -> ElemRec] /\ elem[x].pc = "select"
        /\ elem'[x].pc = "forward" /\ elem'[x].msg = Disappeared(x)
        /\ elem'[x].stop = elem[x].stop
        /\ \A c \in Convs \ {x} : elem'[c] = elem[c]
    BY <1>1, <1>4, <2>1, ReportEffect DEF IInv
  <2> HIDE DEF x
  <2> USE <1>1, <1>2, <2>1, <2>2, MessageType DEF IInv
  <2>4. TypeOK'
    BY DEF TypeOK, ElemRec, SendRec
  <2>5. HoldInv'
    BY DEF HoldInv
  <2>6. StoreInv' /\ RunInv' /\ StopInv'
    BY DEF StoreInv, RunInv, StopInv, Stored, Storing, Active, Awaits, Contested
  <2>7. CalmInv' /\ RegInv'
    BY DEF CalmInv, RegInv, Busy, Restarting, Free, Contested, Stored
  <2>8. FailInv'
    BY QueueSame DEF FailInv, FailureNoticed, Contested, x
  <2>9. AnnounceInv'
    BY QueueSame DEF AnnounceInv, Announced, Contested
  <2> QED
    BY <2>4, <2>5, <2>6, <2>7, <2>8, <2>9
<1> QED
  BY <1>3, <1>4

-----------------------------------------------------------------------------
(* MTCPClient and MTCPServer                                               *)

\* A CLA's goroutine that stays alive changes its own record only.
LEMMA ClaFrame ==
    ASSUME IInv, NEW x \in Convs, cla[x].pc # "none", cla[x].pc # "hello",
           cla' \in [Convs -> ClaRec],
           \A c \in Convs \ {x} : cla'[c] = cla[c],
           UNCHANGED <<convs, ttl, elem, mutex, inChnl, mgr, reg, send, view, closing, reach,
                       contested>>,
           cla'[x].pc \in {"none", "report"},
           count' \in CountRec
    PROVE  IInv'
<1> USE AddressType DEF IInv
<1>1. TypeOK'
  BY DEF TypeOK, ClaRec
<1>2. HoldInv' /\ StoreInv'
  BY DEF HoldInv, StoreInv
<1>3. RunInv' /\ StopInv'
  BY DEF RunInv, StopInv, Stored, Storing, Active, Awaits, Contested
<1>4. CalmInv' /\ RegInv'
  BY DEF CalmInv, RegInv, Busy, Restarting, Free, Contested, Stored
<1>5. FailInv'
  BY QueueSame DEF FailInv, FailureNoticed, Contested
<1>6. AnnounceInv'
  BY QueueSame DEF AnnounceInv, Announced, Contested
<1> QED
  BY <1>1, <1>2, <1>3, <1>4, <1>5, <1>6

LEMMA ClaStopInv == ASSUME IInv, NEW x \in Convs, ClaStop(x) PROVE IInv'
<1> DEFINE r == [cla[x] EXCEPT !.pc = "none", !.stop = FALSE, !.conn = "closed"]
<1>1. r \in ClaRec /\ r.pc = "none"
  BY RecordTypes DEF ClaRec, IInv
<1>2. cla' = [cla EXCEPT ![x] = r] /\ cla[x].pc \in {"run", "report"}
  BY DEF ClaStop
<1> HIDE DEF r
<1>3. /\ cla' \in [Convs -> ClaRec] /\ cla'[x].pc = "none"
      /\ \A c \in Convs \ {x} : cla'[c] = cla[c]
  BY <1>1, <1>2, ClaUpdate DEF IInv
<1> QED
  BY <1>2, <1>3, ClaFrame DEF ClaStop, IInv, TypeOK

LEMMA KeepaliveInv == ASSUME IInv, NEW x \in Convs, Keepalive(x) PROVE IInv'
<1> DEFINE r == [cla[x] EXCEPT !.pc = "report", !.failed = TRUE]
<1>1. r \in ClaRec /\ r.pc = "report"
  BY RecordTypes DEF ClaRec, IInv
<1>2. cla' = [cla EXCEPT ![x] = r] /\ cla[x].pc = "run"
  BY DEF Keepalive
<1> HIDE DEF r
<1>3. /\ cla' \in [Convs -> ClaRec] /\ cla'[x].pc = "report"
      /\ \A c \in Convs \ {x} : cla'[c] = cla[c]
  BY <1>1, <1>2, ClaUpdate DEF IInv
<1> QED
  BY <1>2, <1>3, ClaFrame DEF Keepalive, IInv, TypeOK

LEMMA IncomingInv == ASSUME IInv, NEW x \in Convs, Incoming(x) PROVE IInv'
<1> DEFINE r == [cla[x] EXCEPT !.pc = "report"]
<1>1. r \in ClaRec /\ r.pc = "report"
  BY RecordTypes DEF ClaRec, IInv
<1>2. cla' = [cla EXCEPT ![x] = r] /\ cla[x].pc = "run"
  BY DEF Incoming
<1> HIDE DEF r
<1>3. /\ cla' \in [Convs -> ClaRec] /\ cla'[x].pc = "report"
      /\ \A c \in Convs \ {x} : cla'[c] = cla[c]
  BY <1>1, <1>2, ClaUpdate DEF IInv
<1>4. count' \in CountRec
  <2>1. count.bundles + 1 \in 0..MaxBundles /\ count' = [count EXCEPT !.bundles = @ + 1]
    BY LinksAssumption DEF Incoming, IInv, TypeOK
  <2> QED
    BY <2>1 DEF IInv, TypeOK
<1> QED
  BY <1>2, <1>3, <1>4, ClaFrame DEF Incoming

LEMMA ClaReportInv == ASSUME IInv, NEW x \in Convs, ClaReport(x) PROVE IInv'
<1> USE AddressType
<1> DEFINE r == [cla[x] EXCEPT !.pc = "run"]
<1>1. r \in ClaRec /\ r.pc = "run"
  BY RecordTypes DEF ClaRec, IInv
<1>2. cla' = [cla EXCEPT ![x] = r]
  BY DEF ClaReport
<1> HIDE DEF r
<1>3. /\ cla' \in [Convs -> ClaRec] /\ cla'[x].pc = "run"
      /\ \A c \in Convs \ {x} : cla'[c] = cla[c]
  BY <1>1, <1>2, ClaUpdate DEF IInv
<1>4. cla'[x].failed = cla[x].failed
  BY <1>2, RecordTypes DEF IInv, ClaRec, r
<1>5. PICK m \in Messages :
          /\ Report(x, m) /\ m.cla = x
          /\ cla[x].pc \in {"hello", "report"}
          /\ cla[x].pc = "report" /\ x \in Clients => m = Disappeared(x)
  BY MessageType DEF ClaReport, Clients
<1>6. /\ elem' \in [Convs -> ElemRec]
      /\ elem[x].pc = "select" /\ elem'[x].pc = "forward"
      /\ elem'[x].msg = m /\ elem'[x].stop = elem[x].stop
      /\ \A c \in Convs \ {x} : elem'[c] = elem[c]
  BY <1>5, ReportEffect DEF IInv
<1>7. UNCHANGED <<convs, ttl, mutex, inChnl, mgr, reg, send, view, closing, reach, count,
                  contested>>
  BY DEF ClaReport
<1> USE <1>3, <1>4, <1>5, <1>6, <1>7 DEF IInv
<1>8. TypeOK'
  BY DEF TypeOK, ElemRec, ClaRec
<1>9. HoldInv' /\ StoreInv'
  BY DEF HoldInv, StoreInv
<1>10. RunInv' /\ StopInv'
  BY DEF RunInv, StopInv, Stored, Storing, Active, Awaits, Contested
<1>11. CalmInv' /\ RegInv'
  BY DEF CalmInv, RegInv, Busy, Restarting, Free, Contested, Stored
<1>12. FailInv'
  BY QueueSame DEF FailInv, FailureNoticed, Contested
<1>13. AnnounceInv'
  BY QueueSame DEF AnnounceInv, Announced, Contested
<1> QED
  BY <1>8, <1>9, <1>10, <1>11, <1>12, <1>13

-----------------------------------------------------------------------------
(* An element's handler                                                    *)

LEMMA ElemForwardInv == ASSUME IInv, NEW x \in Convs, ElemForward(x) PROVE IInv'
<1> USE AddressType
<1>a. CASE closing = "done"
  <2> DEFINE r == [elem[x] EXCEPT !.pc = "panic"]
  <2>1. r \in ElemRec /\ r.pc = "panic" /\ r.stop = elem[x].stop
    BY RecordTypes DEF ElemRec, IInv
  <2>2. elem' = [elem EXCEPT ![x] = r] /\ elem[x].pc = "forward"
    BY <1>a DEF ElemForward
  <2> HIDE DEF r
  <2>3. /\ elem' \in [Convs -> ElemRec] /\ elem'[x].pc = "panic"
        /\ elem'[x].stop = elem[x].stop
        /\ \A c \in Convs \ {x} : elem'[c] = elem[c]
    BY <2>1, <2>2, ElemUpdate DEF IInv
  <2>4. UNCHANGED <<convs, ttl, cla, mutex, inChnl, mgr, reg, send, view, closing, reach,
                    count, contested>>
    BY <1>a DEF ElemForward
  <2> USE <1>a, <2>2, <2>3, <2>4 DEF IInv
  <2>5. TypeOK'
    BY DEF TypeOK, ElemRec
  <2>6. HoldInv' /\ StoreInv'
    BY DEF HoldInv, StoreInv
  <2>7. RunInv' /\ StopInv'
    BY DEF RunInv, StopInv, Stored, Storing, Active, Awaits, Contested
  <2>8. CalmInv' /\ RegInv'
    BY DEF CalmInv, RegInv, Busy, Restarting, Free, Contested, Stored
  <2>9. FailInv' /\ AnnounceInv'
    BY DEF FailInv, AnnounceInv, FailureNoticed, Announced
  <2> QED
    BY <2>5, <2>6, <2>7, <2>8, <2>9
<1> SUFFICES ASSUME closing # "done" PROVE IInv'
  BY <1>a
<1> DEFINE r == [elem[x] EXCEPT !.pc = "select", !.msg = None]
<1>1. r \in ElemRec /\ r.pc = "select" /\ r.stop = elem[x].stop
  BY RecordTypes DEF ElemRec, IInv
<1>2. elem' = [elem EXCEPT ![x] = r] /\ elem[x].pc = "forward"
  BY DEF ElemForward
<1> HIDE DEF r
<1>3. /\ elem' \in [Convs -> ElemRec] /\ elem'[x].pc = "select"
      /\ elem'[x].stop = elem[x].stop
      /\ \A c \in Convs \ {x} : elem'[c] = elem[c]
  BY <1>1, <1>2, ElemUpdate DEF IInv
<1>4. PICK k \in Messages :
          /\ k = elem[x].msg /\ k.cla = x
          /\ inChnl \in Seq(Messages) /\ inChnl' = Append(inChnl, k)
          /\ Len(inChnl) \in Nat /\ Len(inChnl) < InCap
  BY <1>2 DEF ElemForward, IInv, HoldInv
<1>5. /\ inChnl' \in Seq(Messages)
      /\ Len(inChnl') <= InCap
      /\ Queued(k)'
      /\ \A m : Queued(m) => Queued(m)'
  <2>1. /\ inChnl' \in Seq(Messages) /\ Len(inChnl') = Len(inChnl) + 1
        /\ Queued(k)'
        /\ \A m : Queued(m) => Queued(m)'
    BY <1>4, QueueAppend
  <2>2. Len(inChnl') <= InCap
    BY <1>4, <2>1, LinksAssumption
  <2> QED
    BY <2>1, <2>2
<1>6. inChnl' \in Seq(Status)
  BY <1>5, MessageType
<1>7. UNCHANGED <<convs, ttl, cla, mutex, mgr, reg, send, view, closing, reach, count, contested>>
  BY DEF ElemForward
<1> USE <1>2, <1>3, <1>7 DEF IInv
<1>8. TypeOK'
  BY <1>5, <1>6 DEF TypeOK, ElemRec
<1>9. HoldInv' /\ StoreInv'
  BY <1>5 DEF HoldInv, StoreInv
<1>10. RunInv' /\ StopInv'
  BY DEF RunInv, StopInv, Stored, Storing, Active, Awaits, Contested
<1>11. CalmInv' /\ RegInv'
  BY DEF CalmInv, RegInv, Busy, Restarting, Free, Contested, Stored
<1>12. FailInv'
  <2> SUFFICES ASSUME NEW c \in Clients, ~Contested(c), cla[c].pc # "none", cla[c].failed
               PROVE  FailureNoticed(c)'
    BY DEF FailInv, Contested
  <2>1. FailureNoticed(c)
    BY DEF FailInv
  <2>2. Queued(Disappeared(c)) => Queued(Disappeared(c))'
    BY <1>5
  <2>3. c = x /\ elem[x].msg = Disappeared(x) => Queued(Disappeared(c))'
    BY <1>4, <1>5
  <2> QED
    BY <2>1, <2>2, <2>3 DEF FailureNoticed
<1>13. AnnounceInv'
  <2> SUFFICES ASSUME NEW c \in Clients, ~Contested(c), elem'[c].pc # "none"
               PROVE  Announced(c)'
    BY DEF AnnounceInv, Contested
  <2>1. Announced(c)
    BY DEF AnnounceInv
  <2>2. /\ Queued(Disappeared(c)) => Queued(Disappeared(c))'
        /\ Queued(Appeared(c)) => Queued(Appeared(c))'
    BY <1>5
  <2>3. c = x => k = Disappeared(c) \/ k = Appeared(c)
    BY <1>4, MessageType
  <2>4. c = x => Queued(Disappeared(c))' \/ Queued(Appeared(c))'
    BY <1>5, <2>3
  <2> QED
    BY <2>1, <2>2, <2>4 DEF Announced
<1> QED
  BY <1>8, <1>9, <1>10, <1>11, <1>12, <1>13

LEMMA ElemStopInv == ASSUME IInv, NEW x \in Convs, ElemStop(x) PROVE IInv'
<1> USE AddressType
<1> DEFINE r == [elem[x] EXCEPT !.pc = "closing"]
<1> DEFINE q == [cla[x] EXCEPT !.stop = TRUE]
<1>1. /\ r \in ElemRec /\ r.pc = "closing" /\ r.stop = elem[x].stop
      /\ q \in ClaRec /\ q.pc = cla[x].pc /\ q.failed = cla[x].failed
  <2>1. elem[x] \in ElemRec /\ cla[x] \in ClaRec
    BY RecordTypes DEF IInv
  <2>2. r \in ElemRec /\ r.pc = "closing" /\ r.stop = elem[x].stop
    BY <2>1 DEF ElemRec
  <2>3. q \in ClaRec /\ q.pc = cla[x].pc /\ q.failed = cla[x].failed
    BY <2>1 DEF ClaRec
  <2> QED
    BY <2>2, <2>3
<1>2. /\ elem' = [elem EXCEPT ![x] = r] /\ cla' = [cla EXCEPT ![x] = q]
      /\ elem[x].pc = "select" /\ elem[x].stop
  BY DEF ElemStop
<1> HIDE DEF r, q
<1>3. /\ elem' \in [Convs -> ElemRec] /\ elem'[x].pc = "closing" /\ elem'[x].stop
      /\ \A c \in Convs \ {x} : elem'[c] = elem[c]
  BY <1>1, <1>2, ElemUpdate DEF IInv
<1>4. /\ cla' \in [Convs -> ClaRec] /\ cla'[x].pc = cla[x].pc /\ cla'[x].failed = cla[x].failed
      /\ \A c \in Convs \ {x} : cla'[c] = cla[c]
  BY <1>1, <1>2, ClaUpdate DEF IInv
<1>5. UNCHANGED <<convs, ttl, mutex, inChnl, mgr, reg, send, view, closing, reach, count,
                  contested>>
  BY DEF ElemStop
<1> USE <1>2, <1>3, <1>4, <1>5 DEF IInv
<1>6. TypeOK'
  BY DEF TypeOK, ElemRec, ClaRec
<1>7. HoldInv' /\ StoreInv'
  BY DEF HoldInv, StoreInv
<1>8. RunInv' /\ StopInv'
  BY DEF RunInv, StopInv, Stored, Storing, Active, Awaits, Contested
<1>9. CalmInv' /\ RegInv'
  BY DEF CalmInv, RegInv, Busy, Restarting, Free, Contested, Stored
<1>10. FailInv'
  BY QueueSame DEF FailInv, FailureNoticed, Contested
<1>11. AnnounceInv'
  BY QueueSame DEF AnnounceInv, Announced, Contested
<1> QED
  BY <1>6, <1>7, <1>8, <1>9, <1>10, <1>11

LEMMA ElemAckInv == ASSUME IInv, NEW x \in Convs, ElemAck(x) PROVE IInv'
<1> USE AddressType
<1> DEFINE r == [elem[x] EXCEPT !.pc = "none", !.stop = FALSE]
<1>1. r \in ElemRec /\ r.pc = "none" /\ r.stop = FALSE
  BY RecordTypes DEF ElemRec, IInv
<1>2. /\ elem' = [elem EXCEPT ![x] = r] /\ elem[x].pc = "closing"
      /\ ~Contested(x) => cla[x].pc = "none"
  BY DEF ElemAck, IInv, RunInv
<1> HIDE DEF r
<1>3. /\ elem' \in [Convs -> ElemRec] /\ elem'[x].pc = "none" /\ ~elem'[x].stop
      /\ \A c \in Convs \ {x} : elem'[c] = elem[c]
  BY <1>1, <1>2, ElemUpdate DEF IInv
<1>4. UNCHANGED <<convs, ttl, cla, mutex, inChnl, mgr, reg, send, view, closing, reach,
                  count, contested>>
  BY DEF ElemAck
<1> USE <1>2, <1>3, <1>4 DEF IInv
<1>5. TypeOK'
  BY DEF TypeOK, ElemRec
<1>6. HoldInv' /\ StoreInv'
  BY DEF HoldInv, StoreInv
<1>7. RunInv' /\ StopInv'
  BY DEF RunInv, StopInv, Stored, Storing, Active, Awaits, Contested
<1>8. CalmInv' /\ RegInv'
  BY DEF CalmInv, RegInv, Busy, Restarting, Free, Contested, Stored
<1>9. FailInv'
  BY QueueSame DEF FailInv, FailureNoticed, Contested
<1>10. AnnounceInv'
  BY QueueSame DEF AnnounceInv, Announced, Contested
<1> QED
  BY <1>5, <1>6, <1>7, <1>8, <1>9, <1>10

-----------------------------------------------------------------------------
(* The environment                                                         *)

LEMMA PeerDownInv == ASSUME IInv, NEW b \in Addresses, PeerDown(b) PROVE IInv'
<1> USE AddressType
<1>1. /\ cla' \in [Convs -> ClaRec]
      /\ \A c \in Convs : cla'[c].pc = cla[c].pc /\ cla'[c].failed = cla[c].failed
  <2>1. ASSUME NEW c \in Convs
        PROVE  /\ cla'[c] \in ClaRec
               /\ cla'[c].pc = cla[c].pc /\ cla'[c].failed = cla[c].failed
    <3>1. cla'[c] = cla[c] \/ cla'[c] = [cla[c] EXCEPT !.conn = "broken"]
      BY DEF PeerDown
    <3>2. cla[c] \in ClaRec
      BY RecordTypes DEF IInv
    <3> QED
      BY <3>1, <3>2 DEF ClaRec
  <2>2. cla' = [c \in Convs |-> cla'[c]]
    BY DEF PeerDown
  <2> QED
    BY <2>1, <2>2
<1>2. count' \in CountRec
  <2>1. count.downs + 1 \in 0..MaxDowns /\ count' = [count EXCEPT !.downs = @ + 1]
    BY LinksAssumption DEF PeerDown, IInv, TypeOK
  <2> QED
    BY <2>1 DEF IInv, TypeOK
<1>3. UNCHANGED <<convs, ttl, elem, mutex, inChnl, mgr, reg, send, view, closing, contested>>
  BY DEF PeerDown
<1>4. reach' \subseteq Addresses
  BY DEF PeerDown, IInv, TypeOK
<1> USE <1>1, <1>3 DEF IInv
<1>5. TypeOK'
  BY <1>2, <1>4 DEF TypeOK, ClaRec
<1>6. HoldInv' /\ StoreInv'
  BY DEF HoldInv, StoreInv
<1>7. RunInv' /\ StopInv'
  BY DEF RunInv, StopInv, Stored, Storing, Active, Awaits, Contested
<1>8. CalmInv' /\ RegInv'
  BY DEF CalmInv, RegInv, Busy, Restarting, Free, Contested, Stored
<1>9. FailInv'
  BY QueueSame DEF FailInv, FailureNoticed, Contested
<1>10. AnnounceInv'
  BY QueueSame DEF AnnounceInv, Announced, Contested
<1> QED
  BY <1>5, <1>6, <1>7, <1>8, <1>9, <1>10

\* Everything but reach and the step of Close from "no" to "asked"
LEMMA IdleFrame ==
    ASSUME IInv,
           UNCHANGED <<convs, ttl, elem, cla, mutex, inChnl, mgr, reg, send, view, count,
                       contested>>,
           closing' = closing \/ (closing = "no" /\ closing' = "asked"),
           reach' \subseteq Addresses
    PROVE  IInv'
<1> USE AddressType DEF IInv
<1>1. TypeOK'
  BY DEF TypeOK
<1>2. HoldInv' /\ StoreInv'
  BY DEF HoldInv, StoreInv
<1>3. RunInv' /\ StopInv'
  BY DEF RunInv, StopInv, Stored, Storing, Active, Awaits, Contested
<1>4. CalmInv' /\ RegInv'
  BY DEF CalmInv, RegInv, Busy, Restarting, Free, Contested, Stored
<1>5. FailInv'
  BY QueueSame DEF FailInv, FailureNoticed, Contested
<1>6. AnnounceInv'
  BY QueueSame DEF AnnounceInv, Announced, Contested
<1> QED
  BY <1>1, <1>2, <1>3, <1>4, <1>5, <1>6

LEMMA PeerUpInv == ASSUME IInv, NEW b \in Addresses, PeerUp(b) PROVE IInv'
<1>1. reach' \subseteq Addresses
  BY DEF PeerUp, IInv, TypeOK
<1> QED
  BY <1>1, IdleFrame DEF PeerUp

LEMMA CoreCloseInv == ASSUME IInv, CoreClose PROVE IInv'
<1>1. reach' \subseteq Addresses
  BY DEF CoreClose, IInv, TypeOK
<1> QED
  BY <1>1, IdleFrame DEF CoreClose

LEMMA StutterInv == ASSUME IInv, UNCHANGED vars PROVE IInv'
<1>1. reach' \subseteq Addresses
  BY DEF vars, IInv, TypeOK
<1> QED
  BY <1>1, IdleFrame DEF vars

-----------------------------------------------------------------------------
(* Registering                                                             *)

LEMMA ManagerRegisters == Mgr \in Registrars
BY DEF Registrars

LEMMA RegUpdate ==
    ASSUME TypeOK, NEW g \in Registrars, NEW r \in RegRec, Goto(g, r)
    PROVE  /\ reg' \in [Registrars -> RegRec] /\ reg'[g] = r
           /\ \A h \in Registrars \ {g} : reg'[h] = reg[h]
BY DEF TypeOK, RegRec, Goto

\* An address that g begins to work on and that stays uncontested is in
\* nobody else's hands.
LEMMA EnterEffect ==
    ASSUME IInv, NEW g \in Registrars, NEW a \in Addresses, Enter(g, a)
    PROVE  /\ contested \subseteq contested' /\ contested' \subseteq Addresses
           /\ a \notin contested' => /\ \A h \in Registrars \ {g} : ~Busy(h, a)
                                     /\ Restarting(a) => g = Mgr
BY DEF Enter, InHand, Busy, Restarting, IInv, TypeOK, Registrars

\* While nobody is about to store a CLA of address a, what runs there is what
\* is stored there.
LEMMA RunsAsStored ==
    ASSUME IInv, NEW a \in Addresses, a \notin contested,
           \A h \in Registrars : Busy(h, a) => reg[h].pc # "store",
           NEW d \in Convs, Address[d] = a, elem[d].pc # "none"
    PROVE  convs[a] = d /\ Active(d)
BY DEF IInv, RunInv, Contested, Stored, Storing, Busy

\* Steps that leave the CLAs and their messages alone lose no report.
LEMMA MessageFrame ==
    ASSUME IInv, UNCHANGED <<elem, cla, inChnl, send, view>>,
           contested \subseteq contested', closing = "done" => closing' = "done",
           mgr.pc = "forward" => mgr' = mgr,
           mgr'.pc \in {"await", "delete", "register", "forward"} =>
               mgr.pc \in {"await", "delete", "register", "forward"} /\ mgr'.msg = mgr.msg
    PROVE  FailInv' /\ AnnounceInv'
<1> USE DEF IInv
<1>1. FailInv'
  BY QueueSame DEF FailInv, FailureNoticed, Contested
<1>2. AnnounceInv'
  BY QueueSame DEF AnnounceInv, Announced, Contested
<1> QED
  BY <1>1, <1>2

LEMMA RegisterInv ==
    ASSUME IInv, NEW g \in Discoverers, NEW c \in Convs, Register(g, c)
    PROVE  IInv'
<1> USE AddressType DEF IInv
<1> DEFINE r == [pc |-> "load", job |-> "register", cla |-> c]
<1>1. /\ g \in Registrars /\ g # Mgr /\ reg[g].pc = "idle" /\ Goto(g, r) /\ Enter(g, Address[c])
      /\ UNCHANGED <<convs, ttl, elem, cla, mutex, inChnl, mgr, send, view, closing, reach>>
  BY LinksAssumption DEF Register, RegisterCla, Registrars
<1>2. r \in RegRec /\ r.pc = "load" /\ r.job = "register" /\ r.cla = c
  BY DEF RegRec
<1> HIDE DEF r
<1>3. /\ reg' \in [Registrars -> RegRec] /\ reg'[g] = r
      /\ \A h \in Registrars \ {g} : reg'[h] = reg[h]
  BY <1>1, <1>2, RegUpdate
<1>4. /\ contested \subseteq contested' /\ contested' \subseteq Addresses
      /\ Address[c] \notin contested' => /\ \A h \in Registrars \ {g} : ~Busy(h, Address[c])
                                         /\ ~Restarting(Address[c])
  BY <1>1, EnterEffect
<1>5. count' \in CountRec
  <2>1. count.registers + 1 \in 0..MaxRegisters /\ count' = [count EXCEPT !.registers = @ + 1]
    BY LinksAssumption DEF Register, TypeOK
  <2> QED
    BY <2>1 DEF TypeOK
<1> USE <1>1, <1>2, <1>3, <1>4
<1>6. TypeOK'
  BY <1>5 DEF TypeOK, RegRec
<1>7. HoldInv' /\ StoreInv'
  BY DEF HoldInv, StoreInv, Registrars
<1>8. CalmInv'
  BY DEF CalmInv, Busy, Restarting
<1>9. RegInv'
  BY DEF RegInv, Free, Contested, Stored
<1>10. RunInv' /\ StopInv'
  BY DEF RunInv, StopInv, Stored, Storing, Active, Awaits, Contested
<1>11. FailInv' /\ AnnounceInv'
  BY MessageFrame
<1> QED
  BY <1>6, <1>7, <1>8, <1>9, <1>10, <1>11

LEMMA RegLoadInv == ASSUME IInv, NEW g \in Registrars, RegLoad(g) PROVE IInv'
<1> USE AddressType DEF IInv
<1>1. PICK x \in Convs : x = reg[g].cla /\ reg[g].pc = "load"
  BY DEF RegLoad, HoldInv
<1> DEFINE a == Address[x]
<1>2. /\ a \in Addresses /\ convs[a] \in Convs \cup {None} /\ reg[g] \in RegRec
      /\ convs[a] # None => Address[convs[a]] = a
  BY <1>1 DEF TypeOK, StoreInv, RegRec
<1>3. UNCHANGED <<convs, elem, cla, mutex, inChnl, mgr, send, view, closing, reach, count,
                  contested>>
  BY DEF RegLoad
<1>4. /\ reg[g].job \in {"register", "retry"}
      /\ a \notin contested => /\ reg[g].job = "register"
                               /\ \A h \in Registrars : Busy(h, a) => h = g
                               /\ ~Restarting(a)
  BY <1>1, <1>2 DEF HoldInv, CalmInv, RegInv, Busy, Contested
<1>5. ASSUME a \notin contested, convs[a] = None \/ ~Active(convs[a]) PROVE Free(a)
  <2> SUFFICES ASSUME NEW d \in Convs, Address[d] = a, elem[d].pc # "none" PROVE FALSE
    BY DEF Free
  <2> QED
    BY <1>1, <1>2, <1>4, <1>5, RunsAsStored
<1>6. PICK r \in RegRec :
          /\ Goto(g, r)
          /\ \/ r.pc = "idle" /\ ttl' = ttl
             \/ /\ r.pc = "check" /\ r.job = reg[g].job /\ r.cla \in Convs /\ Address[r.cla] = a
                /\ convs[a] \in {None, r.cla} /\ (convs[a] = None \/ ~Active(convs[a]))
                /\ ttl' = ttl \/ (r.cla = x /\ ttl' = [ttl EXCEPT ![x] = QueueTtl])
  <2>1. CASE convs[a] # None /\ Active(convs[a])
    BY <1>1, <2>1 DEF RegLoad, NoJob, RegRec
  <2>2. CASE convs[a] # None /\ ~Active(convs[a])
    <3> DEFINE r == [reg[g] EXCEPT !.pc = "check", !.cla = convs[a]]
    <3>1. Goto(g, r) /\ ttl' = ttl
      BY <1>1, <2>2 DEF RegLoad
    <3>2. r \in RegRec /\ r.pc = "check" /\ r.job = reg[g].job /\ r.cla = convs[a]
      BY <1>2, <2>2 DEF RegRec
    <3> QED
      BY <1>2, <2>2, <3>1, <3>2
  <2>3. CASE convs[a] = None
    <3> DEFINE r == [reg[g] EXCEPT !.pc = "check"]
    <3>1. Goto(g, r) /\ ttl' = [ttl EXCEPT ![x] = QueueTtl]
      BY <1>1, <2>3 DEF RegLoad
    <3>2. r \in RegRec /\ r.pc = "check" /\ r.job = reg[g].job /\ r.cla = x
      BY <1>1, <1>2, <2>3 DEF RegRec
    <3> QED
      BY <1>2, <2>3, <3>1, <3>2
  <2> QED
    BY <2>1, <2>2, <2>3
<1>7. /\ reg' \in [Registrars -> RegRec] /\ reg'[g] = r
      /\ \A h \in Registrars \ {g} : reg'[h] = reg[h]
  BY <1>6, RegUpdate
<1>8. /\ ttl' \in [Convs -> Int] /\ \A c \in Convs : ttl'[c] <= QueueTtl
      /\ \A c \in Convs : ttl'[c] # ttl[c] => c = x /\ r.pc = "check"
  <2>1. ttl \in [Convs -> Int] /\ (\A c \in Convs : ttl[c] <= QueueTtl) /\ QueueTtl \in Int
    BY LinksAssumption DEF TypeOK
  <2>2. CASE ttl' = ttl
    BY <2>1, <2>2
  <2>3. CASE r.pc = "check" /\ ttl' = [ttl EXCEPT ![x] = QueueTtl]
    <3>1. ttl'[x] = QueueTtl /\ \A c \in Convs \ {x} : ttl'[c] = ttl[c]
      BY <2>1, <2>3
    <3> QED
      BY <2>1, <2>3, <3>1
  <2> QED
    BY <1>6, <2>2, <2>3
<1>9. r.pc = "check" /\ a \notin contested => Free(a)
  BY <1>5, <1>6
<1> HIDE DEF a
<1>10. Address[x] = a
  BY DEF a
<1> USE <1>1, <1>2, <1>3, <1>4, <1>7, <1>10
<1>11. TypeOK'
  BY <1>8 DEF TypeOK, RegRec
<1>12. HoldInv' /\ StoreInv'
  BY <1>6, ManagerRegisters DEF HoldInv, StoreInv
<1>13. CalmInv'
  BY <1>6 DEF CalmInv, Busy, Restarting
<1>14. RegInv'
  BY <1>6, <1>9 DEF RegInv, Free, Contested, Stored
<1>15. RunInv'
  BY <1>6, <1>8, <1>9 DEF RunInv, Stored, Storing, Active, Contested, Free
<1>16. StopInv'
  BY DEF StopInv, Awaits, Contested
<1>17. FailInv' /\ AnnounceInv'
  BY MessageFrame
<1> QED
  BY <1>11, <1>12, <1>13, <1>14, <1>15, <1>16, <1>17

LEMMA RegCheckInv == ASSUME IInv, NEW g \in Registrars, RegCheck(g) PROVE IInv'
<1> USE AddressType DEF IInv
<1>1. PICK x \in Convs : x = reg[g].cla /\ reg[g].pc = "check" /\ reg[g] \in RegRec
  BY DEF RegCheck, HoldInv, TypeOK, RegRec
<1>2. UNCHANGED <<convs, ttl, elem, cla, mutex, inChnl, mgr, send, view, closing, reach,
                  count, contested>>
  BY DEF RegCheck
<1>3. PICK r \in RegRec :
          /\ Goto(g, r)
          /\ \/ r.pc = "idle"
             \/ r.pc \in {"start", "delete"} /\ r.job = reg[g].job /\ r.cla = x
  <2>1. NoJob \in RegRec /\ NoJob.pc = "idle"
    BY DEF NoJob, RegRec
  <2>2. ASSUME NEW pc \in {"start", "delete"}
        PROVE  /\ [reg[g] EXCEPT !.pc = pc] \in RegRec
               /\ [reg[g] EXCEPT !.pc = pc].pc = pc
               /\ [reg[g] EXCEPT !.pc = pc].job = reg[g].job
               /\ [reg[g] EXCEPT !.pc = pc].cla = x
    BY <1>1 DEF RegRec
  <2>3. \/ Goto(g, NoJob)
        \/ Goto(g, [reg[g] EXCEPT !.pc = "start"])
        \/ Goto(g, [reg[g] EXCEPT !.pc = "delete"])
    BY DEF RegCheck
  <2> QED
    BY <2>1, <2>2, <2>3
<1>4. /\ reg' \in [Registrars -> RegRec] /\ reg'[g] = r
      /\ \A h \in Registrars \ {g} : reg'[h] = reg[h]
  BY <1>3, RegUpdate
<1> USE <1>1, <1>2, <1>3, <1>4
<1>5. TypeOK'
  BY DEF TypeOK, RegRec
<1>6. HoldInv' /\ StoreInv'
  BY ManagerRegisters DEF HoldInv, StoreInv
<1>7. CalmInv'
  BY DEF CalmInv, Busy, Restarting
<1>8. RegInv'
  BY DEF RegInv, Free, Contested, Stored
<1>9. RunInv' /\ StopInv'
  BY DEF RunInv, StopInv, Stored, Storing, Active, Awaits, Contested
<1>10. FailInv' /\ AnnounceInv'
  BY MessageFrame
<1> QED
  BY <1>5, <1>6, <1>7, <1>8, <1>9, <1>10

\* What activate does to the element and the CLA of x
LEMMA ActivateEffect ==
    ASSUME TypeOK, NEW x \in Convs, NEW result, activate(x, result)
    PROVE  /\ ttl' \in [Convs -> Int] /\ \A c \in Convs : ttl'[c] <= QueueTtl
           /\ elem' \in [Convs -> ElemRec] /\ cla' \in [Convs -> ClaRec]
           /\ \A c \in Convs \ {x} : ttl'[c] = ttl[c] /\ elem'[c] = elem[c] /\ cla'[c] = cla[c]
           /\ result # "up" => elem' = elem /\ cla' = cla
           /\ result = "up" => /\ ttl'[x] < 0
                               /\ elem'[x].pc = "select" /\ ~elem'[x].stop
                               /\ ~cla'[x].failed
                               /\ cla[x].pc = "none" => cla'[x].pc \in {"hello", "run"}
                               /\ cla[x].pc = "none" /\ x \in Clients => cla'[x].pc = "hello"
<1> DEFINE u == CASE result = "up" -> -1 [] result = "retry" -> ttl[x] - 1 [] OTHER -> 0
           q == [pc |-> "select", msg |-> None, stop |-> FALSE]
<1>1. ttl \in [Convs -> Int] /\ (\A c \in Convs : ttl[c] <= QueueTtl) /\ QueueTtl \in Nat \ {0}
  BY LinksAssumption DEF TypeOK
<1>2. u \in Int /\ u <= QueueTtl /\ (result = "up" => u < 0)
  BY <1>1
<1>3. ttl' = [ttl EXCEPT ![x] = u]
  BY DEF activate
<1> HIDE DEF u
<1>4. /\ ttl' \in [Convs -> Int] /\ ttl'[x] = u
      /\ \A c \in Convs \ {x} : ttl'[c] = ttl[c]
  BY <1>1, <1>2, <1>3
<1>5. CASE result # "up"
  <2>1. elem' = elem /\ cla' = cla
    BY <1>5 DEF activate
  <2> QED
    BY <1>1, <1>2, <1>4, <1>5, <2>1, RecordTypes
<1>6. CASE result = "up"
  <2>1. elem' = [elem EXCEPT ![x] = q] /\ cla' = [cla EXCEPT ![x] = Started(x)]
    BY <1>6 DEF activate
  <2>2. q \in ElemRec /\ q.pc = "select" /\ ~q.stop
    BY DEF ElemRec
  <2>3. /\ Started(x) \in ClaRec /\ ~Started(x).failed
        /\ cla[x].pc = "none" => Started(x).pc \in {"hello", "run"}
        /\ cla[x].pc = "none" /\ x \in Clients => Started(x).pc = "hello"
    BY DEF Started, ClaRec, Clients
  <2> HIDE DEF q
  <2>4. /\ elem' \in [Convs -> ElemRec] /\ elem'[x] = q
        /\ \A c \in Convs \ {x} : elem'[c] = elem[c]
    BY <2>1, <2>2, ElemUpdate
  <2>5. /\ cla' \in [Convs -> ClaRec] /\ cla'[x] = Started(x)
        /\ \A c \in Convs \ {x} : cla'[c] = cla[c]
    BY <2>1, <2>3, ClaUpdate
  <2> QED
    BY <1>1, <1>2, <1>4, <1>6, <2>2, <2>3, <2>4, <2>5
<1> QED
  BY <1>5, <1>6

\* The CLA that is started did not run, unless its address is contested.
LEMMA RegStartInv == ASSUME IInv, NEW g \in Registrars, RegStart(g) PROVE IInv'
<1> USE AddressType DEF IInv
<1>1. PICK x \in Convs : x = reg[g].cla /\ reg[g].pc = "start" /\ reg[g] \in RegRec
  BY DEF RegStart, HoldInv, TypeOK, RegRec
<1>2. UNCHANGED <<convs, mutex, inChnl, mgr, send, view, closing, reach, count, contested>>
  BY DEF RegStart
<1>3. PICK result \in {"up", "retry", "never", "expired"} :
          /\ activate(x, result)
          /\ Goto(g, CASE reg[g].job = "register" /\ result \in {"up", "retry"} ->
                            [reg[g] EXCEPT !.pc = "store"]
                       [] reg[g].job = "retry" /\ result \in {"never", "expired"} ->
                            [reg[g] EXCEPT !.pc = "delete"]
                       [] OTHER -> NoJob)
  BY <1>1 DEF RegStart
<1>4. PICK r \in RegRec :
          /\ Goto(g, r)
          /\ \/ r.pc = "idle" /\ (result = "up" => reg[g].job = "retry")
             \/ r.pc = "store" /\ r.job = reg[g].job /\ r.cla = x
             \/ r.pc = "delete" /\ r.job = reg[g].job /\ r.cla = x /\ result # "up"
  <2>1. NoJob \in RegRec /\ NoJob.pc = "idle"
    BY DEF NoJob, RegRec
  <2>2. ASSUME NEW pc \in {"store", "delete"}
        PROVE  /\ [reg[g] EXCEPT !.pc = pc] \in RegRec
               /\ [reg[g] EXCEPT !.pc = pc].pc = pc
               /\ [reg[g] EXCEPT !.pc = pc].job = reg[g].job
               /\ [reg[g] EXCEPT !.pc = pc].cla = x
    BY <1>1 DEF RegRec
  <2>3. reg[g].job \in {"register", "retry"}
    BY <1>1 DEF HoldInv
  <2>4. \/ Goto(g, NoJob) /\ (result = "up" => reg[g].job = "retry")
        \/ Goto(g, [reg[g] EXCEPT !.pc = "store"])
        \/ Goto(g, [reg[g] EXCEPT !.pc = "delete"]) /\ result # "up"
    BY <1>3, <2>3
  <2> QED
    BY <2>1, <2>2, <2>4
<1>5. /\ reg' \in [Registrars -> RegRec] /\ reg'[g] = r
      /\ \A h \in Registrars \ {g} : reg'[h] = reg[h]
  BY <1>4, RegUpdate
<1> DEFINE a == Address[x]
<1>6. a \in Addresses
  OBVIOUS
<1>7. a \notin contested =>
          /\ \A h \in Registrars : Busy(h, a) => h = g
          /\ ~Restarting(a) /\ Free(a)
          /\ convs[a] \in {None, x} /\ (reg[g].job = "retry" => convs[a] = x)
          /\ elem[x].pc = "none" /\ cla[x].pc = "none"
  BY <1>1, <1>6 DEF CalmInv, RegInv, RunInv, Busy, Free, Contested
<1>8. /\ ttl' \in [Convs -> Int] /\ \A c \in Convs : ttl'[c] <= QueueTtl
      /\ elem' \in [Convs -> ElemRec] /\ cla' \in [Convs -> ClaRec]
      /\ \A c \in Convs \ {x} : ttl'[c] = ttl[c] /\ elem'[c] = elem[c] /\ cla'[c] = cla[c]
      /\ result # "up" => elem' = elem /\ cla' = cla
      /\ result = "up" => /\ ttl'[x] < 0
                          /\ elem'[x].pc = "select" /\ ~elem'[x].stop
                          /\ ~cla'[x].failed
                          /\ cla[x].pc = "none" => cla'[x].pc \in {"hello", "run"}
                          /\ cla[x].pc = "none" /\ x \in Clients => cla'[x].pc = "hello"
  BY <1>3, ActivateEffect
<1> HIDE DEF a
<1>9. Address[x] = a
  BY DEF a
<1> USE <1>1, <1>2, <1>4, <1>5, <1>6, <1>7, <1>8, <1>9
<1>10. TypeOK'
  BY DEF TypeOK, RegRec, ElemRec, ClaRec
<1>11. HoldInv' /\ StoreInv'
  <2>1. \A c \in Convs :
            elem'[c].pc = "forward" => elem'[c].msg \in Messages /\ elem'[c].msg.cla = c
    BY DEF HoldInv
  <2>2. /\ \A h \in Registrars :
               reg'[h].pc # "idle" => reg'[h].cla \in Convs /\ reg'[h].job \in {"register", "retry"}
        /\ reg'[Mgr].pc # "idle" => mgr.pc \in {"select", "tick", "forward"}
    <3>1. reg[g].job \in {"register", "retry"}
      BY DEF HoldInv
    <3>2. reg'[g].pc # "idle" => reg'[g].cla = x /\ reg'[g].job = reg[g].job
      OBVIOUS
    <3> QED
      BY <3>1, <3>2, ManagerRegisters DEF HoldInv
  <2>3. StoreInv'
    BY DEF StoreInv
  <2> QED
    BY <2>1, <2>2, <2>3 DEF HoldInv
<1>12. CalmInv'
  BY DEF CalmInv, Busy, Restarting
<1>13. RegInv'
  <2>1. ASSUME NEW h \in Registrars \ {g}, reg[h].pc # "idle", ~Contested(reg[h].cla)
        PROVE  /\ reg[h].cla \in Convs /\ Address[reg[h].cla] # a
               /\ \A d \in Convs : Address[d] = Address[reg[h].cla] => elem'[d] = elem[d]
    BY <2>1 DEF Busy, HoldInv, Contested
  <2>2. ASSUME mgr.pc \in {"await", "delete"}, ~Contested(mgr.msg.cla)
        PROVE  \A d \in Convs : Address[d] = Address[mgr.msg.cla] => elem'[d] = elem[d]
    BY <2>2 DEF Restarting, Contested
  <2>3. ASSUME a \notin contested
        PROVE  /\ r.pc = "delete" => Free(a)'
               /\ r.pc = "store" => \A d \in Convs \ {x} : Address[d] = a => elem'[d].pc = "none"
    BY <2>3 DEF Free
  <2> QED
    BY <2>1, <2>2, <2>3 DEF RegInv, Free, Contested, Stored
<1>14. RunInv'
  <2> SUFFICES ASSUME NEW c \in Convs, ~Contested(c)
               PROVE  /\ cla'[c].pc # "none" => elem'[c].pc # "none"
                      /\ cla'[c].pc # "twice"
                      /\ elem'[c].pc # "none" => Active(c)' /\ (Stored(c) \/ Storing(c))'
    BY DEF RunInv, Contested
  <2>1. CASE c # x
    BY <2>1 DEF RunInv, Active, Stored, Storing
  <2>2. CASE c = x
    BY <2>2 DEF RunInv, Active, Stored, Storing, Contested
  <2> QED
    BY <2>1, <2>2
<1>15. StopInv'
  BY DEF StopInv, Awaits, Contested
<1>16. FailInv'
  BY QueueSame DEF FailInv, FailureNoticed, Contested
<1>17. AnnounceInv'
  BY QueueSame DEF AnnounceInv, Announced, Contested
<1> QED
  BY <1>10, <1>11, <1>12, <1>13, <1>14, <1>15, <1>16, <1>17

LEMMA RegStoreInv == ASSUME IInv, NEW g \in Registrars, RegStore(g) PROVE IInv'
<1> USE AddressType DEF IInv
<1>1. PICK x \in Convs : x = reg[g].cla /\ reg[g].pc \in {"store", "delete"}
  BY DEF RegStore, HoldInv
<1>2. UNCHANGED <<ttl, elem, cla, mutex, inChnl, mgr, send, view, closing, reach, count, contested>>
  BY DEF RegStore
<1> DEFINE a == Address[x]
<1>3. /\ a \in Addresses /\ convs' \in [Addresses -> Convs \cup {None}]
      /\ \A b \in Addresses \ {a} : convs'[b] = convs[b]
      /\ convs'[a] = IF reg[g].pc = "store" THEN x ELSE None
  BY <1>1 DEF RegStore, TypeOK
<1>4. /\ reg' \in [Registrars -> RegRec] /\ reg'[g].pc = "idle"
      /\ \A h \in Registrars \ {g} : reg'[h] = reg[h]
  <2>1. NoJob \in RegRec /\ NoJob.pc = "idle" /\ Goto(g, NoJob)
    BY DEF NoJob, RegRec, RegStore
  <2> QED
    BY <2>1, RegUpdate
<1>5. a \notin contested =>
          /\ \A h \in Registrars : Busy(h, a) => h = g
          /\ ~Restarting(a)
          /\ \A d \in Convs : Address[d] = a /\ elem[d].pc # "none" =>
                                  d = x /\ reg[g].pc = "store"
  BY <1>1, <1>3 DEF CalmInv, RegInv, Busy, Free, Contested
<1> HIDE DEF a
<1>6. Address[x] = a
  BY DEF a
<1> USE <1>1, <1>2, <1>3, <1>4, <1>5, <1>6
<1>7. TypeOK'
  BY DEF TypeOK, RegRec
<1>8. HoldInv' /\ StoreInv'
  BY ManagerRegisters DEF HoldInv, StoreInv
<1>9. CalmInv'
  BY DEF CalmInv, Busy, Restarting
<1>10. RegInv'
  <2>1. ASSUME NEW h \in Registrars \ {g}, reg[h].pc # "idle", ~Contested(reg[h].cla)
        PROVE  reg[h].cla \in Convs /\ Address[reg[h].cla] # a
    BY <2>1 DEF Busy, HoldInv, Contested
  <2>2. ASSUME mgr.pc = "await", ~Contested(mgr.msg.cla)
        PROVE  Address[mgr.msg.cla] # a /\ mgr.msg.cla \in Convs
    BY <2>2, MessageType DEF Restarting, Contested, HoldInv
  <2> QED
    BY <2>1, <2>2 DEF RegInv, Free, Contested, Stored
<1>11. RunInv'
  <2> SUFFICES ASSUME NEW c \in Convs, ~Contested(c), elem[c].pc # "none"
               PROVE  (Stored(c) \/ Storing(c))'
    BY DEF RunInv, Contested, Active
  <2>1. CASE Address[c] = a
    BY <2>1 DEF Stored, Contested
  <2>2. CASE Address[c] # a
    BY <2>2 DEF RunInv, Stored, Storing
  <2> QED
    BY <2>1, <2>2
<1>12. StopInv'
  BY DEF StopInv, Awaits, Contested
<1>13. FailInv' /\ AnnounceInv'
  BY MessageFrame
<1> QED
  BY <1>7, <1>8, <1>9, <1>10, <1>11, <1>12, <1>13

-----------------------------------------------------------------------------
(* The Manager's handler                                                   *)

\* A step of the Manager's handler that concerns nobody else: it begins the
\* ticker's round or starts to range over the elements.
LEMMA MgrFrame ==
    ASSUME IInv, UNCHANGED <<links, mutex, inChnl, reg, send, view, surroundings, contested>>,
           mgr.pc \in {"select", "range"}, reg[Mgr].pc = "idle", mgr' \in MgrRec,
           mgr'.pc \in {"tick", "range"},
           closing # "done", closing' \in {closing, "range"}
    PROVE  IInv'
<1> USE AddressType DEF IInv
<1>1. TypeOK'
  BY DEF TypeOK, MgrRec
<1>2. HoldInv' /\ StoreInv'
  BY DEF HoldInv, StoreInv
<1>3. CalmInv' /\ RegInv'
  BY DEF CalmInv, RegInv, Busy, Restarting, Free, Contested, Stored
<1>4. RunInv' /\ StopInv'
  BY DEF RunInv, StopInv, Stored, Storing, Active, Awaits, Contested
<1>5. FailInv' /\ AnnounceInv'
  BY MessageFrame
<1> QED
  BY <1>1, <1>2, <1>3, <1>4, <1>5

LEMMA MgrTickInv == ASSUME IInv, MgrTick PROVE IInv'
<1>1. closing # "done"
  BY DEF MgrTick, MgrAt, IInv, HoldInv
<1> QED
  BY <1>1, MgrFrame DEF MgrTick, MgrAt, Waiting, MgrRec

LEMMA MgrStopInv == ASSUME IInv, MgrStop PROVE IInv'
<1>1. mgr' \in MgrRec /\ mgr'.pc = "range"
  BY DEF MgrStop, Waiting, MgrRec
<1> QED
  BY <1>1, MgrFrame DEF MgrStop, MgrAt

LEMMA MgrForwardInv == ASSUME IInv, MgrForward PROVE IInv'
<1> USE AddressType DEF IInv
<1>1. PICK k \in Messages : k = mgr.msg /\ k.cla \in Convs /\ k.type \in {"appeared", "disappeared", "received"}
  BY MessageType DEF MgrForward, MgrAt, HoldInv
<1>2. /\ mgr.pc = "forward" /\ mgr' = Waiting /\ reg[Mgr].pc = "idle" /\ closing = "no"
      /\ view' = [view EXCEPT ![k.cla] = k.type]
      /\ UNCHANGED <<convs, ttl, elem, cla, mutex, inChnl, reg, send, closing, reach, count,
                     contested>>
  BY <1>1 DEF MgrForward, MgrAt
<1> USE <1>2 DEF Waiting
<1>3. TypeOK'
  BY <1>1 DEF TypeOK
<1>4. HoldInv' /\ StoreInv'
  BY DEF HoldInv, StoreInv
<1>5. RunInv' /\ StopInv'
  BY DEF RunInv, StopInv, Stored, Storing, Active, Awaits, Contested
<1>6. CalmInv' /\ RegInv'
  BY DEF CalmInv, RegInv, Busy, Restarting, Free, Contested, Stored
<1>7. FailInv'
  BY QueueSame DEF FailInv, FailureNoticed, Contested
<1>8. AnnounceInv'
  <2> SUFFICES ASSUME NEW c \in Clients, ~Contested(c), elem[c].pc # "none" PROVE Announced(c)'
    BY DEF AnnounceInv, Contested
  <2>1. Announced(c)
    BY DEF AnnounceInv
  <2>2. k.cla = c => k = Appeared(c) \/ k = Disappeared(c)
    BY <1>1, MessageType
  <2>3. CASE k = Appeared(c)
    <3>1. view'[c] = "appeared"
      BY <2>3, <1>1 DEF Appeared, TypeOK
    <3> QED
      BY <3>1 DEF Announced
  <2>4. CASE k = Disappeared(c)
    <3>1. mgr.msg # Appeared(c) /\ mgr.msg = Disappeared(c)
      <4>1. Appeared(c) # Disappeared(c)
        BY DEF Appeared, Disappeared
      <4> QED
        BY <2>4, <1>1, <4>1
    <3>2. \A m : Queued(m)' <=> Queued(m)
      BY QueueSame
    <3>3. \/ cla[c].pc = "hello" \/ elem[c].stop \/ elem[c].pc = "forward"
          \/ Queued(Appeared(c)) \/ Queued(Disappeared(c))
      BY <2>1, <3>1 DEF Announced
    <3> QED
      BY <3>2, <3>3 DEF Announced
  <2>5. CASE k.cla # c
    <3>1. view'[c] = view[c] /\ k # Appeared(c)
      BY <2>5, <1>1, MessageType DEF TypeOK
    <3> QED
      BY <2>1, <3>1, <1>1, QueueSame DEF Announced
  <2> QED
    BY <2>2, <2>3, <2>4, <2>5
<1> QED
  BY <1>3, <1>4, <1>5, <1>6, <1>7, <1>8

\* After the wait nothing of the element's address runs.
LEMMA MgrAwaitInv == ASSUME IInv, MgrAwait PROVE IInv'
<1> USE AddressType DEF IInv
<1>1. PICK x \in Convs : x = mgr.msg.cla /\ mgr.msg \in Messages
  BY MessageType DEF MgrAwait, MgrAt, HoldInv
<1> DEFINE a == Address[x]
<1>2. /\ mgr.pc = "await" /\ elem[x].pc = "none" /\ reg[Mgr].pc = "idle" /\ a \in Addresses
      /\ ttl' = [ttl EXCEPT ![x] = QueueTtl]
      /\ mgr' = [mgr EXCEPT !.pc = "delete"]
      /\ UNCHANGED <<convs, elem, cla, mutex, inChnl, reg, send, view, closing, reach, count,
                     contested>>
  BY <1>1 DEF MgrAwait, MgrAt
<1>3. mgr' \in MgrRec /\ mgr'.pc = "delete" /\ mgr'.msg = mgr.msg
  BY <1>2 DEF TypeOK, MgrRec
<1>4. /\ ttl' \in [Convs -> Int] /\ \A c \in Convs : ttl'[c] <= QueueTtl
      /\ \A c \in Convs \ {x} : ttl'[c] = ttl[c]
  <2>1. ttl \in [Convs -> Int] /\ (\A c \in Convs : ttl[c] <= QueueTtl) /\ QueueTtl \in Int
    BY LinksAssumption DEF TypeOK
  <2>2. /\ ttl' \in [Convs -> Int] /\ ttl'[x] = QueueTtl
        /\ \A c \in Convs \ {x} : ttl'[c] = ttl[c]
    BY <1>2, <2>1
  <2> QED
    BY <2>1, <2>2
<1>5. a \notin contested => Free(a)
  <2> SUFFICES ASSUME a \notin contested, NEW d \in Convs, Address[d] = a, elem[d].pc # "none"
               PROVE  FALSE
    BY DEF Free
  <2>1. convs[a] = x /\ \A h \in Registrars : ~Busy(h, a)
    BY <1>1, <1>2 DEF RegInv, CalmInv, Contested, Stored, Restarting
  <2> QED
    BY <1>2, <2>1, RunsAsStored
<1> HIDE DEF a
<1>6. Address[x] = a
  BY DEF a
<1> USE <1>1, <1>2, <1>3, <1>4, <1>6
<1>7. TypeOK'
  BY DEF TypeOK, MgrRec
<1>8. HoldInv' /\ StoreInv'
  BY DEF HoldInv, StoreInv
<1>9. CalmInv'
  BY DEF CalmInv, Busy, Restarting
<1>10. RegInv'
  BY <1>5 DEF RegInv, Free, Contested, Stored
<1>11. RunInv' /\ StopInv'
  BY DEF RunInv, StopInv, Stored, Storing, Active, Awaits, Contested
<1>12. FailInv' /\ AnnounceInv'
  BY MessageFrame
<1> QED
  BY <1>7, <1>8, <1>9, <1>10, <1>11, <1>12

LEMMA MgrDeleteInv == ASSUME IInv, MgrDelete PROVE IInv'
<1> USE AddressType DEF IInv
<1>1. PICK x \in Convs : x = mgr.msg.cla /\ mgr.msg \in Messages
  BY MessageType DEF MgrDelete, MgrAt, HoldInv
<1> DEFINE a == Address[x]
<1>2. /\ mgr.pc = "delete" /\ reg[Mgr].pc = "idle" /\ a \in Addresses
      /\ convs' = [convs EXCEPT ![a] = None]
      /\ UNCHANGED <<ttl, elem, cla, mutex, inChnl, reg, send, view, closing, reach, count,
                     contested>>
  BY <1>1 DEF MgrDelete, MgrAt
<1>3. mgr' \in MgrRec /\ mgr'.pc \in {"range", "register"} /\ mgr'.msg = mgr.msg
  BY <1>2 DEF MgrDelete, TypeOK, MgrRec
<1>4. /\ convs' \in [Addresses -> Convs \cup {None}] /\ convs'[a] = None
      /\ \A b \in Addresses \ {a} : convs'[b] = convs[b]
  BY <1>2 DEF TypeOK
<1>5. a \notin contested => Free(a) /\ \A h \in Registrars : ~Busy(h, a)
  BY <1>1, <1>2 DEF RegInv, CalmInv, Contested, Restarting
<1> HIDE DEF a
<1>6. Address[x] = a
  BY DEF a
<1> USE <1>1, <1>2, <1>3, <1>4, <1>5, <1>6
<1>7. TypeOK'
  BY DEF TypeOK, MgrRec
<1>8. HoldInv' /\ StoreInv'
  BY DEF HoldInv, StoreInv
<1>9. CalmInv'
  BY DEF CalmInv, Busy, Restarting
<1>10. RegInv'
  <2>1. ASSUME NEW h \in Registrars, reg[h].pc # "idle", ~Contested(reg[h].cla)
        PROVE  reg[h].cla \in Convs /\ Address[reg[h].cla] # a
    BY <2>1 DEF Busy, HoldInv, Contested
  <2> QED
    BY <2>1 DEF RegInv, Free, Contested, Stored
<1>11. RunInv'
  BY DEF RunInv, Stored, Storing, Active, Contested, Free
<1>12. StopInv'
  BY DEF StopInv, Awaits, Contested
<1>13. FailInv' /\ AnnounceInv'
  BY MessageFrame
<1> QED
  BY <1>7, <1>8, <1>9, <1>10, <1>11, <1>12, <1>13

\* What unregisterConvergence does up to its wait, both for a message that
\* x disappeared and while the Manager closes down.
LEMMA UnregisterInv ==
    ASSUME IInv, NEW x \in Convs, Stored(x), reg[Mgr].pc = "idle",
           mgr.pc \in {"select", "range"}, NEW next \in MgrRec,
           unregisterConvergence(x, next), Enter(Mgr, Address[x]),
           inChnl' \in Seq(Messages), Len(inChnl') <= InCap,
           \A m : Queued(m) => m = Disappeared(x) \/ Queued(m)',
           UNCHANGED <<convs, ttl, cla, mutex, reg, send, view, closing, surroundings>>
    PROVE  IInv'
<1> USE AddressType DEF IInv
<1> DEFINE a == Address[x]
<1>1. /\ inChnl' \in Seq(Status) /\ convs[a] = x /\ a \in Addresses
      /\ Disappeared(x) \in Messages /\ Disappeared(x) \in Status /\ Disappeared(x).cla = x
      /\ \A c \in Convs \ {x} : Disappeared(c) # Disappeared(x) /\ Appeared(c) # Disappeared(x)
      /\ Appeared(x) # Disappeared(x)
  BY MessageType DEF Stored, Disappeared, Appeared
<1>2. \A c \in Convs \ {x} : /\ Queued(Disappeared(c)) => Queued(Disappeared(c))'
                             /\ Queued(Appeared(c)) => Queued(Appeared(c))'
  BY <1>1
<1>3. /\ contested \subseteq contested' /\ contested' \subseteq Addresses
      /\ a \notin contested' => a \notin contested /\ \A h \in Registrars : ~Busy(h, a)
  BY <1>1, EnterEffect, ManagerRegisters DEF Busy
<1>4. \A c \in Convs : ~Contested(c) => ~elem[c].stop
  BY DEF StopInv, Awaits
<1>5. ASSUME NEW pc \in {"panic", "await", "delete"},
             mgr' = [next EXCEPT !.pc = pc, !.msg = Disappeared(x)]
      PROVE  mgr' \in MgrRec /\ mgr'.pc = pc /\ mgr'.msg = Disappeared(x)
  BY <1>1, <1>5 DEF MgrRec
<1>6. PICK r \in ElemRec :
          /\ elem' = [elem EXCEPT ![x] = r] /\ r.pc = elem[x].pc /\ r.msg = elem[x].msg
          /\ mgr' \in MgrRec /\ mgr'.msg = Disappeared(x)
          /\ \/ r.stop /\ mgr'.pc = (IF elem[x].pc = "none" THEN "panic" ELSE "await")
             \/ r.stop = elem[x].stop /\ mgr'.pc = "delete" /\ ~Active(x)
  <2>1. CASE Active(x)
    <3> DEFINE r == [elem[x] EXCEPT !.stop = TRUE]
    <3>1. /\ elem' = [elem EXCEPT ![x] = r]
          /\ mgr' = [next EXCEPT !.pc = IF elem[x].pc = "none" THEN "panic" ELSE "await",
                                 !.msg = Disappeared(x)]
      BY <2>1 DEF unregisterConvergence
    <3>2. r \in ElemRec /\ r.pc = elem[x].pc /\ r.msg = elem[x].msg /\ r.stop
      BY RecordTypes DEF ElemRec
    <3> QED
      BY <1>5, <3>1, <3>2
  <2>2. CASE ~Active(x)
    <3>1. /\ elem' = elem /\ mgr' = [next EXCEPT !.pc = "delete", !.msg = Disappeared(x)]
      BY <2>2 DEF unregisterConvergence
    <3>2. elem' = [elem EXCEPT ![x] = elem[x]] /\ elem[x] \in ElemRec
      BY <3>1, RecordTypes
    <3> QED
      BY <1>5, <2>2, <3>1, <3>2
  <2> QED
    BY <2>1, <2>2
<1>7. /\ elem' \in [Convs -> ElemRec] /\ elem'[x] = r
      /\ \A c \in Convs \ {x} : elem'[c] = elem[c]
  BY <1>6, ElemUpdate
<1>8. a \notin contested' /\ ~Active(x) => Free(a)
  <2> SUFFICES ASSUME a \notin contested', ~Active(x),
                      NEW d \in Convs, Address[d] = a, elem[d].pc # "none"
               PROVE  FALSE
    BY DEF Free
  <2> QED
    BY <1>1, <1>3, RunsAsStored
<1>9. UNCHANGED <<convs, ttl, cla, mutex, reg, send, view, closing, reach, count>>
  OBVIOUS
<1> HIDE DEF a
<1>10. Address[x] = a
  BY DEF a
<1> USE <1>1, <1>3, <1>6, <1>7, <1>9, <1>10
<1>11. TypeOK'
  BY DEF TypeOK, ElemRec, MgrRec
<1>12. HoldInv' /\ StoreInv'
  <2>1. closing = "done" => FALSE
    BY DEF HoldInv
  <2>2. \A c \in Convs :
            elem'[c].pc = "forward" => elem'[c].msg \in Messages /\ elem'[c].msg.cla = c
    BY DEF HoldInv
  <2> QED
    BY <2>1, <2>2 DEF HoldInv, StoreInv
<1>13. CalmInv'
  BY DEF CalmInv, Busy, Restarting
<1>14. RegInv'
  <2>1. \A c \in Convs : elem'[c].pc = elem[c].pc
    OBVIOUS
  <2>2. mgr'.msg.cla = x /\ convs'[Address[x]] = x
    OBVIOUS
  <2>3. mgr'.pc = "delete" /\ a \notin contested' =>
            \A d \in Convs : Address[d] = a => elem'[d].pc = "none"
    BY <1>8, <2>1 DEF Free
  <2>4. \A g \in Registrars : reg[g].pc # "idle" /\ Address[reg[g].cla] \notin contested' =>
          /\ reg[g].pc # "load" => convs[Address[reg[g].cla]] \in {None, reg[g].cla}
          /\ reg[g].job = "retry" => reg[g].pc # "load" /\ convs[Address[reg[g].cla]] = reg[g].cla
          /\ reg[g].pc \in {"check", "start", "delete"} =>
                \A d \in Convs : Address[d] = Address[reg[g].cla] => elem'[d].pc = "none"
          /\ reg[g].pc = "store" =>
                \A d \in Convs \ {reg[g].cla} :
                    Address[d] = Address[reg[g].cla] => elem'[d].pc = "none"
    BY <2>1 DEF RegInv, Free, Contested
  <2> QED
    BY <2>2, <2>3, <2>4 DEF RegInv, Free, Contested, Stored
<1>15. RunInv'
  BY DEF RunInv, Stored, Storing, Active, Contested
<1>16. StopInv'
  BY <1>4 DEF StopInv, Awaits, Contested
<1>17. ASSUME NEW c \in Clients, c = x, a \notin contested', elem[c].pc # "none"
       PROVE  elem'[x].stop
  BY <1>8, <1>17 DEF Free
<1>18. FailInv'
  <2> SUFFICES ASSUME NEW c \in Clients, Address[c] \notin contested',
                      cla[c].pc # "none", cla[c].failed
               PROVE  FailureNoticed(c)'
    BY DEF FailInv, Contested
  <2>1. FailureNoticed(c) /\ elem[c].pc # "none"
    BY DEF FailInv, RunInv, Contested
  <2>2. CASE c = x
    BY <1>17, <2>1, <2>2 DEF FailureNoticed
  <2>3. CASE c # x
    <3>1. elem'[c] = elem[c] /\ (Queued(Disappeared(c)) => Queued(Disappeared(c))')
      BY <1>2, <2>3
    <3> QED
      BY <2>1, <3>1 DEF FailureNoticed
  <2> QED
    BY <2>2, <2>3
<1>19. AnnounceInv'
  <2> SUFFICES ASSUME NEW c \in Clients, Address[c] \notin contested', elem[c].pc # "none"
               PROVE  Announced(c)'
    BY DEF AnnounceInv, Contested
  <2>2. CASE c = x
    BY <1>17, <2>2 DEF Announced
  <2>3. CASE c # x
    <3>1. /\ elem'[c] = elem[c] /\ mgr'.msg # Disappeared(c) /\ mgr.pc # "forward"
          /\ Queued(Disappeared(c)) => Queued(Disappeared(c))'
          /\ Queued(Appeared(c)) => Queued(Appeared(c))'
      BY <1>2, <2>3
    <3>2. Announced(c)
      BY DEF AnnounceInv, Contested
    <3> QED
      BY <3>1, <3>2 DEF Announced
  <2> QED
    BY <2>2, <2>3
<1> QED
  BY <1>11, <1>12, <1>13, <1>14, <1>15, <1>16, <1>18, <1>19

LEMMA MgrTakeInv == ASSUME IInv, MgrTake PROVE IInv'
<1> USE AddressType DEF IInv
<1>1. /\ inChnl \in Seq(Messages) /\ inChnl # <<>> /\ inChnl' = Tail(inChnl)
      /\ mgr.pc = "select" /\ reg[Mgr].pc = "idle"
  BY DEF MgrTake, MgrAt, HoldInv
<1>2. PICK k \in Messages : k = Head(inChnl)
  BY <1>1, QueueTail
<1>3. /\ inChnl' \in Seq(Messages) /\ Len(inChnl') = Len(inChnl) - 1
      /\ \A m : Queued(m) => m = k \/ Queued(m)'
  BY <1>1, <1>2, QueueTail
<1>4. /\ Len(inChnl') <= InCap /\ inChnl' \in Seq(Status)
      /\ k \in Status /\ k.cla \in Convs
  BY <1>1, <1>3, MessageType, LinksAssumption DEF TypeOK
<1>5. UNCHANGED <<convs, ttl, cla, mutex, reg, send, view, closing, reach, count>>
  BY DEF MgrTake
<1>6. CASE k.type = "disappeared" /\ Stored(k.cla)
  <2>1. k = Disappeared(k.cla)
    BY <1>4, <1>6 DEF Disappeared, Status
  <2> DEFINE next == [pc |-> "await", msg |-> k, todo |-> {}]
  <2>2. unregisterConvergence(k.cla, next) /\ Enter(Mgr, Address[k.cla])
    BY <1>2, <1>6 DEF MgrTake
  <2>3. next \in MgrRec
    BY <1>4 DEF MgrRec
  <2> HIDE DEF next
  <2> QED
    BY <1>1, <1>3, <1>4, <1>5, <1>6, <2>1, <2>2, <2>3, UnregisterInv
<1>7. CASE ~(k.type = "disappeared" /\ Stored(k.cla))
  <2>1. /\ mgr' = [pc |-> IF k.type = "disappeared" THEN "register" ELSE "forward",
                   msg |-> k, todo |-> {}]
        /\ elem' = elem
        /\ k.type = "disappeared" => Enter(Mgr, Address[k.cla])
        /\ k.type # "disappeared" => contested' = contested
    BY <1>2, <1>7 DEF MgrTake
  <2>2. /\ contested \subseteq contested' /\ contested' \subseteq Addresses
        /\ k.type = "disappeared" /\ Address[k.cla] \notin contested' =>
              \A h \in Registrars : ~Busy(h, Address[k.cla])
    BY <1>1, <1>4, <2>1, EnterEffect, ManagerRegisters DEF Busy, TypeOK
  <2>3. ASSUME NEW c \in Clients, Address[c] \notin contested', elem[c].pc # "none"
        PROVE  k # Disappeared(c)
    <3> SUFFICES ASSUME k = Disappeared(c) PROVE FALSE
      OBVIOUS
    <3>1. k.type = "disappeared" /\ k.cla = c
      BY DEF Disappeared
    <3>2. Address[c] \notin contested /\ \A h \in Registrars : ~Busy(h, Address[c])
      BY <2>2, <2>3, <3>1
    <3> QED
      BY <1>7, <2>3, <3>1, <3>2, RunsAsStored DEF Stored
  <2>4. mgr' \in MgrRec /\ mgr'.msg = k /\ mgr'.pc \in {"register", "forward"}
        /\ (mgr'.pc = "register" => k.type = "disappeared")
    BY <1>4, <2>1 DEF MgrRec
  <2> USE <1>1, <1>4, <1>5, <2>1, <2>2, <2>4
  <2>5. TypeOK'
    BY DEF TypeOK, MgrRec
  <2>6. HoldInv' /\ StoreInv'
    <3>1. closing # "done"
      BY DEF HoldInv
    <3> QED
      BY <1>3, <3>1 DEF HoldInv, StoreInv
  <2>7. CalmInv'
    BY DEF CalmInv, Busy, Restarting
  <2>8. RegInv'
    BY DEF RegInv, Free, Contested, Stored
  <2>9. RunInv' /\ StopInv'
    BY DEF RunInv, StopInv, Stored, Storing, Active, Awaits, Contested
  <2>10. FailInv'
    <3> SUFFICES ASSUME NEW c \in Clients, Address[c] \notin contested',
                        cla[c].pc # "none", cla[c].failed
                 PROVE  FailureNoticed(c)'
      BY DEF FailInv, Contested
    <3>1. FailureNoticed(c) /\ elem[c].pc # "none"
      BY DEF FailInv, RunInv, Contested
    <3>2. Queued(Disappeared(c)) => Queued(Disappeared(c))'
      BY <1>3, <2>3, <3>1
    <3> QED
      BY <3>1, <3>2 DEF FailureNoticed
  <2>11. AnnounceInv'
    <3> SUFFICES ASSUME NEW c \in Clients, Address[c] \notin contested', elem[c].pc # "none"
                 PROVE  Announced(c)'
      BY DEF AnnounceInv, Contested
    <3>1. Announced(c) /\ k # Disappeared(c)
      BY <2>3 DEF AnnounceInv, Contested
    <3>2. /\ Queued(Disappeared(c)) => Queued(Disappeared(c))'
          /\ Queued(Appeared(c)) => k = Appeared(c) \/ Queued(Appeared(c))'
      BY <1>3, <3>1
    <3>3. k = Appeared(c) => mgr'.pc = "forward" /\ mgr'.msg = Appeared(c)
      BY DEF Appeared
    <3> QED
      BY <3>1, <3>2, <3>3 DEF Announced
  <2> QED
    BY <2>5, <2>6, <2>7, <2>8, <2>9, <2>10, <2>11
<1> QED
  BY <1>6, <1>7

LEMMA MgrRangeInv == ASSUME IInv, MgrRange PROVE IInv'
<1> USE AddressType DEF IInv
<1>1. /\ mgr.pc = "range" /\ reg[Mgr].pc = "idle" /\ closing # "done"
      /\ UNCHANGED <<convs, ttl, cla, mutex, reg, send, view, reach, count>>
  BY DEF MgrRange, MgrAt, HoldInv
<1>2. ASSUME NEW a \in mgr.todo, convs[a] # None,
             unregisterConvergence(convs[a], [mgr EXCEPT !.todo = @ \ {a}]), Enter(Mgr, a),
             UNCHANGED <<inChnl, closing>>
      PROVE  IInv'
  <2>1. PICK x \in Convs : x = convs[a] /\ a \in Addresses
    BY <1>2 DEF TypeOK
  <2>2. Address[x] = a /\ Stored(x)
    BY <1>2, <2>1 DEF StoreInv, Stored
  <2> DEFINE next == [mgr EXCEPT !.todo = @ \ {a}]
  <2>3. next \in MgrRec
    BY <1>1 DEF TypeOK, MgrRec
  <2>4. inChnl' \in Seq(Messages) /\ Len(inChnl') <= InCap
    BY <1>2 DEF HoldInv, TypeOK
  <2>5. unregisterConvergence(x, next) /\ Enter(Mgr, Address[x])
    BY <1>2, <2>1, <2>2
  <2> HIDE DEF next
  <2> QED
    BY <1>1, <1>2, <2>2, <2>3, <2>4, <2>5, QueueSame, UnregisterInv
<1>3. ASSUME NEW a \in mgr.todo, mgr' = [mgr EXCEPT !.todo = @ \ {a}],
             UNCHANGED <<elem, contested, inChnl, closing>>
      PROVE  IInv'
  <2>1. mgr' \in MgrRec /\ mgr'.pc = "range"
    BY <1>1, <1>3 DEF TypeOK, MgrRec
  <2> QED
    BY <1>1, <1>3, <2>1, MgrFrame
<1>4. ASSUME mgr' = [mgr EXCEPT !.pc = "ended"], closing' = "done",
             inChnl' = <<>>, UNCHANGED <<elem, contested>>
      PROVE  IInv'
  <2>1. mgr' \in MgrRec /\ mgr'.pc = "ended"
    BY <1>4 DEF TypeOK, MgrRec
  <2>2. inChnl' \in Seq(Messages) /\ inChnl' \in Seq(Status) /\ Len(inChnl') <= InCap
    BY <1>4, LinksAssumption
  <2> USE <1>1, <1>4, <2>1, <2>2
  <2>3. TypeOK'
    BY DEF TypeOK, MgrRec
  <2>4. HoldInv' /\ StoreInv'
    BY DEF HoldInv, StoreInv
  <2>5. CalmInv' /\ RegInv'
    BY DEF CalmInv, RegInv, Busy, Restarting, Free, Contested, Stored
  <2>6. RunInv' /\ StopInv'
    BY DEF RunInv, StopInv, Stored, Storing, Active, Awaits, Contested
  <2>7. FailInv' /\ AnnounceInv'
    BY DEF FailInv, AnnounceInv, FailureNoticed, Announced
  <2> QED
    BY <2>3, <2>4, <2>5, <2>6, <2>7
<1> QED
  BY <1>2, <1>3, <1>4 DEF MgrRange

\* The Manager's handler goes on from its message to Register.
LEMMA MgrRegisterInv == ASSUME IInv, MgrRegister PROVE IInv'
<1> USE AddressType DEF IInv
<1>1. PICK x \in Convs : x = mgr.msg.cla /\ mgr.msg \in Messages
  BY MessageType DEF MgrRegister, MgrAt, HoldInv
<1>2. /\ mgr.pc = "register" /\ reg[Mgr].pc = "idle" /\ Mgr \in Registrars
      /\ UNCHANGED <<convs, ttl, elem, cla, mutex, inChnl, send, view, closing, reach, count>>
  BY ManagerRegisters DEF MgrRegister, MgrAt
<1>3. mgr' \in MgrRec /\ mgr'.pc = "forward" /\ mgr'.msg = mgr.msg
  BY DEF MgrRegister, TypeOK, MgrRec
<1>4. /\ reg' \in [Registrars -> RegRec]
      /\ \A h \in Registrars \ {Mgr} : reg'[h] = reg[h]
      /\ contested \subseteq contested' /\ contested' \subseteq Addresses
      /\ \/ reg'[Mgr].pc = "idle"
         \/ /\ reg'[Mgr].pc = "load" /\ reg'[Mgr].job = "register" /\ reg'[Mgr].cla = x
            /\ Address[x] \notin contested' => \A h \in Registrars : ~Busy(h, Address[x])
  <2>1. CASE closing = "no"
    <3> DEFINE r == [pc |-> "load", job |-> "register", cla |-> x]
    <3>1. Goto(Mgr, r) /\ Enter(Mgr, Address[x])
      BY <1>1, <2>1 DEF MgrRegister, RegisterCla
    <3>2. r \in RegRec /\ r.pc = "load" /\ r.job = "register" /\ r.cla = x
      BY DEF RegRec
    <3> HIDE DEF r
    <3> QED
      BY <1>2, <3>1, <3>2, RegUpdate, EnterEffect DEF Busy
  <2>2. CASE closing # "no"
    BY <1>2, <2>2 DEF MgrRegister, TypeOK, RegRec
  <2> QED
    BY <2>1, <2>2
<1> USE <1>1, <1>2, <1>3, <1>4
<1>5. TypeOK'
  BY DEF TypeOK, MgrRec, RegRec
<1>6. HoldInv' /\ StoreInv'
  <2>1. closing # "done"
    BY DEF HoldInv
  <2> QED
    BY <2>1 DEF HoldInv, StoreInv
<1>7. CalmInv'
  BY DEF CalmInv, Busy, Restarting
<1>8. RegInv'
  BY DEF RegInv, Free, Contested, Stored
<1>9. RunInv' /\ StopInv'
  BY DEF RunInv, StopInv, Stored, Storing, Active, Awaits, Contested
<1>10. FailInv' /\ AnnounceInv'
  BY MessageFrame
<1> QED
  BY <1>5, <1>6, <1>7, <1>8, <1>9, <1>10

\* The ticker takes up an element that is stored and does not run.
LEMMA MgrActivateInv == ASSUME IInv, MgrActivate PROVE IInv'
<1> USE AddressType DEF IInv
<1>1. PICK a \in mgr.todo :
          /\ mgr' = IF mgr.todo = {a} THEN Waiting ELSE [mgr EXCEPT !.todo = @ \ {a}]
          /\ IF convs[a] # None /\ ~Active(convs[a])
             THEN /\ Goto(Mgr, [pc |-> "check", job |-> "retry", cla |-> convs[a]])
                  /\ Enter(Mgr, a)
             ELSE UNCHANGED <<reg, contested>>
  BY DEF MgrActivate
<1>2. /\ mgr.pc = "tick" /\ reg[Mgr].pc = "idle" /\ Mgr \in Registrars /\ a \in Addresses
      /\ UNCHANGED <<convs, ttl, elem, cla, mutex, inChnl, send, view, closing, reach, count>>
  BY ManagerRegisters DEF MgrActivate, MgrAt, TypeOK
<1>3. mgr' \in MgrRec /\ mgr'.pc \in {"select", "tick"}
  BY <1>1, <1>2 DEF TypeOK, MgrRec, Waiting
<1>4. /\ reg' \in [Registrars -> RegRec]
      /\ \A h \in Registrars \ {Mgr} : reg'[h] = reg[h]
      /\ contested \subseteq contested' /\ contested' \subseteq Addresses
      /\ \/ reg'[Mgr].pc = "idle"
         \/ /\ reg'[Mgr].pc = "check" /\ reg'[Mgr].job = "retry"
            /\ reg'[Mgr].cla = convs[a] /\ convs[a] \in Convs /\ Address[convs[a]] = a
            /\ a \notin contested' => Free(a) /\ \A h \in Registrars : ~Busy(h, a)
  <2>1. CASE convs[a] # None /\ ~Active(convs[a])
    <3>1. PICK x \in Convs : x = convs[a] /\ Address[x] = a
      BY <1>2, <2>1 DEF TypeOK, StoreInv
    <3> DEFINE r == [pc |-> "check", job |-> "retry", cla |-> x]
    <3>2. Goto(Mgr, r) /\ Enter(Mgr, a)
      BY <1>1, <2>1, <3>1
    <3>3. r \in RegRec /\ r.pc = "check" /\ r.job = "retry" /\ r.cla = x
      BY DEF RegRec
    <3> HIDE DEF r
    <3>4. /\ contested \subseteq contested' /\ contested' \subseteq Addresses
          /\ a \notin contested' => \A h \in Registrars : ~Busy(h, a)
      BY <1>2, <3>2, EnterEffect DEF Busy
    <3>5. a \notin contested' => Free(a)
      <4> SUFFICES ASSUME a \notin contested', NEW d \in Convs, Address[d] = a, elem[d].pc # "none"
                   PROVE  FALSE
        BY DEF Free
      <4> QED
        BY <1>2, <2>1, <3>4, RunsAsStored
    <3> QED
      BY <1>2, <3>1, <3>2, <3>3, <3>4, <3>5, RegUpdate
  <2>2. CASE ~(convs[a] # None /\ ~Active(convs[a]))
    BY <1>1, <1>2, <2>2 DEF TypeOK, RegRec
  <2> QED
    BY <2>1, <2>2
<1> USE <1>2, <1>3, <1>4
<1>5. TypeOK'
  BY DEF TypeOK, MgrRec, RegRec
<1>6. HoldInv' /\ StoreInv'
  <2>1. closing # "done"
    BY DEF HoldInv
  <2> QED
    BY <2>1 DEF HoldInv, StoreInv
<1>7. CalmInv'
  BY DEF CalmInv, Busy, Restarting
<1>8. RegInv'
  BY DEF RegInv, Free, Contested, Stored
<1>9. RunInv' /\ StopInv'
  BY DEF RunInv, StopInv, Stored, Storing, Active, Awaits, Contested
<1>10. FailInv' /\ AnnounceInv'
  BY MessageFrame
<1> QED
  BY <1>5, <1>6, <1>7, <1>8, <1>9, <1>10

-----------------------------------------------------------------------------
(* Theorems                                                                *)

LEMMA NextInv == ASSUME IInv, [Next]_vars PROVE IInv'
<1> USE AddressType
<1>1. CASE Manage
  BY <1>1, MgrTakeInv, MgrAwaitInv, MgrDeleteInv, MgrRegisterInv, MgrForwardInv, MgrTickInv,
     MgrActivateInv, MgrStopInv, MgrRangeInv DEF Manage
<1>2. CASE CoreClose
  BY <1>2, CoreCloseInv
<1>3. ASSUME NEW c \in Convs, Supervise(c) \/ Serve(c) \/ Incoming(c)
      PROVE  IInv'
  BY <1>3, ElemForwardInv, ElemStopInv, ElemAckInv, ClaReportInv, ClaStopInv,
     KeepaliveInv, IncomingInv DEF Supervise, Serve
<1>4. ASSUME NEW s \in Senders, SendChoose(s) \/ Transmit(s) PROVE IInv'
  BY <1>4, SendChooseInv, SendWriteInv, SendProbeInv, SendReportInv DEF Transmit
<1>5. ASSUME NEW a \in {Address[c] : c \in Clients}, PeerDown(a) \/ PeerUp(a) PROVE IInv'
  <2>1. a \in Addresses
    OBVIOUS
  <2> QED
    BY <1>5, <2>1, PeerDownInv, PeerUpInv
<1>6. ASSUME NEW g \in Registrars, Registration(g) PROVE IInv'
  BY <1>6, RegLoadInv, RegCheckInv, RegStartInv, RegStoreInv DEF Registration
<1>7. ASSUME NEW g \in Discoverers, NEW c \in Convs, Register(g, c) PROVE IInv'
  BY <1>7, RegisterInv
<1>8. CASE UNCHANGED vars
  BY <1>8, StutterInv
<1> QED
  BY <1>1, <1>2, <1>3, <1>4, <1>5, <1>6, <1>7, <1>8 DEF Next

\* The invariant behind the theorems below holds in every state of the
\* Manager, its elements, the CLAs and the goroutines that send and register.
THEOREM Inductive == Spec => []IInv
BY InitInv, NextInv, PTL DEF Spec

\* Every variable keeps its type; the Manager's inChnl stays within its
\* capacity and ttl within the ten attempts of NewManager.
THEOREM TypeCorrect == Spec => []TypeOK
<1>1. IInv => TypeOK
  BY DEF IInv
<1> QED
  BY <1>1, Inductive, PTL

\* Unless two goroutines register, restart or close CLAs of its address at a
\* time, a CLA whose goroutines run is active, and stored or about to be.
THEOREM Supervised == Spec => []RunningIsSupervised
<1>1. IInv => RunningIsSupervised
  BY DEF IInv, RunInv, RunningIsSupervised, Running, Storing
<1> QED
  BY <1>1, Inductive, PTL

\* A client whose connection failed in Send or in its keepalive is restarted
\* or a report of it is under way, however many goroutines send to it.
THEOREM FailureNotLost == Spec => []FailedIsRestarted
<1>1. IInv => FailedIsRestarted
  <2> SUFFICES ASSUME IInv, NEW c \in Clients, Quiet(c), ~Contested(c), cla[c].failed PROVE FALSE
    BY RecordTypes, AddressType DEF FailedIsRestarted, IInv, ClaRec
  <2>1. FailureNoticed(c)
    BY DEF IInv, FailInv, Quiet
  <2>2. ~Queued(Disappeared(c))
    BY DEF Quiet, Queued
  <2>3. ~elem[c].stop /\ closing # "done"
    BY AddressType DEF IInv, StopInv, HoldInv, Quiet, MgrAt, Awaits
  <2>4. ASSUME NEW s \in Senders, send[s].pc = "report", send[s].to = c PROVE FALSE
    <3>1. send[s] = [pc |-> "report", to |-> c]
      BY <2>4, RecordTypes DEF SendRec, IInv
    <3> QED
      BY <3>1 DEF Quiet
  <2> QED
    BY <2>1, <2>2, <2>3, <2>4 DEF FailureNoticed, Quiet
<1> QED
  BY <1>1, Inductive, PTL

\* A client that runs undisturbed was announced to the Core last, whatever
\* restarts and reports overlapped before.
THEOREM AnnouncementNotLost == Spec => []RunningIsAnnounced
<1>1. IInv => RunningIsAnnounced
  <2> SUFFICES ASSUME IInv, NEW c \in Clients, Quiet(c), ~Contested(c)
               PROVE  view[c] = "appeared"
    BY DEF RunningIsAnnounced
  <2>1. Announced(c)
    BY DEF IInv, AnnounceInv, Quiet
  <2>2. ~Queued(Disappeared(c)) /\ ~Queued(Appeared(c))
    BY DEF Quiet, Queued
  <2>3. ~elem[c].stop /\ closing # "done"
    BY AddressType DEF IInv, StopInv, HoldInv, Quiet, MgrAt, Awaits
  <2> QED
    BY <2>1, <2>2, <2>3 DEF Announced, Quiet, MgrAt
<1> QED
  BY <1>1, Inductive, PTL
=============================================================================
