-------------------------------- MODULE Core --------------------------------
(***************************************************************************)
(* The bundle processing of one node: Core (core.go, processing.go),       *)
(* BundleDescriptor, EpidemicRouting, the AgentManager's delivery, the     *)
(* IdKeeper and the jobs that cmd/dtnd registers with Cron.                *)
(*                                                                         *)
(* The goroutines that run this code share the store without any lock:     *)
(* "handler" is Core.handler, "agent" is AgentManager.handler, and every   *)
(* member of CronJobs is a goroutine Cron started for CheckPendingBundles. *)
(* A step of a goroutine goes up to and including its next access to the   *)
(* store; every read-modify-write of an item is therefore two steps.       *)
(* A status report is sent by a nested SendBundle of the same goroutine:   *)
(* frame <<p, 2>> is the callee of frame <<p, 1>>.                         *)
(***************************************************************************)
EXTENDS Descriptor

CONSTANTS
    Inbound,       \* bundles that neighbours may send to this node
    Outbound,      \* bundles that application agents may send
    CronJobs,      \* concurrently running CheckPendingBundles jobs
    Leaving,       \* neighbours whose connection may get lost
    AgentEids,     \* endpoints application agents may register
    Mortal,        \* bundles whose lifetime may end
    OldTuples,     \* idTuples with a time before IdKeeper.Clean's threshold
    InspectAll,    \* Core.InspectAllBundles
    MaxReceptions, \* bound: receptions of one bundle
    MaxCrashes     \* bound: crashes of the node

ASSUME CoreAssumption ==
    /\ Inbound \subseteq Bundles
    /\ Outbound \subseteq Bundles
    /\ CronJobs \cap {"handler", "agent"} = {}
    /\ Leaving \subseteq Peers
    /\ AgentEids \subseteq Endpoints
    /\ Mortal \subseteq Bundles
    /\ OldTuples \subseteq Tuples
    /\ InspectAll \in BOOLEAN
    /\ MaxReceptions \in Nat
    /\ MaxCrashes \in Nat
    /\ \A b \in Bundles :
          /\ ~Attr[b].admin => Attr[b].reports # {}
          /\ \A r \in Attr[b].reports : Attr[r].admin

Procs == {"handler", "agent"} \cup CronJobs
Frames == Procs \X {1, 2}

VARIABLES
    store,      \* the badgerhold database: key -> BundleItem
    fr,         \* call frames: the local variables of the goroutines
    todo,       \* what is left of a CheckPendingBundles loop
    idk,        \* IdKeeper.data
    peers,      \* claManager.Sender(): connected neighbours
    news,       \* PeerAppeared messages the handler has not yet received
    agents,     \* endpoints of the registered application agents
    expired,    \* bundles whose lifetime is exceeded
    crashes,    \* number of crashes so far
    \* What the environment has seen; no action of the node reads these.
    receptions, \* how often each bundle was received or sent by an agent
    got,        \* got[b]: neighbours that sent b or received it
    reached     \* bundles that reached their destination

shared == <<store, got>>
world == <<peers, news, agents, expired, crashes, receptions>>
vars == <<store, fr, todo, idk, peers, news, agents, expired, crashes,
          receptions, got, reached>>

-----------------------------------------------------------------------------
Labels == {"idle", "new", "sync", "resync", "receive", "received", "blocks",
           "notify", "notifyDst", "notifySent", "transmit", "transmitSync",
           "transmitted", "dispatch", "senders", "markPending", "load",
           "forward", "check", "route", "routed", "sending", "forwarded", "inspect",
           "local", "localSync", "deliver", "handover", "delivered",
           "delete", "purge"}

SendStates == {"none", "send", "failed", "sent", "done"}

FrameRec ==
    [pc : Labels,
     after : Labels,                        \* where Sync returns to
     recv : BOOLEAN,                        \* the bundle came from a neighbour
     bid : Bundles \cup {None},             \* descriptor.bndl
     id : Ids \cup {None},                  \* descriptor.Id
     cons : SUBSET Constraint,              \* descriptor.Constraints
     prev : Peers \cup {None},              \* the bundle's PreviousNodeBlock
     bi : Items \cup {None},                \* the item read last
     del : BOOLEAN,                         \* deleteAfterwards
     snd : [Peers -> SendStates],           \* the sending goroutines
     rbi : [Peers -> Items \cup {None}]]    \* what their ReportFailure read

IdleFrame ==
    [pc |-> "idle", after |-> "idle", recv |-> FALSE, bid |-> None,
     id |-> None, cons |-> {}, prev |-> None, bi |-> None, del |-> FALSE,
     snd |-> [p \in Peers |-> "none"], rbi |-> [p \in Peers |-> None]]

\* Every variable has its type.
TypeOK ==
    /\ store \in [Ids -> Items \cup {None}]
    /\ fr \in [Frames -> FrameRec]
    /\ todo \in [Procs -> SUBSET Ids]
    /\ idk \in [Tuples -> (0 .. MaxSeq) \cup {None}]
    /\ peers \in SUBSET Peers
    /\ news \in SUBSET Peers
    /\ agents \in SUBSET AgentEids
    /\ expired \in SUBSET Mortal
    /\ crashes \in 0 .. MaxCrashes
    /\ receptions \in [Bundles -> 0 .. MaxReceptions]
    /\ got \in [Bundles -> SUBSET Peers]
    /\ reached \in SUBSET Bundles

Init ==
    /\ store = [i \in Ids |-> None]
    /\ fr = [f \in Frames |-> IdleFrame]
    /\ todo = [p \in Procs |-> {}]
    /\ idk = [t \in Tuples |-> None]
    /\ peers = {}
    /\ news = {}
    /\ agents = {}
    /\ expired = {}
    /\ crashes = 0
    /\ receptions = [b \in Bundles |-> 0]
    /\ got = [b \in Bundles |-> {}]
    /\ reached = {}

-----------------------------------------------------------------------------
(***************************************************************************)
(* Core.HasEndpoint.  The CLAs' own endpoints are represented by Self.     *)
(***************************************************************************)
HasEndpoint(e) == e = Self \/ e \in agents

\* A caller waits for the SendBundle it called.
At(f, label) ==
    /\ fr[f].pc = label
    /\ f[2] = 1 => fr[<<f[1], 2>>].pc = "idle"

Idle(p) == fr[<<p, 1>>].pc = "idle" /\ todo[p] = {}

Goto(f, r) == fr' = [fr EXCEPT ![f] = r]

Jump(f, label) == Goto(f, [fr[f] EXCEPT !.pc = label])

\* A write of item i that may remove it.
Put(i, item) ==
    /\ store' = [store EXCEPT ![i] = item]
    /\ UNCHANGED got

(***************************************************************************)
(* BundleDescriptor.Sync with constraints c: the query.                    *)
(***************************************************************************)
Sync(f, c, after) ==
    Goto(f, [fr[f] EXCEPT !.pc = "sync", !.after = after, !.cons = c,
                          !.bi = store[fr[f].id]])

(***************************************************************************)
(* BundleDescriptor.Sync: the write.  Only AgentManager.Deliver looks at   *)
(* the returned error; it does not hand the bundle over then.              *)
(***************************************************************************)
SyncWrite(f) ==
    /\ At(f, "sync")
    /\ LET r == fr[f]
           old == store[r.id]
       IN \E err \in SyncErrors(r.bi, old, r.cons) :
            /\ Put(r.id, Synced(r.bi, old, r.bid, r.cons))
            /\ IF r.after = "idle"
               THEN Goto(f, IdleFrame)
               ELSE Goto(f, [r EXCEPT
                      !.pc = IF err /\ r.after = "handover"
                             THEN "delivered" ELSE r.after,
                      !.after = "idle", !.bi = None])
    /\ UNCHANGED <<todo, idk, world, reached>>

(***************************************************************************)
(* The frame of a SendBundle call or of a received bundle, after the query *)
(* of NewBundleDescriptor.                                                 *)
(***************************************************************************)
NewDescriptor(b) ==
    [IdleFrame EXCEPT !.pc = "new", !.bid = b, !.id = InitialId(b),
                      !.cons = StoredConstraints(store[InitialId(b)])]

(***************************************************************************)
(* Core.SendStatusReport if wanted, then continue at label.                *)
(***************************************************************************)
ReportThen(f, wanted, label) ==
    LET b == fr[f].bid
    IN IF ~wanted \/ Attr[b].admin
       THEN Jump(f, label)
       ELSE \E s \in Attr[b].reports :
              IF HasEndpoint(Attr[s].dst)
              THEN Jump(f, label)
              ELSE fr' = [fr EXCEPT ![f] = [fr[f] EXCEPT !.pc = label],
                                    ![<<f[1], 2>>] = NewDescriptor(s)]

-----------------------------------------------------------------------------
\* Core.handler and Core.receive.

(***************************************************************************)
(* The handler takes a ReceivedBundle message; p is the neighbour in the   *)
(* PreviousNodeBlock, None if there is no such block.  The destination     *)
(* itself delivers a bundle and does not forward it.                       *)
(***************************************************************************)
HandleReceived(b, p) ==
    /\ Idle("handler")
    /\ p # Attr[b].dst
    /\ receptions[b] < MaxReceptions
    /\ receptions' = [receptions EXCEPT ![b] = @ + 1]
    /\ got' = [got EXCEPT ![b] = @ \cup ({p} \ {None})]
    /\ Goto(<<"handler", 1>>,
            [NewDescriptor(b) EXCEPT !.recv = TRUE, !.prev = p])
    /\ UNCHANGED <<store, todo, idk, peers, news, agents, expired, crashes,
                   reached>>

(***************************************************************************)
(* The handler takes a PeerAppeared message: CheckPendingBundles.          *)
(***************************************************************************)
PendingIds == {i \in Ids : store[i] # None /\ store[i].pending}

HandlePeerAppeared(p) ==
    /\ Idle("handler")
    /\ p \in news
    /\ news' = news \ {p}
    /\ todo' = [todo EXCEPT !["handler"] = PendingIds]
    /\ UNCHANGED <<shared, fr, idk, peers, agents, expired, crashes,
                   receptions, reached>>

\* NewBundleDescriptorFromBundle's Sync.
NewFromBundle(f) ==
    /\ At(f, "new")
    /\ Sync(f, fr[f].cons, IF fr[f].recv THEN "resync" ELSE "notify")
    /\ UNCHANGED <<shared, todo, idk, world, reached>>

\* The Sync of Core.handler after Receiver was set.
Resync(f) ==
    /\ At(f, "resync")
    /\ Sync(f, fr[f].cons, "receive")
    /\ UNCHANGED <<shared, todo, idk, world, reached>>

Receive(f) ==
    /\ At(f, "receive")
    /\ IF fr[f].cons # {} THEN Goto(f, IdleFrame)
                          ELSE Sync(f, {DP}, "received")
    /\ UNCHANGED <<shared, todo, idk, world, reached>>

Received(f) ==
    /\ At(f, "received")
    /\ ReportThen(f, "received" \in Attr[fr[f].bid].requests, "blocks")
    /\ UNCHANGED <<shared, todo, idk, world, reached>>

\* The loop over the unknown canonical blocks.
CheckBlocks(f) ==
    /\ At(f, "blocks")
    /\ LET flags == Attr[fr[f].bid].unknown
       IN ReportThen(f, "report" \in flags,
                     IF "delete" \in flags THEN "delete" ELSE "notify")
    /\ UNCHANGED <<shared, todo, idk, world, reached>>

-----------------------------------------------------------------------------
\* EpidemicRouting.NotifyNewBundle.

AfterNotify(r) ==
    [r EXCEPT !.pc = IF r.recv THEN "dispatch" ELSE "transmit",
              !.bi = None, !.prev = None]

NotifyQuery(f) ==
    /\ At(f, "notify")
    /\ LET r == fr[f]
           bi == store[r.id]
       IN Goto(f, IF bi = None THEN AfterNotify(r)
                  ELSE [r EXCEPT !.bi = bi,
                          !.pc = IF bi.dst = None THEN "notifyDst"
                                                  ELSE "notifySent"])
    /\ UNCHANGED <<shared, todo, idk, world, reached>>

NotifyDestination(f) ==
    /\ At(f, "notifyDst")
    /\ LET r == fr[f]
           bi == [r.bi EXCEPT !.dst = Attr[r.bid].dst]
       IN /\ Put(r.id, Updated(store[r.id], bi))
          /\ Goto(f, [r EXCEPT !.bi = bi, !.pc = "notifySent"])
    /\ UNCHANGED <<todo, idk, world, reached>>

\* Mutant of NotifySent: this node is noted down instead of its neighbour.
NotifySentSelf(f) ==
    /\ At(f, "notifySent")
    /\ LET r == fr[f]
       IN /\ Put(r.id, Updated(store[r.id],
                              [r.bi EXCEPT !.sent = @ \cup {Self}]))
          /\ Goto(f, AfterNotify(r))
    /\ UNCHANGED <<todo, idk, world, reached>>

NotifySent(f) ==
    /\ At(f, "notifySent")
    /\ LET r == fr[f]
       IN /\ IF r.prev = None \/ r.prev \in r.bi.sent
             THEN UNCHANGED shared
             ELSE Put(r.id, Updated(store[r.id],
                              [r.bi EXCEPT !.sent = @ \cup {r.prev}]))
          /\ Goto(f, AfterNotify(r))
    /\ UNCHANGED <<todo, idk, world, reached>>

-----------------------------------------------------------------------------
\* Core.SendBundle and Core.transmit.

(***************************************************************************)
(* AgentManager.handleMessage: SendBundle for an agent's bundle.           *)
(***************************************************************************)
HandleMessage(b) ==
    /\ Idle("agent")
    /\ receptions[b] = 0
    /\ MaxReceptions > 0
    /\ receptions' = [receptions EXCEPT ![b] = 1]
    /\ Goto(<<"agent", 1>>, NewDescriptor(b))
    /\ UNCHANGED <<shared, todo, idk, peers, news, agents, expired, crashes,
                   reached>>

(***************************************************************************)
(* IdKeeper.update renames the bundle.                                     *)
(***************************************************************************)
NextSeq(t) == IF idk[t] = None THEN 0 ELSE idk[t] + 1

Transmit(f) ==
    /\ At(f, "transmit")
    /\ LET t == Attr[fr[f].bid].tpl
       IN /\ NextSeq(t) <= MaxSeq
          /\ idk' = [idk EXCEPT ![t] = NextSeq(t)]
          /\ Goto(f, [fr[f] EXCEPT !.id = <<t, NextSeq(t)>>,
                                   !.pc = "transmitSync"])
    /\ UNCHANGED <<shared, todo, world, reached>>

TransmitSync(f) ==
    /\ At(f, "transmitSync")
    /\ Sync(f, fr[f].cons \cup {DP}, "transmitted")
    /\ UNCHANGED <<shared, todo, idk, world, reached>>

Transmitted(f) ==
    /\ At(f, "transmitted")
    /\ LET src == Attr[fr[f].bid].src
       IN Jump(f, IF src # None /\ ~HasEndpoint(src) THEN "delete"
                                                     ELSE "dispatch")
    /\ UNCHANGED <<shared, todo, idk, world, reached>>

-----------------------------------------------------------------------------
\* Core.CheckPendingBundles and Core.dispatching.

CheckPending(p) ==
    /\ Idle(p)
    /\ todo' = [todo EXCEPT ![p] = PendingIds]
    /\ UNCHANGED <<shared, fr, idk, world, reached>>

(***************************************************************************)
(* The next round of the loop: NewBundleDescriptor(bi.BId, c.Store).       *)
(***************************************************************************)
NextPending(p) ==
    /\ fr[<<p, 1>>].pc = "idle"
    /\ \E i \in todo[p] :
          /\ todo' = [todo EXCEPT ![p] = @ \ {i}]
          /\ Goto(<<p, 1>>,
                  [IdleFrame EXCEPT !.pc = "dispatch", !.id = i,
                                    !.cons = StoredConstraints(store[i])])
    /\ UNCHANGED <<shared, idk, world, reached>>

(***************************************************************************)
(* EpidemicRouting.DispatchingAllowed up to clasForBundle.                 *)
(***************************************************************************)
Dispatch(f) ==
    /\ At(f, "dispatch")
    /\ LET bi == store[fr[f].id]
       IN Goto(f, IF bi = None \/ (bi.dst # None /\ HasEndpoint(bi.dst))
                  THEN [fr[f] EXCEPT !.pc = "load"]
                  ELSE [fr[f] EXCEPT !.pc = "senders", !.bi = bi])
    /\ UNCHANGED <<shared, todo, idk, world, reached>>

AllowedSenders(f) ==
    /\ At(f, "senders")
    /\ LET bi == store[fr[f].id]
       IN IF bi = None \/ FilterCLAs(bi, peers) = {}
          THEN Jump(f, "markPending")
          ELSE Goto(f, [fr[f] EXCEPT !.pc = "load", !.bi = None])
    /\ UNCHANGED <<shared, todo, idk, world, reached>>

\* Mutant of MarkPending: DispatchingAllowed leaves the index as it is.
LeaveUnmarked(f) ==
    /\ At(f, "markPending")
    /\ Goto(f, IdleFrame)
    /\ UNCHANGED <<shared, todo, idk, world, reached>>

MarkPending(f) ==
    /\ At(f, "markPending")
    /\ LET r == fr[f]
       IN Put(r.id, Updated(store[r.id], [r.bi EXCEPT !.pending = TRUE]))
    /\ Goto(f, IdleFrame)
    /\ UNCHANGED <<todo, idk, world, reached>>

(***************************************************************************)
(* bp.Bundle() loads the bundle unless the descriptor holds it, then the   *)
(* destination decides.                                                    *)
(***************************************************************************)
Load(f) ==
    /\ At(f, "load")
    /\ LET r == fr[f]
           b == IF r.bid # None THEN r.bid
                ELSE IF store[r.id] = None THEN None ELSE store[r.id].bndl
       IN Goto(f, IF b = None THEN IdleFrame
                  ELSE [r EXCEPT !.bid = b,
                          !.pc = IF HasEndpoint(Attr[b].dst) THEN "local"
                                                             ELSE "forward"])
    /\ UNCHANGED <<shared, todo, idk, world, reached>>

-----------------------------------------------------------------------------
\* Core.forward.

Forward(f) ==
    /\ At(f, "forward")
    /\ Sync(f, (fr[f].cons \cup {FP}) \ {DP}, "check")
    /\ UNCHANGED <<shared, todo, idk, world, reached>>

\* Mutant of StartSending: the bundle is always deleted afterwards.
StartSendingOnce(r, nodes, del) ==
    [r EXCEPT !.snd = [p \in Peers |-> IF p \in nodes THEN "send" ELSE "none"],
              !.del = TRUE, !.pc = "sending", !.bi = None]

\* forward hands the bundle to one goroutine per ConvergenceSender.
StartSending(r, nodes, del) ==
    [r EXCEPT !.snd = [p \in Peers |-> IF p \in nodes THEN "send" ELSE "none"],
              !.del = del, !.pc = "sending", !.bi = None]

(***************************************************************************)
(* Hop count and lifetime checks, then senderForDestination.               *)
(***************************************************************************)
CheckBundle(f) ==
    /\ At(f, "check")
    /\ LET r == fr[f]
           b == r.bid
           direct == peers \cap {Attr[b].dst}
       IN Goto(f, IF Attr[b].hopExceeded \/ b \in expired
                  THEN [r EXCEPT !.pc = "delete"]
                  ELSE IF direct = {} THEN [r EXCEPT !.pc = "route"]
                  ELSE StartSending(r, direct, TRUE))
    /\ UNCHANGED <<shared, todo, idk, world, reached>>

(***************************************************************************)
(* EpidemicRouting.SenderForBundle: clasForBundle with updateDb.  The      *)
(* updated "sent" list is stored before anything is sent.                  *)
(***************************************************************************)
ClasForBundle(f) ==
    /\ At(f, "route")
    /\ LET r == fr[f]
           bi == store[r.id]
       IN Goto(f, IF bi = None THEN StartSending(r, {}, FALSE)
                  ELSE [StartSending(r, FilterCLAs(bi, peers), FALSE) EXCEPT
                          !.pc = "routed",
                          !.bi = [bi EXCEPT !.sent = @ \cup peers]])
    /\ UNCHANGED <<shared, todo, idk, world, reached>>

UpdateSent(f) ==
    /\ At(f, "routed")
    /\ LET r == fr[f]
       IN /\ Put(r.id, Updated(store[r.id], r.bi))
          /\ Goto(f, [r EXCEPT !.pc = "sending", !.bi = None])
    /\ UNCHANGED <<todo, idk, world, reached>>

(***************************************************************************)
(* One goroutine per ConvergenceSender: node.Send succeeds, or it fails    *)
(* and ReportFailure takes the neighbour out of the "sent" list.           *)
(***************************************************************************)
SendSucceeds(f, p) ==
    /\ At(f, "sending")
    /\ fr[f].snd[p] = "send"
    /\ p \in peers
    /\ LET r == fr[f]
       IN /\ Goto(f, [r EXCEPT !.snd[p] = "sent"])
          /\ got' = [got EXCEPT ![r.bid] = @ \cup {p}]
          /\ reached' = IF Attr[r.bid].dst = p THEN reached \cup {r.bid}
                                               ELSE reached
    /\ UNCHANGED <<store, todo, idk, world>>

SendFails(f, p) ==
    /\ At(f, "sending")
    /\ fr[f].snd[p] = "send"
    /\ LET r == fr[f]
           bi == store[r.id]
       IN Goto(f, [r EXCEPT !.snd[p] = IF bi = None THEN "done" ELSE "failed",
                            !.rbi[p] = bi])
    /\ UNCHANGED <<shared, todo, idk, world, reached>>

ReportFailure(f, p) ==
    /\ At(f, "sending")
    /\ fr[f].snd[p] = "failed"
    /\ LET r == fr[f]
           bi == [r.rbi[p] EXCEPT !.sent = @ \ {p}]
       IN /\ Put(r.id, Updated(store[r.id], bi))
          /\ Goto(f, [r EXCEPT !.snd[p] = "done", !.rbi[p] = None])
    /\ UNCHANGED <<todo, idk, world, reached>>

(***************************************************************************)
(* After wg.Wait().                                                        *)
(***************************************************************************)
BundleSent(r) == \E p \in Peers : r.snd[p] = "sent"

SendingDone(f) ==
    /\ At(f, "sending")
    /\ \A p \in Peers : fr[f].snd[p] \notin {"send", "failed"}
    /\ IF BundleSent(fr[f])
       THEN ReportThen(f, "forwarded" \in Attr[fr[f].bid].requests,
                       "forwarded")
       ELSE Sync(f, fr[f].cons \cup {CI}, "idle")
    /\ UNCHANGED <<shared, todo, idk, world, reached>>

Forwarded(f) ==
    /\ At(f, "forwarded")
    /\ IF fr[f].del
       THEN Sync(f, Purged(fr[f].cons), "idle")
       ELSE Sync(f, fr[f].cons \cup {CI},
                 IF InspectAll /\ Attr[fr[f].bid].admin THEN "inspect"
                                                        ELSE "idle")
    /\ UNCHANGED <<shared, todo, idk, world, reached>>

-----------------------------------------------------------------------------
\* Administrative records, local delivery and deletion.

(***************************************************************************)
(* checkAdministrativeRecord and inspectStatusReport: what a status report *)
(* declares delivered is deleted.                                          *)
(***************************************************************************)
InspectStatusReport(b) ==
    LET known == {i \in Attr[b].refs : Attr[b].wellFormed /\ store[i] # None}
    IN /\ store' = [i \in Ids |-> IF i \in known THEN None ELSE store[i]]
       /\ UNCHANGED got
       /\ reached' = reached \cup {store[i].bndl : i \in known}

Inspect(f) ==
    /\ At(f, "inspect")
    /\ InspectStatusReport(fr[f].bid)
    /\ Goto(f, IdleFrame)
    /\ UNCHANGED <<todo, idk, world>>

LocalDelivery(f) ==
    /\ At(f, "local")
    /\ LET b == fr[f].bid
       IN IF Attr[b].admin
          THEN /\ InspectStatusReport(b)
               /\ Jump(f, IF Attr[b].wellFormed THEN "localSync" ELSE "delete")
          ELSE /\ Jump(f, "localSync")
               /\ UNCHANGED <<shared, reached>>
    /\ UNCHANGED <<todo, idk, world>>

LocalSync(f) ==
    /\ At(f, "localSync")
    /\ Sync(f, fr[f].cons \cup {LE}, "deliver")
    /\ UNCHANGED <<shared, todo, idk, world, reached>>

(***************************************************************************)
(* AgentManager.Deliver.  The constraint map is shared between the copies  *)
(* of the descriptor, so the removal of LocalEndpoint stays.               *)
(***************************************************************************)
Deliver(f) ==
    /\ At(f, "deliver")
    /\ IF Attr[fr[f].bid].dst \in agents
       THEN Sync(f, fr[f].cons \ {LE}, "handover")
       ELSE Jump(f, "delivered")
    /\ UNCHANGED <<shared, todo, idk, world, reached>>

HandOver(f) ==
    /\ At(f, "handover")
    /\ reached' = reached \cup {fr[f].bid}
    /\ Jump(f, "delivered")
    /\ UNCHANGED <<shared, todo, idk, world>>

Delivered(f) ==
    /\ At(f, "delivered")
    /\ ReportThen(f, "delivered" \in Attr[fr[f].bid].requests, "purge")
    /\ UNCHANGED <<shared, todo, idk, world, reached>>

BundleDeletion(f) ==
    /\ At(f, "delete")
    /\ ReportThen(f, "deleted" \in Attr[fr[f].bid].requests, "purge")
    /\ UNCHANGED <<shared, todo, idk, world, reached>>

Purge(f) ==
    /\ At(f, "purge")
    /\ Sync(f, Purged(fr[f].cons), "idle")
    /\ UNCHANGED <<shared, todo, idk, world, reached>>

-----------------------------------------------------------------------------
\* The other cron jobs and the node's surroundings.

(***************************************************************************)
(* Store.DeleteExpired, one item of its loop.                              *)
(***************************************************************************)
DeleteExpired(i) ==
    /\ store[i] # None
    /\ store[i].bndl \in expired
    /\ Put(i, None)
    /\ UNCHANGED <<fr, todo, idk, world, reached>>

(***************************************************************************)
(* IdKeeper.Clean, one tuple of its loop.                                  *)
(***************************************************************************)
CleanIds(t) ==
    /\ idk[t] # None
    /\ idk' = [idk EXCEPT ![t] = None]
    /\ UNCHANGED <<shared, fr, todo, world, reached>>

Expire(b) ==
    /\ b \notin expired
    /\ expired' = expired \cup {b}
    /\ UNCHANGED <<shared, fr, todo, idk, peers, news, agents, crashes,
                   receptions, reached>>

PeerAppears(p) ==
    /\ p \notin peers
    /\ peers' = peers \cup {p}
    /\ news' = news \cup {p}
    /\ UNCHANGED <<shared, fr, todo, idk, agents, expired, crashes,
                   receptions, reached>>

PeerDisappears(p) ==
    /\ p \in peers
    /\ peers' = peers \ {p}
    /\ UNCHANGED <<shared, fr, todo, idk, news, agents, expired, crashes,
                   receptions, reached>>

RegisterAgent(e) ==
    /\ e \notin agents
    /\ agents' = agents \cup {e}
    /\ UNCHANGED <<shared, fr, todo, idk, peers, news, expired, crashes,
                   receptions, reached>>

(***************************************************************************)
(* The process dies and is started again: the database survives, all       *)
(* goroutines, connections and the IdKeeper's map are gone.                *)
(***************************************************************************)
Crash ==
    /\ crashes < MaxCrashes
    /\ crashes' = crashes + 1
    /\ fr' = [f \in Frames |-> IdleFrame]
    /\ todo' = [p \in Procs |-> {}]
    /\ idk' = [t \in Tuples |-> None]
    /\ peers' = {}
    /\ news' = {}
    /\ agents' = {}
    /\ UNCHANGED <<shared, expired, receptions, reached>>

-----------------------------------------------------------------------------
Step(f) ==
    \/ SyncWrite(f) \/ NewFromBundle(f) \/ Resync(f) \/ Receive(f)
    \/ Received(f) \/ CheckBlocks(f)
    \/ NotifyQuery(f) \/ NotifyDestination(f) \/ NotifySent(f)
    \/ Transmit(f) \/ TransmitSync(f) \/ Transmitted(f)
    \/ Dispatch(f) \/ AllowedSenders(f) \/ MarkPending(f) \/ Load(f)
    \/ Forward(f) \/ CheckBundle(f) \/ ClasForBundle(f) \/ UpdateSent(f)
    \/ SendingDone(f) \/ Forwarded(f) \/ Inspect(f)
    \/ LocalDelivery(f) \/ LocalSync(f) \/ Deliver(f) \/ HandOver(f)
    \/ Delivered(f) \/ BundleDeletion(f) \/ Purge(f)
    \/ \E p \in Peers :
          SendSucceeds(f, p) \/ SendFails(f, p) \/ ReportFailure(f, p)

Next ==
    \/ \E f \in Frames : Step(f)
    \/ \E b \in Inbound, p \in Peers \cup {None} : HandleReceived(b, p)
    \/ \E p \in Peers : HandlePeerAppeared(p)
    \/ \E b \in Outbound : HandleMessage(b)
    \/ \E p \in CronJobs : CheckPending(p)
    \/ \E p \in Procs : NextPending(p)
    \/ \E i \in Ids : DeleteExpired(i)
    \/ \E t \in OldTuples : CleanIds(t)
    \/ \E b \in Mortal : Expire(b)
    \/ \E p \in Peers : PeerAppears(p)
    \/ \E p \in Leaving : PeerDisappears(p)
    \/ \E e \in AgentEids : RegisterAgent(e)
    \/ Crash

Spec == Init /\ [][Next]_vars

(***************************************************************************)
(* The goroutines are scheduled, Cron fires again and again, announced     *)
(* neighbours connect and a transmission that is tried often enough        *)
(* succeeds.                                                               *)
(***************************************************************************)
Goroutine(p) == Step(<<p, 1>>) \/ Step(<<p, 2>>) \/ NextPending(p)

FairSpec ==
    /\ Spec
    /\ \A p \in Procs : WF_vars(Goroutine(p))
    /\ \A p \in CronJobs : WF_vars(CheckPending(p))
    /\ \A p \in Peers : /\ WF_vars(PeerAppears(p))
                       /\ SF_vars(\E f \in Frames : SendSucceeds(f, p))

-----------------------------------------------------------------------------
(***************************************************************************)
(* Whatever the goroutines and crashes do to each other's writes, a stored *)
(* bundle that is in or after forwarding (ForwardPending, Contraindicated) *)
(* has the Pending index set, so that CheckPendingBundles retries it.      *)
(***************************************************************************)
ForwardedIsRetried ==
    \A i \in Ids :
        store[i] # None /\ store[i].cons \cap {FP, CI} # {} => store[i].pending

\* Bundles this node may give up on.
Discardable(b) ==
    \/ b \in expired
    \/ Attr[b].hopExceeded
    \/ "delete" \in Attr[b].unknown
    \/ (Attr[b].src # None /\ ~HasEndpoint(Attr[b].src) /\ b \in Outbound)
    \/ (Attr[b].admin /\ ~Attr[b].wellFormed)

\* Bundles that arrived and for which this node is still responsible.
InCustody == {b \in Inbound \cup Outbound :
                 receptions[b] > 0 /\ b \notin reached /\ ~Discardable(b)}

(***************************************************************************)
(* No interleaving of handler, agent and cron goroutines loses a bundle:   *)
(* until it reached its destination it is stored, or a goroutine that is   *)
(* processing it still holds it.                                           *)
(***************************************************************************)
Custody ==
    \A b \in InCustody :
        \/ \E i \in Ids : store[i] # None /\ store[i].bndl = b
        \/ \E f \in Frames : fr[f].bid = b

Quiet == \A p \in Procs : Idle(p)

(***************************************************************************)
(* Whenever no goroutine is at work, a bundle this node is responsible for *)
(* is found by the next CheckPendingBundles or waits for its local agent.  *)
(***************************************************************************)
NoBundleForgotten ==
    Quiet => \A b \in InCustody :
                \E i \in Ids : /\ store[i] # None
                             /\ store[i].bndl = b
                             /\ (store[i].pending \/ LE \in store[i].cons)

(***************************************************************************)
(* What the "sent" list is for and does not guarantee: a neighbour that    *)
(* sent a bundle or already received it is not sent it again.  A second    *)
(* reception of a bundle with stored constraints ends early in             *)
(* Core.receive, so that NotifyNewBundle does not note its sender down;    *)
(* without stored constraints its Sync deletes the item with its list.     *)
(***************************************************************************)
NoRedundantForward ==
    [][\A f \in Frames, p \in Peers :
          fr[f].snd[p] = "send" /\ fr'[f].snd[p] = "sent"
             => p \notin got[fr[f].bid]]_vars

(***************************************************************************)
(* Whenever no goroutine is at work, the "sent" list of an item, which     *)
(* filterCLAs takes for the nodes that already received the bundle, names  *)
(* only neighbours that do hold it.                                        *)
(***************************************************************************)
SentMeansReceived ==
    Quiet => \A i \in Ids : store[i] # None =>
                 store[i].sent \subseteq got[store[i].bndl]

(***************************************************************************)
(* Core.localDelivery sends a "delivered" status report only for a bundle  *)
(* that was handed to an application agent.                                *)
(***************************************************************************)
DeliveredReportIsTrue ==
    [][\A f \in Frames :
          fr[f].pc = "delivered" /\ fr'[<<f[1], 2>>].pc = "new"
             => fr[f].bid \in reached]_vars

(***************************************************************************)
(* A bundle that arrived once, for the only neighbour, eventually reaches  *)
(* it, though transmissions fail and the handler and cron goroutines       *)
(* interfere.  With a second neighbour it may not: two ReportFailure calls *)
(* then overlap, and one of them leaves the destination in the "sent" list.*)
(***************************************************************************)
EventuallyDelivered ==
    \A b \in Inbound \cup Outbound :
        (Attr[b].dst \in Peers /\ receptions[b] > 0) ~> b \in reached

\* Nobody is at work, and the item of b lists its destination as served.
ListsDestination(b) ==
    Quiet /\ \E i \in Ids : /\ store[i] # None
                           /\ store[i].bndl = b
                           /\ Attr[b].dst \in store[i].sent

(***************************************************************************)
(* What a node, restarted or not, finds pending in its database while no   *)
(* goroutine is at work eventually reaches the neighbour it is for, though *)
(* transmissions fail and the handler and cron goroutines retry it at the  *)
(* same time.  Two things may keep it back: the process dies once more, or *)
(* the "sent" list names the destination though it has nothing, because a  *)
(* write-back undid the removal of ReportFailure or the process died       *)
(* between UpdateSent and Send.  DispatchingAllowed never allows it then.  *)
(***************************************************************************)
PendingIsDelivered ==
    \A b \in Inbound \cup Outbound, n \in 0 .. MaxCrashes :
        /\ Attr[b].dst \in Peers
        /\ crashes = n
        /\ Quiet
        /\ \E i \in Ids : store[i] # None /\ store[i].bndl = b /\ store[i].pending
        ~> b \in reached \/ crashes # n \/ ListsDestination(b)
=============================================================================
