------------------------------- MODULE Routing -------------------------------
(***************************************************************************)
(* One bundle on its way through Core.forward while the node runs one of   *)
(* the algorithms of RoutingConf: Spray and Wait, Binary Spray, PRoPHET or *)
(* DTLSR, alone or below the sensor mule.  The dispatchers are goroutines  *)
(* that forward the same bundle: Core.handler and CheckPendingBundles.     *)
(*                                                                         *)
(* The spray algorithms keep the bundle's metadata in memory, behind a     *)
(* lock that is released between reading and writing it; PRoPHET and DTLSR *)
(* keep the list of endpoints in the bundle's item in the store.  Here     *)
(* both are the variable meta, None where there is no entry or no list.    *)
(***************************************************************************)
EXTENDS Spray, Prophet, Dtlsr

CONSTANTS
    Dispatchers,
    Setups,        \* algorithm, mule and bundle: see SetupRec
    MaxForwards,   \* bound: calls of forward
    MaxEvents      \* bound: what happens to the node from outside, that is
                   \* everything but forward and the cron jobs of DTLSR

SetupRec == [algo : {"spray", "binary_spray", "prophet", "dtlsr"},
             mule : BOOLEAN,
             jobs : SUBSET Dispatchers,   \* goroutines that forward it
             near : SUBSET Peers,         \* who may become a neighbour
             own : BOOLEAN,               \* the bundle's source is this node
             prev : Peers \cup {None},    \* its PreviousNodeBlock
             block : Nat \cup {None},     \* its BinarySprayBlock
             metadata : BOOLEAN]          \* it carries routing metadata

ASSUME SetupAssumption ==
    /\ Setups \subseteq SetupRec
    /\ IsFiniteSet(Dispatchers)
    /\ None \notin MetaData

VARIABLES
    setup,
    connected,  \* claManager.Sender()
    stored,     \* Store.KnowsBundle
    meta,       \* bundleData[bp.Id] or the item's "routing/.../sent"
    fr,         \* the local variables of forward and SenderForBundle
    forwards, events,
    \* What an observer of the node's surroundings sees; no step of the node
    \* reads these.
    given,      \* copies the node was given
    out,        \* copies it handed over
    missed,     \* direct deliveries that failed
    has,        \* peers the bundle came from or was sent to
    crashes,    \* how often the node died
    clean       \* nobody worked on metadata that another one has replaced

coreVars == <<setup, connected, stored, meta, fr, forwards, events, given,
              out, missed, has, crashes, clean>>
vars == <<coreVars, prophetVars, dtlsrVars>>

Spraying == setup.algo \in {"spray", "binary_spray"}
InStore == ~Spraying

Labels == {"idle", "read", "write", "filter", "sending"}

\* What forward does for a peer: nothing; the mule excludes it; it sends; it
\* has read the metadata in ReportFailure.
SendStates == {"none", "excluded", "sending", "failed"}

IdleFrame ==
    [pc |-> "idle", m |-> None, direct |-> FALSE, share |-> 0,
     hasBlock |-> FALSE, sent |-> FALSE, del |-> FALSE,
     st |-> [p \in Peers |-> "none"], fm |-> [p \in Peers |-> None]]

Frame ==
    [pc : Labels, m : MetaData \cup {None}, direct : BOOLEAN, share : Nat,
     hasBlock : BOOLEAN, sent : BOOLEAN, del : BOOLEAN,
     st : [Peers -> SendStates], fm : [Peers -> MetaData \cup {None}]]

RoutingTypeOK ==
    /\ setup \in Setups
    /\ connected \subseteq Peers
    /\ stored \in BOOLEAN
    /\ meta \in MetaData \cup {None}
    /\ fr \in [Dispatchers -> Frame]
    /\ given \in Nat /\ out \in Nat /\ missed \in Nat /\ crashes \in Nat
    /\ has \subseteq Peers
    /\ clean \in BOOLEAN

RoutingInit ==
    /\ setup \in Setups
    /\ connected \in IF Spraying THEN SUBSET setup.near ELSE {{}}
    /\ stored = FALSE
    /\ meta = None
    /\ fr = [d \in Dispatchers |-> IdleFrame]
    /\ forwards = 0 /\ events = 0
    /\ given = 0 /\ out = 0 /\ missed = 0 /\ crashes = 0
    /\ has = {}
    /\ clean = TRUE

-----------------------------------------------------------------------------
Bounds == <<forwards, events>>

Event == events < MaxEvents /\ events' = events + 1

Counts == <<given, out, missed, has, crashes, clean>>

InFlight(d) == { p \in Peers : fr[d].st[p] # "none" }

\* The copies a transmission of frame d stands for.
Weight(d) == IF fr[d].direct \/ InStore THEN 0 ELSE fr[d].share

\* The copies on their way, numbered for every transmission.
Flight(d) == ({d} \X InFlight(d)) \X (1..Weight(d))
CopiesInFlight == Cardinality(UNION { Flight(d) : d \in Dispatchers })

\* NotifyNewBundle for a bundle without routing metadata for this node.
NoteBundle ==
    CASE setup.algo = "spray" -> SprayNotify(setup.own, setup.prev)
      [] setup.algo = "binary_spray" -> BinaryNotify(setup.block, setup.prev)
      [] OTHER -> IF setup.prev = None \/ (setup.algo = "prophet" /\ setup.metadata)
                  THEN None ELSE [sent |-> {setup.prev}, copies |-> 0]

(***************************************************************************)
(* SendBundle or receive.  A bundle that is in the store is not received   *)
(* again.  An agent's second bundle of the same millisecond has the first  *)
(* one's ID when NotifyNewBundle is called: IdKeeper renames it later.     *)
(***************************************************************************)
NotifyNewBundle ==
    /\ Event
    /\ ~stored \/ (setup.own /\ Spraying)
    /\ stored' = TRUE
    /\ meta' = NoteBundle
    /\ has' = PrevNodes(setup.prev)
    /\ given' = IF Spraying THEN given + NoteBundle.copies ELSE given
    /\ clean' = (clean /\ \A d \in Dispatchers : fr[d].pc = "idle")
    /\ UNCHANGED <<setup, connected, fr, forwards, out, missed, crashes,
                   prophetVars, dtlsrVars>>

\* The bundle expires, or a status report says that it was delivered.
DeleteBundle ==
    /\ stored
    /\ Event
    /\ stored' = FALSE
    /\ meta' = IF InStore THEN None ELSE meta
    /\ UNCHANGED <<setup, connected, fr, forwards, Counts, prophetVars, dtlsrVars>>

\* cleanupMetaData
GarbageCollect ==
    /\ Spraying /\ ~stored /\ meta # None
    /\ meta' = None
    /\ UNCHANGED <<setup, connected, stored, fr, Bounds, Counts, prophetVars,
                   dtlsrVars>>

-----------------------------------------------------------------------------
\* senderForDestination, then SenderForBundle.
Forward(d) ==
    /\ d \in setup.jobs
    /\ fr[d].pc = "idle"
    /\ stored
    /\ forwards < MaxForwards
    /\ forwards' = forwards + 1
    /\ fr' = [fr EXCEPT ![d] =
                 IF Dest \in connected /\ ~(setup.algo = "dtlsr" /\ setup.metadata)
                 THEN [IdleFrame EXCEPT !.pc = "sending", !.direct = TRUE,
                          !.del = TRUE, !.hasBlock = setup.block # None,
                          !.st[Dest] = "sending"]
                 ELSE [IdleFrame EXCEPT !.pc = "read",
                          !.hasBlock = setup.block # None]]
    /\ UNCHANGED <<setup, connected, stored, meta, events, Counts,
                   prophetVars, dtlsrVars>>

\* The early returns of SenderForBundle: no metadata, no copies, or a
\* metadata bundle of PRoPHET.
NoSenders ==
    \/ Spraying /\ (meta = None \/ meta.copies < 2)
    \/ InStore /\ ~stored
    \/ setup.algo = "prophet" /\ setup.metadata

SenderRead(d) ==
    /\ fr[d].pc = "read"
    /\ fr' = [fr EXCEPT ![d] = IF NoSenders THEN IdleFrame
                               ELSE [fr[d] EXCEPT !.pc = "write", !.m = meta]]
    /\ UNCHANGED <<setup, connected, stored, meta, Bounds, Counts,
                   prophetVars, dtlsrVars>>

\* Mutant of FilterCLAs: the previous list is forgotten.
FilterCLAsForget(m, clas) ==
    [to |-> clas, share |-> 0, meta |-> [sent |-> clas, copies |-> 0]]

\* filterCLAs, and the loop of Prophet.SenderForBundle
FilterCLAs(m, clas) ==
    LET sent == IF m = None THEN {} ELSE m.sent
    IN  [to |-> clas \ sent, share |-> 0,
         meta |-> [sent |-> sent \cup clas, copies |-> 0]]

\* DTLSR for a bundle with a single destination: the next node of the table.
NextNode(m) ==
    [to |-> IF Dest \in DOMAIN routingTable
            THEN {routingTable[Dest]} \cap connected ELSE {},
     share |-> 0, meta |-> m]

Selections(m) ==
    CASE setup.algo = "spray" -> SpraySenders(m, connected)
      [] setup.algo = "binary_spray" -> BinarySenders(m, connected)
      [] setup.algo = "prophet" -> {FilterCLAs(m, Better(connected))}
      [] setup.algo = "dtlsr" /\ setup.metadata -> {FilterCLAs(m, connected)}
      [] OTHER -> {NextNode(m)}

\* PRoPHET writes only if it found a peer, DTLSR only for a broadcast; an
\* item that is gone cannot be updated.
Writes(choice) ==
    /\ setup.algo = "prophet" => choice.to # {}
    /\ setup.algo = "dtlsr" => setup.metadata
    /\ InStore => stored

\* Mutant of Excluded: the test for a sensor is the wrong way round.
ExcludedOthers(to) == IF setup.mule THEN to \ Sensors ELSE {}

\* The sensor mule removes sensors; bp.Receiver is an endpoint of this node.
Excluded(to) == IF setup.mule THEN to \cap Sensors ELSE {}

\* The second half of SenderForBundle: bundleData is set or the item updated.
SenderWrite(d) ==
    /\ fr[d].pc = "write"
    /\ \E c \in Selections(fr[d].m) :
         /\ meta' = IF Writes(c) THEN c.meta ELSE meta
         /\ clean' = (clean /\ (Writes(c) => meta = fr[d].m))
         /\ fr' = [fr EXCEPT ![d] =
               IF c.to = {} THEN IdleFrame
               ELSE [fr[d] EXCEPT
                       !.pc = IF Excluded(c.to) = {} THEN "sending" ELSE "filter",
                       !.m = None, !.share = c.share,
                       !.hasBlock = fr[d].hasBlock \/ setup.algo = "binary_spray",
                       !.del = setup.algo = "dtlsr" /\ ~setup.metadata,
                       !.st = [p \in Peers |->
                                 IF p \in Excluded(c.to) THEN "excluded"
                                 ELSE IF p \in c.to THEN "sending" ELSE "none"]]]
    /\ UNCHANGED <<setup, connected, stored, Bounds, given, out, missed, has,
                   crashes, prophetVars, dtlsrVars>>

-----------------------------------------------------------------------------
\* A ConvergenceSender's Send succeeds.
SendSucceeds(d, p) ==
    /\ fr[d].pc = "sending" /\ fr[d].st[p] = "sending"
    /\ p \in connected
    /\ fr' = [fr EXCEPT ![d].st[p] = "none", ![d].sent = TRUE]
    /\ out' = out + Weight(d)
    /\ has' = has \cup {p}
    /\ UNCHANGED <<setup, connected, stored, meta, Bounds, given, missed,
                   crashes, clean, prophetVars, dtlsrVars>>

\* What ReportFailure finds: DTLSR does nothing, the others need an entry,
\* BinarySpray a block in the bundle.
Reportable(d) ==
    /\ setup.algo # "dtlsr"
    /\ meta # None
    /\ InStore => stored
    /\ setup.algo = "binary_spray" => fr[d].hasBlock

\* ReportFailure, first half.  The mule calls it for the peers it excludes,
\* one after the other, forward for the peers whose Send failed.
FailureRead(d, p) ==
    /\ \/ fr[d].pc = "sending" /\ fr[d].st[p] = "sending"
       \/ /\ fr[d].pc = "filter" /\ fr[d].st[p] = "excluded"
          /\ \A q \in Peers : fr[d].st[q] # "failed"
    /\ fr' = [fr EXCEPT ![d].st[p] = IF Reportable(d) THEN "failed" ELSE "none",
                        ![d].fm[p] = IF Reportable(d) THEN meta ELSE None]
    /\ missed' = IF fr[d].direct THEN missed + 1 ELSE missed
    /\ UNCHANGED <<setup, connected, stored, meta, Bounds, given, out, has,
                   crashes, clean, prophetVars, dtlsrVars>>

\* Mutant of Failure: the peer stays in the list.
FailureUnlisted(m, p) ==
    CASE setup.algo = "spray" -> [m EXCEPT !.copies = @ + 1]
      [] OTHER -> m

Failure(m, p) ==
    CASE setup.algo = "spray" -> SprayFailure(m, p)
      [] setup.algo = "binary_spray" -> BinaryFailure(m, p)
      [] OTHER -> [m EXCEPT !.sent = @ \ {p}]

\* ReportFailure, second half: bundleData is set or the item is updated.
FailureWrite(d, p) ==
    /\ fr[d].st[p] = "failed"
    /\ LET m == fr[d].fm[p]
           writes == InStore => stored
       IN /\ meta' = IF writes THEN Failure(m, p) ELSE meta
          /\ clean' = (clean /\ (writes => meta = m))
    /\ fr' = [fr EXCEPT ![d].st[p] = "none", ![d].fm[p] = None]
    /\ UNCHANGED <<setup, connected, stored, Bounds, given, out, missed, has,
                   crashes, prophetVars, dtlsrVars>>

\* The mule's loop is done: the remaining peers are sent to.
Filtered(d) ==
    /\ fr[d].pc = "filter"
    /\ \A p \in Peers : fr[d].st[p] \in {"none", "sending"}
    /\ fr' = [fr EXCEPT ![d].pc = "sending",
                        ![d].del = @ /\ InFlight(d) # {}]
    /\ UNCHANGED <<setup, connected, stored, meta, Bounds, Counts,
                   prophetVars, dtlsrVars>>

\* wg.Wait is over; a bundle that need not be kept is deleted.
Finish(d) ==
    /\ fr[d].pc = "sending" /\ InFlight(d) = {}
    /\ LET deleted == fr[d].del /\ fr[d].sent
       IN /\ stored' = (stored /\ ~deleted)
          /\ meta' = IF deleted /\ InStore THEN None ELSE meta
    /\ fr' = [fr EXCEPT ![d] = IdleFrame]
    /\ UNCHANGED <<setup, connected, Bounds, Counts, prophetVars, dtlsrVars>>

-----------------------------------------------------------------------------
\* Connections come and go; Core.handler tells the algorithm of it.
Appear(p) ==
    /\ p \in setup.near \ connected
    /\ Event
    /\ connected' = connected \cup {p}
    /\ IF setup.algo = "prophet" THEN Encounter(p) /\ UNCHANGED <<peerPred, honest>>
                                 ELSE UNCHANGED prophetVars
    /\ IF setup.algo = "dtlsr" THEN PeerAppeared(p) ELSE UNCHANGED dtlsrVars
    /\ UNCHANGED <<setup, stored, meta, fr, forwards, Counts>>

Disappear(p) ==
    /\ p \in connected
    /\ Event
    /\ connected' = connected \ {p}
    /\ IF setup.algo = "dtlsr" THEN PeerDisappeared(p) ELSE UNCHANGED dtlsrVars
    /\ UNCHANGED <<setup, stored, meta, fr, forwards, Counts, prophetVars>>

\* The node dies and starts again: what is in memory is gone, and a list in
\* the store keeps the peers that were about to get the bundle.
Crash ==
    /\ Event
    /\ fr' = [d \in Dispatchers |-> IdleFrame]
    /\ connected' = {}
    /\ meta' = IF InStore THEN meta ELSE None
    /\ crashes' = crashes + 1
    /\ ProphetRestart
    /\ DtlsrRestart
    /\ UNCHANGED <<setup, stored, forwards, given, out, missed, has, clean>>

ProphetStep ==
    /\ setup.algo = "prophet"
    /\ Event
    /\ \/ \E p \in Peers, v \in Vectors : ReceiveVector(p, v)
       \/ AgeCron /\ UNCHANGED <<peerPred, honest>>
    /\ UNCHANGED <<setup, connected, stored, meta, fr, forwards, Counts,
                   dtlsrVars>>

DtlsrStep ==
    /\ setup.algo = "dtlsr"
    /\ \/ DtlsrTick /\ UNCHANGED <<peerChange, receivedChange, peerData,
             receivedData, tracked, routingTable, tableTime, job, sentTs, told>>
       \/ \E r \in Reports : ReceivePeerData(r[1], r[2])
       \/ PurgePeers
       \/ RecomputeRead \/ RecomputeTable
       \/ BroadcastRead \/ BroadcastBuild \/ BroadcastSend \/ BroadcastReset
    /\ UNCHANGED <<coreVars, prophetVars>>

Init == RoutingInit /\ ProphetInit /\ DtlsrInit

Next ==
    \/ NotifyNewBundle \/ DeleteBundle \/ GarbageCollect \/ Crash
    \/ \E d \in Dispatchers :
          \/ Forward(d) \/ SenderRead(d) \/ SenderWrite(d)
          \/ Filtered(d) \/ Finish(d)
          \/ \E p \in Peers : \/ SendSucceeds(d, p)
                              \/ FailureRead(d, p) \/ FailureWrite(d, p)
    \/ \E p \in Peers : Appear(p) \/ Disappear(p)
    \/ ProphetStep \/ DtlsrStep

Spec == Init /\ [][Next]_vars

-----------------------------------------------------------------------------
\* Every variable has its type.
TypeOK == RoutingTypeOK /\ ProphetTypeOK /\ DtlsrTypeOK

Held == IF meta = None THEN 0 ELSE meta.copies

(***************************************************************************)
(* The spray algorithms create no copies: those a node still has, those on *)
(* their way and those it handed over are at most the ones it was given    *)
(* and one for each direct delivery that failed (SprayAndWait takes back a *)
(* copy then that it had not given away).  Stated as long as no goroutine  *)
(* worked on metadata that another one had replaced by then: two of them   *)
(* may hand over the same copies.                                          *)
(***************************************************************************)
CopiesNotCreated ==
    Spraying /\ clean => Held + CopiesInFlight + out <= given + missed

(***************************************************************************)
(* The last copy is never given away, whatever overlaps, fails or crashes: *)
(* only a BinarySprayBlock that says 0 leaves a node without any.          *)
(***************************************************************************)
LastCopyKept ==
    Spraying /\ meta # None => meta.copies >= 1 \/ setup.block = 0

\* The algorithm that does not keep a list: DTLSR for a single destination.
KeepsList == ~(setup.algo = "dtlsr" /\ ~setup.metadata)

\* Where NotifyNewBundle does not note the previous node: SprayAndWait for a
\* bundle of this node that comes back, BinarySpray for one without a block,
\* PRoPHET for metadata, which it does not relay.
PassedOver ==
    { p \in PrevNodes(setup.prev) :
        \/ setup.algo = "spray" /\ setup.own
        \/ setup.algo = "binary_spray" /\ setup.block = None
        \/ setup.algo = "prophet" /\ setup.metadata }

(***************************************************************************)
(* A peer that sent the bundle or got it stays in the list, so that it is  *)
(* not sent the bundle again, over failures of other peers, the mule and   *)
(* crashes, unless goroutines overlapped.  The destination is left out: a  *)
(* failed direct delivery takes it off the list, whatever it was there for.*)
(***************************************************************************)
HoldersAreListed ==
    clean /\ meta # None /\ KeepsList =>
       has \ ({Dest} \cup PassedOver) \subseteq meta.sent

\* Peers that were selected and about whom nothing is decided yet.
Selected == { p \in Peers :
                \E d \in Dispatchers : ~fr[d].direct /\ fr[d].st[p] # "none" }

(***************************************************************************)
(* A peer that failed or was excluded does not stay in the list: whoever   *)
(* is in it sent the bundle, got it or is just being sent to.  DTLSR does  *)
(* not promise this, its ReportFailure does nothing; nor does PRoPHET      *)
(* after a crash, which leaves the peers it was sending to in the store.   *)
(***************************************************************************)
ListedAreServed ==
    /\ clean /\ meta # None
    /\ Spraying \/ (setup.algo = "prophet" /\ crashes = 0)
    => meta.sent \subseteq has \cup Selected

(***************************************************************************)
(* "ReportFailure resets remaining copies if delivery was unsuccessful."   *)
(* Without an overlap, a failed transmission or an excluded peer gives its *)
(* copies back to the metadata.  BinarySpray does not do that.             *)
(***************************************************************************)
FailedCopiesReturn ==
    [][\A d \in Dispatchers, p \in Peers :
          /\ Spraying /\ ~fr[d].direct
          /\ fr[d].st[p] = "failed" /\ fr'[d].st[p] = "none"
          /\ meta # None /\ meta = fr[d].fm[p] /\ meta' # None
          => meta'.copies = meta.copies + fr[d].share]_vars

(***************************************************************************)
(* Whenever DTLSR sees no reason to recompute, its table holds the first   *)
(* nodes of shortest paths over the links known at present, weighed at the *)
(* time of the last computation: no change is lost between the flags that  *)
(* recomputeCron and broadcastCron read, reset and hand to each other.     *)
(***************************************************************************)
TableIsCurrent ==
    ~peerChange /\ ~receivedChange => IsRoutingTable(routingTable, tableTime)

(***************************************************************************)
(* The sensor mule never relays to a sensor, and the peers it excludes are *)
(* given back to the algorithm below it before anything is sent.           *)
(***************************************************************************)
SensorsSpared ==
    setup.mule => \A d \in Dispatchers, p \in Sensors :
       fr[d].pc = "sending" /\ ~fr[d].direct => fr[d].st[p] = "none"

(***************************************************************************)
(* Only ageing or a restart makes a delivery predictability smaller: as    *)
(* long as the neighbours' vectors are made of probabilities, neither an   *)
(* encounter nor a vector does, in any order of the walk.  A vector with   *)
(* a negative number does, since the code takes any.                       *)
(***************************************************************************)
PredictabilityGrows ==
    [][\A n \in Nodes :
          honest' /\ pred'[n] < pred[n] =>
             \/ pred' = [x \in Nodes |-> Mul(pred[x], Gamma)]
             \/ crashes' # crashes]_vars

(***************************************************************************)
(* When broadcastCron resets the flag, a neighbour that gets all of the    *)
(* broadcasts knows this node's links.  DTLSR does not guarantee           *)
(* it: a change that comes between the copy of the data and the reset of   *)
(* the flag is not announced until the next one.                           *)
(***************************************************************************)
ChangesAreAnnounced ==
    [][peerChange /\ ~peerChange' /\ crashes' = crashes => told = peerData.ts]_vars
=============================================================================
