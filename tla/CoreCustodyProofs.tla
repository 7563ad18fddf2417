------------------------- MODULE CoreCustodyProofs -------------------------
(***************************************************************************)
(* The proof that Core loses no bundle, for any number of bundles,         *)
(* receptions, neighbours and cron goroutines.                             *)
(***************************************************************************)
EXTENDS CoreProofs

\* The bundles that others hand to this node, and those it makes itself.
Own == Inbound \cup Outbound
Reports == UNION {Attr[b].reports : b \in Bundles}

(***************************************************************************)
(* No two bundles share an identity before or after the IdKeeper has       *)
(* renamed those of this node: the creation times of the agents' bundles   *)
(* and of the status reports differ.                                       *)
(***************************************************************************)
NamesDiffer ==
    /\ Inbound \cap Outbound = {}
    /\ \A b, c \in Own : InitialId(b) = InitialId(c) => b = c
    /\ \A b \in Own, c \in Reports : Attr[b].tpl # Attr[c].tpl
    /\ \A b \in Outbound : /\ Attr[b].seq = 0
                           /\ \A c \in Outbound : Attr[b].tpl = Attr[c].tpl => b = c

(***************************************************************************)
(* Whether an endpoint is one of this node does not change when an agent   *)
(* registers, and the process does not die.                                *)
(***************************************************************************)
NodeIsSteady ==
    /\ MaxCrashes = 0
    /\ \A b \in Own : Attr[b].dst \notin AgentEids \ {Self}
    /\ \A b \in Outbound : Attr[b].src \notin AgentEids \ {Self}

Steady == NamesDiffer /\ NodeIsSteady

-----------------------------------------------------------------------------
\* The inductive invariant.

\* Bundles that this node never keeps.
Hopeless(b) ==
    \/ Attr[b].hopExceeded
    \/ "delete" \in Attr[b].unknown
    \/ b \in Outbound /\ Attr[b].src \notin {None, Self}
    \/ Attr[b].admin /\ ~Attr[b].wellFormed

Held == {b \in Own : b \notin reached /\ b \notin expired /\ ~Hopeless(b)}

\* Bundle c may be stored under the key i.
Fits(i, c) == \/ c \in Own /\ i = InitialId(c)
              \/ c \in Reports /\ i[1] = Attr[c].tpl
FitsItem(i, x) == Fits(i, x.bndl) /\ (x.bndl \in Own => x.dst \in {None, Attr[x.bndl].dst})

SyncTo(r, labels) == r.pc = "sync" /\ r.after \in labels

\* Each goroutine works under the key of its bundle.
Named(r) ==
    /\ r.bid # None => Fits(r.id, r.bid)
    /\ r.bi # None => FitsItem(r.id, r.bi)
    /\ \A p \in Peers : r.rbi[p] # None => /\ r.pc = "sending" /\ r.snd[p] = "failed"
                                           /\ FitsItem(r.id, r.rbi[p])
    /\ r.pc = "transmit" => r.bi = None

(***************************************************************************)
(* SendBundle up to IdKeeper.update, and all of it; Core.receive.          *)
(***************************************************************************)
Early(r) == /\ ~r.recv
            /\ \/ r.pc \in {"new", "notify", "notifyDst", "notifySent", "transmit"}
               \/ SyncTo(r, {"notify"})
Late(r) == r.pc \in {"transmitSync", "transmitted"} \/ SyncTo(r, {"transmitted"})
Receiving(r) == \/ r.pc \in {"resync", "receive", "received", "blocks"}
                \/ SyncTo(r, {"resync", "receive", "received"})

\* Where the goroutine of frame f got its bundle from.
Origin(f, r) ==
    /\ r.recv => f = <<"handler", 1>> /\ r.bid \in Inbound
    /\ Receiving(r) => r.recv
    /\ Late(r) \/ r.pc = "transmit" \/ SyncTo(r, {"notify"}) => ~r.recv
    /\ Early(r) \/ Late(r) =>
          r.bid \in (IF f = <<"agent", 1>> THEN Outbound ELSE Reports)
    /\ f[2] = 2 => r.bid \in Reports \/ (r.bid = None /\ r.pc = "idle")

\* The goroutine that a bundle comes to.
Owner(b) == IF b \in Inbound THEN <<"handler", 1>> ELSE <<"agent", 1>>

(***************************************************************************)
(* A bundle for this node is processed by its owner alone and never gets   *)
(* the Pending index; other bundles are never delivered here.              *)
(***************************************************************************)
LocalLabels ==
    {"new", "sync", "resync", "receive", "received", "blocks", "notify", "notifyDst",
     "notifySent", "transmit", "transmitSync", "transmitted", "dispatch", "load",
     "local", "localSync", "deliver", "handover", "delivered", "purge"}
LocalReturns == {"resync", "receive", "received", "notify", "transmitted", "deliver",
                 "handover", "idle"}

LocalFrame(f, r) ==
    /\ f = Owner(r.bid) /\ r.pc \in LocalLabels
    /\ r.pc = "sync" => r.after \in LocalReturns
    /\ r.cons \cap {FP, CI} = {}
    /\ r.bi # None => ~r.bi.pending
    /\ r.pc = "notifySent" \/ SyncTo(r, {"transmitted"}) => r.bi # None /\ r.bi.dst = Self
    /\ SyncTo(r, {"handover"}) => r.bi # None

TransitFrame(r) ==
    /\ r.pc \notin {"local", "localSync", "deliver", "handover", "delivered", "purge"}
    /\ ~SyncTo(r, {"deliver", "handover"})

(***************************************************************************)
(* What a goroutine does not do to a bundle that is held.  It syncs an     *)
(* empty set of constraints, which deletes the item, only where it stores  *)
(* the bundle again or hands it over.  It sends to the destination alone   *)
(* before it deletes the bundle.                                           *)
(***************************************************************************)
Safe(f, r) ==
    /\ r.pc # "delete"
    /\ r.pc = "sync" /\ r.cons = {} => \/ r.after \in {"resync", "receive", "handover"}
                                       \/ r.after = "notify" /\ r.bi = None
    /\ r.pc \in {"deliver", "delivered", "purge"} \/ SyncTo(r, {"deliver"}) => LE \in r.cons
    /\ r.pc = "forwarded" => ~r.del
    /\ r.pc \in {"routed", "sending"} =>
          \A p \in Peers : /\ r.snd[p] # "none" /\ r.del => p = Attr[r.bid].dst
                           /\ r.snd[p] = "sent" => p # Attr[r.bid].dst
    /\ IF Attr[r.bid].dst = Self THEN LocalFrame(f, r) ELSE TransitFrame(r)

FrameOK(held, f, r) == Named(r) /\ Origin(f, r) /\ (r.bid \in held => Safe(f, r))

FramesOK == \A f \in Frames : FrameOK(Held, f, fr[f])
ItemsOK == \A i \in Ids : store[i] # None => FitsItem(i, store[i])

\* None of the frames and loops knows the key i.
Unknown(i, frames) == /\ store[i] = None
                      /\ \A g \in frames : fr[g].id # i
                      /\ \A p \in Procs : i \notin todo[p]

Bearing(r) == r.pc = "new" \/ SyncTo(r, {"notify"})
AgentFrame == fr[<<"agent", 1>>]

(***************************************************************************)
(* A bundle that did not arrive is unknown, an agent's bundle is new until *)
(* it is stored, and so is its creation time until it is renamed.          *)
(***************************************************************************)
FreshInv ==
    \A b \in Own :
        /\ receptions[b] = 0 => Unknown(InitialId(b), Frames)
        /\ b \in Outbound /\ AgentFrame.bid = b /\ Bearing(AgentFrame) =>
              /\ Unknown(InitialId(b), Frames \ {<<"agent", 1>>})
              /\ AgentFrame.cons = {} /\ AgentFrame.bi = None
        /\ b \in Outbound /\ (receptions[b] = 0 \/ (AgentFrame.bid = b /\ Early(AgentFrame))) =>
              idk[Attr[b].tpl] = None

\* Where the destination is already noted down in the item.
Noted(r) == \/ r.pc \in {"notifySent", "transmit", "transmitSync", "transmitted", "dispatch"}
            \/ SyncTo(r, {"transmitted"})

LocalInv ==
    \A b \in Held : Attr[b].dst = Self =>
        /\ \A p \in Procs : InitialId(b) \notin todo[p]
        /\ \A f \in Frames : fr[f].id = InitialId(b) => f = Owner(b) /\ fr[f].bid = b
        /\ store[InitialId(b)] # None =>
              /\ ~store[InitialId(b)].pending
              /\ fr[Owner(b)].bid = b /\ Noted(fr[Owner(b)]) => store[InitialId(b)].dst = Self

\* The bundle is about to be stored, or handed over.
Waiting(r) ==
    \/ r.pc \in {"new", "resync", "receive"} /\ r.cons = {}
    \/ SyncTo(r, {"resync", "receive"}) /\ r.cons = {}
    \/ SyncTo(r, {"received", "notify"}) /\ r.bi = None
    \/ r.pc = "handover"

HeldInv ==
    \A b \in Held : receptions[b] > 0 =>
        \/ store[InitialId(b)] # None
        \/ fr[Owner(b)].bid = b /\ Waiting(fr[Owner(b)])

CInv == IInv /\ FramesOK /\ ItemsOK /\ FreshInv /\ LocalInv /\ HeldInv

-----------------------------------------------------------------------------
\* Names and bundles.

LEMMA OwnTypes ==
    /\ Own \subseteq Bundles /\ Reports \subseteq Bundles
    /\ \A b \in Own \cup Reports : InitialId(b) \in Ids /\ InitialId(b)[1] = Attr[b].tpl
<1>1. Own \subseteq Bundles
  BY CoreAssumption DEF Own
<1>2. Reports \subseteq Bundles
  BY AttrType DEF Reports
<1> QED
  BY <1>1, <1>2, AttrType DEF InitialId

LEMMA ReportsDiffer ==
    ASSUME Steady
    PROVE  /\ Own \cap Reports = {}
           /\ \A c \in Reports, b \in Own : \A i \in Ids : i[1] = Attr[c].tpl => i # InitialId(b)
           /\ \A c \in Reports : Attr[c].admin
<1>1. \A c \in Reports : Attr[c].admin
  BY CoreAssumption DEF Reports
<1> QED
  BY <1>1, OwnTypes DEF Steady, NamesDiffer

\* The key of a bundle of others holds this bundle only.
LEMMA FitsOwn ==
    ASSUME Steady, NEW b \in Own, NEW c, Fits(InitialId(b), c) PROVE c = b
BY OwnTypes DEF Fits, Steady, NamesDiffer

LEMMA OwnFits ==
    ASSUME Steady, NEW b \in Own, NEW i, Fits(i, b) PROVE i = InitialId(b)
BY ReportsDiffer DEF Fits

LEMMA OwnerType ==
    ASSUME NEW b PROVE Owner(b) \in Frames /\ Owner(b)[2] = 1
BY DEF Owner, Frames, Procs

LEMMA SelfIsLocal ==
    ASSUME Steady, agents \subseteq AgentEids, NEW b \in Own
    PROVE  HasEndpoint(Attr[b].dst) <=> Attr[b].dst = Self
BY DEF HasEndpoint, Steady, NodeIsSteady

LEMMA CustodyIsHeld ==
    ASSUME Steady, IInv PROVE \A b \in InCustody : b \in Held /\ receptions[b] > 0
<1>1. agents \subseteq AgentEids
  BY DEF IInv, Rest
<1>2. \A b \in Outbound : Attr[b].src # None /\ ~HasEndpoint(Attr[b].src)
                             <=> Attr[b].src \notin {None, Self}
  BY <1>1 DEF HasEndpoint, Steady, NodeIsSteady
<1> QED
  BY <1>2 DEF InCustody, Held, Hopeless, Discardable, Own

LEMMA HeldShrinks ==
    ASSUME reached \subseteq reached', expired \subseteq expired' PROVE Held' \subseteq Held
BY DEF Held

-----------------------------------------------------------------------------
\* A step of one goroutine.

\* The frame that SendStatusReport starts.
NewReport(g, r) ==
    /\ g[2] = 2
    /\ r.pc = "new" /\ ~r.recv /\ r.bi = None /\ \A p \in Peers : r.rbi[p] = None
    /\ r.bid \in Reports /\ r.id = InitialId(r.bid)

\* The other frames when frame f takes a step.
Others(f) == \A g \in Frames : g # f => fr'[g] = fr[g] \/ NewReport(g, fr'[g])

LEMMA NewReportOK ==
    ASSUME Steady, NEW g \in Frames, NEW r, NewReport(g, r) PROVE FrameOK(Held', g, r)
<1>1. Fits(r.id, r.bid) /\ r.bid \notin Own
  BY OwnTypes, ReportsDiffer DEF Fits, NewReport
<1>2. Named(r)
  BY <1>1 DEF Named, NewReport
<1>3. g # <<"agent", 1>>
  BY DEF NewReport
<1>4. Origin(g, r)
  BY <1>3 DEF Origin, NewReport, Receiving, Late, Early, SyncTo
<1>5. Held' \subseteq Own
  BY DEF Held
<1> QED
  BY <1>1, <1>2, <1>4, <1>5 DEF FrameOK

\* A frame that is fine stays so when fewer bundles are held.
LEMMA FramesGlue ==
    ASSUME Steady, FramesOK, NEW f \in Frames, Others(f), Held' \subseteq Held,
           FrameOK(Held', f, fr'[f])
    PROVE  FramesOK'
<1>1. ASSUME NEW g \in Frames PROVE FrameOK(Held', g, fr'[g])
  <2>1. CASE fr'[g] = fr[g]
    <3>1. FrameOK(Held, g, fr[g])
      BY DEF FramesOK
    <3> QED
      BY <2>1, <3>1 DEF FrameOK
  <2>2. CASE NewReport(g, fr'[g])
    BY <2>2, NewReportOK
  <2> QED
    BY <2>1, <2>2 DEF Others
<1> QED
  BY <1>1 DEF FramesOK, FrameOK, Named, Origin, Safe, LocalFrame, TransitFrame, FitsItem, Fits, Own,
              Early, Late, Receiving, SyncTo, Owner, InitialId

\* What a step may do to the keys: it stays with its own, gives it up, or
\* a status report is renamed.
KeepsKey(f) ==
    \/ fr'[f].id = fr[f].id
    \/ fr'[f].id = None
    \/ fr'[f].id \in Ids /\ \E c \in Reports : fr'[f].id[1] = Attr[c].tpl

LEMMA OtherKeys ==
    ASSUME Steady, NEW f \in Frames, Others(f), KeepsKey(f), NEW b \in Own,
           NEW g \in Frames, fr'[g].id = InitialId(b)
    PROVE  fr[g].id = InitialId(b) /\ (g # f => fr'[g] = fr[g])
<1>1. InitialId(b) \in Ids /\ InitialId(b) # None
  BY OwnTypes, DescriptorAssumption
<1>2. CASE g = f
  BY <1>1, <1>2, ReportsDiffer DEF KeepsKey
<1>3. CASE g # f
  <2>1. ~NewReport(g, fr'[g])
    BY OwnTypes, ReportsDiffer DEF NewReport
  <2> QED
    BY <1>3, <2>1 DEF Others
<1> QED
  BY <1>2, <1>3

LEMMA OwnerStays ==
    ASSUME NEW f \in Frames, Others(f), NEW g \in Frames, g # f, g[2] = 1 PROVE fr'[g] = fr[g]
BY DEF Others, NewReport

\* The agent's SendBundle proceeds.
AgentProceeds(f) ==
    f = <<"agent", 1>> /\ fr'[f].bid \in Outbound =>
        /\ Early(fr'[f]) => Early(fr[f]) /\ fr'[f].bid = fr[f].bid
        /\ Bearing(fr'[f]) => /\ Bearing(fr[f]) /\ store' = store /\ fr'[f].bid = fr[f].bid
                              /\ fr'[f].cons = fr[f].cons
                              /\ fr'[f].bi \in {fr[f].bi, store[fr[f].id]}

LEMMA FreshGlue ==
    ASSUME Steady, FramesOK, FreshInv, NEW f \in Frames, Others(f), KeepsKey(f), AgentProceeds(f),
           UNCHANGED <<receptions, todo>>,
           \A j \in Ids : store'[j] = store[j] \/ store'[j] = None \/ j = fr[f].id,
           \A b \in Outbound : \/ idk'[Attr[b].tpl] = idk[Attr[b].tpl]
                               \/ f = <<"agent", 1>> /\ fr[f].bid = b /\ ~Early(fr'[f])
    PROVE  FreshInv'
<1> DEFINE a == <<"agent", 1>>
<1>0. a \in Frames /\ a[2] = 1
  BY DEF Frames, Procs
<1>1. ASSUME NEW b \in Own, NEW G \in SUBSET Frames, Unknown(InitialId(b), G),
             f \in G \/ store' = store
      PROVE  /\ store'[InitialId(b)] = None
             /\ \A g \in G : fr'[g].id # InitialId(b)
             /\ \A p \in Procs : InitialId(b) \notin todo'[p]
  <2>1. InitialId(b) \in Ids
    BY OwnTypes
  <2>2. store'[InitialId(b)] = None
    BY <1>1, <2>1 DEF Unknown
  <2>3. \A g \in G : fr'[g].id # InitialId(b)
    BY <1>1, OtherKeys DEF Unknown
  <2> QED
    BY <1>1, <2>2, <2>3 DEF Unknown
<1>2. ASSUME NEW b \in Own, receptions[b] = 0
      PROVE  /\ store'[InitialId(b)] = None
             /\ \A g \in Frames : fr'[g].id # InitialId(b)
             /\ \A p \in Procs : InitialId(b) \notin todo'[p]
  <2>1. Unknown(InitialId(b), Frames)
    BY <1>2 DEF FreshInv
  <2> QED
    BY <1>1, <2>1
<1>3. ASSUME NEW b \in Outbound, fr'[a].bid = b, Bearing(fr'[a])
      PROVE  /\ store'[InitialId(b)] = None
             /\ \A g \in Frames \ {a} : fr'[g].id # InitialId(b)
             /\ \A p \in Procs : InitialId(b) \notin todo'[p]
             /\ fr'[a].cons = {} /\ fr'[a].bi = None
  <2>0. b \in Own
    BY DEF Own
  <2>1. CASE f = a
    <3>1. /\ Bearing(fr[a]) /\ store' = store /\ fr[a].bid = b
          /\ fr'[a].cons = fr[a].cons /\ fr'[a].bi \in {fr[a].bi, store[fr[a].id]}
      BY <1>3, <2>1 DEF AgentProceeds
    <3>2. /\ Unknown(InitialId(b), Frames \ {a}) /\ fr[a].cons = {} /\ fr[a].bi = None
      BY <2>0, <3>1 DEF FreshInv, AgentFrame
    <3>3. fr[a].id = InitialId(b)
      <4>1. Fits(fr[a].id, b)
        BY <1>0, <2>0, <3>1, OwnTypes, DescriptorAssumption DEF FramesOK, FrameOK, Named
      <4> QED
        BY <2>0, <4>1, OwnFits
    <3> QED
      BY <1>1, <2>0, <3>1, <3>2, <3>3 DEF Unknown
  <2>2. CASE f # a
    <3>1. fr'[a] = fr[a]
      BY <1>0, <2>2, OwnerStays
    <3>2. /\ Unknown(InitialId(b), Frames \ {a}) /\ fr[a].cons = {} /\ fr[a].bi = None
      BY <1>3, <2>0, <3>1 DEF FreshInv, AgentFrame
    <3> QED
      BY <1>1, <2>0, <2>2, <3>1, <3>2
  <2> QED
    BY <2>1, <2>2
<1>4. ASSUME NEW b \in Outbound, receptions[b] = 0 \/ (fr'[a].bid = b /\ Early(fr'[a]))
      PROVE  idk'[Attr[b].tpl] = None
  <2>0. b \in Own
    BY DEF Own
  <2>1. ASSUME receptions[b] = 0 PROVE ~(f = a /\ fr[f].bid = b)
    <3>1. fr[f].id # InitialId(b)
      BY <2>0, <2>1 DEF FreshInv, Unknown
    <3>2. fr[f].bid = b => Fits(fr[f].id, b)
      BY <2>0, OwnTypes, DescriptorAssumption DEF FramesOK, FrameOK, Named
    <3> QED
      BY <2>0, <3>1, <3>2, OwnFits
  <2>2. idk[Attr[b].tpl] = None
    <3>1. CASE receptions[b] = 0
      BY <2>0, <3>1 DEF FreshInv
    <3>2. CASE fr'[a].bid = b /\ Early(fr'[a])
      <4>1. fr[a].bid = b /\ Early(fr[a])
        BY <1>0, <3>2, OwnerStays DEF AgentProceeds
      <4> QED
        BY <2>0, <4>1 DEF FreshInv, AgentFrame
    <3> QED
      BY <1>4, <3>1, <3>2
  <2> QED
    BY <1>4, <2>1, <2>2
<1> HIDE DEF a
<1> QED
  BY <1>2, <1>3, <1>4 DEF FreshInv, Unknown, AgentFrame, Bearing, Early, SyncTo, InitialId, a

(***************************************************************************)
(* A bundle for this node: the step of its owner keeps the Pending index   *)
(* off and the destination noted down.                                     *)
(***************************************************************************)
KeepsLocal(f) ==
    \A b \in Held' : Attr[b].dst = Self /\ fr[f].id = InitialId(b) =>
        /\ fr'[f].id = InitialId(b) => fr'[f].bid = b
        /\ store'[fr[f].id] # None =>
              /\ ~store'[fr[f].id].pending
              /\ fr'[f].bid = b /\ Noted(fr'[f]) => store'[fr[f].id].dst = Self

LEMMA LocalGlue ==
    ASSUME Steady, FramesOK', LocalInv, Held' \subseteq Held, NEW f \in Frames, Others(f),
           KeepsKey(f), KeepsLocal(f), UNCHANGED todo,
           \A j \in Ids : store'[j] = store[j] \/ store'[j] = None \/ j = fr[f].id
    PROVE  LocalInv'
<1>1. ASSUME NEW b \in Held', Attr[b].dst = Self
      PROVE  /\ \A p \in Procs : InitialId(b) \notin todo'[p]
             /\ \A g \in Frames : fr'[g].id = InitialId(b) => g = Owner(b) /\ fr'[g].bid = b
             /\ store'[InitialId(b)] # None =>
                   /\ ~store'[InitialId(b)].pending
                   /\ fr'[Owner(b)].bid = b /\ Noted(fr'[Owner(b)]) =>
                         store'[InitialId(b)].dst = Self
  <2>1. b \in Held /\ b \in Own /\ InitialId(b) \in Ids
    BY OwnTypes DEF Held
  <2>2. /\ \A p \in Procs : InitialId(b) \notin todo[p]
        /\ \A g \in Frames : fr[g].id = InitialId(b) => g = Owner(b) /\ fr[g].bid = b
        /\ store[InitialId(b)] # None =>
              /\ ~store[InitialId(b)].pending
              /\ fr[Owner(b)].bid = b /\ Noted(fr[Owner(b)]) => store[InitialId(b)].dst = Self
    BY <1>1, <2>1 DEF LocalInv
  <2>3. ASSUME NEW g \in Frames, fr'[g].id = InitialId(b) PROVE g = Owner(b) /\ fr'[g].bid = b
    <3>1. fr[g].id = InitialId(b) /\ (g # f => fr'[g] = fr[g])
      BY <2>1, <2>3, OtherKeys
    <3> QED
      BY <1>1, <2>2, <2>3, <3>1 DEF KeepsLocal
  <2>4. CASE fr[f].id = InitialId(b)
    <3>1. f = Owner(b)
      BY <2>2, <2>4
    <3> QED
      BY <1>1, <2>2, <2>3, <2>4, <3>1 DEF KeepsLocal
  <2>5. CASE fr[f].id # InitialId(b)
    <3>1. store'[InitialId(b)] \in {store[InitialId(b)], None}
      BY <2>1, <2>5
    <3>2. ASSUME fr'[Owner(b)].bid = b PROVE fr'[Owner(b)] = fr[Owner(b)]
      <4>1. CASE f = Owner(b)
        <5>1. fr'[f].bid # None /\ fr'[f].bid = b
          BY <2>1, <3>2, <4>1, OwnTypes, DescriptorAssumption
        <5>2. Fits(fr'[f].id, b)
          BY <5>1 DEF FramesOK, FrameOK, Named, Fits, InitialId
        <5>3. fr'[f].id = InitialId(b)
          BY <2>1, <5>2, OwnFits
        <5> QED
          BY <2>1, <2>5, <5>3, OtherKeys
      <4>2. CASE f # Owner(b)
        BY <4>2, OwnerType, OwnerStays
      <4> QED
        BY <4>1, <4>2
    <3> QED
      BY <2>2, <2>3, <3>1, <3>2
  <2> QED
    BY <2>4, <2>5
<1> QED
  BY <1>1 DEF LocalInv, InitialId, Owner, Noted, SyncTo

\* The bundle of frame f stays in the store, or its owner still waits.
KeepsHeld(f) ==
    \A b \in Held' : fr[f].id = InitialId(b) =>
        \/ store'[fr[f].id] # None
        \/ /\ store[fr[f].id] = None
           /\ f = Owner(b) /\ fr[f].bid = b /\ Waiting(fr[f]) =>
                 fr'[f].bid = b /\ Waiting(fr'[f])
        \/ f = Owner(b) /\ fr'[f].bid = b /\ Waiting(fr'[f])

LEMMA HeldGlue ==
    ASSUME Steady, FramesOK, ItemsOK, HeldInv, Held' \subseteq Held, NEW f \in Frames, Others(f),
           KeepsHeld(f), UNCHANGED receptions,
           \A j \in Ids : \/ store'[j] = store[j]
                          \/ store[j] # None /\ store[j].bndl \notin Held'
                          \/ j = fr[f].id
    PROVE  HeldInv'
<1>1. ASSUME NEW b \in Held', receptions[b] > 0
      PROVE  \/ store'[InitialId(b)] # None
             \/ fr'[Owner(b)].bid = b /\ Waiting(fr'[Owner(b)])
  <2>1. b \in Held /\ b \in Own /\ InitialId(b) \in Ids
    BY OwnTypes DEF Held
  <2>2. \/ store[InitialId(b)] # None
        \/ fr[Owner(b)].bid = b /\ Waiting(fr[Owner(b)])
    BY <1>1, <2>1 DEF HeldInv
  <2>3. f # Owner(b) => fr'[Owner(b)] = fr[Owner(b)]
    BY OwnerType, OwnerStays
  <2>4. CASE fr[f].id = InitialId(b)
    BY <2>2, <2>3, <2>4 DEF KeepsHeld
  <2>5. CASE fr[f].id # InitialId(b)
    <3>1. store'[InitialId(b)] = store[InitialId(b)]
      <4>1. store[InitialId(b)] # None => store[InitialId(b)].bndl = b
        BY <2>1, FitsOwn DEF ItemsOK, FitsItem
      <4> QED
        BY <2>1, <2>5, <4>1
    <3>2. fr[Owner(b)].bid = b => f # Owner(b)
      <4>1. ASSUME fr[f].bid = b PROVE FALSE
        <5>1. Fits(fr[f].id, b)
          BY <2>1, <4>1, OwnTypes, DescriptorAssumption DEF FramesOK, FrameOK, Named
        <5> QED
          BY <2>1, <2>5, <5>1, OwnFits
      <4> QED
        BY <4>1
    <3> QED
      BY <2>2, <2>3, <3>1, <3>2
  <2> QED
    BY <2>4, <2>5
<1> QED
  BY <1>1 DEF HeldInv, InitialId, Owner, Waiting, SyncTo

(***************************************************************************)
(* What has to be shown of a step that leaves the store alone.             *)
(***************************************************************************)
CalmMove(f) ==
    /\ Calm /\ Others(f) /\ FrameOK(Held, f, fr'[f])
    /\ fr'[f].id = fr[f].id \/ fr'[f].id = None
    /\ fr'[f].id # None /\ fr[f].bid # None => fr'[f].bid = fr[f].bid
    /\ f = <<"agent", 1>> /\ fr'[f].bid \in Outbound =>
          /\ Early(fr'[f]) => Early(fr[f]) /\ fr'[f].bid = fr[f].bid
          /\ Bearing(fr'[f]) => /\ Bearing(fr[f]) /\ fr'[f].bid = fr[f].bid
                                /\ fr'[f].cons = fr[f].cons
                                /\ fr'[f].bi \in {fr[f].bi, store[fr[f].id]}
    /\ fr'[f].bid \in Held /\ Attr[fr'[f].bid].dst = Self /\ Noted(fr'[f])
          /\ store[fr[f].id] # None => store[fr[f].id].dst = Self
    /\ fr[f].bid \in Held /\ Waiting(fr[f]) /\ store[fr[f].id] = None =>
          fr'[f].bid = fr[f].bid /\ Waiting(fr'[f])

LEMMA CalmGlue ==
    ASSUME Steady, CInv, IInv', NEW f \in Frames, CalmMove(f) PROVE CInv'
<1> USE DEF CInv
<1>1. Held' = Held /\ store' = store /\ UNCHANGED <<receptions, todo, idk>>
  BY DEF CalmMove, Calm, shared, world, Held
<1>2. Others(f) /\ FrameOK(Held', f, fr'[f]) /\ KeepsKey(f)
  BY <1>1 DEF CalmMove, KeepsKey
<1>3. FramesOK'
  BY <1>1, <1>2, FramesGlue
<1>4. ItemsOK'
  BY <1>1 DEF ItemsOK, FitsItem, Fits, Own, InitialId
<1>5. FreshInv'
  <2>1. AgentProceeds(f)
    BY <1>1 DEF CalmMove, AgentProceeds
  <2> QED
    BY <1>1, <1>2, <2>1, FreshGlue
<1>6. LocalInv'
  <2>1. KeepsLocal(f)
    <3> SUFFICES ASSUME NEW b \in Held', Attr[b].dst = Self, fr[f].id = InitialId(b)
                 PROVE  /\ fr'[f].id = InitialId(b) => fr'[f].bid = b
                        /\ store'[fr[f].id] # None =>
                              /\ ~store'[fr[f].id].pending
                              /\ fr'[f].bid = b /\ Noted(fr'[f]) => store'[fr[f].id].dst = Self
      BY DEF KeepsLocal
    <3>1. b \in Held /\ b \in Own /\ InitialId(b) # None /\ b # None
      BY <1>1, OwnTypes, DescriptorAssumption DEF Held
    <3>2. f = Owner(b) /\ fr[f].bid = b
      BY <3>1 DEF LocalInv
    <3> QED
      BY <1>1, <3>1, <3>2 DEF CalmMove, LocalInv
  <2> QED
    BY <1>1, <1>2, <1>3, <2>1, LocalGlue
<1>7. HeldInv'
  <2>1. KeepsHeld(f)
    BY <1>1 DEF CalmMove, KeepsHeld
  <2> QED
    BY <1>1, <1>2, <2>1, HeldGlue
<1> QED
  BY <1>3, <1>4, <1>5, <1>6, <1>7

(***************************************************************************)
(* What has to be shown of a step that writes the item of frame f.         *)
(***************************************************************************)
WriteMove(f) ==
    /\ \A j \in Ids : j # fr[f].id => store'[j] = store[j]
    /\ store'[fr[f].id] # None => FitsItem(fr[f].id, store'[fr[f].id])
    /\ UNCHANGED <<todo, idk, world, reached>>
    /\ Others(f) /\ FrameOK(Held, f, fr'[f]) /\ KeepsLocal(f) /\ KeepsHeld(f)
    /\ fr'[f].id = fr[f].id \/ fr'[f].id = None
    /\ f = <<"agent", 1>> /\ fr'[f].bid \in Outbound =>
          ~Bearing(fr'[f]) /\ (Early(fr'[f]) => Early(fr[f]) /\ fr'[f].bid = fr[f].bid)

LEMMA WriteGlue ==
    ASSUME Steady, CInv, IInv', NEW f \in Frames, WriteMove(f) PROVE CInv'
<1> USE DEF CInv
<1>1. Held' = Held /\ UNCHANGED <<receptions, todo, idk>>
  BY DEF WriteMove, world, Held
<1>2. Others(f) /\ FrameOK(Held', f, fr'[f]) /\ KeepsKey(f) /\ AgentProceeds(f)
  BY <1>1 DEF WriteMove, KeepsKey, AgentProceeds
<1>3. FramesOK'
  BY <1>1, <1>2, FramesGlue
<1>4. ItemsOK'
  <2>1. \A i \in Ids : store'[i] # None => FitsItem(i, store'[i])
    BY DEF ItemsOK, WriteMove
  <2> QED
    BY <2>1 DEF ItemsOK, FitsItem, Fits, Own, InitialId
<1>5. FreshInv'
  BY <1>1, <1>2, FreshGlue DEF WriteMove
<1>6. LocalInv'
  BY <1>1, <1>2, <1>3, LocalGlue DEF WriteMove
<1>7. HeldInv'
  BY <1>1, <1>2, HeldGlue DEF WriteMove
<1> QED
  BY <1>3, <1>4, <1>5, <1>6, <1>7

-----------------------------------------------------------------------------
\* What is known of a frame.

LEMMA GotoFields ==
    ASSUME FrameInv, NEW f \in Frames, NEW q, Goto(f, q)
    PROVE  fr'[f] = q /\ Others(f)
BY DEF FrameInv, Goto, Others

LEMMA JumpFields ==
    ASSUME FrameInv, NEW f \in Frames, NEW l, Jump(f, l)
    PROVE  LET r == fr[f] q == fr'[f] IN
           /\ Others(f)
           /\ q.pc = l /\ q.after = r.after /\ q.recv = r.recv /\ q.bid = r.bid /\ q.id = r.id
           /\ q.cons = r.cons /\ q.prev = r.prev /\ q.bi = r.bi /\ q.del = r.del
           /\ q.snd = r.snd /\ q.rbi = r.rbi
<1>1. fr'[f] = [fr[f] EXCEPT !.pc = l] /\ Others(f)
  BY GotoFields DEF Jump
<1> QED
  BY <1>1, FrameFacts DEF FrameRec

LEMMA SyncFields ==
    ASSUME FrameInv, NEW f \in Frames, NEW c, NEW after, Sync(f, c, after)
    PROVE  LET r == fr[f] q == fr'[f] IN
           /\ Others(f)
           /\ q.pc = "sync" /\ q.after = after /\ q.recv = r.recv /\ q.bid = r.bid /\ q.id = r.id
           /\ q.cons = c /\ q.prev = r.prev /\ q.bi = store[r.id] /\ q.del = r.del
           /\ q.snd = r.snd /\ q.rbi = r.rbi
<1>1. fr'[f] = [fr[f] EXCEPT !.pc = "sync", !.after = after, !.cons = c, !.bi = store[fr[f].id]]
      /\ Others(f)
  BY GotoFields DEF Sync
<1> QED
  BY <1>1, FrameFacts DEF FrameRec

LEMMA IdleFields ==
    /\ IdleFrame.pc = "idle" /\ ~IdleFrame.recv /\ IdleFrame.bid = None /\ IdleFrame.id = None
    /\ IdleFrame.cons = {} /\ IdleFrame.bi = None /\ \A p \in Peers : IdleFrame.rbi[p] = None
BY DEF IdleFrame

LEMMA IdleOK == ASSUME NEW f, NEW held, held \subseteq Own PROVE FrameOK(held, f, IdleFrame)
<1>1. None \notin Own
  BY OwnTypes, DescriptorAssumption
<1> QED
  BY <1>1, IdleFields DEF FrameOK, Named, Origin, Receiving, Late, Early, SyncTo

\* The goroutine returns.
LEMMA ReturnMove ==
    ASSUME Steady, CInv, NEW f \in Frames, Calm, Goto(f, IdleFrame),
           fr[f].bid \in Held /\ Waiting(fr[f]) => store[fr[f].id] # None
    PROVE  CalmMove(f)
<1>1. fr'[f] = IdleFrame /\ Others(f)
  BY GotoFields DEF CInv, IInv
<1>2. FrameOK(Held, f, IdleFrame)
  BY IdleOK DEF Held
<1>3. None \notin Own /\ Held \subseteq Own /\ Outbound \subseteq Own
  BY OwnTypes, DescriptorAssumption DEF Held, Own
<1> QED
  BY <1>1, <1>2, <1>3, IdleFields DEF CalmMove

LEMMA MyFrame ==
    ASSUME CInv, NEW f \in Frames
    PROVE  /\ fr[f] \in FrameRec /\ GoodFrame(fr[f])
           /\ Named(fr[f]) /\ Origin(f, fr[f])
           /\ fr[f].bid \in Held => Safe(f, fr[f])
BY FrameFacts DEF CInv, IInv, FramesOK, FrameOK

\* A goroutine that has a held bundle finds it in the store unless it is the
\* owner, who waits.
LEMMA HeldFacts ==
    ASSUME Steady, CInv, NEW f \in Frames, fr[f].bid \in Held
    PROVE  LET b == fr[f].bid IN
           /\ b \in Own /\ b \in Bundles /\ b \notin Reports /\ b # None
           /\ fr[f].id = InitialId(b) /\ fr[f].id \in Ids
           /\ receptions[b] > 0
           /\ store[fr[f].id] = None /\ f = Owner(b) => Waiting(fr[f])
           /\ Attr[b].dst = Self => f = Owner(b)
           /\ Attr[b].dst = Self /\ store[fr[f].id] # None =>
                 /\ ~store[fr[f].id].pending
                 /\ Noted(fr[f]) => store[fr[f].id].dst = Self
<1> DEFINE b == fr[f].bid
<1>1. b \in Own /\ b \in Bundles /\ b \notin Reports /\ b # None
  BY OwnTypes, ReportsDiffer, DescriptorAssumption DEF Held
<1>2. Fits(fr[f].id, b)
  BY <1>1, MyFrame DEF Named
<1>3. fr[f].id = InitialId(b) /\ fr[f].id \in Ids
  BY <1>1, <1>2, OwnFits, OwnTypes
<1>4. receptions[b] \in Nat
  BY <1>1, CoreAssumption DEF CInv, IInv, Rest
<1>5. receptions[b] # 0
  BY <1>1, <1>3 DEF CInv, FreshInv, Unknown
<1>6. Attr[b].dst = Self => f = Owner(b)
  BY MyFrame DEF Safe, LocalFrame
<1>7. store[fr[f].id] = None /\ f = Owner(b) => Waiting(fr[f])
  BY <1>3, <1>4, <1>5 DEF CInv, HeldInv
<1>8. Attr[b].dst = Self /\ store[fr[f].id] # None =>
                 /\ ~store[fr[f].id].pending
                 /\ Noted(fr[f]) => store[fr[f].id].dst = Self
  BY <1>3, <1>6 DEF CInv, LocalInv
<1> QED
  BY <1>1, <1>3, <1>4, <1>5, <1>6, <1>7, <1>8

\* Only an agent's bundle is held while SendBundle runs.
LEMMA HeldIsAgents ==
    ASSUME Steady, CInv, NEW f \in Frames, fr[f].bid \in Held, Early(fr[f]) \/ Late(fr[f])
    PROVE  f = <<"agent", 1>> /\ fr[f].bid \in Outbound
BY MyFrame, HeldFacts DEF Origin

(***************************************************************************)
(* A call of BundleDescriptor.Sync.                                        *)
(***************************************************************************)
LEMMA SyncMove ==
    ASSUME Steady, CInv, NEW f \in Frames, NEW c, NEW after, Sync(f, c, after), Calm,
           fr[f].pc # "idle", \A p \in Peers : fr[f].rbi[p] = None,
           after \in {"resync", "receive", "received"} => fr[f].recv,
           after = "notify" => fr[f].pc = "new" /\ ~fr[f].recv /\ c = fr[f].cons,
           after = "transmitted" => fr[f].pc = "transmitSync",
           fr[f].bid \in Held => Safe(f, fr'[f]),
           fr[f].bid \in Held /\ Waiting(fr[f]) /\ store[fr[f].id] = None => Waiting(fr'[f])
    PROVE  CalmMove(f)
<1> DEFINE r == fr[f]
           q == fr'[f]
<1>1. /\ Others(f)
      /\ q.pc = "sync" /\ q.after = after /\ q.recv = r.recv /\ q.bid = r.bid /\ q.id = r.id
      /\ q.cons = c /\ q.bi = store[r.id] /\ q.rbi = r.rbi
  BY SyncFields DEF CInv, IInv
<1>2. r.id \in Ids /\ Named(r) /\ Origin(f, r)
  BY MyFrame DEF GoodFrame
<1> HIDE DEF q, r
<1>3. Named(q)
  BY <1>1, <1>2 DEF Named, CInv, ItemsOK, r
<1>4. Origin(f, q)
  BY <1>1, <1>2 DEF Origin, Receiving, Late, Early, SyncTo, r
<1>5. FrameOK(Held, f, q)
  BY <1>1, <1>3, <1>4 DEF FrameOK, q, r
<1>6. q.bid \in Held /\ Attr[q.bid].dst = Self /\ Noted(q) /\ store[r.id] # None
         => store[r.id].dst = Self
  <2>1. Noted(q) => Noted(r)
    BY <1>1 DEF Noted, SyncTo, r
  <2> QED
    BY <1>1, <2>1, HeldFacts DEF r
<1>7. /\ Early(q) => Early(r)
      /\ Bearing(q) => Bearing(r) /\ q.cons = r.cons
  BY <1>1 DEF Early, Bearing, SyncTo, r
<1> QED
  BY <1>1, <1>5, <1>6, <1>7 DEF CalmMove, q, r

(***************************************************************************)
(* A jump, and SendStatusReport: frame 2 only has reports, about which no  *)
(* report is sent.                                                         *)
(***************************************************************************)
Jumped(f, l) ==
    LET r == fr[f] q == fr'[f] IN
    /\ Others(f)
    /\ q.pc = l /\ q.after = r.after /\ q.recv = r.recv /\ q.bid = r.bid /\ q.id = r.id
    /\ q.cons = r.cons /\ q.prev = r.prev /\ q.bi = r.bi /\ q.del = r.del
    /\ q.snd = r.snd /\ q.rbi = r.rbi

LEMMA JumpIsJumped ==
    ASSUME FrameInv, NEW f \in Frames, NEW l, Jump(f, l) PROVE Jumped(f, l)
BY JumpFields DEF Jumped

LEMMA ReportJumps ==
    ASSUME Steady, CInv, NEW f \in Frames, NEW w, NEW l, ReportThen(f, w, l),
           fr[f].bid \in Bundles
    PROVE  Jumped(f, l)
<1>1. CASE Jump(f, l)
  BY <1>1, JumpIsJumped DEF CInv, IInv
<1>2. ASSUME NEW s \in Attr[fr[f].bid].reports, ~Attr[fr[f].bid].admin,
             fr' = [fr EXCEPT ![f] = [fr[f] EXCEPT !.pc = l],
                              ![<<f[1], 2>>] = NewDescriptor(s)]
      PROVE  Jumped(f, l)
  <2> DEFINE g == <<f[1], 2>>
  <2>1. f[2] # 2
    BY <1>2, MyFrame, ReportsDiffer, DescriptorAssumption DEF Origin
  <2>2. g \in Frames /\ g # f
    BY <2>1 DEF Frames
  <2>3. s \in Reports
    BY <1>2 DEF Reports
  <2>4. /\ fr'[f] = [fr[f] EXCEPT !.pc = l] /\ fr'[g] = NewDescriptor(s)
        /\ \A h \in Frames : h # f /\ h # g => fr'[h] = fr[h]
    BY <1>2, <2>2 DEF CInv, IInv, FrameInv
  <2>5. NewReport(g, NewDescriptor(s))
    BY <2>3 DEF NewReport, NewDescriptor, IdleFrame
  <2>6. Others(f)
    BY <2>4, <2>5 DEF Others
  <2>7. fr[f] \in FrameRec
    BY MyFrame
  <2> QED
    BY <2>4, <2>6, <2>7 DEF Jumped, FrameRec
<1> QED
  BY <1>1, <1>2 DEF ReportThen

\* A step to label l within the processing of a bundle.
LEMMA ShiftMove ==
    ASSUME Steady, CInv, NEW f \in Frames, NEW l, Calm, Others(f), fr[f].pc # "idle",
           fr'[f].pc = l, fr'[f].recv = fr[f].recv, fr'[f].bid = fr[f].bid, fr'[f].id = fr[f].id,
           Named(fr'[f]),
           l \notin {"sync", "new", "transmit", "transmitSync", "transmitted", "notifySent"},
           l \in {"resync", "receive", "received", "blocks"} => fr[f].recv,
           l \in {"notify", "notifyDst"} => fr[f].recv \/ Early(fr[f]),
           l = "dispatch" => Noted(fr[f]),
           fr[f].bid \in Held => Safe(f, fr'[f]),
           fr[f].bid \in Held /\ Waiting(fr[f]) /\ store[fr[f].id] = None => Waiting(fr'[f])
    PROVE  CalmMove(f)
<1> DEFINE r == fr[f]
           q == fr'[f]
<1>1. /\ Others(f) /\ Named(q)
      /\ q.pc = l /\ q.recv = r.recv /\ q.bid = r.bid /\ q.id = r.id
  OBVIOUS
<1>2. r.id \in Ids /\ Origin(f, r)
  BY MyFrame DEF GoodFrame
<1> HIDE DEF q, r
<1>4. Origin(f, q)
  BY <1>1, <1>2 DEF Origin, Receiving, Late, Early, SyncTo, r
<1>5. FrameOK(Held, f, q)
  BY <1>1, <1>4 DEF FrameOK, q, r
<1>6. q.bid \in Held /\ Attr[q.bid].dst = Self /\ Noted(q) /\ store[r.id] # None
         => store[r.id].dst = Self
  <2>1. Noted(q) => Noted(r)
    BY <1>1 DEF Noted, SyncTo, r
  <2> QED
    BY <1>1, <2>1, HeldFacts DEF r
<1>7. (Early(q) => Early(r)) /\ ~Bearing(q)
  BY <1>1 DEF Early, Bearing, SyncTo, r
<1> QED
  BY <1>1, <1>5, <1>6, <1>7 DEF CalmMove, q, r

LEMMA JumpMove ==
    ASSUME Steady, CInv, NEW f \in Frames, NEW l, Jumped(f, l), Calm,
           fr[f].pc # "idle", \A p \in Peers : fr[f].rbi[p] = None,
           l \notin {"sync", "new", "transmit", "transmitSync", "transmitted", "notifySent"},
           l \in {"resync", "receive", "received", "blocks"} => fr[f].recv,
           l \in {"notify", "notifyDst"} => fr[f].recv \/ Early(fr[f]),
           l = "dispatch" => Noted(fr[f]),
           fr[f].bid \in Held => Safe(f, fr'[f]),
           fr[f].bid \in Held /\ Waiting(fr[f]) /\ store[fr[f].id] = None => Waiting(fr'[f])
    PROVE  CalmMove(f)
<1>1. Named(fr'[f])
  BY MyFrame DEF Jumped, Named
<1> QED
  BY <1>1, ShiftMove DEF Jumped

-----------------------------------------------------------------------------
\* The steps that leave the store alone.

\* Only sending goroutines have items besides the frame's own.
LEMMA NoneFailed ==
    ASSUME CInv, NEW f \in Frames, fr[f].pc # "sending"
    PROVE  \A p \in Peers : fr[f].rbi[p] = None
BY MyFrame DEF Named

LEMMA NewFromBundleMove ==
    ASSUME Steady, CInv, NEW f \in Frames, NewFromBundle(f) PROVE CalmMove(f)
<1> DEFINE after == IF fr[f].recv THEN "resync" ELSE "notify"
<1>1. fr[f].pc = "new" /\ Sync(f, fr[f].cons, after) /\ Calm
  BY DEF NewFromBundle, At, Calm
<1>2. /\ fr'[f].pc = "sync" /\ fr'[f].after = after /\ fr'[f].bid = fr[f].bid
      /\ fr'[f].cons = fr[f].cons /\ fr'[f].bi = store[fr[f].id]
  BY <1>1, SyncFields DEF CInv, IInv
<1>3. ASSUME fr[f].bid \in Held, ~fr[f].recv
      PROVE  fr[f].cons = {} /\ store[fr[f].id] = None
  <2>1. f = <<"agent", 1>> /\ fr[f].bid \in Outbound
    BY <1>1, <1>3, HeldIsAgents DEF Early
  <2> QED
    BY <1>1, <1>3, <2>1, HeldFacts DEF CInv, FreshInv, Unknown, AgentFrame, Bearing, Own
<1>4. ASSUME fr[f].bid \in Held PROVE Safe(f, fr'[f])
  BY <1>1, <1>2, <1>3, <1>4, MyFrame, HeldFacts
     DEF Safe, LocalFrame, TransitFrame, LocalReturns, LocalLabels, SyncTo
<1>5. fr[f].bid \in Held /\ Waiting(fr[f]) => Waiting(fr'[f])
  BY <1>1, <1>2, <1>3 DEF Waiting, SyncTo
<1> QED
  BY <1>1, <1>4, <1>5, SyncMove, NoneFailed

LEMMA ResyncMove ==
    ASSUME Steady, CInv, NEW f \in Frames, Resync(f) PROVE CalmMove(f)
<1>1. fr[f].pc = "resync" /\ Sync(f, fr[f].cons, "receive") /\ Calm
  BY DEF Resync, At, Calm
<1>2. /\ fr'[f].pc = "sync" /\ fr'[f].after = "receive" /\ fr'[f].bid = fr[f].bid
      /\ fr'[f].cons = fr[f].cons /\ fr'[f].bi = store[fr[f].id]
  BY <1>1, SyncFields DEF CInv, IInv
<1>3. fr[f].recv
  BY <1>1, MyFrame DEF Origin, Receiving
<1>4. ASSUME fr[f].bid \in Held PROVE Safe(f, fr'[f])
  BY <1>1, <1>2, <1>4, MyFrame, HeldFacts
     DEF Safe, LocalFrame, TransitFrame, LocalReturns, LocalLabels, SyncTo
<1>5. Waiting(fr[f]) => Waiting(fr'[f])
  BY <1>1, <1>2 DEF Waiting, SyncTo
<1> QED
  BY <1>1, <1>3, <1>4, <1>5, SyncMove, NoneFailed

LEMMA ReceiveMove ==
    ASSUME Steady, CInv, NEW f \in Frames, Receive(f) PROVE CalmMove(f)
<1>1. fr[f].pc = "receive" /\ Calm /\ fr[f].recv
  BY MyFrame DEF Receive, At, Calm, Origin, Receiving
<1>2. CASE fr[f].cons # {} /\ Goto(f, IdleFrame)
  <2>1. ~Waiting(fr[f])
    BY <1>1, <1>2 DEF Waiting, SyncTo
  <2> QED
    BY <1>1, <1>2, <2>1, ReturnMove
<1>3. CASE fr[f].cons = {} /\ Sync(f, {DP}, "received")
  <2>1. /\ fr'[f].pc = "sync" /\ fr'[f].after = "received" /\ fr'[f].bid = fr[f].bid
        /\ fr'[f].cons = {DP} /\ fr'[f].bi = store[fr[f].id]
    BY <1>3, SyncFields DEF CInv, IInv
  <2>2. ASSUME fr[f].bid \in Held PROVE Safe(f, fr'[f])
    BY <1>1, <2>1, <2>2, MyFrame, HeldFacts
       DEF Safe, LocalFrame, TransitFrame, LocalReturns, LocalLabels, SyncTo, DP, FP, CI
  <2>3. store[fr[f].id] = None => Waiting(fr'[f])
    BY <2>1 DEF Waiting, SyncTo
  <2> QED
    BY <1>1, <1>3, <2>2, <2>3, SyncMove, NoneFailed
<1> QED
  BY <1>2, <1>3 DEF Receive

LEMMA HeldByOwner ==
    ASSUME Steady, CInv, NEW f \in Frames, fr[f].bid \in Held,
           fr[f].recv \/ Early(fr[f]) \/ Late(fr[f])
    PROVE  f = Owner(fr[f].bid)
<1>1. CASE fr[f].recv
  BY <1>1, MyFrame DEF Origin, Owner
<1>2. CASE Early(fr[f]) \/ Late(fr[f])
  BY <1>2, HeldIsAgents DEF Owner, Steady, NamesDiffer
<1> QED
  BY <1>1, <1>2

\* The item of a held bundle is one of this bundle.
LEMMA HeldItem ==
    ASSUME Steady, CInv, NEW f \in Frames, fr[f].bid \in Held
    PROVE  /\ store[fr[f].id] # None => /\ store[fr[f].id].bndl = fr[f].bid
                                        /\ store[fr[f].id].dst \in {None, Attr[fr[f].bid].dst}
           /\ fr[f].bi # None => /\ fr[f].bi.bndl = fr[f].bid
                                 /\ fr[f].bi.dst \in {None, Attr[fr[f].bid].dst}
<1>1. fr[f].bid \in Own /\ fr[f].id = InitialId(fr[f].bid) /\ fr[f].id \in Ids
  BY HeldFacts
<1>2. store[fr[f].id] # None => FitsItem(fr[f].id, store[fr[f].id])
  BY <1>1 DEF CInv, ItemsOK
<1>3. fr[f].bi # None => FitsItem(fr[f].id, fr[f].bi)
  BY MyFrame DEF Named
<1> QED
  BY <1>1, <1>2, <1>3, FitsOwn DEF FitsItem

LEMMA ReceivedMove ==
    ASSUME Steady, CInv, NEW f \in Frames, Received(f) PROVE CalmMove(f)
<1>1. fr[f].pc = "received" /\ Calm /\ fr[f].recv /\ fr[f].bid \in Bundles
  BY MyFrame DEF Received, At, Calm, Origin, Receiving, GoodFrame, Unloaded
<1>2. Jumped(f, "blocks")
  BY <1>1, ReportJumps DEF Received
<1>3. ASSUME fr[f].bid \in Held PROVE Safe(f, fr'[f])
  BY <1>1, <1>2, <1>3, MyFrame
     DEF Jumped, Safe, LocalFrame, TransitFrame, LocalReturns, LocalLabels, SyncTo
<1>4. ~Waiting(fr[f])
  BY <1>1 DEF Waiting, SyncTo
<1> QED
  BY <1>1, <1>2, <1>3, <1>4, JumpMove, NoneFailed

LEMMA CheckBlocksMove ==
    ASSUME Steady, CInv, NEW f \in Frames, CheckBlocks(f) PROVE CalmMove(f)
<1> DEFINE l == IF "delete" \in Attr[fr[f].bid].unknown THEN "delete" ELSE "notify"
<1>1. fr[f].pc = "blocks" /\ Calm /\ fr[f].recv /\ fr[f].bid \in Bundles
  BY MyFrame DEF CheckBlocks, At, Calm, Origin, Receiving, GoodFrame, Unloaded
<1>2. Jumped(f, l)
  BY <1>1, ReportJumps DEF CheckBlocks
<1>3. fr[f].bid \in Held => l = "notify"
  BY DEF Held, Hopeless
<1>4. ASSUME fr[f].bid \in Held PROVE Safe(f, fr'[f])
  BY <1>1, <1>2, <1>3, <1>4, MyFrame
     DEF Jumped, Safe, LocalFrame, TransitFrame, LocalReturns, LocalLabels, SyncTo
<1>5. ~Waiting(fr[f])
  BY <1>1 DEF Waiting, SyncTo
<1> QED
  BY <1>1, <1>2, <1>4, <1>5, JumpMove, NoneFailed

LEMMA AfterNotifyFields ==
    ASSUME NEW r \in FrameRec
    PROVE  LET q == AfterNotify(r) IN
           /\ q.pc = (IF r.recv THEN "dispatch" ELSE "transmit") /\ q.after = r.after
           /\ q.recv = r.recv /\ q.bid = r.bid /\ q.id = r.id /\ q.cons = r.cons
           /\ q.bi = None /\ q.del = r.del /\ q.snd = r.snd /\ q.rbi = r.rbi
BY DEF AfterNotify, FrameRec

\* The frame after EpidemicRouting.NotifyNewBundle.
LEMMA AfterNotifyOK ==
    ASSUME Steady, CInv, NEW f \in Frames, fr[f].pc \in {"notify", "notifySent"},
           fr[f].pc = "notify" => fr[f].bid \notin Held
    PROVE  FrameOK(Held, f, AfterNotify(fr[f]))
<1> DEFINE r == fr[f]
           q == AfterNotify(r)
<1>1. /\ q.pc = (IF r.recv THEN "dispatch" ELSE "transmit") /\ q.after = r.after
      /\ q.recv = r.recv /\ q.bid = r.bid /\ q.id = r.id /\ q.cons = r.cons
      /\ q.bi = None /\ q.del = r.del /\ q.snd = r.snd /\ q.rbi = r.rbi
  BY AfterNotifyFields, MyFrame
<1>2. Named(r) /\ Origin(f, r) /\ (r.bid \in Held => Safe(f, r))
  BY MyFrame
<1> HIDE DEF q, r
<1>3. Named(q)
  BY <1>1, <1>2 DEF Named, r
<1>4. Origin(f, q)
  BY <1>1, <1>2 DEF Origin, Receiving, Late, Early, SyncTo, r
<1>5. q.bid \in Held => Safe(f, q)
  BY <1>1, <1>2 DEF Safe, LocalFrame, TransitFrame, LocalReturns, LocalLabels, SyncTo, r
<1> QED
  BY <1>3, <1>4, <1>5 DEF FrameOK, q, r

LEMMA NotifyQueryMove ==
    ASSUME Steady, CInv, NEW f \in Frames, NotifyQuery(f) PROVE CalmMove(f)
<1> DEFINE r == fr[f]
           q == fr'[f]
<1>1. r.pc = "notify" /\ Calm /\ r.id \in Ids /\ r \in FrameRec
  BY MyFrame DEF NotifyQuery, At, Calm, GoodFrame
<1>2. Named(r) /\ Origin(f, r) /\ (r.bid \in Held => Safe(f, r)) /\ \A p \in Peers : r.rbi[p] = None
  BY <1>1, MyFrame, NoneFailed
<1>3. ~Waiting(r) /\ (r.recv \/ Early(r))
  BY <1>1, <1>2 DEF Waiting, SyncTo, Early, FrameRec
<1>4. r.bid \in Held => store[r.id] # None
  BY <1>3, HeldFacts, HeldByOwner
<1>5. CASE store[r.id] = None
  <2>1. q = AfterNotify(r) /\ Others(f)
    BY <1>5, GotoFields DEF NotifyQuery, CInv, IInv
  <2>2. FrameOK(Held, f, q)
    BY <1>1, <1>4, <1>5, <2>1, AfterNotifyOK
  <2>3. /\ q.pc = (IF r.recv THEN "dispatch" ELSE "transmit") /\ q.recv = r.recv
        /\ q.bid = r.bid /\ q.id = r.id
    BY <1>1, <2>1, AfterNotifyFields
  <2> QED
    BY <1>1, <1>3, <1>4, <1>5, <2>1, <2>2, <2>3 DEF CalmMove, Early, Bearing, SyncTo
<1>6. CASE store[r.id] # None
  <2> DEFINE x == store[r.id]
  <2>1. /\ q = [r EXCEPT !.bi = x, !.pc = IF x.dst = None THEN "notifyDst" ELSE "notifySent"]
        /\ Others(f)
    BY <1>6, GotoFields DEF NotifyQuery, CInv, IInv
  <2>2. /\ q.pc = (IF x.dst = None THEN "notifyDst" ELSE "notifySent") /\ q.after = r.after
        /\ q.recv = r.recv /\ q.bid = r.bid /\ q.id = r.id /\ q.cons = r.cons
        /\ q.bi = x /\ q.del = r.del /\ q.snd = r.snd /\ q.rbi = r.rbi
    BY <1>1, <2>1 DEF FrameRec
  <2>3. FitsItem(r.id, x)
    BY <1>1, <1>6 DEF CInv, ItemsOK
  <2>4. r.bid \in Held => x.dst \in {None, Attr[r.bid].dst}
                          /\ (Attr[r.bid].dst = Self => ~x.pending)
    BY <1>6, HeldItem, HeldFacts
  <2> HIDE DEF q, r, x
  <2>5. Named(q)
    BY <1>1, <1>2, <2>2, <2>3 DEF Named
  <2>6. Origin(f, q)
    BY <1>1, <1>2, <2>2 DEF Origin, Receiving, Late, Early, SyncTo
  <2>7. x # None
    BY <1>6 DEF x
  <2>8. q.bid \in Held => Safe(f, q)
    BY <1>1, <1>2, <2>2, <2>4, <2>7
       DEF Safe, LocalFrame, TransitFrame, LocalReturns, LocalLabels, SyncTo
  <2>9. (Early(q) => Early(r)) /\ ~Bearing(q)
    BY <1>1, <2>2 DEF Early, Bearing, SyncTo
  <2>10. q.bid \in Held /\ Attr[q.bid].dst = Self /\ Noted(q) => x.dst = Self
    BY <2>2, <2>4 DEF Noted, SyncTo
  <2> QED
    BY <1>1, <1>3, <2>1, <2>2, <2>5, <2>6, <2>8, <2>9, <2>10 DEF CalmMove, FrameOK, q, r, x
<1> QED
  BY <1>5, <1>6

LEMMA TransmitSyncMove ==
    ASSUME Steady, CInv, NEW f \in Frames, TransmitSync(f) PROVE CalmMove(f)
<1>1. fr[f].pc = "transmitSync" /\ Sync(f, fr[f].cons \cup {DP}, "transmitted") /\ Calm
  BY DEF TransmitSync, At, Calm
<1>2. /\ fr'[f].pc = "sync" /\ fr'[f].after = "transmitted" /\ fr'[f].bid = fr[f].bid
      /\ fr'[f].cons = fr[f].cons \cup {DP} /\ fr'[f].bi = store[fr[f].id]
  BY <1>1, SyncFields DEF CInv, IInv
<1>3. ~Waiting(fr[f]) /\ Late(fr[f]) /\ Noted(fr[f])
  BY <1>1 DEF Waiting, SyncTo, Late, Noted
<1>4. ASSUME fr[f].bid \in Held PROVE Safe(f, fr'[f])
  <2>1. store[fr[f].id] # None
    BY <1>3, <1>4, HeldFacts, HeldByOwner
  <2> QED
    BY <1>1, <1>2, <1>3, <1>4, <2>1, MyFrame, HeldFacts
       DEF Safe, LocalFrame, TransitFrame, LocalReturns, LocalLabels, SyncTo, DP, FP, CI
<1> QED
  BY <1>1, <1>3, <1>4, SyncMove, NoneFailed

LEMMA TransmittedMove ==
    ASSUME Steady, CInv, NEW f \in Frames, Transmitted(f) PROVE CalmMove(f)
<1> DEFINE src == Attr[fr[f].bid].src
           l == IF src # None /\ ~HasEndpoint(src) THEN "delete" ELSE "dispatch"
<1>1. fr[f].pc = "transmitted" /\ Calm /\ Jumped(f, l)
  BY JumpIsJumped DEF Transmitted, At, Calm, CInv, IInv
<1>2. ~Waiting(fr[f]) /\ Late(fr[f]) /\ Noted(fr[f])
  BY <1>1 DEF Waiting, SyncTo, Late, Noted
<1>3. ASSUME fr[f].bid \in Held PROVE l = "dispatch"
  <2>1. fr[f].bid \in Outbound
    BY <1>2, <1>3, HeldIsAgents
  <2>2. src \in {None, Self}
    BY <1>3, <2>1 DEF Held, Hopeless
  <2> QED
    BY <2>2 DEF HasEndpoint
<1>4. ASSUME fr[f].bid \in Held PROVE Safe(f, fr'[f])
  BY <1>1, <1>3, <1>4, MyFrame
     DEF Jumped, Safe, LocalFrame, TransitFrame, LocalReturns, LocalLabels, SyncTo
<1> QED
  BY <1>1, <1>2, <1>4, JumpMove, NoneFailed

\* The item of a frame's key fits its name.
LEMMA ItemFits ==
    ASSUME CInv, NEW f \in Frames, fr[f].pc # "idle", store[fr[f].id] # None
    PROVE  FitsItem(fr[f].id, store[fr[f].id])
BY MyFrame DEF GoodFrame, CInv, ItemsOK

LEMMA DispatchMove ==
    ASSUME Steady, CInv, NEW f \in Frames, Dispatch(f) PROVE CalmMove(f)
<1> DEFINE r == fr[f]
           q == fr'[f]
           x == store[r.id]
<1>1. r.pc = "dispatch" /\ Calm /\ r \in FrameRec /\ ~Waiting(r) /\ Noted(r)
  BY MyFrame DEF Dispatch, At, Calm, Waiting, SyncTo, Noted
<1>2. Named(r) /\ (r.bid \in Held => Safe(f, r))
  BY MyFrame
<1>3. CASE x = None \/ (x.dst # None /\ HasEndpoint(x.dst))
  <2>1. q = [r EXCEPT !.pc = "load"] /\ Others(f)
    BY <1>3, GotoFields DEF Dispatch, CInv, IInv
  <2>2. /\ q.pc = "load" /\ q.recv = r.recv /\ q.bid = r.bid /\ q.id = r.id
        /\ q.cons = r.cons /\ q.bi = r.bi /\ q.rbi = r.rbi
    BY <1>1, <2>1 DEF FrameRec
  <2>3. Named(q)
    BY <1>1, <1>2, <2>2 DEF Named
  <2>4. q.bid \in Held => Safe(f, q)
    BY <1>1, <1>2, <2>2
       DEF Safe, LocalFrame, TransitFrame, LocalReturns, LocalLabels, SyncTo
  <2> QED
    BY <1>1, <2>1, <2>2, <2>3, <2>4, ShiftMove
<1>4. CASE ~(x = None \/ (x.dst # None /\ HasEndpoint(x.dst)))
  <2>1. q = [r EXCEPT !.pc = "senders", !.bi = x] /\ Others(f)
    BY <1>4, GotoFields DEF Dispatch, CInv, IInv
  <2>2. /\ q.pc = "senders" /\ q.recv = r.recv /\ q.bid = r.bid /\ q.id = r.id
        /\ q.cons = r.cons /\ q.bi = x /\ q.rbi = r.rbi
    BY <1>1, <2>1 DEF FrameRec
  <2>3. FitsItem(r.id, x)
    BY <1>1, <1>4, ItemFits
  <2>4. Named(q)
    BY <1>1, <1>2, <2>2, <2>3 DEF Named
  <2>5. r.bid \in Held => Attr[r.bid].dst # Self
    <3>1. r.bid \in Held /\ Attr[r.bid].dst = Self => x.dst = Self
      BY <1>1, <1>4, HeldFacts
    <3>2. Self # None
      BY DescriptorAssumption DEF Endpoints
    <3> QED
      BY <1>4, <3>1, <3>2 DEF HasEndpoint
  <2>6. q.bid \in Held => Safe(f, q)
    BY <1>1, <1>2, <2>2, <2>5 DEF Safe, TransitFrame, SyncTo
  <2> QED
    BY <1>1, <2>1, <2>2, <2>4, <2>6, ShiftMove
<1> QED
  BY <1>3, <1>4

LEMMA AllowedSendersMove ==
    ASSUME Steady, CInv, NEW f \in Frames, AllowedSenders(f) PROVE CalmMove(f)
<1> DEFINE r == fr[f]
           q == fr'[f]
<1>1. r.pc = "senders" /\ Calm /\ r \in FrameRec /\ ~Waiting(r)
  BY MyFrame DEF AllowedSenders, At, Calm, Waiting, SyncTo
<1>2. Named(r) /\ (r.bid \in Held => Safe(f, r) /\ Attr[r.bid].dst # Self)
  BY <1>1, MyFrame DEF Safe, LocalFrame, LocalLabels
<1>3. CASE Jump(f, "markPending")
  <2>1. Jumped(f, "markPending")
    BY <1>3, JumpIsJumped DEF CInv, IInv
  <2>2. r.bid \in Held => Safe(f, q)
    BY <1>1, <1>2, <2>1 DEF Jumped, Safe, TransitFrame, SyncTo
  <2> QED
    BY <1>1, <2>1, <2>2, JumpMove, NoneFailed
<1>4. CASE Goto(f, [r EXCEPT !.pc = "load", !.bi = None])
  <2>1. q = [r EXCEPT !.pc = "load", !.bi = None] /\ Others(f)
    BY <1>4, GotoFields DEF CInv, IInv
  <2>2. /\ q.pc = "load" /\ q.recv = r.recv /\ q.bid = r.bid /\ q.id = r.id
        /\ q.cons = r.cons /\ q.bi = None /\ q.rbi = r.rbi
    BY <1>1, <2>1 DEF FrameRec
  <2>3. Named(q)
    BY <1>1, <1>2, <2>2 DEF Named
  <2>4. q.bid \in Held => Safe(f, q)
    BY <1>1, <1>2, <2>2 DEF Safe, TransitFrame, SyncTo
  <2> QED
    BY <1>1, <2>1, <2>2, <2>3, <2>4, ShiftMove
<1> QED
  BY <1>3, <1>4 DEF AllowedSenders

LEMMA LoadMove ==
    ASSUME Steady, CInv, NEW f \in Frames, Load(f) PROVE CalmMove(f)
<1> DEFINE r == fr[f]
           q == fr'[f]
           b == IF r.bid # None THEN r.bid
                ELSE IF store[r.id] = None THEN None ELSE store[r.id].bndl
           l == IF HasEndpoint(Attr[b].dst) THEN "local" ELSE "forward"
<1>1. r.pc = "load" /\ Calm /\ r \in FrameRec /\ ~Waiting(r) /\ r.id \in Ids
  BY MyFrame DEF Load, At, Calm, Waiting, SyncTo, GoodFrame
<1>2. Named(r) /\ Origin(f, r) /\ (r.bid \in Held => Safe(f, r))
  BY MyFrame
<1>3. CASE b = None
  BY <1>1, <1>3, ReturnMove DEF Load
<1>4. CASE b # None
  <2>1. q = [r EXCEPT !.bid = b, !.pc = l] /\ Others(f)
    BY <1>4, GotoFields DEF Load, CInv, IInv
  <2>2. /\ q.pc = l /\ q.recv = r.recv /\ q.bid = b /\ q.id = r.id
        /\ q.cons = r.cons /\ q.bi = r.bi /\ q.rbi = r.rbi
    BY <1>1, <2>1 DEF FrameRec
  <2>3. Fits(r.id, b)
    <3>1. CASE r.bid # None
      BY <1>2, <3>1 DEF Named
    <3>2. CASE r.bid = None
      BY <1>1, <1>4, <3>2, ItemFits DEF FitsItem
    <3> QED
      BY <3>1, <3>2
  <2>4. r.bid # None => r.bid = b
    OBVIOUS
  <2>5. ASSUME b \in Held
        PROVE  /\ l = (IF Attr[b].dst = Self THEN "local" ELSE "forward")
               /\ Attr[b].dst = Self => r.bid = b
    <3>1. b \in Own /\ agents \subseteq AgentEids /\ r.id = InitialId(b)
      BY <2>3, <2>5, OwnFits DEF Held, CInv, IInv, Rest
    <3>2. HasEndpoint(Attr[b].dst) <=> Attr[b].dst = Self
      BY <3>1, SelfIsLocal
    <3>3. Attr[b].dst = Self => r.bid = b
      BY <2>5, <3>1 DEF CInv, LocalInv
    <3> QED
      BY <3>2, <3>3
  <2>6. l \in {"local", "forward"}
    OBVIOUS
  <2> HIDE DEF b, l, q, r
  <2>7. Named(q)
    BY <1>1, <1>2, <2>2, <2>3, <2>6 DEF Named
  <2>8. Origin(f, q)
    BY <1>1, <1>2, <1>4, <2>2, <2>4, <2>6, OwnTypes, DescriptorAssumption
       DEF Origin, Receiving, Late, Early, SyncTo, Own
  <2>9. q.bid \in Held => Safe(f, q)
    BY <1>1, <1>2, <2>2, <2>5, <2>6
       DEF Safe, LocalFrame, TransitFrame, LocalReturns, LocalLabels, SyncTo
  <2>10. ~Early(q) /\ ~Bearing(q) /\ ~Noted(q)
    BY <2>2, <2>6 DEF Early, Bearing, Noted, SyncTo
  <2> QED
    BY <1>1, <2>1, <2>2, <2>4, <2>7, <2>8, <2>9, <2>10 DEF CalmMove, FrameOK, q, r
<1> QED
  BY <1>3, <1>4

LEMMA ForwardMove ==
    ASSUME Steady, CInv, NEW f \in Frames, Forward(f) PROVE CalmMove(f)
<1> DEFINE c == (fr[f].cons \cup {FP}) \ {DP}
<1>1. fr[f].pc = "forward" /\ Sync(f, c, "check") /\ Calm
  BY DEF Forward, At, Calm
<1>2. fr'[f].pc = "sync" /\ fr'[f].after = "check" /\ fr'[f].bid = fr[f].bid /\ fr'[f].cons = c
  BY <1>1, SyncFields DEF CInv, IInv
<1>3. ~Waiting(fr[f])
  BY <1>1 DEF Waiting, SyncTo
<1>4. c # {}
  BY DEF FP, DP
<1> HIDE DEF c
<1>5. ASSUME fr[f].bid \in Held PROVE Safe(f, fr'[f])
  BY <1>1, <1>2, <1>4, <1>5, MyFrame DEF Safe, LocalFrame, TransitFrame, LocalLabels, SyncTo
<1> QED
  BY <1>1, <1>3, <1>5, SyncMove, NoneFailed

\* Frame r starts to send to the nodes or is about to.
Starting(r, q, nodes, del) ==
    /\ q.recv = r.recv /\ q.bid = r.bid /\ q.id = r.id /\ q.rbi = r.rbi /\ q.del = del
    /\ \A p \in Peers : q.snd[p] = "none" \/ (q.snd[p] = "send" /\ p \in nodes)

LEMMA StartSendingFields ==
    ASSUME NEW r \in FrameRec, NEW nodes, NEW del
    PROVE  LET q == StartSending(r, nodes, del) IN
           q.pc = "sending" /\ q.bi = None /\ Starting(r, q, nodes, del)
BY DEF StartSending, FrameRec, Starting

LEMMA StartingMove ==
    ASSUME Steady, CInv, NEW f \in Frames, Calm, Others(f), fr[f].pc \in {"check", "route"},
           NEW nodes, NEW del, Starting(fr[f], fr'[f], nodes, del),
           fr'[f].pc \in {"routed", "sending"},
           fr'[f].bi # None => FitsItem(fr[f].id, fr'[f].bi),
           del => nodes \subseteq {Attr[fr[f].bid].dst}
    PROVE  CalmMove(f)
<1> DEFINE r == fr[f]
           q == fr'[f]
<1> USE DEF Starting
<1>1. Named(r) /\ (r.bid \in Held => Safe(f, r)) /\ \A p \in Peers : r.rbi[p] = None
  BY MyFrame, NoneFailed
<1>2. Named(q)
  BY <1>1 DEF Named
<1>3. r.bid \in Held => Safe(f, q)
  BY <1>1 DEF Safe, LocalFrame, TransitFrame, LocalLabels, SyncTo
<1>4. ~Waiting(r)
  BY DEF Waiting, SyncTo
<1> QED
  BY <1>2, <1>3, <1>4, ShiftMove

LEMMA CheckBundleMove ==
    ASSUME Steady, CInv, NEW f \in Frames, CheckBundle(f) PROVE CalmMove(f)
<1> DEFINE r == fr[f]
           q == fr'[f]
           direct == peers \cap {Attr[r.bid].dst}
<1>1. r.pc = "check" /\ Calm /\ r \in FrameRec /\ ~Waiting(r)
  BY MyFrame DEF CheckBundle, At, Calm, Waiting, SyncTo
<1>2. (r.bid \in Held => Safe(f, r)) /\ \A p \in Peers : r.rbi[p] = None
  BY <1>1, MyFrame, NoneFailed
<1>3. ASSUME NEW l \in {"delete", "route"}, Jump(f, l), r.bid \in Held => l = "route"
      PROVE  CalmMove(f)
  <2>1. Jumped(f, l)
    BY <1>3, JumpIsJumped DEF CInv, IInv
  <2>2. r.bid \in Held => Safe(f, q)
    BY <1>1, <1>2, <1>3, <2>1 DEF Jumped, Safe, LocalFrame, LocalLabels, TransitFrame, SyncTo
  <2> QED
    BY <1>1, <1>2, <2>1, <2>2, JumpMove
<1>4. CASE Attr[r.bid].hopExceeded \/ r.bid \in expired
  <2>1. Jump(f, "delete") /\ r.bid \notin Held
    BY <1>4 DEF CheckBundle, Jump, Held, Hopeless
  <2> QED
    BY <1>3, <2>1
<1>5. CASE ~(Attr[r.bid].hopExceeded \/ r.bid \in expired) /\ direct = {}
  <2>1. Jump(f, "route")
    BY <1>5 DEF CheckBundle, Jump
  <2> QED
    BY <1>3, <2>1
<1>6. CASE ~(Attr[r.bid].hopExceeded \/ r.bid \in expired) /\ direct # {}
  <2>1. q = StartSending(r, direct, TRUE) /\ Others(f)
    BY <1>6, GotoFields DEF CheckBundle, CInv, IInv
  <2>2. q.pc = "sending" /\ q.bi = None /\ Starting(r, q, direct, TRUE)
    BY <1>1, <2>1, StartSendingFields
  <2>3. direct \subseteq {Attr[r.bid].dst}
    OBVIOUS
  <2> QED
    BY <1>1, <2>1, <2>2, <2>3, StartingMove
<1> QED
  BY <1>4, <1>5, <1>6

LEMMA ClasForBundleMove ==
    ASSUME Steady, CInv, NEW f \in Frames, ClasForBundle(f) PROVE CalmMove(f)
<1> DEFINE r == fr[f]
           q == fr'[f]
           x == store[r.id]
           s == StartSending(r, FilterCLAs(x, peers), FALSE)
           y == [x EXCEPT !.sent = @ \cup peers]
<1>1. r.pc = "route" /\ Calm /\ r \in FrameRec /\ r.id \in Ids
  BY MyFrame DEF ClasForBundle, At, Calm, GoodFrame
<1>2. CASE x = None
  <2>1. q = StartSending(r, {}, FALSE) /\ Others(f)
    BY <1>2, GotoFields DEF ClasForBundle, CInv, IInv
  <2>2. q.pc = "sending" /\ q.bi = None /\ Starting(r, q, {}, FALSE)
    BY <1>1, <2>1, StartSendingFields
  <2> QED
    BY <1>1, <2>1, <2>2, StartingMove
<1>3. CASE x # None
  <2>1. q = [s EXCEPT !.pc = "routed", !.bi = y] /\ Others(f)
    BY <1>3, GotoFields DEF ClasForBundle, CInv, IInv
  <2>4. x \in Items /\ FitsItem(r.id, x)
    BY <1>1, <1>3, ItemFits, ItemType DEF CInv, IInv, StoreInv
  <2>5. FitsItem(r.id, y)
    BY <2>4 DEF FitsItem, Items
  <2>6. r \in FrameRec
    BY <1>1
  <2> DEFINE N == FilterCLAs(x, peers)
  <2> HIDE DEF y, N
  <2>3. q.pc = "routed" /\ q.bi = y /\ Starting(r, q, N, FALSE)
    <3>1. q = [StartSending(r, N, FALSE) EXCEPT !.pc = "routed", !.bi = y]
      BY <2>1 DEF N
    <3> HIDE DEF q, r
    <3> QED
      BY <2>6, <3>1 DEF StartSending, FrameRec, Starting
  <2> QED
    BY <1>1, <2>1, <2>3, <2>5, StartingMove
<1> QED
  BY <1>2, <1>3

LEMMA SendFailsMove ==
    ASSUME Steady, CInv, NEW f \in Frames, NEW p \in Peers, SendFails(f, p) PROVE CalmMove(f)
<1> DEFINE r == fr[f]
           q == fr'[f]
           x == store[r.id]
           v == IF x = None THEN "done" ELSE "failed"
<1>1. r.pc = "sending" /\ r.snd[p] = "send" /\ Calm /\ r \in FrameRec /\ r.id \in Ids
  BY MyFrame DEF SendFails, At, Calm, GoodFrame
<1>2. q = [r EXCEPT !.snd[p] = v, !.rbi[p] = x] /\ Others(f)
  BY GotoFields DEF SendFails, CInv, IInv
<1>3. /\ q.pc = "sending" /\ q.recv = r.recv /\ q.bid = r.bid /\ q.id = r.id
      /\ q.bi = r.bi /\ q.del = r.del /\ q.cons = r.cons
      /\ q.snd = [r.snd EXCEPT ![p] = v] /\ q.rbi = [r.rbi EXCEPT ![p] = x]
  BY <1>1, <1>2 DEF FrameRec
<1>4. q.snd[p] = v /\ q.rbi[p] = x /\ \A n \in Peers \ {p} : q.snd[n] = r.snd[n] /\ q.rbi[n] = r.rbi[n]
  BY <1>1, <1>3 DEF FrameRec
<1>5. Named(r) /\ (r.bid \in Held => Safe(f, r)) /\ ~Waiting(r)
  BY <1>1, MyFrame DEF Waiting, SyncTo
<1>6. x # None => FitsItem(r.id, x) /\ v = "failed"
  BY <1>1, ItemFits
<1>7. v \in {"done", "failed"}
  OBVIOUS
<1> HIDE DEF x, v
<1>8. Named(q)
  BY <1>1, <1>3, <1>4, <1>5, <1>6 DEF Named
<1>9. r.bid \in Held => Safe(f, q)
  <2>1. \A n \in Peers : (q.snd[n] # "none" => r.snd[n] # "none") /\ (q.snd[n] = "sent" => r.snd[n] = "sent")
    BY <1>1, <1>4, <1>7
  <2> QED
    BY <1>1, <1>3, <1>5, <2>1 DEF Safe, LocalFrame, TransitFrame, LocalLabels, SyncTo
<1> QED
  BY <1>1, <1>2, <1>3, <1>5, <1>8, <1>9, ShiftMove

LEMMA SendingDoneMove ==
    ASSUME Steady, CInv, NEW f \in Frames, SendingDone(f) PROVE CalmMove(f)
<1> DEFINE r == fr[f]
           q == fr'[f]
<1>1. r.pc = "sending" /\ Calm /\ r \in FrameRec /\ ~Waiting(r) /\ r.bid \in Bundles
  BY MyFrame DEF SendingDone, At, Calm, Waiting, SyncTo, GoodFrame, Unloaded
<1>2. r.bid \in Held => Safe(f, r) /\ Attr[r.bid].dst # Self
  BY <1>1, MyFrame DEF Safe, LocalFrame, LocalLabels
<1>3. \A p \in Peers : r.rbi[p] = None
  BY MyFrame DEF SendingDone, Named
<1>4. CASE BundleSent(r)
  <2>1. Jumped(f, "forwarded")
    BY <1>1, <1>4, ReportJumps DEF SendingDone
  <2>2. r.bid \in Held => ~r.del
    BY <1>1, <1>2, <1>4 DEF Safe, BundleSent
  <2>3. r.bid \in Held => Safe(f, q)
    BY <1>1, <1>2, <2>1, <2>2 DEF Jumped, Safe, TransitFrame, SyncTo
  <2> QED
    BY <1>1, <1>3, <2>1, <2>3, JumpMove
<1>5. CASE ~BundleSent(r)
  <2>1. Sync(f, r.cons \cup {CI}, "idle")
    BY <1>5 DEF SendingDone
  <2>2. q.pc = "sync" /\ q.after = "idle" /\ q.bid = r.bid /\ q.cons = r.cons \cup {CI}
    BY <2>1, SyncFields DEF CInv, IInv
  <2>3. r.bid \in Held => Safe(f, q)
    BY <1>1, <1>2, <2>2 DEF Safe, TransitFrame, SyncTo
  <2> QED
    BY <1>1, <1>3, <2>1, <2>3, SyncMove
<1> QED
  BY <1>4, <1>5

LEMMA ForwardedMove ==
    ASSUME Steady, CInv, NEW f \in Frames, Forwarded(f) PROVE CalmMove(f)
<1> DEFINE r == fr[f]
           q == fr'[f]
<1>1. r.pc = "forwarded" /\ Calm /\ ~Waiting(r)
  BY DEF Forwarded, At, Calm, Waiting, SyncTo
<1>2. r.bid \in Held => Safe(f, r) /\ Attr[r.bid].dst # Self /\ ~r.del
  BY <1>1, MyFrame DEF Safe, LocalFrame, LocalLabels
<1>3. ASSUME NEW c, NEW a \in {"idle", "inspect"}, Sync(f, c, a), r.bid \in Held => c # {}
      PROVE  CalmMove(f)
  <2>1. q.pc = "sync" /\ q.after = a /\ q.bid = r.bid /\ q.cons = c
    BY <1>3, SyncFields DEF CInv, IInv
  <2>2. r.bid \in Held => Safe(f, q)
    BY <1>1, <1>2, <1>3, <2>1 DEF Safe, TransitFrame, SyncTo
  <2> QED
    BY <1>1, <1>3, <2>2, SyncMove, NoneFailed
<1>4. CASE r.del
  BY <1>2, <1>3, <1>4 DEF Forwarded
<1>5. CASE ~r.del
  BY <1>3, <1>5 DEF Forwarded
<1> QED
  BY <1>4, <1>5

LEMMA LocalSyncMove ==
    ASSUME Steady, CInv, NEW f \in Frames, LocalSync(f) PROVE CalmMove(f)
<1>1. fr[f].pc = "localSync" /\ Sync(f, fr[f].cons \cup {LE}, "deliver") /\ Calm
  BY DEF LocalSync, At, Calm
<1>2. /\ fr'[f].pc = "sync" /\ fr'[f].after = "deliver" /\ fr'[f].bid = fr[f].bid
      /\ fr'[f].cons = fr[f].cons \cup {LE} /\ fr'[f].bi = store[fr[f].id]
  BY <1>1, SyncFields DEF CInv, IInv
<1>3. ~Waiting(fr[f])
  BY <1>1 DEF Waiting, SyncTo
<1>4. ASSUME fr[f].bid \in Held PROVE Safe(f, fr'[f])
  BY <1>1, <1>2, <1>4, MyFrame, HeldFacts
     DEF Safe, LocalFrame, TransitFrame, LocalReturns, LocalLabels, SyncTo, LE, FP, CI
<1> QED
  BY <1>1, <1>3, <1>4, SyncMove, NoneFailed

LEMMA DeliverMove ==
    ASSUME Steady, CInv, NEW f \in Frames, Deliver(f) PROVE CalmMove(f)
<1> DEFINE r == fr[f]
           q == fr'[f]
<1>1. r.pc = "deliver" /\ Calm /\ ~Waiting(r)
  BY DEF Deliver, At, Calm, Waiting, SyncTo
<1>2. r.bid \in Held => Safe(f, r) /\ Attr[r.bid].dst = Self
  BY <1>1, MyFrame DEF Safe, TransitFrame
<1>3. CASE Sync(f, r.cons \ {LE}, "handover")
  <2>1. /\ q.pc = "sync" /\ q.after = "handover" /\ q.bid = r.bid
        /\ q.cons = r.cons \ {LE} /\ q.bi = store[r.id]
    BY <1>3, SyncFields DEF CInv, IInv
  <2>2. ASSUME r.bid \in Held PROVE Safe(f, q)
    <3>1. store[r.id] # None /\ ~store[r.id].pending
      BY <1>1, <1>2, <2>2, HeldFacts
    <3> QED
      BY <1>1, <1>2, <2>1, <2>2, <3>1 DEF Safe, LocalFrame, LocalReturns, LocalLabels, SyncTo
  <2> QED
    BY <1>1, <1>3, <2>2, SyncMove, NoneFailed
<1>4. CASE Jump(f, "delivered")
  <2>1. Jumped(f, "delivered")
    BY <1>4, JumpIsJumped DEF CInv, IInv
  <2>2. r.bid \in Held => Safe(f, q)
    BY <1>1, <1>2, <2>1 DEF Jumped, Safe, LocalFrame, LocalReturns, LocalLabels, SyncTo
  <2> QED
    BY <1>1, <2>1, <2>2, JumpMove, NoneFailed
<1> QED
  BY <1>3, <1>4 DEF Deliver

LEMMA DeliveredMove ==
    ASSUME Steady, CInv, NEW f \in Frames, Delivered(f) \/ BundleDeletion(f) PROVE CalmMove(f)
<1> DEFINE r == fr[f]
           q == fr'[f]
<1>1. r.pc \in {"delivered", "delete"} /\ Calm /\ ~Waiting(r) /\ r.bid \in Bundles
  BY MyFrame DEF Delivered, BundleDeletion, At, Calm, Waiting, SyncTo, GoodFrame, Unloaded
<1>2. Jumped(f, "purge")
  BY <1>1, ReportJumps DEF Delivered, BundleDeletion
<1>3. r.bid \in Held => Safe(f, q)
  BY <1>1, <1>2, MyFrame
     DEF Jumped, Safe, LocalFrame, TransitFrame, LocalReturns, LocalLabels, SyncTo
<1> QED
  BY <1>1, <1>2, <1>3, JumpMove, NoneFailed

LEMMA PurgeMove ==
    ASSUME Steady, CInv, NEW f \in Frames, Purge(f) PROVE CalmMove(f)
<1>1. fr[f].pc = "purge" /\ Sync(f, Purged(fr[f].cons), "idle") /\ Calm /\ ~Waiting(fr[f])
  BY DEF Purge, At, Calm, Waiting, SyncTo
<1>2. /\ fr'[f].pc = "sync" /\ fr'[f].after = "idle" /\ fr'[f].bid = fr[f].bid
      /\ fr'[f].cons = Purged(fr[f].cons) /\ fr'[f].bi = store[fr[f].id]
  BY <1>1, SyncFields DEF CInv, IInv
<1>3. ASSUME fr[f].bid \in Held PROVE Safe(f, fr'[f])
  <2>1. Safe(f, fr[f]) /\ Attr[fr[f].bid].dst = Self /\ LE \in fr[f].cons
    BY <1>1, <1>3, MyFrame DEF Safe, TransitFrame
  <2>2. fr'[f].cons = {LE} /\ {LE} \cap {FP, CI} = {}
    BY <1>2, <2>1 DEF Purged, LE, FP, CI
  <2> QED
    BY <1>1, <1>2, <1>3, <2>1, <2>2, HeldFacts
       DEF Safe, LocalFrame, LocalReturns, LocalLabels, SyncTo
<1> QED
  BY <1>1, <1>3, SyncMove, NoneFailed

-----------------------------------------------------------------------------
\* The steps that write the item of the frame's key.

LEMMA LocalIsOwn ==
    ASSUME Steady, CInv, NEW f \in Frames, NEW b \in Held, Attr[b].dst = Self,
           fr[f].id = InitialId(b)
    PROVE  f = Owner(b) /\ fr[f].bid = b
BY DEF CInv, LocalInv

\* An update of an item.
LEMMA UpdateMove ==
    ASSUME Steady, CInv, NEW f \in Frames, NEW y, y # None, fr[f].pc # "idle",
           FitsItem(fr[f].id, y), store' = [store EXCEPT ![fr[f].id] = Updated(@, y)],
           UNCHANGED <<todo, idk, world, reached>>, Others(f), FrameOK(Held, f, fr'[f]),
           (fr'[f].id = fr[f].id /\ fr'[f].bid = fr[f].bid) \/ fr'[f] = IdleFrame,
           ~Waiting(fr[f]), ~Bearing(fr'[f]), Early(fr'[f]) => Early(fr[f]),
           fr[f].bid \in Held /\ Attr[fr[f].bid].dst = Self =>
               ~y.pending /\ (Noted(fr'[f]) => y.dst = Self)
    PROVE  WriteMove(f)
<1> DEFINE r == fr[f]
           q == fr'[f]
<1>1. Held' = Held
  BY DEF world, Held
<1>2. r.id \in Ids /\ store \in [Ids -> Found]
  BY MyFrame DEF GoodFrame, CInv, IInv, StoreInv
<1>3. /\ \A j \in Ids : j # r.id => store'[j] = store[j]
      /\ store'[r.id] = IF store[r.id] = None THEN None ELSE y
  BY <1>2 DEF Updated
<1>4. IdleFrame.id = None /\ IdleFrame.bid = None /\ None \notin Outbound
  BY IdleFields, OwnTypes, DescriptorAssumption DEF Own
<1>5. KeepsLocal(f)
  <2> SUFFICES ASSUME NEW b \in Held, Attr[b].dst = Self, r.id = InitialId(b)
               PROVE  /\ q.id = InitialId(b) => q.bid = b
                      /\ store'[r.id] # None =>
                            ~store'[r.id].pending /\ (q.bid = b /\ Noted(q) => store'[r.id].dst = Self)
    BY <1>1 DEF KeepsLocal
  <2>1. r.bid = b /\ InitialId(b) # None
    BY <1>2, LocalIsOwn, DescriptorAssumption
  <2> QED
    BY <1>3, <1>4, <2>1
<1>6. KeepsHeld(f)
  BY <1>1, <1>3 DEF KeepsHeld
<1> QED
  BY <1>3, <1>4, <1>5, <1>6 DEF WriteMove

LEMMA NotifyDestinationMove ==
    ASSUME Steady, CInv, NEW f \in Frames, NotifyDestination(f) PROVE WriteMove(f)
<1> DEFINE r == fr[f]
           q == fr'[f]
           y == [r.bi EXCEPT !.dst = Attr[r.bid].dst]
<1>1. /\ r.pc = "notifyDst" /\ r \in FrameRec /\ r.bi \in Items /\ r.bi # None /\ r.id \in Ids
      /\ r.bid \in Bundles
  BY MyFrame, DescriptorAssumption
     DEF NotifyDestination, At, GoodFrame, Holding, GoodItems, Unloaded
<1>2. /\ q = [r EXCEPT !.bi = y, !.pc = "notifySent"] /\ Others(f)
      /\ store' = [store EXCEPT ![r.id] = Updated(@, y)]
      /\ UNCHANGED <<todo, idk, world, reached>>
  BY <1>1, GotoFields DEF NotifyDestination, Put, CInv, IInv, StoreInv
<1>3. /\ y.bndl = r.bi.bndl /\ y.pending = r.bi.pending /\ y.dst = Attr[r.bid].dst /\ y \in Items
      /\ y # None
  BY <1>1, AttrType, DescriptorAssumption DEF Items
<1>4. /\ q.pc = "notifySent" /\ q.after = r.after /\ q.recv = r.recv /\ q.bid = r.bid
      /\ q.id = r.id /\ q.cons = r.cons /\ q.bi = y /\ q.del = r.del /\ q.snd = r.snd
      /\ q.rbi = r.rbi
  BY <1>1, <1>2 DEF FrameRec
<1>5. Named(r) /\ Origin(f, r) /\ (r.bid \in Held => Safe(f, r))
  BY MyFrame
<1>6. FitsItem(r.id, y)
  <2>1. Fits(r.id, r.bid) /\ Fits(r.id, r.bi.bndl)
    BY <1>1, <1>5, DescriptorAssumption DEF Named, FitsItem
  <2>2. y.bndl \in Own => y.bndl = r.bid
    BY <1>3, <2>1, OwnFits, FitsOwn
  <2> QED
    BY <1>3, <2>1, <2>2 DEF FitsItem
<1> HIDE DEF y, q, r
<1>7. Named(q)
  BY <1>1, <1>4, <1>5, <1>6 DEF Named
<1>8. Origin(f, q)
  BY <1>1, <1>4, <1>5 DEF Origin, Receiving, Late, Early, SyncTo
<1>9. q.bid \in Held => Safe(f, q)
  BY <1>1, <1>3, <1>4, <1>5 DEF Safe, LocalFrame, TransitFrame, LocalReturns, LocalLabels, SyncTo
<1>10. r.bid \in Held /\ Attr[r.bid].dst = Self => ~y.pending /\ y.dst = Self
  BY <1>1, <1>3, <1>5 DEF Safe, LocalFrame
<1>11. ~Waiting(r) /\ ~Bearing(q) /\ (Early(q) => Early(r))
  BY <1>1, <1>4 DEF Waiting, Bearing, Early, SyncTo
<1>12. FrameOK(Held, f, q)
  BY <1>7, <1>8, <1>9 DEF FrameOK
<1> QED
  BY <1>1, <1>2, <1>3, <1>4, <1>6, <1>10, <1>11, <1>12, UpdateMove DEF q, r

LEMMA NotifySentMove ==
    ASSUME Steady, CInv, IInv', NEW f \in Frames, NotifySent(f) PROVE WriteMove(f)
<1> DEFINE r == fr[f]
           q == fr'[f]
           y == [r.bi EXCEPT !.sent = @ \cup {r.prev}]
<1>1. /\ r.pc = "notifySent" /\ r \in FrameRec /\ r.bi \in Items /\ r.bi # None /\ r.id \in Ids
  BY MyFrame, DescriptorAssumption DEF NotifySent, At, GoodFrame, Holding, GoodItems
<1>2. q = AfterNotify(r) /\ Others(f) /\ UNCHANGED <<todo, idk, world, reached>>
  BY GotoFields DEF NotifySent, CInv, IInv
<1>3. /\ q.pc = (IF r.recv THEN "dispatch" ELSE "transmit") /\ q.recv = r.recv
      /\ q.bid = r.bid /\ q.id = r.id
  BY <1>1, <1>2, AfterNotifyFields
<1>4. FrameOK(Held, f, q)
  BY <1>1, <1>2, AfterNotifyOK
<1>5. ~Waiting(r) /\ ~Bearing(q) /\ (Early(q) => Early(r))
  BY <1>1, <1>3 DEF Waiting, Bearing, Early, SyncTo
<1>6. r.bid \in Held /\ Attr[r.bid].dst = Self => ~r.bi.pending /\ r.bi.dst = Self
  BY <1>1, MyFrame DEF Safe, LocalFrame
<1>7. FitsItem(r.id, r.bi)
  BY <1>1, MyFrame DEF Named
<1>8. CASE store' = [store EXCEPT ![r.id] = Updated(@, y)] /\ r.prev \in Peers
  <2>1. y \in Items
    BY <1>1, <1>8 DEF Items
  <2>2. y.bndl = r.bi.bndl /\ y.pending = r.bi.pending /\ y.dst = r.bi.dst /\ y # None
    BY <1>1, <2>1, DescriptorAssumption DEF Items
  <2>3. FitsItem(r.id, y)
    BY <1>7, <2>2 DEF FitsItem
  <2> HIDE DEF y
  <2> QED
    BY <1>1, <1>2, <1>3, <1>4, <1>5, <1>6, <1>8, <2>2, <2>3, UpdateMove
<1>9. CASE store' = store
  <2>1. Held' = Held
    BY <1>2 DEF world, Held
  <2>2. KeepsHeld(f)
    BY <1>5, <1>9, <2>1 DEF KeepsHeld
  <2>3. KeepsLocal(f)
    <3>1. ASSUME NEW b \in Held, Attr[b].dst = Self, r.id = InitialId(b)
          PROVE  /\ r.bid = b
                 /\ store[r.id] # None => ~store[r.id].pending /\ store[r.id].dst = Self
      <4>1. Noted(r) /\ r.bid = b
        BY <1>1, <3>1, LocalIsOwn DEF Noted
      <4> QED
        BY <3>1, <4>1, HeldFacts
    <3> QED
      BY <1>3, <1>9, <2>1, <3>1 DEF KeepsLocal
  <2>4. store[r.id] # None => FitsItem(r.id, store[r.id])
    BY <1>1, ItemFits
  <2> QED
    BY <1>2, <1>3, <1>4, <1>5, <1>9, <2>2, <2>3, <2>4 DEF WriteMove
<1> QED
  BY <1>1, <1>8, <1>9 DEF NotifySent, Put, shared, FrameRec

LEMMA MarkPendingMove ==
    ASSUME Steady, CInv, NEW f \in Frames, MarkPending(f) PROVE WriteMove(f)
<1> DEFINE r == fr[f]
           q == fr'[f]
           y == [r.bi EXCEPT !.pending = TRUE]
<1>1. /\ r.pc = "markPending" /\ r.bi \in Items /\ r.bi # None /\ r.id \in Ids
  BY MyFrame, DescriptorAssumption DEF MarkPending, At, GoodFrame, Holding, GoodItems
<1>2. /\ q = IdleFrame /\ Others(f) /\ UNCHANGED <<todo, idk, world, reached>>
      /\ store' = [store EXCEPT ![r.id] = Updated(@, y)]
  BY <1>1, GotoFields DEF MarkPending, Put, CInv, IInv, StoreInv
<1>3. y \in Items /\ y.bndl = r.bi.bndl /\ y.dst = r.bi.dst
  BY <1>1 DEF Items
<1>4. FitsItem(r.id, r.bi) /\ y # None
  BY <1>1, <1>3, MyFrame, DescriptorAssumption DEF Named
<1>5. FitsItem(r.id, y)
  BY <1>3, <1>4 DEF FitsItem
<1>6. ~(r.bid \in Held /\ Attr[r.bid].dst = Self)
  BY <1>1, MyFrame DEF Safe, LocalFrame, LocalLabels
<1>7. ~Waiting(r) /\ ~Bearing(q) /\ ~Early(q)
  BY <1>1, <1>2, IdleFields DEF Waiting, Bearing, Early, SyncTo
<1>8. FrameOK(Held, f, q)
  BY <1>2, IdleOK DEF Held
<1> HIDE DEF y
<1> QED
  BY <1>1, <1>2, <1>4, <1>5, <1>6, <1>7, <1>8, UpdateMove

LEMMA UpdateSentMove ==
    ASSUME Steady, CInv, NEW f \in Frames, UpdateSent(f) PROVE WriteMove(f)
<1> DEFINE r == fr[f]
           q == fr'[f]
<1>1. /\ r.pc = "routed" /\ r \in FrameRec /\ r.bi \in Items /\ r.bi # None /\ r.id \in Ids
  BY MyFrame, DescriptorAssumption DEF UpdateSent, At, GoodFrame, Holding, GoodItems
<1>2. /\ q = [r EXCEPT !.pc = "sending", !.bi = None] /\ Others(f)
      /\ UNCHANGED <<todo, idk, world, reached>>
      /\ store' = [store EXCEPT ![r.id] = Updated(@, r.bi)]
  BY <1>1, GotoFields DEF UpdateSent, Put, CInv, IInv, StoreInv
<1>3. /\ q.pc = "sending" /\ q.after = r.after /\ q.recv = r.recv /\ q.bid = r.bid
      /\ q.id = r.id /\ q.cons = r.cons /\ q.bi = None /\ q.del = r.del /\ q.snd = r.snd
      /\ q.rbi = r.rbi
  BY <1>1, <1>2 DEF FrameRec
<1>4. Named(r) /\ Origin(f, r) /\ (r.bid \in Held => Safe(f, r) /\ Attr[r.bid].dst # Self)
  BY <1>1, MyFrame DEF Safe, LocalFrame, LocalLabels
<1>5. FitsItem(r.id, r.bi)
  BY <1>1, <1>4 DEF Named
<1> HIDE DEF q, r
<1>6. Named(q)
  BY <1>1, <1>3, <1>4 DEF Named
<1>7. Origin(f, q)
  BY <1>1, <1>3, <1>4 DEF Origin, Receiving, Late, Early, SyncTo
<1>8. q.bid \in Held => Safe(f, q)
  BY <1>1, <1>3, <1>4 DEF Safe, TransitFrame, SyncTo
<1>9. ~Waiting(r) /\ ~Bearing(q) /\ (Early(q) => Early(r)) /\ FrameOK(Held, f, q)
  BY <1>1, <1>3, <1>6, <1>7, <1>8 DEF Waiting, Bearing, Early, SyncTo, FrameOK
<1> QED
  BY <1>1, <1>2, <1>3, <1>4, <1>5, <1>9, UpdateMove DEF q, r

LEMMA ReportFailureMove ==
    ASSUME Steady, CInv, NEW f \in Frames, NEW p \in Peers, ReportFailure(f, p)
    PROVE  WriteMove(f)
<1> DEFINE r == fr[f]
           q == fr'[f]
           y == [r.rbi[p] EXCEPT !.sent = @ \ {p}]
<1>1. /\ r.pc = "sending" /\ r.snd[p] = "failed" /\ r \in FrameRec /\ r.id \in Ids
      /\ r.rbi[p] \in Items /\ r.rbi[p] # None
  BY MyFrame, DescriptorAssumption DEF ReportFailure, At, GoodFrame, GoodItems
<1>2. /\ q = [r EXCEPT !.snd[p] = "done", !.rbi[p] = None] /\ Others(f)
      /\ UNCHANGED <<todo, idk, world, reached>>
      /\ store' = [store EXCEPT ![r.id] = Updated(@, y)]
  BY <1>1, GotoFields DEF ReportFailure, Put, CInv, IInv, StoreInv
<1>3. /\ q.pc = "sending" /\ q.recv = r.recv /\ q.bid = r.bid /\ q.id = r.id
      /\ q.bi = r.bi /\ q.del = r.del /\ q.cons = r.cons
      /\ q.snd = [r.snd EXCEPT ![p] = "done"] /\ q.rbi = [r.rbi EXCEPT ![p] = None]
  BY <1>1, <1>2 DEF FrameRec
<1>4. /\ q.snd[p] = "done" /\ q.rbi[p] = None
      /\ \A n \in Peers \ {p} : q.snd[n] = r.snd[n] /\ q.rbi[n] = r.rbi[n]
  BY <1>1, <1>3 DEF FrameRec
<1>5. Named(r) /\ Origin(f, r) /\ (r.bid \in Held => Safe(f, r) /\ Attr[r.bid].dst # Self)
  BY <1>1, MyFrame DEF Safe, LocalFrame, LocalLabels
<1>6. y \in Items /\ y # None /\ y.bndl = r.rbi[p].bndl /\ y.dst = r.rbi[p].dst
  BY <1>1, DescriptorAssumption DEF Items
<1>7. FitsItem(r.id, y)
  BY <1>1, <1>5, <1>6 DEF Named, FitsItem
<1> HIDE DEF q, r, y
<1>8. Named(q)
  BY <1>1, <1>3, <1>4, <1>5 DEF Named
<1>9. Origin(f, q)
  BY <1>1, <1>3, <1>5 DEF Origin, Receiving, Late, Early, SyncTo
<1>10. q.bid \in Held => Safe(f, q)
  <2>1. \A n \in Peers : (q.snd[n] # "none" => r.snd[n] # "none") /\ (q.snd[n] = "sent" => r.snd[n] = "sent")
    BY <1>1, <1>4
  <2> QED
    BY <1>1, <1>3, <1>5, <2>1 DEF Safe, TransitFrame, SyncTo
<1>11. ~Waiting(r) /\ ~Bearing(q) /\ (Early(q) => Early(r)) /\ FrameOK(Held, f, q)
  BY <1>1, <1>3, <1>8, <1>9, <1>10 DEF Waiting, Bearing, Early, SyncTo, FrameOK
<1> QED
  BY <1>1, <1>2, <1>3, <1>5, <1>6, <1>7, <1>11, UpdateMove DEF q, r

\* What the write of BundleDescriptor.Sync leaves in the store.
LEMMA SyncedFits ==
    ASSUME CInv, NEW f \in Frames, fr[f].pc = "sync"
    PROVE  LET x == Synced(fr[f].bi, store[fr[f].id], fr[f].bid, fr[f].cons) IN
           x # None => FitsItem(fr[f].id, x)
<1> DEFINE r == fr[f]
           old == store[r.id]
           x == Synced(r.bi, old, r.bid, r.cons)
<1>1. r.bi \in Found /\ r.bid \in Bundles /\ Named(r)
  BY MyFrame DEF GoodFrame, Unloaded
<1>2. old # None => FitsItem(r.id, old)
  BY ItemFits
<1>3. FitsItem(r.id, NewItem(r.bid))
  BY <1>1, DescriptorAssumption DEF Named, NewItem, FitsItem
<1>4. ASSUME r.bi # None PROVE FitsItem(r.id, WithConstraints(r.bi, r.cons))
  <2>1. FitsItem(r.id, r.bi) /\ r.bi \in Items
    BY <1>1, <1>4, ItemType DEF Named
  <2> QED
    BY <2>1 DEF FitsItem, WithConstraints, Items
<1> QED
  BY <1>2, <1>3, <1>4 DEF Synced, Pushed, Updated

\* AgentManager.Deliver finds the item of a held bundle.
LEMMA HandoverSucceeds ==
    ASSUME Steady, CInv, NEW f \in Frames, fr[f].bid \in Held, SyncTo(fr[f], {"handover"}),
           NEW err \in SyncErrors(fr[f].bi, store[fr[f].id], fr[f].cons)
    PROVE  ~err /\ f = Owner(fr[f].bid)
<1>1. fr[f].bi # None /\ f = Owner(fr[f].bid)
  BY MyFrame, HeldFacts DEF Safe, LocalFrame, TransitFrame, SyncTo
<1>2. ~Waiting(fr[f])
  BY DEF SyncTo, Waiting
<1>3. store[fr[f].id] # None
  BY <1>1, <1>2, HeldFacts
<1> QED
  BY <1>1, <1>3 DEF SyncErrors

LEMMA SyncWriteMove ==
    ASSUME Steady, CInv, NEW f \in Frames, SyncWrite(f) PROVE WriteMove(f)
<1> DEFINE r == fr[f]
           q == fr'[f]
           old == store[r.id]
           x == Synced(r.bi, old, r.bid, r.cons)
<1>0. PICK err \in SyncErrors(r.bi, old, r.cons) :
         /\ store' = [store EXCEPT ![r.id] = x]
         /\ IF r.after = "idle" THEN Goto(f, IdleFrame)
            ELSE Goto(f, [r EXCEPT !.pc = IF err /\ r.after = "handover" THEN "delivered" ELSE r.after,
                                   !.after = "idle", !.bi = None])
  BY DEF SyncWrite, Put
<1> DEFINE l == IF err /\ r.after = "handover" THEN "delivered" ELSE r.after
<1>1. /\ r.pc = "sync" /\ r \in FrameRec /\ r.id \in Ids /\ r.bi \in Found /\ r.bid \in Bundles
      /\ r.after \in SyncReturns /\ UNCHANGED <<todo, idk, world, reached>>
  BY MyFrame DEF SyncWrite, At, GoodFrame, Unloaded
<1>2. Named(r) /\ Origin(f, r) /\ (r.bid \in Held => Safe(f, r)) /\ \A p \in Peers : r.rbi[p] = None
  BY <1>1, MyFrame, NoneFailed
<1>3. /\ \A j \in Ids : j # r.id => store'[j] = store[j]
      /\ store'[r.id] = x
  BY <1>0, <1>1 DEF CInv, IInv, StoreInv
<1>4. x # None => FitsItem(r.id, x)
  BY <1>1, SyncedFits
<1>5. Held' = Held
  BY <1>1 DEF world, Held
<1>6. Others(f)
  BY <1>0, GotoFields DEF CInv, IInv
<1>7. \/ r.after = "idle" /\ q = IdleFrame
      \/ /\ r.after # "idle" /\ q.pc = l /\ q.recv = r.recv /\ q.bid = r.bid /\ q.id = r.id
         /\ q.cons = r.cons /\ q.bi = None /\ q.rbi = r.rbi
  <2>1. CASE r.after = "idle"
    BY <1>0, <2>1, GotoFields DEF CInv, IInv
  <2>2. CASE r.after # "idle"
    <3>1. q = [r EXCEPT !.pc = l, !.after = "idle", !.bi = None]
      BY <1>0, <2>2, GotoFields DEF CInv, IInv
    <3> HIDE DEF l
    <3> QED
      BY <1>1, <2>2, <3>1 DEF FrameRec
  <2> QED
    BY <2>1, <2>2
<1>8. r.bid \in Held => l = r.after
  BY <1>1, HandoverSucceeds DEF SyncTo
<1>9. l = r.after \/ l = "delivered"
  OBVIOUS
<1>10. ASSUME r.bid \in Held, Attr[r.bid].dst = Self, x # None
       PROVE  ~x.pending /\ (l = "transmitted" => x.dst = Self)
  <2>1. r.cons \cap {FP, CI} = {} /\ (r.bi # None => r.bi \in Items /\ ~r.bi.pending)
    BY <1>1, <1>2, <1>10, ItemType DEF Safe, LocalFrame
  <2>2. old # None => ~old.pending
    BY <1>10, HeldFacts
  <2>3. l = "transmitted" => r.bi # None /\ r.bi.dst = Self
    BY <1>1, <1>2, <1>10 DEF Safe, LocalFrame, SyncTo
  <2>4. CASE r.bi = None
    BY <2>2, <2>3, <2>4 DEF Synced, Pushed, NewItem
  <2>5. CASE r.bi # None
    <3>1. x = WithConstraints(r.bi, r.cons)
      BY <1>10, <2>5 DEF Synced, Updated
    <3>2. WithConstraints(r.bi, r.cons).pending = FALSE /\ WithConstraints(r.bi, r.cons).dst = r.bi.dst
      BY <2>1, <2>5 DEF WithConstraints, Items
    <3> QED
      BY <2>3, <2>5, <3>1, <3>2
  <2> QED
    BY <2>4, <2>5
<1>11. ASSUME r.bid \in Held, x = None
       PROVE  \/ /\ r.cons = {} /\ r.after \in {"resync", "receive", "handover"}
                 /\ f = Owner(r.bid)
              \/ old = None /\ ~Waiting(r)
  <2>1. r.bi # None /\ (r.cons = {} \/ old = None)
    <3>1. NewItem(r.bid) # None
      BY <1>1, NewItemGood, NoneIsNoItem
    <3>2. r.bi # None => WithConstraints(r.bi, r.cons) # None
      BY <1>1, ItemType, WithConstraintsGood, NoneIsNoItem DEF FrameRec
    <3> QED
      BY <1>11, <3>1, <3>2 DEF Synced, Pushed, Updated
  <2>2. CASE r.cons = {}
    <3>1. r.after \in {"resync", "receive", "handover"}
      BY <1>1, <1>2, <1>11, <2>1, <2>2 DEF Safe
    <3>2. r.after \in {"resync", "receive"} => r.recv
      BY <1>1, <1>2 DEF Origin, Receiving, SyncTo
    <3>3. f = Owner(r.bid)
      BY <1>0, <1>1, <1>11, <3>1, <3>2, HeldByOwner, HandoverSucceeds DEF SyncTo
    <3> QED
      BY <2>2, <3>1, <3>3
  <2>3. CASE r.cons # {}
    BY <1>1, <2>1, <2>3 DEF Waiting, SyncTo
  <2> QED
    BY <2>2, <2>3
<1> HIDE DEF x, l, q, r, old
<1>12. FrameOK(Held, f, q)
  <2>1. CASE q = IdleFrame
    BY <2>1, IdleOK DEF Held
  <2>2. CASE r.after # "idle" /\ q # IdleFrame
    <3>1. /\ q.pc = l /\ q.recv = r.recv /\ q.bid = r.bid /\ q.id = r.id
          /\ q.cons = r.cons /\ q.bi = None /\ q.rbi = r.rbi
      BY <1>7, <2>2
    <3>2. Named(q)
      BY <1>1, <1>2, <1>9, <3>1 DEF Named, SyncReturns
    <3>3. Origin(f, q)
      BY <1>1, <1>2, <1>9, <3>1 DEF Origin, Receiving, Late, Early, SyncTo, SyncReturns
    <3>4. q.bid \in Held => Safe(f, q)
      BY <1>1, <1>2, <1>8, <2>2, <3>1
         DEF Safe, LocalFrame, TransitFrame, LocalReturns, LocalLabels, SyncTo, SyncReturns
    <3> QED
      BY <3>2, <3>3, <3>4 DEF FrameOK
  <2> QED
    BY <1>7, <2>1, <2>2
<1>13. KeepsLocal(f)
  <2>1. ASSUME NEW b \in Held, Attr[b].dst = Self, r.id = InitialId(b)
        PROVE  /\ q.id = InitialId(b) => q.bid = b
               /\ x # None => ~x.pending /\ (q.bid = b /\ Noted(q) => x.dst = Self)
    <3>1. r.bid = b /\ b # None /\ InitialId(b) # None
      BY <1>1, <2>1, LocalIsOwn, DescriptorAssumption DEF r
    <3>2. CASE q = IdleFrame
      BY <1>10, <2>1, <3>1, <3>2, IdleFields
    <3>3. CASE r.after # "idle" /\ q # IdleFrame
      <4>1. Noted(q) => l = "transmitted"
        BY <1>1, <1>7, <1>9, <3>3 DEF Noted, SyncTo, SyncReturns
      <4> QED
        BY <1>7, <1>10, <2>1, <3>1, <3>3, <4>1
    <3> QED
      BY <1>7, <3>2, <3>3
  <2> QED
    BY <1>3, <1>5, <2>1 DEF KeepsLocal, q, r
<1>14. KeepsHeld(f)
  <2>1. ASSUME NEW b \in Held, r.id = InitialId(b), x = None
        PROVE  \/ old = None /\ ~Waiting(r)
               \/ f = Owner(b) /\ q.bid = b /\ Waiting(q)
    <3>1. r.bid = b
      <4>1. Fits(r.id, r.bid) /\ b \in Own
        BY <1>1, <1>2, DescriptorAssumption DEF Named, Held
      <4> QED
        BY <2>1, <4>1, FitsOwn
    <3>2. CASE old = None /\ ~Waiting(r)
      BY <3>2
    <3>3. CASE /\ r.cons = {} /\ r.after \in {"resync", "receive", "handover"}
               /\ f = Owner(r.bid)
      <4>1. q.bid = b /\ q.cons = {} /\ q.pc = r.after
        BY <1>7, <1>8, <3>1, <3>3
      <4> QED
        BY <3>1, <3>3, <4>1 DEF Waiting
    <3> QED
      BY <1>11, <2>1, <3>1, <3>2, <3>3
  <2> QED
    BY <1>3, <1>5, <2>1 DEF KeepsHeld, q, r, old
<1>15. /\ q.id = r.id \/ q.id = None
       /\ ~Bearing(q) /\ (q.bid # None => q.bid = r.bid) /\ (Early(q) => Early(r))
  <2>1. CASE q = IdleFrame
    BY <2>1, IdleFields DEF Bearing, Early, SyncTo
  <2>2. CASE q # IdleFrame
    BY <1>1, <1>2, <1>7, <1>9, <2>2 DEF Bearing, Early, SyncTo, SyncReturns, Origin
  <2> QED
    BY <2>1, <2>2
<1>16. None \notin Outbound
  BY OwnTypes, DescriptorAssumption DEF Own
<1> QED
  BY <1>1, <1>3, <1>4, <1>6, <1>12, <1>13, <1>14, <1>15, <1>16 DEF WriteMove, q, r

-----------------------------------------------------------------------------
\* The other steps of a goroutine.

(***************************************************************************)
(* A step that removes only items of bundles which reached their           *)
(* destination, and writes none.                                           *)
(***************************************************************************)
LEMMA ReachGlue ==
    ASSUME Steady, CInv, IInv', NEW f \in Frames, Others(f), fr[f].pc # "idle",
           FrameOK(Held', f, fr'[f]),
           reached \subseteq reached', UNCHANGED <<todo, idk, world>>,
           \A j \in Ids : \/ store'[j] = store[j]
                          \/ store'[j] = None /\ store[j] # None /\ store[j].bndl \in reached',
           (fr'[f].id = fr[f].id /\ fr'[f].bid = fr[f].bid) \/ fr'[f] = IdleFrame,
           Early(fr'[f]) => Early(fr[f]), ~Bearing(fr'[f]), Noted(fr'[f]) => Noted(fr[f]),
           fr[f].bid \in Held' => ~Waiting(fr[f])
    PROVE  CInv'
<1> USE DEF CInv
<1> DEFINE r == fr[f]
           q == fr'[f]
<1>1. Held' \subseteq Held /\ UNCHANGED receptions /\ r.id \in Ids
  BY HeldShrinks, MyFrame DEF world, GoodFrame
<1>2. IdleFrame.id = None /\ IdleFrame.bid = None /\ None \notin Outbound
  BY IdleFields, OwnTypes, DescriptorAssumption DEF Own
<1>3. KeepsKey(f) /\ AgentProceeds(f)
  BY <1>2 DEF KeepsKey, AgentProceeds
<1>4. FramesOK'
  BY <1>1, FramesGlue
<1>5. ItemsOK'
  <2>1. \A i \in Ids : store'[i] # None => FitsItem(i, store'[i])
    BY DEF ItemsOK
  <2> QED
    BY <2>1 DEF ItemsOK, FitsItem, Fits, Own, InitialId
<1>6. FreshInv'
  BY <1>1, <1>3, FreshGlue
<1>7. ASSUME NEW b \in Held', r.id = InitialId(b), store[r.id] # None
      PROVE  store'[r.id] = store[r.id]
  <2>1. b \in Own /\ b \notin reached'
    BY DEF Held
  <2>2. store[r.id].bndl = b
    BY <1>1, <1>7, <2>1, FitsOwn DEF ItemsOK, FitsItem
  <2> QED
    BY <1>1, <2>1, <2>2
<1>8. LocalInv'
  <2>1. KeepsLocal(f)
    <3> SUFFICES ASSUME NEW b \in Held', Attr[b].dst = Self, r.id = InitialId(b)
                 PROVE  /\ q.id = InitialId(b) => q.bid = b
                        /\ store'[r.id] # None =>
                              /\ ~store'[r.id].pending
                              /\ q.bid = b /\ Noted(q) => store'[r.id].dst = Self
      BY DEF KeepsLocal
    <3>1. b \in Held /\ r.bid = b /\ InitialId(b) # None
      BY <1>1, LocalIsOwn, DescriptorAssumption
    <3>2. store[r.id] # None => ~store[r.id].pending /\ (Noted(r) => store[r.id].dst = Self)
      BY <3>1, HeldFacts
    <3>3. store'[r.id] \in {store[r.id], None}
      BY <1>1
    <3> QED
      BY <1>2, <3>1, <3>2, <3>3
  <2> QED
    BY <1>1, <1>3, <1>4, <2>1, LocalGlue
<1>9. HeldInv'
  <2>1. KeepsHeld(f)
    <3>1. ASSUME NEW b \in Held', r.id = InitialId(b)
          PROVE  store'[r.id] # None \/ (store[r.id] = None /\ ~(r.bid = b /\ Waiting(r)))
      BY <1>7, <3>1
    <3> QED
      BY <3>1 DEF KeepsHeld
  <2>2. \A j \in Ids : \/ store'[j] = store[j]
                       \/ store[j] # None /\ store[j].bndl \notin Held'
    BY DEF Held
  <2> QED
    BY <1>1, <2>1, <2>2, HeldGlue
<1> QED
  BY <1>4, <1>5, <1>6, <1>8, <1>9

LEMMA SendSucceedsCustody ==
    ASSUME Steady, CInv, IInv', NEW f \in Frames, NEW p \in Peers, SendSucceeds(f, p) PROVE CInv'
<1> DEFINE r == fr[f]
           q == fr'[f]
<1>1. r.pc = "sending" /\ r.snd[p] = "send" /\ r \in FrameRec /\ ~Waiting(r)
  BY MyFrame DEF SendSucceeds, At, Waiting, SyncTo
<1>2. /\ q = [r EXCEPT !.snd[p] = "sent"] /\ Others(f) /\ store' = store
      /\ UNCHANGED <<todo, idk, world>>
  BY GotoFields DEF SendSucceeds, CInv, IInv
<1>3. reached \subseteq reached' /\ (Attr[r.bid].dst = p => r.bid \in reached')
  BY DEF SendSucceeds
<1>4. /\ q.pc = "sending" /\ q.recv = r.recv /\ q.bid = r.bid /\ q.id = r.id
      /\ q.bi = r.bi /\ q.del = r.del /\ q.cons = r.cons
      /\ q.snd = [r.snd EXCEPT ![p] = "sent"] /\ q.rbi = r.rbi
  BY <1>1, <1>2 DEF FrameRec
<1>5. q.snd[p] = "sent" /\ \A n \in Peers \ {p} : q.snd[n] = r.snd[n]
  BY <1>1, <1>4 DEF FrameRec
<1>6. Named(r) /\ Origin(f, r) /\ (r.bid \in Held => Safe(f, r) /\ Attr[r.bid].dst # Self)
  BY <1>1, MyFrame DEF Safe, LocalFrame, LocalLabels
<1>7. Held' \subseteq Held /\ (r.bid \in Held' => Attr[r.bid].dst # p)
  BY <1>2, <1>3, HeldShrinks DEF Held, world
<1> HIDE DEF q, r
<1>8. Named(q)
  BY <1>1, <1>4, <1>5, <1>6 DEF Named
<1>9. Origin(f, q)
  BY <1>1, <1>4, <1>6 DEF Origin, Receiving, Late, Early, SyncTo
<1>10. r.bid \in Held' => Safe(f, q)
  <2>1. \A n \in Peers : /\ q.snd[n] # "none" => r.snd[n] # "none"
                         /\ q.snd[n] = "sent" => r.snd[n] = "sent" \/ n = p
    BY <1>1, <1>5
  <2> QED
    BY <1>1, <1>4, <1>6, <1>7, <2>1 DEF Safe, TransitFrame, SyncTo
<1>11. FrameOK(Held', f, q) /\ ~Bearing(q) /\ (Early(q) => Early(r)) /\ ~Noted(q)
  BY <1>1, <1>4, <1>8, <1>9, <1>10 DEF FrameOK, Bearing, Early, Noted, SyncTo
<1> QED
  BY <1>1, <1>2, <1>3, <1>4, <1>11, ReachGlue DEF q, r

\* inspectStatusReport removes bundles that reached their destination.
LEMMA InspectRemoves ==
    ASSUME NEW b, InspectStatusReport(b)
    PROVE  /\ reached \subseteq reached'
           /\ \A j \in Ids : \/ store'[j] = store[j]
                             \/ store'[j] = None /\ store[j] # None /\ store[j].bndl \in reached'
<1> DEFINE known == {i \in Attr[b].refs : Attr[b].wellFormed /\ store[i] # None}
<1>1. /\ store' = [i \in Ids |-> IF i \in known THEN None ELSE store[i]]
      /\ reached' = reached \cup {store[i].bndl : i \in known}
  BY DEF InspectStatusReport
<1>2. \A i \in known : store[i] # None
  OBVIOUS
<1> HIDE DEF known
<1> QED
  BY <1>1, <1>2

LEMMA InspectCustody ==
    ASSUME Steady, CInv, IInv', NEW f \in Frames, Inspect(f) PROVE CInv'
<1>1. fr[f].pc = "inspect" /\ ~Waiting(fr[f]) /\ UNCHANGED <<todo, idk, world>>
  BY DEF Inspect, At, Waiting, SyncTo
<1>2. fr'[f] = IdleFrame /\ Others(f)
  BY GotoFields DEF Inspect, CInv, IInv
<1>3. /\ reached \subseteq reached'
      /\ \A j \in Ids : \/ store'[j] = store[j]
                        \/ store'[j] = None /\ store[j] # None /\ store[j].bndl \in reached'
  BY InspectRemoves DEF Inspect
<1>4. FrameOK(Held', f, fr'[f])
  <2>1. Held' \subseteq Own
    BY DEF Held
  <2> QED
    BY <1>2, <2>1, IdleOK
<1>5. ~Bearing(fr'[f]) /\ ~Early(fr'[f]) /\ ~Noted(fr'[f])
  BY <1>2, IdleFields DEF Bearing, Early, Noted, SyncTo
<1> QED
  BY <1>1, <1>2, <1>3, <1>4, <1>5, ReachGlue

\* A jump while the bundle may reach its destination.
LEMMA ReachJump ==
    ASSUME Steady, CInv, IInv', NEW f \in Frames, NEW l \in {"localSync", "delete", "delivered"},
           fr[f].pc \in {"local", "handover"}, Jump(f, l),
           reached \subseteq reached', UNCHANGED <<todo, idk, world>>,
           \A j \in Ids : \/ store'[j] = store[j]
                          \/ store'[j] = None /\ store[j] # None /\ store[j].bndl \in reached',
           fr[f].bid \in Held' => l = "localSync" /\ fr[f].pc = "local"
    PROVE  CInv'
<1> DEFINE r == fr[f]
           q == fr'[f]
<1>1. /\ Others(f)
      /\ q.pc = l /\ q.recv = r.recv /\ q.bid = r.bid /\ q.id = r.id
      /\ q.cons = r.cons /\ q.bi = r.bi /\ q.rbi = r.rbi
  BY JumpFields DEF CInv, IInv
<1>2. Named(r) /\ Origin(f, r) /\ (r.bid \in Held => Safe(f, r)) /\ \A p \in Peers : r.rbi[p] = None
  BY MyFrame, NoneFailed
<1>3. Held' \subseteq Held
  BY HeldShrinks DEF world
<1>4. r.pc = "local" => ~Waiting(r)
  BY DEF Waiting, SyncTo
<1>5. r.pc \in {"local", "handover"} /\ (r.bid \in Held' => l = "localSync" /\ r.pc = "local")
  OBVIOUS
<1> HIDE DEF q, r
<1>6. Named(q)
  BY <1>1, <1>2 DEF Named
<1>7. Origin(f, q)
  BY <1>1, <1>2, <1>5 DEF Origin, Receiving, Late, Early, SyncTo
<1>8. q.bid \in Held' => Safe(f, q)
  BY <1>1, <1>2, <1>3, <1>5
     DEF Safe, LocalFrame, TransitFrame, LocalReturns, LocalLabels, SyncTo
<1>9. FrameOK(Held', f, q) /\ ~Bearing(q) /\ (Early(q) => Early(r)) /\ ~Noted(q)
  BY <1>1, <1>6, <1>7, <1>8 DEF FrameOK, Bearing, Early, Noted, SyncTo
<1> QED
  BY <1>1, <1>4, <1>5, <1>9, ReachGlue DEF q, r

LEMMA LocalDeliveryCustody ==
    ASSUME Steady, CInv, IInv', NEW f \in Frames, LocalDelivery(f) PROVE CInv'
<1> DEFINE b == fr[f].bid
<1>1. fr[f].pc = "local" /\ UNCHANGED <<todo, idk, world>>
  BY DEF LocalDelivery, At
<1>2. CASE Attr[b].admin
  <2> DEFINE l == IF Attr[b].wellFormed THEN "localSync" ELSE "delete"
  <2>1. InspectStatusReport(b) /\ Jump(f, l)
    BY <1>2 DEF LocalDelivery
  <2>2. /\ reached \subseteq reached'
        /\ \A j \in Ids : \/ store'[j] = store[j]
                          \/ store'[j] = None /\ store[j] # None /\ store[j].bndl \in reached'
    BY <2>1, InspectRemoves
  <2>3. b \in Held' => l = "localSync"
    BY <1>2 DEF Held, Hopeless
  <2>4. l \in {"localSync", "delete", "delivered"}
    OBVIOUS
  <2> HIDE DEF l
  <2> QED
    BY <1>1, <2>1, <2>2, <2>3, <2>4, ReachJump
<1>3. CASE ~Attr[b].admin
  <2>1. Jump(f, "localSync") /\ store' = store /\ reached' = reached
    BY <1>3 DEF LocalDelivery, shared
  <2> QED
    BY <1>1, <2>1, ReachJump
<1> QED
  BY <1>2, <1>3

LEMMA HandOverCustody ==
    ASSUME Steady, CInv, IInv', NEW f \in Frames, HandOver(f) PROVE CInv'
<1>1. /\ fr[f].pc = "handover" /\ UNCHANGED <<todo, idk, world>> /\ Jump(f, "delivered")
      /\ store' = store /\ reached' = reached \cup {fr[f].bid}
  BY DEF HandOver, At, shared
<1>2. fr[f].bid \notin Held'
  BY <1>1 DEF Held
<1> QED
  BY <1>1, <1>2, ReachJump

(***************************************************************************)
(* IdKeeper.update leaves the name of an agent's bundle as it is and gives *)
(* a status report one that no other bundle has.                           *)
(***************************************************************************)
LEMMA TransmitCustody ==
    ASSUME Steady, CInv, IInv', NEW f \in Frames, Transmit(f) PROVE CInv'
<1> USE DEF CInv
<1> DEFINE r == fr[f]
           q == fr'[f]
           b == r.bid
           t == Attr[b].tpl
           i == <<t, NextSeq(t)>>
<1>1. /\ r.pc = "transmit" /\ r \in FrameRec /\ b \in Bundles /\ r.id \in Ids
      /\ Named(r) /\ Origin(f, r) /\ (b \in Held => Safe(f, r)) /\ \A p \in Peers : r.rbi[p] = None
  BY MyFrame, NoneFailed DEF Transmit, At, GoodFrame, Unloaded
<1>2. /\ q = [r EXCEPT !.id = i, !.pc = "transmitSync"] /\ Others(f) /\ store' = store
      /\ idk' = [idk EXCEPT ![t] = NextSeq(t)]
      /\ UNCHANGED <<todo, world, reached>>
  BY GotoFields DEF Transmit, IInv, shared
<1>3. /\ q.pc = "transmitSync" /\ q.after = r.after /\ q.recv = r.recv /\ q.bid = b
      /\ q.id = i /\ q.cons = r.cons /\ q.bi = r.bi /\ q.del = r.del /\ q.snd = r.snd
      /\ q.rbi = r.rbi
  BY <1>1, <1>2 DEF FrameRec
<1>4. ~r.recv /\ Early(r) /\ b \in (IF f = <<"agent", 1>> THEN Outbound ELSE Reports)
  BY <1>1 DEF Origin, Early
<1>5. b \in Outbound => i = InitialId(b) /\ r.id = i
  <2>1. ASSUME b \in Outbound PROVE i = InitialId(b) /\ r.id = InitialId(b)
    <3>1. f = <<"agent", 1>> /\ b \in Own
      BY <1>4, <2>1, ReportsDiffer DEF Own
    <3>2. idk[t] = None
      BY <1>4, <2>1, <3>1 DEF FreshInv, AgentFrame
    <3>3. Attr[b].seq = 0
      BY <2>1 DEF Steady, NamesDiffer
    <3>4. r.id = InitialId(b)
      BY <1>1, <3>1, OwnFits, DescriptorAssumption DEF Named
    <3> QED
      BY <3>2, <3>3, <3>4 DEF InitialId, NextSeq
  <2> QED
    BY <2>1
<1>6. i \in Ids
  BY <1>3, MyFrame DEF IInv, FrameInv, GoodFrame, FrameRec
<1>7. KeepsKey(f)
  BY <1>3, <1>4, <1>5, <1>6 DEF KeepsKey
<1>8. UNCHANGED receptions /\ Held' = Held
  BY <1>2 DEF world, Held
<1>9. Fits(i, b)
  BY <1>4, <1>5 DEF Fits, Own
<1>10. t \in Tuples /\ idk \in [Tuples -> (0 .. MaxSeq) \cup {None}]
  BY <1>1, AttrType DEF IInv, Rest
<1>11. \A c \in Outbound : \/ idk'[Attr[c].tpl] = idk[Attr[c].tpl]
                           \/ f = <<"agent", 1>> /\ b = c
  <2>1. ASSUME NEW c \in Outbound, Attr[c].tpl = t PROVE f = <<"agent", 1>> /\ b = c
    BY <1>4, <2>1 DEF Steady, NamesDiffer, Own
  <2> QED
    BY <1>2, <1>10, <2>1
<1> HIDE DEF q, r, i
<1>12. Named(q)
  BY <1>1, <1>3, <1>9 DEF Named
<1>13. Origin(f, q)
  BY <1>1, <1>3, <1>4 DEF Origin, Receiving, Late, Early, SyncTo
<1>14. q.bid \in Held => Safe(f, q)
  BY <1>1, <1>3 DEF Safe, LocalFrame, TransitFrame, LocalReturns, LocalLabels, SyncTo
<1>15. FrameOK(Held', f, q) /\ ~Bearing(q) /\ ~Early(q) /\ Noted(r) /\ ~Waiting(r)
  BY <1>1, <1>3, <1>8, <1>12, <1>13, <1>14 DEF FrameOK, Bearing, Early, Noted, Waiting, SyncTo
<1>16. FramesOK'
  BY <1>2, <1>8, <1>15, FramesGlue DEF q
<1>17. ItemsOK'
  BY <1>2 DEF ItemsOK, FitsItem, Fits, Own, InitialId
<1>18. FreshInv'
  <2>1. AgentProceeds(f)
    BY <1>15 DEF AgentProceeds, q
  <2> QED
    BY <1>2, <1>7, <1>8, <1>11, <1>15, <2>1, FreshGlue DEF q, r
<1>19. LocalInv'
  <2>1. KeepsLocal(f)
    <3>1. ASSUME NEW c \in Held, Attr[c].dst = Self, r.id = InitialId(c)
          PROVE  /\ b = c
                 /\ store[r.id] # None => ~store[r.id].pending /\ store[r.id].dst = Self
      <4>1. b = c
        BY <3>1, LocalIsOwn DEF r
      <4> QED
        BY <1>15, <3>1, <4>1, HeldFacts DEF r
    <3> QED
      BY <1>2, <1>3, <1>8, <3>1 DEF KeepsLocal, q, r
  <2> QED
    BY <1>2, <1>7, <1>8, <1>16, <2>1, LocalGlue
<1>20. HeldInv'
  <2>1. KeepsHeld(f)
    BY <1>2, <1>8, <1>15 DEF KeepsHeld, r
  <2> QED
    BY <1>2, <1>8, <2>1, HeldGlue
<1> QED
  BY <1>16, <1>17, <1>18, <1>19, <1>20

LEMMA StepCustody ==
    ASSUME Steady, CInv, IInv', NEW f \in Frames, Step(f) PROVE CInv'
<1>1. ASSUME \/ NewFromBundle(f) \/ Resync(f) \/ Receive(f) \/ Received(f) \/ CheckBlocks(f)
             \/ NotifyQuery(f) \/ TransmitSync(f) \/ Transmitted(f)
      PROVE  CInv'
  BY <1>1, CalmGlue, NewFromBundleMove, ResyncMove, ReceiveMove, ReceivedMove, CheckBlocksMove,
     NotifyQueryMove, TransmitSyncMove, TransmittedMove
<1>2. ASSUME \/ Dispatch(f) \/ AllowedSenders(f) \/ Load(f) \/ Forward(f) \/ CheckBundle(f)
             \/ ClasForBundle(f) \/ SendingDone(f) \/ Forwarded(f)
             \/ \E p \in Peers : SendFails(f, p)
      PROVE  CInv'
  BY <1>2, CalmGlue, DispatchMove, AllowedSendersMove, LoadMove, ForwardMove, CheckBundleMove,
     ClasForBundleMove, SendingDoneMove, ForwardedMove, SendFailsMove
<1>3. ASSUME \/ LocalSync(f) \/ Deliver(f) \/ Delivered(f) \/ BundleDeletion(f) \/ Purge(f)
      PROVE  CInv'
  BY <1>3, CalmGlue, LocalSyncMove, DeliverMove, DeliveredMove, PurgeMove
<1>4. ASSUME \/ SyncWrite(f) \/ NotifyDestination(f) \/ NotifySent(f) \/ MarkPending(f)
             \/ UpdateSent(f) \/ \E p \in Peers : ReportFailure(f, p)
      PROVE  CInv'
  BY <1>4, WriteGlue, SyncWriteMove, NotifyDestinationMove, NotifySentMove, MarkPendingMove,
     UpdateSentMove, ReportFailureMove
<1>5. ASSUME \/ Transmit(f) \/ Inspect(f) \/ LocalDelivery(f) \/ HandOver(f)
             \/ \E p \in Peers : SendSucceeds(f, p)
      PROVE  CInv'
  BY <1>5, TransmitCustody, InspectCustody, LocalDeliveryCustody, HandOverCustody,
     SendSucceedsCustody
<1> QED
  BY <1>1, <1>2, <1>3, <1>4, <1>5 DEF Step

-----------------------------------------------------------------------------
\* What others do.

(***************************************************************************)
(* A bundle comes to its owner, who does nothing else.                     *)
(***************************************************************************)
LEMMA ArrivalCustody ==
    ASSUME Steady, CInv, IInv', NEW b \in Own, NEW q, NEW n,
           fr[Owner(b)].pc = "idle", Goto(Owner(b), q),
           q.pc = "new", q.bid = b, q.id = InitialId(b), q.bi = None,
           \A p \in Peers : q.rbi[p] = None,
           q.cons = StoredConstraints(store[InitialId(b)]),
           b \in Inbound => q.recv = TRUE, b \in Outbound => q.recv = FALSE,
           receptions' = [receptions EXCEPT ![b] = n], n # 0, b \in Outbound => receptions[b] = 0,
           UNCHANGED <<store, todo, idk, expired, reached>>
    PROVE  CInv'
<1> USE DEF CInv
<1> DEFINE f == Owner(b)
           a == <<"agent", 1>>
<1>1. f \in Frames /\ a \in Frames /\ f[2] = 1
  BY OwnerType DEF Frames, Procs
<1>2. fr'[f] = q /\ \A g \in Frames : g # f => fr'[g] = fr[g]
  BY <1>1 DEF Goto, IInv, FrameInv
<1>3. Others(f) /\ Held' = Held
  BY <1>2 DEF Others, Held
<1>4. InitialId(b) \in Ids /\ b \in Bundles /\ b # None
  BY OwnTypes, DescriptorAssumption
<1>5. \A c \in Own : receptions'[c] = IF c = b THEN n ELSE receptions[c]
  BY <1>4, OwnTypes DEF IInv, Rest
<1>6. \A c \in Own : InitialId(c) = InitialId(b) => c = b
  BY DEF Steady, NamesDiffer
<1>7. b \in Inbound <=> b \notin Outbound
  BY DEF Own, Steady, NamesDiffer
<1> HIDE DEF f
<1>8. (f = <<"handler", 1>> /\ b \in Inbound) \/ (f = a /\ b \in Outbound)
  <2>1. CASE b \in Inbound
    BY <2>1 DEF Owner, f
  <2>2. CASE b \notin Inbound
    BY <1>7, <2>2 DEF Owner, f
  <2> QED
    BY <2>1, <2>2
<1>9. FrameOK(Held, f, q)
  <2>1. Named(q)
    BY DEF Named, Fits
  <2>2. Origin(f, q)
    <3>1. CASE f = <<"handler", 1>> /\ b \in Inbound
      BY <3>1 DEF Origin, Receiving, Late, Early, SyncTo
    <3>2. CASE f = a /\ b \in Outbound
      BY <3>2 DEF Origin, Receiving, Late, Early, SyncTo
    <3> QED
      BY <1>8, <3>1, <3>2
  <2>3. ASSUME b \in Held PROVE Safe(f, q)
    <3>1. ASSUME Attr[b].dst = Self PROVE q.cons \cap {FP, CI} = {}
      <4>1. store[InitialId(b)] # None =>
               ~store[InitialId(b)].pending /\ store[InitialId(b)] \in GoodItems
        BY <1>4, <2>3, <3>1, ItemType DEF LocalInv, IInv, StoreInv
      <4> QED
        BY <4>1 DEF StoredConstraints, GoodItems
    <3> QED
      BY <3>1 DEF Safe, LocalFrame, TransitFrame, LocalLabels, SyncTo, f
  <2> QED
    BY <2>1, <2>2, <2>3 DEF FrameOK
<1>10. FramesOK'
  BY <1>1, <1>2, <1>3, <1>9, FramesGlue
<1>11. ItemsOK'
  BY DEF ItemsOK, FitsItem, Fits, Own, InitialId
<1>12. FreshInv'
  <2>1. ASSUME NEW c \in Own, receptions'[c] = 0
        PROVE  /\ store[InitialId(c)] = None
               /\ \A g \in Frames : fr'[g].id # InitialId(c)
               /\ \A p \in Procs : InitialId(c) \notin todo[p]
    BY <1>2, <1>5, <1>6, <2>1 DEF FreshInv, Unknown
  <2>2. ASSUME NEW c \in Outbound, fr'[a].bid = c, Bearing(fr'[a])
        PROVE  /\ store[InitialId(c)] = None
               /\ \A g \in Frames \ {a} : fr'[g].id # InitialId(c)
               /\ \A p \in Procs : InitialId(c) \notin todo[p]
               /\ fr'[a].cons = {} /\ fr'[a].bi = None
    <3>0. c \in Own
      BY DEF Own
    <3>1. CASE f = a
      <4>1. c = b /\ receptions[b] = 0
        BY <1>2, <1>7, <1>8, <2>2, <3>1
      <4> QED
        BY <1>2, <3>0, <3>1, <4>1 DEF FreshInv, Unknown, StoredConstraints
    <3>2. CASE f # a
      <4>1. fr'[a] = fr[a] /\ c # b
        BY <1>1, <1>2, <1>7, <1>8, <2>2, <3>2
      <4> QED
        BY <1>2, <1>6, <2>2, <3>0, <3>2, <4>1 DEF FreshInv, Unknown, AgentFrame
    <3> QED
      BY <3>1, <3>2
  <2>3. ASSUME NEW c \in Outbound, receptions'[c] = 0 \/ (fr'[a].bid = c /\ Early(fr'[a]))
        PROVE  idk[Attr[c].tpl] = None
    <3>0. c \in Own
      BY DEF Own
    <3>1. receptions[c] = 0 \/ (fr[a].bid = c /\ Early(fr[a]))
      BY <1>1, <1>2, <1>5, <1>8, <2>3, <3>0
    <3> QED
      BY <3>0, <3>1 DEF FreshInv, AgentFrame
  <2> HIDE DEF a
  <2> QED
    BY <2>1, <2>2, <2>3 DEF FreshInv, Unknown, AgentFrame, Bearing, Early, SyncTo, InitialId, a
<1>13. LocalInv'
  <2>1. ASSUME NEW c \in Held, Attr[c].dst = Self
        PROVE  /\ \A p \in Procs : InitialId(c) \notin todo[p]
               /\ \A g \in Frames : fr'[g].id = InitialId(c) => g = Owner(c) /\ fr'[g].bid = c
               /\ store[InitialId(c)] # None =>
                     /\ ~store[InitialId(c)].pending
                     /\ fr'[Owner(c)].bid = c /\ Noted(fr'[Owner(c)]) =>
                           store[InitialId(c)].dst = Self
    <3>1. c \in Own /\ Owner(c) \in Frames /\ ~Noted(q)
      BY OwnerType DEF Held, Noted, SyncTo
    <3>2. \A g \in Frames : fr'[g].id = InitialId(c) => g = Owner(c) /\ fr'[g].bid = c
      BY <1>2, <1>6, <2>1, <3>1 DEF LocalInv, f
    <3> QED
      BY <1>2, <2>1, <3>1, <3>2 DEF LocalInv
  <2> QED
    BY <1>3, <2>1 DEF LocalInv, InitialId, Owner, Noted, SyncTo
<1>14. HeldInv'
  <2>1. ASSUME NEW c \in Held, receptions'[c] > 0
        PROVE  \/ store[InitialId(c)] # None
               \/ fr'[Owner(c)].bid = c /\ Waiting(fr'[Owner(c)])
    <3>1. c \in Own /\ Owner(c) \in Frames
      BY OwnerType DEF Held
    <3>2. CASE c = b
      BY <1>2, <3>2 DEF StoredConstraints, Waiting, f
    <3>3. CASE c # b
      <4>1. receptions[c] > 0
        BY <1>5, <2>1, <3>1, <3>3
      <4>2. \/ store[InitialId(c)] # None
            \/ fr[Owner(c)].bid = c /\ Waiting(fr[Owner(c)])
        BY <2>1, <4>1 DEF HeldInv
      <4>3. ~Waiting(fr[f])
        BY DEF Waiting, SyncTo, f
      <4> QED
        BY <1>2, <3>1, <4>2, <4>3
    <3> QED
      BY <3>2, <3>3
  <2> QED
    BY <1>3, <2>1 DEF HeldInv, InitialId, Owner, Waiting, SyncTo
<1> QED
  BY <1>10, <1>11, <1>12, <1>13, <1>14

LEMMA ReceptionCustody ==
    ASSUME Steady, CInv, IInv', NEW b,
           \/ b \in Inbound /\ \E p \in Peers \cup {None} : HandleReceived(b, p)
           \/ b \in Outbound /\ HandleMessage(b)
    PROVE  CInv'
<1>1. CASE b \in Inbound /\ \E p \in Peers \cup {None} : HandleReceived(b, p)
  <2>1. PICK p \in Peers \cup {None} : HandleReceived(b, p)
    BY <1>1
  <2> DEFINE q == [NewDescriptor(b) EXCEPT !.recv = TRUE, !.prev = p]
  <2>2. b \in Own /\ Owner(b) = <<"handler", 1>> /\ b \notin Outbound /\ receptions[b] + 1 # 0
    BY <1>1, OwnTypes DEF Own, Owner, Steady, NamesDiffer, CInv, IInv, Rest
  <2>3. /\ q.pc = "new" /\ q.bid = b /\ q.id = InitialId(b) /\ q.bi = None
        /\ \A n \in Peers : q.rbi[n] = None
        /\ q.cons = StoredConstraints(store[InitialId(b)]) /\ q.recv = TRUE
    BY DEF NewDescriptor, IdleFrame
  <2>4. /\ fr[<<"handler", 1>>].pc = "idle" /\ Goto(<<"handler", 1>>, q)
        /\ receptions' = [receptions EXCEPT ![b] = receptions[b] + 1]
        /\ UNCHANGED <<store, todo, idk, expired, reached>>
    BY <2>1 DEF HandleReceived, Idle, shared
  <2> HIDE DEF q
  <2> QED
    BY <1>1, <2>2, <2>3, <2>4, ArrivalCustody
<1>2. CASE b \in Outbound /\ HandleMessage(b)
  <2> DEFINE q == NewDescriptor(b)
  <2>2. b \in Own /\ Owner(b) = <<"agent", 1>> /\ b \notin Inbound /\ 1 # 0
    BY <1>2, OwnTypes DEF Own, Owner, Steady, NamesDiffer, CInv, IInv, Rest
  <2>3. /\ q.pc = "new" /\ q.bid = b /\ q.id = InitialId(b) /\ q.bi = None
        /\ \A n \in Peers : q.rbi[n] = None
        /\ q.cons = StoredConstraints(store[InitialId(b)]) /\ q.recv = FALSE
    BY DEF NewDescriptor, IdleFrame
  <2>4. /\ fr[<<"agent", 1>>].pc = "idle" /\ Goto(<<"agent", 1>>, q)
        /\ receptions[b] = 0 /\ receptions' = [receptions EXCEPT ![b] = 1]
        /\ UNCHANGED <<store, todo, idk, expired, reached>>
    BY <1>2 DEF HandleMessage, Idle, shared
  <2> HIDE DEF q
  <2> QED
    BY <1>2, <2>2, <2>3, <2>4, ArrivalCustody
<1> QED
  BY <1>1, <1>2

\* CheckPendingBundles finds neither unknown bundles nor those for this node.
LEMMA PendingCustody ==
    ASSUME Steady, CInv, IInv', NEW p \in Procs, todo' = [todo EXCEPT ![p] = PendingIds],
           UNCHANGED <<store, fr, idk, receptions, expired, reached>>
    PROVE  CInv'
<1> USE DEF CInv
<1>1. Held' = Held
  BY DEF Held
<1>2. ASSUME NEW i \in Ids, NEW n \in Procs, i \notin todo[n],
             store[i] = None \/ ~store[i].pending
      PROVE  i \notin todo'[n]
  <2>1. i \notin PendingIds
    BY <1>2 DEF PendingIds
  <2> QED
    BY <1>2, <2>1 DEF IInv, Rest
<1>3. \A b \in Own : InitialId(b) \in Ids
  BY OwnTypes
<1>4. FramesOK'
  BY <1>1 DEF FramesOK, FrameOK, Named, Origin, Safe, LocalFrame, TransitFrame, FitsItem, Fits, Own,
              Early, Late, Receiving, SyncTo, Owner, InitialId
<1>5. ItemsOK'
  BY DEF ItemsOK, FitsItem, Fits, Own, InitialId
<1>6. FreshInv'
  <2>1. ASSUME NEW b \in Own, NEW G \in SUBSET Frames, Unknown(InitialId(b), G)
        PROVE  \A n \in Procs : InitialId(b) \notin todo'[n]
    BY <1>2, <1>3, <2>1 DEF Unknown
  <2>2. ASSUME NEW b \in Own, receptions[b] = 0
        PROVE  \A n \in Procs : InitialId(b) \notin todo'[n]
    BY <2>1, <2>2 DEF FreshInv
  <2>3. ASSUME NEW b \in Own, b \in Outbound /\ AgentFrame.bid = b /\ Bearing(AgentFrame)
        PROVE  \A n \in Procs : InitialId(b) \notin todo'[n]
    BY <2>1, <2>3 DEF FreshInv
  <2> QED
    BY <2>2, <2>3 DEF FreshInv, Unknown, AgentFrame, Bearing, Early, SyncTo, InitialId
<1>7. LocalInv'
  <2>1. ASSUME NEW b \in Held, Attr[b].dst = Self, NEW n \in Procs
        PROVE  InitialId(b) \notin todo'[n]
    BY <1>2, <1>3, <2>1 DEF LocalInv, Held
  <2> QED
    BY <1>1, <2>1 DEF LocalInv, InitialId, Owner, Noted, SyncTo
<1>8. HeldInv'
  BY <1>1 DEF HeldInv, InitialId, Owner, Waiting, SyncTo
<1> QED
  BY <1>4, <1>5, <1>6, <1>7, <1>8

LEMMA NextPendingCustody ==
    ASSUME Steady, CInv, IInv', NEW p \in Procs, NextPending(p) PROVE CInv'
<1> USE DEF CInv
<1> DEFINE f == <<p, 1>>
           a == <<"agent", 1>>
<1>1. PICK i \in todo[p] :
         /\ todo' = [todo EXCEPT ![p] = @ \ {i}]
         /\ Goto(f, [IdleFrame EXCEPT !.pc = "dispatch", !.id = i,
                                      !.cons = StoredConstraints(store[i])])
  BY DEF NextPending
<1> DEFINE q == fr'[f]
<1>2. f \in Frames /\ a \in Frames /\ f[2] = 1
  BY DEF Frames, Procs
<1>3. /\ fr[f].pc = "idle" /\ Held' = Held
      /\ UNCHANGED <<store, idk, receptions, expired, reached>>
  BY DEF NextPending, shared, world, Held
<1>4. \A g \in Frames : g # f => fr'[g] = fr[g]
  BY <1>1 DEF Goto, IInv, FrameInv
<1>5. /\ q.pc = "dispatch" /\ q.id = i /\ q.bid = None /\ q.bi = None /\ ~q.recv
      /\ \A n \in Peers : q.rbi[n] = None
  <2>1. q = [IdleFrame EXCEPT !.pc = "dispatch", !.id = i, !.cons = StoredConstraints(store[i])]
    BY <1>1, <1>2 DEF Goto, IInv, FrameInv
  <2> HIDE DEF q
  <2> QED
    BY <2>1 DEF IdleFrame
<1>6. \A n \in Procs : todo'[n] \subseteq todo[n]
  BY <1>1 DEF IInv, Rest
<1>7. None \notin Own /\ Held \subseteq Own /\ Outbound \subseteq Own
  BY OwnTypes, DescriptorAssumption DEF Held, Own
<1> HIDE DEF q, f
<1>8. FrameOK(Held', f, q)
  <2>1. Named(q)
    BY <1>5 DEF Named
  <2>2. Origin(f, q)
    BY <1>2, <1>5 DEF Origin, Receiving, Late, Early, SyncTo
  <2> QED
    BY <1>3, <1>5, <1>7, <2>1, <2>2 DEF FrameOK
<1>9. FramesOK'
  <2>1. Others(f)
    BY <1>4 DEF Others
  <2> QED
    BY <1>2, <1>3, <1>8, <2>1, FramesGlue DEF q
<1>10. ItemsOK'
  BY <1>3 DEF ItemsOK, FitsItem, Fits, Own, InitialId
<1>11. FreshInv'
  <2>1. ASSUME NEW b \in Own, NEW G \in SUBSET Frames, Unknown(InitialId(b), G)
        PROVE  /\ store[InitialId(b)] = None
               /\ \A g \in G : fr'[g].id # InitialId(b)
               /\ \A n \in Procs : InitialId(b) \notin todo'[n]
    <3>1. i # InitialId(b)
      BY <1>1, <2>1 DEF Unknown
    <3> QED
      BY <1>4, <1>5, <1>6, <2>1, <3>1 DEF Unknown, q
  <2>2. ASSUME NEW b \in Own, receptions[b] = 0
        PROVE  /\ store[InitialId(b)] = None
               /\ \A g \in Frames : fr'[g].id # InitialId(b)
               /\ \A n \in Procs : InitialId(b) \notin todo'[n]
    BY <2>1, <2>2 DEF FreshInv
  <2>3. ASSUME NEW b \in Outbound, fr'[a].bid = b
        PROVE  /\ fr[a] = fr'[a]
               /\ Bearing(fr[a]) =>
                     /\ store[InitialId(b)] = None
                     /\ \A g \in Frames \ {a} : fr'[g].id # InitialId(b)
                     /\ \A n \in Procs : InitialId(b) \notin todo'[n]
                     /\ fr[a].cons = {} /\ fr[a].bi = None
               /\ Early(fr[a]) => idk[Attr[b].tpl] = None
    <3>1. fr[a] = fr'[a] /\ b \in Own
      BY <1>2, <1>4, <1>5, <1>7, <2>3 DEF q
    <3>2. Bearing(fr[a]) => /\ Unknown(InitialId(b), Frames \ {a})
                            /\ fr[a].cons = {} /\ fr[a].bi = None
      BY <2>3, <3>1 DEF FreshInv, AgentFrame
    <3>3. Early(fr[a]) => idk[Attr[b].tpl] = None
      BY <2>3, <3>1 DEF FreshInv, AgentFrame
    <3> QED
      BY <2>1, <3>1, <3>2, <3>3
  <2>4. \A b \in Outbound : receptions[b] = 0 => idk[Attr[b].tpl] = None
    BY <1>7 DEF FreshInv
  <2> HIDE DEF a
  <2> QED
    BY <1>3, <2>2, <2>3, <2>4
       DEF FreshInv, Unknown, AgentFrame, Bearing, Early, SyncTo, InitialId, a
<1>12. ASSUME NEW b \in Own, fr'[Owner(b)].bid = b PROVE fr'[Owner(b)] = fr[Owner(b)]
  BY <1>4, <1>5, <1>7, <1>12, OwnerType DEF q
<1>13. LocalInv'
  <2>1. ASSUME NEW b \in Held, Attr[b].dst = Self
        PROVE  /\ \A n \in Procs : InitialId(b) \notin todo'[n]
               /\ \A g \in Frames : fr'[g].id = InitialId(b) => g = Owner(b) /\ fr'[g].bid = b
               /\ store[InitialId(b)] # None =>
                     /\ ~store[InitialId(b)].pending
                     /\ fr'[Owner(b)].bid = b /\ Noted(fr'[Owner(b)]) =>
                           store[InitialId(b)].dst = Self
    <3>1. i # InitialId(b)
      BY <1>1, <2>1 DEF LocalInv
    <3>2. \A g \in Frames : fr'[g].id = InitialId(b) => fr'[g] = fr[g]
      BY <1>4, <1>5, <3>1 DEF q
    <3> QED
      BY <1>6, <1>7, <1>12, <2>1, <3>2 DEF LocalInv
  <2> QED
    BY <1>3, <2>1 DEF LocalInv, InitialId, Owner, Noted, SyncTo
<1>14. HeldInv'
  <2>1. ASSUME NEW b \in Held, receptions[b] > 0
        PROVE  \/ store[InitialId(b)] # None
               \/ fr'[Owner(b)].bid = b /\ Waiting(fr'[Owner(b)])
    <3>1. ~Waiting(fr[f])
      BY <1>3 DEF Waiting, SyncTo
    <3>2. \/ store[InitialId(b)] # None
          \/ fr[Owner(b)].bid = b /\ Waiting(fr[Owner(b)])
      BY <2>1 DEF HeldInv
    <3> QED
      BY <1>4, <3>1, <3>2, OwnerType
  <2> QED
    BY <1>3, <2>1 DEF HeldInv, InitialId, Owner, Waiting, SyncTo
<1> QED
  BY <1>9, <1>10, <1>11, <1>13, <1>14

(***************************************************************************)
(* What leaves the goroutines alone: bundles cease to be held, their items *)
(* are removed, creation times are forgotten.                              *)
(***************************************************************************)
LEMMA IdleGlue ==
    ASSUME Steady, CInv, IInv', UNCHANGED <<fr, todo, receptions>>, Held' \subseteq Held,
           \A i \in Ids : \/ store'[i] = store[i]
                          \/ store'[i] = None /\ store[i] # None /\ store[i].bndl \notin Held',
           \A t \in Tuples : idk'[t] = idk[t] \/ idk'[t] = None
    PROVE  CInv'
<1> USE DEF CInv
<1>1. \A b \in Own : InitialId(b) \in Ids /\ Attr[b].tpl \in Tuples
  BY OwnTypes, AttrType
<1>2. FramesOK'
  <2>1. \A f \in Frames : FrameOK(Held', f, fr'[f])
    BY DEF FramesOK, FrameOK
  <2> QED
    BY <2>1 DEF FramesOK, FrameOK, Named, Origin, Safe, LocalFrame, TransitFrame, FitsItem, Fits,
                Own, Early, Late, Receiving, SyncTo, Owner, InitialId
<1>3. ItemsOK'
  <2>1. \A i \in Ids : store'[i] # None => FitsItem(i, store'[i])
    BY DEF ItemsOK
  <2> QED
    BY <2>1 DEF ItemsOK, FitsItem, Fits, Own, InitialId
<1>4. FreshInv'
  <2>1. \A b \in Own : store[InitialId(b)] = None => store'[InitialId(b)] = None
    BY <1>1
  <2>2. \A b \in Own : idk[Attr[b].tpl] = None => idk'[Attr[b].tpl] = None
    BY <1>1
  <2> QED
    BY <2>1, <2>2 DEF FreshInv, Unknown, AgentFrame, Bearing, Early, SyncTo, InitialId
<1>5. ASSUME NEW b \in Held' PROVE store'[InitialId(b)] = store[InitialId(b)]
  <2>1. b \in Own /\ InitialId(b) \in Ids
    BY <1>1 DEF Held
  <2>2. store[InitialId(b)] # None => store[InitialId(b)].bndl = b
    BY <2>1, FitsOwn DEF ItemsOK, FitsItem
  <2> QED
    BY <2>1, <2>2
<1>6. LocalInv'
  BY <1>5 DEF LocalInv, InitialId, Owner, Noted, SyncTo
<1>7. HeldInv'
  BY <1>5 DEF HeldInv, InitialId, Owner, Waiting, SyncTo
<1> QED
  BY <1>2, <1>3, <1>4, <1>6, <1>7

LEMMA SurroundingsCustody ==
    ASSUME Steady, CInv, IInv',
           \/ \E i \in Ids : DeleteExpired(i)
           \/ \E t \in OldTuples : CleanIds(t)
           \/ \E b \in Mortal : Expire(b)
           \/ \E p \in Peers : PeerAppears(p)
           \/ \E p \in Leaving : PeerDisappears(p)
           \/ \E e \in AgentEids : RegisterAgent(e)
           \/ UNCHANGED vars
    PROVE  CInv'
<1>1. ASSUME NEW i \in Ids, DeleteExpired(i) PROVE CInv'
  <2>1. /\ UNCHANGED <<fr, todo, receptions, idk>> /\ Held' = Held
        /\ store' = [store EXCEPT ![i] = None]
        /\ store[i] # None /\ store[i].bndl \notin Held'
    BY <1>1 DEF DeleteExpired, Put, world, Held
  <2>2. \A j \in Ids : \/ store'[j] = store[j]
                       \/ store'[j] = None /\ store[j] # None /\ store[j].bndl \notin Held'
    BY <2>1 DEF CInv, IInv, StoreInv
  <2> QED
    BY <2>1, <2>2, IdleGlue
<1>2. ASSUME NEW t \in OldTuples, CleanIds(t) PROVE CInv'
  <2>1. UNCHANGED <<fr, todo, receptions, store>> /\ Held' = Held
    BY <1>2 DEF CleanIds, shared, world, Held
  <2>2. \A s \in Tuples : idk'[s] = idk[s] \/ idk'[s] = None
    BY <1>2 DEF CleanIds, CInv, IInv, Rest
  <2> QED
    BY <2>1, <2>2, IdleGlue
<1>3. ASSUME NEW b \in Mortal, Expire(b) PROVE CInv'
  <2>1. UNCHANGED <<fr, todo, receptions, store, idk>> /\ Held' \subseteq Held
    BY <1>3 DEF Expire, shared, Held
  <2> QED
    BY <2>1, IdleGlue
<1>4. ASSUME \/ \E p \in Peers : PeerAppears(p)
             \/ \E p \in Leaving : PeerDisappears(p)
             \/ \E e \in AgentEids : RegisterAgent(e)
             \/ UNCHANGED vars
      PROVE  CInv'
  <2>1. UNCHANGED <<fr, todo, receptions, store, idk, expired, reached>>
    BY <1>4 DEF PeerAppears, PeerDisappears, RegisterAgent, shared, vars
  <2>2. Held' = Held
    BY <2>1 DEF Held
  <2> QED
    BY <2>1, <2>2, IdleGlue
<1> QED
  BY <1>1, <1>2, <1>3, <1>4

LEMMA NextCustody ==
    ASSUME Steady, CInv, [Next]_vars PROVE CInv'
<1>1. IInv'
  BY NextInv DEF CInv
<1>2. ASSUME NEW f \in Frames, Step(f) PROVE CInv'
  BY <1>1, <1>2, StepCustody
<1>3. ASSUME \/ \E b \in Inbound, p \in Peers \cup {None} : HandleReceived(b, p)
             \/ \E b \in Outbound : HandleMessage(b)
      PROVE  CInv'
  BY <1>1, <1>3, ReceptionCustody
<1>4. ASSUME \/ \E p \in Peers : HandlePeerAppeared(p)
             \/ \E p \in CronJobs : CheckPending(p)
      PROVE  CInv'
  <2>1. PICK p \in Procs : todo' = [todo EXCEPT ![p] = PendingIds]
    BY <1>4 DEF HandlePeerAppeared, CheckPending, Procs
  <2>2. UNCHANGED <<store, fr, idk, receptions, expired, reached>>
    BY <1>4 DEF HandlePeerAppeared, CheckPending, shared, world
  <2> QED
    BY <1>1, <2>1, <2>2, PendingCustody
<1>5. ASSUME NEW p \in Procs, NextPending(p) PROVE CInv'
  BY <1>1, <1>5, NextPendingCustody
<1>6. ~Crash
  BY CoreAssumption DEF Crash, Steady, NodeIsSteady, CInv, IInv, Rest
<1> QED
  BY <1>1, <1>2, <1>3, <1>4, <1>5, <1>6, SurroundingsCustody DEF Next

LEMMA InitCustody == ASSUME Init PROVE CInv
<1>1. IInv
  BY InitInv
<1>2. \A f \in Frames : fr[f] = IdleFrame
  BY DEF Init
<1>3. \A i \in Ids : store[i] = None
  BY DEF Init
<1>4. \A b \in Own : InitialId(b) \in Ids /\ b \in Bundles /\ Attr[b].tpl \in Tuples
  BY OwnTypes, AttrType
<1>5. FramesOK
  BY <1>2, IdleOK DEF FramesOK, Held
<1>6. ItemsOK
  BY <1>3 DEF ItemsOK
<1>7. None \notin Own /\ None \notin Ids
  BY OwnTypes, DescriptorAssumption
<1>8. <<"agent", 1>> \in Frames
  BY DEF Frames, Procs
<1>9. FreshInv
  BY <1>2, <1>3, <1>4, <1>7, <1>8, IdleFields DEF Init, FreshInv, Unknown, AgentFrame
<1>10. LocalInv
  <2>1. ASSUME NEW b \in Held
        PROVE  /\ \A p \in Procs : InitialId(b) \notin todo[p]
               /\ \A f \in Frames : fr[f].id # InitialId(b)
               /\ store[InitialId(b)] = None
    BY <1>2, <1>3, <1>4, <1>7, IdleFields DEF Held, Init
  <2> QED
    BY <2>1 DEF LocalInv
<1>11. HeldInv
  BY <1>4 DEF HeldInv, Init, Held
<1> QED
  BY <1>1, <1>5, <1>6, <1>9, <1>10, <1>11 DEF CInv

LEMMA CustodyFollows ==
    ASSUME Steady, CInv PROVE Custody
<1>1. ASSUME NEW b \in InCustody
      PROVE  \/ \E i \in Ids : store[i] # None /\ store[i].bndl = b
             \/ \E f \in Frames : fr[f].bid = b
  <2>1. b \in Held /\ receptions[b] > 0 /\ b \in Own
    BY <1>1, CustodyIsHeld DEF CInv, Held
  <2>2. CASE store[InitialId(b)] # None
    <3>1. InitialId(b) \in Ids /\ Fits(InitialId(b), store[InitialId(b)].bndl)
      BY <2>1, <2>2, OwnTypes DEF CInv, ItemsOK, FitsItem
    <3> QED
      BY <2>1, <2>2, <3>1, FitsOwn
  <2>3. CASE fr[Owner(b)].bid = b
    BY <2>3, OwnerType
  <2> QED
    BY <2>1, <2>2, <2>3 DEF CInv, HeldInv
<1> QED
  BY <1>1 DEF Custody

(***************************************************************************)
(* The invariant on who holds a bundle is inductive: every step of Core's  *)
(* handler, of the agent manager and of the cron goroutines keeps it, if   *)
(* names are unique and the process does not die.                          *)
(***************************************************************************)
THEOREM CustodyInductive == ASSUME Steady PROVE Spec => []CInv
<1>1. Init => CInv
  BY InitCustody
<1>2. CInv /\ [Next]_vars => CInv'
  BY NextCustody
<1> QED
  BY <1>1, <1>2, PTL DEF Spec

(***************************************************************************)
(* Whatever the handler, the agent manager and any number of cron          *)
(* goroutines do to each other's items, a bundle that arrived is stored or *)
(* held by a goroutine until it reached its destination, if names are      *)
(* unique and the process does not die.                                    *)
(***************************************************************************)
THEOREM CustodyKept == ASSUME Steady PROVE Spec => []Custody
<1>1. CInv => Custody
  BY CustodyFollows
<1> QED
  BY <1>1, CustodyInductive, PTL

=============================================================================
