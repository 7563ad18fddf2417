----------------------------- MODULE CoreProofs -----------------------------
(***************************************************************************)
(* Type correctness of Core, and the proof that a bundle in or after       *)
(* forwarding stays visible for CheckPendingBundles, for any number of     *)
(* bundles, neighbours, cron goroutines and crashes.                       *)
(***************************************************************************)
EXTENDS Core, TLAPS

\* Items whose Pending index agrees with their constraints.
GoodItems == {x \in Items : x.cons \cap {FP, CI} # {} => x.pending}
Found == GoodItems \cup {None}

\* Where a Sync may return to: the next step queries the store again.
SyncReturns == {"idle", "resync", "receive", "received", "notify",
                "transmitted", "check", "inspect", "deliver", "handover"}

\* Labels at which the descriptor may not hold its bundle yet.
Unloaded == {"idle", "dispatch", "senders", "markPending", "load"}

\* Labels at which the goroutine holds an item it is about to write back.
Holding == {"senders", "markPending", "notifyDst", "notifySent", "routed"}

(***************************************************************************)
(* What a frame holds at its label.  The items that it read earlier are    *)
(* good ones: a stale write cannot break the store.                        *)
(***************************************************************************)
GoodFrame(r) ==
    /\ r \in FrameRec
    /\ r.bi \in Found
    /\ r.rbi \in [Peers -> Found]
    /\ r.pc # "idle" => r.id \in Ids
    /\ r.pc \notin Unloaded => r.bid \in Bundles
    /\ r.pc \in Holding => r.bi \in GoodItems
    /\ r.pc = "sync" => r.after \in SyncReturns
    /\ \A p \in Peers : r.snd[p] = "failed" => r.rbi[p] \in GoodItems

Rest ==
    /\ todo \in [Procs -> SUBSET Ids]
    /\ idk \in [Tuples -> (0 .. MaxSeq) \cup {None}]
    /\ peers \in SUBSET Peers
    /\ news \in SUBSET Peers
    /\ agents \in SUBSET AgentEids
    /\ expired \in SUBSET Mortal
    /\ crashes \in 0 .. MaxCrashes
    /\ receptions \in [Bundles -> 0 .. MaxReceptions]
    /\ got \in [Bundles -> SUBSET Peers]
    /\ reached \in SUBSET Bundles

StoreInv == store \in [Ids -> Found]
FrameInv == fr \in [Frames -> FrameRec] /\ \A f \in Frames : GoodFrame(fr[f])

IInv == StoreInv /\ FrameInv /\ Rest

-----------------------------------------------------------------------------
\* Facts about items and single store operations.

LEMMA ItemType == \A x \in Found : x # None => x \in GoodItems /\ x \in Items
BY DEF Found, GoodItems

LEMMA NewItemGood ==
    ASSUME NEW b \in Bundles PROVE NewItem(b) \in GoodItems
BY DEF NewItem, GoodItems, Items

LEMMA NoneIsNoItem == None \notin GoodItems
BY DescriptorAssumption DEF GoodItems

(***************************************************************************)
(* BundleDescriptor.Sync pairs the constraints it writes with Pending.     *)
(***************************************************************************)
LEMMA WithConstraintsGood ==
    ASSUME NEW x \in GoodItems, NEW c \in SUBSET Constraint
    PROVE  WithConstraints(x, c) \in GoodItems
<1>1. x \in Items
  BY DEF GoodItems
<1>2. WithConstraints(x, c) \in Items
  BY <1>1 DEF WithConstraints, Items
<1>3. /\ WithConstraints(x, c).cons = c
      /\ WithConstraints(x, c).pending = (c \cap {FP, CI} # {})
  BY <1>1 DEF WithConstraints, Items
<1> QED
  BY <1>2, <1>3 DEF GoodItems

LEMMA UpdatedFound ==
    ASSUME NEW old \in Found, NEW x \in GoodItems
    PROVE  Updated(old, x) \in Found
BY DEF Updated, Found

(***************************************************************************)
(* Whatever was read and whatever the key holds by now, Sync leaves a good *)
(* item or none.                                                           *)
(***************************************************************************)
LEMMA SyncedFound ==
    ASSUME NEW read \in Found, NEW old \in Found, NEW b \in Bundles,
           NEW c \in SUBSET Constraint
    PROVE  Synced(read, old, b, c) \in Found
<1>1. CASE read = None
  BY <1>1, NewItemGood DEF Synced, Pushed, Found
<1>2. CASE read # None
  <2>1. read \in GoodItems
    BY <1>2 DEF Found
  <2>2. WithConstraints(read, c) \in GoodItems
    BY <2>1, WithConstraintsGood
  <2> QED
    BY <1>2, <2>2, UpdatedFound DEF Synced, Found
<1> QED
  BY <1>1, <1>2

\* A write-back that changes neither constraints nor Pending to FALSE.
LEMMA SentUpdateGood ==
    ASSUME NEW x \in GoodItems, NEW s \in SUBSET Peers
    PROVE  [x EXCEPT !.sent = s] \in GoodItems
BY DEF GoodItems, Items

LEMMA DstUpdateGood ==
    ASSUME NEW x \in GoodItems, NEW d \in Endpoints
    PROVE  [x EXCEPT !.dst = d] \in GoodItems
BY DEF GoodItems, Items

LEMMA PendingUpdateGood ==
    ASSUME NEW x \in GoodItems
    PROVE  [x EXCEPT !.pending = TRUE] \in GoodItems
BY DEF GoodItems, Items

LEMMA PutStore ==
    ASSUME StoreInv, got \in [Bundles -> SUBSET Peers],
           NEW i \in Ids, NEW x \in Found, Put(i, x)
    PROVE  StoreInv' /\ got' \in [Bundles -> SUBSET Peers]
BY DEF Put, StoreInv

LEMMA AttrType ==
    ASSUME NEW b \in Bundles
    PROVE  /\ Attr[b].tpl \in Tuples
           /\ Attr[b].seq \in 0 .. MaxSeq
           /\ Attr[b].dst \in Endpoints
           /\ Attr[b].reports \subseteq Bundles
           /\ InitialId(b) \in Ids
BY DescriptorAssumption DEF BundleAttr, InitialId, Ids

-----------------------------------------------------------------------------
\* Facts about frames.

LEMMA FrameUpdate ==
    ASSUME FrameInv, NEW f \in Frames, NEW r, GoodFrame(r), Goto(f, r)
    PROVE  FrameInv'
BY DEF FrameInv, GoodFrame, Goto

LEMMA IdleFrameGood == GoodFrame(IdleFrame)
BY DEF GoodFrame, IdleFrame, FrameRec, Labels, SendStates, Found, Unloaded,
       Holding

LEMMA NewDescriptorGood ==
    ASSUME StoreInv, NEW b \in Bundles
    PROVE  GoodFrame(NewDescriptor(b))
<1>1. InitialId(b) \in Ids
  BY AttrType
<1>2. StoredConstraints(store[InitialId(b)]) \in SUBSET Constraint
  BY <1>1, ItemType DEF StoreInv, StoredConstraints, Items
<1> QED
  BY <1>1, <1>2 DEF NewDescriptor, GoodFrame, IdleFrame, FrameRec, Labels,
     SendStates, Found, Unloaded, Holding

LEMMA FrameFacts ==
    ASSUME FrameInv, NEW f \in Frames
    PROVE  /\ fr[f] \in FrameRec
           /\ GoodFrame(fr[f])
BY DEF FrameInv

\* The frame that a Sync call leaves.
LEMMA SyncStep ==
    ASSUME StoreInv, FrameInv, NEW f \in Frames,
           NEW c \in SUBSET Constraint, NEW after \in SyncReturns,
           fr[f].id \in Ids, fr[f].bid \in Bundles, Sync(f, c, after)
    PROVE  FrameInv'
<1> DEFINE r == [fr[f] EXCEPT !.pc = "sync", !.after = after, !.cons = c,
                              !.bi = store[fr[f].id]]
<1>1. fr[f] \in FrameRec /\ GoodFrame(fr[f])
  BY FrameFacts
<1>2. store[fr[f].id] \in Found
  BY DEF StoreInv
<1>3. after \in Labels
  BY DEF SyncReturns, Labels
<1>4. Found \subseteq Items \cup {None}
  BY DEF Found, GoodItems
<1>5. GoodFrame(r)
  <2>1. r \in FrameRec
    BY <1>1, <1>2, <1>3, <1>4 DEF FrameRec, Labels
  <2>2. /\ r.pc = "sync" /\ r.after = after /\ r.bi = store[fr[f].id]
        /\ r.id = fr[f].id /\ r.bid = fr[f].bid
        /\ r.snd = fr[f].snd /\ r.rbi = fr[f].rbi
    BY <1>1 DEF FrameRec
  <2> HIDE DEF r
  <2> QED
    BY <1>1, <1>2, <2>1, <2>2 DEF GoodFrame, Holding
<1>6. Goto(f, r)
  BY DEF Sync
<1> QED
  BY <1>5, <1>6, FrameUpdate

\* Labels a frame with a loaded bundle may jump to without an item in hand.
Plainly == Labels \ (Holding \cup {"sync"})

LEMMA JumpGood ==
    ASSUME FrameInv, NEW f \in Frames, NEW l \in Plainly,
           fr[f].id \in Ids, fr[f].bid \in Bundles
    PROVE  GoodFrame([fr[f] EXCEPT !.pc = l])
<1>1. fr[f] \in FrameRec /\ GoodFrame(fr[f])
  BY FrameFacts
<1> QED
  BY <1>1 DEF GoodFrame, FrameRec, Plainly, Unloaded, Holding

LEMMA JumpStep ==
    ASSUME FrameInv, NEW f \in Frames, NEW l \in Plainly,
           fr[f].id \in Ids, fr[f].bid \in Bundles, Jump(f, l)
    PROVE  FrameInv'
BY JumpGood, FrameUpdate DEF Jump

LEMMA ReportStep ==
    ASSUME StoreInv, FrameInv, NEW f \in Frames, NEW l \in Plainly, NEW w,
           fr[f].id \in Ids, fr[f].bid \in Bundles, ReportThen(f, w, l)
    PROVE  FrameInv'
<1>1. CASE Jump(f, l)
  BY <1>1, JumpStep
<1>2. ASSUME NEW s \in Attr[fr[f].bid].reports,
             fr' = [fr EXCEPT ![f] = [fr[f] EXCEPT !.pc = l],
                              ![<<f[1], 2>>] = NewDescriptor(s)]
      PROVE  FrameInv'
  <2>1. s \in Bundles
    BY <1>2, AttrType
  <2>2. GoodFrame(NewDescriptor(s))
    BY <2>1, NewDescriptorGood
  <2>3. GoodFrame([fr[f] EXCEPT !.pc = l])
    BY JumpGood
  <2>4. <<f[1], 2>> \in Frames
    BY DEF Frames
  <2>5. /\ NewDescriptor(s) \in FrameRec
        /\ [fr[f] EXCEPT !.pc = l] \in FrameRec
    BY <2>2, <2>3 DEF GoodFrame
  <2> HIDE DEF GoodFrame
  <2>6. fr' \in [Frames -> FrameRec]
    BY <1>2, <2>4, <2>5 DEF FrameInv
  <2>7. ASSUME NEW g \in Frames PROVE GoodFrame(fr'[g])
    <3>1. CASE g = <<f[1], 2>>
      BY <1>2, <2>2, <2>4, <3>1 DEF FrameInv
    <3>2. CASE g # <<f[1], 2>> /\ g = f
      BY <1>2, <2>3, <3>2 DEF FrameInv
    <3>3. CASE g # <<f[1], 2>> /\ g # f
      BY <1>2, <3>3 DEF FrameInv
    <3> QED
      BY <3>1, <3>2, <3>3
  <2> QED
    BY <2>6, <2>7 DEF FrameInv, GoodFrame
<1> QED
  BY <1>1, <1>2 DEF ReportThen

LEMMA AtFacts ==
    ASSUME FrameInv, NEW f \in Frames, NEW l, At(f, l), l # "idle"
    PROVE  /\ fr[f] \in FrameRec
           /\ fr[f].pc = l
           /\ fr[f].id \in Ids
           /\ l \notin Unloaded => fr[f].bid \in Bundles
           /\ l \in Holding => fr[f].bi \in GoodItems
           /\ fr[f].cons \in SUBSET Constraint
<1>1. fr[f] \in FrameRec /\ GoodFrame(fr[f]) /\ fr[f].pc = l
  BY FrameFacts DEF At
<1>2. fr[f].cons \in SUBSET Constraint
  BY <1>1 DEF FrameRec
<1> QED
  BY <1>1, <1>2 DEF GoodFrame

Calm == UNCHANGED <<shared, todo, idk, world, reached>>

LEMMA CalmStep ==
    ASSUME StoreInv, Rest, Calm PROVE StoreInv' /\ Rest'
BY DEF Calm, StoreInv, Rest, shared, world

\* Steps that write the store and leave the rest alone.
LEMMA WriteStep ==
    ASSUME StoreInv, Rest, UNCHANGED <<todo, idk, world, reached>>,
           StoreInv', got' \in [Bundles -> SUBSET Peers]
    PROVE  Rest'
BY DEF Rest, world

-----------------------------------------------------------------------------
\* Every step of a goroutine preserves the invariant.

LEMMA SyncWriteInv ==
    ASSUME IInv, NEW f \in Frames, SyncWrite(f) PROVE IInv'
<1> USE DEF IInv
<1> DEFINE r == fr[f]
           x == Synced(r.bi, store[r.id], r.bid, r.cons)
<1>1. r \in FrameRec /\ GoodFrame(r) /\ r.pc = "sync"
  BY FrameFacts DEF SyncWrite, At
<1>2. r.id \in Ids /\ r.bid \in Bundles /\ r.bi \in Found
      /\ r.after \in SyncReturns /\ r.cons \in SUBSET Constraint
  BY <1>1 DEF GoodFrame, FrameRec, Unloaded
<1>3. x \in Found
  BY <1>2, SyncedFound DEF StoreInv
<1>4. Put(r.id, x)
  BY DEF SyncWrite
<1>5. StoreInv' /\ got' \in [Bundles -> SUBSET Peers]
  BY <1>2, <1>3, <1>4, PutStore DEF Rest
<1>6. Rest'
  BY <1>5, WriteStep DEF SyncWrite
<1>7. FrameInv'
  <2>1. CASE Goto(f, IdleFrame)
    BY <2>1, IdleFrameGood, FrameUpdate
  <2>2. ASSUME NEW l \in (SyncReturns \ {"idle"}) \cup {"delivered"},
               Goto(f, [r EXCEPT !.pc = l, !.after = "idle", !.bi = None])
        PROVE  FrameInv'
    <3> DEFINE q == [r EXCEPT !.pc = l, !.after = "idle", !.bi = None]
    <3>1. l \in Labels /\ l \notin Holding /\ l # "sync" /\ l # "idle"
      BY <2>2 DEF SyncReturns, Labels, Holding
    <3>2. q \in FrameRec
      BY <1>1, <3>1 DEF FrameRec, Labels
    <3>3. /\ q.pc = l /\ q.bi = None /\ q.id = r.id /\ q.bid = r.bid
          /\ q.snd = r.snd /\ q.rbi = r.rbi
      BY <1>1 DEF FrameRec
    <3> HIDE DEF q, r
    <3>4. GoodFrame(q)
      BY <1>1, <1>2, <3>1, <3>2, <3>3 DEF GoodFrame, Found
    <3> QED
      BY <2>2, <3>4, FrameUpdate DEF q
  <2> QED
    BY <1>2, <2>1, <2>2 DEF SyncWrite
<1> QED
  BY <1>5, <1>6, <1>7

\* Steps that only call Sync.
LEMMA SyncCallInv ==
    ASSUME IInv, NEW f \in Frames,
           \/ NewFromBundle(f) \/ Resync(f) \/ TransmitSync(f) \/ Forward(f)
           \/ LocalSync(f) \/ Purge(f) \/ Forwarded(f)
    PROVE  IInv'
<1> USE DEF IInv
<1>1. Calm
  BY DEF Calm, NewFromBundle, Resync, TransmitSync, Forward, LocalSync, Purge,
     Forwarded
<1>2. StoreInv' /\ Rest'
  BY <1>1, CalmStep
<1>3. /\ fr[f].id \in Ids
      /\ fr[f].bid \in Bundles
      /\ fr[f].cons \in SUBSET Constraint
  BY AtFacts DEF NewFromBundle, Resync, TransmitSync, Forward, LocalSync,
     Purge, Forwarded, Unloaded
<1>4. \E c \in SUBSET Constraint, a \in SyncReturns : Sync(f, c, a)
  BY <1>3 DEF NewFromBundle, Resync, TransmitSync, Forward, LocalSync, Purge,
     Forwarded, Purged, SyncReturns, Constraint
<1>5. FrameInv'
  BY <1>3, <1>4, SyncStep
<1> QED
  BY <1>2, <1>5

\* Steps that end in a call of Sync or SendStatusReport, a jump or a return.
LEMMA ControlInv ==
    ASSUME IInv, NEW f \in Frames,
           \/ Receive(f) \/ Received(f) \/ CheckBlocks(f) \/ Transmitted(f)
           \/ Delivered(f) \/ BundleDeletion(f) \/ Deliver(f) \/ SendingDone(f)
    PROVE  IInv'
<1> USE DEF IInv
<1>1. Calm
  BY DEF Calm, Receive, Received, CheckBlocks, Transmitted, Delivered,
     BundleDeletion, Deliver, SendingDone
<1>2. StoreInv' /\ Rest'
  BY <1>1, CalmStep
<1>3. /\ fr[f].id \in Ids
      /\ fr[f].bid \in Bundles
      /\ fr[f].cons \in SUBSET Constraint
  BY AtFacts DEF Receive, Received, CheckBlocks, Transmitted, Delivered,
     BundleDeletion, Deliver, SendingDone, Unloaded
<1>4. {"blocks", "delete", "notify", "dispatch", "purge", "forwarded",
       "delivered"} \subseteq Plainly
  BY DEF Plainly, Labels, Holding
<1>5. {"idle", "received", "handover"} \subseteq SyncReturns
  BY DEF SyncReturns
<1>6. /\ {DP} \in SUBSET Constraint
      /\ fr[f].cons \ {LE} \in SUBSET Constraint
      /\ fr[f].cons \cup {CI} \in SUBSET Constraint
  BY <1>3 DEF Constraint
<1>7. CASE Receive(f)
  <2>1. Goto(f, IdleFrame) \/ Sync(f, {DP}, "received")
    BY <1>7 DEF Receive
  <2>2. FrameInv'
    BY <1>3, <1>5, <1>6, <2>1, IdleFrameGood, FrameUpdate, SyncStep
  <2> QED
    BY <1>2, <2>2
<1>8. CASE Received(f)
  BY <1>2, <1>3, <1>4, <1>8, ReportStep DEF Received
<1>9. CASE CheckBlocks(f)
  <2>1. \E w : \/ ReportThen(f, w, "delete")
               \/ ReportThen(f, w, "notify")
    BY <1>9 DEF CheckBlocks
  <2>2. FrameInv'
    BY <1>3, <1>4, <2>1, ReportStep
  <2> QED
    BY <1>2, <2>2
<1>10. CASE Transmitted(f)
  <2>1. Jump(f, "delete") \/ Jump(f, "dispatch")
    BY <1>10 DEF Transmitted
  <2>2. FrameInv'
    BY <1>3, <1>4, <2>1, JumpStep
  <2> QED
    BY <1>2, <2>2
<1>11. CASE Delivered(f)
  BY <1>2, <1>3, <1>4, <1>11, ReportStep DEF Delivered
<1>12. CASE BundleDeletion(f)
  BY <1>2, <1>3, <1>4, <1>12, ReportStep DEF BundleDeletion
<1>13. CASE Deliver(f)
  <2>1. Jump(f, "delivered") \/ Sync(f, fr[f].cons \ {LE}, "handover")
    BY <1>13 DEF Deliver
  <2>2. FrameInv'
    BY <1>3, <1>4, <1>5, <1>6, <2>1, JumpStep, SyncStep
  <2> QED
    BY <1>2, <2>2
<1>14. CASE SendingDone(f)
  <2>1. \/ \E w : ReportThen(f, w, "forwarded")
        \/ Sync(f, fr[f].cons \cup {CI}, "idle")
    BY <1>14 DEF SendingDone
  <2>2. FrameInv'
    BY <1>3, <1>4, <1>5, <1>6, <2>1, ReportStep, SyncStep
  <2> QED
    BY <1>2, <2>2
<1> QED
  BY <1>7, <1>8, <1>9, <1>10, <1>11, <1>12, <1>13, <1>14

LEMMA AfterNotifyGood ==
    ASSUME FrameInv, NEW f \in Frames,
           fr[f].id \in Ids, fr[f].bid \in Bundles
    PROVE  GoodFrame(AfterNotify(fr[f]))
<1> DEFINE r == fr[f]
           q == AfterNotify(r)
<1>1. r \in FrameRec /\ GoodFrame(r)
  BY FrameFacts
<1>2. q \in FrameRec
  BY <1>1 DEF FrameRec, AfterNotify, Labels
<1>3. /\ q.pc \in {"dispatch", "transmit"} /\ q.bi = None
      /\ q.id = r.id /\ q.bid = r.bid /\ q.snd = r.snd /\ q.rbi = r.rbi
  BY <1>1 DEF FrameRec, AfterNotify
<1> HIDE DEF q, r
<1>4. r.id \in Ids /\ r.bid \in Bundles
  BY DEF r
<1>5. GoodFrame(q)
  BY <1>1, <1>2, <1>3, <1>4 DEF GoodFrame, Holding, Found
<1> QED
  BY <1>5 DEF q, r

\* A frame that takes item x in hand and moves to a label that needs one.
LEMMA HoldGood ==
    ASSUME FrameInv, NEW f \in Frames, NEW l \in Holding, NEW x \in GoodItems,
           fr[f].id \in Ids,
           l \notin Unloaded => fr[f].bid \in Bundles
    PROVE  GoodFrame([fr[f] EXCEPT !.pc = l, !.bi = x])
<1> DEFINE r == fr[f]
           q == [r EXCEPT !.pc = l, !.bi = x]
<1>1. r \in FrameRec /\ GoodFrame(r)
  BY FrameFacts
<1>2. l \in Labels /\ l # "sync" /\ l # "idle" /\ x \in Items
  BY DEF Holding, Labels, GoodItems
<1>3. q \in FrameRec
  BY <1>1, <1>2 DEF FrameRec
<1>4. /\ q.pc = l /\ q.bi = x
      /\ q.id = r.id /\ q.bid = r.bid /\ q.snd = r.snd /\ q.rbi = r.rbi
  BY <1>1 DEF FrameRec
<1> HIDE DEF q, r
<1>5. r.id \in Ids /\ (l \notin Unloaded => r.bid \in Bundles)
  BY DEF r
<1>6. GoodFrame(q)
  BY <1>1, <1>2, <1>3, <1>4, <1>5 DEF GoodFrame, Found
<1> QED
  BY <1>6 DEF q, r

LEMMA NotifyInv ==
    ASSUME IInv, NEW f \in Frames,
           NotifyQuery(f) \/ NotifyDestination(f) \/ NotifySent(f)
    PROVE  IInv'
<1> USE DEF IInv
<1> DEFINE r == fr[f]
<1>0. r.id \in Ids /\ r.bid \in Bundles
  BY AtFacts DEF NotifyQuery, NotifyDestination, NotifySent, Unloaded
<1>1. CASE NotifyQuery(f)
  <2>1. StoreInv' /\ Rest'
    BY <1>1, CalmStep DEF Calm, NotifyQuery
  <2>2. CASE store[r.id] = None
    <3>1. Goto(f, AfterNotify(r))
      BY <1>1, <2>2 DEF NotifyQuery
    <3> QED
      BY <1>0, <2>1, <3>1, AfterNotifyGood, FrameUpdate
  <2>3. CASE store[r.id] # None
    <3>1. store[r.id] \in GoodItems
      BY <1>0, <2>3 DEF StoreInv, Found
    <3>2. PICK l \in {"notifyDst", "notifySent"} :
             Goto(f, [r EXCEPT !.bi = store[r.id], !.pc = l])
      BY <1>1, <2>3 DEF NotifyQuery
    <3>3. [r EXCEPT !.bi = store[r.id], !.pc = l]
            = [r EXCEPT !.pc = l, !.bi = store[r.id]]
      BY FrameFacts DEF FrameRec
    <3>4. l \in Holding
      BY <3>2 DEF Holding
    <3> QED
      BY <1>0, <2>1, <3>1, <3>2, <3>3, <3>4, HoldGood, FrameUpdate
  <2> QED
    BY <2>1, <2>2, <2>3
<1>2. CASE NotifyDestination(f)
  <2> DEFINE x == [r.bi EXCEPT !.dst = Attr[r.bid].dst]
  <2>1. r.bi \in GoodItems
    BY <1>2, AtFacts DEF NotifyDestination, Holding
  <2>2. x \in GoodItems
    BY <1>0, <2>1, DstUpdateGood, AttrType
  <2> HIDE DEF x
  <2>3. Updated(store[r.id], x) \in Found
    BY <1>0, <2>2, UpdatedFound DEF StoreInv
  <2>4. Put(r.id, Updated(store[r.id], x))
    BY <1>2 DEF NotifyDestination, x
  <2>5. StoreInv' /\ got' \in [Bundles -> SUBSET Peers]
    BY <1>0, <2>3, <2>4, PutStore DEF Rest
  <2>6. Rest'
    BY <1>2, <2>5, WriteStep DEF NotifyDestination
  <2>7. Goto(f, [r EXCEPT !.bi = x, !.pc = "notifySent"])
    BY <1>2 DEF NotifyDestination, x
  <2>8. [r EXCEPT !.bi = x, !.pc = "notifySent"]
          = [r EXCEPT !.pc = "notifySent", !.bi = x]
    BY FrameFacts DEF FrameRec
  <2>9. GoodFrame([r EXCEPT !.pc = "notifySent", !.bi = x])
    BY <1>0, <2>2, HoldGood DEF Holding
  <2> QED
    BY <2>5, <2>6, <2>7, <2>8, <2>9, FrameUpdate
<1>3. CASE NotifySent(f)
  <2>1. r.bi \in GoodItems /\ r.prev \in Peers \cup {None}
    BY <1>3, AtFacts DEF NotifySent, Holding, FrameRec
  <2>2. StoreInv' /\ got' \in [Bundles -> SUBSET Peers]
    <3>1. CASE UNCHANGED shared
      BY <3>1 DEF shared, StoreInv, Rest
    <3>2. CASE r.prev # None /\ ~UNCHANGED shared
      <4> DEFINE x == [r.bi EXCEPT !.sent = r.bi.sent \cup {r.prev}]
      <4>1. r.bi.sent \cup {r.prev} \in SUBSET Peers
        BY <2>1, <3>2 DEF GoodItems, Items
      <4>2. x \in GoodItems
        BY <2>1, <4>1, SentUpdateGood
      <4> HIDE DEF x
      <4>3. Updated(store[r.id], x) \in Found
        BY <1>0, <4>2, UpdatedFound DEF StoreInv
      <4>4. Put(r.id, Updated(store[r.id], x))
        BY <1>3, <3>2 DEF NotifySent, x
      <4> QED
        BY <1>0, <4>3, <4>4, PutStore DEF Rest
    <3> QED
      BY <1>3, <3>1, <3>2 DEF NotifySent
  <2>3. Rest'
    BY <1>3, <2>2, WriteStep DEF NotifySent
  <2>4. FrameInv'
    BY <1>0, <1>3, AfterNotifyGood, FrameUpdate DEF NotifySent
  <2> QED
    BY <2>2, <2>3, <2>4
<1> QED
  BY <1>1, <1>2, <1>3

\* Steps that give the descriptor its final ID or decide on dispatching.
LEMMA TransmitInv ==
    ASSUME IInv, NEW f \in Frames, Transmit(f) PROVE IInv'
<1> USE DEF IInv
<1> DEFINE r == fr[f]
           t == Attr[r.bid].tpl
           n == NextSeq(t)
           q == [r EXCEPT !.id = <<t, n>>, !.pc = "transmitSync"]
<1>1. r \in FrameRec /\ GoodFrame(r) /\ r.bid \in Bundles
  BY AtFacts, FrameFacts DEF Transmit, Unloaded
<1>2. t \in Tuples
  BY <1>1, AttrType
<1>3. n \in 0 .. MaxSeq
  BY <1>2, DescriptorAssumption DEF Transmit, NextSeq, Rest
<1>4. <<t, n>> \in Ids
  BY <1>2, <1>3 DEF Ids
<1>5. idk' = [idk EXCEPT ![t] = n] /\ Goto(f, q)
  BY DEF Transmit
<1>6. StoreInv' /\ Rest'
  <2> HIDE DEF n, t
  <2> QED
    BY <1>2, <1>3, <1>5 DEF Transmit, StoreInv, Rest, shared, world
<1> HIDE DEF n, t
<1>7. q \in FrameRec
  BY <1>1, <1>4 DEF FrameRec, Labels
<1>8. /\ q.pc = "transmitSync" /\ q.id = <<t, n>> /\ q.bid = r.bid
      /\ q.bi = r.bi /\ q.snd = r.snd /\ q.rbi = r.rbi
  BY <1>1 DEF FrameRec
<1> HIDE DEF q, r
<1>9. GoodFrame(q)
  BY <1>1, <1>4, <1>7, <1>8 DEF GoodFrame, Holding
<1> QED
  BY <1>5, <1>6, <1>9, FrameUpdate

\* A frame that lets go of the item it read.
LEMMA ReleaseGood ==
    ASSUME FrameInv, NEW f \in Frames, NEW l \in Plainly,
           fr[f].id \in Ids,
           l \notin Unloaded => fr[f].bid \in Bundles
    PROVE  GoodFrame([fr[f] EXCEPT !.pc = l, !.bi = None])
<1> DEFINE r == fr[f]
           q == [r EXCEPT !.pc = l, !.bi = None]
<1>1. r \in FrameRec /\ GoodFrame(r)
  BY FrameFacts
<1>2. l \in Labels /\ l # "sync" /\ l \notin Holding
  BY DEF Plainly
<1>3. q \in FrameRec
  BY <1>1, <1>2 DEF FrameRec
<1>4. /\ q.pc = l /\ q.bi = None
      /\ q.id = r.id /\ q.bid = r.bid /\ q.snd = r.snd /\ q.rbi = r.rbi
  BY <1>1 DEF FrameRec
<1> HIDE DEF q, r
<1>5. r.id \in Ids /\ (l \notin Unloaded => r.bid \in Bundles)
  BY DEF r
<1>6. GoodFrame(q)
  BY <1>1, <1>2, <1>3, <1>4, <1>5 DEF GoodFrame, Found
<1> QED
  BY <1>6 DEF q, r

\* A frame that changes its label only and keeps what the label needs.
LEMMA RelabelGood ==
    ASSUME FrameInv, NEW f \in Frames, NEW l \in Labels, l # "sync",
           fr[f].id \in Ids,
           l \in Holding => fr[f].bi \in GoodItems,
           l \notin Unloaded => fr[f].bid \in Bundles
    PROVE  GoodFrame([fr[f] EXCEPT !.pc = l])
<1> DEFINE r == fr[f]
           q == [r EXCEPT !.pc = l]
<1>1. r \in FrameRec /\ GoodFrame(r)
  BY FrameFacts
<1>2. q \in FrameRec
  BY <1>1 DEF FrameRec
<1>3. /\ q.pc = l /\ q.bi = r.bi
      /\ q.id = r.id /\ q.bid = r.bid /\ q.snd = r.snd /\ q.rbi = r.rbi
  BY <1>1 DEF FrameRec
<1> HIDE DEF q, r
<1>4. /\ r.id \in Ids
      /\ l \in Holding => r.bi \in GoodItems
      /\ l \notin Unloaded => r.bid \in Bundles
  BY DEF r
<1>5. GoodFrame(q)
  BY <1>1, <1>2, <1>3, <1>4 DEF GoodFrame
<1> QED
  BY <1>5 DEF q, r

LEMMA DispatchInv ==
    ASSUME IInv, NEW f \in Frames, Dispatch(f) \/ AllowedSenders(f)
    PROVE  IInv'
<1> USE DEF IInv
<1> DEFINE r == fr[f]
           bi == store[r.id]
<1>1. StoreInv' /\ Rest'
  BY CalmStep DEF Calm, Dispatch, AllowedSenders
<1>2. r.id \in Ids
  BY AtFacts DEF Dispatch, AllowedSenders
<1>3. bi # None => bi \in GoodItems
  BY <1>2 DEF StoreInv, Found
<1>4. CASE Dispatch(f)
  <2>1. \/ Goto(f, [r EXCEPT !.pc = "load"])
        \/ bi # None /\ Goto(f, [r EXCEPT !.pc = "senders", !.bi = bi])
    BY <1>4 DEF Dispatch
  <2>2. CASE Goto(f, [r EXCEPT !.pc = "load"])
    <3>1. GoodFrame([r EXCEPT !.pc = "load"])
      BY <1>2, RelabelGood DEF Labels, Holding, Unloaded
    <3> QED
      BY <1>1, <2>2, <3>1, FrameUpdate
  <2>3. CASE bi # None /\ Goto(f, [r EXCEPT !.pc = "senders", !.bi = bi])
    <3>1. GoodFrame([r EXCEPT !.pc = "senders", !.bi = bi])
      BY <1>2, <1>3, <2>3, HoldGood DEF Holding, Unloaded
    <3> QED
      BY <1>1, <2>3, <3>1, FrameUpdate
  <2> QED
    BY <2>1, <2>2, <2>3
<1>5. CASE AllowedSenders(f)
  <2>1. \/ Goto(f, [r EXCEPT !.pc = "markPending"])
        \/ Goto(f, [r EXCEPT !.pc = "load", !.bi = None])
    BY <1>5 DEF AllowedSenders, Jump
  <2>2. r.bi \in GoodItems
    BY <1>5, AtFacts DEF AllowedSenders, Holding
  <2>3. GoodFrame([r EXCEPT !.pc = "markPending"])
    BY <1>2, <2>2, RelabelGood DEF Labels, Holding, Unloaded
  <2>4. GoodFrame([r EXCEPT !.pc = "load", !.bi = None])
    BY <1>2, ReleaseGood DEF Plainly, Labels, Holding, Unloaded
  <2> QED
    BY <1>1, <2>1, <2>3, <2>4, FrameUpdate
<1> QED
  BY <1>4, <1>5

LEMMA MarkPendingInv ==
    ASSUME IInv, NEW f \in Frames, MarkPending(f) PROVE IInv'
<1> USE DEF IInv
<1> DEFINE r == fr[f]
           x == [r.bi EXCEPT !.pending = TRUE]
<1>1. r.id \in Ids /\ r.bi \in GoodItems
  BY AtFacts DEF MarkPending, Holding
<1>2. x \in GoodItems
  BY <1>1, PendingUpdateGood
<1> HIDE DEF x
<1>3. Updated(store[r.id], x) \in Found
  BY <1>1, <1>2, UpdatedFound DEF StoreInv
<1>4. Put(r.id, Updated(store[r.id], x)) /\ Goto(f, IdleFrame)
  BY DEF MarkPending, x
<1>5. StoreInv' /\ got' \in [Bundles -> SUBSET Peers]
  BY <1>1, <1>3, <1>4, PutStore DEF Rest
<1>6. Rest'
  BY <1>5, WriteStep DEF MarkPending
<1> QED
  BY <1>4, <1>5, <1>6, IdleFrameGood, FrameUpdate

LEMMA LoadInv ==
    ASSUME IInv, NEW f \in Frames, Load(f) PROVE IInv'
<1> USE DEF IInv
<1> DEFINE r == fr[f]
           b == IF r.bid # None THEN r.bid
                ELSE IF store[r.id] = None THEN None ELSE store[r.id].bndl
<1>1. StoreInv' /\ Rest'
  BY CalmStep DEF Calm, Load
<1>2. r \in FrameRec /\ GoodFrame(r) /\ r.id \in Ids
  BY AtFacts, FrameFacts DEF Load
<1>3. b \in Bundles \cup {None}
  <2>1. store[r.id] # None => store[r.id] \in Items
    BY <1>2, ItemType DEF StoreInv
  <2>2. r.bid \in Bundles \cup {None}
    BY <1>2 DEF FrameRec
  <2> QED
    BY <2>1, <2>2 DEF Items
<1>4. \/ Goto(f, IdleFrame)
      \/ b # None /\ \E l \in {"local", "forward"} :
            Goto(f, [r EXCEPT !.bid = b, !.pc = l])
  BY DEF Load
<1> HIDE DEF b
<1>5. ASSUME NEW l \in {"local", "forward"}, b # None
      PROVE  GoodFrame([r EXCEPT !.bid = b, !.pc = l])
  <2> DEFINE q == [r EXCEPT !.bid = b, !.pc = l]
  <2>1. q \in FrameRec
    BY <1>2, <1>3, <1>5 DEF FrameRec, Labels
  <2>2. /\ q.pc = l /\ q.bid = b
        /\ q.id = r.id /\ q.bi = r.bi /\ q.snd = r.snd /\ q.rbi = r.rbi
    BY <1>2 DEF FrameRec
  <2>3. b \in Bundles
    BY <1>3, <1>5
  <2> HIDE DEF q, r
  <2>4. GoodFrame(q)
    BY <1>2, <1>5, <2>1, <2>2, <2>3 DEF GoodFrame, Holding
  <2> QED
    BY <2>4 DEF q
<1>6. FrameInv'
  BY <1>4, <1>5, IdleFrameGood, FrameUpdate
<1> QED
  BY <1>1, <1>6

\* Nothing has failed yet when the sending goroutines are started.
LEMMA StartSendingGood ==
    ASSUME NEW r \in FrameRec, GoodFrame(r), r.id \in Ids, r.bid \in Bundles,
           NEW nodes, NEW del \in BOOLEAN
    PROVE  /\ StartSending(r, nodes, del) \in FrameRec
           /\ GoodFrame(StartSending(r, nodes, del))
<1> DEFINE q == StartSending(r, nodes, del)
<1>1. q \in FrameRec
  BY DEF StartSending, FrameRec, Labels, SendStates
<1>2. /\ q.pc = "sending" /\ q.bi = None
      /\ q.id = r.id /\ q.bid = r.bid /\ q.rbi = r.rbi
  BY DEF StartSending, FrameRec
<1>3. \A p \in Peers : q.snd[p] # "failed"
  BY DEF StartSending, FrameRec
<1> HIDE DEF q
<1>4. GoodFrame(q)
  BY <1>1, <1>2, <1>3 DEF GoodFrame, Found, Holding
<1> QED
  BY <1>1, <1>4 DEF q

LEMMA CheckBundleInv ==
    ASSUME IInv, NEW f \in Frames, CheckBundle(f) PROVE IInv'
<1> USE DEF IInv
<1> DEFINE r == fr[f]
<1>1. StoreInv' /\ Rest'
  BY CalmStep DEF Calm, CheckBundle
<1>2. r \in FrameRec /\ GoodFrame(r) /\ r.id \in Ids /\ r.bid \in Bundles
  BY AtFacts, FrameFacts DEF CheckBundle, Unloaded
<1>3. \/ \E l \in {"delete", "route"} : Goto(f, [r EXCEPT !.pc = l])
      \/ \E nodes : Goto(f, StartSending(r, nodes, TRUE))
  BY DEF CheckBundle
<1>4. \A l \in {"delete", "route"} : GoodFrame([r EXCEPT !.pc = l])
  BY <1>2, JumpGood DEF Plainly, Labels, Holding
<1>5. \A nodes : GoodFrame(StartSending(r, nodes, TRUE))
  BY <1>2, StartSendingGood
<1>6. FrameInv'
  BY <1>3, <1>4, <1>5, FrameUpdate
<1> QED
  BY <1>1, <1>6

LEMMA ClasForBundleInv ==
    ASSUME IInv, NEW f \in Frames, ClasForBundle(f) PROVE IInv'
<1> USE DEF IInv
<1> DEFINE r == fr[f]
           bi == store[r.id]
           s == StartSending(r, FilterCLAs(bi, peers), FALSE)
           x == [bi EXCEPT !.sent = bi.sent \cup peers]
           q == [s EXCEPT !.pc = "routed", !.bi = x]
<1>1. StoreInv' /\ Rest'
  BY CalmStep DEF Calm, ClasForBundle
<1>2. r \in FrameRec /\ GoodFrame(r) /\ r.id \in Ids /\ r.bid \in Bundles
  BY AtFacts, FrameFacts DEF ClasForBundle, Unloaded
<1>3. \/ Goto(f, StartSending(r, {}, FALSE))
      \/ bi # None /\ Goto(f, q)
  BY DEF ClasForBundle
<1>4. GoodFrame(StartSending(r, {}, FALSE))
  BY <1>2, StartSendingGood
<1>5. ASSUME bi # None PROVE GoodFrame(q)
  <2>1. bi \in GoodItems
    BY <1>2, <1>5 DEF StoreInv, Found
  <2>2. bi.sent \cup peers \in SUBSET Peers
    BY <2>1 DEF GoodItems, Items, Rest
  <2>3. x \in GoodItems
    BY <2>1, <2>2, SentUpdateGood
  <2>4. s \in FrameRec /\ GoodFrame(s)
    BY <1>2, StartSendingGood
  <2>5. s.id = r.id /\ s.bid = r.bid
    BY <1>2 DEF StartSending, FrameRec
  <2>6. x \in Items
    BY <2>3 DEF GoodItems
  <2> HIDE DEF s, x, r
  <2>7. q \in FrameRec
    BY <2>4, <2>6 DEF FrameRec, Labels
  <2>8. /\ q.pc = "routed" /\ q.bi = x
        /\ q.id = s.id /\ q.bid = s.bid /\ q.snd = s.snd /\ q.rbi = s.rbi
    BY <2>4 DEF FrameRec
  <2> HIDE DEF q
  <2> QED
    BY <1>2, <2>3, <2>4, <2>5, <2>7, <2>8 DEF GoodFrame, Found
<1> HIDE DEF q
<1>6. FrameInv'
  BY <1>3, <1>4, <1>5, FrameUpdate
<1> QED
  BY <1>1, <1>6

LEMMA UpdateSentInv ==
    ASSUME IInv, NEW f \in Frames, UpdateSent(f) PROVE IInv'
<1> USE DEF IInv
<1> DEFINE r == fr[f]
<1>1. r.id \in Ids /\ r.bi \in GoodItems /\ r.bid \in Bundles
  BY AtFacts DEF UpdateSent, Holding, Unloaded
<1>2. Updated(store[r.id], r.bi) \in Found
  BY <1>1, UpdatedFound DEF StoreInv
<1>3. Put(r.id, Updated(store[r.id], r.bi))
      /\ Goto(f, [r EXCEPT !.pc = "sending", !.bi = None])
  BY DEF UpdateSent
<1>4. StoreInv' /\ got' \in [Bundles -> SUBSET Peers]
  BY <1>1, <1>2, <1>3, PutStore DEF Rest
<1>5. Rest'
  BY <1>4, WriteStep DEF UpdateSent
<1>6. GoodFrame([r EXCEPT !.pc = "sending", !.bi = None])
  BY <1>1, ReleaseGood DEF Plainly, Labels, Holding
<1> QED
  BY <1>3, <1>4, <1>5, <1>6, FrameUpdate

(***************************************************************************)
(* A sending goroutine changes its own state and what it read; an item it  *)
(* holds after a failure is a good one.                                    *)
(***************************************************************************)
LEMMA SenderGood ==
    ASSUME FrameInv, NEW f \in Frames, NEW p \in Peers, NEW s \in SendStates,
           NEW x \in Found, s = "failed" => x \in GoodItems
    PROVE  GoodFrame([fr[f] EXCEPT !.snd[p] = s, !.rbi[p] = x])
<1> DEFINE r == fr[f]
           q == [r EXCEPT !.snd[p] = s, !.rbi[p] = x]
<1>1. r \in FrameRec /\ GoodFrame(r)
  BY FrameFacts
<1>2. x \in Items \cup {None}
  BY DEF Found, GoodItems
<1>3. /\ r.snd \in [Peers -> SendStates]
      /\ r.rbi \in [Peers -> Items \cup {None}]
      /\ r.rbi \in [Peers -> Found]
  BY <1>1 DEF FrameRec, GoodFrame
<1>4. q \in FrameRec
  BY <1>1, <1>2, <1>3 DEF FrameRec
<1>5. /\ q.pc = r.pc /\ q.bi = r.bi /\ q.id = r.id /\ q.bid = r.bid
      /\ q.after = r.after
      /\ q.snd = [r.snd EXCEPT ![p] = s]
      /\ q.rbi = [r.rbi EXCEPT ![p] = x]
  BY <1>1 DEF FrameRec
<1> HIDE DEF q, r
<1>6. q.rbi \in [Peers -> Found]
  BY <1>3, <1>5
<1>7. \A w \in Peers : q.snd[w] = "failed" => q.rbi[w] \in GoodItems
  BY <1>1, <1>3, <1>5 DEF GoodFrame
<1>8. GoodFrame(q)
  BY <1>1, <1>4, <1>5, <1>6, <1>7 DEF GoodFrame
<1> QED
  BY <1>8 DEF q, r

LEMMA SendSucceedsInv ==
    ASSUME IInv, NEW f \in Frames, NEW p \in Peers, SendSucceeds(f, p)
    PROVE  IInv'
<1> USE DEF IInv
<1> DEFINE r == fr[f]
           q == [r EXCEPT !.snd[p] = "sent"]
<1>1. r \in FrameRec /\ GoodFrame(r) /\ r.id \in Ids /\ r.bid \in Bundles
      /\ r.pc = "sending"
  BY AtFacts, FrameFacts DEF SendSucceeds, Unloaded
<1>2. StoreInv'
  BY DEF SendSucceeds, StoreInv
<1>3. got' \in [Bundles -> SUBSET Peers] /\ reached' \in SUBSET Bundles
  BY <1>1 DEF SendSucceeds, Rest
<1>4. Rest'
  BY <1>3 DEF SendSucceeds, Rest, world
<1>5. r.snd \in [Peers -> SendStates]
  BY <1>1 DEF FrameRec
<1>6. q \in FrameRec
  BY <1>1, <1>5 DEF FrameRec, SendStates
<1>7. /\ q.pc = "sending" /\ q.bi = r.bi /\ q.id = r.id /\ q.bid = r.bid
      /\ q.snd = [r.snd EXCEPT ![p] = "sent"] /\ q.rbi = r.rbi
  BY <1>1 DEF FrameRec
<1>8. Goto(f, q)
  BY DEF SendSucceeds
<1> HIDE DEF q, r
<1>9. \A w \in Peers : q.snd[w] = "failed" => q.rbi[w] \in GoodItems
  BY <1>1, <1>5, <1>7 DEF GoodFrame
<1>10. GoodFrame(q)
  BY <1>1, <1>6, <1>7, <1>9 DEF GoodFrame, Holding
<1> QED
  BY <1>2, <1>4, <1>8, <1>10, FrameUpdate

LEMMA SendFailsInv ==
    ASSUME IInv, NEW f \in Frames, NEW p \in Peers, SendFails(f, p)
    PROVE  IInv'
<1> USE DEF IInv
<1> DEFINE r == fr[f]
           bi == store[r.id]
           s == IF bi = None THEN "done" ELSE "failed"
<1>1. StoreInv' /\ Rest'
  BY CalmStep DEF Calm, SendFails
<1>2. r.id \in Ids
  BY AtFacts DEF SendFails
<1>3. bi \in Found
  BY <1>2 DEF StoreInv
<1>4. s \in SendStates /\ (s = "failed" => bi \in GoodItems)
  BY <1>3 DEF SendStates, Found
<1>5. Goto(f, [r EXCEPT !.snd[p] = s, !.rbi[p] = bi])
  BY DEF SendFails
<1> HIDE DEF s, bi
<1>6. GoodFrame([r EXCEPT !.snd[p] = s, !.rbi[p] = bi])
  BY <1>3, <1>4, SenderGood
<1> QED
  BY <1>1, <1>5, <1>6, FrameUpdate

LEMMA ReportFailureInv ==
    ASSUME IInv, NEW f \in Frames, NEW p \in Peers, ReportFailure(f, p)
    PROVE  IInv'
<1> USE DEF IInv
<1> DEFINE r == fr[f]
           x == [r.rbi[p] EXCEPT !.sent = r.rbi[p].sent \ {p}]
<1>1. r.id \in Ids /\ GoodFrame(r)
  BY AtFacts, FrameFacts DEF ReportFailure
<1>2. r.rbi[p] \in GoodItems
  BY <1>1 DEF ReportFailure, GoodFrame
<1>3. r.rbi[p].sent \ {p} \in SUBSET Peers
  BY <1>2 DEF GoodItems, Items
<1>4. x \in GoodItems
  BY <1>2, <1>3, SentUpdateGood
<1>5. Put(r.id, Updated(store[r.id], x))
      /\ Goto(f, [r EXCEPT !.snd[p] = "done", !.rbi[p] = None])
  BY DEF ReportFailure
<1> HIDE DEF x
<1>6. Updated(store[r.id], x) \in Found
  BY <1>1, <1>4, UpdatedFound DEF StoreInv
<1>7. StoreInv' /\ got' \in [Bundles -> SUBSET Peers]
  BY <1>1, <1>5, <1>6, PutStore DEF Rest
<1>8. Rest'
  BY <1>7, WriteStep DEF ReportFailure
<1>9. GoodFrame([r EXCEPT !.snd[p] = "done", !.rbi[p] = None])
  BY SenderGood DEF SendStates, Found
<1> QED
  BY <1>5, <1>7, <1>8, <1>9, FrameUpdate

LEMMA InspectFacts ==
    ASSUME StoreInv, Rest, NEW b \in Bundles, InspectStatusReport(b)
    PROVE  /\ StoreInv'
           /\ got' \in [Bundles -> SUBSET Peers]
           /\ reached' \in SUBSET Bundles
<1> DEFINE known == {i \in Attr[b].refs :
                        Attr[b].wellFormed /\ store[i] # None}
<1>1. StoreInv'
  BY DEF InspectStatusReport, StoreInv, Found
<1>2. got' \in [Bundles -> SUBSET Peers]
  BY DEF InspectStatusReport, Rest
<1>3. known \subseteq Ids
  BY DescriptorAssumption DEF BundleAttr
<1>4. \A i \in known : store[i] \in Items
  BY <1>3, ItemType DEF StoreInv
<1>5. {store[i].bndl : i \in known} \subseteq Bundles
  BY <1>4 DEF Items
<1>6. reached' = reached \cup {store[i].bndl : i \in known}
  BY DEF InspectStatusReport
<1> QED
  BY <1>1, <1>2, <1>5, <1>6 DEF Rest

LEMMA DeliveryInv ==
    ASSUME IInv, NEW f \in Frames,
           Inspect(f) \/ LocalDelivery(f) \/ HandOver(f)
    PROVE  IInv'
<1> USE DEF IInv
<1> DEFINE r == fr[f]
<1>1. r.id \in Ids /\ r.bid \in Bundles
  BY AtFacts DEF Inspect, LocalDelivery, HandOver, Unloaded
<1>2. CASE Inspect(f)
  <2>1. StoreInv' /\ got' \in [Bundles -> SUBSET Peers] /\ reached' \in SUBSET Bundles
    BY <1>1, <1>2, InspectFacts DEF Inspect
  <2>2. Rest'
    BY <1>2, <2>1 DEF Inspect, Rest, world
  <2>3. FrameInv'
    BY <1>2, IdleFrameGood, FrameUpdate DEF Inspect
  <2> QED
    BY <2>1, <2>2, <2>3
<1>3. CASE LocalDelivery(f)
  <2>1. StoreInv' /\ got' \in [Bundles -> SUBSET Peers] /\ reached' \in SUBSET Bundles
    <3>1. CASE InspectStatusReport(r.bid)
      BY <1>1, <3>1, InspectFacts
    <3>2. CASE UNCHANGED <<shared, reached>>
      BY <3>2 DEF StoreInv, Rest, shared
    <3> QED
      BY <1>3, <3>1, <3>2 DEF LocalDelivery
  <2>2. Rest'
    BY <1>3, <2>1 DEF LocalDelivery, Rest, world
  <2>3. Jump(f, "localSync") \/ Jump(f, "delete")
    BY <1>3 DEF LocalDelivery
  <2>4. {"localSync", "delete"} \subseteq Plainly
    BY DEF Plainly, Labels, Holding
  <2>5. FrameInv'
    BY <1>1, <2>3, <2>4, JumpStep
  <2> QED
    BY <2>1, <2>2, <2>5
<1>4. CASE HandOver(f)
  <2>1. StoreInv' /\ Rest'
    BY <1>1, <1>4 DEF HandOver, StoreInv, Rest, shared, world
  <2>2. "delivered" \in Plainly
    BY DEF Plainly, Labels, Holding
  <2>3. FrameInv'
    BY <1>1, <1>4, <2>2, JumpStep DEF HandOver
  <2> QED
    BY <2>1, <2>3
<1> QED
  BY <1>2, <1>3, <1>4

LEMMA StepInv ==
    ASSUME IInv, NEW f \in Frames, Step(f) PROVE IInv'
BY SyncWriteInv, SyncCallInv, ControlInv, NotifyInv, TransmitInv, DispatchInv,
   MarkPendingInv, LoadInv, CheckBundleInv, ClasForBundleInv, UpdateSentInv,
   SendSucceedsInv, SendFailsInv, ReportFailureInv, DeliveryInv
   DEF Step

-----------------------------------------------------------------------------
\* The messages and jobs that start work, and the node's surroundings.

LEMMA ArrivalInv ==
    ASSUME IInv, NEW b \in Bundles, NEW p \in Peers \cup {None},
           HandleReceived(b, p) \/ HandleMessage(b)
    PROVE  IInv'
<1> USE DEF IInv
<1>1. StoreInv' /\ Rest'
  BY CoreAssumption
     DEF HandleReceived, HandleMessage, StoreInv, Rest, shared
<1>2. GoodFrame(NewDescriptor(b))
  BY NewDescriptorGood
<1>3. CASE HandleReceived(b, p)
  <2> DEFINE r == NewDescriptor(b)
             q == [r EXCEPT !.recv = TRUE, !.prev = p]
  <2>1. r \in FrameRec /\ r.pc = "new"
    BY <1>2 DEF GoodFrame, NewDescriptor, IdleFrame
  <2>2. <<"handler", 1>> \in Frames /\ Goto(<<"handler", 1>>, q)
    BY <1>3 DEF HandleReceived, Frames, Procs
  <2> HIDE DEF r
  <2>3. q \in FrameRec
    BY <2>1 DEF FrameRec
  <2>4. /\ q.pc = r.pc /\ q.bi = r.bi /\ q.id = r.id /\ q.bid = r.bid
        /\ q.after = r.after /\ q.snd = r.snd /\ q.rbi = r.rbi
    BY <2>1 DEF FrameRec
  <2>5. GoodFrame(r)
    BY <1>2 DEF r
  <2> HIDE DEF q
  <2>6. GoodFrame(q)
    BY <2>3, <2>4, <2>5 DEF GoodFrame
  <2> QED
    BY <1>1, <2>2, <2>6, FrameUpdate
<1>4. CASE HandleMessage(b)
  <2>1. <<"agent", 1>> \in Frames /\ Goto(<<"agent", 1>>, NewDescriptor(b))
    BY <1>4 DEF HandleMessage, Frames, Procs
  <2> QED
    BY <1>1, <1>2, <2>1, FrameUpdate
<1> QED
  BY <1>3, <1>4

LEMMA PendingIdsType == PendingIds \in SUBSET Ids
BY DEF PendingIds

LEMMA CheckPendingInv ==
    ASSUME IInv,
           \/ \E p \in Peers : HandlePeerAppeared(p)
           \/ \E p \in CronJobs : CheckPending(p)
    PROVE  IInv'
<1> USE DEF IInv
<1>1. UNCHANGED fr /\ StoreInv'
  BY DEF HandlePeerAppeared, CheckPending, StoreInv, shared
<1>2. FrameInv'
  BY <1>1 DEF FrameInv, GoodFrame
<1>3. Rest'
  BY PendingIdsType
     DEF HandlePeerAppeared, CheckPending, Rest, shared, world, Procs
<1> QED
  BY <1>1, <1>2, <1>3

LEMMA NextPendingInv ==
    ASSUME IInv, NEW p \in Procs, NextPending(p) PROVE IInv'
<1> USE DEF IInv
<1>1. PICK i \in todo[p] :
        /\ todo' = [todo EXCEPT ![p] = @ \ {i}]
        /\ Goto(<<p, 1>>,
                [IdleFrame EXCEPT !.pc = "dispatch", !.id = i,
                                  !.cons = StoredConstraints(store[i])])
  BY DEF NextPending
<1>2. i \in Ids
  BY <1>1 DEF Rest
<1>3. StoreInv' /\ Rest'
  BY <1>1 DEF NextPending, StoreInv, Rest, shared, world
<1> DEFINE c == StoredConstraints(store[i])
           q == [IdleFrame EXCEPT !.pc = "dispatch", !.id = i, !.cons = c]
<1>4. c \in SUBSET Constraint
  BY <1>2, ItemType DEF StoreInv, StoredConstraints, Items
<1> HIDE DEF c
<1>5. GoodFrame(q)
  BY <1>2, <1>4 DEF GoodFrame, IdleFrame, FrameRec, Labels, SendStates,
     Found, Unloaded, Holding
<1>6. <<p, 1>> \in Frames /\ Goto(<<p, 1>>, q)
  BY <1>1 DEF Frames, c
<1> HIDE DEF q
<1> QED
  BY <1>3, <1>5, <1>6, FrameUpdate

LEMMA SurroundingsInv ==
    ASSUME IInv,
           \/ \E i \in Ids : DeleteExpired(i)
           \/ \E t \in OldTuples : CleanIds(t)
           \/ \E b \in Mortal : Expire(b)
           \/ \E p \in Peers : PeerAppears(p)
           \/ \E p \in Leaving : PeerDisappears(p)
           \/ \E e \in AgentEids : RegisterAgent(e)
    PROVE  IInv'
<1> USE DEF IInv
<1>1. UNCHANGED fr
  BY DEF DeleteExpired, CleanIds, Expire, PeerAppears, PeerDisappears,
     RegisterAgent
<1>2. FrameInv'
  BY <1>1 DEF FrameInv, GoodFrame
<1>3. CASE \E i \in Ids : DeleteExpired(i)
  <2>1. PICK i \in Ids : DeleteExpired(i)
    BY <1>3
  <2>2. StoreInv' /\ got' \in [Bundles -> SUBSET Peers]
    BY <2>1, PutStore DEF DeleteExpired, Rest, Found
  <2>3. Rest'
    BY <2>1, <2>2, WriteStep DEF DeleteExpired
  <2> QED
    BY <1>2, <2>2, <2>3
<1>4. CASE \E t \in OldTuples : CleanIds(t)
  BY <1>2, <1>4, CoreAssumption DEF CleanIds, StoreInv, Rest, shared, world
<1>5. CASE \E b \in Mortal : Expire(b)
  BY <1>2, <1>5 DEF Expire, StoreInv, Rest, shared
<1>6. CASE \E p \in Peers : PeerAppears(p)
  BY <1>2, <1>6 DEF PeerAppears, StoreInv, Rest, shared
<1>7. CASE \E p \in Leaving : PeerDisappears(p)
  BY <1>2, <1>7 DEF PeerDisappears, StoreInv, Rest, shared
<1>8. CASE \E e \in AgentEids : RegisterAgent(e)
  BY <1>2, <1>8 DEF RegisterAgent, StoreInv, Rest, shared
<1> QED
  BY <1>3, <1>4, <1>5, <1>6, <1>7, <1>8

LEMMA CrashInv ==
    ASSUME IInv, Crash PROVE IInv'
<1> USE DEF IInv
<1>1. StoreInv'
  BY DEF Crash, StoreInv, shared
<1>2. FrameInv'
  <2>1. IdleFrame \in FrameRec
    BY IdleFrameGood DEF GoodFrame
  <2>2. fr' \in [Frames -> FrameRec] /\ \A f \in Frames : fr'[f] = IdleFrame
    BY <2>1 DEF Crash
  <2>3. \A f \in Frames : GoodFrame(fr'[f])
    BY <2>2, IdleFrameGood
  <2> QED
    BY <2>2, <2>3 DEF FrameInv, GoodFrame
<1>3. Rest'
  BY CoreAssumption DEF Crash, Rest, shared
<1> QED
  BY <1>1, <1>2, <1>3

-----------------------------------------------------------------------------
LEMMA InitInv == Init => IInv
<1> SUFFICES ASSUME Init PROVE IInv
  OBVIOUS
<1>1. StoreInv
  BY DEF Init, StoreInv, Found
<1>2. FrameInv
  BY IdleFrameGood DEF Init, FrameInv, GoodFrame
<1>3. Rest
  BY CoreAssumption DEF Init, Rest
<1> QED
  BY <1>1, <1>2, <1>3 DEF IInv

LEMMA StutterInv == IInv /\ UNCHANGED vars => IInv'
BY DEF IInv, StoreInv, FrameInv, GoodFrame, Rest, vars

LEMMA NextInv == IInv /\ [Next]_vars => IInv'
<1> SUFFICES ASSUME IInv, [Next]_vars PROVE IInv'
  OBVIOUS
<1>1. CASE UNCHANGED vars
  BY <1>1, StutterInv
<1>2. CASE \E f \in Frames : Step(f)
  BY <1>2, StepInv
<1>3. CASE \E b \in Inbound, p \in Peers \cup {None} : HandleReceived(b, p)
  BY <1>3, ArrivalInv, CoreAssumption
<1>4. CASE \E b \in Outbound : HandleMessage(b)
  BY <1>4, ArrivalInv, CoreAssumption
<1>5. CASE \/ \E p \in Peers : HandlePeerAppeared(p)
           \/ \E p \in CronJobs : CheckPending(p)
  BY <1>5, CheckPendingInv
<1>6. CASE \E p \in Procs : NextPending(p)
  BY <1>6, NextPendingInv
<1>7. CASE \/ \E i \in Ids : DeleteExpired(i)
           \/ \E t \in OldTuples : CleanIds(t)
           \/ \E b \in Mortal : Expire(b)
           \/ \E p \in Peers : PeerAppears(p)
           \/ \E p \in Leaving : PeerDisappears(p)
           \/ \E e \in AgentEids : RegisterAgent(e)
  BY <1>7, SurroundingsInv
<1>8. CASE Crash
  BY <1>8, CrashInv
<1> QED
  BY <1>1, <1>2, <1>3, <1>4, <1>5, <1>6, <1>7, <1>8 DEF Next

THEOREM Inductive == Spec => []IInv
BY InitInv, NextInv, PTL DEF Spec

(***************************************************************************)
(* Core keeps the types of the database, of every goroutine's local        *)
(* variables and of the IdKeeper's map, whatever the goroutines do.        *)
(***************************************************************************)
THEOREM TypeCorrect == Spec => []TypeOK
<1>1. IInv => TypeOK
  BY DEF IInv, StoreInv, FrameInv, Rest, TypeOK, Found, GoodItems
<1> QED
  BY <1>1, Inductive, PTL

(***************************************************************************)
(* A bundle that went through Core.forward and is still stored has the     *)
(* Pending index set: no lost update, stale write-back of the routing      *)
(* algorithm, concurrent Sync or crash takes it out of the reach of        *)
(* CheckPendingBundles.                                                    *)
(***************************************************************************)
THEOREM ForwardedRetried == Spec => []ForwardedIsRetried
<1>1. IInv => ForwardedIsRetried
  BY DEF IInv, StoreInv, ForwardedIsRetried, Found, GoodItems
<1> QED
  BY <1>1, Inductive, PTL

=============================================================================
