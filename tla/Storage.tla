------------------------------- MODULE Storage -------------------------------
(***************************************************************************)
(* One bundle from its builder into the Store of a node (pkg/storage).     *)
(* The source builds it, may edit its blocks and may fragment it for links *)
(* of several MTUs; the parts reach the node in any order and repeatedly.  *)
(* Different IDs use different keys of the database and different files,   *)
(* so that one ID is enough.                                               *)
(*                                                                         *)
(* The goroutines share database and files without a lock: "handler" is    *)
(* Core.handler, "pending" is a CheckPendingBundles job, "cron" is         *)
(* DeleteExpired.  A step is one access to the database or to one file.    *)
(***************************************************************************)
EXTENDS Fragmentation

CONSTANTS
    Setups,     \* bundle: what is sent, or None to have it built; mtus: the
                \* MTUs of the links it took; does: each goroutine's calls
    None,
    MaxBlocks   \* bound: blocks of a bundle that is built here

Threads == {"handler", "pending", "cron"}
Calls == {"push", "update", "delete"}

VARIABLES
    setup,
    bldr,     \* the source's BundleBuilder
    origin,   \* the bundle that was built, or None
    sent,     \* the bundles that reach the node: origin or its fragments
    item,     \* the database: the BundleItem of this ID, or None
    files,    \* the directory of bundles: file name -> content
    thr,      \* the goroutines' local variables
    late,     \* the bundle's lifetime has passed
    cut       \* a crash interrupted a Delete of the item that is stored

vars == <<setup, bldr, origin, sent, item, files, thr, late, cut>>
source == <<bldr, origin, sent>>
stored == <<sent, item, files, thr, late, cut>>
world == <<setup, source, late>>

-----------------------------------------------------------------------------
\* newBundleItem: the key drops the fragment's fields, the file name keeps
\* them.
Whole == <<0, 0>>
Name(b) == IF IsFragment(b) THEN <<b.primary.off, b.primary.total>> ELSE Whole
ItemRec == [fragmented : BOOLEAN, parts : Seq(Nat \X Nat), pending : BOOLEAN]
newBundleItem(b) == [fragmented |-> IsFragment(b), parts |-> <<Name(b)>>, pending |-> FALSE]

\* calcExpirationDate does not look at the age block: a bundle without a
\* creation time has been expired since the year 2000.
Expired == origin.primary.time = "zero" \/ late \/ origin.primary.life = 0

\* What the source sends: the bundle, or the fragments for each MTU
Sent(o, mtus) == IF mtus = {} THEN {o} ELSE UNION {Range(Fragment(o, m).bs) : m \in mtus}

(***************************************************************************)
(* A bundle that is built here is not stored.  One that is sent is valid.  *)
(***************************************************************************)
ASSUME StorageAssumption ==
    /\ MaxBlocks \in Nat
    /\ None \notin ItemRec /\ None \notin Seq(Token)
    /\ \A s \in Setups :
          /\ IsFiniteSet(s.mtus) /\ s.mtus \subseteq Nat
          /\ s.does \in [Threads -> SUBSET Calls]
          /\ s.bundle = None => s.does = [t \in Threads |-> {}]
          /\ s.bundle # None =>
                /\ WellFormed(s.bundle) /\ CheckValid(s.bundle, FALSE)
                /\ ~IsFragment(s.bundle)

Idle == [pc |-> "idle", b |-> None, item |-> None, todo |-> <<>>]
Goto(t, frame) == thr' = [thr EXCEPT ![t] = frame]
Does(t, call) == call \in setup.does[t] /\ origin # None

Init ==
    /\ setup \in Setups
    /\ bldr = Builder
    /\ origin = setup.bundle
    /\ sent = IF origin = None THEN {} ELSE Sent(origin, setup.mtus)
    /\ item = None
    /\ files = [n \in {Name(b) : b \in sent} |-> None]
    /\ thr = [t \in Threads |-> Idle]
    /\ late = FALSE
    /\ cut = FALSE

-----------------------------------------------------------------------------
\* The source: calls of the BundleBuilder in any order, then Build.
BuilderCalls ==
    {Source(bldr, e) : e \in {"node", "none"}}
    \cup {Destination(bldr), Lifetime(bldr, 1), CreationTimestamp(bldr, "now"),
          Unparsable(bldr)}
    \cup {BundleCtrlFlags(bldr, f) : f \in {{}, {"mustNotFragment"}}}
    \cup (IF Len(bldr.blocks) < MaxBlocks
          THEN {MetadataBlock(bldr, t) : t \in Single}
               \cup {Canonical(bldr, "generic", f, <<>>) : f \in SUBSET {"report"}}
               \cup {Canonical(bldr, "payload", {}, <<1, 2, 3>>),
                     AdministrativeRecord(bldr, <<1, 2, 3>>)}
          ELSE {})

CallBuilder ==
    /\ setup.bundle = None /\ origin = None
    /\ bldr' \in BuilderCalls
    /\ UNCHANGED <<setup, origin, stored>>

Build ==
    /\ setup.bundle = None /\ origin = None
    /\ ~BuildFails(bldr)
    /\ origin' = Built(bldr)
    /\ UNCHANGED <<setup, bldr, stored>>

\* A node adds the blocks it needs and drops those it cannot process (Core's
\* receive and forward).
AddBlock(type) ==
    /\ setup.bundle = None /\ origin # None
    /\ Len(origin.blocks) < MaxBlocks + 1
    /\ type \in Single => ~HasExtensionBlock(origin, type)
    /\ origin' = [origin EXCEPT !.blocks =
                     AddExtensionBlock(@, NewCanonicalBlock(0, type, {}, <<>>))]
    /\ UNCHANGED <<setup, bldr, stored>>

RemoveBlock(num) ==
    /\ setup.bundle = None /\ origin # None
    /\ \E i \in ExtensionBlocks(origin, "generic") : origin.blocks[i].num = num
    /\ origin' = [origin EXCEPT !.blocks = RemoveExtensionBlockByBlockNumber(@, num)]
    /\ UNCHANGED <<setup, bldr, stored>>

-----------------------------------------------------------------------------
\* A fragment is added to whatever is stored
PushQueryAny(t, b) ==
    Goto(t, IF item = None \/ (IsFragment(b) /\ Name(b) \notin Range(item.parts))
            THEN [thr[t] EXCEPT !.pc = "write", !.b = b, !.item = item]
            ELSE Idle)

\* Store.Push: the query that decides what to do.
PushQuery(t, b) ==
    Goto(t, IF item = None \/ (IsFragment(b) /\ item.fragmented /\ Name(b) \notin Range(item.parts))
            THEN [thr[t] EXCEPT !.pc = "write", !.b = b, !.item = item]
            ELSE Idle)

\* A client of the Store's own interface pushes what arrives, with one
\* goroutine.  Two that push fragments of one ID at a time would read the
\* same item, and the second Update would drop the part of the first; the
\* daemon's Sync, below, pushes nothing for an ID that is known.
Push(b) ==
    /\ Does("handler", "push") /\ thr["handler"].pc = "idle"
    /\ setup.mtus # {} /\ b \in sent
    /\ PushQuery("handler", b)
    /\ UNCHANGED <<world, item, files, cut>>

\* BundleDescriptor.Sync looks for the ID first, and pushes, updates or
\* deletes according to what it found and what the descriptor still wants.
SyncKnows(t) ==
    /\ t # "cron" /\ thr[t].pc = "idle" /\ setup.mtus = {}
    /\ \/ item = None /\ Does(t, "push")
          /\ Goto(t, [thr[t] EXCEPT !.pc = "push", !.b = origin])
       \/ item # None /\ Does(t, "update") /\ Goto(t, [thr[t] EXCEPT !.pc = "query"])
       \/ item # None /\ Does(t, "delete") /\ Goto(t, [thr[t] EXCEPT !.pc = "delete"])
    /\ UNCHANGED <<world, item, files, cut>>

SyncPush(t) ==
    /\ thr[t].pc = "push"
    /\ PushQuery(t, thr[t].b)
    /\ UNCHANGED <<world, item, files, cut>>

\* Where a write is seen unfinished: at its start, behind the primary block
Cuts == {0, 2}

Content(n) == IF files[n] = None THEN <<>> ELSE files[n]

\* A file that exists is taken for the bundle
storeBundleOnce(t) ==
    /\ thr[t].pc \in {"write", "writing"}
    /\ LET new == WriteBundle(thr[t].b)
           n == Name(thr[t].b)
       IN  IF thr[t].pc = "write" /\ files[n] = None
           THEN /\ \E k \in Cuts : files' = [files EXCEPT ![n] = SubSeq(new, 1, k)]
                /\ Goto(t, [thr[t] EXCEPT !.pc = "writing"])
           ELSE /\ files' = [files EXCEPT ![n] = IF thr[t].pc = "write" THEN @ ELSE new]
                /\ Goto(t, [thr[t] EXCEPT !.pc = "commit"])
    /\ UNCHANGED <<world, item, cut>>

\* Without O_TRUNC the new bytes replace the old ones from the front.  The
\* file is seen with some of them written, and with all of them; the rest of
\* what the file held before stays behind them.
storeBundle(t) ==
    /\ thr[t].pc \in {"write", "writing"}
    /\ LET new == WriteBundle(thr[t].b)
           n == Name(thr[t].b)
           Over(k) == SubSeq(new, 1, k) \o SubSeq(Content(n), k + 1, Len(Content(n)))
       IN  IF thr[t].pc = "write"
           THEN /\ \E k \in Cuts : files' = [files EXCEPT ![n] = Over(k)]
                /\ Goto(t, [thr[t] EXCEPT !.pc = "writing"])
           ELSE /\ files' = [files EXCEPT ![n] = Over(Len(new))]
                /\ Goto(t, [thr[t] EXCEPT !.pc = "commit"])
    /\ UNCHANGED <<world, item, cut>>

\* bh.Insert of a key that exists and bh.Update of one that does not are
\* errors.
PushCommit(t) ==
    /\ thr[t].pc = "commit"
    /\ item' = IF thr[t].item = None
               THEN IF item = None THEN newBundleItem(thr[t].b) ELSE item
               ELSE IF item = None THEN None
                    ELSE [thr[t].item EXCEPT !.parts = Append(@, Name(thr[t].b))]
    /\ Goto(t, Idle)
    /\ UNCHANGED <<world, files, cut>>

\* Sync reads the item, sets its fields and writes it back.
SyncQuery(t) ==
    /\ thr[t].pc = "query"
    /\ Goto(t, IF item = None THEN Idle ELSE [thr[t] EXCEPT !.pc = "update", !.item = item])
    /\ UNCHANGED <<world, item, files, cut>>

Update(t, v) ==
    /\ thr[t].pc = "update"
    /\ item' = IF item = None THEN None ELSE [thr[t].item EXCEPT !.pending = v]
    /\ Goto(t, Idle)
    /\ UNCHANGED <<world, files, cut>>

\* DeleteExpired finds the items whose date has passed and deletes them.
DeleteExpired ==
    /\ Does("cron", "delete") /\ thr["cron"].pc = "idle"
    /\ item # None /\ Expired
    /\ Goto("cron", [thr["cron"] EXCEPT !.pc = "delete"])
    /\ UNCHANGED <<world, item, files, cut>>

\* Store.Delete: the item is read, its files are removed one by one, then
\* the item is deleted.
DeleteQuery(t) ==
    /\ thr[t].pc = "delete"
    /\ Goto(t, IF item = None THEN Idle ELSE [thr[t] EXCEPT !.pc = "remove", !.todo = item.parts])
    /\ UNCHANGED <<world, item, files, cut>>

deleteBundle(t) ==
    /\ thr[t].pc = "remove" /\ thr[t].todo # <<>>
    /\ files' = [files EXCEPT ![Head(thr[t].todo)] = None]
    /\ Goto(t, [thr[t] EXCEPT !.todo = Tail(@)])
    /\ UNCHANGED <<world, item, cut>>

DeleteCommit(t) ==
    /\ thr[t].pc = "remove" /\ thr[t].todo = <<>>
    /\ item' = None /\ cut' = FALSE
    /\ Goto(t, Idle)
    /\ UNCHANGED <<world, files>>

\* The bundle's lifetime ends.
Expire ==
    /\ origin # None /\ setup.bundle # None
    /\ ~late /\ late' = TRUE
    /\ UNCHANGED <<setup, source, item, files, thr, cut>>

\* The process dies; the database and the files stay (NewStore opens them).
Deleting(t) == thr[t].pc = "remove"
Crash ==
    /\ \E t \in Threads : thr[t].pc # "idle"
    /\ thr' = [t \in Threads |-> Idle]
    /\ cut' = (item # None /\ (cut \/ \E t \in Threads : Deleting(t)))
    /\ UNCHANGED <<world, item, files>>

Step(t) ==
    \/ SyncKnows(t) \/ SyncPush(t) \/ storeBundle(t) \/ PushCommit(t)
    \/ SyncQuery(t) \/ DeleteQuery(t) \/ deleteBundle(t) \/ DeleteCommit(t)
    \/ \E v \in BOOLEAN : Update(t, v)

Next ==
    \/ CallBuilder \/ Build
    \/ \E type \in BlockTypes \ {"payload"} : AddBlock(type)
    \/ \E num \in 1 .. MaxBlocks + 2 : RemoveBlock(num)
    \/ \E b \in sent : Push(b)
    \/ \E t \in Threads : Step(t)
    \/ DeleteExpired \/ Expire \/ Crash

Spec == Init /\ [][Next]_vars

-----------------------------------------------------------------------------
\* BundlePart.Load parses the file, which checks the bundle's validity.
LoadPart(n, exceeded) ==
    IF files[n] = None THEN [ok |-> FALSE] ELSE ParseBundle(files[n], exceeded)
Loads(n) == LoadPart(n, late).ok
bundleParts == [k \in DOMAIN item.parts |-> LoadPart(item.parts[k], late).bundle]

IsComplete ==
    \/ ~item.fragmented
    \/ /\ \A n \in Range(item.parts) : Loads(n)
       /\ IsBundleReassemblable(bundleParts)

\* BundleItem.Load reassembles whatever the item is.
Load ==
    IF \E n \in Range(item.parts) : ~Loads(n) THEN [res |-> "error"]
    ELSE ReassembleFragments(bundleParts, late)

-----------------------------------------------------------------------------
\* Labels and flags have their types, the builder's counter is the number of
\* its next block, and a stored item has a part.
TypeOK ==
    /\ bldr.counter = 2 + Cardinality({i \in DOMAIN bldr.blocks : bldr.blocks[i].type # "payload"})
    /\ item = None \/ item.parts # <<>>
    /\ late \in BOOLEAN /\ cut \in BOOLEAN
    /\ \A t \in Threads : thr[t].pc \in {"idle", "push", "write", "writing", "commit", "query",
                                         "update", "delete", "remove"}

(***************************************************************************)
(* A bundle that Build returned stays valid under every sequence of        *)
(* AddExtensionBlock and RemoveExtensionBlockByBlockNumber that a node     *)
(* performs: the block numbers stay unique, the payload stays last with    *)
(* number 1.                                                               *)
(***************************************************************************)
BuiltStaysValid == origin # None => CheckValid(origin, FALSE)

(***************************************************************************)
(* Fragment keeps its word: each fragment fits the MTU, and reassembling   *)
(* all fragments of one call gives back the payload and the blocks, though *)
(* possibly with other block numbers.                                      *)
(***************************************************************************)
Unnumbered(b) == [i \in DOMAIN b.blocks |-> [b.blocks[i] EXCEPT !.num = 0]]
SameBundle(x, y) == x.primary = y.primary /\ Unnumbered(x) = Unnumbered(y)
FragmentsAreFaithful ==
    origin # None /\ Range(files) \subseteq {None} =>
       \A mtu \in setup.mtus :
          LET f == Fragment(origin, mtu)
          IN  /\ \A k \in DOMAIN f.bs : Size(f.bs[k]) <= mtu
              /\ Len(f.bs) > 1 =>
                    LET r == ReassembleFragments(f.bs, FALSE)
                    IN  r.res = "ok" /\ SameBundle(r.bundle, origin)

(***************************************************************************)
(* What Load returns is the bundle that was sent, whichever fragments of   *)
(* whichever MTU arrived in which order, and whatever a crash left behind. *)
(***************************************************************************)
LoadedIsSent ==
    item # None /\ Load.res = "ok" => SameBundle(Load.bundle, origin)

(***************************************************************************)
(* With the fragments of one MTU, IsComplete tells exactly whether all of  *)
(* them are stored, whatever their order and however often they came.      *)
(***************************************************************************)
CompleteIffAllStored ==
    /\ Cardinality(setup.mtus) = 1 /\ setup.bundle # None
    /\ item # None /\ ~late /\ ~cut /\ \A t \in Threads : ~Deleting(t)
    => (IsComplete <=> Range(item.parts) = {Name(b) : b \in sent})

(***************************************************************************)
(* Every part of a stored item can be read back as a bundle that was sent, *)
(* except while the item is being deleted or where a crash interrupted     *)
(* that: no crash between file and database, no second copy and no         *)
(* concurrent fragment leaves an item that cannot be loaded.               *)
(***************************************************************************)
Readable(n) ==
    LET r == LoadPart(n, FALSE) IN r.ok /\ r.bundle \in sent /\ Name(r.bundle) = n
StoredIsReadable ==
    item # None /\ ~cut /\ (\A t \in Threads : ~Deleting(t)) =>
       \A n \in Range(item.parts) : Readable(n)

\* The abstract store: the item as the set of its parts.
Abstract == INSTANCE KeyedStore WITH
    Whole <- Whole,
    parts <- IF item = None THEN {} ELSE Range(item.parts),
    pending <- item # None /\ item.pending

(***************************************************************************)
(* The Store implements the abstract one: in spite of its separate         *)
(* queries and writes no goroutine brings a deleted item back with an      *)
(* update or replaces an item by a new one.                                *)
(***************************************************************************)
ImplementsKeyedStore == Abstract!Spec
=============================================================================
