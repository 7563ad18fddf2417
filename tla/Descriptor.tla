----------------------------- MODULE Descriptor -----------------------------
(***************************************************************************)
(* The data that the goroutines of a node share through the store: the     *)
(* BundleItem of pkg/storage/bundle_item.go with the properties that       *)
(* BundleDescriptor.Sync and EpidemicRouting keep in it, and the effect of *)
(* each store operation on one key.  Bundles are abstract; Attr gives the  *)
(* primary-block fields and flags that processing.go looks at.             *)
(***************************************************************************)
EXTENDS Naturals

CONSTANTS
    Bundles,      \* the bundles that may turn up at this node
    Attr,         \* Attr[b]: what the processing reads of bundle b
    Tuples,       \* idTuple values: pairs of a source and a creation time
    MaxSeq,       \* bound on the sequence numbers of one tuple
    Peers,        \* endpoint IDs of possible neighbours
    Self,         \* an endpoint of this node (same node as Core.NodeId)
    Elsewhere,    \* endpoints that are neither Self nor a neighbour
    None          \* "not found" of the store, dtn:none, an unset property

Ids == Tuples \X (0 .. MaxSeq)
Endpoints == Peers \cup Elsewhere \cup {Self}

\* Positions of a status report (bpv7.StatusInformationPos).
Status == {"received", "forwarded", "delivered", "deleted"}

DP == "DispatchPending"
FP == "ForwardPending"
CI == "Contraindicated"
LE == "LocalEndpoint"

\* ReassemblyPending_ is never added by any caller, so it is left out here.
Constraint == {DP, FP, CI, LE}

(***************************************************************************)
(* Attr[b].reports are the status reports that may be built about b (they  *)
(* differ in their creation time); .refs are the bundles that b, a status  *)
(* report, declares delivered; .unknown are the block control flags of     *)
(* b's unknown canonical blocks; .hopExceeded says that b's hop count      *)
(* exceeds its limit once it is incremented.                               *)
(***************************************************************************)
BundleAttr ==
    [tpl : Tuples, seq : 0 .. MaxSeq, src : Endpoints \cup {None},
     dst : Endpoints, admin : BOOLEAN, wellFormed : BOOLEAN,
     refs : SUBSET Ids, requests : SUBSET Status, reports : SUBSET Bundles,
     unknown : SUBSET {"report", "delete"}, hopExceeded : BOOLEAN]

Items ==
    [bndl : Bundles, pending : BOOLEAN, cons : SUBSET Constraint,
     sent : SUBSET Peers, dst : Endpoints \cup {None}]

ASSUME DescriptorAssumption ==
    /\ MaxSeq \in Nat
    /\ Attr \in [Bundles -> BundleAttr]
    /\ None \notin Items
    /\ None \notin Endpoints
    /\ None \notin Bundles
    /\ None \notin Ids
    /\ Self \notin Peers \cup Elsewhere

\* BundleID of a bundle as it arrives, or as the BundleBuilder made it.
InitialId(b) == <<Attr[b].tpl, Attr[b].seq>>

-----------------------------------------------------------------------------
(***************************************************************************)
(* newBundleItem: neither constraints nor routing properties are set.      *)
(***************************************************************************)
NewItem(b) ==
    [bndl |-> b, pending |-> FALSE, cons |-> {}, sent |-> {}, dst |-> None]

(***************************************************************************)
(* The constraints that NewBundleDescriptor restores from a queried item.  *)
(***************************************************************************)
StoredConstraints(item) == IF item = None THEN {} ELSE item.cons

(***************************************************************************)
(* Store.Push and Store.Update of one key.  badgerhold.Insert fails for a  *)
(* known key and badgerhold.Update for an unknown one.                     *)
(***************************************************************************)
Pushed(old, b) == IF old = None THEN NewItem(b) ELSE old
Updated(old, item) == IF old = None THEN None ELSE item

\* Mutants of WithConstraints: one of the two constraints is not asked for.
ContraindicatedOnly(item, c) ==
    [item EXCEPT !.cons = c, !.pending = CI \in c]
NotContraindicated(item, c) ==
    [item EXCEPT !.cons = c, !.pending = FP \in c /\ CI \notin c]

(***************************************************************************)
(* The item that BundleDescriptor.Sync writes back for a known bundle.     *)
(***************************************************************************)
WithConstraints(item, c) ==
    [item EXCEPT !.cons = c, !.pending = c \cap {FP, CI} # {}]

(***************************************************************************)
(* BundleDescriptor.Sync's effect on the key: read is what it queried, old *)
(* what the key holds when the write happens.                              *)
(***************************************************************************)
Synced(read, old, b, c) ==
    IF read = None THEN Pushed(old, b)
    ELSE IF c = {} THEN None
    ELSE Updated(old, WithConstraints(read, c))

(***************************************************************************)
(* The results Sync may return: Update of a key that is gone errs; Insert  *)
(* of a key that came up since the query errs unless Push's own query      *)
(* already saw it.                                                         *)
(***************************************************************************)
SyncErrors(read, old, c) ==
    IF read = None THEN (IF old = None THEN {FALSE} ELSE BOOLEAN)
    ELSE {c # {} /\ old = None}

\* Mutant of Purged: LocalEndpoint goes, too.
PurgedAll(c) == {}

(***************************************************************************)
(* PurgeConstraints keeps LocalEndpoint only.                              *)
(***************************************************************************)
Purged(c) == c \cap {LE}

(***************************************************************************)
(* filterCLAs: the senders that are not in the item's "sent" list.  The    *)
(* updated list is the union of both.                                      *)
(***************************************************************************)
FilterCLAs(item, senders) == senders \ item.sent
=============================================================================
