---------------------------- MODULE Fragmentation ----------------------------
(***************************************************************************)
(* Fragmenting a bundle and reassembling it (pkg/bpv7/fragmentation.go).   *)
(* Lengths are counted in units: 1 for the array around a bundle, 2 for a  *)
(* primary block and 1 more for a fragment's offset and total length, 1    *)
(* for a canonical block and 1 more for its checksum, 1 for each byte.     *)
(***************************************************************************)
EXTENDS Bundle

PrimarySize(p) == IF "fragment" \in p.flags THEN 3 ELSE 2
BlockSize(cb) == (IF Checksum THEN 2 ELSE 1) + Len(cb.data)
Size(b) ==
    LET size[k \in 0 .. Len(b.blocks)] ==
            IF k = 0 THEN 1 + PrimarySize(b.primary)
            ELSE size[k - 1] + BlockSize(b.blocks[k])
    IN  size[Len(b.blocks)]

-----------------------------------------------------------------------------
fragmentPrimaryBlock(p, off, total) ==
    [p EXCEPT !.flags = @ \cup {"fragment"}, !.off = off, !.total = total]

\* One estimate, that of the later fragments, for all of them
oneExtensionBlocksLen(b) ==
    LET others == 2 * Cardinality({i \in DOMAIN b.blocks :
                     "replicate" \in b.blocks[i].flags \/ b.blocks[i].type = "payload"})
    IN  [first |-> others, others |-> others]

\* Every block is estimated with a checksum and the payload without its data;
\* a payload with the replicate flag counts twice for the later fragments.
fragmentExtensionBlocksLen(b) ==
    LET all == 2 * Cardinality(DOMAIN b.blocks)
        others == 2 * Cardinality({i \in DOMAIN b.blocks : "replicate" \in b.blocks[i].flags})
                  + 2 * Cardinality(ExtensionBlocks(b, "payload"))
    IN  [first |-> all, others |-> others]

\* The fragment that carries the payload from i up to hi
FragmentOf(b, i, hi) ==
    LET taken == {k \in DOMAIN b.blocks :
                     /\ b.blocks[k].type # "payload"
                     /\ i = 0 \/ "replicate" \in b.blocks[k].flags}
        payload == [PayloadBlock(b) EXCEPT !.data = SubSeq(Data(b), i + 1, hi)]
    IN  [primary |-> fragmentPrimaryBlock(b.primary, i, Len(Data(b))),
         blocks |-> AddExtensionBlock(AddExtensionBlocks(b.blocks, taken), payload)]

\* Fragment(mtu): the fragments, or an error.  One fragment is not worth it:
\* the bundle itself is returned.  An empty payload yields no bundle at all.
Fragment(b, mtu) ==
    IF "mustNotFragment" \in b.primary.flags \/ ~HasExactlyOne(b, "payload")
    THEN [err |-> TRUE, bs |-> <<>>]
    ELSE LET len == Len(Data(b))
             ext == fragmentExtensionBlocksLen(b)
             overhead(k) == 1 + 3 + (IF k = 1 THEN ext.first ELSE ext.others)
             start(k) == IF k = 1 THEN 0
                         ELSE (mtu - overhead(1)) + (k - 2) * (mtu - overhead(2))
             reached == {k \in 1 .. len : \A j \in 1 .. k : start(j) < len}
             part(k) == FragmentOf(b, start(k), Min({start(k) + mtu - overhead(k), len}))
         IN  IF \/ len > 0 /\ overhead(1) >= mtu
                \/ len > 0 /\ start(2) < len /\ overhead(2) >= mtu
             THEN [err |-> TRUE, bs |-> <<>>]
             ELSE IF \E k \in reached : ~CheckValid(part(k), FALSE)
             THEN [err |-> TRUE, bs |-> <<>>]
             ELSE [err |-> FALSE,
                   bs |-> IF Cardinality(reached) = 1 THEN <<b>>
                          ELSE [k \in 1 .. Cardinality(reached) |-> part(k)]]

-----------------------------------------------------------------------------
Offset(b) == b.primary.off
End(b) == b.primary.off + Len(Data(b))

\* The fragments in the order of their arrival
ByArrival(bs) == bs

ByOffset(bs) ==
    Sorted(bs, [i \in DOMAIN bs |-> {j \in DOMAIN bs :
                   \/ Offset(bs[j]) < Offset(bs[i])
                   \/ Offset(bs[j]) = Offset(bs[i]) /\ j < i}])

\* prepareReassembly of sorted fragments: no gap, and the last one ends where
\* the payload ends.  The index may go back where one contains the next.
prepareReassembly(s) ==
    /\ s # <<>>
    /\ \A k \in DOMAIN s :
          /\ IsFragment(s[k])
          /\ Offset(s[k]) <= (IF k = 1 THEN 0 ELSE End(s[k-1]))
    /\ s[1].primary.total = End(Last(s))

IsBundleReassemblable(bs) == prepareReassembly(ByOffset(bs))

\* How much of fragment k the fragments before it hold already; slicing more
\* than its data off panics.
Overlap(s, k) == (IF k = 1 THEN 0 ELSE End(s[k-1])) - Offset(s[k])
MergePanics(s) == \E k \in DOMAIN s : Overlap(s, k) > Len(Data(s[k]))

\* A merge that appends every fragment in full
mergeInFull(s) == FlattenSeq([k \in DOMAIN s |-> Data(s[k])])

mergeFragmentPayload(s) ==
    LET data[k \in 0 .. Len(s)] ==
            IF k = 0 THEN <<>>
            ELSE data[k - 1] \o SubSeq(Data(s[k]), Overlap(s, k) + 1, Len(Data(s[k])))
    IN  data[Len(s)]

\* ReassembleFragments: "error", "panic", or the bundle
ReassembleFragments(bs, late) ==
    LET s == ByOffset(bs)
        ext == {k \in DOMAIN s[1].blocks : s[1].blocks[k].type # "payload"}
        payload == NewCanonicalBlock(1, "payload", PayloadBlock(s[1]).flags,
                                     mergeFragmentPayload(s))
        b == [primary |-> [s[1].primary EXCEPT !.flags = @ \ {"fragment"},
                                               !.off = 0, !.total = 0],
              blocks |-> AddExtensionBlock(AddExtensionBlocks(s[1].blocks, ext), payload)]
    IN  IF ~prepareReassembly(s) THEN [res |-> "error"]
        ELSE IF MergePanics(s) THEN [res |-> "panic"]
        ELSE IF ~CheckValid(b, late) THEN [res |-> "error"]
        ELSE [res |-> "ok", bundle |-> b]
=============================================================================
