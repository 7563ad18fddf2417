------------------------------- MODULE Bundle -------------------------------
(***************************************************************************)
(* The format of a bundle (pkg/bpv7): its blocks, their numbering and      *)
(* order, the validity checks, and the BundleBuilder.  The data of a       *)
(* payload is a sequence, so that a lost, repeated or misplaced byte shows;*)
(* of the other blocks only the type and the flags matter here.            *)
(***************************************************************************)
EXTENDS Integers, Sequences, FiniteSets, FiniteSetsExt, SequencesExt

CONSTANT Checksum   \* whether canonical blocks carry a checksum

ASSUME BundleAssumption == Checksum \in BOOLEAN

\* The block types of which a bundle may hold at most one
Single == {"age", "hop", "previous"}
BlockTypes == Single \cup {"generic", "payload"}

NewCanonicalBlock(num, type, flags, data) ==
    [type |-> type, num |-> num, flags |-> flags, data |-> data]

\* Endpoints, times and flags as far as the checks tell them apart
Eids == {"unset", "none", "node"}
Times == {"zero", "now"}
BundleFlags == {"fragment", "mustNotFragment", "admin", "request"}
BlockFlags == {"replicate", "report"}

\* Bundles as the functions below build them: only a fragment has an offset
\* and a total length.
PrimaryRec == [flags : SUBSET BundleFlags, src : Eids, dst : Eids, time : Times,
               life : Nat, off : Nat, total : Nat]
BlockRec ==
    {cb \in [type : BlockTypes, num : Nat, flags : SUBSET BlockFlags, data : Seq(Nat)] :
        cb.type = "payload" \/ cb.data = <<>>}
WellFormed(b) ==
    /\ b \in [primary : PrimaryRec, blocks : Seq(BlockRec)]
    /\ "fragment" \in b.primary.flags \/ (b.primary.off = 0 /\ b.primary.total = 0)

\* Builder(): the zero values of a PrimaryBlock, and the default request
NewPrimary ==
    [flags |-> {"request"}, src |-> "unset", dst |-> "unset", time |-> "zero",
     life |-> 0, off |-> 0, total |-> 0]
Builder == [err |-> FALSE, primary |-> NewPrimary, blocks |-> <<>>, counter |-> 2]

-----------------------------------------------------------------------------
\* The places of a bundle's blocks of this type
ExtensionBlocks(b, type) == {i \in DOMAIN b.blocks : b.blocks[i].type = type}
HasExactlyOne(b, type) == \E i \in DOMAIN b.blocks : ExtensionBlocks(b, type) = {i}
HasExtensionBlock(b, type) == ExtensionBlocks(b, type) # {}
PayloadBlock(b) == b.blocks[Min(ExtensionBlocks(b, "payload"))]
Data(b) == PayloadBlock(b).data

IsFragment(b) == "fragment" \in b.primary.flags

\* canonicalBlockNumberSort: block number 1 goes last, the others ascend
Less(x, y) == x.num # 1 /\ (y.num = 1 \/ x.num < y.num)

\* An element goes where the number of those before it says.  Equal ones keep
\* their order: up to twelve elements package sort inserts one by one.
Sorted(s, before) ==
    [k \in DOMAIN s |-> s[CHOOSE i \in DOMAIN s : Cardinality(before[i]) = k - 1]]

Precedes(blocks, i, j) ==
    Less(blocks[i], blocks[j]) \/ (i < j /\ ~Less(blocks[j], blocks[i]))
sortBlocks(blocks) ==
    Sorted(blocks, [i \in DOMAIN blocks |-> {j \in DOMAIN blocks : Precedes(blocks, j, i)}])

Numbers(blocks) == {blocks[i].num : i \in DOMAIN blocks}

\* A number that depends on how many blocks there are, not on which are free
CountedBlock(blocks, cb) ==
    sortBlocks(Append(blocks,
        [cb EXCEPT !.num = IF cb.type = "payload" THEN 1 ELSE Len(blocks) + 1]))

\* The first free number from 1 for a payload, from 2 for any other block
AddExtensionBlock(blocks, cb) ==
    LET first == IF cb.type = "payload" THEN 1 ELSE 2
        num == Min((first .. first + Len(blocks)) \ Numbers(blocks))
    IN  sortBlocks(Append(blocks, [cb EXCEPT !.num = num]))

\* A loop that adds the blocks at these places to a new bundle
AddExtensionBlocks(blocks, places) ==
    LET added[k \in 0 .. Len(blocks)] ==
            IF k = 0 THEN <<>>
            ELSE IF k \in places THEN AddExtensionBlock(added[k - 1], blocks[k])
            ELSE added[k - 1]
    IN  added[Len(blocks)]

\* Only the first block of that number is removed
RemoveExtensionBlockByBlockNumber(blocks, num) ==
    IF num \notin Numbers(blocks) THEN blocks
    ELSE RemoveAt(blocks, Min({i \in DOMAIN blocks : blocks[i].num = num}))

-----------------------------------------------------------------------------
\* late: the bundle's lifetime has passed by this node's clock.  A bundle
\* without a creation time lives by its age block: its age is compared with
\* the lifetime.  Age blocks have the age 0 here, which no lifetime is below;
\* nothing advances it while the bundle lies in the store.
IsLifetimeExceeded(b, late) ==
    IF b.primary.time = "zero" THEN ~HasExactlyOne(b, "age")
    ELSE late \/ b.primary.life = 0

FlagsValid(flags) ==
    /\ ~({"fragment", "mustNotFragment"} \subseteq flags)
    /\ ~({"admin", "request"} \subseteq flags)

PrimaryValid(p) ==
    /\ FlagsValid(p.flags)
    /\ p.src # "unset" /\ p.dst # "unset"
    /\ p.src = "none" => "mustNotFragment" \in p.flags /\ "request" \notin p.flags

BlockValid(cb) == cb.type = "payload" => cb.num = 1

CheckValid(b, late) ==
    /\ PrimaryValid(b.primary)
    /\ b.blocks # <<>>
    /\ \A i \in DOMAIN b.blocks :
          /\ BlockValid(b.blocks[i])
          /\ "admin" \in b.primary.flags \/ b.primary.src = "none" =>
                "report" \notin b.blocks[i].flags
          /\ \A j \in 1 .. i - 1 : b.blocks[i].num # b.blocks[j].num
          /\ b.blocks[i].type \in Single => HasExactlyOne(b, b.blocks[i].type)
    /\ Last(b.blocks).type = "payload"
    /\ b.primary.time = "zero" => HasExtensionBlock(b, "age")
    /\ ~IsLifetimeExceeded(b, late)

-----------------------------------------------------------------------------
\* The serialized form: an open array of the primary block, which is an
\* array of 8 to 11 elements, the canonical blocks, and a break code.
MarshalPrimary(p) ==
    IF "fragment" \in p.flags
    THEN [kind |-> "primary", len |-> 11, flags |-> p.flags, src |-> p.src, dst |-> p.dst,
          time |-> p.time, life |-> p.life, off |-> p.off, total |-> p.total]
    ELSE [kind |-> "primary", len |-> 9, flags |-> p.flags, src |-> p.src, dst |-> p.dst,
          time |-> p.time, life |-> p.life]

\* The array's length tells whether the fragment's fields follow
UnmarshalPrimary(w) ==
    [flags |-> w.flags, src |-> w.src, dst |-> w.dst, time |-> w.time, life |-> w.life,
     off |-> IF w.len >= 10 THEN w.off ELSE 0, total |-> IF w.len >= 10 THEN w.total ELSE 0]

MarshalBlock(cb) ==
    [kind |-> "block", len |-> IF Checksum THEN 6 ELSE 5, code |-> cb.type, num |-> cb.num,
     flags |-> cb.flags, data |-> cb.data]
UnmarshalBlock(w) == NewCanonicalBlock(w.num, w.code, w.flags, w.data)

Marker(kind) == [kind |-> kind]

\* What a file consists of
Token ==
    [kind : {"open", "break"}]
    \cup [kind : {"primary"}, len : {9}, flags : SUBSET BundleFlags, src : Eids, dst : Eids,
          time : Times, life : Nat]
    \cup [kind : {"primary"}, len : {11}, flags : SUBSET BundleFlags, src : Eids, dst : Eids,
          time : Times, life : Nat, off : Nat, total : Nat]
    \cup [kind : {"block"}, len : {5, 6}, code : BlockTypes, num : Nat,
          flags : SUBSET BlockFlags, data : Seq(Nat)]

WriteBundle(b) ==
    <<Marker("open"), MarshalPrimary(b.primary)>>
    \o [i \in DOMAIN b.blocks |-> MarshalBlock(b.blocks[i])] \o <<Marker("break")>>

\* ParseBundle stops at the break code, whatever follows, and checks what
\* it has read.
ParseBundle(w, late) ==
    LET breaks == {i \in DOMAIN w : w[i].kind = "break"}
        end == Min(breaks)
        b == [primary |-> UnmarshalPrimary(w[2]),
              blocks |-> [i \in 1 .. end - 3 |-> UnmarshalBlock(w[i + 2])]]
    IN  IF /\ breaks # {} /\ end > 2
           /\ w[1].kind = "open" /\ w[2].kind = "primary"
           /\ \A i \in 3 .. end - 1 : w[i].kind = "block"
           /\ CheckValid(b, late)
        THEN [ok |-> TRUE, bundle |-> b]
        ELSE [ok |-> FALSE]

-----------------------------------------------------------------------------
\* The BundleBuilder.  After an error every call leaves the builder alone.
Set(bldr, primary) == IF bldr.err THEN bldr ELSE [bldr EXCEPT !.primary = primary]

Source(bldr, eid) == Set(bldr, [bldr.primary EXCEPT !.src = eid])
Destination(bldr) == Set(bldr, [bldr.primary EXCEPT !.dst = "node"])
Lifetime(bldr, ms) == Set(bldr, [bldr.primary EXCEPT !.life = ms])
CreationTimestamp(bldr, t) == Set(bldr, [bldr.primary EXCEPT !.time = t])
BundleCtrlFlags(bldr, flags) == Set(bldr, [bldr.primary EXCEPT !.flags = flags])

\* A value that cannot be parsed, for instance of an endpoint or a duration
Unparsable(bldr) == [bldr EXCEPT !.err = TRUE]

\* Every block, the payload too, takes the next number
CanonicalCounted(bldr, type, flags, data) ==
    IF bldr.err THEN bldr
    ELSE [bldr EXCEPT !.blocks = Append(@, NewCanonicalBlock(bldr.counter, type, flags, data)),
                      !.counter = @ + 1]

Canonical(bldr, type, flags, data) ==
    IF bldr.err THEN bldr
    ELSE IF type = "payload"
    THEN [bldr EXCEPT !.blocks = Append(@, NewCanonicalBlock(1, type, flags, data))]
    ELSE [bldr EXCEPT !.blocks = Append(@, NewCanonicalBlock(bldr.counter, type, flags, data)),
                      !.counter = @ + 1]

\* BundleAgeBlock, HopCountBlock and PreviousNodeBlock: the flags of the
\* caller never reach canonicalParseFlags, which is given one argument.
MetadataBlock(bldr, type) == Canonical(bldr, type, {"replicate"}, <<>>)

AdministrativeRecord(bldr, data) ==
    IF bldr.err THEN bldr
    ELSE Canonical(Set(bldr, [bldr.primary EXCEPT
                                  !.flags = (@ \cup {"admin"}) \ {"request"}]),
                   "payload", {}, data)

NewBundle(primary, blocks) == [primary |-> primary, blocks |-> sortBlocks(blocks)]

\* Build succeeds if both endpoints are set and NewBundle finds it valid
Built(bldr) == NewBundle(bldr.primary, bldr.blocks)
BuildFails(bldr) == bldr.err \/ ~CheckValid(Built(bldr), FALSE)
=============================================================================
