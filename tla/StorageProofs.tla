---------------------------- MODULE StorageProofs ----------------------------
(***************************************************************************)
(* Theorems about Storage.                                                 *)
(***************************************************************************)
EXTENDS Storage, FiniteSetTheorems, SequenceTheorems, WellFoundedInduction, TLAPS

-----------------------------------------------------------------------------
Pcs == {"idle", "push", "write", "writing", "commit", "query", "update", "delete", "remove"}

\* Between the query of Push and its commit
Pushing == {"write", "writing", "commit"}

Frame(S) ==
    [pc : Pcs, b : S \cup {None}, item : ItemRec \cup {None}, todo : Seq(Nat \X Nat)]

\* A setup decides what is sent; where a bundle is built, nothing is stored.
SetupInv ==
    /\ setup \in Setups
    /\ setup.bundle = None =>
          sent = {} /\ item = None /\ (\A t \in Threads : thr[t] = Idle)
    /\ setup.bundle # None => origin = setup.bundle /\ sent = Sent(origin, setup.mtus)

TypeInv ==
    /\ thr \in [Threads -> Frame(sent)]
    /\ item \in ItemRec \cup {None}
    /\ files \in [{Name(b) : b \in sent} -> Seq(Token) \cup {None}]
    /\ late \in BOOLEAN /\ cut \in BOOLEAN
    /\ item # None => item.parts # <<>>

\* A goroutine does what its setup allows, and pushes what was sent.
CallInv ==
    \A t \in Threads :
       /\ thr[t].pc \in {"push"} \cup Pushing => thr[t].b \in sent /\ "push" \in setup.does[t]
       /\ thr[t].pc \in {"delete", "remove"} => "delete" \in setup.does[t]

\* With a whole bundle, an item that anybody has read or may write has this
\* one part.
WholeInv ==
    setup.mtus = {} =>
       /\ item # None => item.parts = <<Whole>>
       /\ \A t \in Threads :
             /\ thr[t].pc \in Pushing => thr[t].item = None
             /\ thr[t].pc = "update" => thr[t].item # None /\ thr[t].item.parts = <<Whole>>

\* With fragments one goroutine pushes and another one deletes: the item is
\* the one that Push has read, or gone.
FragmentInv ==
    setup.mtus # {} =>
       /\ thr["handler"].pc \in {"idle"} \cup Pushing
       /\ thr["pending"].pc = "idle"
       /\ thr["cron"].pc \in {"idle", "delete", "remove"}
       /\ item # None /\ item.fragmented => Whole \notin Range(item.parts)
       /\ LET f == thr["handler"]
          IN  f.pc \in Pushing =>
                 IF f.item = None THEN item = None
                 ELSE /\ IsFragment(f.b) /\ f.item.fragmented
                      /\ Name(f.b) \notin Range(f.item.parts)
                      /\ item \in {None, f.item}

IInv == SetupInv /\ TypeInv /\ CallInv /\ WholeInv /\ FragmentInv

LEMMA MinIsLeast ==
    ASSUME NEW S, S \subseteq Int, NEW m \in S, \A x \in S : m <= x
    PROVE  Min(S) = m
<1>1. Min(S) \in S /\ \A x \in S : Min(S) <= x
  BY DEF Min
<1>2. Min(S) <= m /\ m <= Min(S) /\ Min(S) \in Int /\ m \in Int
  BY <1>1
<1> HIDE DEF Min
<1>3. QED BY <1>2

LEMMA MinExists ==
    ASSUME NEW S, S \subseteq Nat, S # {}
    PROVE  Min(S) \in S /\ \A x \in S : Min(S) <= x
<1> DEFINE R == OpToRel(<, Nat)
<1>1. \A x, y \in Nat : x < y => <<x, y>> \in R
  BY DEF OpToRel
<1>2. IsWellFoundedOn(R, Nat)
  BY NatLessThanWellFounded
<1> HIDE DEF R
<1>3. PICK m \in S : \A y \in S : ~(<<y, m>> \in R)
  BY <1>2, WFMin
<1>4. ASSUME NEW y \in S PROVE m <= y
  <2>1. y \in Nat /\ m \in Nat
    OBVIOUS
  <2>2. ~(y < m)
    BY <1>1, <1>3, <2>1
  <2>3. QED BY <2>1, <2>2
<1>5. S \subseteq Int
  OBVIOUS
<1>6. Min(S) = m
  BY <1>4, <1>5, MinIsLeast
<1>7. QED BY <1>4, <1>6

\* s is in the order that "before" gives: f[k] is the place where the element
\* at k was.
Rearranged(s, before, f) ==
    /\ f \in [DOMAIN s -> DOMAIN s]
    /\ \A i \in DOMAIN s : \E k \in DOMAIN s : f[k] = i
    /\ \A k \in DOMAIN s : Sorted(s, before)[k] = s[f[k]]
    /\ \A k, l \in DOMAIN s : k < l => f[k] \in before[f[l]]

\* A strict total order of the places of a sequence
IsOrder(s, before) ==
    /\ before \in [DOMAIN s -> SUBSET DOMAIN s]
    /\ \A i \in DOMAIN s : i \notin before[i]
    /\ \A i, j \in DOMAIN s : i # j => i \in before[j] \/ j \in before[i]
    /\ \A i, j \in DOMAIN s : i \in before[j] => before[i] \subseteq before[j]

LEMMA SortRearranges ==
    ASSUME NEW T, NEW s \in Seq(T), NEW before, IsOrder(s, before)
    PROVE  /\ Sorted(s, before) \in Seq(T) /\ Len(Sorted(s, before)) = Len(s)
           /\ \E f : Rearranged(s, before, f)
<1> DEFINE D == DOMAIN s
           n == Len(s)
           pos == [i \in D |-> 1 + Cardinality(before[i])]
           f == [k \in D |-> CHOOSE i \in D : Cardinality(before[i]) = k - 1]
<1>1. n \in Nat /\ D = 1 .. n /\ s \in [D -> T]
  OBVIOUS
<1>2. /\ before \in [D -> SUBSET D]
      /\ \A i \in D : i \notin before[i]
      /\ \A i, j \in D : i # j => i \in before[j] \/ j \in before[i]
      /\ \A i, j \in D : i \in before[j] => before[i] \subseteq before[j]
  BY DEF IsOrder
<1> HIDE DEF D, n
<1>3. IsFiniteSet(D) /\ Cardinality(D) = n
  <2>1. IsFiniteSet(1 .. n) /\ Cardinality(1 .. n) = n
    BY <1>1, FS_Interval
  <2>2. QED BY <1>1, <2>1
<1>4. \A i \in D : before[i] \in SUBSET D /\ before[i] # D
  BY <1>2
<1>5. \A i \in D : IsFiniteSet(before[i]) /\ Cardinality(before[i]) \in Nat
  BY <1>3, <1>4, FS_Subset, FS_CardinalityType
<1>6. \A i \in D : Cardinality(before[i]) < n
  <2> SUFFICES ASSUME NEW i \in D PROVE Cardinality(before[i]) < n
    OBVIOUS
  <2>1. Cardinality(before[i]) <= n /\ Cardinality(before[i]) # n
    BY <1>3, <1>4, FS_Subset
  <2>2. QED BY <1>1, <1>5, <2>1
<1>7. \A i, j \in D : i \in before[j] => Cardinality(before[i]) < Cardinality(before[j])
  <2> SUFFICES ASSUME NEW i \in D, NEW j \in D, i \in before[j]
               PROVE  Cardinality(before[i]) < Cardinality(before[j])
    OBVIOUS
  <2>1. before[i] \in SUBSET before[j] /\ before[i] # before[j]
    BY <1>2
  <2>2. Cardinality(before[i]) <= Cardinality(before[j])
        /\ Cardinality(before[i]) # Cardinality(before[j])
    BY <1>5, <2>1, FS_Subset
  <2>3. QED BY <1>5, <2>2
<1>8. \A i \in D : pos[i] \in D
  BY <1>1, <1>5, <1>6
<1>9. \A i, j \in D : Cardinality(before[i]) = Cardinality(before[j]) => i = j
  <2> SUFFICES ASSUME NEW i \in D, NEW j \in D, i # j,
                      Cardinality(before[i]) = Cardinality(before[j])
               PROVE  FALSE
    OBVIOUS
  <2>1. \/ Cardinality(before[i]) < Cardinality(before[j])
        \/ Cardinality(before[j]) < Cardinality(before[i])
    BY <1>2, <1>7
  <2>2. QED BY <1>5, <2>1
<1>10. \A i, j \in D : pos[i] = pos[j] => i = j
  BY <1>5, <1>9
<1>11. pos \in Injection(D, D)
  <2> HIDE DEF pos
  <2>1. pos \in [D -> D]
    BY <1>8 DEF pos
  <2>2. QED BY <1>10, <2>1 DEF Injection, IsInjective
<1>12. pos \in Surjection(D, D)
  <2> HIDE DEF pos
  <2> QED BY <1>3, <1>11, FS_Injection
<1>13. \A k \in D : \E i \in D : Cardinality(before[i]) = k - 1
  <2> SUFFICES ASSUME NEW k \in D PROVE \E i \in D : Cardinality(before[i]) = k - 1
    OBVIOUS
  <2>1. PICK i \in D : pos[i] = k
    BY <1>12 DEF Surjection
  <2>2. Cardinality(before[i]) = k - 1
    BY <1>5, <2>1
  <2>3. QED BY <2>2
<1>14. \A k \in D : f[k] \in D /\ Cardinality(before[f[k]]) = k - 1
  BY <1>13
<1>15. f \in [D -> D]
  BY <1>14
<1>16. Sorted(s, before) = [k \in D |-> s[f[k]]]
  BY DEF Sorted, D
<1> HIDE DEF f
<1>17. \A i \in D : \E k \in D : f[k] = i
  <2> SUFFICES ASSUME NEW i \in D PROVE \E k \in D : f[k] = i
    OBVIOUS
  <2>1. pos[i] \in D /\ pos[i] - 1 = Cardinality(before[i])
    BY <1>5, <1>8
  <2>2. f[pos[i]] = i
    <3> HIDE DEF pos
    <3> QED BY <1>9, <1>14, <2>1
  <2>3. QED BY <2>1, <2>2
<1>18. \A k \in D : Sorted(s, before)[k] = s[f[k]]
  BY <1>16
<1>19. \A k, l \in D : k < l => f[k] \in before[f[l]]
  <2> SUFFICES ASSUME NEW k \in D, NEW l \in D, k < l, f[k] \notin before[f[l]]
               PROVE  FALSE
    OBVIOUS
  <2>1. k \in Nat /\ l \in Nat /\ f[k] \in D /\ f[l] \in D
    BY <1>1, <1>15
  <2>2. Cardinality(before[f[k]]) = k - 1 /\ Cardinality(before[f[l]]) = l - 1
    BY <1>14
  <2>3. f[k] # f[l]
    BY <2>1, <2>2
  <2>4. f[l] \in before[f[k]]
    BY <1>2, <2>1, <2>3
  <2>5. l - 1 < k - 1
    BY <1>7, <2>1, <2>2, <2>4
  <2>6. QED BY <2>1, <2>5
<1>20. Rearranged(s, before, f)
  BY <1>15, <1>17, <1>18, <1>19 DEF Rearranged, D
<1>21. Sorted(s, before) \in [1 .. n -> T]
  BY <1>1, <1>15, <1>16
<1>22. Sorted(s, before) \in Seq(T) /\ Len(Sorted(s, before)) = n
  <2> HIDE DEF Sorted
  <2> QED BY <1>1, <1>21
<1>23. QED BY <1>20, <1>22 DEF n

LEMMA PrecedesIsOrder ==
    ASSUME NEW s \in Seq(BlockRec), NEW i \in DOMAIN s, NEW j \in DOMAIN s, NEW k \in DOMAIN s
    PROVE  /\ ~Precedes(s, i, i)
           /\ i # j => Precedes(s, i, j) \/ Precedes(s, j, i)
           /\ Precedes(s, i, j) /\ Precedes(s, j, k) => Precedes(s, i, k)
<1>1. /\ i \in Nat /\ j \in Nat /\ k \in Nat
      /\ s[i] \in BlockRec /\ s[j] \in BlockRec /\ s[k] \in BlockRec
  OBVIOUS
<1>2. s[i].num \in Nat /\ s[j].num \in Nat /\ s[k].num \in Nat
  BY <1>1 DEF BlockRec
<1>3. QED BY <1>1, <1>2 DEF Precedes, Less

BlocksBefore(s) == [i \in DOMAIN s |-> {j \in DOMAIN s : Precedes(s, j, i)}]

LEMMA BlocksSorted ==
    ASSUME NEW s \in Seq(BlockRec)
    PROVE  /\ sortBlocks(s) \in Seq(BlockRec) /\ Len(sortBlocks(s)) = Len(s)
           /\ \E f : /\ f \in [DOMAIN s -> DOMAIN s]
                     /\ \A i \in DOMAIN s : \E k \in DOMAIN s : f[k] = i
                     /\ \A k \in DOMAIN s : sortBlocks(s)[k] = s[f[k]]
                     /\ \A k, l \in DOMAIN s : k < l => Precedes(s, f[k], f[l])
<1> DEFINE D == DOMAIN s
           B == BlocksBefore(s)
<1>1. /\ \A i \in D : ~Precedes(s, i, i)
      /\ \A i, j \in D : i # j => Precedes(s, i, j) \/ Precedes(s, j, i)
      /\ \A i, j, k \in D : Precedes(s, i, j) /\ Precedes(s, j, k) => Precedes(s, i, k)
  BY PrecedesIsOrder
<1> HIDE DEF D
<1>2. /\ B \in [D -> SUBSET D]
      /\ \A i, j \in D : i \in B[j] <=> Precedes(s, i, j)
  BY DEF BlocksBefore, D
<1> HIDE DEF B
<1>3. IsOrder(s, B)
  BY <1>1, <1>2 DEF IsOrder, D
<1>4. sortBlocks(s) = Sorted(s, B)
  BY DEF sortBlocks, B, BlocksBefore
<1>5. /\ Sorted(s, B) \in Seq(BlockRec) /\ Len(Sorted(s, B)) = Len(s)
      /\ \E f : Rearranged(s, B, f)
  BY <1>3, SortRearranges
<1>6. PICK f : Rearranged(s, B, f)
  BY <1>5
<1>7. /\ f \in [D -> D]
      /\ \A i \in D : \E k \in D : f[k] = i
      /\ \A k \in D : Sorted(s, B)[k] = s[f[k]]
      /\ \A k, l \in D : k < l => Precedes(s, f[k], f[l])
  BY <1>2, <1>6 DEF Rearranged, D
<1>8. QED BY <1>4, <1>5, <1>7 DEF D

LEMMA FreeNumber ==
    ASSUME NEW s \in Seq(BlockRec), NEW first \in Nat
    PROVE  LET free == (first .. first + Len(s)) \ Numbers(s)
           IN  Min(free) \in Nat /\ Min(free) >= first /\ Min(free) \notin Numbers(s)
<1> DEFINE n == Len(s)
           I == first .. first + n
           free == I \ Numbers(s)
           num == [i \in 1 .. n |-> s[i].num]
<1>1. n \in Nat /\ DOMAIN s = 1 .. n
  OBVIOUS
<1>2. Numbers(s) = {num[i] : i \in 1 .. n}
  BY <1>1 DEF Numbers
<1> HIDE DEF n
<1>3. num \in Surjection(1 .. n, Numbers(s))
  <2>1. num \in [1 .. n -> Numbers(s)]
    BY <1>2
  <2>2. \A t \in Numbers(s) : \E i \in 1 .. n : num[i] = t
    BY <1>2
  <2>3. QED BY <2>1, <2>2 DEF Surjection
<1>4. IsFiniteSet(1 .. n) /\ Cardinality(1 .. n) = n
  BY <1>1, FS_Interval
<1> HIDE DEF num
<1>5. IsFiniteSet(Numbers(s)) /\ Cardinality(Numbers(s)) <= n
  BY <1>3, <1>4, FS_Surjection
<1>6. IsFiniteSet(I) /\ Cardinality(I) = n + 1
  <2>1. first \in Int /\ first + n \in Int /\ ~(first > first + n) /\ (first + n) - first + 1 = n + 1
    BY <1>1
  <2>2. QED BY <2>1, FS_Interval
<1> HIDE DEF I
<1>7. free # {}
  <2> SUFFICES ASSUME I \subseteq Numbers(s) PROVE FALSE
    OBVIOUS
  <2>1. Cardinality(I) <= Cardinality(Numbers(s))
    BY <1>5, FS_Subset
  <2>2. Cardinality(Numbers(s)) \in Nat
    BY <1>5, FS_CardinalityType
  <2>3. QED BY <1>1, <1>5, <1>6, <2>1, <2>2
<1>8. free \subseteq Nat /\ \A x \in free : x >= first
  BY <1>1 DEF I
<1>9. \A x \in free : x \notin Numbers(s)
  OBVIOUS
<1> HIDE DEF free
<1>10. Min(free) \in free
  BY <1>7, <1>8, MinExists
<1>11. Min(free) \in Nat /\ Min(free) >= first /\ Min(free) \notin Numbers(s)
  BY <1>8, <1>9, <1>10
<1>12. QED BY <1>11 DEF free, I, n

(***************************************************************************)
(* What CheckValid asks of a bundle's blocks whatever their order is.      *)
(***************************************************************************)
SoundBlocks(p, s) ==
    /\ \A i \in DOMAIN s :
          /\ BlockValid(s[i])
          /\ "admin" \in p.flags \/ p.src = "none" => "report" \notin s[i].flags
          /\ \A j \in DOMAIN s : i # j =>
                /\ s[i].num # s[j].num
                /\ s[i].type \in Single => s[i].type # s[j].type
    /\ \E i \in DOMAIN s : s[i].type = "payload"
    /\ p.time = "zero" => \E i \in DOMAIN s : s[i].type = "age"

PayloadLast(s) == s # <<>> /\ s[Len(s)].type = "payload"
Alive(p) == p.time = "zero" \/ p.life # 0

LEMMA ValidIsSound ==
    ASSUME NEW b, WellFormed(b)
    PROVE  CheckValid(b, FALSE)
             <=> PrimaryValid(b.primary) /\ Alive(b.primary)
                 /\ SoundBlocks(b.primary, b.blocks) /\ PayloadLast(b.blocks)
<1> DEFINE s == b.blocks
           p == b.primary
           n == Len(s)
           one(type) == \E i \in DOMAIN s : {k \in DOMAIN s : s[k].type = type} = {i}
<1>1. s \in Seq(BlockRec) /\ n \in Nat /\ DOMAIN s = 1 .. n /\ (s # <<>> => n > 0)
  BY DEF WellFormed
<1>2. \A type : HasExactlyOne(b, type) <=> one(type)
  BY DEF HasExactlyOne, ExtensionBlocks
<1>3. HasExtensionBlock(b, "age") <=> \E i \in DOMAIN s : s[i].type = "age"
  BY DEF HasExtensionBlock, ExtensionBlocks
<1>4. Last(s) = s[n]
  BY DEF Last
<1> HIDE DEF s, p, n
<1>5. ASSUME NEW i \in DOMAIN s
      PROVE  one(s[i].type) <=> \A j \in DOMAIN s : i # j => s[i].type # s[j].type
  <2> DEFINE T == {k \in DOMAIN s : s[k].type = s[i].type}
  <2>1. i \in T
    OBVIOUS
  <2>2. (\E k \in DOMAIN s : T = {k}) <=> T = {i}
    <3> HIDE DEF T
    <3> QED BY <2>1
  <2>3. T = {i} <=> \A j \in DOMAIN s : i # j => s[i].type # s[j].type
    OBVIOUS
  <2>4. QED BY <2>2, <2>3
<1>6. (\A i \in DOMAIN s : \A j \in 1 .. i - 1 : s[i].num # s[j].num)
        <=> (\A i, j \in DOMAIN s : i # j => s[i].num # s[j].num)
  <2>1. ASSUME \A i \in DOMAIN s : \A j \in 1 .. i - 1 : s[i].num # s[j].num,
               NEW i \in DOMAIN s, NEW j \in DOMAIN s, i # j
        PROVE  s[i].num # s[j].num
    <3>1. i \in 1 .. n /\ j \in 1 .. n
      BY <1>1
    <3>2. j \in 1 .. i - 1 \/ i \in 1 .. j - 1
      BY <1>1, <3>1, <2>1
    <3>3. QED BY <2>1, <3>2
  <2>2. \A i \in DOMAIN s : \A j \in 1 .. i - 1 : j \in DOMAIN s /\ i # j
    BY <1>1
  <2>3. QED BY <2>1, <2>2
<1>7. CheckValid(b, FALSE) <=>
         /\ PrimaryValid(p) /\ s # <<>>
         /\ \A i \in DOMAIN s :
               /\ BlockValid(s[i])
               /\ "admin" \in p.flags \/ p.src = "none" => "report" \notin s[i].flags
               /\ \A j \in 1 .. i - 1 : s[i].num # s[j].num
               /\ s[i].type \in Single => one(s[i].type)
         /\ s[n].type = "payload"
         /\ p.time = "zero" => \E i \in DOMAIN s : s[i].type = "age"
         /\ IF p.time = "zero" THEN one("age") ELSE p.life # 0
  <2> HIDE DEF one
  <2>1. CheckValid(b, FALSE) <=>
         /\ PrimaryValid(p) /\ s # <<>>
         /\ \A i \in DOMAIN s :
               /\ BlockValid(s[i])
               /\ "admin" \in p.flags \/ p.src = "none" => "report" \notin s[i].flags
               /\ \A j \in 1 .. i - 1 : s[i].num # s[j].num
               /\ s[i].type \in Single => HasExactlyOne(b, s[i].type)
         /\ Last(s).type = "payload"
         /\ p.time = "zero" => HasExtensionBlock(b, "age")
         /\ ~IsLifetimeExceeded(b, FALSE)
    BY DEF CheckValid, s, p
  <2>2. ~IsLifetimeExceeded(b, FALSE) <=> IF p.time = "zero" THEN one("age") ELSE p.life # 0
    BY <1>2 DEF IsLifetimeExceeded, p
  <2>3. QED BY <1>2, <1>3, <1>4, <2>1, <2>2
<1>8. (\E i \in DOMAIN s : s[i].type = "age")
         /\ (\A i \in DOMAIN s : s[i].type \in Single => one(s[i].type)) => one("age")
  <2> HIDE DEF one
  <2> QED BY DEF Single
<1>9. s # <<>> /\ s[n].type = "payload" => \E i \in DOMAIN s : s[i].type = "payload"
  BY <1>1
<1> HIDE DEF one
<1>10. (\A i \in DOMAIN s : s[i].type \in Single => one(s[i].type))
        <=> (\A i \in DOMAIN s : \A j \in DOMAIN s :
                i # j => (s[i].type \in Single => s[i].type # s[j].type))
  BY <1>5
<1>11. SoundBlocks(p, s) <=>
         /\ \A i \in DOMAIN s :
               /\ BlockValid(s[i])
               /\ "admin" \in p.flags \/ p.src = "none" => "report" \notin s[i].flags
         /\ \A i \in DOMAIN s : \A j \in 1 .. i - 1 : s[i].num # s[j].num
         /\ \A i \in DOMAIN s : s[i].type \in Single => one(s[i].type)
         /\ \E i \in DOMAIN s : s[i].type = "payload"
         /\ p.time = "zero" => \E i \in DOMAIN s : s[i].type = "age"
  <2>1. SoundBlocks(p, s) <=>
         /\ \A i \in DOMAIN s :
               /\ BlockValid(s[i])
               /\ "admin" \in p.flags \/ p.src = "none" => "report" \notin s[i].flags
         /\ \A i, j \in DOMAIN s : i # j => s[i].num # s[j].num
         /\ \A i \in DOMAIN s : \A j \in DOMAIN s :
               i # j => (s[i].type \in Single => s[i].type # s[j].type)
         /\ \E i \in DOMAIN s : s[i].type = "payload"
         /\ p.time = "zero" => \E i \in DOMAIN s : s[i].type = "age"
    BY DEF SoundBlocks
  <2>2. QED BY <1>6, <1>10, <2>1
<1>12. CheckValid(b, FALSE) <=>
          PrimaryValid(p) /\ Alive(p) /\ SoundBlocks(p, s) /\ PayloadLast(s)
  BY <1>7, <1>8, <1>9, <1>11 DEF PayloadLast, Alive, n
<1>13. QED BY <1>12 DEF s, p

\* Sorting sound blocks keeps them sound and puts the payload last.
LEMMA SortedIsSound ==
    ASSUME NEW s \in Seq(BlockRec), NEW p, SoundBlocks(p, s)
    PROVE  SoundBlocks(p, sortBlocks(s)) /\ PayloadLast(sortBlocks(s))
<1> DEFINE r == sortBlocks(s)
           D == DOMAIN s
           n == Len(s)
<1>1. n \in Nat /\ D = 1 .. n /\ s \in [D -> BlockRec]
  OBVIOUS
<1>2. /\ r \in Seq(BlockRec) /\ Len(r) = n
      /\ \E f : /\ f \in [D -> D]
                /\ \A i \in D : \E k \in D : f[k] = i
                /\ \A k \in D : r[k] = s[f[k]]
                /\ \A k, l \in D : k < l => Precedes(s, f[k], f[l])
  BY BlocksSorted
<1>4. DOMAIN r = D
  <2> HIDE DEF r, n
  <2> QED BY <1>1, <1>2
<1>5. PICK f : /\ f \in [D -> D]
               /\ \A i \in D : \E k \in D : f[k] = i
               /\ \A k \in D : r[k] = s[f[k]]
               /\ \A k, l \in D : k < l => Precedes(s, f[k], f[l])
  BY <1>2
<1>6. \A i \in D :
          /\ BlockValid(s[i])
          /\ "admin" \in p.flags \/ p.src = "none" => "report" \notin s[i].flags
          /\ \A j \in D : i # j =>
                /\ s[i].num # s[j].num
                /\ s[i].type \in Single => s[i].type # s[j].type
  BY DEF SoundBlocks
<1>7. (\E i \in D : s[i].type = "payload") /\ (p.time = "zero" => \E i \in D : s[i].type = "age")
  BY DEF SoundBlocks
<1> HIDE DEF r, n, D
<1>8. ASSUME NEW k \in D, NEW l \in D, k # l PROVE f[k] # f[l]
  <2>1. k \in Nat /\ l \in Nat /\ (k < l \/ l < k)
    BY <1>1, <1>8
  <2>2. Precedes(s, f[k], f[l]) \/ Precedes(s, f[l], f[k])
    BY <1>5, <2>1
  <2>3. f[k] \in DOMAIN s
    BY <1>5 DEF D
  <2>4. ~Precedes(s, f[k], f[k])
    BY <2>3, PrecedesIsOrder
  <2>5. QED BY <2>2, <2>4
<1>9. \A k \in D :
          /\ BlockValid(r[k])
          /\ "admin" \in p.flags \/ p.src = "none" => "report" \notin r[k].flags
          /\ \A l \in D : k # l =>
                /\ r[k].num # r[l].num
                /\ r[k].type \in Single => r[k].type # r[l].type
  <2> SUFFICES ASSUME NEW k \in D
               PROVE /\ BlockValid(r[k])
                     /\ "admin" \in p.flags \/ p.src = "none" => "report" \notin r[k].flags
                     /\ \A l \in D : k # l =>
                           /\ r[k].num # r[l].num
                           /\ r[k].type \in Single => r[k].type # r[l].type
    OBVIOUS
  <2>1. f[k] \in D /\ r[k] = s[f[k]]
    BY <1>5
  <2>2. ASSUME NEW l \in D, k # l
        PROVE  r[k].num # r[l].num /\ (r[k].type \in Single => r[k].type # r[l].type)
    <3>1. f[l] \in D /\ r[l] = s[f[l]] /\ f[k] # f[l]
      BY <1>5, <1>8, <2>2
    <3>2. QED BY <1>6, <2>1, <3>1
  <2>3. QED BY <1>6, <2>1, <2>2
<1>10. /\ \E k \in D : r[k].type = "payload"
       /\ p.time = "zero" => \E k \in D : r[k].type = "age"
  BY <1>5, <1>7
<1>11. SoundBlocks(p, r)
  BY <1>4, <1>9, <1>10 DEF SoundBlocks
<1>12. PayloadLast(r)
  <2>1. PICK k \in D : r[k].type = "payload"
    BY <1>10
  <2>2. n \in D /\ k \in Nat /\ k <= n
    BY <1>1
  <2>3. r[k].num = 1
    BY <1>9, <2>1 DEF BlockValid
  <2>4. ASSUME k < n PROVE FALSE
    <3>1. Precedes(s, f[k], f[n])
      BY <1>5, <2>2, <2>4
    <3>2. s[f[k]].num = 1
      BY <1>5, <2>3
    <3>3. s[f[n]].num = 1
      BY <3>1, <3>2 DEF Precedes, Less
    <3>4. f[k] # f[n] /\ f[k] \in D /\ f[n] \in D
      BY <1>5, <1>8, <2>2, <2>4
    <3>5. QED BY <1>6, <3>2, <3>3, <3>4
  <2>5. k = n
    BY <1>1, <2>2, <2>4
  <2>6. r # <<>>
    BY <1>1, <1>2, <2>2
  <2>7. QED BY <1>2, <2>1, <2>5, <2>6 DEF PayloadLast
<1>13. QED BY <1>11, <1>12 DEF r

LEMMA AddedIsSound ==
    ASSUME NEW s \in Seq(BlockRec), NEW p, SoundBlocks(p, s), NEW cb \in BlockRec,
           cb.type # "payload", cb.num \notin Numbers(s), cb.flags = {},
           cb.type \in Single => \A i \in DOMAIN s : s[i].type # cb.type
    PROVE  Append(s, cb) \in Seq(BlockRec) /\ SoundBlocks(p, Append(s, cb))
<1> DEFINE r == Append(s, cb)
           n == Len(s)
<1>1. n \in Nat /\ DOMAIN s = 1 .. n
  OBVIOUS
<1>2. /\ r \in Seq(BlockRec) /\ Len(r) = n + 1
      /\ \A i \in 1 .. n : r[i] = s[i]
      /\ r[n + 1] = cb
  BY AppendProperties
<1> HIDE DEF r, n
<1>3. DOMAIN r = 1 .. n + 1 /\ \A i \in DOMAIN r : i \in 1 .. n \/ i = n + 1
  BY <1>1, <1>2
<1>4. 1 .. n \subseteq DOMAIN r
  BY <1>1, <1>3
<1>5. \A i \in 1 .. n : cb.num # s[i].num
  BY <1>1 DEF Numbers
<1>6. \A i \in 1 .. n :
          /\ BlockValid(s[i])
          /\ "admin" \in p.flags \/ p.src = "none" => "report" \notin s[i].flags
          /\ \A j \in 1 .. n : i # j =>
                /\ s[i].num # s[j].num
                /\ s[i].type \in Single => s[i].type # s[j].type
  BY <1>1 DEF SoundBlocks
<1>7. \A i \in DOMAIN r :
          /\ BlockValid(r[i])
          /\ "admin" \in p.flags \/ p.src = "none" => "report" \notin r[i].flags
          /\ \A j \in DOMAIN r : i # j =>
                /\ r[i].num # r[j].num
                /\ r[i].type \in Single => r[i].type # r[j].type
  <2> SUFFICES ASSUME NEW i \in DOMAIN r
               PROVE /\ BlockValid(r[i])
                     /\ "admin" \in p.flags \/ p.src = "none" => "report" \notin r[i].flags
                     /\ \A j \in DOMAIN r : i # j =>
                           /\ r[i].num # r[j].num
                           /\ r[i].type \in Single => r[i].type # r[j].type
    OBVIOUS
  <2>1. BlockValid(r[i]) /\ ("admin" \in p.flags \/ p.src = "none" => "report" \notin r[i].flags)
    <3>1. CASE i \in 1 .. n
      BY <3>1, <1>2, <1>6
    <3>2. CASE i = n + 1
      BY <3>2, <1>2 DEF BlockValid
    <3>3. QED BY <1>3, <3>1, <3>2
  <2>2. ASSUME NEW j \in DOMAIN r, i # j
        PROVE  r[i].num # r[j].num /\ (r[i].type \in Single => r[i].type # r[j].type)
    <3>1. CASE i \in 1 .. n /\ j \in 1 .. n
      BY <3>1, <2>2, <1>2, <1>6
    <3>2. CASE i = n + 1 /\ j \in 1 .. n
      BY <3>2, <1>1, <1>2, <1>5
    <3>3. CASE i \in 1 .. n /\ j = n + 1
      BY <3>3, <1>1, <1>2, <1>5
    <3>4. QED BY <1>3, <2>2, <3>1, <3>2, <3>3
  <2>3. QED BY <2>1, <2>2
<1>8. /\ \E i \in DOMAIN r : r[i].type = "payload"
      /\ p.time = "zero" => \E i \in DOMAIN r : r[i].type = "age"
  BY <1>1, <1>2, <1>4 DEF SoundBlocks
<1>9. SoundBlocks(p, r)
  BY <1>7, <1>8 DEF SoundBlocks
<1>10. QED BY <1>2, <1>9 DEF r

\* Dropping one generic block
LEMMA RemovedIsSound ==
    ASSUME NEW s \in Seq(BlockRec), NEW p, SoundBlocks(p, s), PayloadLast(s),
           NEW m \in DOMAIN s, s[m].type = "generic"
    PROVE  /\ RemoveAt(s, m) \in Seq(BlockRec)
           /\ SoundBlocks(p, RemoveAt(s, m)) /\ PayloadLast(RemoveAt(s, m))
<1> DEFINE r == RemoveAt(s, m)
           n == Len(s)
           was(i) == IF i < m THEN i ELSE i + 1
           front == SubSeq(s, 1, m - 1)
           back == SubSeq(s, m + 1, n)
<1>1. n \in Nat /\ DOMAIN s = 1 .. n /\ m \in Nat /\ 1 <= m /\ m <= n
  OBVIOUS
<1>2. m # n
  BY DEF PayloadLast
<1> HIDE DEF n
<1>3. \A i \in 1 .. n : s[i] \in BlockRec
  BY <1>1
<1>4. /\ front \in Seq(BlockRec) /\ Len(front) = m - 1
      /\ \A i \in 1 .. m - 1 : front[i] = s[i]
  <2>1. \A i \in 1 .. m - 1 : s[i] \in BlockRec
    BY <1>1, <1>3
  <2>2. /\ front \in Seq(BlockRec)
        /\ Len(front) = IF 1 <= m - 1 THEN (m - 1) - 1 + 1 ELSE 0
        /\ \A i \in 1 .. (m - 1) - 1 + 1 : front[i] = s[1 + i - 1]
    BY <1>1, <2>1, SubSeqProperties
  <2> HIDE DEF front
  <2>3. QED BY <1>1, <2>2
<1>5. /\ back \in Seq(BlockRec) /\ Len(back) = n - m
      /\ \A i \in 1 .. n - m : back[i] = s[m + i]
  <2>1. \A i \in m + 1 .. n : s[i] \in BlockRec
    BY <1>1, <1>3
  <2>2. /\ back \in Seq(BlockRec)
        /\ Len(back) = IF m + 1 <= n THEN n - (m + 1) + 1 ELSE 0
        /\ \A i \in 1 .. n - (m + 1) + 1 : back[i] = s[(m + 1) + i - 1]
    BY <1>1, <2>1, SubSeqProperties
  <2> HIDE DEF back
  <2>3. n - (m + 1) + 1 = n - m /\ m + 1 <= n
    BY <1>1, <1>2
  <2>4. ASSUME NEW i \in 1 .. n - m PROVE back[i] = s[m + i]
    <3>1. (m + 1) + i - 1 = m + i
      BY <1>1
    <3>2. QED BY <2>2, <2>3, <3>1
  <2>5. QED BY <2>2, <2>3, <2>4
<1>6. r = front \o back
  BY DEF RemoveAt, n
<1> HIDE DEF r, front, back
<1>7. /\ r \in Seq(BlockRec) /\ Len(r) = n - 1
      /\ \A i \in 1 .. n - 1 : r[i] = s[was(i)]
  <2>1. /\ r \in Seq(BlockRec) /\ Len(r) = Len(front) + Len(back)
        /\ \A i \in 1 .. Len(front) + Len(back) :
              r[i] = IF i <= Len(front) THEN front[i] ELSE back[i - Len(front)]
    BY <1>4, <1>5, <1>6, ConcatProperties
  <2>2. Len(front) + Len(back) = n - 1
    BY <1>1, <1>4, <1>5
  <2>3. ASSUME NEW i \in 1 .. n - 1 PROVE r[i] = s[was(i)]
    <3>1. CASE i < m
      <4>1. i \in 1 .. m - 1 /\ i <= m - 1
        BY <1>1, <3>1
      <4>2. QED BY <1>4, <2>1, <2>2, <3>1, <4>1
    <3>2. CASE ~(i < m)
      <4>1. i - (m - 1) \in 1 .. n - m /\ ~(i <= m - 1) /\ m + (i - (m - 1)) = i + 1
        BY <1>1, <3>2
      <4>2. r[i] = back[i - (m - 1)]
        BY <1>4, <2>1, <2>2, <4>1
      <4>3. QED BY <1>5, <3>2, <4>1, <4>2
    <3>3. QED BY <3>1, <3>2
  <2>4. QED BY <2>1, <2>2, <2>3
<1>8. DOMAIN r = 1 .. n - 1
  BY <1>1, <1>7
<1>9. \A i \in 1 .. n - 1 : was(i) \in 1 .. n /\ \A j \in 1 .. n - 1 : i # j => was(i) # was(j)
  BY <1>1
<1>10. \A i \in 1 .. n : i # m => \E k \in 1 .. n - 1 : was(k) = i
  <2> SUFFICES ASSUME NEW i \in 1 .. n, i # m PROVE \E k \in 1 .. n - 1 : was(k) = i
    OBVIOUS
  <2>1. CASE i < m
    <3>1. i \in 1 .. n - 1 /\ was(i) = i
      BY <1>1, <2>1
    <3>2. QED BY <3>1
  <2>2. CASE ~(i < m)
    <3>1. i - 1 \in 1 .. n - 1 /\ was(i - 1) = i
      BY <1>1, <2>2
    <3>2. QED BY <3>1
  <2>3. QED BY <2>1, <2>2
<1> HIDE DEF was
<1>11. \A i \in 1 .. n :
          /\ BlockValid(s[i])
          /\ "admin" \in p.flags \/ p.src = "none" => "report" \notin s[i].flags
          /\ \A j \in 1 .. n : i # j =>
                /\ s[i].num # s[j].num
                /\ s[i].type \in Single => s[i].type # s[j].type
  BY <1>1 DEF SoundBlocks
<1>12. \A i \in DOMAIN r :
          /\ BlockValid(r[i])
          /\ "admin" \in p.flags \/ p.src = "none" => "report" \notin r[i].flags
          /\ \A j \in DOMAIN r : i # j =>
                /\ r[i].num # r[j].num
                /\ r[i].type \in Single => r[i].type # r[j].type
  BY <1>7, <1>8, <1>9, <1>11
<1>13. /\ \E i \in DOMAIN r : r[i].type = "payload"
       /\ p.time = "zero" => \E i \in DOMAIN r : r[i].type = "age"
  <2>1. \A i \in 1 .. n : s[i].type # "generic" => \E k \in 1 .. n - 1 : r[k] = s[i]
    BY <1>7, <1>10
  <2>2. (\E i \in 1 .. n : s[i].type = "payload")
        /\ (p.time = "zero" => \E i \in 1 .. n : s[i].type = "age")
    BY <1>1 DEF SoundBlocks
  <2>3. QED BY <1>8, <2>1, <2>2
<1>14. SoundBlocks(p, r)
  BY <1>12, <1>13 DEF SoundBlocks
<1>15. PayloadLast(r)
  <2>1. n - 1 \in 1 .. n - 1 /\ was(n - 1) = n
    BY <1>1, <1>2 DEF was
  <2>2. r[n - 1] = s[n]
    BY <1>7, <2>1
  <2>3. r # <<>>
    BY <1>7, <2>1
  <2>4. s[n].type = "payload"
    BY DEF PayloadLast, n
  <2>5. QED BY <1>7, <2>2, <2>3, <2>4 DEF PayloadLast
<1>16. QED BY <1>7, <1>14, <1>15 DEF r

-----------------------------------------------------------------------------
\* Loops

\* A loop over the numbers 1 .. n runs to its end: step[k] is what its k-th
\* turn makes of the value so far.
IsRun(T, base, n, step, g) ==
    g \in [0 .. n -> T] /\ g[0] = base /\ \A k \in 1 .. n : g[k] = step[k][g[k - 1]]

LEMMA LoopRuns ==
    ASSUME NEW T, NEW base \in T, NEW n \in Nat, NEW step \in [1 .. n -> [T -> T]]
    PROVE  \E g : IsRun(T, base, n, step, g)
<1> DEFINE Runs(m, g) == g[0] = base /\ \A k \in 1 .. m : g[k] = step[k][g[k - 1]]
           stuck == {m \in 0 .. n : ~\E g \in [0 .. m -> T] : Runs(m, g)}
<1>1. ASSUME stuck # {} PROVE FALSE
  <2> DEFINE m == Min(stuck)
  <2>1. m \in stuck /\ \A x \in stuck : m <= x
    <3>1. stuck \subseteq Nat
      OBVIOUS
    <3> HIDE DEF stuck
    <3>2. QED BY <1>1, <3>1, MinExists
  <2> HIDE DEF m
  <2>2. m \in 0 .. n
    BY <2>1
  <2>3. m # 0
    <3>1. [i \in 0 .. 0 |-> base] \in [0 .. 0 -> T] /\ Runs(0, [i \in 0 .. 0 |-> base])
      OBVIOUS
    <3>2. QED BY <2>1, <3>1
  <2>4. m - 1 \in 0 .. n /\ m \in 1 .. n /\ m - 1 < m /\ m \in Nat
    BY <2>2, <2>3
  <2>5. m - 1 \notin stuck
    <3> HIDE DEF stuck
    <3> QED BY <2>1, <2>4
  <2>6. PICK g \in [0 .. m - 1 -> T] : Runs(m - 1, g)
    BY <2>4, <2>5
  <2> DEFINE h == [k \in 0 .. m |-> IF k = m THEN step[m][g[m - 1]] ELSE g[k]]
  <2>7. step[m] \in [T -> T] /\ g[m - 1] \in T
    BY <2>4
  <2>8. h \in [0 .. m -> T]
    BY <2>4, <2>7
  <2>9. h[0] = base
    BY <2>3, <2>4, <2>6
  <2>10. ASSUME NEW k \in 1 .. m PROVE h[k] = step[k][h[k - 1]]
    <3>1. CASE k = m
      BY <2>4, <3>1
    <3>2. CASE k # m
      <4>1. k \in 1 .. m - 1 /\ k \in 0 .. m /\ k - 1 \in 0 .. m /\ k - 1 # m
        BY <2>4, <3>2
      <4>2. h[k] = g[k] /\ h[k - 1] = g[k - 1]
        BY <3>2, <4>1
      <4>3. QED BY <2>6, <4>1, <4>2
    <3>3. QED BY <3>1, <3>2
  <2>11. Runs(m, h)
    BY <2>9, <2>10
  <2>12. QED BY <2>1, <2>8, <2>11
<1>2. n \in 0 .. n
  OBVIOUS
<1>3. QED BY <1>1, <1>2 DEF IsRun

LEMMA AddIsTyped ==
    ASSUME NEW s \in Seq(BlockRec), NEW cb \in BlockRec
    PROVE  AddExtensionBlock(s, cb) \in Seq(BlockRec) /\ Len(AddExtensionBlock(s, cb)) = Len(s) + 1
<1> DEFINE first == IF cb.type = "payload" THEN 1 ELSE 2
           m == Min((first .. first + Len(s)) \ Numbers(s))
           new == [cb EXCEPT !.num = m]
<1>1. first \in Nat
  OBVIOUS
<1> HIDE DEF first
<1>2. m \in Nat
  BY <1>1, FreeNumber
<1>3. AddExtensionBlock(s, cb) = sortBlocks(Append(s, new))
  BY DEF AddExtensionBlock, first
<1> HIDE DEF m
<1>4. new \in BlockRec
  BY <1>2 DEF BlockRec
<1> HIDE DEF new
<1>5. Append(s, new) \in Seq(BlockRec) /\ Len(Append(s, new)) = Len(s) + 1
  BY <1>4, AppendProperties
<1>6. QED BY <1>3, <1>5, BlocksSorted

\* The blocks after each turn of AddExtensionBlocks
IsAdding(s, places, g) ==
    /\ g \in [0 .. Len(s) -> Seq(BlockRec)]
    /\ g[0] = <<>>
    /\ \A k \in 1 .. Len(s) :
          g[k] = IF k \in places THEN AddExtensionBlock(g[k - 1], s[k]) ELSE g[k - 1]
    /\ AddExtensionBlocks(s, places) = g[Len(s)]

LEMMA AddsInTurn ==
    ASSUME NEW s \in Seq(BlockRec), NEW places
    PROVE  \E g : IsAdding(s, places, g)
<1> DEFINE n == Len(s)
           T == Seq(BlockRec)
           step == [k \in 1 .. n |-> [x \in T |->
                      IF k \in places THEN AddExtensionBlock(x, s[k]) ELSE x]]
           IsAdded(g) == g = [k \in 0 .. n |->
                               IF k = 0 THEN <<>>
                               ELSE IF k \in places THEN AddExtensionBlock(g[k - 1], s[k])
                               ELSE g[k - 1]]
           added == CHOOSE g : IsAdded(g)
<1>1. AddExtensionBlocks(s, places) = added[n]
  BY DEF AddExtensionBlocks
<1>2. n \in Nat /\ \A k \in 1 .. n : s[k] \in BlockRec
  OBVIOUS
<1> HIDE DEF n
<1>3. <<>> \in T /\ step \in [1 .. n -> [T -> T]]
  BY <1>2, AddIsTyped
<1> HIDE DEF T
<1>4. PICK h \in [0 .. n -> T] : h[0] = <<>> /\ \A k \in 1 .. n : h[k] = step[k][h[k - 1]]
  <2> DEFINE base == <<>>
  <2>1. base \in T
    BY <1>3
  <2> HIDE DEF step, base
  <2>2. \E h : IsRun(T, base, n, step, h)
    BY <1>2, <1>3, <2>1, LoopRuns
  <2>3. QED BY <2>2 DEF base, IsRun
<1>5. IsAdded(h)
  <2>1. \A k \in 1 .. n : k - 1 \in 0 .. n
    BY <1>2
  <2>2. \A k \in 1 .. n : h[k] = IF k \in places THEN AddExtensionBlock(h[k - 1], s[k]) ELSE h[k - 1]
    BY <1>4, <2>1
  <2>3. \A k \in 0 .. n : k = 0 \/ k \in 1 .. n
    BY <1>2
  <2>4. QED BY <1>4, <2>2, <2>3
<1>6. IsAdded(added)
  <2> HIDE DEF IsAdded
  <2> QED BY <1>5
<1> HIDE DEF added
<1>7. /\ added[0] = <<>>
      /\ \A k \in 1 .. n :
            added[k] = IF k \in places THEN AddExtensionBlock(added[k - 1], s[k]) ELSE added[k - 1]
  <2>1. \A k \in 1 .. n : k \in 0 .. n /\ k # 0
    BY <1>2
  <2>2. 0 \in 0 .. n
    BY <1>2
  <2>3. QED BY <1>6, <2>1, <2>2
<1>8. added = [k \in 0 .. n |-> added[k]]
  BY <1>6
<1> DEFINE bad == {k \in 0 .. n : added[k] \notin T}
<1>9. ASSUME bad # {} PROVE FALSE
  <2> DEFINE m == Min(bad)
  <2>1. m \in bad /\ \A x \in bad : m <= x
    <3>1. bad \subseteq Nat
      OBVIOUS
    <3> HIDE DEF bad
    <3>2. QED BY <1>9, <3>1, MinExists
  <2> HIDE DEF m
  <2>2. m # 0
    BY <1>3, <1>7, <2>1
  <2>3. m \in 1 .. n /\ m - 1 \in 0 .. n /\ m - 1 < m /\ m \in Nat
    BY <1>2, <2>1, <2>2
  <2>4. added[m - 1] \in T
    BY <2>1, <2>3
  <2>5. added[m] \in T
    BY <1>2, <1>7, <2>3, <2>4, AddIsTyped DEF T
  <2>6. QED BY <2>1, <2>5
<1>10. added \in [0 .. n -> T]
  BY <1>8, <1>9
<1>11. QED BY <1>1, <1>7, <1>10 DEF n, T, IsAdding

\* Blocks that are in order stay where they are.
LEMMA SortedAlready ==
    ASSUME NEW s \in Seq(BlockRec),
           \A i, j \in DOMAIN s : i < j => Precedes(s, i, j)
    PROVE  sortBlocks(s) = s
<1> DEFINE n == Len(s)
           B == BlocksBefore(s)
<1>1. n \in Nat /\ DOMAIN s = 1 .. n
  OBVIOUS
<1> HIDE DEF n
<1>2. \A i \in 1 .. n : B[i] = 1 .. i - 1
  <2> SUFFICES ASSUME NEW i \in 1 .. n PROVE B[i] = 1 .. i - 1
    OBVIOUS
  <2>1. B[i] = {j \in 1 .. n : Precedes(s, j, i)}
    BY <1>1 DEF BlocksBefore
  <2>2. ASSUME NEW j \in 1 .. n PROVE Precedes(s, j, i) <=> j \in 1 .. i - 1
    <3>1. CASE j < i
      <4>1. j \in 1 .. i - 1
        BY <1>1, <3>1
      <4>2. Precedes(s, j, i)
        BY <1>1, <3>1
      <4>3. QED BY <4>1, <4>2
    <3>2. CASE ~(j < i)
      <4>1. j = i \/ i < j
        BY <1>1, <3>2
      <4>2. ~Precedes(s, j, i)
        BY <1>1, <4>1, PrecedesIsOrder
      <4>3. j \notin 1 .. i - 1
        BY <1>1, <3>2
      <4>4. QED BY <4>2, <4>3
    <3>3. QED BY <3>1, <3>2
  <2>3. 1 .. i - 1 \subseteq 1 .. n
    BY <1>1
  <2>4. QED BY <2>1, <2>2, <2>3
<1>3. \A i \in 1 .. n : Cardinality(B[i]) = i - 1
  <2> SUFFICES ASSUME NEW i \in 1 .. n PROVE Cardinality(1 .. i - 1) = i - 1
    BY <1>2
  <2>1. i - 1 \in Int /\ (1 > i - 1 => i - 1 = 0) /\ (i - 1) - 1 + 1 = i - 1
    BY <1>1
  <2>2. QED BY <2>1, FS_Interval
<1>4. \A k \in 1 .. n : (CHOOSE i \in 1 .. n : Cardinality(B[i]) = k - 1) = k
  <2> SUFFICES ASSUME NEW k \in 1 .. n
               PROVE  (CHOOSE i \in 1 .. n : Cardinality(B[i]) = k - 1) = k
    OBVIOUS
  <2>1. \A i \in 1 .. n : Cardinality(B[i]) = k - 1 => i = k
    BY <1>1, <1>3
  <2>2. Cardinality(B[k]) = k - 1
    BY <1>3
  <2>3. QED BY <2>1, <2>2
<1>5. sortBlocks(s) = [k \in 1 .. n |-> s[CHOOSE i \in 1 .. n : Cardinality(B[i]) = k - 1]]
  BY <1>1 DEF sortBlocks, Sorted, BlocksBefore
<1> HIDE DEF B
<1>6. sortBlocks(s) = [k \in 1 .. n |-> s[k]]
  BY <1>4, <1>5
<1>7. s = [k \in 1 .. n |-> s[k]]
  BY <1>1
<1>8. QED BY <1>6, <1>7

\* The first k blocks with the numbers that a new bundle gives them
Renumber(s, k) == [i \in 1 .. k |-> [s[i] EXCEPT !.num = i + 1]]

LEMMA NumberSet ==
    ASSUME NEW x \in BlockRec, NEW m \in Nat
    PROVE  /\ [x EXCEPT !.num = m] \in BlockRec
           /\ [x EXCEPT !.num = m].num = m
           /\ [x EXCEPT !.num = m].type = x.type
           /\ [x EXCEPT !.num = m].flags = x.flags
           /\ [x EXCEPT !.num = m].data = x.data
BY DEF BlockRec

LEMMA RenumberFacts ==
    ASSUME NEW s \in Seq(BlockRec), NEW k \in 0 .. Len(s)
    PROVE  /\ Renumber(s, k) \in Seq(BlockRec) /\ Len(Renumber(s, k)) = k
           /\ \A i \in 1 .. k : /\ Renumber(s, k)[i] = [s[i] EXCEPT !.num = i + 1]
                                /\ Renumber(s, k)[i].num = i + 1
                                /\ Renumber(s, k)[i].type = s[i].type
                                /\ Renumber(s, k)[i].flags = s[i].flags
                                /\ Renumber(s, k)[i].data = s[i].data
<1> DEFINE r == Renumber(s, k)
<1>1. k \in Nat /\ \A i \in 1 .. k : s[i] \in BlockRec
  OBVIOUS
<1>2. \A i \in 1 .. k : r[i] = [s[i] EXCEPT !.num = i + 1]
  BY DEF Renumber
<1>3. \A i \in 1 .. k : /\ [s[i] EXCEPT !.num = i + 1] \in BlockRec
                        /\ [s[i] EXCEPT !.num = i + 1].num = i + 1
                        /\ [s[i] EXCEPT !.num = i + 1].type = s[i].type
                        /\ [s[i] EXCEPT !.num = i + 1].flags = s[i].flags
                        /\ [s[i] EXCEPT !.num = i + 1].data = s[i].data
  BY <1>1, NumberSet
<1>4. r \in [1 .. k -> BlockRec]
  BY <1>3 DEF Renumber
<1> HIDE DEF r
<1>5. r \in Seq(BlockRec) /\ Len(r) = k
  BY <1>1, <1>4
<1>6. QED BY <1>2, <1>3, <1>5 DEF r

\* The places of numbered blocks
LEMMA NumbersFollow ==
    ASSUME NEW s \in Seq(BlockRec), \A i \in DOMAIN s : s[i].num = i + 1
    PROVE  Numbers(s) = 2 .. Len(s) + 1
<1> DEFINE n == Len(s)
<1>1. n \in Nat /\ DOMAIN s = 1 .. n
  OBVIOUS
<1> HIDE DEF n
<1>2. Numbers(s) = {s[i].num : i \in 1 .. n}
  BY <1>1 DEF Numbers
<1>3. ASSUME NEW x \in Numbers(s) PROVE x \in 2 .. n + 1
  <2>1. PICK i \in 1 .. n : x = s[i].num
    BY <1>2
  <2>2. x = i + 1
    BY <1>1, <2>1
  <2>3. QED BY <1>1, <2>2
<1>4. ASSUME NEW x \in 2 .. n + 1 PROVE x \in Numbers(s)
  <2>1. x - 1 \in 1 .. n /\ (x - 1) + 1 = x
    BY <1>1
  <2>2. s[x - 1].num = x
    BY <1>1, <2>1
  <2>3. QED BY <1>2, <2>1, <2>2
<1>5. QED BY <1>3, <1>4 DEF n

\* AddExtensionBlock at the end of such blocks
LEMMA AddsAtEnd ==
    ASSUME NEW s \in Seq(BlockRec), \A i \in DOMAIN s : s[i].num = i + 1, NEW cb \in BlockRec
    PROVE  AddExtensionBlock(s, cb) =
              Append(s, [cb EXCEPT !.num = IF cb.type = "payload" THEN 1 ELSE Len(s) + 2])
<1> DEFINE n == Len(s)
           first == IF cb.type = "payload" THEN 1 ELSE 2
           free == (first .. first + n) \ Numbers(s)
           m == IF cb.type = "payload" THEN 1 ELSE n + 2
           new == [cb EXCEPT !.num = m]
           r == Append(s, new)
<1>1. n \in Nat /\ DOMAIN s = 1 .. n
  OBVIOUS
<1>2. Numbers(s) = 2 .. n + 1
  BY NumbersFollow
<1> HIDE DEF n
<1>3. Min(free) = m
  <2>1. CASE cb.type = "payload"
    <3>1. m \in free /\ free \subseteq Int /\ \A x \in free : m <= x
      BY <1>1, <1>2, <2>1
    <3> HIDE DEF free, m
    <3>2. QED BY <3>1, MinIsLeast
  <2>2. CASE cb.type # "payload"
    <3>1. m \in free /\ free \subseteq Int /\ \A x \in free : m <= x
      BY <1>1, <1>2, <2>2
    <3> HIDE DEF free, m
    <3>2. QED BY <3>1, MinIsLeast
  <2>3. QED BY <2>1, <2>2
<1>4. AddExtensionBlock(s, cb) = sortBlocks(r)
  BY <1>3 DEF AddExtensionBlock, n
<1>5. m \in Nat
  BY <1>1
<1> HIDE DEF m
<1>6. new \in BlockRec /\ new.num = m
  BY <1>5 DEF BlockRec
<1> HIDE DEF new
<1>7. /\ r \in Seq(BlockRec) /\ Len(r) = n + 1
      /\ \A i \in 1 .. n : r[i] = s[i]
      /\ r[n + 1] = new
  BY <1>6, AppendProperties DEF n
<1> HIDE DEF r
<1>8. DOMAIN r = 1 .. n + 1
  BY <1>1, <1>7
<1>9. \A i \in 1 .. n : r[i].num = i + 1
  BY <1>1, <1>7
<1>10. r[n + 1].num = 1 \/ r[n + 1].num = n + 2
  BY <1>6, <1>7 DEF m
<1>11. ASSUME NEW i \in DOMAIN r, NEW j \in DOMAIN r, i < j PROVE Precedes(r, i, j)
  <2>1. i \in 1 .. n /\ i \in Nat /\ j \in Nat /\ (j \in 1 .. n \/ j = n + 1)
    BY <1>1, <1>8, <1>11
  <2>2. r[i].num = i + 1
    BY <1>9, <2>1
  <2>3. r[j].num = 1 \/ r[j].num = j + 1
    BY <1>1, <1>9, <1>10, <2>1
  <2>4. QED BY <1>11, <2>1, <2>2, <2>3 DEF Precedes, Less
<1>12. sortBlocks(r) = r
  BY <1>7, <1>11, SortedAlready
<1>13. QED BY <1>4, <1>12 DEF r, new, m, n

(***************************************************************************)
(* All blocks but the last: a new bundle gets them in their order with the *)
(* numbers from 2.                                                         *)
(***************************************************************************)
LEMMA AddsAll ==
    ASSUME NEW s \in Seq(BlockRec), NEW n \in Nat, Len(s) = n + 1,
           \A i \in 1 .. n : s[i].type # "payload"
    PROVE  AddExtensionBlocks(s, 1 .. n) = Renumber(s, n)
<1>0. PICK g : IsAdding(s, 1 .. n, g)
  BY AddsInTurn
<1>1. /\ g[0] = <<>>
      /\ \A k \in 1 .. n + 1 :
            g[k] = IF k \in 1 .. n THEN AddExtensionBlock(g[k - 1], s[k]) ELSE g[k - 1]
      /\ AddExtensionBlocks(s, 1 .. n) = g[n + 1]
  BY <1>0 DEF IsAdding
<1> DEFINE bad == {k \in 0 .. n : g[k] # Renumber(s, k)}
<1>2. ASSUME bad # {} PROVE FALSE
  <2> DEFINE m == Min(bad)
  <2>1. m \in bad /\ \A x \in bad : m <= x
    <3>1. bad \subseteq Nat
      OBVIOUS
    <3> HIDE DEF bad
    <3>2. QED BY <1>2, <3>1, MinExists
  <2> HIDE DEF m
  <2>2. m # 0
    <3>1. Renumber(s, 0) = <<>>
      BY DEF Renumber
    <3>2. QED BY <1>1, <2>1, <3>1
  <2>3. m \in 1 .. n /\ m - 1 \in 0 .. n /\ m - 1 < m /\ m \in Nat /\ m \in 1 .. n + 1
    BY <2>1, <2>2
  <2>4. g[m - 1] = Renumber(s, m - 1)
    BY <2>1, <2>3
  <2> DEFINE p == Renumber(s, m - 1)
             cb == s[m]
             new == [cb EXCEPT !.num = m + 1]
             t == Append(p, new)
  <2>5. g[m] = AddExtensionBlock(p, cb)
    <3> HIDE DEF bad
    <3> QED BY <1>1, <2>3, <2>4
  <2>6. /\ p \in Seq(BlockRec) /\ Len(p) = m - 1
        /\ \A i \in 1 .. m - 1 : p[i] = [s[i] EXCEPT !.num = i + 1] /\ p[i].num = i + 1
    <3>1. m - 1 \in 0 .. Len(s)
      BY <2>3
    <3>2. QED BY <3>1, RenumberFacts
  <2>7. cb \in BlockRec /\ cb.type # "payload"
    BY <2>3
  <2> HIDE DEF p, cb
  <2>8. DOMAIN p = 1 .. m - 1
    BY <2>3, <2>6
  <2>9. (m - 1) + 2 = m + 1
    BY <2>3
  <2>10. g[m] = t
    BY <2>5, <2>6, <2>7, <2>8, <2>9, AddsAtEnd
  <2>11. new \in BlockRec
    <3>1. m + 1 \in Nat
      BY <2>3
    <3>2. QED BY <2>7, <3>1, NumberSet
  <2> HIDE DEF new
  <2>12. /\ t \in Seq(BlockRec) /\ Len(t) = m
         /\ \A i \in 1 .. m - 1 : t[i] = p[i]
         /\ t[m] = new
    <3>1. /\ t \in Seq(BlockRec) /\ Len(t) = Len(p) + 1
          /\ \A i \in 1 .. Len(p) : t[i] = p[i]
          /\ t[Len(p) + 1] = new
      BY <2>6, <2>11, AppendProperties
    <3>2. (m - 1) + 1 = m
      BY <2>3
    <3> HIDE DEF t
    <3>3. QED BY <2>6, <3>1, <3>2
  <2> HIDE DEF t
  <2>13. t = [i \in 1 .. m |-> t[i]]
    BY <2>3, <2>12
  <2>14. \A i \in 1 .. m : t[i] = [s[i] EXCEPT !.num = i + 1]
    <3> SUFFICES ASSUME NEW i \in 1 .. m PROVE t[i] = [s[i] EXCEPT !.num = i + 1]
      OBVIOUS
    <3>1. CASE i = m
      BY <2>12, <3>1 DEF new, cb
    <3>2. CASE i # m
      <4>1. i \in 1 .. m - 1
        BY <2>3, <3>2
      <4>2. QED BY <2>6, <2>12, <4>1
    <3>3. QED BY <3>1, <3>2
  <2>15. t = Renumber(s, m)
    BY <2>13, <2>14 DEF Renumber
  <2>16. QED BY <2>1, <2>10, <2>15
<1>3. n \in 0 .. n /\ n + 1 \in 1 .. n + 1 /\ n + 1 \notin 1 .. n /\ (n + 1) - 1 = n
  OBVIOUS
<1>4. g[n] = Renumber(s, n)
  BY <1>2, <1>3
<1>5. g[n + 1] = g[n]
  BY <1>1, <1>3
<1>6. QED BY <1>1, <1>4, <1>5

-----------------------------------------------------------------------------
\* A fragment

LEMMA PayloadIsLast ==
    ASSUME NEW b, WellFormed(b), CheckValid(b, FALSE)
    PROVE  LET s == b.blocks
               n == Len(s)
           IN  /\ s \in Seq(BlockRec) /\ n \in Nat /\ n > 0 /\ DOMAIN s = 1 .. n
               /\ s[n].type = "payload" /\ \A i \in 1 .. n - 1 : s[i].type # "payload"
               /\ ExtensionBlocks(b, "payload") = {n} /\ HasExactlyOne(b, "payload")
               /\ PayloadBlock(b) = s[n] /\ PayloadBlock(b) \in BlockRec
               /\ Data(b) = s[n].data /\ Data(b) \in Seq(Nat)
<1> DEFINE s == b.blocks
           n == Len(s)
<1>1. s \in Seq(BlockRec) /\ n \in Nat /\ DOMAIN s = 1 .. n
  BY DEF WellFormed
<1>2. SoundBlocks(b.primary, s) /\ PayloadLast(s)
  BY ValidIsSound
<1> HIDE DEF n
<1>3. s # <<>> /\ s[n].type = "payload"
  BY <1>2 DEF PayloadLast, n
<1>4. n > 0
  BY <1>1, <1>3 DEF n
<1>5. n \in 1 .. n
  BY <1>1, <1>4
<1>6. ASSUME NEW i \in 1 .. n, i # n PROVE s[i].type # "payload"
  <2>1. s[i].num # s[n].num
    BY <1>1, <1>2, <1>5, <1>6 DEF SoundBlocks
  <2>2. BlockValid(s[i]) /\ BlockValid(s[n])
    BY <1>1, <1>2, <1>5 DEF SoundBlocks
  <2>3. QED BY <1>3, <2>1, <2>2 DEF BlockValid
<1>7. \A i \in 1 .. n - 1 : s[i].type # "payload"
  BY <1>1, <1>6
<1>8. ExtensionBlocks(b, "payload") = {n}
  BY <1>1, <1>3, <1>5, <1>6 DEF ExtensionBlocks
<1>9. HasExactlyOne(b, "payload")
  BY <1>1, <1>5, <1>8 DEF HasExactlyOne
<1>10. Min({n}) = n
  <2> DEFINE S == {n}
  <2>1. n \in S /\ S \subseteq Int /\ \A x \in S : n <= x
    BY <1>1
  <2> HIDE DEF S
  <2>2. Min(S) = n
    BY <2>1, MinIsLeast
  <2>3. QED BY <2>2 DEF S
<1>11. PayloadBlock(b) = s[n]
  BY <1>8, <1>10 DEF PayloadBlock
<1>12. s[n] \in BlockRec
  BY <1>1, <1>5
<1>13. s[n].data \in Seq(Nat)
  BY <1>12 DEF BlockRec
<1>14. Data(b) = s[n].data
  BY <1>11 DEF Data
<1>15. QED BY <1>1, <1>3, <1>4, <1>7, <1>8, <1>9, <1>11, <1>12, <1>13, <1>14 DEF n

\* One of several blocks that AddExtensionBlock was given last
LEMMA AddedIsThere ==
    ASSUME NEW s \in Seq(BlockRec), NEW cb \in BlockRec
    PROVE  \E k \in DOMAIN AddExtensionBlock(s, cb) :
              LET x == AddExtensionBlock(s, cb)[k]
              IN  x.type = cb.type /\ x.flags = cb.flags /\ x.data = cb.data
<1> DEFINE first == IF cb.type = "payload" THEN 1 ELSE 2
           m == Min((first .. first + Len(s)) \ Numbers(s))
           new == [cb EXCEPT !.num = m]
           t == Append(s, new)
           r == sortBlocks(t)
<1>1. first \in Nat
  OBVIOUS
<1> HIDE DEF first
<1>2. m \in Nat
  BY <1>1, FreeNumber
<1>3. AddExtensionBlock(s, cb) = r
  BY DEF AddExtensionBlock, first
<1> HIDE DEF m
<1>4. new \in BlockRec /\ new.type = cb.type /\ new.flags = cb.flags /\ new.data = cb.data
  BY <1>2, NumberSet
<1> HIDE DEF new
<1>5. t \in Seq(BlockRec) /\ Len(t) = Len(s) + 1 /\ t[Len(s) + 1] = new
  BY <1>4, AppendProperties
<1>6. Len(s) + 1 \in DOMAIN t
  <2> HIDE DEF t
  <2> QED BY <1>5
<1> HIDE DEF t
<1>7. /\ r \in Seq(BlockRec) /\ Len(r) = Len(t)
      /\ \E f : /\ f \in [DOMAIN t -> DOMAIN t]
                /\ \A i \in DOMAIN t : \E k \in DOMAIN t : f[k] = i
                /\ \A k \in DOMAIN t : r[k] = t[f[k]]
                /\ \A k, l \in DOMAIN t : k < l => Precedes(t, f[k], f[l])
  BY <1>5, BlocksSorted
<1> HIDE DEF r
<1>8. DOMAIN r = DOMAIN t
  BY <1>5, <1>7
<1>9. PICK k \in DOMAIN t : r[k] = new
  BY <1>5, <1>6, <1>7
<1>10. QED BY <1>3, <1>4, <1>8, <1>9

LEMMA DataSet ==
    ASSUME NEW x \in BlockRec, x.type = "payload", NEW d \in Seq(Nat)
    PROVE  /\ [x EXCEPT !.data = d] \in BlockRec
           /\ [x EXCEPT !.data = d].type = "payload"
           /\ [x EXCEPT !.data = d].flags = x.flags
           /\ [x EXCEPT !.data = d].data = d
BY DEF BlockRec

LEMMA FragmentFacts ==
    ASSUME NEW o, WellFormed(o), CheckValid(o, FALSE),
           NEW i \in Nat, NEW hi \in Nat, hi <= Len(Data(o))
    PROVE  LET x == FragmentOf(o, i, hi)
           IN  /\ WellFormed(x) /\ IsFragment(x)
               /\ x.primary = fragmentPrimaryBlock(o.primary, i, Len(Data(o)))
               /\ x.primary.off = i /\ x.primary.total = Len(Data(o))
               /\ CheckValid(x, FALSE) =>
                     /\ Data(x) = SubSeq(Data(o), i + 1, hi)
                     /\ PayloadBlock(x).flags = PayloadBlock(o).flags
<1> DEFINE x == FragmentOf(o, i, hi)
           s == o.blocks
           D == Data(o)
           taken == {k \in DOMAIN s : s[k].type # "payload" /\ (i = 0 \/ "replicate" \in s[k].flags)}
           d == SubSeq(D, i + 1, hi)
           pl == [PayloadBlock(o) EXCEPT !.data = d]
           rest == AddExtensionBlocks(s, taken)
           p == fragmentPrimaryBlock(o.primary, i, Len(D))
<1>1. x = [primary |-> p, blocks |-> AddExtensionBlock(rest, pl)]
  BY DEF FragmentOf
<1>2. /\ s \in Seq(BlockRec) /\ PayloadBlock(o) \in BlockRec /\ D \in Seq(Nat)
      /\ PayloadBlock(o).type = "payload"
  BY PayloadIsLast
<1>3. PICK g : IsAdding(s, taken, g)
  BY <1>2, AddsInTurn
<1>4. rest \in Seq(BlockRec)
  <2>1. Len(s) \in Nat
    BY <1>2
  <2>2. Len(s) \in 0 .. Len(s)
    BY <2>1
  <2>3. QED BY <1>3, <2>2 DEF IsAdding
<1> HIDE DEF rest, taken
<1>5. d \in Seq(Nat)
  <2> HIDE DEF D
  <2>1. Len(D) \in Nat /\ \A k \in 1 .. Len(D) : D[k] \in Nat
    BY <1>2
  <2>2. \A k \in i + 1 .. hi : D[k] \in Nat
    BY <2>1 DEF D
  <2>3. i + 1 \in Int /\ hi \in Int
    OBVIOUS
  <2>4. QED BY <2>2, <2>3, SubSeqProperties
<1> HIDE DEF d
<1>6. pl \in BlockRec /\ pl.type = "payload" /\ pl.flags = PayloadBlock(o).flags /\ pl.data = d
  BY <1>2, <1>5, DataSet
<1> HIDE DEF pl
<1>7. AddExtensionBlock(rest, pl) \in Seq(BlockRec)
  BY <1>4, <1>6, AddIsTyped
<1>8. o.primary \in PrimaryRec /\ Len(D) \in Nat
  BY <1>2 DEF WellFormed
<1> HIDE DEF D
<1>9. p \in PrimaryRec /\ p.off = i /\ p.total = Len(D) /\ "fragment" \in p.flags
  BY <1>8 DEF fragmentPrimaryBlock, PrimaryRec, BundleFlags
<1> HIDE DEF p
<1> DEFINE a == AddExtensionBlock(rest, pl)
<1>10. a \in Seq(BlockRec)
  BY <1>7
<1>11. \E k \in DOMAIN a : a[k].type = "payload" /\ a[k].flags = pl.flags /\ a[k].data = pl.data
  BY <1>4, <1>6, AddedIsThere
<1>12. x = [primary |-> p, blocks |-> a]
  BY <1>1
<1> HIDE DEF a, x
<1>13. WellFormed(x) /\ IsFragment(x) /\ x.primary = p /\ x.blocks = a
  BY <1>9, <1>10, <1>12 DEF WellFormed, IsFragment
<1>14. ASSUME CheckValid(x, FALSE)
       PROVE  Data(x) = d /\ PayloadBlock(x).flags = PayloadBlock(o).flags
  <2>1. LET n == Len(x.blocks)
        IN  /\ n \in Nat /\ DOMAIN x.blocks = 1 .. n
            /\ \A k \in 1 .. n - 1 : x.blocks[k].type # "payload"
            /\ PayloadBlock(x) = x.blocks[n] /\ Data(x) = x.blocks[n].data
    BY <1>13, <1>14, PayloadIsLast
  <2>2. PICK k \in DOMAIN a : a[k].type = "payload" /\ a[k].flags = pl.flags /\ a[k].data = pl.data
    BY <1>11
  <2> DEFINE n == Len(a)
  <2>3. /\ n \in Nat /\ DOMAIN a = 1 .. n /\ \A l \in 1 .. n - 1 : a[l].type # "payload"
        /\ PayloadBlock(x) = a[n] /\ Data(x) = a[n].data
    BY <1>13, <2>1
  <2> HIDE DEF n
  <2>4. k = n
    <3>1. k \in 1 .. n /\ k \notin 1 .. n - 1
      BY <2>2, <2>3
    <3>2. QED BY <2>3, <3>1
  <2>5. QED BY <1>6, <2>2, <2>3, <2>4
<1>15. QED BY <1>9, <1>13, <1>14 DEF x, p, D, d

\* The first fragment has all the blocks, in their order.
LEMMA FirstFragment ==
    ASSUME NEW o, WellFormed(o), CheckValid(o, FALSE), NEW hi \in Nat, hi <= Len(Data(o))
    PROVE  LET n == Len(o.blocks)
               last == [o.blocks[n] EXCEPT !.data = SubSeq(Data(o), 1, hi), !.num = 1]
           IN  FragmentOf(o, 0, hi).blocks = Append(Renumber(o.blocks, n - 1), last)
<1> DEFINE s == o.blocks
           n == Len(s)
           D == Data(o)
           taken == {k \in DOMAIN s : s[k].type # "payload" /\ (0 = 0 \/ "replicate" \in s[k].flags)}
           d == SubSeq(D, 0 + 1, hi)
           pl == [PayloadBlock(o) EXCEPT !.data = d]
           r == Renumber(s, n - 1)
<1>1. FragmentOf(o, 0, hi).blocks = AddExtensionBlock(AddExtensionBlocks(s, taken), pl)
  BY DEF FragmentOf
<1>2. /\ s \in Seq(BlockRec) /\ n \in Nat /\ n > 0 /\ DOMAIN s = 1 .. n
      /\ s[n].type = "payload" /\ \A i \in 1 .. n - 1 : s[i].type # "payload"
      /\ PayloadBlock(o) = s[n] /\ s[n] \in BlockRec /\ D \in Seq(Nat)
  BY PayloadIsLast
<1> HIDE DEF n
<1>3. n - 1 \in Nat /\ n = (n - 1) + 1 /\ n - 1 \in 0 .. n
  BY <1>2
<1>4. taken = 1 .. n - 1
  <2>1. \A k \in 1 .. n : k = n \/ k \in 1 .. n - 1
    BY <1>2
  <2>2. \A k \in 1 .. n - 1 : k \in 1 .. n
    BY <1>2
  <2>3. QED BY <1>2, <2>1, <2>2
<1> HIDE DEF taken
<1>5. AddExtensionBlocks(s, taken) = r
  BY <1>2, <1>3, <1>4, AddsAll DEF n
<1>6. /\ r \in Seq(BlockRec) /\ Len(r) = n - 1
      /\ \A i \in 1 .. n - 1 : r[i].num = i + 1
  <2>1. n - 1 \in 0 .. Len(s)
    BY <1>3 DEF n
  <2>2. QED BY <1>2, <2>1, RenumberFacts
<1> HIDE DEF r
<1>7. DOMAIN r = 1 .. n - 1
  BY <1>3, <1>6
<1>8. d \in Seq(Nat)
  <2> HIDE DEF D
  <2>1. Len(D) \in Nat /\ \A k \in 1 .. Len(D) : D[k] \in Nat
    BY <1>2
  <2>2. \A k \in 0 + 1 .. hi : D[k] \in Nat
    BY <2>1 DEF D
  <2>3. 0 + 1 \in Int /\ hi \in Int
    OBVIOUS
  <2>4. QED BY <2>2, <2>3, SubSeqProperties
<1>9. d = SubSeq(D, 1, hi)
  OBVIOUS
<1> HIDE DEF d, D
<1>10. pl \in BlockRec /\ pl.type = "payload"
  BY <1>2, <1>8, DataSet
<1>11. AddExtensionBlock(r, pl) = Append(r, [pl EXCEPT !.num = 1])
  <2> HIDE DEF pl
  <2> QED BY <1>6, <1>7, <1>10, AddsAtEnd
<1>12. [pl EXCEPT !.num = 1] = [s[n] EXCEPT !.data = d, !.num = 1]
  BY <1>2
<1>13. QED BY <1>1, <1>5, <1>9, <1>11, <1>12 DEF r, n, D

-----------------------------------------------------------------------------
\* The fragments for one MTU

Overhead(o, k) ==
    1 + 3 + (IF k = 1 THEN fragmentExtensionBlocksLen(o).first
             ELSE fragmentExtensionBlocksLen(o).others)
Start(o, mtu, k) ==
    IF k = 1 THEN 0 ELSE (mtu - Overhead(o, 1)) + (k - 2) * (mtu - Overhead(o, 2))
Stop(o, mtu, k) == Min({Start(o, mtu, k) + mtu - Overhead(o, k), Len(Data(o))})
Part(o, mtu, k) == FragmentOf(o, Start(o, mtu, k), Stop(o, mtu, k))
Reached(o, mtu) ==
    {k \in 1 .. Len(Data(o)) : \A j \in 1 .. k : Start(o, mtu, j) < Len(Data(o))}
Count(o, mtu) == Cardinality(Reached(o, mtu))

\* The fragments are valid, and each one begins where the one before ends.
Splits(o, mtu) ==
    LET len == Len(Data(o))
        c == Count(o, mtu)
        start(k) == Start(o, mtu, k)
        stop(k) == Stop(o, mtu, k)
    IN  /\ c \in Nat /\ c > 1
        /\ Fragment(o, mtu).bs = [k \in 1 .. c |-> Part(o, mtu, k)]
        /\ \A k \in 1 .. c : /\ CheckValid(Part(o, mtu, k), FALSE)
                             /\ start(k) \in Nat /\ stop(k) \in Nat
                             /\ start(k) < stop(k) /\ stop(k) <= len
                             /\ stop(k) - start(k) <= mtu - Overhead(o, k)
        /\ start(1) = 0 /\ stop(c) = len
        /\ \A k \in 1 .. c - 1 : stop(k) = start(k + 1)
        /\ \A j, k \in 1 .. c : j < k => start(j) < start(k)

LEMMA MinOfTwo ==
    ASSUME NEW x \in Int, NEW y \in Int
    PROVE  Min({x, y}) = IF x <= y THEN x ELSE y
<1> DEFINE S == {x, y}
           m == IF x <= y THEN x ELSE y
<1>1. m \in S /\ S \subseteq Int /\ \A z \in S : m <= z
  OBVIOUS
<1> HIDE DEF S, m
<1>2. Min(S) = m
  BY <1>1, MinIsLeast
<1>3. QED BY <1>2 DEF S, m

LEMMA ProductGrows ==
    ASSUME NEW a \in Nat, NEW b \in Nat, a < b, NEW n \in Nat, n > 0
    PROVE  a * n < b * n /\ b * n >= b /\ b * n \in Nat /\ a * n \in Nat
OBVIOUS

\* A set of numbers that has with each number all the smaller ones
LEMMA DownwardClosed ==
    ASSUME NEW len \in Nat, NEW S, S \subseteq 1 .. len,
           \A k \in S : \A j \in 1 .. k : j \in S
    PROVE  Cardinality(S) \in Nat /\ S = 1 .. Cardinality(S)
<1>1. IsFiniteSet(1 .. len) /\ Cardinality(1 .. len) = len
  BY FS_Interval
<1>2. IsFiniteSet(S) /\ Cardinality(S) \in Nat /\ Cardinality(S) <= len
  BY <1>1, FS_Subset, FS_CardinalityType
<1>3. ASSUME NEW k \in 1 .. Cardinality(S), k \notin S PROVE FALSE
  <2>1. k \in Nat /\ k >= 1 /\ k <= Cardinality(S)
    BY <1>2, <1>3
  <2>2. S \subseteq 1 .. k - 1
    BY <1>3, <2>1
  <2>3. IsFiniteSet(1 .. k - 1) /\ Cardinality(1 .. k - 1) = k - 1
    BY <2>1, FS_Interval
  <2>4. Cardinality(S) <= k - 1
    BY <2>2, <2>3, FS_Subset
  <2>5. QED BY <1>2, <2>1, <2>4
<1>4. ASSUME NEW k \in S PROVE k \in 1 .. Cardinality(S)
  <2>1. k \in Nat /\ k >= 1 /\ 1 .. k \in SUBSET S
    OBVIOUS
  <2>2. Cardinality(1 .. k) = k
    BY <2>1, FS_Interval
  <2>3. Cardinality(1 .. k) <= Cardinality(S)
    BY <1>2, <2>1, FS_Subset
  <2>4. QED BY <1>2, <2>1, <2>2, <2>3
<1>5. QED BY <1>2, <1>3, <1>4

LEMMA OverheadIsNat ==
    ASSUME NEW o, WellFormed(o)
    PROVE  /\ IsFiniteSet(DOMAIN o.blocks) /\ Cardinality(DOMAIN o.blocks) = Len(o.blocks)
           /\ Overhead(o, 1) = 4 + 2 * Len(o.blocks)
           /\ \A k : k # 1 => Overhead(o, k) = Overhead(o, 2)
           /\ Overhead(o, 1) \in Nat /\ Overhead(o, 2) \in Nat
<1> DEFINE n == Len(o.blocks)
           D == DOMAIN o.blocks
           rep == {i \in D : "replicate" \in o.blocks[i].flags}
           pay == ExtensionBlocks(o, "payload")
<1>1. n \in Nat /\ D = 1 .. n
  BY DEF WellFormed
<1>2. rep \in SUBSET D /\ pay \in SUBSET D
  BY DEF ExtensionBlocks
<1>3. /\ fragmentExtensionBlocksLen(o).first = 2 * Cardinality(D)
      /\ fragmentExtensionBlocksLen(o).others = 2 * Cardinality(rep) + 2 * Cardinality(pay)
  BY DEF fragmentExtensionBlocksLen
<1> HIDE DEF n, D, rep, pay
<1>4. IsFiniteSet(D) /\ Cardinality(D) = n
  <2>1. IsFiniteSet(1 .. n) /\ Cardinality(1 .. n) = n
    BY <1>1, FS_Interval
  <2>2. QED BY <1>1, <2>1
<1>5. Cardinality(rep) \in Nat /\ Cardinality(pay) \in Nat
  BY <1>2, <1>4, FS_Subset, FS_CardinalityType
<1>6. /\ Overhead(o, 1) = 4 + 2 * n
      /\ \A k : k # 1 => Overhead(o, k) = 4 + (2 * Cardinality(rep) + 2 * Cardinality(pay))
  BY <1>1, <1>3, <1>4, <1>5 DEF Overhead
<1>7. QED BY <1>1, <1>4, <1>5, <1>6 DEF n, D

(***************************************************************************)
(* Fragment gives nothing, the bundle itself if it fits the first fragment,*)
(* or the parts of its payload.                                            *)
(***************************************************************************)
LEMMA FragmentResults ==
    ASSUME NEW o, WellFormed(o), CheckValid(o, FALSE), NEW mtu \in Nat
    PROVE  \/ Fragment(o, mtu).bs = <<>>
           \/ /\ Fragment(o, mtu).bs = <<o>>
              /\ Len(Data(o)) + Overhead(o, 1) <= mtu
           \/ Splits(o, mtu)
<1> DEFINE len == Len(Data(o))
           c == Count(o, mtu)
           R == Reached(o, mtu)
           start(k) == Start(o, mtu, k)
           stop(k) == Stop(o, mtu, k)
           bs == Fragment(o, mtu).bs
           ov1 == Overhead(o, 1)
           ov2 == Overhead(o, 2)
           long == [k \in 1 .. c |-> Part(o, mtu, k)]
<1>1. \/ bs = <<>>
      \/ /\ ~(len > 0 /\ ov1 >= mtu) /\ ~(len > 0 /\ start(2) < len /\ ov2 >= mtu)
         /\ \A k \in R : CheckValid(Part(o, mtu, k), FALSE)
         /\ bs = IF c = 1 THEN <<o>> ELSE long
  BY DEF Fragment, Overhead, Start, Stop, Part, Reached, Count
<1>2. len \in Nat
  BY PayloadIsLast
<1>3. ov1 \in Nat /\ ov2 \in Nat /\ \A k : k # 1 => Overhead(o, k) = ov2
  BY OverheadIsNat
<1>4. start(1) = 0 /\ start(2) = mtu - ov1
  <2> HIDE DEF ov1, ov2
  <2>1. start(1) = 0 /\ start(2) = (mtu - ov1) + (2 - 2) * (mtu - ov2)
    BY DEF Start, ov1, ov2
  <2>2. (2 - 2) * (mtu - ov2) = 0
    BY <1>3
  <2>3. QED BY <1>3, <2>1, <2>2
<1>5. c \in Nat /\ R = 1 .. c
  <2>1. R \subseteq 1 .. len /\ \A k \in R : \A j \in 1 .. k : j \in R
    <3> HIDE DEF len, start
    <3>1. R = {k \in 1 .. len : \A j \in 1 .. k : start(j) < len}
      BY DEF Reached, len, start
    <3>2. QED BY <1>2, <3>1
  <2> HIDE DEF R
  <2>2. Cardinality(R) \in Nat /\ R = 1 .. Cardinality(R)
    BY <1>2, <2>1, DownwardClosed
  <2>3. QED BY <2>2 DEF Count, R
<1>6. \A k \in 1 .. c : k \in 1 .. len /\ start(k) < len
  <2>1. \A k \in R : k \in 1 .. len /\ k \in 1 .. k /\ \A j \in 1 .. k : start(j) < len
    BY DEF Reached
  <2>2. QED BY <1>5, <2>1
<1>7. c + 1 \in 1 .. len => start(c + 1) >= len
  <2> HIDE DEF len, start, c, R
  <2> SUFFICES ASSUME c + 1 \in 1 .. len, ~(start(c + 1) >= len) PROVE FALSE
    OBVIOUS
  <2>1. c + 1 \notin R
    BY <1>5
  <2>2. PICK j \in 1 .. c + 1 : ~(start(j) < len)
    BY <2>1 DEF Reached, R, len, start
  <2>3. j = c + 1
    BY <1>5, <1>6, <2>2
  <2>4. start(c + 1) \in Int
    <3> HIDE DEF ov1, ov2
    <3>1. \A k \in Nat : start(k) = IF k = 1 THEN 0 ELSE (mtu - ov1) + (k - 2) * (mtu - ov2)
      BY DEF Start, start, ov1, ov2
    <3>2. \A k \in Nat : start(k) \in Int
      BY <1>3, <3>1
    <3>3. QED BY <1>5, <3>2
  <2>5. QED BY <1>2, <2>2, <2>3, <2>4
<1>8. CASE bs = <<>>
  BY <1>8
<1> HIDE DEF len, start, stop, c, R, ov1, ov2, bs
<1>9. CASE bs = <<o>> /\ c = 1 /\ ~(len > 0 /\ ov1 >= mtu)
  <2>1. 1 \in 1 .. len
    BY <1>6, <1>9
  <2>2. len > 0 /\ ov1 < mtu
    BY <1>2, <1>3, <1>9, <2>1
  <2>3. len >= 2 => mtu - ov1 >= len
    <3>1. len >= 2 => 1 + 1 \in 1 .. len
      BY <1>2
    <3>2. 1 + 1 = 2
      OBVIOUS
    <3>3. QED BY <1>4, <1>7, <1>9, <3>1, <3>2
  <2>4. len + ov1 <= mtu
    BY <1>2, <1>3, <2>2, <2>3
  <2>5. QED BY <1>9, <2>4 DEF bs, len, ov1
<1>10. CASE /\ ~(len > 0 /\ ov1 >= mtu) /\ ~(len > 0 /\ start(2) < len /\ ov2 >= mtu)
            /\ \A k \in R : CheckValid(Part(o, mtu, k), FALSE)
            /\ c # 1 /\ bs = long /\ bs # <<>>
  <2>1. c > 1
    <3>1. c = 0 => long = <<>>
      OBVIOUS
    <3>2. QED BY <1>5, <1>10, <3>1
  <2>2. 1 \in 1 .. c /\ 2 \in 1 .. c
    BY <1>5, <2>1
  <2>3. len > 0 /\ ov1 < mtu /\ start(2) < len /\ ov2 < mtu
    BY <1>2, <1>3, <1>6, <1>10, <2>2
  <2> DEFINE A == mtu - ov1
             B == mtu - ov2
  <2>4. A \in Nat /\ A > 0 /\ B \in Nat /\ B > 0
    BY <1>3, <2>3
  <2>5. \A k \in Nat : k # 1 => start(k) = A + (k - 2) * B
    BY DEF start, Start, ov1, ov2
  <2> HIDE DEF A, B
  <2>6. ASSUME NEW k \in Nat, k >= 1
        PROVE  /\ start(k) \in Nat /\ start(k) >= k - 1
               /\ start(k + 1) = start(k) + mtu - Overhead(o, k)
    <3>1. CASE k = 1
      BY <1>3, <1>4, <3>1 DEF ov1
    <3>2. CASE k # 1
      <4>1. k - 2 \in Nat /\ k - 1 \in Nat /\ k - 2 < k - 1 /\ k + 1 \in Nat /\ k + 1 # 1
            /\ (k + 1) - 2 = k - 1 /\ k - 1 = (k - 2) + 1
        BY <2>6, <3>2
      <4>2. (k - 2) * B \in Nat /\ (k - 1) * B \in Nat
        BY <2>4, <4>1, ProductGrows
      <4>3. (k - 1) * B = (k - 2) * B + B
        BY <2>4, <4>1
      <4>4. (k - 2) * B >= k - 2
        BY <2>4, <4>1, ProductGrows
      <4>5. start(k) = A + (k - 2) * B /\ start(k + 1) = A + (k - 1) * B
        BY <2>5, <3>2, <4>1
      <4>6. Overhead(o, k) = ov2
        BY <1>3, <3>2
      <4>7. start(k) \in Nat /\ start(k) >= k - 1
        BY <2>4, <4>1, <4>2, <4>4, <4>5
      <4>8. start(k + 1) = start(k) + B
        BY <2>4, <4>2, <4>3, <4>5
      <4>9. QED BY <1>3, <2>4, <4>6, <4>7, <4>8 DEF B
    <3>3. QED BY <3>1, <3>2
  <2>7. ASSUME NEW j \in 1 .. c, NEW k \in 1 .. c, j < k PROVE start(j) < start(k)
    <3>1. j \in Nat /\ k \in Nat /\ j >= 1 /\ k >= 2 /\ k - 2 \in Nat
      BY <1>5, <2>7
    <3>2. start(k) = A + (k - 2) * B /\ (k - 2) * B \in Nat
      BY <2>4, <2>5, <3>1
    <3>3. CASE j = 1
      BY <1>4, <2>4, <3>2, <3>3
    <3>4. CASE j # 1
      <4>1. start(j) = A + (j - 2) * B /\ j - 2 \in Nat /\ j - 2 < k - 2
        BY <2>5, <2>7, <3>1, <3>4
      <4>2. (j - 2) * B < (k - 2) * B /\ (j - 2) * B \in Nat
        BY <2>4, <3>1, <4>1, ProductGrows
      <4>3. QED BY <2>4, <3>2, <4>1, <4>2
    <3>5. QED BY <3>3, <3>4
  <2>8. ASSUME NEW k \in 1 .. c
        PROVE  /\ start(k) \in Nat /\ start(k + 1) \in Nat
               /\ stop(k) = IF start(k + 1) <= len THEN start(k + 1) ELSE len
               /\ start(k + 1) = start(k) + mtu - Overhead(o, k)
               /\ start(k) < start(k + 1) /\ Overhead(o, k) \in Nat
    <3>1. k \in Nat /\ k >= 1 /\ k + 1 \in Nat /\ k + 1 >= 1
      BY <1>5
    <3>2. start(k) \in Nat /\ start(k + 1) \in Nat
          /\ start(k + 1) = start(k) + mtu - Overhead(o, k)
      BY <2>6, <3>1
    <3>3. stop(k) = Min({start(k + 1), len})
      BY <3>2 DEF stop, Stop, start, len
    <3>4. stop(k) = IF start(k + 1) <= len THEN start(k + 1) ELSE len
      BY <1>2, <3>2, <3>3, MinOfTwo
    <3>5. Overhead(o, k) \in Nat /\ Overhead(o, k) < mtu
      BY <1>3, <2>3 DEF ov1, ov2
    <3>6. start(k) < start(k + 1)
      BY <3>2, <3>5
    <3>7. QED BY <3>2, <3>4, <3>5, <3>6
  <2>9. ASSUME NEW k \in 1 .. c - 1 PROVE stop(k) = start(k + 1)
    <3>1. k \in 1 .. c /\ k + 1 \in 1 .. c
      BY <1>5
    <3>2. start(k + 1) < len
      BY <1>6, <3>1
    <3>3. QED BY <1>2, <2>8, <3>1, <3>2
  <2>10. stop(c) = len
    <3>1. c \in 1 .. c /\ c \in 1 .. len
      BY <1>5, <1>6, <2>1
    <3>2. start(c + 1) >= len
      <4>1. CASE c + 1 \in 1 .. len
        BY <1>7, <4>1
      <4>2. CASE c + 1 \notin 1 .. len
        <5>1. c = len
          BY <1>2, <1>5, <3>1, <4>2
        <5>2. c + 1 \in Nat /\ c + 1 >= 1 /\ (c + 1) - 1 = c
          BY <1>5
        <5>3. start(c + 1) >= c
          BY <2>6, <5>2
        <5>4. QED BY <5>1, <5>3
      <4>3. QED BY <4>1, <4>2
    <3>3. QED BY <1>2, <2>8, <3>1, <3>2
  <2>11. \A k \in 1 .. c : /\ CheckValid(Part(o, mtu, k), FALSE)
                           /\ start(k) \in Nat /\ stop(k) \in Nat
                           /\ start(k) < stop(k) /\ stop(k) <= len
                           /\ stop(k) - start(k) <= mtu - Overhead(o, k)
    <3> SUFFICES ASSUME NEW k \in 1 .. c
                 PROVE  /\ CheckValid(Part(o, mtu, k), FALSE)
                        /\ start(k) \in Nat /\ stop(k) \in Nat
                        /\ start(k) < stop(k) /\ stop(k) <= len
                        /\ stop(k) - start(k) <= mtu - Overhead(o, k)
      OBVIOUS
    <3>1. CheckValid(Part(o, mtu, k), FALSE)
      BY <1>5, <1>10
    <3>2. start(k) < len
      BY <1>6
    <3>3. start(k) \in Nat /\ stop(k) \in Nat
      BY <1>2, <2>8
    <3>4. start(k) < stop(k) /\ stop(k) <= len
      BY <1>2, <2>8, <3>2
    <3>5. stop(k) <= start(k + 1)
      BY <1>2, <2>8
    <3>6. stop(k) - start(k) <= mtu - Overhead(o, k)
      BY <2>8, <3>3, <3>5
    <3>7. QED BY <3>1, <3>3, <3>4, <3>6
  <2>12. Splits(o, mtu)
    BY <1>4, <1>5, <1>10, <2>1, <2>7, <2>9, <2>10, <2>11 DEF Splits, start, stop, len, c, bs
  <2>13. QED BY <2>12
<1>11. QED BY <1>1, <1>8, <1>9, <1>10


\* A valid fragment of the bundle's payload that is not empty
IsPart(o, x) ==
    \E i \in Nat, hi \in Nat : /\ i < hi /\ hi <= Len(Data(o))
                               /\ x = FragmentOf(o, i, hi) /\ CheckValid(x, FALSE)

LEMMA FragmentResult ==
    ASSUME NEW o, WellFormed(o), CheckValid(o, FALSE), NEW mtu \in Nat,
           NEW x \in Range(Fragment(o, mtu).bs)
    PROVE  x = o \/ IsPart(o, x)
<1> DEFINE bs == Fragment(o, mtu).bs
           short == <<o>>
<1>1. PICK k \in DOMAIN bs : x = bs[k]
  BY DEF Range
<1>2. CASE bs = <<>>
  BY <1>1, <1>2
<1>3. CASE bs = short
  <2> HIDE DEF bs
  <2>1. x = short[k] /\ k \in DOMAIN short
    BY <1>1, <1>3
  <2>2. DOMAIN short = {1} /\ short[1] = o
    OBVIOUS
  <2> HIDE DEF short
  <2>3. QED BY <2>1, <2>2
<1>4. CASE Splits(o, mtu)
  <2> DEFINE c == Count(o, mtu)
             i == Start(o, mtu, k)
             hi == Stop(o, mtu, k)
  <2>1. bs = [l \in 1 .. c |-> Part(o, mtu, l)]
    BY <1>4 DEF Splits
  <2>2. k \in 1 .. c /\ x = Part(o, mtu, k)
    <3> HIDE DEF bs, c
    <3> QED BY <1>1, <2>1
  <2>3. CheckValid(x, FALSE) /\ i \in Nat /\ hi \in Nat /\ i < hi /\ hi <= Len(Data(o))
    BY <1>4, <2>2 DEF Splits
  <2>4. x = FragmentOf(o, i, hi)
    BY <2>2 DEF Part
  <2> HIDE DEF i, hi
  <2>5. QED BY <2>3, <2>4 DEF IsPart
<1>5. QED BY <1>2, <1>3, <1>4, FragmentResults

LEMMA PartFacts ==
    ASSUME NEW o, WellFormed(o), CheckValid(o, FALSE), NEW x, IsPart(o, x)
    PROVE  /\ WellFormed(x) /\ IsFragment(x) /\ CheckValid(x, FALSE)
           /\ x.primary.off \in Nat /\ x.primary.total = Len(Data(o))
           /\ x.primary.off < x.primary.total /\ Len(Data(o)) \in Nat
           /\ \E hi \in Nat : /\ x.primary.off < hi /\ hi <= Len(Data(o))
                              /\ x = FragmentOf(o, x.primary.off, hi)
                              /\ Data(x) = SubSeq(Data(o), x.primary.off + 1, hi)
<1>1. PICK i \in Nat, hi \in Nat : /\ i < hi /\ hi <= Len(Data(o))
                                   /\ x = FragmentOf(o, i, hi) /\ CheckValid(x, FALSE)
  BY DEF IsPart
<1>2. Len(Data(o)) \in Nat
  BY PayloadIsLast
<1>3. /\ WellFormed(x) /\ IsFragment(x) /\ x.primary.off = i /\ x.primary.total = Len(Data(o))
      /\ Data(x) = SubSeq(Data(o), i + 1, hi)
  BY <1>1, FragmentFacts
<1> HIDE DEF CheckValid, Data, IsFragment, WellFormed, FragmentOf
<1>4. i < Len(Data(o))
  BY <1>1, <1>2
<1>5. QED BY <1>1, <1>2, <1>3, <1>4

-----------------------------------------------------------------------------
\* Reading back what was written

LEMMA MarshalPrimaryToken ==
    ASSUME NEW b, WellFormed(b)
    PROVE  /\ MarshalPrimary(b.primary) \in Token
           /\ MarshalPrimary(b.primary).kind = "primary"
           /\ UnmarshalPrimary(MarshalPrimary(b.primary)) = b.primary
<1> DEFINE p == b.primary
<1>1. p \in PrimaryRec /\ ("fragment" \in p.flags \/ (p.off = 0 /\ p.total = 0))
  BY DEF WellFormed
<1> HIDE DEF p
<1>2. /\ MarshalPrimary(p) \in Token
      /\ MarshalPrimary(p).kind = "primary"
  BY <1>1 DEF MarshalPrimary, Token, PrimaryRec
<1>3. UnmarshalPrimary(MarshalPrimary(p)) = p
  <2>1. CASE "fragment" \in p.flags
    BY <1>1, <2>1 DEF MarshalPrimary, UnmarshalPrimary, PrimaryRec
  <2>2. CASE "fragment" \notin p.flags
    BY <1>1, <2>2 DEF MarshalPrimary, UnmarshalPrimary, PrimaryRec
  <2>3. QED BY <2>1, <2>2
<1>4. QED BY <1>2, <1>3 DEF p

LEMMA MarshalBlockToken ==
    ASSUME NEW cb \in BlockRec
    PROVE  /\ MarshalBlock(cb) \in Token
           /\ MarshalBlock(cb).kind = "block"
           /\ UnmarshalBlock(MarshalBlock(cb)) = cb
BY DEF MarshalBlock, UnmarshalBlock, NewCanonicalBlock, Token, BlockRec

\* The parts of a serialized bundle: its length, its first elements, its
\* blocks, and its only break code at the end
LEMMA WriteBundleElements ==
    ASSUME NEW b, WellFormed(b)
    PROVE  LET w == WriteBundle(b)
               n == Len(b.blocks)
           IN  /\ w \in Seq(Token) /\ n \in Nat /\ Len(w) = n + 3
               /\ w[1] = Marker("open")
               /\ w[2] = MarshalPrimary(b.primary)
               /\ \A i \in 1 .. n : w[i + 2] = MarshalBlock(b.blocks[i])
               /\ w[n + 3] = Marker("break")
<1> DEFINE w == WriteBundle(b)
           n == Len(b.blocks)
           front == <<Marker("open"), MarshalPrimary(b.primary)>>
           mid == [i \in DOMAIN b.blocks |-> MarshalBlock(b.blocks[i])]
           end == <<Marker("break")>>
<1>1. b.blocks \in Seq(BlockRec) /\ n \in Nat /\ DOMAIN b.blocks = 1 .. n
  BY DEF WellFormed
<1>2. Marker("open") \in Token /\ Marker("break") \in Token
  BY DEF Marker, Token
<1>3. front \in Seq(Token) /\ Len(front) = 2
  BY <1>2, MarshalPrimaryToken
<1>4. \A i \in 1 .. n : b.blocks[i] \in BlockRec
  BY <1>1
<1>5. mid \in Seq(Token) /\ Len(mid) = n
  BY <1>1, <1>4, MarshalBlockToken
<1>6. end \in Seq(Token) /\ Len(end) = 1
  BY <1>2
<1>7. w = front \o mid \o end
  BY DEF WriteBundle
<1>8. \A i \in 1 .. n : mid[i] = MarshalBlock(b.blocks[i])
  BY <1>1
<1>9. front[1] = Marker("open") /\ front[2] = MarshalPrimary(b.primary) /\ end[1] = Marker("break")
  OBVIOUS
<1> HIDE DEF w, n, front, mid, end
<1>10. /\ w \in Seq(Token) /\ Len(w) = n + 3
       /\ w[1] = front[1] /\ w[2] = front[2]
       /\ \A i \in 1 .. n : w[i + 2] = mid[i]
       /\ w[n + 3] = end[1]
  <2> DEFINE head == front \o mid
  <2>1. /\ head \in Seq(Token) /\ Len(head) = Len(front) + Len(mid)
        /\ \A i \in 1 .. Len(front) + Len(mid) :
              head[i] = IF i <= Len(front) THEN front[i] ELSE mid[i - Len(front)]
    BY <1>3, <1>5, ConcatProperties
  <2>2. w = head \o end
    BY <1>7
  <2> HIDE DEF head
  <2>3. /\ w \in Seq(Token) /\ Len(w) = Len(head) + Len(end)
        /\ \A i \in 1 .. Len(head) + Len(end) :
              w[i] = IF i <= Len(head) THEN head[i] ELSE end[i - Len(head)]
    BY <1>6, <2>1, <2>2, ConcatProperties
  <2>4. Len(front) = 2 /\ Len(mid) = n /\ Len(end) = 1 /\ n \in Nat
    BY <1>1, <1>3, <1>5, <1>6
  <2>5. QED BY <2>1, <2>3, <2>4
<1>11. QED BY <1>1, <1>8, <1>9, <1>10 DEF w, n

(***************************************************************************)
(* ParseBundle gives back what WriteBundle wrote, whatever a longer file   *)
(* that was there before left behind it.                                   *)
(***************************************************************************)
LEMMA RoundTrip ==
    ASSUME NEW b, WellFormed(b), CheckValid(b, FALSE), NEW rest \in Seq(Token)
    PROVE  ParseBundle(WriteBundle(b) \o rest, FALSE) = [ok |-> TRUE, bundle |-> b]
<1> DEFINE w == WriteBundle(b)
           n == Len(b.blocks)
           v == w \o rest
           breaks == {i \in DOMAIN v : v[i].kind = "break"}
           read == [primary |-> UnmarshalPrimary(v[2]),
                    blocks |-> [i \in 1 .. Min(breaks) - 3 |-> UnmarshalBlock(v[i + 2])]]
<1>1. /\ w \in Seq(Token) /\ n \in Nat /\ Len(w) = n + 3
      /\ w[1] = Marker("open")
      /\ w[2] = MarshalPrimary(b.primary)
      /\ \A i \in 1 .. n : w[i + 2] = MarshalBlock(b.blocks[i])
      /\ w[n + 3] = Marker("break")
  BY WriteBundleElements
<1>2. b.blocks \in Seq(BlockRec) /\ b.blocks = [i \in 1 .. n |-> b.blocks[i]]
      /\ (\A i \in 1 .. n : b.blocks[i] \in BlockRec)
      /\ b = [primary |-> b.primary, blocks |-> b.blocks]
  BY DEF WellFormed
<1>3. v \in Seq(Token) /\ Len(v) >= n + 3 /\ (\A i \in 1 .. n + 3 : v[i] = w[i])
  <2> HIDE DEF w, n
  <2> QED BY <1>1
<1>4. /\ v[1] = Marker("open") /\ v[2] = MarshalPrimary(b.primary) /\ v[n + 3] = Marker("break")
      /\ \A i \in 1 .. n : v[i + 2] = MarshalBlock(b.blocks[i])
  <2> HIDE DEF w, n, v
  <2> QED BY <1>1, <1>3
<1> HIDE DEF w, n, v
<1>5. v[1].kind = "open" /\ v[2].kind = "primary" /\ v[n + 3].kind = "break"
  BY <1>4, MarshalPrimaryToken DEF Marker
<1>6. \A i \in 3 .. n + 2 : v[i].kind = "block"
  <2> SUFFICES ASSUME NEW i \in 3 .. n + 2 PROVE v[i].kind = "block" OBVIOUS
  <2>1. (i - 2) \in 1 .. n /\ i = (i - 2) + 2
    BY <1>1
  <2>2. v[i] = MarshalBlock(b.blocks[i - 2])
    BY <1>4, <2>1
  <2>3. QED BY <1>2, <2>1, <2>2, MarshalBlockToken
<1>7. n + 3 \in breaks /\ (\A i \in breaks : n + 3 <= i)
  <2>1. n + 3 \in breaks
    BY <1>1, <1>3, <1>5
  <2>2. ASSUME NEW i \in breaks, i < n + 3 PROVE FALSE
    <3>1. i \in Nat /\ i >= 1 /\ v[i].kind = "break"
      BY <1>3
    <3>2. i = 1 \/ i = 2 \/ i \in 3 .. n + 2
      BY <3>1, <2>2, <1>1
    <3>3. QED BY <3>1, <3>2, <1>5, <1>6
  <2>3. breaks \subseteq Nat
    BY <1>3
  <2>4. QED BY <2>1, <2>2, <2>3, <1>1
<1>8. Min(breaks) = n + 3
  <2>1. breaks \subseteq Int
    BY <1>3
  <2> HIDE DEF breaks
  <2>2. \A i \in breaks : n + 3 <= i
    BY <1>7
  <2>3. n + 3 \in breaks
    BY <1>7
  <2>4. QED BY <2>1, <2>2, <2>3, MinIsLeast
<1>9. read = b
  <2>1. Min(breaks) - 3 = n
    BY <1>1, <1>8
  <2>2. UnmarshalPrimary(v[2]) = b.primary
    BY <1>4, MarshalPrimaryToken
  <2>3. \A i \in 1 .. n : UnmarshalBlock(v[i + 2]) = b.blocks[i]
    BY <1>2, <1>4, MarshalBlockToken
  <2>4. [i \in 1 .. n |-> UnmarshalBlock(v[i + 2])] = b.blocks
    BY <1>2, <2>3
  <2> HIDE DEF breaks
  <2>5. QED BY <1>2, <2>1, <2>2, <2>4
<1>10. /\ breaks # {} /\ Min(breaks) > 2
       /\ v[1].kind = "open" /\ v[2].kind = "primary"
       /\ \A i \in 3 .. Min(breaks) - 1 : v[i].kind = "block"
       /\ CheckValid(read, FALSE)
  <2> HIDE DEF read
  <2>1. breaks # {} BY <1>7
  <2>2. Min(breaks) > 2 /\ Min(breaks) - 1 = n + 2 BY <1>1, <1>8
  <2>3. CheckValid(read, FALSE) BY <1>9
  <2> HIDE DEF breaks
  <2>4. QED BY <2>1, <2>2, <2>3, <1>5, <1>6
<1>11. ParseBundle(v, FALSE) = [ok |-> TRUE, bundle |-> read]
  BY <1>10 DEF ParseBundle
<1>12. QED BY <1>9, <1>11 DEF v, w

-----------------------------------------------------------------------------
\* What is sent

LEMMA SentFacts ==
    ASSUME SetupInv
    PROVE  /\ \A b \in sent : /\ WellFormed(b) /\ CheckValid(b, FALSE)
                              /\ Name(b) \in Nat \X Nat
                              /\ IsFragment(b) <=> Name(b) # Whole
           /\ setup.bundle # None /\ setup.mtus = {} => sent = {origin} /\ Name(origin) = Whole
<1>1. setup \in Setups
  BY DEF SetupInv
<1>2. setup.bundle # None =>
         /\ WellFormed(origin) /\ CheckValid(origin, FALSE)
         /\ ~IsFragment(origin) /\ setup.mtus \subseteq Nat
         /\ sent = Sent(origin, setup.mtus)
  BY <1>1, StorageAssumption DEF SetupInv
<1>3. setup.bundle # None /\ setup.mtus = {} => sent = {origin} /\ Name(origin) = Whole
  BY <1>2 DEF Sent, Name
<1>4. ASSUME NEW b \in sent
      PROVE  /\ WellFormed(b) /\ CheckValid(b, FALSE)
             /\ IsFragment(b) => b.primary.total > 0
  <2>1. setup.bundle # None
    BY DEF SetupInv
  <2>2. b = origin \/ \E m \in setup.mtus : b \in Range(Fragment(origin, m).bs)
    <3> HIDE DEF Range, Fragment
    <3> QED BY <1>2, <2>1 DEF Sent
  <2>3. CASE b = origin
    BY <2>3, <2>1, <1>2
  <2>4. CASE \E m \in setup.mtus : b \in Range(Fragment(origin, m).bs)
    <3>1. PICK m \in setup.mtus : b \in Range(Fragment(origin, m).bs)
      BY <2>4
    <3>2. b = origin \/ IsPart(origin, b)
      BY <3>1, <2>1, <1>2, FragmentResult
    <3>3. CASE b = origin
      BY <3>3, <2>1, <1>2
    <3>4. CASE IsPart(origin, b)
      <4>1. /\ WellFormed(b) /\ CheckValid(b, FALSE)
            /\ b.primary.off \in Nat /\ b.primary.total \in Nat /\ b.primary.off < b.primary.total
        BY <3>4, <2>1, <1>2, PartFacts
      <4>2. b.primary.total > 0
        BY <4>1
      <4>3. QED BY <4>1, <4>2
    <3>5. QED BY <3>2, <3>3, <3>4
  <2>5. QED BY <2>2, <2>3, <2>4
<1>5. ASSUME NEW b \in sent
      PROVE  Name(b) \in Nat \X Nat /\ (IsFragment(b) <=> Name(b) # Whole)
  <2>1. b.primary.off \in Nat /\ b.primary.total \in Nat
    BY <1>4 DEF WellFormed, PrimaryRec
  <2>2. IsFragment(b) => b.primary.total # 0
    <3>1. IsFragment(b) => b.primary.total > 0
      BY <1>4, Zenon
    <3>2. QED BY <2>1, <3>1 DEF IsFragment
  <2>3. QED BY <2>1, <2>2 DEF Name, Whole
<1>6. QED BY <1>3, <1>4, <1>5

LEMMA InitInv == Init => IInv
<1> SUFFICES ASSUME Init PROVE IInv
  OBVIOUS
<1>1. SetupInv
  BY DEF Init, SetupInv
<1>2. sent = {} \/ sent = Sent(origin, setup.mtus)
  BY DEF Init
<1>3. \A t \in Threads : thr[t] = Idle
  BY DEF Init
<1>4. Idle \in Frame(sent)
  BY DEF Idle, Frame, Pcs
<1>5. TypeInv
  BY <1>4 DEF Init, TypeInv
<1>6. CallInv
  BY <1>3 DEF CallInv, Idle, Pushing
<1>7. WholeInv
  BY <1>3 DEF WholeInv, Idle, Pushing, Init
<1>8. FragmentInv
  BY <1>3 DEF FragmentInv, Idle, Pushing, Init, Threads
<1>9. QED BY <1>1, <1>5, <1>6, <1>7, <1>8 DEF IInv

-----------------------------------------------------------------------------
\* One lemma per action

LEMMA SetupStays ==
    ASSUME SetupInv, UNCHANGED <<setup, origin, sent>>,
           setup.bundle = None => UNCHANGED <<item, thr>>
    PROVE  SetupInv'
BY DEF SetupInv

\* Where a bundle is built, no goroutine is in a call or starts one.
LEMMA Stores ==
    ASSUME IInv, NEW t \in Threads, thr[t].pc # "idle" \/ \E c \in Calls : Does(t, c)
    PROVE  setup.bundle # None
<1>1. ASSUME setup.bundle = None PROVE setup.does[t] = {} /\ thr[t].pc = "idle"
  <2>1. setup \in Setups /\ thr[t] = Idle
    BY <1>1 DEF IInv, SetupInv
  <2>2. setup.does = [u \in Threads |-> {}]
    BY <1>1, <2>1, StorageAssumption
  <2>3. QED BY <2>1, <2>2 DEF Idle
<1>2. QED BY <1>1 DEF Does

LEMMA GotoFrame ==
    ASSUME TypeInv, NEW t \in Threads, NEW f \in Frame(sent), Goto(t, f), UNCHANGED sent
    PROVE  /\ thr' \in [Threads -> Frame(sent')]
           /\ thr'[t] = f
           /\ \A u \in Threads \ {t} : thr'[u] = thr[u]
BY DEF TypeInv, Goto

LEMMA FrameFields ==
    ASSUME TypeInv, NEW t \in Threads
    PROVE  thr[t] \in Frame(sent) /\ Idle \in Frame(sent)
BY DEF TypeInv, Frame, Idle, Pcs

LEMMA PushQueryInv ==
    ASSUME IInv, NEW t \in Threads, NEW b \in sent, PushQuery(t, b),
           UNCHANGED <<world, item, files, cut>>, "push" \in setup.does[t],
           setup.bundle # None,
           setup.mtus # {} => t = "handler"
    PROVE  IInv'
<1> DEFINE new == [thr[t] EXCEPT !.pc = "write", !.b = b, !.item = item]
           go == item = None \/ (IsFragment(b) /\ item.fragmented
                                 /\ Name(b) \notin Range(item.parts))
<1>1. thr[t] \in Frame(sent) /\ Idle \in Frame(sent)
  BY FrameFields DEF IInv
<1>2. new \in Frame(sent) /\ new.pc = "write" /\ new.b = b /\ new.item = item
  BY <1>1 DEF Frame, Pcs, IInv, TypeInv
<1>3. PICK f \in {new, Idle} : Goto(t, f) /\ (f = new => go \/ new = Idle)
  <2>1. CASE go
    BY <2>1 DEF PushQuery
  <2>2. CASE ~go
    BY <2>2 DEF PushQuery
  <2>3. QED BY <2>1, <2>2
<1>4. UNCHANGED <<setup, origin, sent, item, files, late, cut>>
  BY DEF world, source
<1> HIDE DEF new
<1>5. /\ thr' \in [Threads -> Frame(sent')]
      /\ thr'[t] = f
      /\ \A u \in Threads \ {t} : thr'[u] = thr[u]
  BY <1>1, <1>2, <1>3, <1>4, GotoFrame DEF IInv
<1>6. f.pc = "idle" \/ (f.pc = "write" /\ f.b = b /\ f.item = item /\ go)
  BY <1>2, <1>3 DEF Idle
<1>7. SetupInv'
  BY <1>4, SetupStays DEF IInv
<1>8. TypeInv'
  BY <1>4, <1>5 DEF IInv, TypeInv
<1>9. CallInv'
  BY <1>4, <1>5, <1>6 DEF IInv, CallInv, Pushing
<1>10. WholeInv'
  <2>1. setup.mtus = {} => ~IsFragment(b)
    BY SentFacts DEF IInv
  <2>2. QED BY <1>4, <1>5, <1>6, <2>1 DEF IInv, WholeInv, Pushing
<1>11. FragmentInv'
  BY <1>4, <1>5, <1>6 DEF IInv, FragmentInv, Pushing, Threads
<1>12. QED BY <1>7, <1>8, <1>9, <1>10, <1>11 DEF IInv

\* A goroutine goes on and leaves the item alone.
LEMMA MoveInv ==
    ASSUME IInv, NEW t \in Threads, NEW f \in Frame(sent), Goto(t, f),
           UNCHANGED <<world, item, cut>>, setup.bundle # None,
           files' \in [{Name(b) : b \in sent} -> Seq(Token) \cup {None}],
           f.pc \in {"push"} \cup Pushing => f.b \in sent /\ "push" \in setup.does[t],
           f.pc \in {"delete", "remove"} => "delete" \in setup.does[t],
           setup.mtus = {} =>
              /\ f.pc \in Pushing => f.item = None
              /\ f.pc = "update" => f.item # None /\ f.item.parts = <<Whole>>,
           setup.mtus # {} =>
              /\ t = "pending" => f.pc = "idle"
              /\ t = "cron" => f.pc \in {"idle", "delete", "remove"}
              /\ t = "handler" =>
                    \/ f.pc = "idle"
                    \/ /\ f.pc \in Pushing /\ thr[t].pc \in Pushing
                       /\ f.b = thr[t].b /\ f.item = thr[t].item
    PROVE  IInv'
<1>1. UNCHANGED <<setup, origin, sent, item, late, cut>>
  BY DEF world, source
<1>2. /\ thr' \in [Threads -> Frame(sent')]
      /\ thr'[t] = f
      /\ \A u \in Threads \ {t} : thr'[u] = thr[u]
  BY <1>1, GotoFrame DEF IInv
<1>3. SetupInv'
  BY <1>1, SetupStays DEF IInv
<1>4. TypeInv'
  BY <1>1, <1>2 DEF IInv, TypeInv
<1>5. CallInv'
  BY <1>1, <1>2 DEF IInv, CallInv
<1>6. WholeInv'
  BY <1>1, <1>2 DEF IInv, WholeInv
<1>7. FragmentInv'
  BY <1>1, <1>2 DEF IInv, FragmentInv, Threads, Pushing
<1>8. QED BY <1>3, <1>4, <1>5, <1>6, <1>7 DEF IInv

LEMMA PushInv == ASSUME IInv, NEW b \in sent, Push(b) PROVE IInv'
<1>1. setup.bundle # None
  BY Stores DEF Push, Threads, Calls
<1>2. QED BY <1>1, PushQueryInv DEF Push, Does, Threads

LEMMA SyncPushInv == ASSUME IInv, NEW t \in Threads, SyncPush(t) PROVE IInv'
<1>1. setup.bundle # None
  BY Stores DEF SyncPush
<1>2. thr[t].b \in sent /\ "push" \in setup.does[t]
  BY DEF SyncPush, IInv, CallInv
<1>3. setup.mtus # {} => FALSE
  BY DEF SyncPush, IInv, FragmentInv, Threads, Pushing
<1>4. QED BY <1>1, <1>2, <1>3, PushQueryInv DEF SyncPush

LEMMA FilesStay ==
    ASSUME IInv, UNCHANGED files
    PROVE  files' \in [{Name(b) : b \in sent} -> Seq(Token) \cup {None}]
BY DEF IInv, TypeInv

LEMMA SyncKnowsInv == ASSUME IInv, NEW t \in Threads, SyncKnows(t) PROVE IInv'
<1>1. setup.mtus = {} /\ t # "cron" /\ UNCHANGED <<world, item, files, cut>>
  BY DEF SyncKnows
<1>2. thr[t] \in Frame(sent) /\ (\A b \in sent : WellFormed(b))
  BY FrameFields, SentFacts DEF IInv
<1>3. CASE Does(t, "push") /\ Goto(t, [thr[t] EXCEPT !.pc = "push", !.b = origin])
  <2>1. setup.bundle # None
    BY <1>3, Stores DEF Calls
  <2>2. origin \in sent /\ "push" \in setup.does[t]
    BY <2>1, <1>1, <1>3, SentFacts DEF IInv, Does
  <2> DEFINE f == [thr[t] EXCEPT !.pc = "push", !.b = origin]
  <2>3. f \in Frame(sent) /\ f.pc = "push" /\ f.b = origin
    BY <1>2, <2>2 DEF Frame, Pcs
  <2>4. Goto(t, f)
    BY <1>3
  <2> HIDE DEF f
  <2>5. QED BY <1>1, <2>1, <2>2, <2>3, <2>4, MoveInv, FilesStay DEF Pushing
<1>4. CASE Does(t, "update") /\ Goto(t, [thr[t] EXCEPT !.pc = "query"])
  <2>1. setup.bundle # None
    BY <1>4, Stores DEF Calls
  <2> DEFINE f == [thr[t] EXCEPT !.pc = "query"]
  <2>3. f \in Frame(sent) /\ f.pc = "query"
    BY <1>2 DEF Frame, Pcs
  <2>4. Goto(t, f)
    BY <1>4
  <2> HIDE DEF f
  <2>5. QED BY <1>1, <2>1, <2>3, <2>4, MoveInv, FilesStay DEF Pushing
<1>5. CASE Does(t, "delete") /\ Goto(t, [thr[t] EXCEPT !.pc = "delete"])
  <2>1. setup.bundle # None /\ "delete" \in setup.does[t]
    BY <1>5, Stores DEF Calls, Does
  <2> DEFINE f == [thr[t] EXCEPT !.pc = "delete"]
  <2>3. f \in Frame(sent) /\ f.pc = "delete"
    BY <1>2 DEF Frame, Pcs
  <2>4. Goto(t, f)
    BY <1>5
  <2> HIDE DEF f
  <2>5. QED BY <1>1, <2>1, <2>3, <2>4, MoveInv, FilesStay DEF Pushing
<1>6. QED BY <1>3, <1>4, <1>5 DEF SyncKnows

LEMMA DeleteExpiredInv == ASSUME IInv, DeleteExpired PROVE IInv'
<1> DEFINE f == [thr["cron"] EXCEPT !.pc = "delete"]
<1>1. "cron" \in Threads /\ UNCHANGED <<world, item, files, cut>> /\ Goto("cron", f)
  BY DEF DeleteExpired, Threads
<1>2. setup.bundle # None /\ "delete" \in setup.does["cron"]
  BY <1>1, Stores DEF DeleteExpired, Does, Calls
<1>3. f \in Frame(sent) /\ f.pc = "delete"
  BY <1>1, FrameFields DEF Frame, Pcs, IInv
<1> HIDE DEF f
<1>4. QED BY <1>1, <1>2, <1>3, MoveInv, FilesStay DEF Pushing

LEMMA SyncQueryInv == ASSUME IInv, NEW t \in Threads, SyncQuery(t) PROVE IInv'
<1> DEFINE f == IF item = None THEN Idle ELSE [thr[t] EXCEPT !.pc = "update", !.item = item]
<1>1. UNCHANGED <<world, item, files, cut>> /\ Goto(t, f)
  BY DEF SyncQuery
<1>2. setup.bundle # None /\ setup.mtus = {}
  BY Stores DEF SyncQuery, IInv, FragmentInv, Threads, Pushing
<1>3. /\ f \in Frame(sent)
      /\ f.pc = "idle" \/ (f.pc = "update" /\ item # None /\ f.item = item)
  BY FrameFields DEF Frame, Pcs, Idle, IInv, TypeInv
<1>4. item # None => item.parts = <<Whole>>
  BY <1>2 DEF IInv, WholeInv
<1> HIDE DEF f
<1>5. QED BY <1>1, <1>2, <1>3, <1>4, MoveInv, FilesStay DEF Pushing

LEMMA DeleteQueryInv == ASSUME IInv, NEW t \in Threads, DeleteQuery(t) PROVE IInv'
<1> DEFINE f == IF item = None THEN Idle
                ELSE [thr[t] EXCEPT !.pc = "remove", !.todo = item.parts]
<1>1. UNCHANGED <<world, item, files, cut>> /\ Goto(t, f) /\ thr[t].pc = "delete"
  BY DEF DeleteQuery
<1>2. setup.bundle # None /\ "delete" \in setup.does[t]
  BY <1>1, Stores DEF IInv, CallInv
<1>3. f \in Frame(sent) /\ f.pc \in {"idle", "remove"}
  BY FrameFields DEF Frame, Pcs, Idle, IInv, TypeInv, ItemRec
<1>4. setup.mtus # {} => t = "cron"
  BY <1>1 DEF IInv, FragmentInv, Pushing, Threads
<1> HIDE DEF f
<1>5. QED BY <1>1, <1>2, <1>3, <1>4, MoveInv, FilesStay DEF Pushing

LEMMA deleteBundleInv == ASSUME IInv, NEW t \in Threads, deleteBundle(t) PROVE IInv'
<1> DEFINE f == [thr[t] EXCEPT !.todo = Tail(@)]
<1>1. UNCHANGED <<world, item, cut>> /\ Goto(t, f) /\ thr[t].pc = "remove" /\ thr[t].todo # <<>>
  BY DEF deleteBundle
<1>2. setup.bundle # None /\ "delete" \in setup.does[t]
  BY <1>1, Stores DEF IInv, CallInv
<1>3. f \in Frame(sent) /\ f.pc = "remove"
  <2>1. thr[t] \in Frame(sent)
    BY FrameFields DEF IInv
  <2>2. thr[t].todo \in Seq(Nat \X Nat)
    BY <2>1 DEF Frame
  <2>3. Tail(thr[t].todo) \in Seq(Nat \X Nat)
    BY <2>2, <1>1, HeadTailProperties
  <2>4. QED BY <1>1, <2>1, <2>3 DEF Frame
<1>4. setup.mtus # {} => t = "cron"
  BY <1>1 DEF IInv, FragmentInv, Pushing, Threads
<1>5. files' \in [{Name(b) : b \in sent} -> Seq(Token) \cup {None}]
  BY DEF deleteBundle, IInv, TypeInv
<1> HIDE DEF f
<1>6. QED BY <1>1, <1>2, <1>3, <1>4, <1>5, MoveInv DEF Pushing

LEMMA CrashInv == ASSUME IInv, Crash PROVE IInv'
<1>1. UNCHANGED <<setup, origin, sent, item, files, late>>
  BY DEF Crash, world, source
<1>2. thr' = [t \in Threads |-> Idle] /\ cut' \in BOOLEAN
  BY DEF Crash
<1>3. Idle \in Frame(sent)
  BY DEF Idle, Frame, Pcs
<1>4. SetupInv'
  BY <1>1, <1>2 DEF IInv, SetupInv
<1>5. TypeInv'
  BY <1>1, <1>2, <1>3 DEF IInv, TypeInv
<1>6. CallInv' /\ WholeInv' /\ FragmentInv'
  BY <1>1, <1>2 DEF IInv, CallInv, WholeInv, FragmentInv, Idle, Pushing, Threads
<1>7. QED BY <1>4, <1>5, <1>6 DEF IInv

\* The actions of the source and the clock
LEMMA SourceInv ==
    ASSUME IInv, UNCHANGED <<setup, sent, item, files, thr, cut>>, late' \in BOOLEAN,
           setup.bundle # None => UNCHANGED origin
    PROVE  IInv'
<1>1. SetupInv'
  BY DEF IInv, SetupInv
<1>2. TypeInv'
  BY DEF IInv, TypeInv
<1>3. CallInv' /\ WholeInv' /\ FragmentInv'
  BY DEF IInv, CallInv, WholeInv, FragmentInv
<1>4. QED BY <1>1, <1>2, <1>3 DEF IInv

-----------------------------------------------------------------------------
\* Writing a file

\* What a file holds after the first k elements of new were written into old
Over(new, old, k) == SubSeq(new, 1, k) \o SubSeq(old, k + 1, Len(old))

LEMMA OverType ==
    ASSUME NEW new \in Seq(Token), NEW old \in Seq(Token), NEW k \in 0 .. Len(new)
    PROVE  /\ Over(new, old, k) \in Seq(Token)
           /\ SubSeq(old, k + 1, Len(old)) \in Seq(Token)
           /\ Over(new, old, Len(new)) = new \o SubSeq(old, Len(new) + 1, Len(old))
<1>1. SubSeq(new, 1, k) \in Seq(Token)
  <2>1. \A i \in 1 .. k : new[i] \in Token
    OBVIOUS
  <2>2. QED BY <2>1, SubSeqProperties
<1>2. SubSeq(old, k + 1, Len(old)) \in Seq(Token)
  <2>1. \A i \in k + 1 .. Len(old) : old[i] \in Token
    OBVIOUS
  <2>2. QED BY <2>1, SubSeqProperties
<1>3. SubSeq(new, 1, Len(new)) = new
  OBVIOUS
<1>4. QED BY <1>1, <1>2, <1>3, ConcatProperties DEF Over

\* The effect of storeBundle: the file of the bundle gets some or all of it.
LEMMA storeBundleEffect ==
    ASSUME IInv, NEW t \in Threads, storeBundle(t)
    PROVE  LET n == Name(thr[t].b)
               new == WriteBundle(thr[t].b)
           IN  /\ thr[t].b \in sent /\ n \in DOMAIN files
               /\ new \in Seq(Token) /\ Content(n) \in Seq(Token)
               /\ UNCHANGED <<world, item, cut>>
               /\ \E k \in 0 .. Len(new) :
                     /\ files' = [files EXCEPT ![n] = Over(new, Content(n), k)]
                     /\ \/ Goto(t, [thr[t] EXCEPT !.pc = "writing"])
                        \/ k = Len(new) /\ Goto(t, [thr[t] EXCEPT !.pc = "commit"])
<1> DEFINE n == Name(thr[t].b)
           new == WriteBundle(thr[t].b)
<1>1. thr[t].b \in sent
  BY DEF storeBundle, IInv, CallInv, Pushing
<1>2. n \in DOMAIN files /\ Content(n) \in Seq(Token)
  BY <1>1 DEF IInv, TypeInv, Content
<1>3. new \in Seq(Token) /\ Len(new) \in Nat /\ Len(new) >= 3
  <2>1. WellFormed(thr[t].b)
    BY <1>1, SentFacts DEF IInv
  <2>2. QED BY <2>1, WriteBundleElements
<1>4. Cuts \subseteq 0 .. Len(new)
  BY <1>3 DEF Cuts
<1>5. \E k \in 0 .. Len(new) :
         /\ files' = [files EXCEPT ![n] = Over(new, Content(n), k)]
         /\ \/ Goto(t, [thr[t] EXCEPT !.pc = "writing"])
            \/ k = Len(new) /\ Goto(t, [thr[t] EXCEPT !.pc = "commit"])
  <2>1. CASE thr[t].pc = "write"
    BY <2>1, <1>4 DEF storeBundle, Over
  <2>2. CASE thr[t].pc # "write"
    <3>1. /\ files' = [files EXCEPT ![n] = Over(new, Content(n), Len(new))]
          /\ Goto(t, [thr[t] EXCEPT !.pc = "commit"])
      BY <2>2 DEF storeBundle, Over
    <3>2. Len(new) \in 0 .. Len(new)
      BY <1>3
    <3> HIDE DEF n, new
    <3>3. QED BY <3>1, <3>2
  <2>3. QED BY <2>1, <2>2
<1>6. QED BY <1>1, <1>2, <1>3, <1>5 DEF storeBundle

LEMMA storeBundleInv == ASSUME IInv, NEW t \in Threads, storeBundle(t) PROVE IInv'
<1> DEFINE n == Name(thr[t].b)
           new == WriteBundle(thr[t].b)
<1>1. /\ thr[t].b \in sent /\ n \in DOMAIN files
      /\ new \in Seq(Token) /\ Content(n) \in Seq(Token)
      /\ UNCHANGED <<world, item, cut>>
  BY storeBundleEffect
<1>2. PICK k \in 0 .. Len(new) :
         /\ files' = [files EXCEPT ![n] = Over(new, Content(n), k)]
         /\ \/ Goto(t, [thr[t] EXCEPT !.pc = "writing"])
            \/ k = Len(new) /\ Goto(t, [thr[t] EXCEPT !.pc = "commit"])
  BY storeBundleEffect
<1>3. Over(new, Content(n), k) \in Seq(Token)
  BY <1>1, OverType
<1>4. files' \in [{Name(b) : b \in sent} -> Seq(Token) \cup {None}]
  <2> HIDE DEF n, new
  <2> QED BY <1>1, <1>2, <1>3 DEF IInv, TypeInv
<1>5. thr[t].pc \in Pushing
  BY DEF storeBundle, Pushing
<1>6. PICK l \in {"writing", "commit"} : Goto(t, [thr[t] EXCEPT !.pc = l])
  BY <1>2
<1> DEFINE f == [thr[t] EXCEPT !.pc = l]
<1>7. f \in Frame(sent) /\ f.pc = l /\ f.b = thr[t].b /\ f.item = thr[t].item
  BY FrameFields DEF Frame, Pcs, IInv
<1>8. setup.bundle # None /\ "push" \in setup.does[t]
  BY <1>5, Stores DEF IInv, CallInv, Pushing
<1>9. setup.mtus = {} => thr[t].item = None
  BY <1>5 DEF IInv, WholeInv
<1>10. setup.mtus # {} => t = "handler"
  BY <1>5 DEF IInv, FragmentInv, Pushing, Threads
<1> HIDE DEF f
<1>11. Goto(t, f) /\ f.pc \in Pushing
  BY <1>6, <1>7 DEF f, Pushing
<1>12. QED BY <1>1, <1>4, <1>5, <1>7, <1>8, <1>9, <1>10, <1>11, MoveInv DEF Pushing

-----------------------------------------------------------------------------
\* Writing the item

\* A step that ends a call: what it may make of the item
LEMMA EndInv ==
    ASSUME IInv, NEW t \in Threads, Goto(t, Idle), UNCHANGED <<world, files>>,
           setup.bundle # None, cut' \in BOOLEAN,
           item' \in ItemRec \cup {None}, item' # None => item'.parts # <<>>,
           setup.mtus = {} => (item' # None => item'.parts = <<Whole>>),
           setup.mtus # {} =>
              /\ t # "handler" => item' = None \/ item' = item
              /\ item' # None /\ item'.fragmented => Whole \notin Range(item'.parts)
    PROVE  IInv'
<1>1. UNCHANGED <<setup, origin, sent, files, late>>
  BY DEF world, source
<1>2. /\ thr' \in [Threads -> Frame(sent')]
      /\ thr'[t] = Idle
      /\ \A u \in Threads \ {t} : thr'[u] = thr[u]
  BY <1>1, GotoFrame, FrameFields DEF IInv
<1>3. SetupInv'
  BY <1>1 DEF IInv, SetupInv
<1>4. TypeInv'
  BY <1>1, <1>2 DEF IInv, TypeInv
<1>5. CallInv'
  BY <1>1, <1>2 DEF IInv, CallInv, Idle, Pushing
<1>6. WholeInv'
  BY <1>1, <1>2 DEF IInv, WholeInv, Idle, Pushing
<1>7. FragmentInv'
  <2> SUFFICES ASSUME setup.mtus # {} PROVE FragmentInv'
    BY <1>1 DEF FragmentInv
  <2>1. CASE t = "handler"
    BY <2>1, <1>1, <1>2 DEF IInv, FragmentInv, Idle, Pushing, Threads
  <2>2. CASE t # "handler"
    BY <2>2, <1>1, <1>2 DEF IInv, FragmentInv, Idle, Pushing, Threads
  <2>3. QED BY <2>1, <2>2
<1>8. QED BY <1>3, <1>4, <1>5, <1>6, <1>7 DEF IInv

\* The item after PushCommit: as before, new, or with one more fragment
LEMMA PushCommitEffect ==
    ASSUME IInv, NEW t \in Threads, PushCommit(t)
    PROVE  /\ Goto(t, Idle) /\ UNCHANGED <<world, files, cut>>
           /\ setup.bundle # None /\ thr[t].b \in sent /\ Name(thr[t].b) \in Nat \X Nat
           /\ \/ item' = item
              \/ item = None /\ item' = newBundleItem(thr[t].b)
              \/ /\ item # None /\ item' = [item EXCEPT !.parts = Append(@, Name(thr[t].b))]
                 /\ setup.mtus # {} /\ t = "handler"
                 /\ item.fragmented /\ IsFragment(thr[t].b)
                 /\ Name(thr[t].b) \notin Range(item.parts)
<1>1. Goto(t, Idle) /\ UNCHANGED <<world, files, cut>> /\ thr[t].pc = "commit"
  BY DEF PushCommit
<1>2. setup.bundle # None /\ thr[t].b \in sent
  BY <1>1, Stores DEF IInv, CallInv, Pushing
<1>3. Name(thr[t].b) \in Nat \X Nat
  BY <1>2, SentFacts DEF IInv
<1>4. CASE setup.mtus = {}
  BY <1>1, <1>2, <1>3, <1>4 DEF IInv, WholeInv, Pushing, PushCommit
<1>5. CASE setup.mtus # {}
  <2>1. t = "handler"
    BY <1>1, <1>5 DEF IInv, FragmentInv, Pushing, Threads
  <2>2. CASE thr[t].item = None
    BY <1>1, <1>2, <1>3, <2>2 DEF PushCommit
  <2>3. CASE thr[t].item # None
    <3>1. /\ IsFragment(thr[t].b) /\ thr[t].item.fragmented
          /\ Name(thr[t].b) \notin Range(thr[t].item.parts)
          /\ item \in {None, thr[t].item}
      BY <1>1, <1>5, <2>1, <2>3 DEF IInv, FragmentInv, Pushing
    <3>2. QED BY <1>1, <1>2, <1>3, <1>5, <2>1, <2>3, <3>1 DEF PushCommit
  <2>4. QED BY <2>2, <2>3
<1>6. QED BY <1>4, <1>5

LEMMA AppendRange ==
    ASSUME NEW S, NEW s \in Seq(S), NEW n \in S
    PROVE  /\ Append(s, n) \in Seq(S) /\ Append(s, n) # <<>>
           /\ Range(Append(s, n)) = Range(s) \cup {n}
<1> DEFINE a == Append(s, n)
<1>1. /\ a \in Seq(S) /\ a # <<>> /\ Len(a) = Len(s) + 1
      /\ (\A i \in 1 .. Len(s) : a[i] = s[i]) /\ a[Len(s) + 1] = n
  BY AppendProperties
<1>2. DOMAIN s = 1 .. Len(s) /\ DOMAIN a = 1 .. Len(s) + 1 /\ Len(s) \in Nat
  BY <1>1
<1> HIDE DEF a
<1>3. ASSUME NEW i \in DOMAIN a PROVE a[i] \in Range(s) \cup {n}
  <2>1. i \in 1 .. Len(s) \/ i = Len(s) + 1
    BY <1>2
  <2>2. QED BY <2>1, <1>1, <1>2 DEF Range
<1>4. n \in Range(a)
  <2>1. Len(s) + 1 \in DOMAIN a
    BY <1>2
  <2>2. QED BY <2>1, <1>1 DEF Range
<1>5. ASSUME NEW i \in DOMAIN s PROVE s[i] \in Range(a)
  <2>1. i \in DOMAIN a /\ a[i] = s[i]
    BY <1>1, <1>2
  <2>2. QED BY <2>1 DEF Range
<1>6. Range(a) = Range(s) \cup {n}
  BY <1>3, <1>4, <1>5 DEF Range
<1>7. QED BY <1>1, <1>6 DEF a

LEMMA NewItem ==
    ASSUME NEW b, Name(b) \in Nat \X Nat
    PROVE  /\ newBundleItem(b) \in ItemRec
           /\ newBundleItem(b).fragmented = IsFragment(b)
           /\ newBundleItem(b).parts = <<Name(b)>>
           /\ newBundleItem(b).pending = FALSE
           /\ Range(<<Name(b)>>) = {Name(b)} /\ <<Name(b)>> # <<>>
<1>1. <<Name(b)>> \in Seq(Nat \X Nat) /\ <<Name(b)>> # <<>>
  OBVIOUS
<1>2. Range(<<Name(b)>>) = {Name(b)}
  BY DEF Range
<1>3. IsFragment(b) \in BOOLEAN
  BY DEF IsFragment
<1>4. QED BY <1>1, <1>2, <1>3 DEF newBundleItem, ItemRec

LEMMA PushCommitInv == ASSUME IInv, NEW t \in Threads, PushCommit(t) PROVE IInv'
<1> DEFINE b == thr[t].b
<1>1. /\ Goto(t, Idle) /\ UNCHANGED <<world, files, cut>>
      /\ setup.bundle # None /\ b \in sent /\ Name(b) \in Nat \X Nat
  BY PushCommitEffect
<1>2. item \in ItemRec \cup {None} /\ cut \in BOOLEAN /\ (item # None => item.parts # <<>>)
  BY DEF IInv, TypeInv
<1>3. IsFragment(b) <=> Name(b) # Whole
  BY <1>1, SentFacts DEF IInv
<1>4. CASE item' = item
  BY <1>1, <1>2, <1>4, EndInv DEF IInv, WholeInv, FragmentInv
<1>5. CASE item' = newBundleItem(b) /\ item = None
  <2>1. setup.mtus = {} => Name(b) = Whole
    BY <1>1, SentFacts DEF IInv
  <2>2. setup.mtus # {} => t = "handler"
    BY DEF PushCommit, IInv, FragmentInv, Pushing, Threads
  <2>3. /\ item' \in ItemRec /\ item'.fragmented = IsFragment(b)
        /\ item'.parts = <<Name(b)>> /\ Range(item'.parts) = {Name(b)} /\ item'.parts # <<>>
    BY <1>1, <1>5, NewItem
  <2>4. QED BY <1>1, <1>2, <1>3, <2>1, <2>2, <2>3, EndInv
<1>6. CASE /\ item # None /\ item' = [item EXCEPT !.parts = Append(@, Name(b))]
           /\ setup.mtus # {} /\ t = "handler"
           /\ item.fragmented /\ IsFragment(b)
  <2>1. item.parts \in Seq(Nat \X Nat)
    BY <1>2, <1>6 DEF ItemRec
  <2>2. /\ Append(item.parts, Name(b)) \in Seq(Nat \X Nat)
        /\ Append(item.parts, Name(b)) # <<>>
        /\ Range(Append(item.parts, Name(b))) = Range(item.parts) \cup {Name(b)}
    <3> DEFINE S == Nat \X Nat
    <3>1. item.parts \in Seq(S) /\ Name(b) \in S
      BY <1>1, <2>1
    <3> HIDE DEF S
    <3>2. /\ Append(item.parts, Name(b)) \in Seq(S)
          /\ Append(item.parts, Name(b)) # <<>>
          /\ Range(Append(item.parts, Name(b))) = Range(item.parts) \cup {Name(b)}
      BY <3>1, AppendRange
    <3>3. QED BY <3>2 DEF S
  <2>3. /\ item' \in ItemRec /\ item'.parts = Append(item.parts, Name(b))
    BY <1>2, <1>6, <2>2 DEF ItemRec
  <2>4. Whole \notin Range(item.parts)
    BY <1>6 DEF IInv, FragmentInv
  <2>5. QED BY <1>1, <1>2, <1>3, <1>6, <2>2, <2>3, <2>4, EndInv
<1>7. QED BY <1>4, <1>5, <1>6, PushCommitEffect

LEMMA UpdateEffect ==
    ASSUME IInv, NEW t \in Threads, NEW v \in BOOLEAN, Update(t, v)
    PROVE  /\ setup.bundle # None /\ setup.mtus = {}
           /\ \/ item = None /\ item' = None
              \/ /\ item # None /\ item' \in ItemRec
                 /\ item'.parts = item.parts /\ item.parts = <<Whole>> /\ item'.pending = v
<1>1. thr[t].pc = "update"
  BY DEF Update
<1>2. setup.bundle # None /\ setup.mtus = {}
  BY <1>1, Stores DEF IInv, FragmentInv, Pushing, Threads
<1>3. thr[t].item # None /\ thr[t].item.parts = <<Whole>> /\ (item # None => item.parts = <<Whole>>)
  BY <1>1, <1>2 DEF IInv, WholeInv
<1>4. thr[t].item \in ItemRec
  BY <1>3 DEF IInv, TypeInv, Frame
<1>5. QED BY <1>2, <1>3, <1>4 DEF Update, ItemRec

LEMMA UpdateInv == ASSUME IInv, NEW t \in Threads, NEW v \in BOOLEAN, Update(t, v) PROVE IInv'
<1>1. /\ setup.bundle # None /\ setup.mtus = {}
      /\ \/ item = None /\ item' = None
         \/ item' \in ItemRec /\ item'.parts = <<Whole>>
  BY UpdateEffect
<1>2. Goto(t, Idle) /\ UNCHANGED <<world, files, cut>> /\ cut \in BOOLEAN
  BY DEF Update, IInv, TypeInv
<1>3. <<Whole>> # <<>>
  OBVIOUS
<1>4. QED BY <1>1, <1>2, <1>3, EndInv

LEMMA DeleteCommitInv == ASSUME IInv, NEW t \in Threads, DeleteCommit(t) PROVE IInv'
<1>1. item' = None /\ cut' = FALSE /\ Goto(t, Idle) /\ UNCHANGED <<world, files>>
  BY DEF DeleteCommit
<1>2. setup.bundle # None
  BY Stores DEF DeleteCommit
<1>3. QED BY <1>1, <1>2, EndInv

LEMMA StepInv == ASSUME IInv, [Next]_vars PROVE IInv'
<1>1. CASE UNCHANGED vars
  BY <1>1, SourceInv DEF vars, IInv, TypeInv
<1>2. CASE CallBuilder \/ Build
  BY <1>2, SourceInv DEF CallBuilder, Build, stored, IInv, TypeInv
<1>3. CASE \E type \in BlockTypes \ {"payload"} : AddBlock(type)
  BY <1>3, SourceInv DEF AddBlock, stored, IInv, TypeInv
<1>4. CASE \E num \in 1 .. MaxBlocks + 2 : RemoveBlock(num)
  BY <1>4, SourceInv DEF RemoveBlock, stored, IInv, TypeInv
<1>5. CASE \E b \in sent : Push(b)
  BY <1>5, PushInv
<1>6. CASE \E t \in Threads : Step(t)
  BY <1>6, SyncKnowsInv, SyncPushInv, storeBundleInv, PushCommitInv, SyncQueryInv,
     DeleteQueryInv, deleteBundleInv, DeleteCommitInv, UpdateInv DEF Step
<1>7. CASE DeleteExpired
  BY <1>7, DeleteExpiredInv
<1>8. CASE Expire
  BY <1>8, SourceInv DEF Expire, source
<1>9. CASE Crash
  BY <1>9, CrashInv
<1>10. QED BY <1>1, <1>2, <1>3, <1>4, <1>5, <1>6, <1>7, <1>8, <1>9 DEF Next

\* The invariant holds in every behaviour of the store.
THEOREM Inductive == Spec => []IInv
BY InitInv, StepInv, PTL DEF Spec

-----------------------------------------------------------------------------
\* Storage implements KeyedStore

\* The abstract store's parts
Parts == IF item = None THEN {} ELSE Range(item.parts)

\* An item has at least one part.
LEMMA PartsNotEmpty == ASSUME IInv PROVE item # None <=> Parts # {}
<1>1. ASSUME item # None PROVE Range(item.parts) # {}
  <2>1. item.parts \in Seq(Nat \X Nat) /\ item.parts # <<>>
    BY <1>1 DEF IInv, TypeInv, ItemRec
  <2>2. 1 \in DOMAIN item.parts
    BY <2>1
  <2>3. QED BY <2>2 DEF Range
<1>2. QED BY <1>1 DEF Parts

LEMMA ItemUnchanged ==
    ASSUME item' = item
    PROVE  UNCHANGED Abstract!kvars
BY DEF Abstract!kvars

LEMMA InitRefines == Init => Abstract!Init
BY DEF Init, Abstract!Init

LEMMA PushCommitRefines ==
    ASSUME IInv, IInv', NEW t \in Threads, PushCommit(t)
    PROVE  [Abstract!Next]_(Abstract!kvars)
<1> DEFINE b == thr[t].b
<1>1. Name(b) \in Nat \X Nat /\ b \in sent
  BY PushCommitEffect
<1>2. CASE item' = item
  BY <1>2, ItemUnchanged
<1>3. CASE item = None /\ item' = newBundleItem(b)
  <2>1. item' \in ItemRec /\ Range(item'.parts) = {Name(b)} /\ item'.pending = FALSE
    BY <1>1, <1>3, NewItem
  <2>2. item' # None
    BY <2>1, StorageAssumption
  <2>3. Abstract!Insert
    BY <1>3, <2>1, <2>2 DEF Abstract!Insert
  <2>4. QED BY <2>3 DEF Abstract!Next
<1>4. CASE /\ item # None /\ item' = [item EXCEPT !.parts = Append(@, Name(b))]
           /\ setup.mtus # {} /\ item.fragmented /\ IsFragment(b)
           /\ Name(b) \notin Range(item.parts)
  <2>1. item \in ItemRec
    BY <1>4 DEF IInv, TypeInv
  <2> DEFINE S == Nat \X Nat
  <2>2. item.parts \in Seq(S) /\ Name(b) \in S
    BY <1>1, <2>1 DEF ItemRec
  <2> HIDE DEF S
  <2>3. /\ item'.parts = Append(item.parts, Name(b)) /\ item'.pending = item.pending
        /\ item'.fragmented = item.fragmented
    BY <1>4, <2>1 DEF ItemRec
  <2>4. Range(item'.parts) = Range(item.parts) \cup {Name(b)}
    BY <2>2, <2>3, AppendRange
  <2>5. item' # None
    <3>1. item' \in ItemRec
      <4>1. Append(item.parts, Name(b)) \in Seq(S)
        BY <2>2, AppendRange
      <4>2. QED BY <1>4, <2>1, <4>1 DEF ItemRec, S
    <3>2. QED BY <3>1, StorageAssumption
  <2>6. Whole \notin Range(item.parts) /\ Whole \notin Range(item'.parts)
    <3>1. Whole \notin Range(item.parts)
      BY <1>4 DEF IInv, FragmentInv
    <3>2. Name(b) # Whole
      BY <1>1, <1>4, SentFacts DEF IInv
    <3>3. QED BY <3>1, <3>2, <2>4
  <2>7. Range(item.parts) # {}
    BY <1>4, PartsNotEmpty DEF Parts
  <2>8. Abstract!AddFragment
    BY <1>4, <2>3, <2>4, <2>5, <2>6, <2>7 DEF Abstract!AddFragment
  <2>9. QED BY <2>8 DEF Abstract!Next
<1>5. QED BY <1>2, <1>3, <1>4, PushCommitEffect

LEMMA UpdateRefines ==
    ASSUME IInv, NEW t \in Threads, NEW v \in BOOLEAN, Update(t, v)
    PROVE  [Abstract!Next]_(Abstract!kvars)
<1>1. CASE item = None /\ item' = None
  BY <1>1, ItemUnchanged
<1>2. CASE item # None /\ item' \in ItemRec /\ item'.parts = item.parts /\ item'.pending = v
  <2>1. item' # None
    BY <1>2, StorageAssumption
  <2>2. Range(item.parts) # {}
    BY <1>2, PartsNotEmpty DEF Parts
  <2>3. Abstract!SetPending(v)
    BY <1>2, <2>1, <2>2 DEF Abstract!SetPending
  <2>4. QED BY <2>3 DEF Abstract!Next
<1>3. QED BY <1>1, <1>2, UpdateEffect

LEMMA DeleteCommitRefines ==
    ASSUME IInv, NEW t \in Threads, DeleteCommit(t)
    PROVE  [Abstract!Next]_(Abstract!kvars)
<1>1. item' = None
  BY DEF DeleteCommit
<1>2. CASE item = None
  BY <1>1, <1>2, ItemUnchanged
<1>3. CASE item # None
  <2>1. Range(item.parts) # {}
    BY <1>3, PartsNotEmpty DEF Parts
  <2>2. Abstract!Remove
    BY <1>1, <1>3, <2>1 DEF Abstract!Remove
  <2>3. QED BY <2>2 DEF Abstract!Next
<1>4. QED BY <1>2, <1>3

LEMMA StepRefines ==
    ASSUME IInv, IInv', [Next]_vars
    PROVE  [Abstract!Next]_(Abstract!kvars)
<1>1. CASE item' = item
  BY <1>1, ItemUnchanged
<1>2. CASE \E t \in Threads : PushCommit(t)
  BY <1>2, PushCommitRefines
<1>3. CASE \E t \in Threads : \E v \in BOOLEAN : Update(t, v)
  BY <1>3, UpdateRefines
<1>4. CASE \E t \in Threads : DeleteCommit(t)
  BY <1>4, DeleteCommitRefines
<1>5. \/ item' = item
      \/ \E t \in Threads : \/ PushCommit(t) \/ DeleteCommit(t)
                            \/ \E v \in BOOLEAN : Update(t, v)
  <2>1. CASE \E t \in Threads : Step(t)
    <3>1. PICK t \in Threads : Step(t)
      BY <2>1
    <3>2. CASE PushCommit(t) \/ DeleteCommit(t) \/ \E v \in BOOLEAN : Update(t, v)
      BY <3>2
    <3>3. CASE SyncKnows(t) \/ SyncPush(t) \/ storeBundle(t) \/ SyncQuery(t)
               \/ DeleteQuery(t) \/ deleteBundle(t)
      BY <3>3 DEF SyncKnows, SyncPush, storeBundle, SyncQuery, DeleteQuery, deleteBundle
    <3>4. QED BY <3>1, <3>2, <3>3 DEF Step
  <2>2. CASE ~(\E t \in Threads : Step(t))
    BY <2>2 DEF Next, vars, CallBuilder, Build, AddBlock, RemoveBlock, Push, DeleteExpired,
       Expire, Crash, stored
  <2>3. QED BY <2>1, <2>2
<1>6. QED BY <1>1, <1>2, <1>3, <1>4, <1>5

(***************************************************************************)
(* The Store implements KeyedStore, for any bundle, any MTUs and any calls *)
(* of the goroutines: although queries and writes of the database and of   *)
(* the files interleave, and a crash may come between any two, the item of *)
(* an ID appears, grows by a fragment, changes its Pending field and goes  *)
(* in single steps, and nothing brings a deleted one back.                 *)
(***************************************************************************)
THEOREM StoreIsKeyed == Spec => ImplementsKeyedStore
<1>1. Spec => []IInv
  BY Inductive
<1>2. IInv /\ IInv' /\ [Next]_vars => [Abstract!Next]_(Abstract!kvars)
  BY StepRefines
<1>3. QED BY <1>1, <1>2, InitRefines, PTL DEF Spec, ImplementsKeyedStore, Abstract!Spec

-----------------------------------------------------------------------------
\* Every part of a fragmented item can be read

\* The file begins with a bundle that was sent under this name.
Good(n) ==
    \E b \in sent, rest \in Seq(Token) : Name(b) = n /\ files[n] = WriteBundle(b) \o rest

\* Delete removes files of the item that is there.
RemoveInv ==
    \A t \in Threads :
       thr[t].pc = "remove" => item # None /\ Range(thr[t].todo) \subseteq Range(item.parts)

\* Nobody writes a file of the item.
ApartInv ==
    \A t \in Threads :
       thr[t].pc \in Pushing => item = None \/ Name(thr[t].b) \notin Range(item.parts)

\* A file is written before the item gets its name, and not touched then.
WrittenInv == \A t \in Threads : thr[t].pc = "commit" => Good(Name(thr[t].b))

ReadInv ==
    item # None /\ ~cut /\ (\A t \in Threads : thr[t].pc # "remove") =>
       \A n \in Range(item.parts) : Good(n)

RInv == RemoveInv /\ ApartInv /\ WrittenInv /\ ReadInv

\* At most one goroutine is in a Push, and one in a Delete.
Sole ==
    \A t, u \in Threads :
       /\ thr[t].pc \in Pushing /\ thr[u].pc \in Pushing => t = u
       /\ thr[t].pc = "remove" /\ thr[u].pc = "remove" => t = u

LEMMA Turns == ASSUME IInv, setup.mtus # {} PROVE Sole
BY DEF IInv, FragmentInv, Sole, Threads, Pushing

LEMMA GoodStays ==
    ASSUME UNCHANGED sent, NEW n, files'[n] = files[n]
    PROVE  Good(n)' <=> Good(n)
BY DEF Good

LEMMA InitRInv == ASSUME Init PROVE RInv
BY DEF Init, RInv, RemoveInv, ApartInv, WrittenInv, ReadInv, Idle, Pushing

\* Nothing that matters for the files changes.
LEMMA SameRead ==
    ASSUME RInv, UNCHANGED <<setup, sent, item, files, thr, cut>>
    PROVE  RInv'
BY DEF RInv, RemoveInv, ApartInv, WrittenInv, ReadInv, Good

\* A goroutine goes on and leaves item and files alone.
LEMMA MoveRead ==
    ASSUME IInv, RInv, NEW t \in Threads, NEW f \in Frame(sent), Goto(t, f),
           UNCHANGED <<world, item, files, cut>>,
           thr[t].pc # "remove", f.pc # "commit",
           f.pc = "remove" => item # None /\ f.todo = item.parts,
           f.pc \in Pushing => item = None \/ Name(f.b) \notin Range(item.parts)
    PROVE  RInv'
<1>1. UNCHANGED <<setup, sent, item, files, cut>>
  BY DEF world, source
<1>2. thr'[t] = f /\ \A u \in Threads \ {t} : thr'[u] = thr[u]
  BY <1>1, GotoFrame DEF IInv
<1>3. RemoveInv'
  BY <1>1, <1>2 DEF RInv, RemoveInv
<1>4. ApartInv'
  BY <1>1, <1>2 DEF RInv, ApartInv
<1>5. WrittenInv'
  BY <1>1, <1>2 DEF RInv, WrittenInv, Good
<1>6. ReadInv'
  BY <1>1, <1>2 DEF RInv, ReadInv, Good
<1>7. QED BY <1>3, <1>4, <1>5, <1>6 DEF RInv

LEMMA PushQueryRead ==
    ASSUME IInv, RInv, NEW t \in Threads, NEW b \in sent, PushQuery(t, b),
           UNCHANGED <<world, item, files, cut>>, thr[t].pc # "remove"
    PROVE  RInv'
<1> DEFINE new == [thr[t] EXCEPT !.pc = "write", !.b = b, !.item = item]
           go == item = None \/ (IsFragment(b) /\ item.fragmented
                                 /\ Name(b) \notin Range(item.parts))
<1>1. thr[t] \in Frame(sent) /\ Idle \in Frame(sent) /\ Idle.pc = "idle"
  BY FrameFields DEF IInv, Idle
<1>2. new \in Frame(sent) /\ new.pc = "write" /\ new.b = b
  BY <1>1 DEF Frame, Pcs, IInv, TypeInv
<1> HIDE DEF new
<1>3. CASE go
  <2>1. Goto(t, new)
    BY <1>3 DEF PushQuery, new
  <2>2. QED BY <1>2, <1>3, <2>1, MoveRead
<1>4. CASE ~go
  <2>1. Goto(t, Idle)
    BY <1>4 DEF PushQuery
  <2>2. QED BY <1>1, <2>1, MoveRead DEF Pushing
<1>5. QED BY <1>3, <1>4

LEMMA SyncKnowsRead == ASSUME IInv, RInv, NEW t \in Threads, SyncKnows(t) PROVE RInv'
<1>1. UNCHANGED <<world, item, files, cut>> /\ thr[t].pc = "idle" /\ setup.mtus = {}
  BY DEF SyncKnows
<1>2. PICK f : /\ Goto(t, f)
               /\ \/ f = [thr[t] EXCEPT !.pc = "push", !.b = origin] /\ Does(t, "push")
                  \/ f = [thr[t] EXCEPT !.pc = "query"]
                  \/ f = [thr[t] EXCEPT !.pc = "delete"]
  BY DEF SyncKnows
<1>3. thr[t] \in Frame(sent)
  BY FrameFields DEF IInv
<1>4. f = [thr[t] EXCEPT !.pc = "push", !.b = origin] => origin \in sent
  <2>1. Does(t, "push") => setup.bundle # None
    BY Stores DEF Calls
  <2>2. f = [thr[t] EXCEPT !.pc = "push", !.b = origin] /\ ~Does(t, "push") =>
           f.pc \in {"query", "delete"} /\ f.pc = "push"
    BY <1>2, <1>3 DEF Frame
  <2>3. QED BY <1>1, <2>1, <2>2, SentFacts DEF IInv
<1>5. f \in Frame(sent) /\ f.pc \in {"push", "query", "delete"}
  BY <1>2, <1>3, <1>4 DEF Frame, Pcs
<1>6. QED BY <1>1, <1>2, <1>5, MoveRead DEF Pushing

LEMMA SyncQueryRead == ASSUME IInv, RInv, NEW t \in Threads, SyncQuery(t) PROVE RInv'
<1> DEFINE f == IF item = None THEN Idle ELSE [thr[t] EXCEPT !.pc = "update", !.item = item]
<1>1. UNCHANGED <<world, item, files, cut>> /\ Goto(t, f) /\ thr[t].pc = "query"
  BY DEF SyncQuery
<1>2. f \in Frame(sent) /\ f.pc \in {"idle", "update"}
  BY FrameFields DEF Frame, Pcs, Idle, IInv, TypeInv
<1> HIDE DEF f
<1>3. QED BY <1>1, <1>2, MoveRead DEF Pushing

LEMMA DeleteExpiredRead == ASSUME IInv, RInv, DeleteExpired PROVE RInv'
<1> DEFINE f == [thr["cron"] EXCEPT !.pc = "delete"]
<1>1. /\ "cron" \in Threads /\ UNCHANGED <<world, item, files, cut>> /\ Goto("cron", f)
      /\ thr["cron"].pc = "idle"
  BY DEF DeleteExpired, Threads
<1>2. f \in Frame(sent) /\ f.pc = "delete"
  BY <1>1, FrameFields DEF Frame, Pcs, IInv
<1> HIDE DEF f
<1>3. QED BY <1>1, <1>2, MoveRead DEF Pushing

LEMMA DeleteQueryRead == ASSUME IInv, RInv, NEW t \in Threads, DeleteQuery(t) PROVE RInv'
<1> DEFINE f == IF item = None THEN Idle
                ELSE [thr[t] EXCEPT !.pc = "remove", !.todo = item.parts]
<1>1. UNCHANGED <<world, item, files, cut>> /\ Goto(t, f) /\ thr[t].pc = "delete"
  BY DEF DeleteQuery
<1>2. /\ f \in Frame(sent)
      /\ f.pc = "idle" \/ (f.pc = "remove" /\ item # None /\ f.todo = item.parts)
  BY FrameFields DEF Frame, Pcs, Idle, IInv, TypeInv, ItemRec
<1> HIDE DEF f
<1>3. QED BY <1>1, <1>2, MoveRead DEF Pushing

LEMMA storeBundleRead ==
    ASSUME IInv, RInv, setup.mtus # {}, NEW t \in Threads, storeBundle(t)
    PROVE  RInv'
<1> DEFINE new == WriteBundle(thr[t].b)
<1>0. PICK m : m = Name(thr[t].b)
  OBVIOUS
<1>1. /\ thr[t].b \in sent /\ new \in Seq(Token) /\ Content(m) \in Seq(Token)
      /\ m \in DOMAIN files /\ UNCHANGED <<setup, sent, item, cut>>
  BY <1>0, storeBundleEffect DEF world, source
<1>2. PICK k \in 0 .. Len(new) :
         /\ files' = [files EXCEPT ![m] = Over(new, Content(m), k)]
         /\ \/ Goto(t, [thr[t] EXCEPT !.pc = "writing"])
            \/ k = Len(new) /\ Goto(t, [thr[t] EXCEPT !.pc = "commit"])
  BY <1>0, storeBundleEffect
<1>3. \A n \in DOMAIN files \ {m} : files'[n] = files[n]
  BY <1>2
<1>4. thr[t].pc \in Pushing /\ thr[t].pc # "remove" /\ thr[t].pc # "commit"
  BY DEF storeBundle, Pushing
<1>5. thr \in [Threads -> Frame(sent)]
  BY DEF IInv, TypeInv
<1>6. /\ \A u \in Threads \ {t} : thr'[u] = thr[u]
      /\ thr'[t].pc \in {"writing", "commit"} /\ thr'[t].b = thr[t].b
      /\ thr'[t].pc = "commit" => k = Len(new)
  <2> HIDE DEF new
  <2> QED BY <1>2, <1>5 DEF Goto, Frame
<1>7. k = Len(new) => Good(m)'
  <2> SUFFICES ASSUME k = Len(new) PROVE Good(m)'
    OBVIOUS
  <2> DEFINE rest == SubSeq(Content(m), Len(new) + 1, Len(Content(m)))
  <2>1. rest \in Seq(Token) /\ Over(new, Content(m), Len(new)) = new \o rest
    BY <1>1, <1>2, OverType
  <2>2. files'[m] = new \o rest
    <3> HIDE DEF new, rest
    <3> QED BY <1>1, <1>2, <2>1
  <2> HIDE DEF rest
  <2>3. QED BY <1>0, <1>1, <2>1, <2>2 DEF Good
<1>8. RemoveInv'
  BY <1>1, <1>4, <1>6 DEF RInv, RemoveInv
<1>9. ApartInv'
  <2> HIDE DEF new
  <2> QED BY <1>1, <1>4, <1>6 DEF RInv, ApartInv
<1>10. WrittenInv' /\ ReadInv'
  <2>1. Sole /\ (item = None \/ m \notin Range(item.parts))
    BY <1>0, <1>4, Turns DEF RInv, ApartInv
  <2>2. \A u \in Threads \ {t} : thr[u].pc # "commit"
    BY <2>1, <1>4 DEF Sole, Pushing
  <2>3. WrittenInv'
    BY <1>0, <1>6, <1>7, <2>2 DEF WrittenInv
  <2>4. ASSUME NEW n, n # m, Good(n) PROVE Good(n)'
    <3>1. n \in DOMAIN files
      BY <2>4 DEF Good, IInv, TypeInv
    <3>2. QED BY <1>1, <1>3, <2>4, <3>1, GoodStays
  <2>5. ReadInv'
    <3> SUFFICES ASSUME item' # None, ~cut', \A u \in Threads : thr'[u].pc # "remove",
                        NEW n \in Range(item'.parts)
                 PROVE  Good(n)'
      BY DEF ReadInv
    <3>1. item # None /\ ~cut /\ n \in Range(item.parts) /\ n # m
      BY <1>1, <2>1
    <3>2. \A u \in Threads : thr[u].pc # "remove"
      BY <1>4, <1>6
    <3>3. Good(n)
      BY <3>1, <3>2 DEF RInv, ReadInv
    <3>4. QED BY <3>1, <3>3, <2>4
  <2>6. QED BY <2>3, <2>5
<1>11. QED BY <1>8, <1>9, <1>10 DEF RInv

LEMMA PushCommitRead ==
    ASSUME IInv, RInv, setup.mtus # {}, NEW t \in Threads, PushCommit(t)
    PROVE  RInv'
<1> DEFINE b == thr[t].b
<1>1. /\ Goto(t, Idle) /\ UNCHANGED <<setup, sent, files, cut>>
      /\ b \in sent /\ Name(b) \in Nat \X Nat /\ thr[t].pc = "commit"
  BY PushCommitEffect DEF world, source, PushCommit
<1>2. /\ thr'[t] = Idle /\ Idle.pc = "idle"
      /\ \A u \in Threads \ {t} : thr'[u] = thr[u]
  BY <1>1, GotoFrame, FrameFields DEF IInv, Idle
<1>3. \/ item' = item
      \/ item = None /\ Range(item'.parts) = {Name(b)}
      \/ item # None /\ Range(item'.parts) = Range(item.parts) \cup {Name(b)}
  <2>1. CASE item' = newBundleItem(b) /\ item = None
    BY <1>1, <2>1, NewItem
  <2>2. CASE item # None /\ item' = [item EXCEPT !.parts = Append(@, Name(b))]
    <3> DEFINE S == Nat \X Nat
    <3>1. item \in ItemRec
      BY <2>2 DEF IInv, TypeInv
    <3>2. item.parts \in Seq(S) /\ Name(b) \in S
      BY <1>1, <3>1 DEF ItemRec
    <3>3. item'.parts = Append(item.parts, Name(b))
      BY <2>2, <3>1 DEF ItemRec
    <3> HIDE DEF S
    <3>4. QED BY <2>2, <3>2, <3>3, AppendRange
  <2>3. QED BY <2>1, <2>2, PushCommitEffect
<1>4. \A n : Good(n)' <=> Good(n)
  BY <1>1, GoodStays
<1>5. item # None => item' # None
  <2>1. IInv'
    BY PushCommitInv
  <2>2. CASE item # None /\ item' = [item EXCEPT !.parts = Append(@, Name(b))]
    <3>1. item \in ItemRec
      BY <2>2 DEF IInv, TypeInv
    <3> DEFINE S == Nat \X Nat
    <3>2. item.parts \in Seq(S) /\ Name(b) \in S
      BY <1>1, <3>1 DEF ItemRec
    <3> HIDE DEF S
    <3>3. Append(item.parts, Name(b)) \in Seq(S)
      BY <3>2, AppendRange
    <3>4. item' \in ItemRec
      BY <2>2, <3>1, <3>3 DEF ItemRec, S
    <3>5. QED BY <3>4, StorageAssumption
  <2>3. QED BY <2>2, PushCommitEffect
<1>6. Good(Name(b))
  BY <1>1 DEF RInv, WrittenInv
<1>7. RemoveInv'
  BY <1>2, <1>3, <1>5 DEF RInv, RemoveInv
<1>8. ApartInv'
  <2>1. \A u \in Threads \ {t} : thr[u].pc \notin Pushing
    BY <1>1, Turns DEF Sole, Pushing
  <2>2. QED BY <2>1, <1>2 DEF ApartInv, Pushing
<1>9. WrittenInv'
  BY <1>2, <1>4 DEF RInv, WrittenInv
<1>10. ReadInv'
  <2> SUFFICES ASSUME item' # None, ~cut', \A u \in Threads : thr'[u].pc # "remove",
                      NEW n \in Range(item'.parts)
               PROVE  Good(n)
    BY <1>4 DEF ReadInv
  <2>1. \A u \in Threads : thr[u].pc # "remove"
    BY <1>1, <1>2
  <2>2. item # None => \A q \in Range(item.parts) : Good(q)
    BY <1>1, <2>1 DEF RInv, ReadInv
  <2>3. QED BY <1>3, <1>6, <2>2
<1>11. QED BY <1>7, <1>8, <1>9, <1>10 DEF RInv

LEMMA UpdateRead ==
    ASSUME IInv, RInv, NEW t \in Threads, NEW v \in BOOLEAN, Update(t, v)
    PROVE  RInv'
<1>1. /\ Goto(t, Idle) /\ UNCHANGED <<setup, sent, files, cut>> /\ thr[t].pc = "update"
  BY DEF Update, world, source
<1>2. /\ thr'[t] = Idle /\ Idle.pc = "idle"
      /\ \A u \in Threads \ {t} : thr'[u] = thr[u]
  BY <1>1, GotoFrame, FrameFields DEF IInv, Idle
<1>3. \/ item = None /\ item' = None
      \/ item # None /\ item' # None /\ item'.parts = item.parts
  BY UpdateEffect, StorageAssumption
<1>4. \A n : Good(n)' <=> Good(n)
  BY <1>1, GoodStays
<1>5. RemoveInv'
  BY <1>2, <1>3 DEF RInv, RemoveInv
<1>6. ApartInv'
  BY <1>1, <1>2, <1>3 DEF RInv, ApartInv, Pushing
<1>7. WrittenInv'
  BY <1>2, <1>4 DEF RInv, WrittenInv
<1>8. ReadInv'
  BY <1>1, <1>2, <1>3, <1>4 DEF RInv, ReadInv
<1>9. QED BY <1>5, <1>6, <1>7, <1>8 DEF RInv

LEMMA deleteBundleRead ==
    ASSUME IInv, RInv, NEW t \in Threads, deleteBundle(t)
    PROVE  RInv'
<1> DEFINE h == Head(thr[t].todo)
<1>1. /\ UNCHANGED <<setup, sent, item, cut>> /\ thr[t].pc = "remove" /\ thr[t].todo # <<>>
      /\ files' = [files EXCEPT ![h] = None]
      /\ Goto(t, [thr[t] EXCEPT !.todo = Tail(@)])
  BY DEF deleteBundle, world, source
<1>2. thr \in [Threads -> Frame(sent)]
  BY DEF IInv, TypeInv
<1>3. /\ thr'[t].pc = "remove" /\ thr'[t].todo = Tail(thr[t].todo)
      /\ \A u \in Threads \ {t} : thr'[u] = thr[u]
  BY <1>1, <1>2 DEF Goto, Frame
<1>4. /\ Range(Tail(thr[t].todo)) \subseteq Range(thr[t].todo)
      /\ h \in Range(thr[t].todo)
  <2> DEFINE S == Nat \X Nat
             s == thr[t].todo
  <2>1. s \in Seq(S) /\ s # <<>>
    BY <1>1, <1>2 DEF Frame
  <2> HIDE DEF S, s
  <2>2. /\ Tail(s) \in Seq(S) /\ Len(Tail(s)) = Len(s) - 1 /\ Len(s) \in Nat /\ Len(s) > 0
        /\ \A i \in 1 .. Len(Tail(s)) : Tail(s)[i] = s[i + 1]
    BY <2>1, HeadTailProperties
  <2>3. ASSUME NEW i \in DOMAIN Tail(s) PROVE Tail(s)[i] \in Range(s)
    <3>1. i \in 1 .. Len(Tail(s)) /\ (i + 1) \in DOMAIN s
      BY <2>1, <2>2
    <3>2. QED BY <2>2, <3>1 DEF Range
  <2>4. Head(s) \in Range(s)
    BY <2>1, <2>2 DEF Range
  <2>5. QED BY <2>3, <2>4 DEF Range, s
<1>5. item # None /\ h \in Range(item.parts)
  BY <1>1, <1>4 DEF RInv, RemoveInv
<1>7. RemoveInv'
  BY <1>1, <1>3, <1>4 DEF RInv, RemoveInv
<1>8. ApartInv'
  BY <1>1, <1>3 DEF RInv, ApartInv, Pushing
<1>9. WrittenInv'
  <2>1. ASSUME NEW n, n # h, n \in DOMAIN files, Good(n) PROVE Good(n)'
    <3>1. files'[n] = files[n]
      BY <1>1, <2>1
    <3>2. QED BY <1>1, <2>1, <3>1, GoodStays
  <2>2. ASSUME NEW u \in Threads, thr[u].pc = "commit"
        PROVE  Name(thr[u].b) # h /\ Good(Name(thr[u].b)) /\ Name(thr[u].b) \in DOMAIN files
    BY <1>5, <2>2 DEF RInv, ApartInv, WrittenInv, IInv, CallInv, TypeInv, Pushing
  <2> HIDE DEF h
  <2>3. QED BY <1>3, <2>1, <2>2 DEF WrittenInv
<1>10. ReadInv'
  BY <1>3 DEF ReadInv
<1>11. QED BY <1>7, <1>8, <1>9, <1>10 DEF RInv

LEMMA DeleteCommitRead ==
    ASSUME IInv, RInv, setup.mtus # {}, NEW t \in Threads, DeleteCommit(t)
    PROVE  RInv'
<1>1. /\ Goto(t, Idle) /\ UNCHANGED <<setup, sent, files>> /\ item' = None
      /\ thr[t].pc = "remove"
  BY DEF DeleteCommit, world, source
<1>2. /\ thr'[t] = Idle /\ Idle.pc = "idle"
      /\ \A u \in Threads \ {t} : thr'[u] = thr[u]
  BY <1>1, GotoFrame, FrameFields DEF IInv, Idle
<1>3. \A u \in Threads \ {t} : thr[u].pc # "remove"
  BY <1>1, Turns DEF Sole
<1>4. RemoveInv' /\ ApartInv' /\ ReadInv'
  BY <1>1, <1>2, <1>3 DEF RemoveInv, ApartInv, ReadInv
<1>5. WrittenInv'
  BY <1>1, <1>2 DEF RInv, WrittenInv, Good
<1>6. QED BY <1>4, <1>5 DEF RInv

LEMMA CrashRead == ASSUME IInv, RInv, Crash PROVE RInv'
<1>1. /\ UNCHANGED <<setup, sent, item, files>> /\ thr' = [t \in Threads |-> Idle]
      /\ Idle.pc = "idle"
  BY DEF Crash, world, source, Idle
<1>2. item # None /\ ~cut' => ~cut /\ \A t \in Threads : thr[t].pc # "remove"
  BY DEF Crash, Deleting
<1>3. RemoveInv' /\ ApartInv' /\ WrittenInv'
  BY <1>1 DEF RemoveInv, ApartInv, WrittenInv, Pushing
<1>4. ReadInv'
  BY <1>1, <1>2 DEF RInv, ReadInv, Good
<1>5. QED BY <1>3, <1>4 DEF RInv

LEMMA StepRead ==
    ASSUME IInv, RInv, setup.mtus # {}, [Next]_vars
    PROVE  RInv'
<1>1. CASE UNCHANGED vars
  BY <1>1, SameRead DEF vars
<1>2. CASE CallBuilder \/ Build
  BY <1>2, SameRead DEF CallBuilder, Build, stored
<1>3. CASE \E type \in BlockTypes \ {"payload"} : AddBlock(type)
  BY <1>3, SameRead DEF AddBlock, stored
<1>4. CASE \E num \in 1 .. MaxBlocks + 2 : RemoveBlock(num)
  BY <1>4, SameRead DEF RemoveBlock, stored
<1>5. CASE \E b \in sent : Push(b)
  <2>1. PICK b \in sent : Push(b)
    BY <1>5
  <2>2. QED BY <2>1, PushQueryRead DEF Push, Threads
<1>6. CASE \E t \in Threads : Step(t)
  <2>1. PICK t \in Threads : Step(t)
    BY <1>6
  <2>2. CASE SyncPush(t)
    <3>1. thr[t].b \in sent /\ thr[t].pc = "push"
      BY <2>2 DEF SyncPush, IInv, CallInv
    <3>2. QED BY <2>2, <3>1, PushQueryRead DEF SyncPush
  <2>3. CASE ~SyncPush(t)
    BY <2>1, <2>3, SyncKnowsRead, storeBundleRead, PushCommitRead, SyncQueryRead,
       DeleteQueryRead, deleteBundleRead, DeleteCommitRead, UpdateRead DEF Step
  <2>4. QED BY <2>2, <2>3
<1>7. CASE DeleteExpired
  BY <1>7, DeleteExpiredRead
<1>8. CASE Expire
  BY <1>8, SameRead DEF Expire, source
<1>9. CASE Crash
  BY <1>9, CrashRead
<1>10. QED BY <1>1, <1>2, <1>3, <1>4, <1>5, <1>6, <1>7, <1>8, <1>9 DEF Next

\* A setup stays what it is.
LEMMA SetupKept == ASSUME [Next]_vars PROVE UNCHANGED setup
BY DEF Next, vars, CallBuilder, Build, AddBlock, RemoveBlock, Push, Step, SyncKnows, SyncPush,
   storeBundle, PushCommit, SyncQuery, DeleteQuery, deleteBundle, DeleteCommit, Update,
   DeleteExpired, Expire, Crash, world

LEMMA GoodIsReadable == ASSUME IInv, NEW n, Good(n) PROVE Readable(n)
<1>1. PICK b \in sent, rest \in Seq(Token) : Name(b) = n /\ files[n] = WriteBundle(b) \o rest
  BY DEF Good
<1>2. WellFormed(b) /\ CheckValid(b, FALSE)
  BY SentFacts DEF IInv
<1>3. WriteBundle(b) \in Seq(Token)
  BY <1>2, WriteBundleElements
<1>4. files[n] \in Seq(Token)
  BY <1>1, <1>3, ConcatProperties
<1>5. files[n] # None
  BY <1>4, StorageAssumption
<1>6. LoadPart(n, FALSE) = [ok |-> TRUE, bundle |-> b]
  BY <1>1, <1>2, <1>5, RoundTrip DEF LoadPart
<1>7. LoadPart(n, FALSE).ok /\ LoadPart(n, FALSE).bundle = b
  <2> DEFINE r == [ok |-> TRUE, bundle |-> b]
  <2>1. r.ok /\ r.bundle = b
    OBVIOUS
  <2> HIDE DEF r
  <2>2. LoadPart(n, FALSE) = r
    BY <1>6 DEF r
  <2>3. QED BY <2>1, <2>2
<1>8. QED BY <1>1, <1>7 DEF Readable

(***************************************************************************)
(* Every part of an item that holds fragments can be read back as a bundle *)
(* that was sent under its name, for any bundle, any MTUs, crashes at any  *)
(* point and a DeleteExpired beside the pushing goroutine.  For whole      *)
(* bundles, which several goroutines push and delete without a lock, this  *)
(* may fail, and the instances where it holds are left to TLC.             *)
(***************************************************************************)
THEOREM FragmentsReadable == Spec => [](setup.mtus # {} => StoredIsReadable)
<1>1. setup.mtus # {} /\ IInv /\ RInv /\ [Next]_vars => RInv'
  BY StepRead
<1>2. setup.mtus # {} /\ IInv /\ RInv => StoredIsReadable
  BY GoodIsReadable DEF RInv, ReadInv, StoredIsReadable, Deleting
<1>3. Init => RInv
  BY InitRInv
<1>4. [Next]_vars => UNCHANGED setup
  BY SetupKept
<1>5. (setup.mtus # {} => RInv) /\ IInv /\ [Next]_vars => (setup.mtus # {} => RInv)'
  BY <1>1, <1>4
<1>6. IInv /\ (setup.mtus # {} => RInv) => (setup.mtus # {} => StoredIsReadable)
  BY <1>2
<1>7. Init => (setup.mtus # {} => RInv)
  BY <1>3
<1> QED
  BY <1>5, <1>6, <1>7, Inductive, PTL DEF Spec

-----------------------------------------------------------------------------
\* What is built

\* The places of the blocks that take the builder's numbers
Numbered(s) == {i \in DOMAIN s : s[i].type # "payload"}

\* The builder's fields, and its counter: the number of its next block
Sane(x) ==
    /\ x \in [err : BOOLEAN, primary : PrimaryRec, blocks : Seq(BlockRec), counter : Nat]
    /\ x.primary.off = 0 /\ x.primary.total = 0 /\ "fragment" \notin x.primary.flags
    /\ x.counter = 2 + Cardinality(Numbered(x.blocks))

\* The bundle is valid from the moment it is built.
BInv ==
    /\ Sane(bldr)
    /\ origin # None => WellFormed(origin) /\ CheckValid(origin, FALSE) /\ ~IsFragment(origin)

LEMMA AppendCounts ==
    ASSUME NEW s \in Seq(BlockRec), NEW cb \in BlockRec
    PROVE  /\ Cardinality(Numbered(s)) \in Nat
           /\ Cardinality(Numbered(Append(s, cb))) =
                 Cardinality(Numbered(s)) + (IF cb.type = "payload" THEN 0 ELSE 1)
<1> DEFINE n == Len(s)
           r == Append(s, cb)
<1>1. n \in Nat /\ DOMAIN s = 1 .. n
  OBVIOUS
<1>2. /\ r \in Seq(BlockRec) /\ Len(r) = n + 1
      /\ \A i \in 1 .. n : r[i] = s[i]
      /\ r[n + 1] = cb
  BY AppendProperties
<1> HIDE DEF r, n
<1>3. DOMAIN r = 1 .. n + 1
  BY <1>1, <1>2
<1>4. IsFiniteSet(1 .. n)
  BY <1>1, FS_Interval
<1>5. Numbered(s) \subseteq 1 .. n /\ (n + 1) \notin Numbered(s)
  BY <1>1 DEF Numbered
<1>6. IsFiniteSet(Numbered(s)) /\ Cardinality(Numbered(s)) \in Nat
  BY <1>4, <1>5, FS_Subset, FS_CardinalityType
<1>7. Numbered(r) = IF cb.type = "payload" THEN Numbered(s) ELSE Numbered(s) \cup {n + 1}
  <2>1. \A i : i \in DOMAIN r <=> i \in 1 .. n \/ i = n + 1
    BY <1>1, <1>3
  <2>2. QED BY <1>1, <1>2, <2>1 DEF Numbered
<1>8. Cardinality(Numbered(s) \cup {n + 1}) = Cardinality(Numbered(s)) + 1
  BY <1>5, <1>6, FS_AddElement
<1>9. QED BY <1>6, <1>7, <1>8 DEF r

LEMMA SetSane ==
    ASSUME NEW x, Sane(x), NEW p \in PrimaryRec, p.off = 0, p.total = 0,
           "fragment" \notin p.flags
    PROVE  Sane(Set(x, p))
BY DEF Sane, Set

LEMMA CanonicalSane ==
    ASSUME NEW x, Sane(x), NEW type \in BlockTypes, NEW flags \in SUBSET BlockFlags,
           NEW data \in Seq(Nat), type = "payload" \/ data = <<>>
    PROVE  Sane(Canonical(x, type, flags, data))
<1> DEFINE num == IF type = "payload" THEN 1 ELSE x.counter
           cb == NewCanonicalBlock(num, type, flags, data)
           y == Canonical(x, type, flags, data)
<1>1. x \in [err : BOOLEAN, primary : PrimaryRec, blocks : Seq(BlockRec), counter : Nat]
  BY DEF Sane
<1>2. cb \in BlockRec /\ cb.type = type
  BY <1>1 DEF NewCanonicalBlock, BlockRec
<1>3. CASE x.err
  BY <1>3 DEF Canonical
<1>4. CASE ~x.err
  <2>1. y = [x EXCEPT !.blocks = Append(x.blocks, cb),
                      !.counter = IF type = "payload" THEN x.counter ELSE x.counter + 1]
    BY <1>1, <1>4 DEF Canonical
  <2> HIDE DEF cb, y
  <2>2. Append(x.blocks, cb) \in Seq(BlockRec)
    BY <1>1, <1>2, AppendProperties
  <2> DEFINE next == IF type = "payload" THEN x.counter ELSE x.counter + 1
             blocks == Append(x.blocks, cb)
             Blocks == Seq(BlockRec)
  <2>3. /\ y \in [err : BOOLEAN, primary : PrimaryRec, blocks : Seq(BlockRec), counter : Nat]
        /\ y.primary = x.primary /\ y.blocks = Append(x.blocks, cb)
        /\ y.counter = IF type = "payload" THEN x.counter ELSE x.counter + 1
    <3>1. next \in Nat
      BY <1>1
    <3>2. /\ x \in [err : BOOLEAN, primary : PrimaryRec, blocks : Blocks, counter : Nat]
          /\ blocks \in Blocks /\ y = [x EXCEPT !.blocks = blocks, !.counter = next]
      BY <1>1, <2>1, <2>2
    <3> HIDE DEF next, blocks, Blocks
    <3>3. /\ y \in [err : BOOLEAN, primary : PrimaryRec, blocks : Blocks, counter : Nat]
          /\ y.primary = x.primary /\ y.blocks = blocks /\ y.counter = next
      BY <3>1, <3>2
    <3>4. QED BY <3>3 DEF next, blocks, Blocks
  <2>4. /\ Cardinality(Numbered(x.blocks)) \in Nat
        /\ Cardinality(Numbered(y.blocks)) =
              Cardinality(Numbered(x.blocks)) + (IF type = "payload" THEN 0 ELSE 1)
    BY <1>1, <1>2, <2>3, AppendCounts
  <2>5. Sane(y)
    BY <2>3, <2>4 DEF Sane
  <2>6. QED BY <2>5 DEF y
<1>5. QED BY <1>3, <1>4

\* Every call of the builder
LEMMA CallSane ==
    ASSUME Sane(bldr), NEW x \in BuilderCalls
    PROVE  Sane(x)
<1> DEFINE p == bldr.primary
<1>1. p \in PrimaryRec /\ p.off = 0 /\ p.total = 0 /\ "fragment" \notin p.flags
  BY DEF Sane
<1>2. CASE x \in {Source(bldr, e) : e \in {"node", "none"}}
  <2>1. PICK e \in {"node", "none"} : x = Set(bldr, [p EXCEPT !.src = e])
    BY <1>2 DEF Source
  <2> DEFINE q == [p EXCEPT !.src = e]
  <2>2. q \in PrimaryRec /\ q.off = 0 /\ q.total = 0 /\ "fragment" \notin q.flags
    BY <1>1 DEF PrimaryRec, Eids, Times, BundleFlags
  <2> HIDE DEF q
  <2>3. QED BY <2>1, <2>2, SetSane DEF q
<1>3. CASE x = Destination(bldr)
  <2> DEFINE q == [p EXCEPT !.dst = "node"]
  <2>1. q \in PrimaryRec /\ q.off = 0 /\ q.total = 0 /\ "fragment" \notin q.flags
    BY <1>1 DEF PrimaryRec, Eids, Times, BundleFlags
  <2>2. x = Set(bldr, q)
    BY <1>3 DEF Destination
  <2> HIDE DEF q
  <2>3. QED BY <2>1, <2>2, SetSane
<1>4. CASE x = Lifetime(bldr, 1)
  <2> DEFINE q == [p EXCEPT !.life = 1]
  <2>1. q \in PrimaryRec /\ q.off = 0 /\ q.total = 0 /\ "fragment" \notin q.flags
    BY <1>1 DEF PrimaryRec, Eids, Times, BundleFlags
  <2>2. x = Set(bldr, q)
    BY <1>4 DEF Lifetime
  <2> HIDE DEF q
  <2>3. QED BY <2>1, <2>2, SetSane
<1>5. CASE x = CreationTimestamp(bldr, "now")
  <2> DEFINE q == [p EXCEPT !.time = "now"]
  <2>1. q \in PrimaryRec /\ q.off = 0 /\ q.total = 0 /\ "fragment" \notin q.flags
    BY <1>1 DEF PrimaryRec, Eids, Times, BundleFlags
  <2>2. x = Set(bldr, q)
    BY <1>5 DEF CreationTimestamp
  <2> HIDE DEF q
  <2>3. QED BY <2>1, <2>2, SetSane
<1>6. CASE x = Unparsable(bldr)
  BY <1>6 DEF Unparsable, Sane
<1>7. CASE x \in {BundleCtrlFlags(bldr, f) : f \in {{}, {"mustNotFragment"}}}
  <2>1. PICK f \in {{}, {"mustNotFragment"}} : x = Set(bldr, [p EXCEPT !.flags = f])
    BY <1>7 DEF BundleCtrlFlags
  <2> DEFINE q == [p EXCEPT !.flags = f]
  <2>2. q \in PrimaryRec /\ q.off = 0 /\ q.total = 0 /\ "fragment" \notin q.flags
    BY <1>1 DEF PrimaryRec, Eids, Times, BundleFlags
  <2> HIDE DEF q
  <2>3. QED BY <2>1, <2>2, SetSane DEF q
<1>8. CASE x \in {MetadataBlock(bldr, t) : t \in Single}
  <2>1. PICK t \in Single : x = Canonical(bldr, t, {"replicate"}, <<>>)
    BY <1>8 DEF MetadataBlock
  <2>2. t \in BlockTypes /\ {"replicate"} \in SUBSET BlockFlags /\ <<>> \in Seq(Nat)
    BY DEF BlockTypes, BlockFlags
  <2>3. QED BY <2>1, <2>2, CanonicalSane
<1>9. CASE x \in {Canonical(bldr, "generic", f, <<>>) : f \in SUBSET {"report"}}
  <2>1. PICK f \in SUBSET {"report"} : x = Canonical(bldr, "generic", f, <<>>)
    BY <1>9
  <2>2. "generic" \in BlockTypes /\ f \in SUBSET BlockFlags /\ <<>> \in Seq(Nat)
    BY DEF BlockTypes, BlockFlags
  <2>3. QED BY <2>1, <2>2, CanonicalSane
<1>10. "payload" \in BlockTypes /\ {} \in SUBSET BlockFlags /\ <<1, 2, 3>> \in Seq(Nat)
  BY DEF BlockTypes
<1>11. CASE x = Canonical(bldr, "payload", {}, <<1, 2, 3>>)
  BY <1>10, <1>11, CanonicalSane
<1>12. CASE x = AdministrativeRecord(bldr, <<1, 2, 3>>)
  <2> DEFINE q == [p EXCEPT !.flags = (@ \cup {"admin"}) \ {"request"}]
             y == Set(bldr, q)
  <2>1. q \in PrimaryRec /\ q.off = 0 /\ q.total = 0 /\ "fragment" \notin q.flags
    BY <1>1 DEF PrimaryRec, Eids, Times, BundleFlags
  <2>2. x = IF bldr.err THEN bldr ELSE Canonical(y, "payload", {}, <<1, 2, 3>>)
    BY <1>12 DEF AdministrativeRecord
  <2> HIDE DEF q
  <2>3. Sane(y)
    BY <2>1, SetSane
  <2> HIDE DEF y
  <2>4. QED BY <1>10, <2>2, <2>3, CanonicalSane
<1>13. QED
  BY <1>2, <1>3, <1>4, <1>5, <1>6, <1>7, <1>8, <1>9, <1>11, <1>12 DEF BuilderCalls

LEMMA BuildValid == ASSUME BInv, Build PROVE BInv'
<1>1. bldr' = bldr /\ origin' = Built(bldr) /\ CheckValid(Built(bldr), FALSE)
  BY DEF Build, BuildFails
<1>2. /\ bldr.primary \in PrimaryRec /\ bldr.primary.off = 0 /\ bldr.primary.total = 0
      /\ bldr.blocks \in Seq(BlockRec) /\ "fragment" \notin bldr.primary.flags
  BY DEF BInv, Sane
<1>3. sortBlocks(bldr.blocks) \in Seq(BlockRec)
  BY <1>2, BlocksSorted
<1>4. WellFormed(Built(bldr)) /\ ~IsFragment(Built(bldr))
  BY <1>2, <1>3 DEF WellFormed, Built, NewBundle, IsFragment
<1>5. QED BY <1>1, <1>4 DEF BInv

LEMMA Renumbered ==
    ASSUME NEW m, NEW n, NEW type, NEW flags, NEW data
    PROVE  [NewCanonicalBlock(n, type, flags, data) EXCEPT !.num = m]
             = NewCanonicalBlock(m, type, flags, data)
BY DEF NewCanonicalBlock

LEMMA AddBlockValid ==
    ASSUME BInv, NEW type \in BlockTypes \ {"payload"}, AddBlock(type)
    PROVE  BInv'
<1> DEFINE s == origin.blocks
           p == origin.primary
           free == (2 .. 2 + Len(s)) \ Numbers(s)
           cb == NewCanonicalBlock(Min(free), type, {}, <<>>)
           r == sortBlocks(Append(s, cb))
           o == [primary |-> p, blocks |-> r]
<1>1. origin # None /\ bldr' = bldr /\ (type \in Single => ~HasExtensionBlock(origin, type))
      /\ origin' = [origin EXCEPT !.blocks =
                      AddExtensionBlock(@, NewCanonicalBlock(0, type, {}, <<>>))]
  BY DEF AddBlock
<1>2. WellFormed(origin) /\ CheckValid(origin, FALSE) /\ ~IsFragment(origin)
  BY <1>1 DEF BInv
<1>3. /\ origin \in [primary : PrimaryRec, blocks : Seq(BlockRec)]
      /\ "fragment" \notin p.flags /\ p.off = 0 /\ p.total = 0
  BY <1>2 DEF WellFormed, IsFragment
<1>4. PrimaryValid(p) /\ Alive(p) /\ SoundBlocks(p, s)
  BY <1>2, ValidIsSound
<1>5. [NewCanonicalBlock(0, type, {}, <<>>) EXCEPT !.num = Min(free)] = cb
  BY Renumbered
<1>6. AddExtensionBlock(s, NewCanonicalBlock(0, type, {}, <<>>)) = r
  <2>1. NewCanonicalBlock(0, type, {}, <<>>).type # "payload"
    BY DEF NewCanonicalBlock
  <2>2. QED BY <1>5, <2>1 DEF AddExtensionBlock
<1>7. origin' = o
  <2> HIDE DEF r
  <2> QED BY <1>1, <1>3, <1>6
<1>8. Min(free) \in Nat /\ Min(free) \notin Numbers(s)
  BY <1>3, FreeNumber
<1>9. /\ cb \in BlockRec /\ cb.type = type /\ cb.flags = {} /\ cb.num = Min(free)
  <2> HIDE DEF free
  <2> QED BY <1>8 DEF NewCanonicalBlock, BlockRec
<1>10. type \in Single => \A i \in DOMAIN s : s[i].type # type
  BY <1>1 DEF HasExtensionBlock, ExtensionBlocks
<1>11. s \in Seq(BlockRec)
  BY <1>3
<1> HIDE DEF s, p, cb, free
<1>12. Append(s, cb) \in Seq(BlockRec) /\ SoundBlocks(p, Append(s, cb))
  BY <1>4, <1>8, <1>9, <1>10, <1>11, AddedIsSound
<1>13. r \in Seq(BlockRec) /\ SoundBlocks(p, r) /\ PayloadLast(r)
  BY <1>12, BlocksSorted, SortedIsSound
<1> HIDE DEF r
<1>14. WellFormed(o) /\ ~IsFragment(o)
  BY <1>3, <1>13 DEF WellFormed, IsFragment, p
<1>15. o.primary = p /\ o.blocks = r
  OBVIOUS
<1> HIDE DEF o
<1>16. CheckValid(o, FALSE)
  BY <1>4, <1>13, <1>14, <1>15, ValidIsSound
<1>17. QED BY <1>1, <1>7, <1>14, <1>16 DEF BInv

LEMMA RemoveBlockValid == ASSUME BInv, NEW num, RemoveBlock(num) PROVE BInv'
<1> DEFINE s == origin.blocks
           p == origin.primary
           at == {i \in DOMAIN s : s[i].num = num}
<1>1. origin # None /\ bldr' = bldr
      /\ (\E i \in ExtensionBlocks(origin, "generic") : s[i].num = num)
      /\ origin' = [origin EXCEPT !.blocks = RemoveExtensionBlockByBlockNumber(@, num)]
  BY DEF RemoveBlock
<1>2. WellFormed(origin) /\ CheckValid(origin, FALSE) /\ ~IsFragment(origin)
  BY <1>1 DEF BInv
<1>3. /\ origin \in [primary : PrimaryRec, blocks : Seq(BlockRec)]
      /\ "fragment" \notin p.flags /\ p.off = 0 /\ p.total = 0
  BY <1>2 DEF WellFormed, IsFragment
<1>4. PrimaryValid(p) /\ Alive(p) /\ SoundBlocks(p, s) /\ PayloadLast(s)
  BY <1>2, ValidIsSound
<1>5. PICK i \in DOMAIN s : s[i].type = "generic" /\ s[i].num = num
  BY <1>1 DEF ExtensionBlocks
<1>6. s \in Seq(BlockRec) /\ DOMAIN s \subseteq Int
  BY <1>3
<1> DEFINE r == RemoveAt(s, i)
           o == [primary |-> p, blocks |-> r]
<1>7. at = {i}
  BY <1>4, <1>5 DEF SoundBlocks
<1>8. Min(at) = i
  <2>1. i \in at /\ at \subseteq Int /\ \A x \in at : i <= x
    BY <1>6, <1>7
  <2> HIDE DEF at
  <2>2. QED BY <2>1, MinIsLeast
<1>9. num \in Numbers(s)
  BY <1>5 DEF Numbers
<1>10. RemoveExtensionBlockByBlockNumber(s, num) = r
  BY <1>8, <1>9 DEF RemoveExtensionBlockByBlockNumber
<1>11. origin' = o
  <2> HIDE DEF r
  <2> QED BY <1>1, <1>3, <1>10
<1> HIDE DEF s, p
<1>12. r \in Seq(BlockRec) /\ SoundBlocks(p, r) /\ PayloadLast(r)
  BY <1>4, <1>5, <1>6, RemovedIsSound
<1> HIDE DEF r
<1>13. WellFormed(o) /\ ~IsFragment(o)
  BY <1>3, <1>12 DEF WellFormed, IsFragment, p
<1>14. o.primary = p /\ o.blocks = r
  OBVIOUS
<1> HIDE DEF o
<1>15. CheckValid(o, FALSE)
  BY <1>4, <1>12, <1>13, <1>14, ValidIsSound
<1>16. QED BY <1>1, <1>11, <1>13, <1>15 DEF BInv

LEMMA InitValid == ASSUME Init PROVE BInv
<1>1. Numbered(<<>>) = {}
  BY DEF Numbered
<1>2. Cardinality(Numbered(<<>>)) = 0
  BY <1>1, FS_EmptySet
<1>3. NewPrimary \in PrimaryRec /\ NewPrimary.off = 0 /\ NewPrimary.total = 0
      /\ "fragment" \notin NewPrimary.flags
  BY DEF NewPrimary, PrimaryRec, Eids, Times, BundleFlags
<1>4. <<>> \in Seq(BlockRec)
  OBVIOUS
<1>5. Sane(Builder)
  BY <1>2, <1>3, <1>4 DEF Sane, Builder
<1>6. bldr = Builder /\ setup \in Setups /\ origin = setup.bundle
  BY DEF Init
<1>7. QED BY <1>5, <1>6, StorageAssumption DEF BInv

LEMMA StepValid == ASSUME BInv, [Next]_vars PROVE BInv'
<1>1. CASE CallBuilder
  <2>1. bldr' \in BuilderCalls /\ origin' = origin
    BY <1>1 DEF CallBuilder
  <2>2. Sane(bldr')
    BY <2>1, CallSane DEF BInv
  <2>3. QED BY <2>1, <2>2 DEF BInv
<1>2. CASE Build
  BY <1>2, BuildValid
<1>3. CASE \E type \in BlockTypes \ {"payload"} : AddBlock(type)
  BY <1>3, AddBlockValid
<1>4. CASE \E num \in 1 .. MaxBlocks + 2 : RemoveBlock(num)
  BY <1>4, RemoveBlockValid
<1>5. ASSUME UNCHANGED <<bldr, origin>> PROVE BInv'
  BY <1>5 DEF BInv
<1>6. CASE \E b \in sent : Push(b)
  BY <1>6, <1>5 DEF Push, world, source
<1>7. CASE \E t \in Threads : Step(t)
  BY <1>7, <1>5 DEF Step, SyncKnows, SyncPush, storeBundle, PushCommit, SyncQuery, DeleteQuery,
     deleteBundle, DeleteCommit, Update, world, source
<1>8. CASE DeleteExpired \/ Expire \/ Crash
  BY <1>8, <1>5 DEF DeleteExpired, Expire, Crash, world, source
<1>9. CASE UNCHANGED vars
  BY <1>9, <1>5 DEF vars
<1>10. QED BY <1>1, <1>2, <1>3, <1>4, <1>6, <1>7, <1>8, <1>9 DEF Next

(***************************************************************************)
(* A bundle that Build accepted is valid, and stays valid whatever blocks  *)
(* of whatever types are added and whichever generic ones are removed, in  *)
(* any number: AddExtensionBlock finds a number that is free, and          *)
(* sortBlocks puts the payload, which alone has number 1, behind it.       *)
(***************************************************************************)
THEOREM BuiltIsValid == Spec => []BuiltStaysValid
<1>1. Init => BInv
  BY InitValid
<1>2. BInv /\ [Next]_vars => BInv'
  BY StepValid
<1>3. BInv => BuiltStaysValid
  BY DEF BInv, BuiltStaysValid
<1> QED
  BY <1>1, <1>2, <1>3, PTL DEF Spec

(***************************************************************************)
(* The type invariant: the builder's counter is the number of its next     *)
(* block whatever calls came before, and a stored item has a part.         *)
(***************************************************************************)
THEOREM TypeCorrect == Spec => []TypeOK
<1>1. Init => BInv
  BY InitValid
<1>2. BInv /\ [Next]_vars => BInv'
  BY StepValid
<1>3. ASSUME IInv, BInv PROVE TypeOK
  <2>1. bldr.counter = 2 + Cardinality(Numbered(bldr.blocks))
    BY <1>3 DEF BInv, Sane
  <2>2. thr \in [Threads -> Frame(sent)] /\ late \in BOOLEAN /\ cut \in BOOLEAN
        /\ (item # None => item.parts # <<>>)
    BY <1>3 DEF IInv, TypeInv
  <2>3. \A t \in Threads : thr[t].pc \in Pcs
    BY <2>2 DEF Frame
  <2>4. QED BY <2>1, <2>2, <2>3 DEF TypeOK, Numbered, Pcs
<1> QED
  BY <1>1, <1>2, <1>3, Inductive, PTL DEF Spec

-----------------------------------------------------------------------------
\* Reassembly

\* What comes before e, and from e on what a piece that begins before e holds
LEMMA Joins ==
    ASSUME NEW D \in Seq(Nat), NEW off \in Nat, NEW e \in Nat, NEW hi \in Nat,
           off <= e, e <= hi, hi <= Len(D)
    PROVE  SubSeq(D, 1, e) \o SubSeq(SubSeq(D, off + 1, hi), e - off + 1, hi - off)
             = SubSeq(D, 1, hi)
<1> DEFINE x == SubSeq(D, off + 1, hi)
           a == SubSeq(D, 1, e)
           b == SubSeq(x, e - off + 1, hi - off)
           c == SubSeq(D, 1, hi)
<1>1. Len(D) \in Nat /\ \A k \in 1 .. Len(D) : D[k] \in Nat
  OBVIOUS
<1>2. x \in Seq(Nat) /\ Len(x) = hi - off /\ \A k \in 1 .. hi - off : x[k] = D[off + k]
  <2>1. \A k \in off + 1 .. hi : D[k] \in Nat
    BY <1>1
  <2>2. /\ x \in Seq(Nat)
        /\ Len(x) = IF off + 1 <= hi THEN hi - (off + 1) + 1 ELSE 0
        /\ \A i \in 1 .. hi - (off + 1) + 1 : x[i] = D[(off + 1) + i - 1]
    BY <2>1, SubSeqProperties
  <2> HIDE DEF x
  <2>3. \A i \in 1 .. hi - off : i \in 1 .. hi - (off + 1) + 1 /\ (off + 1) + i - 1 = off + i
    OBVIOUS
  <2>4. Len(x) = hi - off
    BY <2>2
  <2>5. QED BY <2>2, <2>3, <2>4
<1> HIDE DEF x
<1>3. a \in Seq(Nat) /\ Len(a) = e /\ \A k \in 1 .. e : a[k] = D[k]
  <2>1. \A k \in 1 .. e : D[k] \in Nat
    BY <1>1
  <2>2. /\ a \in Seq(Nat) /\ Len(a) = IF 1 <= e THEN e - 1 + 1 ELSE 0
        /\ \A i \in 1 .. e - 1 + 1 : a[i] = D[1 + i - 1]
    BY <2>1, SubSeqProperties
  <2> HIDE DEF a
  <2>3. \A i \in 1 .. e : i \in 1 .. e - 1 + 1 /\ 1 + i - 1 = i
    OBVIOUS
  <2>4. QED BY <2>2, <2>3
<1>4. c \in Seq(Nat) /\ Len(c) = hi /\ \A k \in 1 .. hi : c[k] = D[k]
  <2>1. \A k \in 1 .. hi : D[k] \in Nat
    BY <1>1
  <2>2. /\ c \in Seq(Nat) /\ Len(c) = IF 1 <= hi THEN hi - 1 + 1 ELSE 0
        /\ \A i \in 1 .. hi - 1 + 1 : c[i] = D[1 + i - 1]
    BY <2>1, SubSeqProperties
  <2> HIDE DEF c
  <2>3. \A i \in 1 .. hi : i \in 1 .. hi - 1 + 1 /\ 1 + i - 1 = i
    OBVIOUS
  <2>4. QED BY <2>2, <2>3
<1>5. b \in Seq(Nat) /\ Len(b) = hi - e /\ \A k \in 1 .. hi - e : b[k] = D[e + k]
  <2>1. \A k \in e - off + 1 .. hi - off : x[k] \in Nat
    BY <1>2
  <2>2. /\ b \in Seq(Nat)
        /\ Len(b) = IF e - off + 1 <= hi - off THEN (hi - off) - (e - off + 1) + 1 ELSE 0
        /\ \A i \in 1 .. (hi - off) - (e - off + 1) + 1 : b[i] = x[(e - off + 1) + i - 1]
    BY <2>1, SubSeqProperties
  <2> HIDE DEF b
  <2>3. \A i \in 1 .. hi - e : /\ i \in 1 .. (hi - off) - (e - off + 1) + 1
                               /\ (e - off + 1) + i - 1 = (e - off) + i
                               /\ (e - off) + i \in 1 .. hi - off
                               /\ off + ((e - off) + i) = e + i
    OBVIOUS
  <2>4. Len(b) = hi - e
    BY <2>2
  <2>5. ASSUME NEW i \in 1 .. hi - e PROVE b[i] = D[e + i]
    BY <1>2, <2>2, <2>3
  <2>6. QED BY <2>2, <2>4, <2>5
<1> HIDE DEF a, b, c
<1> DEFINE v == a \o b
<1>6. /\ v \in Seq(Nat) /\ Len(v) = Len(a) + Len(b)
      /\ \A i \in 1 .. Len(a) + Len(b) : v[i] = IF i <= Len(a) THEN a[i] ELSE b[i - Len(a)]
  <2> DEFINE S == Nat
  <2>1. a \in Seq(S) /\ b \in Seq(S)
    BY <1>3, <1>5
  <2> HIDE DEF S
  <2>2. /\ a \o b \in Seq(S) /\ Len(a \o b) = Len(a) + Len(b)
        /\ \A i \in 1 .. Len(a) + Len(b) : (a \o b)[i] = IF i <= Len(a) THEN a[i] ELSE b[i - Len(a)]
    BY <2>1, ConcatProperties
  <2>3. QED BY <2>2 DEF S
<1> HIDE DEF v
<1>7. Len(v) = hi
  BY <1>3, <1>5, <1>6
<1>8. ASSUME NEW i \in 1 .. hi PROVE v[i] = c[i]
  <2>1. v[i] = IF i <= e THEN a[i] ELSE b[i - e]
    BY <1>3, <1>5, <1>6, <1>7
  <2>2. CASE i <= e
    <3>1. i \in 1 .. e /\ v[i] = a[i]
      BY <2>1, <2>2
    <3>2. QED BY <1>3, <1>4, <3>1
  <2>3. CASE ~(i <= e)
    <3>1. i - e \in 1 .. hi - e /\ e + (i - e) = i
      BY <2>3
    <3>2. QED BY <1>4, <1>5, <2>1, <2>3, <3>1
  <2>4. QED BY <2>2, <2>3
<1>9. v = c
  BY <1>4, <1>6, <1>7, <1>8, SeqEqual
<1>10. QED BY <1>9 DEF v, a, b, c, x

\* The payload after each turn of mergeFragmentPayload
Kept(s, k) == SubSeq(Data(s[k]), Overlap(s, k) + 1, Len(Data(s[k])))
IsMerging(s, g) ==
    /\ g[0] = <<>>
    /\ \A k \in 1 .. Len(s) : g[k] = g[k - 1] \o Kept(s, k)
    /\ mergeFragmentPayload(s) = g[Len(s)]

LEMMA MergesInTurn ==
    ASSUME NEW T, NEW s \in Seq(T), \A k \in 1 .. Len(s) : Kept(s, k) \in Seq(Nat)
    PROVE  \E g : IsMerging(s, g)
<1> DEFINE n == Len(s)
           N == Seq(Nat)
           step == [k \in 1 .. n |-> [x \in N |-> x \o Kept(s, k)]]
           IsMerged(g) == g = [k \in 0 .. n |->
                                IF k = 0 THEN <<>> ELSE g[k - 1] \o Kept(s, k)]
           data == CHOOSE g : IsMerged(g)
<1>1. mergeFragmentPayload(s) = data[n]
  BY DEF mergeFragmentPayload, Kept
<1>2. n \in Nat /\ \A k \in 1 .. n : Kept(s, k) \in N
  OBVIOUS
<1> HIDE DEF n
<1>3. <<>> \in N /\ step \in [1 .. n -> [N -> N]]
  <2>1. \A k \in 1 .. n, x \in N : x \o Kept(s, k) \in N
    BY <1>2, ConcatProperties
  <2>2. <<>> \in N
    OBVIOUS
  <2> HIDE DEF N
  <2>3. QED BY <2>1, <2>2
<1> HIDE DEF N
<1>4. PICK h \in [0 .. n -> N] : h[0] = <<>> /\ \A k \in 1 .. n : h[k] = step[k][h[k - 1]]
  <2> DEFINE base == <<>>
  <2>1. base \in N
    BY <1>3
  <2> HIDE DEF step, base
  <2>2. \E h : IsRun(N, base, n, step, h)
    BY <1>2, <1>3, <2>1, LoopRuns
  <2>3. QED BY <2>2 DEF base, IsRun
<1>5. IsMerged(h)
  <2>1. \A k \in 1 .. n : k - 1 \in 0 .. n
    BY <1>2
  <2>2. \A k \in 1 .. n : h[k] = h[k - 1] \o Kept(s, k)
    BY <1>4, <2>1
  <2>3. \A k \in 0 .. n : k = 0 \/ k \in 1 .. n
    BY <1>2
  <2>4. QED BY <1>4, <2>2, <2>3
<1>6. IsMerged(data)
  <2> HIDE DEF IsMerged
  <2> QED BY <1>5
<1> HIDE DEF data
<1>7. data[0] = <<>> /\ \A k \in 1 .. n : data[k] = data[k - 1] \o Kept(s, k)
  <2>1. \A k \in 1 .. n : k \in 0 .. n /\ k # 0
    BY <1>2
  <2>2. 0 \in 0 .. n
    BY <1>2
  <2>3. QED BY <1>6, <2>1, <2>2
<1>8. QED BY <1>1, <1>7 DEF n, IsMerging

\* A piece of D: where it begins, and how far it reaches
IsPiece(D, x) ==
    /\ Offset(x) \in Nat /\ End(x) \in Nat /\ Offset(x) <= End(x) /\ End(x) <= Len(D)
    /\ x.primary.total = Len(D)
    /\ Data(x) = SubSeq(D, Offset(x) + 1, End(x)) /\ Len(Data(x)) = End(x) - Offset(x)

LEMMA PartIsPiece ==
    ASSUME NEW o, WellFormed(o), CheckValid(o, FALSE), NEW x, IsPart(o, x)
    PROVE  /\ IsPiece(Data(o), x) /\ Offset(x) < End(x)
           /\ x = FragmentOf(o, Offset(x), End(x))
<1> DEFINE D == Data(o)
           off == x.primary.off
<1>1. off \in Nat /\ x.primary.total = Len(D) /\ Len(D) \in Nat
  BY PartFacts
<1>2. PICK hi \in Nat : /\ off < hi /\ hi <= Len(D) /\ x = FragmentOf(o, off, hi)
                        /\ Data(x) = SubSeq(D, off + 1, hi)
  BY PartFacts
<1>3. D \in Seq(Nat)
  BY PayloadIsLast
<1> HIDE DEF D, off
<1>4. Len(SubSeq(D, off + 1, hi)) = hi - off
  <2>1. \A k \in off + 1 .. hi : D[k] \in Nat
    BY <1>1, <1>2, <1>3
  <2>2. Len(SubSeq(D, off + 1, hi)) = IF off + 1 <= hi THEN hi - (off + 1) + 1 ELSE 0
    BY <1>1, <1>2, <2>1, SubSeqProperties
  <2>3. QED BY <1>1, <1>2, <2>2
<1>5. Len(Data(x)) = hi - off
  BY <1>2, <1>4
<1>6. End(x) = hi /\ Offset(x) = off
  BY <1>1, <1>2, <1>5 DEF End, Offset, off
<1>7. QED BY <1>1, <1>2, <1>5, <1>6 DEF IsPiece, D

(***************************************************************************)
(* Pieces of one payload that prepareReassembly accepts give this payload, *)
(* however they overlap, unless merging them panics.                       *)
(***************************************************************************)
LEMMA MergesToAll ==
    ASSUME NEW D \in Seq(Nat), NEW T, NEW s \in Seq(T), \A k \in DOMAIN s : IsPiece(D, s[k]),
           prepareReassembly(s), ~MergePanics(s)
    PROVE  mergeFragmentPayload(s) = D
<1> DEFINE n == Len(s)
           e(k) == IF k = 0 THEN 0 ELSE End(s[k])
<1>1. n \in Nat /\ DOMAIN s = 1 .. n /\ s # <<>> /\ Len(D) \in Nat
  BY DEF prepareReassembly
<1>2. n > 0
  BY <1>1
<1>3. \A k \in 1 .. n : IsPiece(D, s[k])
  BY <1>1
<1> HIDE DEF n
<1>4. ASSUME NEW k \in 1 .. n
      PROVE  /\ Overlap(s, k) = e(k - 1) - Offset(s[k])
             /\ Offset(s[k]) <= e(k - 1) /\ e(k - 1) <= e(k)
             /\ e(k - 1) \in Nat /\ e(k) \in Nat /\ e(k) <= Len(D)
             /\ e(k) = End(s[k])
  <2>1. k \in Nat /\ k >= 1
    BY <1>1
  <2>2. e(k) = End(s[k]) /\ End(s[k]) \in Nat /\ Offset(s[k]) \in Nat /\ End(s[k]) <= Len(D)
        /\ Len(Data(s[k])) = End(s[k]) - Offset(s[k])
    BY <1>3, <2>1 DEF IsPiece
  <2>3. e(k - 1) = (IF k = 1 THEN 0 ELSE End(s[k - 1])) /\ e(k - 1) \in Nat
    <3>1. CASE k = 1
      BY <3>1
    <3>2. CASE k # 1
      <4>1. k - 1 \in 1 .. n /\ k - 1 # 0
        BY <1>1, <2>1, <3>2
      <4>2. QED BY <1>3, <3>2, <4>1 DEF IsPiece
    <3>3. QED BY <3>1, <3>2
  <2>4. Offset(s[k]) <= (IF k = 1 THEN 0 ELSE End(s[k - 1]))
    BY <1>1 DEF prepareReassembly
  <2>5. Overlap(s, k) = (IF k = 1 THEN 0 ELSE End(s[k - 1])) - Offset(s[k])
    BY DEF Overlap
  <2>6. ~(Overlap(s, k) > Len(Data(s[k])))
    BY <1>1 DEF MergePanics
  <2> HIDE DEF e
  <2>7. Overlap(s, k) = e(k - 1) - Offset(s[k]) /\ Offset(s[k]) <= e(k - 1)
    BY <2>3, <2>4, <2>5
  <2>8. e(k - 1) <= e(k)
    BY <2>2, <2>3, <2>6, <2>7
  <2>9. QED BY <2>2, <2>3, <2>7, <2>8
<1>5. ASSUME NEW k \in 1 .. n
      PROVE  /\ Kept(s, k) \in Seq(Nat)
             /\ SubSeq(D, 1, e(k - 1)) \o Kept(s, k) = SubSeq(D, 1, e(k))
  <2> DEFINE off == Offset(s[k])
  <2>1. /\ off \in Nat /\ Data(s[k]) = SubSeq(D, off + 1, e(k)) /\ Len(Data(s[k])) = e(k) - off
        /\ e(k) = End(s[k])
    BY <1>3, <1>4 DEF IsPiece
  <2>2. /\ Overlap(s, k) = e(k - 1) - off
        /\ off <= e(k - 1) /\ e(k - 1) <= e(k)
        /\ e(k - 1) \in Nat /\ e(k) \in Nat /\ e(k) <= Len(D)
    BY <1>4
  <2>3. PICK lo, hi : lo = e(k - 1) /\ hi = e(k)
    OBVIOUS
  <2> HIDE DEF e, off
  <2>4. /\ off \in Nat /\ lo \in Nat /\ hi \in Nat /\ off <= lo /\ lo <= hi /\ hi <= Len(D)
        /\ Kept(s, k) = SubSeq(SubSeq(D, off + 1, hi), lo - off + 1, hi - off)
    BY <2>1, <2>2, <2>3 DEF Kept
  <2>5. SubSeq(D, 1, lo) \o Kept(s, k) = SubSeq(D, 1, hi)
    BY <2>4, Joins
  <2>6. Kept(s, k) \in Seq(Nat)
    <3> DEFINE x == SubSeq(D, off + 1, hi)
    <3>1. \A i \in off + 1 .. hi : D[i] \in Nat
      <4>1. Len(D) \in Nat /\ \A i \in 1 .. Len(D) : D[i] \in Nat
        OBVIOUS
      <4>2. QED BY <2>4, <4>1
    <3>2. x \in Seq(Nat) /\ Len(x) = hi - off
      <4>1. x \in Seq(Nat) /\ Len(x) = IF off + 1 <= hi THEN hi - (off + 1) + 1 ELSE 0
        BY <2>4, <3>1, SubSeqProperties
      <4> HIDE DEF x
      <4>2. QED BY <2>4, <4>1
    <3> HIDE DEF x
    <3>3. \A i \in lo - off + 1 .. hi - off : x[i] \in Nat
      <4>1. \A i \in 1 .. Len(x) : x[i] \in Nat
        BY <3>2
      <4>2. QED BY <2>4, <3>2, <4>1
    <3>4. lo - off + 1 \in Int /\ hi - off \in Int
      BY <2>4
    <3>5. SubSeq(x, lo - off + 1, hi - off) \in Seq(Nat)
      BY <3>3, <3>4, SubSeqProperties
    <3>6. QED BY <2>4, <3>5 DEF x
  <2>7. QED BY <2>3, <2>5, <2>6
<1>6. PICK g : IsMerging(s, g)
  BY <1>5, MergesInTurn DEF n
<1>7. /\ g[0] = <<>> /\ mergeFragmentPayload(s) = g[n]
      /\ \A k \in 1 .. n : g[k] = g[k - 1] \o Kept(s, k)
  BY <1>6 DEF IsMerging, n
<1> DEFINE bad == {k \in 0 .. n : g[k] # SubSeq(D, 1, e(k))}
<1>8. ASSUME bad # {} PROVE FALSE
  <2> DEFINE m == Min(bad)
  <2>1. m \in bad /\ \A x \in bad : m <= x
    <3>1. bad \subseteq Nat
      OBVIOUS
    <3> HIDE DEF bad
    <3>2. QED BY <1>8, <3>1, MinExists
  <2> HIDE DEF m
  <2>2. m # 0
    <3>1. SubSeq(D, 1, 0) = <<>>
      OBVIOUS
    <3>2. QED BY <1>7, <2>1, <3>1
  <2>3. m \in 1 .. n /\ m - 1 \in 0 .. n /\ m - 1 < m /\ m \in Nat
    BY <1>1, <2>1, <2>2
  <2>4. g[m - 1] = SubSeq(D, 1, e(m - 1))
    <3> HIDE DEF e
    <3> QED BY <2>1, <2>3
  <2>5. g[m] = SubSeq(D, 1, e(m))
    BY <1>5, <1>7, <2>3, <2>4
  <2>6. QED BY <2>1, <2>5
<1>9. g[n] = SubSeq(D, 1, e(n))
  <2>1. n \in 0 .. n
    BY <1>1
  <2> HIDE DEF e
  <2>2. QED BY <1>8, <2>1
<1>10. e(n) = Len(D)
  <2>1. s[1].primary.total = End(Last(s))
    BY DEF prepareReassembly
  <2>2. Last(s) = s[n]
    BY DEF Last, n
  <2>3. 1 \in 1 .. n /\ n # 0
    BY <1>1, <1>2
  <2>4. s[1].primary.total = Len(D)
    BY <1>3, <2>3 DEF IsPiece
  <2>5. QED BY <2>1, <2>2, <2>3, <2>4
<1>11. SubSeq(D, 1, Len(D)) = D
  BY SubSeqFull
<1>12. QED BY <1>7, <1>9, <1>10, <1>11

\* A place for every fragment, in the order of their offsets
InOrder(bs, f) ==
    /\ f \in [DOMAIN bs -> DOMAIN bs]
    /\ \A i \in DOMAIN bs : \E k \in DOMAIN bs : f[k] = i
    /\ \A k \in DOMAIN bs : ByOffset(bs)[k] = bs[f[k]]
    /\ \A k, l \in DOMAIN bs : k < l =>
          \/ Offset(bs[f[k]]) < Offset(bs[f[l]])
          \/ Offset(bs[f[k]]) = Offset(bs[f[l]]) /\ f[k] < f[l]

LEMMA OffsetsSorted ==
    ASSUME NEW T, NEW bs \in Seq(T), \A k \in DOMAIN bs : Offset(bs[k]) \in Nat
    PROVE  /\ ByOffset(bs) \in Seq(T) /\ Len(ByOffset(bs)) = Len(bs)
           /\ \E f : InOrder(bs, f)
<1> DEFINE Before(j, i) == \/ Offset(bs[j]) < Offset(bs[i])
                           \/ Offset(bs[j]) = Offset(bs[i]) /\ j < i
           before == [i \in DOMAIN bs |-> {j \in DOMAIN bs : Before(j, i)}]
<1>1. DOMAIN bs \subseteq Nat
  OBVIOUS
<1>2. IsOrder(bs, before)
  <2>1. before \in [DOMAIN bs -> SUBSET DOMAIN bs]
    OBVIOUS
  <2>2. \A i \in DOMAIN bs : ~Before(i, i)
    BY <1>1
  <2>3. \A i, j \in DOMAIN bs : i # j => Before(i, j) \/ Before(j, i)
    BY <1>1
  <2>4. \A i, j, k \in DOMAIN bs : Before(i, j) /\ Before(k, i) => Before(k, j)
    BY <1>1
  <2> HIDE DEF Before
  <2>5. \A i, j \in DOMAIN bs : i \in before[j] <=> Before(i, j)
    OBVIOUS
  <2>6. \A i, j \in DOMAIN bs : i \in before[j] => before[i] \subseteq before[j]
    BY <2>4, <2>5
  <2> HIDE DEF before
  <2>7. QED BY <2>1, <2>2, <2>3, <2>5, <2>6 DEF IsOrder
<1>3. ByOffset(bs) = Sorted(bs, before)
  BY DEF ByOffset
<1>4. \A i, j \in DOMAIN bs : i \in before[j] => Before(i, j)
  OBVIOUS
<1> HIDE DEF before
<1>5. PICK f : Rearranged(bs, before, f)
  BY <1>2, SortRearranges
<1>6. InOrder(bs, f)
  <2>1. /\ f \in [DOMAIN bs -> DOMAIN bs]
        /\ \A i \in DOMAIN bs : \E k \in DOMAIN bs : f[k] = i
        /\ \A k \in DOMAIN bs : ByOffset(bs)[k] = bs[f[k]]
    BY <1>3, <1>5 DEF Rearranged
  <2>2. \A k, l \in DOMAIN bs : k < l => Before(f[k], f[l])
    <3> HIDE DEF Before
    <3> QED BY <1>4, <1>5, <2>1 DEF Rearranged
  <2>3. QED BY <2>1, <2>2 DEF InOrder
<1>7. QED BY <1>2, <1>3, <1>6, SortRearranges

\* The blocks of the bundle with the numbers that adding them anew gives
Anew(s) == Append(Renumber(s, Len(s) - 1), [s[Len(s)] EXCEPT !.num = 1])

LEMMA AnewFacts ==
    ASSUME NEW b, WellFormed(b), CheckValid(b, FALSE)
    PROVE  LET s == b.blocks
               n == Len(s)
           IN  /\ Anew(s) \in Seq(BlockRec) /\ Len(Anew(s)) = n
               /\ \A i \in 1 .. n : /\ Anew(s)[i].num = (IF i = n THEN 1 ELSE i + 1)
                                    /\ Anew(s)[i].type = s[i].type
                                    /\ Anew(s)[i].flags = s[i].flags
                                    /\ Anew(s)[i].data = s[i].data
<1> DEFINE s == b.blocks
           n == Len(s)
           r == Renumber(s, n - 1)
           last == [s[n] EXCEPT !.num = 1]
<1>1. s \in Seq(BlockRec) /\ n \in Nat /\ n > 0 /\ s[n] \in BlockRec
  BY PayloadIsLast
<1>2. Anew(s) = Append(r, last)
  BY DEF Anew
<1>3. n - 1 \in 0 .. Len(s)
  BY <1>1
<1>4. /\ r \in Seq(BlockRec) /\ Len(r) = n - 1
      /\ \A i \in 1 .. n - 1 : /\ r[i].num = i + 1 /\ r[i].type = s[i].type
                               /\ r[i].flags = s[i].flags /\ r[i].data = s[i].data
  BY <1>1, <1>3, RenumberFacts
<1>5. last \in BlockRec /\ last.num = 1 /\ last.type = s[n].type /\ last.flags = s[n].flags
      /\ last.data = s[n].data
  BY <1>1, NumberSet
<1> HIDE DEF n, r, last
<1>6. /\ Append(r, last) \in Seq(BlockRec) /\ Len(Append(r, last)) = n
      /\ \A i \in 1 .. n : Append(r, last)[i] = IF i = n THEN last ELSE r[i]
  <2>1. /\ Append(r, last) \in Seq(BlockRec) /\ Len(Append(r, last)) = Len(r) + 1
        /\ \A i \in 1 .. Len(r) : Append(r, last)[i] = r[i]
        /\ Append(r, last)[Len(r) + 1] = last
    BY <1>4, <1>5, AppendProperties
  <2> DEFINE a == Append(r, last)
  <2> HIDE DEF a
  <2>2. a \in Seq(BlockRec) /\ Len(a) = (n - 1) + 1 /\ a[(n - 1) + 1] = last
        /\ \A i \in 1 .. n - 1 : a[i] = r[i]
    BY <1>4, <2>1 DEF a
  <2>3. (n - 1) + 1 = n
    BY <1>1
  <2>4. \A i \in 1 .. n : i = n \/ i \in 1 .. n - 1
    BY <1>1
  <2>5. \A i \in 1 .. n : a[i] = IF i = n THEN last ELSE r[i]
    BY <2>2, <2>3, <2>4
  <2>6. QED BY <2>2, <2>3, <2>5 DEF a
<1>7. ASSUME NEW i \in 1 .. n
      PROVE  /\ Anew(s)[i].num = (IF i = n THEN 1 ELSE i + 1)
             /\ Anew(s)[i].type = s[i].type
             /\ Anew(s)[i].flags = s[i].flags
             /\ Anew(s)[i].data = s[i].data
  <2>1. CASE i = n
    BY <1>2, <1>5, <1>6, <2>1
  <2>2. CASE i # n
    <3>1. i \in 1 .. n - 1 /\ Anew(s)[i] = r[i]
      BY <1>1, <1>2, <1>6, <2>2
    <3>2. QED BY <1>4, <2>2, <3>1
  <2>3. QED BY <2>1, <2>2
<1>8. QED BY <1>2, <1>6, <1>7 DEF n

LEMMA BlocksEqual ==
    ASSUME NEW x \in BlockRec, NEW y \in BlockRec,
           x.type = y.type, x.flags = y.flags, x.data = y.data
    PROVE  /\ [x EXCEPT !.num = 0] = [y EXCEPT !.num = 0]
           /\ x.num = y.num => x = y
<1>1. \A z \in {x, y} : z \in [type : BlockTypes, num : Nat, flags : SUBSET BlockFlags, data : Seq(Nat)]
  BY DEF BlockRec
<1>2. ASSUME NEW z \in {x, y}
      PROVE  /\ z = [type |-> z.type, num |-> z.num, flags |-> z.flags, data |-> z.data]
             /\ [z EXCEPT !.num = 0]
                   = [type |-> z.type, num |-> 0, flags |-> z.flags, data |-> z.data]
  BY <1>1
<1>3. QED BY <1>2

\* The bundle with its blocks numbered anew is the same one, and valid.
LEMMA AnewIsSame ==
    ASSUME NEW b, WellFormed(b), CheckValid(b, FALSE), NEW y,
           y = [primary |-> b.primary, blocks |-> Anew(b.blocks)]
    PROVE  WellFormed(y) /\ CheckValid(y, FALSE) /\ SameBundle(y, b)
<1> DEFINE s == b.blocks
           n == Len(s)
           a == Anew(s)
           p == b.primary
<1>1. /\ s \in Seq(BlockRec) /\ n \in Nat /\ n > 0 /\ DOMAIN s = 1 .. n
      /\ s[n].type = "payload" /\ \A i \in 1 .. n - 1 : s[i].type # "payload"
  BY PayloadIsLast
<1>2. /\ a \in Seq(BlockRec) /\ Len(a) = n
      /\ \A i \in 1 .. n : /\ a[i].num = (IF i = n THEN 1 ELSE i + 1) /\ a[i].type = s[i].type
                           /\ a[i].flags = s[i].flags /\ a[i].data = s[i].data
  BY AnewFacts
<1>3. y.primary = p /\ y.blocks = a
  OBVIOUS
<1>4. p \in PrimaryRec /\ ("fragment" \in p.flags \/ (p.off = 0 /\ p.total = 0))
  BY DEF WellFormed
<1> HIDE DEF n, a
<1>5. DOMAIN a = 1 .. n
  BY <1>1, <1>2
<1>6. WellFormed(y)
  <2> HIDE DEF p
  <2>1. y = [primary |-> p, blocks |-> a]
    BY DEF p, a
  <2>2. QED BY <1>2, <1>4, <2>1 DEF WellFormed
<1>7. PrimaryValid(p) /\ Alive(p) /\ SoundBlocks(p, s) /\ PayloadLast(s)
  BY ValidIsSound
<1>8. SoundBlocks(p, a)
  <2>1. ASSUME NEW i \in 1 .. n
        PROVE  /\ BlockValid(a[i])
               /\ "admin" \in p.flags \/ p.src = "none" => "report" \notin a[i].flags
               /\ \A j \in 1 .. n : i # j => /\ a[i].num # a[j].num
                                             /\ a[i].type \in Single => a[i].type # a[j].type
    <3>1. BlockValid(a[i])
      <4>1. CASE i = n
        BY <1>2, <4>1 DEF BlockValid
      <4>2. CASE i # n
        <5>1. i \in 1 .. n - 1
          BY <1>1, <4>2
        <5>2. QED BY <1>1, <1>2, <5>1 DEF BlockValid
      <4>3. QED BY <4>1, <4>2
    <3>2. "admin" \in p.flags \/ p.src = "none" => "report" \notin a[i].flags
      BY <1>1, <1>2, <1>7 DEF SoundBlocks
    <3>3. ASSUME NEW j \in 1 .. n, i # j
          PROVE  a[i].num # a[j].num /\ (a[i].type \in Single => a[i].type # a[j].type)
      <4>0. s[i].type \in Single => s[i].type # s[j].type
        BY <1>1, <1>7, <3>3 DEF SoundBlocks
      <4>1. a[i].type \in Single => a[i].type # a[j].type
        <5>1. a[i].type = s[i].type /\ a[j].type = s[j].type
          BY <1>2
        <5>2. QED BY <4>0, <5>1
      <4>2. a[i].num = (IF i = n THEN 1 ELSE i + 1) /\ a[j].num = (IF j = n THEN 1 ELSE j + 1)
        BY <1>2
      <4>3. i \in Nat /\ j \in Nat /\ i >= 1 /\ j >= 1
        BY <1>1
      <4>4. a[i].num # a[j].num
        BY <3>3, <4>2, <4>3
      <4>5. QED BY <4>1, <4>4
    <3>4. QED BY <3>1, <3>2, <3>3
  <2>2. \E i \in 1 .. n : a[i].type = "payload"
    <3>1. n \in 1 .. n
      BY <1>1
    <3>2. QED BY <1>1, <1>2, <3>1
  <2>3. p.time = "zero" => \E i \in 1 .. n : a[i].type = "age"
    BY <1>1, <1>2, <1>7 DEF SoundBlocks
  <2>4. QED BY <1>5, <2>1, <2>2, <2>3 DEF SoundBlocks
<1>9. PayloadLast(a)
  <2>1. n \in 1 .. n /\ a # <<>>
    BY <1>1, <1>2
  <2>2. QED BY <1>1, <1>2, <2>1 DEF PayloadLast
<1>10. CheckValid(y, FALSE)
  <2> HIDE DEF p
  <2> QED BY <1>3, <1>6, <1>7, <1>8, <1>9, ValidIsSound
<1>11. SameBundle(y, b)
  <2>1. ASSUME NEW i \in 1 .. n PROVE [a[i] EXCEPT !.num = 0] = [s[i] EXCEPT !.num = 0]
    <3>1. a[i] \in BlockRec /\ s[i] \in BlockRec
      BY <1>1, <1>2, <1>5
    <3>2. a[i].type = s[i].type /\ a[i].flags = s[i].flags /\ a[i].data = s[i].data
      BY <1>2
    <3>3. QED BY <3>1, <3>2, BlocksEqual
  <2>2. /\ Unnumbered(y) = [i \in 1 .. n |-> [a[i] EXCEPT !.num = 0]]
        /\ Unnumbered(b) = [i \in 1 .. n |-> [s[i] EXCEPT !.num = 0]]
    BY <1>1, <1>3, <1>5 DEF Unnumbered
  <2>3. Unnumbered(y) = Unnumbered(b)
    <3> HIDE DEF s
    <3> QED BY <2>1, <2>2
  <2>4. QED BY <1>3, <2>3 DEF SameBundle
<1>12. QED BY <1>6, <1>10, <1>11

\* Adding the blocks of the first fragment and the whole payload
LEMMA FirstRebuilt ==
    ASSUME NEW o, WellFormed(o), CheckValid(o, FALSE), NEW hi \in Nat, hi <= Len(Data(o)),
           NEW x, x = FragmentOf(o, 0, hi), CheckValid(x, FALSE)
    PROVE  LET ext == {k \in DOMAIN x.blocks : x.blocks[k].type # "payload"}
               payload == NewCanonicalBlock(1, "payload", PayloadBlock(x).flags, Data(o))
           IN  AddExtensionBlock(AddExtensionBlocks(x.blocks, ext), payload) = Anew(o.blocks)
<1> DEFINE s == o.blocks
           n == Len(s)
           w == x.blocks
           r == Renumber(s, n - 1)
           last == [s[n] EXCEPT !.data = SubSeq(Data(o), 1, hi), !.num = 1]
           ext == {k \in DOMAIN w : w[k].type # "payload"}
           payload == NewCanonicalBlock(1, "payload", PayloadBlock(x).flags, Data(o))
<1>1. /\ s \in Seq(BlockRec) /\ n \in Nat /\ n > 0 /\ DOMAIN s = 1 .. n
      /\ s[n].type = "payload" /\ \A i \in 1 .. n - 1 : s[i].type # "payload"
      /\ PayloadBlock(o) = s[n] /\ s[n] \in BlockRec /\ Data(o) = s[n].data
      /\ Data(o) \in Seq(Nat)
  BY PayloadIsLast
<1>2. w = Append(r, last)
  BY FirstFragment
<1>3. WellFormed(x) /\ PayloadBlock(x).flags = s[n].flags
  <2>1. 0 \in Nat
    OBVIOUS
  <2>2. WellFormed(x) /\ (CheckValid(x, FALSE) => PayloadBlock(x).flags = PayloadBlock(o).flags)
    BY <2>1, FragmentFacts
  <2>3. QED BY <1>1, <2>2
<1>4. LET m == Len(w)
      IN  /\ w \in Seq(BlockRec) /\ m \in Nat /\ m > 0 /\ DOMAIN w = 1 .. m
          /\ w[m].type = "payload" /\ \A i \in 1 .. m - 1 : w[i].type # "payload"
  BY <1>3, PayloadIsLast
<1>5. n - 1 \in 0 .. Len(s)
  BY <1>1
<1>6. /\ r \in Seq(BlockRec) /\ Len(r) = n - 1
      /\ \A i \in 1 .. n - 1 : r[i] = [s[i] EXCEPT !.num = i + 1] /\ r[i].num = i + 1
  <2>1. r \in Seq(BlockRec) /\ Len(r) = n - 1 /\ \A i \in 1 .. n - 1 : r[i].num = i + 1
    <3> HIDE DEF s
    <3>1. PICK m \in 0 .. Len(s) : m = n - 1
      BY <1>5
    <3>2. /\ Renumber(s, m) \in Seq(BlockRec) /\ Len(Renumber(s, m)) = m
          /\ \A i \in 1 .. m : Renumber(s, m)[i].num = i + 1
      <4>1. s \in Seq(BlockRec)
        BY <1>1
      <4>2. QED BY ONLY <3>1, <4>1, RenumberFacts
    <3>3. QED BY <3>1, <3>2
  <2>2. \A i \in 1 .. n - 1 : r[i] = [s[i] EXCEPT !.num = i + 1]
    BY DEF Renumber
  <2>3. QED BY <2>1, <2>2
<1> HIDE DEF n, r, last
<1>7. Len(w) = n /\ \A i \in 1 .. n - 1 : w[i] = r[i]
  <2>1. Len(Append(r, last)) = Len(r) + 1 /\ \A i \in 1 .. Len(r) : Append(r, last)[i] = r[i]
    BY <1>6, AppendProperties
  <2> HIDE DEF w
  <2>2. Len(w) = (n - 1) + 1 /\ \A i \in 1 .. n - 1 : w[i] = r[i]
    BY <1>2, <1>6, <2>1
  <2>3. QED BY <1>1, <2>2
<1> HIDE DEF w
<1>8. n - 1 \in Nat /\ Len(w) = (n - 1) + 1
  BY <1>1, <1>7
<1>9. /\ w \in Seq(BlockRec) /\ DOMAIN w = 1 .. n /\ w[n].type = "payload"
      /\ \A i \in 1 .. n - 1 : w[i].type # "payload"
  BY <1>4, <1>7
<1>10. ext = 1 .. n - 1
  <2>1. \A k \in 1 .. n : k = n \/ k \in 1 .. n - 1
    BY <1>1
  <2>2. \A k \in 1 .. n - 1 : k \in 1 .. n
    BY <1>1
  <2>3. QED BY <1>9, <2>1, <2>2
<1> HIDE DEF ext
<1>11. AddExtensionBlocks(w, ext) = Renumber(w, n - 1)
  BY <1>8, <1>9, <1>10, AddsAll
<1>12. Renumber(w, n - 1) = r
  <2>1. ASSUME NEW i \in 1 .. n - 1
        PROVE  [w[i] EXCEPT !.num = i + 1] = [s[i] EXCEPT !.num = i + 1]
    <3>1. w[i] = [s[i] EXCEPT !.num = i + 1]
      BY <1>6, <1>7
    <3>2. QED BY <3>1
  <2>2. QED BY <2>1 DEF Renumber, r
<1>13. payload \in BlockRec /\ payload.type = "payload"
  <2>1. s[n].flags \in SUBSET BlockFlags
    BY <1>1 DEF BlockRec
  <2> DEFINE d == Data(o)
             fl == PayloadBlock(x).flags
  <2>2. d \in Seq(Nat) /\ fl \in SUBSET BlockFlags
    BY <1>1, <1>3, <2>1
  <2> HIDE DEF d, fl
  <2>3. NewCanonicalBlock(1, "payload", fl, d) \in BlockRec
    BY <2>2 DEF NewCanonicalBlock, BlockRec, BlockTypes
  <2>4. QED BY <2>3 DEF d, fl, NewCanonicalBlock
<1>14. AddExtensionBlock(r, payload) = Append(r, [payload EXCEPT !.num = 1])
  <2>1. DOMAIN r = 1 .. n - 1
    BY <1>6, <1>8
  <2>2. \A i \in DOMAIN r : r[i].num = i + 1
    BY <1>6, <2>1
  <2> HIDE DEF payload
  <2>3. QED BY <1>6, <1>13, <2>2, AddsAtEnd
<1>15. [payload EXCEPT !.num = 1] = [s[n] EXCEPT !.num = 1]
  <2> DEFINE u == [payload EXCEPT !.num = 1]
             v == [s[n] EXCEPT !.num = 1]
  <2>1. payload.flags = s[n].flags /\ payload.data = s[n].data /\ payload.type = s[n].type
    BY <1>1, <1>3 DEF NewCanonicalBlock
  <2> HIDE DEF payload
  <2>2. u \in BlockRec /\ u.num = 1 /\ u.type = payload.type /\ u.flags = payload.flags
        /\ u.data = payload.data
    BY <1>13, NumberSet
  <2>3. v \in BlockRec /\ v.num = 1 /\ v.type = s[n].type /\ v.flags = s[n].flags
        /\ v.data = s[n].data
    BY <1>1, NumberSet
  <2> HIDE DEF u, v
  <2>4. u = v
    BY <2>1, <2>2, <2>3, BlocksEqual
  <2>5. QED BY <2>4 DEF u, v
<1>16. QED
  BY <1>11, <1>12, <1>14, <1>15 DEF Anew, r, n, w, ext

(***************************************************************************)
(* Fragments that prepareReassembly accepts give the bundle they were made *)
(* from, whatever calls of Fragment they come from.                        *)
(***************************************************************************)
LEMMA ReassembledIsWhole ==
    ASSUME NEW o, WellFormed(o), CheckValid(o, FALSE), ~IsFragment(o),
           NEW T, NEW bs \in Seq(T), \A k \in DOMAIN bs : IsPart(o, bs[k]),
           prepareReassembly(ByOffset(bs)), ~MergePanics(ByOffset(bs)), NEW exceeded
    PROVE  LET r == ReassembleFragments(bs, exceeded)
           IN  /\ r.res = "ok" => SameBundle(r.bundle, o)
               /\ exceeded = FALSE => r.res = "ok"
<1> DEFINE s == ByOffset(bs)
           D == Data(o)
           ext == {k \in DOMAIN s[1].blocks : s[1].blocks[k].type # "payload"}
           payload == NewCanonicalBlock(1, "payload", PayloadBlock(s[1]).flags,
                                        mergeFragmentPayload(s))
           p == [s[1].primary EXCEPT !.flags = @ \ {"fragment"}, !.off = 0, !.total = 0]
           b == [primary |-> p,
                 blocks |-> AddExtensionBlock(AddExtensionBlocks(s[1].blocks, ext), payload)]
           y == [primary |-> o.primary, blocks |-> Anew(o.blocks)]
<1>1. D \in Seq(Nat)
  BY PayloadIsLast
<1>2. \A k \in DOMAIN bs : IsPiece(D, bs[k]) /\ Offset(bs[k]) \in Nat
  BY PartIsPiece DEF IsPiece
<1>3. s \in Seq(T) /\ Len(s) = Len(bs)
  BY <1>2, OffsetsSorted
<1>4. PICK f : InOrder(bs, f)
  BY <1>2, OffsetsSorted
<1> HIDE DEF s, D
<1>5. DOMAIN s = DOMAIN bs /\ \A k \in DOMAIN s : f[k] \in DOMAIN bs /\ s[k] = bs[f[k]]
  BY <1>3, <1>4 DEF InOrder, s
<1>6. \A k \in DOMAIN s : IsPiece(D, s[k]) /\ IsPart(o, s[k])
  BY <1>2, <1>5
<1>7. mergeFragmentPayload(s) = D
  <2>1. prepareReassembly(s) /\ ~MergePanics(s)
    BY DEF s
  <2>2. QED BY <1>1, <1>3, <1>6, <2>1, MergesToAll
<1>8. 1 \in DOMAIN s /\ Offset(s[1]) <= 0
  <2>1. s # <<>> /\ \A k \in DOMAIN s : Offset(s[k]) <= (IF k = 1 THEN 0 ELSE End(s[k-1]))
    BY DEF prepareReassembly, s
  <2>2. 1 \in DOMAIN s
    BY <1>3, <2>1
  <2>3. QED BY <2>1, <2>2
<1>9. PICK x : x = s[1]
  OBVIOUS
<1>10. /\ IsPiece(D, x) /\ x = FragmentOf(o, Offset(x), End(x))
       /\ CheckValid(x, FALSE)
  BY <1>6, <1>8, <1>9, PartIsPiece, PartFacts
<1>11. Offset(x) = 0 /\ End(x) \in Nat /\ End(x) <= Len(D)
  BY <1>8, <1>9, <1>10 DEF IsPiece
<1>12. x = FragmentOf(o, 0, End(x))
  BY <1>10, <1>11
<1>13. b.blocks = Anew(o.blocks)
  <2> DEFINE e == {k \in DOMAIN x.blocks : x.blocks[k].type # "payload"}
             pl == NewCanonicalBlock(1, "payload", PayloadBlock(x).flags, D)
  <2>1. AddExtensionBlock(AddExtensionBlocks(x.blocks, e), pl) = Anew(o.blocks)
    BY <1>10, <1>11, <1>12, FirstRebuilt DEF D
  <2>2. b.blocks = AddExtensionBlock(AddExtensionBlocks(x.blocks, e), pl)
    BY <1>7, <1>9
  <2>3. QED BY <2>1, <2>2
<1>14. p = o.primary
  <2>1. x.primary = fragmentPrimaryBlock(o.primary, 0, Len(D))
    <3>1. PICK e \in Nat : e <= Len(D) /\ x = FragmentOf(o, 0, e)
      BY <1>11, <1>12
    <3>2. 0 \in Nat
      OBVIOUS
    <3>3. FragmentOf(o, 0, e).primary = fragmentPrimaryBlock(o.primary, 0, Len(Data(o)))
      BY <3>1, <3>2, FragmentFacts DEF D
    <3>4. QED BY <3>1, <3>3 DEF D
  <2>2. o.primary \in PrimaryRec /\ o.primary.off = 0 /\ o.primary.total = 0
        /\ "fragment" \notin o.primary.flags
    BY DEF WellFormed, IsFragment
  <2> DEFINE q == o.primary
  <2> HIDE DEF q
  <2>3. q \in PrimaryRec /\ q.off = 0 /\ q.total = 0 /\ "fragment" \notin q.flags
        /\ x.primary = [q EXCEPT !.flags = @ \cup {"fragment"}, !.off = 0, !.total = Len(D)]
    BY <2>1, <2>2 DEF q, fragmentPrimaryBlock
  <2>4. [x.primary EXCEPT !.flags = @ \ {"fragment"}, !.off = 0, !.total = 0] = q
    <3> DEFINE fl == (q.flags \cup {"fragment"}) \ {"fragment"}
    <3>1. fl = q.flags
      BY <2>3
    <3> HIDE DEF fl
    <3>2. [x.primary EXCEPT !.flags = @ \ {"fragment"}, !.off = 0, !.total = 0]
            = [q EXCEPT !.flags = fl, !.off = 0, !.total = 0]
      BY <2>3 DEF PrimaryRec, fl
    <3>3. QED BY <2>3, <3>1, <3>2 DEF PrimaryRec
  <2>5. QED BY <1>9, <2>4 DEF q
<1>15. b = y
  <2> HIDE DEF p
  <2> QED BY <1>13, <1>14
<1>16. CheckValid(y, FALSE) /\ SameBundle(y, o)
  BY AnewIsSame
<1>17. ReassembleFragments(bs, exceeded) =
          IF ~CheckValid(b, exceeded) THEN [res |-> "error"] ELSE [res |-> "ok", bundle |-> b]
  BY DEF ReassembleFragments, s
<1> HIDE DEF b, y
<1>18. CASE CheckValid(b, exceeded)
  <2>1. ReassembleFragments(bs, exceeded) = [res |-> "ok", bundle |-> b]
    BY <1>17, <1>18
  <2>2. QED BY <1>15, <1>16, <2>1
<1>19. CASE ~CheckValid(b, exceeded)
  <2>1. ReassembleFragments(bs, exceeded) = [res |-> "error"]
    BY <1>17, <1>19
  <2>2. exceeded # FALSE
    BY <1>15, <1>16, <1>19
  <2>3. ReassembleFragments(bs, exceeded).res # "ok"
    BY <2>1
  <2>4. QED BY <2>2, <2>3
<1>20. QED BY <1>18, <1>19

-----------------------------------------------------------------------------
\* What is loaded

\* With fragments, a file of the item was written in full or is removed.
FileInv ==
    setup.mtus # {} /\ item # None =>
       \A n \in Range(item.parts) : n \in DOMAIN files /\ (Good(n) \/ files[n] = None)

\* With a whole bundle, whatever is in the file has its primary block.
Stamped(w) == Len(w) >= 2 => w[2] = MarshalPrimary(origin.primary)
StampInv ==
    setup.mtus = {} => \A n \in DOMAIN files : files[n] = None \/ Stamped(files[n])

\* The order of reading and writing, as far as there are fragments
LInv == FileInv /\ StampInv /\ (setup.mtus # {} => RInv)

LEMMA ParseAgrees ==
    ASSUME NEW w, NEW x, NEW y, ParseBundle(w, x).ok, ParseBundle(w, y).ok
    PROVE  ParseBundle(w, x).bundle = ParseBundle(w, y).bundle
<1> DEFINE end == Min({i \in DOMAIN w : w[i].kind = "break"})
           b == [primary |-> UnmarshalPrimary(w[2]),
                 blocks |-> [i \in 1 .. end - 3 |-> UnmarshalBlock(w[i + 2])]]
<1>1. \A z : ParseBundle(w, z) \in {[ok |-> TRUE, bundle |-> b], [ok |-> FALSE]}
  BY DEF ParseBundle
<1> HIDE DEF b
<1>2. ASSUME NEW z, ParseBundle(w, z).ok PROVE ParseBundle(w, z).bundle = b
  <2>1. CASE ParseBundle(w, z) = [ok |-> FALSE]
    BY <1>2, <2>1
  <2>2. CASE ParseBundle(w, z) = [ok |-> TRUE, bundle |-> b]
    BY <2>2
  <2>3. QED BY <1>1, <2>1, <2>2
<1>3. QED BY <1>2

LEMMA ParsedPrimary ==
    ASSUME NEW w \in Seq(Token), NEW z, ParseBundle(w, z).ok
    PROVE  Len(w) >= 2 /\ ParseBundle(w, z).bundle.primary = UnmarshalPrimary(w[2])
<1> DEFINE breaks == {i \in DOMAIN w : w[i].kind = "break"}
           end == Min(breaks)
           b == [primary |-> UnmarshalPrimary(w[2]),
                 blocks |-> [i \in 1 .. end - 3 |-> UnmarshalBlock(w[i + 2])]]
<1>1. \/ ParseBundle(w, z) = [ok |-> FALSE]
      \/ ParseBundle(w, z) = [ok |-> TRUE, bundle |-> b] /\ breaks # {} /\ end > 2
  BY DEF ParseBundle
<1>2. breaks \subseteq Nat
  OBVIOUS
<1>3. breaks # {} => end \in DOMAIN w
  <2>1. breaks \subseteq DOMAIN w
    OBVIOUS
  <2> HIDE DEF breaks
  <2>2. QED BY <1>2, <2>1, MinExists
<1>4. b.primary = UnmarshalPrimary(w[2])
  OBVIOUS
<1> HIDE DEF b, breaks
<1>5. CASE ParseBundle(w, z) = [ok |-> FALSE]
  BY <1>5
<1>6. CASE ParseBundle(w, z) = [ok |-> TRUE, bundle |-> b] /\ breaks # {} /\ end > 2
  <2>1. end \in 1 .. Len(w) /\ Len(w) \in Nat
    BY <1>3, <1>6
  <2> HIDE DEF end
  <2>2. Len(w) >= 2
    BY <1>6, <2>1
  <2>3. ParseBundle(w, z).bundle = b
    BY <1>6
  <2>4. QED BY <1>4, <2>2, <2>3
<1>7. QED BY <1>1, <1>5, <1>6

\* The origin is valid, and a fragment that was sent is one of its parts.
LEMMA SentIsPart ==
    ASSUME SetupInv, setup.bundle # None
    PROVE  /\ WellFormed(origin) /\ CheckValid(origin, FALSE) /\ ~IsFragment(origin)
           /\ \A b \in sent : IsFragment(b) => IsPart(origin, b)
<1>1. setup \in Setups
  BY DEF SetupInv
<1>2. /\ WellFormed(origin) /\ CheckValid(origin, FALSE)
      /\ ~IsFragment(origin) /\ setup.mtus \subseteq Nat
      /\ sent = Sent(origin, setup.mtus)
  BY <1>1, StorageAssumption DEF SetupInv
<1>3. ASSUME NEW b \in sent, IsFragment(b) PROVE IsPart(origin, b)
  <2>1. b # origin
    BY <1>2, <1>3
  <2>2. \E m \in setup.mtus : b \in Range(Fragment(origin, m).bs)
    <3> HIDE DEF Range, Fragment
    <3> QED BY <1>2, <1>3, <2>1 DEF Sent
  <2>3. PICK m \in setup.mtus : b \in Range(Fragment(origin, m).bs)
    BY <2>2
  <2>4. QED BY <1>2, <2>1, <2>3, FragmentResult
<1>4. QED BY <1>2, <1>3

LEMMA GoodLoads ==
    ASSUME IInv, NEW n, Good(n), Loads(n)
    PROVE  LoadPart(n, late).bundle \in sent /\ Name(LoadPart(n, late).bundle) = n
<1>1. LoadPart(n, FALSE).ok /\ LoadPart(n, FALSE).bundle \in sent
      /\ Name(LoadPart(n, FALSE).bundle) = n
  BY GoodIsReadable DEF Readable
<1>2. LoadPart(n, late).ok
  BY DEF Loads
<1>3. files[n] # None
  BY <1>2 DEF LoadPart
<1>4. /\ LoadPart(n, late) = ParseBundle(files[n], late)
      /\ LoadPart(n, FALSE) = ParseBundle(files[n], FALSE)
  BY <1>3 DEF LoadPart
<1>5. LoadPart(n, late).bundle = LoadPart(n, FALSE).bundle
  <2>1. PICK w, z : w = files[n] /\ z = late
    OBVIOUS
  <2>2. ParseBundle(w, z).ok /\ ParseBundle(w, FALSE).ok
    BY <1>1, <1>2, <1>4, <2>1
  <2>3. ParseBundle(w, z).bundle = ParseBundle(w, FALSE).bundle
    BY <2>2, ParseAgrees
  <2>4. QED BY <1>4, <2>1, <2>3
<1>6. QED BY <1>1, <1>5

LEMMA LoadedParts ==
    ASSUME IInv, FileInv, setup.mtus # {}, item # None, \A n \in Range(item.parts) : Loads(n)
    PROVE  /\ bundleParts \in Seq(sent) /\ DOMAIN bundleParts = DOMAIN item.parts
           /\ \A k \in DOMAIN item.parts : Name(bundleParts[k]) = item.parts[k]
<1>1. item.parts \in Seq(Nat \X Nat)
  BY DEF IInv, TypeInv, ItemRec
<1>2. ASSUME NEW k \in DOMAIN item.parts
      PROVE  /\ LoadPart(item.parts[k], late).bundle \in sent
             /\ Name(LoadPart(item.parts[k], late).bundle) = item.parts[k]
  <2>1. item.parts[k] \in Range(item.parts)
    BY DEF Range
  <2>2. Loads(item.parts[k])
    BY <2>1
  <2>3. files[item.parts[k]] # None
    BY <2>2 DEF Loads, LoadPart
  <2>4. Good(item.parts[k])
    BY <2>1, <2>3 DEF FileInv
  <2>5. QED BY <2>2, <2>4, GoodLoads
<1>3. DOMAIN item.parts = 1 .. Len(item.parts) /\ Len(item.parts) \in Nat
  BY <1>1
<1> DEFINE q == item.parts
           g(k) == LoadPart(item.parts[k], late).bundle
<1>4. bundleParts = [k \in DOMAIN q |-> g(k)]
  BY DEF bundleParts
<1>5. \A k \in DOMAIN q : g(k) \in sent
  BY <1>2
<1>6. \A k \in DOMAIN q : bundleParts[k] = g(k)
  <2> HIDE DEF g, q
  <2> QED BY <1>4
<1>7. bundleParts \in Seq(sent)
  <2>1. DOMAIN q = 1 .. Len(q) /\ Len(q) \in Nat
    BY <1>3
  <2> HIDE DEF g, q
  <2>2. [k \in 1 .. Len(q) |-> g(k)] \in Seq(sent)
    BY <1>5, <2>1
  <2>3. QED BY <1>4, <2>1, <2>2
<1>8. QED BY <1>2, <1>4, <1>6, <1>7

\* A reassembly that succeeds had fragments only.
LEMMA ReassemblyNeeds ==
    ASSUME NEW T, NEW bs \in Seq(T), \A k \in DOMAIN bs : Offset(bs[k]) \in Nat,
           prepareReassembly(ByOffset(bs)), NEW i \in DOMAIN bs
    PROVE  IsFragment(bs[i])
<1>1. PICK f : InOrder(bs, f)
  BY OffsetsSorted
<1>2. DOMAIN ByOffset(bs) = DOMAIN bs
  BY OffsetsSorted
<1>3. PICK k \in DOMAIN bs : f[k] = i
  BY <1>1 DEF InOrder
<1>4. ByOffset(bs)[k] = bs[i]
  BY <1>1, <1>3 DEF InOrder
<1>5. QED BY <1>2, <1>3, <1>4 DEF prepareReassembly

LEMMA SuccessNeeds ==
    ASSUME NEW bs, NEW z, ReassembleFragments(bs, z).res = "ok"
    PROVE  prepareReassembly(ByOffset(bs)) /\ ~MergePanics(ByOffset(bs))
<1>1. /\ ~prepareReassembly(ByOffset(bs)) => ReassembleFragments(bs, z) = [res |-> "error"]
      /\ prepareReassembly(ByOffset(bs)) /\ MergePanics(ByOffset(bs)) =>
            ReassembleFragments(bs, z) = [res |-> "panic"]
  BY DEF ReassembleFragments
<1>2. QED BY <1>1

LEMMA SentOffsets == ASSUME IInv, NEW b \in sent PROVE Offset(b) \in Nat
<1>1. WellFormed(b)
  BY SentFacts DEF IInv
<1>2. QED BY <1>1 DEF Offset, WellFormed, PrimaryRec

LEMMA FragmentsLoaded ==
    ASSUME IInv, LInv, setup.mtus # {}, item # None, Load.res = "ok"
    PROVE  SameBundle(Load.bundle, origin)
<1> DEFINE bs == bundleParts
           r == ReassembleFragments(bundleParts, late)
<1>1. (\A n \in Range(item.parts) : Loads(n)) /\ Load = r
  <2>1. CASE \E n \in Range(item.parts) : ~Loads(n)
    <3>1. Load = [res |-> "error"]
      BY <2>1 DEF Load
    <3>2. QED BY <3>1
  <2>2. CASE ~\E n \in Range(item.parts) : ~Loads(n)
    BY <2>2 DEF Load
  <2>3. QED BY <2>1, <2>2
<1>2. bs \in Seq(sent)
  BY <1>1, LoadedParts DEF LInv
<1>3. setup.bundle # None
  BY DEF IInv, SetupInv
<1>4. SetupInv
  BY DEF IInv
<1>5. r.res = "ok"
  BY <1>1
<1>6. prepareReassembly(ByOffset(bs)) /\ ~MergePanics(ByOffset(bs))
  BY <1>5, SuccessNeeds
<1> HIDE DEF bs
<1>7. \A k \in DOMAIN bs : bs[k] \in sent
  BY <1>2
<1>8. \A k \in DOMAIN bs : Offset(bs[k]) \in Nat
  BY <1>7, SentOffsets
<1>9. \A k \in DOMAIN bs : IsFragment(bs[k])
  BY <1>2, <1>6, <1>8, ReassemblyNeeds
<1>10. \A k \in DOMAIN bs : IsPart(origin, bs[k])
  BY <1>3, <1>4, <1>7, <1>9, SentIsPart
<1>11. WellFormed(origin) /\ CheckValid(origin, FALSE) /\ ~IsFragment(origin)
  BY <1>3, <1>4, SentIsPart
<1>12. SameBundle(r.bundle, origin)
  BY <1>2, <1>5, <1>6, <1>10, <1>11, ReassembledIsWhole DEF bs
<1>13. QED BY <1>1, <1>12

\* A whole bundle is not loaded this way.
LEMMA WholeFails ==
    ASSUME IInv, StampInv, setup.mtus = {}, item # None, Load.res = "ok"
    PROVE  FALSE
<1> DEFINE bs == bundleParts
           r == ReassembleFragments(bundleParts, late)
           w == files[Whole]
<1>1. (\A n \in Range(item.parts) : Loads(n)) /\ Load = r
  <2>1. CASE \E n \in Range(item.parts) : ~Loads(n)
    <3>1. Load = [res |-> "error"]
      BY <2>1 DEF Load
    <3>2. QED BY <3>1
  <2>2. CASE ~\E n \in Range(item.parts) : ~Loads(n)
    BY <2>2 DEF Load
  <2>3. QED BY <2>1, <2>2
<1>2. setup.bundle # None /\ SetupInv
  BY DEF IInv, SetupInv
<1>3. sent = {origin} /\ Name(origin) = Whole /\ WellFormed(origin) /\ ~IsFragment(origin)
  BY <1>2, SentFacts, SentIsPart
<1>4. item.parts = <<Whole>>
  BY DEF IInv, WholeInv
<1>5. Loads(Whole)
  <2>1. Whole \in Range(<<Whole>>)
    BY DEF Range
  <2>2. QED BY <1>1, <1>4, <2>1
<1>6. files[Whole] # None /\ ParseBundle(w, late).ok /\ LoadPart(Whole, late) = ParseBundle(w, late)
  BY <1>5 DEF Loads, LoadPart
<1>7. Whole \in DOMAIN files /\ files[Whole] \in Seq(Token) \cup {None}
  BY <1>3 DEF IInv, TypeInv
<1>8. w \in Seq(Token) /\ Stamped(w)
  BY <1>6, <1>7 DEF StampInv
<1> HIDE DEF w
<1>9. /\ Len(w) >= 2
      /\ ParseBundle(w, late).bundle.primary = UnmarshalPrimary(w[2])
  BY <1>6, <1>8, ParsedPrimary
<1>10. LoadPart(Whole, late).bundle.primary = origin.primary
  <2>1. w[2] = MarshalPrimary(origin.primary)
    BY <1>8, <1>9 DEF Stamped
  <2>2. UnmarshalPrimary(MarshalPrimary(origin.primary)) = origin.primary
    BY <1>3, MarshalPrimaryToken
  <2>3. QED BY <1>6, <1>9, <2>1, <2>2
<1> DEFINE x == LoadPart(Whole, late).bundle
           one == <<Whole>>
<1>11. bs = [k \in DOMAIN one |-> LoadPart(one[k], late).bundle]
  BY <1>4 DEF bundleParts
<1>12. DOMAIN one = 1 .. 1 /\ one[1] = Whole
  OBVIOUS
<1> HIDE DEF one, x
<1>13. bs = [k \in 1 .. 1 |-> x]
  BY <1>11, <1>12 DEF x
<1>14. prepareReassembly(ByOffset(bs))
  BY <1>1, SuccessNeeds
<1> HIDE DEF bs
<1>15. bs \in Seq({x}) /\ DOMAIN bs = 1 .. 1 /\ bs[1] = x
  BY <1>13
<1>16. Offset(x) \in Nat /\ ~IsFragment(x)
  BY <1>3, <1>10 DEF x, Offset, IsFragment, WellFormed, PrimaryRec
<1>17. \A k \in DOMAIN bs : Offset(bs[k]) \in Nat /\ bs[k] = x
  BY <1>13, <1>15, <1>16
<1>18. 1 \in DOMAIN bs
  BY <1>15
<1>19. IsFragment(bs[1])
  BY <1>14, <1>15, <1>17, <1>18, ReassemblyNeeds
<1>20. QED BY <1>15, <1>16, <1>19

\* Item and files stay, and so does the bundle where there is a file.
LEMMA SameFiles ==
    ASSUME IInv, FileInv, StampInv, UNCHANGED <<setup, sent, item, files>>,
           setup.bundle # None => UNCHANGED origin
    PROVE  FileInv' /\ StampInv'
<1>1. FileInv'
  BY DEF FileInv, Good
<1>2. StampInv'
  <2>1. CASE setup.bundle # None
    BY <2>1 DEF StampInv, Stamped
  <2>2. CASE setup.bundle = None
    <3>1. DOMAIN files = {}
      BY <2>2 DEF IInv, SetupInv, TypeInv
    <3>2. QED BY <3>1 DEF StampInv
  <2>3. QED BY <2>1, <2>2
<1>3. QED BY <1>1, <1>2

\* What is written over a file has the new primary block or none at all.
LEMMA OverStamped ==
    ASSUME NEW new \in Seq(Token), NEW old \in Seq(Token), NEW k \in 0 .. Len(new),
           Len(new) >= 2, NEW p, new[2] = p, Len(old) >= 2 => old[2] = p
    PROVE  Len(Over(new, old, k)) >= 2 => Over(new, old, k)[2] = p
<1> DEFINE a == SubSeq(new, 1, k)
           b == SubSeq(old, k + 1, Len(old))
           v == a \o b
<1>1. Len(new) \in Nat /\ Len(old) \in Nat /\ k \in Nat /\ k <= Len(new)
  OBVIOUS
<1>2. a \in Seq(Token) /\ Len(a) = k /\ \A i \in 1 .. k : a[i] = new[i]
  <2>1. \A i \in 1 .. k : new[i] \in Token
    BY <1>1
  <2>2. /\ a \in Seq(Token) /\ Len(a) = IF 1 <= k THEN k - 1 + 1 ELSE 0
        /\ \A i \in 1 .. k - 1 + 1 : a[i] = new[1 + i - 1]
    BY <1>1, <2>1, SubSeqProperties
  <2> HIDE DEF a
  <2>3. \A i \in 1 .. k : i \in 1 .. k - 1 + 1 /\ 1 + i - 1 = i
    BY <1>1
  <2>4. QED BY <1>1, <2>2, <2>3
<1>3. /\ b \in Seq(Token) /\ Len(b) = (IF k + 1 <= Len(old) THEN Len(old) - k ELSE 0)
      /\ \A i \in 1 .. Len(old) - k : b[i] = old[k + i]
  <2>1. \A i \in k + 1 .. Len(old) : old[i] \in Token
    BY <1>1
  <2>2. /\ b \in Seq(Token)
        /\ Len(b) = IF k + 1 <= Len(old) THEN Len(old) - (k + 1) + 1 ELSE 0
        /\ \A i \in 1 .. Len(old) - (k + 1) + 1 : b[i] = old[(k + 1) + i - 1]
    BY <1>1, <2>1, SubSeqProperties
  <2> HIDE DEF b
  <2>3. \A i \in 1 .. Len(old) - k : i \in 1 .. Len(old) - (k + 1) + 1 /\ (k + 1) + i - 1 = k + i
    BY <1>1
  <2>4. Len(old) - (k + 1) + 1 = Len(old) - k
    BY <1>1
  <2>5. QED BY <2>2, <2>3, <2>4
<1>4. v = Over(new, old, k)
  BY DEF Over
<1> HIDE DEF a, b
<1>5. /\ v \in Seq(Token) /\ Len(v) = Len(a) + Len(b)
      /\ \A i \in 1 .. Len(a) + Len(b) : v[i] = IF i <= Len(a) THEN a[i] ELSE b[i - Len(a)]
  BY <1>2, <1>3, ConcatProperties
<1> HIDE DEF v
<1>6. ASSUME Len(v) >= 2 PROVE v[2] = p
  <2>1. v[2] = IF 2 <= k THEN a[2] ELSE b[2 - k]
    BY <1>1, <1>2, <1>3, <1>5, <1>6
  <2>2. CASE 2 <= k
    <3>1. 2 \in 1 .. k
      BY <1>1, <2>2
    <3>2. QED BY <1>2, <2>1, <2>2, <3>1
  <2>3. CASE ~(2 <= k)
    <3>1. k + Len(b) >= 2 /\ k < 2
      BY <1>1, <1>2, <1>5, <1>6, <2>3
    <3>2. k + 1 <= Len(old) /\ Len(old) >= 2
      BY <1>1, <1>3, <3>1
    <3>3. 2 - k \in 1 .. Len(old) - k /\ k + (2 - k) = 2
      BY <1>1, <3>1, <3>2
    <3>4. b[2 - k] = old[2]
      BY <1>3, <3>3
    <3>5. QED BY <2>1, <2>3, <3>2, <3>4
  <2>4. QED BY <2>2, <2>3
<1>7. QED BY <1>4, <1>6

LEMMA storeBundleFiles ==
    ASSUME IInv, LInv, NEW t \in Threads, storeBundle(t)
    PROVE  FileInv' /\ StampInv'
<1> DEFINE new == WriteBundle(thr[t].b)
<1>0. PICK m : m = Name(thr[t].b)
  OBVIOUS
<1>1. /\ thr[t].b \in sent /\ new \in Seq(Token) /\ Content(m) \in Seq(Token)
      /\ m \in DOMAIN files /\ UNCHANGED <<setup, sent, origin, item>>
  BY <1>0, storeBundleEffect DEF world, source
<1>2. PICK k \in 0 .. Len(new) : files' = [files EXCEPT ![m] = Over(new, Content(m), k)]
  BY <1>0, storeBundleEffect
<1>3. /\ DOMAIN files' = DOMAIN files /\ files'[m] = Over(new, Content(m), k)
      /\ \A n \in DOMAIN files \ {m} : files'[n] = files[n]
  <2> HIDE DEF new
  <2> QED BY <1>1, <1>2
<1>4. thr[t].pc \in Pushing
  BY DEF storeBundle, Pushing
<1>5. FileInv'
  <2> SUFFICES ASSUME setup.mtus # {}, item # None, NEW n \in Range(item.parts)
               PROVE  n \in DOMAIN files' /\ (Good(n)' \/ files'[n] = None)
    BY <1>1 DEF FileInv
  <2>1. m \notin Range(item.parts)
    BY <1>0, <1>4 DEF LInv, RInv, ApartInv
  <2>2. n \in DOMAIN files \ {m} /\ (Good(n) \/ files[n] = None)
    BY <2>1 DEF LInv, FileInv
  <2>3. files'[n] = files[n]
    BY <1>3, <2>2
  <2>4. QED BY <1>1, <1>3, <2>2, <2>3, GoodStays
<1>6. StampInv'
  <2> SUFFICES ASSUME setup.mtus = {}, NEW n \in DOMAIN files
               PROVE  files'[n] = None \/ Stamped(files'[n])
    BY <1>1, <1>3 DEF StampInv, Stamped
  <2>1. CASE n # m
    BY <1>3, <2>1 DEF LInv, StampInv
  <2>2. CASE n = m
    <3> DEFINE p == MarshalPrimary(origin.primary)
               old == Content(m)
    <3>1. setup.bundle # None /\ SetupInv
      BY <1>1 DEF IInv, SetupInv
    <3>2. thr[t].b = origin /\ WellFormed(origin)
      BY <1>1, <3>1, SentFacts
    <3>3. Len(new) >= 2 /\ new[2] = p
      <4>1. Len(new) = Len(origin.blocks) + 3 /\ Len(origin.blocks) \in Nat /\ new[2] = p
        BY <3>2, WriteBundleElements
      <4> HIDE DEF new
      <4>2. QED BY <4>1
    <3>4. Len(old) >= 2 => old[2] = p
      <4>1. CASE files[m] = None
        <5>1. old = <<>>
          BY <4>1 DEF Content
        <5>2. QED BY <5>1
      <4>2. CASE files[m] # None
        BY <1>1, <4>2 DEF Content, LInv, StampInv, Stamped
      <4>3. QED BY <4>1, <4>2
    <3> HIDE DEF new, old, p
    <3>5. new \in Seq(Token) /\ old \in Seq(Token) /\ files'[m] = Over(new, old, k)
      BY <1>1, <1>3 DEF old
    <3>6. Len(Over(new, old, k)) >= 2 => Over(new, old, k)[2] = p
      BY <3>3, <3>4, <3>5, OverStamped
    <3>7. QED BY <2>2, <3>5, <3>6 DEF Stamped, p
  <2>3. QED BY <2>1, <2>2
<1>7. QED BY <1>5, <1>6

LEMMA PushCommitFiles ==
    ASSUME IInv, LInv, NEW t \in Threads, PushCommit(t)
    PROVE  FileInv' /\ StampInv'
<1> DEFINE b == thr[t].b
<1>1. /\ UNCHANGED <<setup, sent, origin, files>> /\ thr[t].pc = "commit"
      /\ b \in sent /\ Name(b) \in Nat \X Nat
  BY PushCommitEffect DEF world, source, PushCommit
<1>2. StampInv'
  BY <1>1 DEF LInv, StampInv, Stamped
<1>3. \/ item' = item
      \/ item = None /\ Range(item'.parts) = {Name(b)}
      \/ item # None /\ Range(item'.parts) = Range(item.parts) \cup {Name(b)}
  <2>1. CASE item' = newBundleItem(b) /\ item = None
    BY <1>1, <2>1, NewItem
  <2>2. CASE item # None /\ item' = [item EXCEPT !.parts = Append(@, Name(b))]
    <3> DEFINE S == Nat \X Nat
    <3>1. item \in ItemRec
      BY <2>2 DEF IInv, TypeInv
    <3>2. item.parts \in Seq(S) /\ Name(b) \in S
      BY <1>1, <3>1 DEF ItemRec
    <3>3. item'.parts = Append(item.parts, Name(b))
      BY <2>2, <3>1 DEF ItemRec
    <3> HIDE DEF S
    <3>4. QED BY <2>2, <3>2, <3>3, AppendRange
  <2>3. QED BY <2>1, <2>2, PushCommitEffect
<1>4. FileInv'
  <2> SUFFICES ASSUME setup.mtus # {}, item' # None, NEW n \in Range(item'.parts)
               PROVE  n \in DOMAIN files /\ (Good(n) \/ files[n] = None)
    BY <1>1, GoodStays DEF FileInv
  <2>1. CASE n = Name(b)
    <3>1. Good(Name(b))
      BY <1>1 DEF LInv, RInv, WrittenInv
    <3>2. Name(b) \in DOMAIN files
      BY <1>1 DEF IInv, TypeInv
    <3>3. QED BY <2>1, <3>1, <3>2
  <2>2. CASE n # Name(b)
    <3>1. item # None /\ n \in Range(item.parts)
      BY <1>3, <2>2
    <3>2. QED BY <3>1 DEF LInv, FileInv
  <2>3. QED BY <2>1, <2>2
<1>5. QED BY <1>2, <1>4

LEMMA deleteBundleFiles ==
    ASSUME IInv, LInv, NEW t \in Threads, deleteBundle(t)
    PROVE  FileInv' /\ StampInv'
<1>0. PICK h : h = Head(thr[t].todo)
  OBVIOUS
<1>1. UNCHANGED <<setup, sent, origin, item>> /\ files' = [files EXCEPT ![h] = None]
  BY <1>0 DEF deleteBundle, world, source
<1>2. DOMAIN files' = DOMAIN files
      /\ \A n \in DOMAIN files : files'[n] = None \/ files'[n] = files[n]
  BY <1>1
<1>3. FileInv'
  <2> SUFFICES ASSUME setup.mtus # {}, item # None, NEW n \in Range(item.parts)
               PROVE  n \in DOMAIN files' /\ (Good(n)' \/ files'[n] = None)
    BY <1>1 DEF FileInv
  <2>1. n \in DOMAIN files /\ (Good(n) \/ files[n] = None)
    BY DEF LInv, FileInv
  <2>2. QED BY <1>1, <1>2, <2>1, GoodStays
<1>4. StampInv'
  BY <1>1, <1>2 DEF LInv, StampInv, Stamped
<1>5. QED BY <1>3, <1>4

LEMMA StepLoads == ASSUME IInv, LInv, [Next]_vars PROVE LInv'
<1>1. setup' = setup
  BY SetupKept
<1>2. setup.mtus # {} => RInv'
  <2> SUFFICES ASSUME setup.mtus # {} PROVE RInv'
    OBVIOUS
  <2>1. RInv
    BY DEF LInv
  <2>2. QED BY <2>1, StepRead
<1>3. FileInv' /\ StampInv'
  <2>0. FileInv /\ StampInv
    BY DEF LInv
  <2>1. CASE UNCHANGED vars
    BY <2>0, <2>1, SameFiles DEF vars
  <2>2. CASE CallBuilder \/ Build
    BY <2>0, <2>2, SameFiles DEF CallBuilder, Build, stored
  <2>3. CASE \E type \in BlockTypes \ {"payload"} : AddBlock(type)
    BY <2>0, <2>3, SameFiles DEF AddBlock, stored
  <2>4. CASE \E num \in 1 .. MaxBlocks + 2 : RemoveBlock(num)
    BY <2>0, <2>4, SameFiles DEF RemoveBlock, stored
  <2>5. CASE \E b \in sent : Push(b)
    BY <2>0, <2>5, SameFiles DEF Push, world, source
  <2>6. CASE \E t \in Threads : Step(t)
    <3>1. PICK t \in Threads : Step(t)
      BY <2>6
    <3>2. CASE SyncKnows(t) \/ SyncPush(t) \/ SyncQuery(t) \/ DeleteQuery(t)
      BY <2>0, <3>2, SameFiles DEF SyncKnows, SyncPush, SyncQuery, DeleteQuery, world, source
    <3>3. CASE DeleteCommit(t)
      <4>1. item' = None /\ UNCHANGED <<setup, sent, origin, files>>
        BY <3>3 DEF DeleteCommit, world, source
      <4>2. QED BY <2>0, <4>1 DEF FileInv, StampInv, Stamped
    <3>4. CASE \E v \in BOOLEAN : Update(t, v)
      <4>1. setup.mtus = {} /\ UNCHANGED <<setup, sent, origin, files>>
        BY <3>4, UpdateEffect DEF Update, world, source
      <4>2. QED BY <2>0, <4>1 DEF FileInv, StampInv, Stamped
    <3>5. QED BY <3>1, <3>2, <3>3, <3>4, storeBundleFiles, PushCommitFiles, deleteBundleFiles
           DEF Step
  <2>7. CASE DeleteExpired
    BY <2>0, <2>7, SameFiles DEF DeleteExpired, world, source
  <2>8. CASE Expire
    BY <2>0, <2>8, SameFiles DEF Expire, source
  <2>9. CASE Crash
    BY <2>0, <2>9, SameFiles DEF Crash, world, source
  <2>10. QED BY <2>1, <2>2, <2>3, <2>4, <2>5, <2>6, <2>7, <2>8, <2>9 DEF Next
<1>4. QED BY <1>1, <1>2, <1>3 DEF LInv

(***************************************************************************)
(* What BundleItem.Load returns is the bundle that was sent: for any valid *)
(* bundle, any MTUs, fragments of several calls of Fragment that overlap,  *)
(* in any order and however often they come, with a crash or a Delete at   *)
(* any point.  The payload is the same and so are the blocks, except for   *)
(* their numbers.                                                          *)
(***************************************************************************)
THEOREM LoadedSent == Spec => []LoadedIsSent
<1>1. Init => LInv
  <2> SUFFICES ASSUME Init PROVE LInv
    OBVIOUS
  <2>1. item = None /\ \A n \in DOMAIN files : files[n] = None
    BY DEF Init
  <2>2. QED BY <2>1, InitRInv DEF LInv, FileInv, StampInv
<1>2. IInv /\ LInv /\ [Next]_vars => LInv'
  BY StepLoads
<1>3. IInv /\ LInv => LoadedIsSent
  BY FragmentsLoaded, WholeFails DEF LoadedIsSent, LInv
<1> QED
  BY <1>1, <1>2, <1>3, Inductive, PTL DEF Spec

-----------------------------------------------------------------------------
\* The fragments of one call

\* A rearrangement that keeps the order changes nothing.
LEMMA OntoIncreasing ==
    ASSUME NEW n \in Nat, NEW f \in [1 .. n -> 1 .. n],
           \A i \in 1 .. n : \E k \in 1 .. n : f[k] = i,
           \A k, l \in 1 .. n : k < l => f[k] < f[l]
    PROVE  \A k \in 1 .. n : f[k] = k
<1> DEFINE bad == {k \in 1 .. n : f[k] # k}
<1>1. ASSUME bad # {} PROVE FALSE
  <2> DEFINE m == Min(bad)
  <2>1. m \in bad /\ \A x \in bad : m <= x
    <3>1. bad \subseteq Nat
      OBVIOUS
    <3> HIDE DEF bad
    <3>2. QED BY <1>1, <3>1, MinExists
  <2> HIDE DEF m
  <2>2. m \in 1 .. n /\ f[m] # m /\ \A k \in 1 .. n : k < m => f[k] = k
    BY <2>1
  <2> HIDE DEF bad
  <2>3. PICK j \in 1 .. n : f[j] = m
    BY <2>2
  <2>4. m \in Nat /\ j \in Nat /\ f[m] \in 1 .. n
    BY <2>2
  <2>5. CASE j < m
    BY <2>2, <2>3, <2>4, <2>5
  <2>6. CASE m < j
    <3>1. f[m] < m
      BY <2>2, <2>3, <2>6
    <3>2. PICK i \in 1 .. n : i = f[m]
      BY <2>4
    <3>3. i < m
      BY <3>1, <3>2
    <3>4. f[i] = i /\ f[i] < f[m]
      BY <2>2, <3>3
    <3>5. QED BY <3>2, <3>4
  <2>7. QED BY <2>2, <2>3, <2>4, <2>5, <2>6
<1>2. QED BY <1>1

LEMMA AlreadyByOffset ==
    ASSUME NEW T, NEW bs \in Seq(T), \A k \in DOMAIN bs : Offset(bs[k]) \in Nat,
           \A j, k \in DOMAIN bs : j < k => Offset(bs[j]) < Offset(bs[k])
    PROVE  ByOffset(bs) = bs
<1> DEFINE n == Len(bs)
           s == ByOffset(bs)
<1>1. n \in Nat /\ DOMAIN bs = 1 .. n
  OBVIOUS
<1>2. s \in Seq(T) /\ Len(s) = n
  BY OffsetsSorted
<1>3. PICK f : InOrder(bs, f)
  BY OffsetsSorted
<1> HIDE DEF n, s
<1>4. /\ f \in [1 .. n -> 1 .. n]
      /\ \A i \in 1 .. n : \E k \in 1 .. n : f[k] = i
      /\ \A k \in 1 .. n : s[k] = bs[f[k]]
  BY <1>1, <1>3 DEF InOrder, s
<1>5. ASSUME NEW k \in 1 .. n, NEW l \in 1 .. n, k < l PROVE f[k] < f[l]
  <2>1. \/ Offset(bs[f[k]]) < Offset(bs[f[l]])
        \/ Offset(bs[f[k]]) = Offset(bs[f[l]]) /\ f[k] < f[l]
    BY <1>1, <1>3, <1>5 DEF InOrder
  <2>2. PICK i \in 1 .. n, j \in 1 .. n : i = f[k] /\ j = f[l]
    BY <1>4
  <2>3. Offset(bs[i]) \in Nat /\ Offset(bs[j]) \in Nat
    BY <1>1
  <2>4. j < i => Offset(bs[j]) < Offset(bs[i])
    BY <1>1
  <2>5. i \in Nat /\ j \in Nat
    BY <1>1
  <2>6. QED BY <2>1, <2>2, <2>3, <2>4, <2>5
<1>6. \A k \in 1 .. n : f[k] = k
  BY <1>1, <1>4, <1>5, OntoIncreasing
<1>7. \A k \in 1 .. n : s[k] = bs[k]
  BY <1>4, <1>6
<1>8. s = bs
  BY <1>1, <1>2, <1>7, SeqEqual DEF n
<1>9. QED BY <1>8 DEF s

LEMMA PlacedPart ==
    ASSUME NEW o, WellFormed(o), CheckValid(o, FALSE), NEW mtu \in Nat, Splits(o, mtu),
           NEW k \in 1 .. Count(o, mtu)
    PROVE  /\ IsPart(o, Part(o, mtu, k)) /\ IsFragment(Part(o, mtu, k))
           /\ Offset(Part(o, mtu, k)) = Start(o, mtu, k) /\ End(Part(o, mtu, k)) = Stop(o, mtu, k)
           /\ Part(o, mtu, k).primary.total = Len(Data(o))
           /\ Start(o, mtu, k) \in Nat /\ Stop(o, mtu, k) \in Nat
           /\ Len(Data(Part(o, mtu, k))) \in Nat
<1>1. PICK x, i, hi : x = Part(o, mtu, k) /\ i = Start(o, mtu, k) /\ hi = Stop(o, mtu, k)
  OBVIOUS
<1>2. /\ CheckValid(x, FALSE) /\ i \in Nat /\ hi \in Nat /\ i < hi /\ hi <= Len(Data(o))
  BY <1>1 DEF Splits
<1>3. x = FragmentOf(o, i, hi)
  BY <1>1 DEF Part
<1>4. IsPart(o, x)
  BY <1>2, <1>3 DEF IsPart
<1>5. /\ IsFragment(x) /\ x.primary.off = i /\ x.primary.total = Len(Data(o))
      /\ Data(x) = SubSeq(Data(o), i + 1, hi)
  BY <1>2, <1>3, FragmentFacts
<1>6. Len(SubSeq(Data(o), i + 1, hi)) = hi - i
  <2>0. PICK D : D = Data(o)
    OBVIOUS
  <2>1. D \in Seq(Nat)
    BY <2>0, PayloadIsLast
  <2>2. \A l \in i + 1 .. hi : D[l] \in Nat
    BY <1>2, <2>0, <2>1
  <2>3. Len(SubSeq(D, i + 1, hi)) = IF i + 1 <= hi THEN hi - (i + 1) + 1 ELSE 0
    BY <1>2, <2>2, SubSeqProperties
  <2>4. QED BY <1>2, <2>0, <2>3
<1>7. Len(Data(x)) = hi - i
  BY <1>5, <1>6
<1>8. Offset(x) = i /\ End(x) = hi
  BY <1>2, <1>5, <1>7 DEF Offset, End
<1>9. /\ IsPart(o, x) /\ IsFragment(x) /\ Offset(x) = i /\ End(x) = hi
      /\ x.primary.total = Len(Data(o)) /\ i \in Nat /\ hi \in Nat /\ Len(Data(x)) \in Nat
  BY <1>2, <1>4, <1>5, <1>7, <1>8
<1>10. QED BY ONLY <1>1, <1>9

(***************************************************************************)
(* The fragments of one call of Fragment reassemble to the bundle.         *)
(***************************************************************************)
LEMMA SplitsReassemble ==
    ASSUME NEW o, WellFormed(o), CheckValid(o, FALSE), ~IsFragment(o), NEW mtu \in Nat,
           Splits(o, mtu)
    PROVE  LET r == ReassembleFragments(Fragment(o, mtu).bs, FALSE)
           IN  r.res = "ok" /\ SameBundle(r.bundle, o)
<1> DEFINE bs == Fragment(o, mtu).bs
           c == Count(o, mtu)
           start(k) == Start(o, mtu, k)
           stop(k) == Stop(o, mtu, k)
           len == Len(Data(o))
<1>1. /\ c \in Nat /\ c > 1 /\ bs = [k \in 1 .. c |-> Part(o, mtu, k)]
      /\ start(1) = 0 /\ stop(c) = len
      /\ \A k \in 1 .. c - 1 : stop(k) = start(k + 1)
      /\ \A j, k \in 1 .. c : j < k => start(j) < start(k)
  BY DEF Splits
<1>2. \A k \in 1 .. c :
         /\ IsPart(o, Part(o, mtu, k)) /\ IsFragment(Part(o, mtu, k))
         /\ Offset(Part(o, mtu, k)) = start(k) /\ End(Part(o, mtu, k)) = stop(k)
         /\ Part(o, mtu, k).primary.total = len
         /\ start(k) \in Nat /\ stop(k) \in Nat /\ Len(Data(Part(o, mtu, k))) \in Nat
  <2> TAKE k \in 1 .. c
  <2>1. k \in 1 .. Count(o, mtu)
    OBVIOUS
  <2> QED BY <2>1, PlacedPart
<1> HIDE DEF bs, c, start, stop, len
<1> DEFINE T == Range(bs)
<1>3. DOMAIN bs = 1 .. c /\ Len(bs) = c /\ bs \in Seq(T) /\ \A k \in 1 .. c : bs[k] = Part(o, mtu, k)
  BY <1>1 DEF Range
<1> HIDE DEF T
<1>4. \A k \in 1 .. c : /\ IsPart(o, bs[k]) /\ IsFragment(bs[k])
                        /\ Offset(bs[k]) = start(k) /\ End(bs[k]) = stop(k)
                        /\ bs[k].primary.total = len
                        /\ start(k) \in Nat /\ stop(k) \in Nat /\ Len(Data(bs[k])) \in Nat
  BY <1>2, <1>3
<1>5. ByOffset(bs) = bs
  <2>1. \A k \in DOMAIN bs : Offset(bs[k]) \in Nat
    BY <1>3, <1>4
  <2>2. \A j, k \in DOMAIN bs : j < k => Offset(bs[j]) < Offset(bs[k])
    BY <1>1, <1>3, <1>4
  <2>3. QED BY <1>3, <2>1, <2>2, AlreadyByOffset
<1>6. ASSUME NEW k \in 1 .. c
      PROVE  Offset(bs[k]) = (IF k = 1 THEN 0 ELSE End(bs[k - 1])) /\ Offset(bs[k]) \in Nat
  <2>1. CASE k = 1
    BY <1>1, <1>4, <2>1
  <2>2. CASE k # 1
    <3>1. PICK j : j = k - 1
      OBVIOUS
    <3>2. j \in 1 .. c - 1 /\ j \in 1 .. c /\ j + 1 = k
      BY <1>1, <2>2, <3>1
    <3>3. Offset(bs[k]) = start(k) /\ End(bs[j]) = stop(j) /\ stop(j) = start(j + 1)
          /\ start(k) \in Nat
      BY <1>1, <1>4, <3>2
    <3>4. QED BY <2>2, <3>1, <3>2, <3>3
  <2>3. QED BY <2>1, <2>2
<1>7. prepareReassembly(bs)
  <2>1. bs # <<>> /\ 1 \in 1 .. c /\ c \in 1 .. c
    BY <1>1, <1>3
  <2>2. bs[1].primary.total = End(Last(bs))
    BY <1>1, <1>3, <1>4, <2>1 DEF Last
  <2>3. \A k \in DOMAIN bs : Offset(bs[k]) <= (IF k = 1 THEN 0 ELSE End(bs[k - 1]))
    <3>1. \A x \in Nat : x <= x
      OBVIOUS
    <3>2. QED BY <1>3, <1>6, <3>1
  <2>4. QED BY <1>3, <1>4, <2>1, <2>2, <2>3 DEF prepareReassembly
<1>8. ~MergePanics(bs)
  <2>1. ASSUME NEW k \in DOMAIN bs PROVE ~(Overlap(bs, k) > Len(Data(bs[k])))
    <3>1. Overlap(bs, k) = 0
      <4>1. Overlap(bs, k) = (IF k = 1 THEN 0 ELSE End(bs[k - 1])) - Offset(bs[k])
        BY DEF Overlap
      <4>2. \A x \in Nat : x - x = 0
        OBVIOUS
      <4>3. QED BY <1>3, <1>6, <4>1, <4>2
    <3>2. Len(Data(bs[k])) \in Nat
      BY <1>3, <1>4
    <3>3. QED BY <3>1, <3>2
  <2>2. QED BY <2>1 DEF MergePanics
<1>9. \A k \in DOMAIN bs : IsPart(o, bs[k])
  BY <1>3, <1>4
<1>10. LET r == ReassembleFragments(bs, FALSE) IN r.res = "ok" /\ SameBundle(r.bundle, o)
  BY <1>3, <1>5, <1>7, <1>8, <1>9, ReassembledIsWhole
<1>11. QED BY <1>10 DEF bs

\* The size after each block
IsSizing(b, g) ==
    /\ g[0] = 1 + PrimarySize(b.primary)
    /\ \A k \in 1 .. Len(b.blocks) : g[k] = g[k - 1] + BlockSize(b.blocks[k])
    /\ Size(b) = g[Len(b.blocks)]

LEMMA BlockSizeBound ==
    ASSUME NEW cb \in BlockRec
    PROVE  /\ BlockSize(cb) \in Nat /\ BlockSize(cb) <= 2 + Len(cb.data)
           /\ cb.type # "payload" => BlockSize(cb) <= 2
<1>1. Len(cb.data) \in Nat
  BY DEF BlockRec
<1>2. BlockSize(cb) \in Nat /\ BlockSize(cb) <= 2 + Len(cb.data)
  <2>1. PICK l \in Nat : l = Len(cb.data)
    BY <1>1
  <2>2. BlockSize(cb) = (IF Checksum THEN 2 ELSE 1) + l
    BY <2>1 DEF BlockSize
  <2>3. PICK c \in {1, 2} : BlockSize(cb) = c + l
    BY <2>2
  <2>4. QED BY <2>1, <2>3
<1>3. cb.type # "payload" => Len(cb.data) = 0
  <2>1. cb.type # "payload" => cb.data = <<>>
    BY DEF BlockRec
  <2>2. QED BY <2>1
<1>4. QED BY <1>1, <1>2, <1>3

LEMMA SizesInTurn ==
    ASSUME NEW b, WellFormed(b)
    PROVE  \E g : IsSizing(b, g)
<1> DEFINE n == Len(b.blocks)
           base == 1 + PrimarySize(b.primary)
           size(k) == BlockSize(b.blocks[k])
           step == [k \in 1 .. n |-> [x \in Nat |-> x + size(k)]]
           IsSized(g) == g = [k \in 0 .. n |-> IF k = 0 THEN base ELSE g[k - 1] + size(k)]
           sizes == CHOOSE g : IsSized(g)
<1>1. Size(b) = sizes[n]
  BY DEF Size
<1>2. n \in Nat /\ \A k \in 1 .. n : size(k) \in Nat
  <2>1. b.blocks \in Seq(BlockRec)
    BY DEF WellFormed
  <2>2. n \in Nat /\ \A k \in 1 .. n : b.blocks[k] \in BlockRec
    BY <2>1
  <2>3. QED BY <2>2, BlockSizeBound
<1>3. base \in Nat
  BY DEF PrimarySize
<1>4. n = Len(b.blocks) /\ \A k : size(k) = BlockSize(b.blocks[k])
  OBVIOUS
<1> HIDE DEF n, base, size
<1>5. step \in [1 .. n -> [Nat -> Nat]]
  BY <1>2
<1>6. PICK h \in [0 .. n -> Nat] : h[0] = base /\ \A k \in 1 .. n : h[k] = step[k][h[k - 1]]
  <2> HIDE DEF step
  <2>1. \E h : IsRun(Nat, base, n, step, h)
    BY <1>2, <1>3, <1>5, LoopRuns
  <2>2. QED BY <2>1 DEF IsRun
<1>7. IsSized(h)
  <2>1. \A k \in 1 .. n : k - 1 \in 0 .. n
    BY <1>2
  <2>2. \A k \in 1 .. n : h[k] = h[k - 1] + size(k)
    BY <1>6, <2>1
  <2>3. \A k \in 0 .. n : k = 0 \/ k \in 1 .. n
    BY <1>2
  <2>4. QED BY <1>6, <2>2, <2>3
<1>8. IsSized(sizes)
  <2> HIDE DEF IsSized
  <2> QED BY <1>7
<1> HIDE DEF sizes
<1>9. sizes[0] = base /\ \A k \in 1 .. n : sizes[k] = sizes[k - 1] + size(k)
  <2>1. \A k \in 1 .. n : k \in 0 .. n /\ k # 0
    BY <1>2
  <2>2. 0 \in 0 .. n
    BY <1>2
  <2>3. QED BY <1>8, <2>1, <2>2
<1>10. QED BY <1>1, <1>4, <1>9 DEF base, IsSizing

\* No block but the payload has data: two units each are enough.
LEMMA SizeBound ==
    ASSUME NEW b, WellFormed(b), CheckValid(b, FALSE)
    PROVE  /\ Size(b) \in Nat
           /\ Size(b) <= 1 + PrimarySize(b.primary) + 2 * Len(b.blocks) + Len(Data(b))
<1> DEFINE s == b.blocks
           n == Len(s)
           base == 1 + PrimarySize(b.primary)
<1>1. PICK g : IsSizing(b, g)
  BY SizesInTurn
<1>2. /\ s \in Seq(BlockRec) /\ n \in Nat /\ n > 0 /\ DOMAIN s = 1 .. n
      /\ \A i \in 1 .. n - 1 : s[i].type # "payload"
      /\ Data(b) = s[n].data /\ Data(b) \in Seq(Nat)
  BY PayloadIsLast
<1>3. base \in Nat
  BY DEF PrimarySize
<1>4. /\ g[0] = base /\ Size(b) = g[n]
      /\ \A k \in 1 .. n : g[k] = g[k - 1] + BlockSize(s[k])
  BY <1>1 DEF IsSizing
<1> HIDE DEF n, s, base
<1>5. \A k \in 1 .. n : s[k] \in BlockRec
  BY <1>2
<1> DEFINE bad == {k \in 0 .. n - 1 : ~(g[k] \in Nat /\ g[k] <= base + 2 * k)}
<1>6. ASSUME bad # {} PROVE FALSE
  <2> DEFINE m == Min(bad)
  <2>1. m \in bad /\ \A x \in bad : m <= x
    <3>1. bad \subseteq Nat
      BY <1>2
    <3> HIDE DEF bad
    <3>2. QED BY <1>6, <3>1, MinExists
  <2> HIDE DEF m
  <2>2. m \in 0 .. n - 1 /\ ~(g[m] \in Nat /\ g[m] <= base + 2 * m)
        /\ \A k \in 0 .. n - 1 : k < m => g[k] \in Nat /\ g[k] <= base + 2 * k
    BY <1>2, <2>1
  <2> HIDE DEF bad
  <2>3. m # 0
    BY <1>3, <1>4, <2>2
  <2>4. PICK j : j = m - 1
    OBVIOUS
  <2>5. j \in 0 .. n - 1 /\ j < m /\ m \in 1 .. n - 1 /\ m \in 1 .. n /\ m = j + 1 /\ j \in Nat
    BY <1>2, <2>2, <2>3, <2>4
  <2>6. g[j] \in Nat /\ g[j] <= base + 2 * j
    BY <2>2, <2>5
  <2>7. g[m] = g[j] + BlockSize(s[m])
    BY <1>4, <2>4, <2>5
  <2>8. BlockSize(s[m]) \in Nat /\ BlockSize(s[m]) <= 2
    BY <1>2, <1>5, <2>5, BlockSizeBound
  <2>9. g[m] \in Nat /\ g[m] <= base + 2 * m
    BY <1>3, <2>5, <2>6, <2>7, <2>8
  <2>10. QED BY <2>2, <2>9
<1>7. PICK j : j = n - 1
  OBVIOUS
<1>8. j \in 0 .. n - 1 /\ n \in 1 .. n /\ n = j + 1 /\ j \in Nat
  BY <1>2, <1>7
<1>9. g[j] \in Nat /\ g[j] <= base + 2 * j
  BY <1>6, <1>8
<1>10. g[n] = g[j] + BlockSize(s[n])
  BY <1>4, <1>7, <1>8
<1>11. BlockSize(s[n]) \in Nat /\ BlockSize(s[n]) <= 2 + Len(s[n].data)
  BY <1>5, <1>8, BlockSizeBound
<1>12. PICK l \in Nat : l = Len(s[n].data)
  BY <1>2
<1>13. g[n] \in Nat /\ g[n] <= base + 2 * n + l
  <2>1. PICK x \in Nat, y \in Nat : x = g[j] /\ y = BlockSize(s[n])
    BY <1>9, <1>11
  <2>2. x <= base + 2 * j /\ y <= 2 + l /\ g[n] = x + y
    BY <1>9, <1>10, <1>11, <1>12, <2>1
  <2>3. x + y \in Nat /\ x + y <= base + 2 * (j + 1) + l
    <3>1. j \in Nat /\ base \in Nat /\ l \in Nat /\ x \in Nat /\ y \in Nat
      BY <1>3, <1>8
    <3>2. x <= base + 2 * j /\ y <= 2 + l
      BY <2>2
    <3>3. QED BY ONLY <3>1, <3>2
  <2>4. QED BY <1>8, <2>2, <2>3
<1>14. QED BY <1>2, <1>4, <1>12, <1>13 DEF base, n, s

\* As many blocks as there are places
LEMMA AddsAsMany ==
    ASSUME NEW s \in Seq(BlockRec), NEW places \in SUBSET DOMAIN s
    PROVE  Len(AddExtensionBlocks(s, places)) = Cardinality(places)
<1> DEFINE n == Len(s)
           upto(k) == {i \in places : i <= k}
<1>1. n \in Nat /\ DOMAIN s = 1 .. n
  OBVIOUS
<1>2. PICK g : IsAdding(s, places, g)
  BY AddsInTurn
<1>3. /\ g \in [0 .. n -> Seq(BlockRec)] /\ g[0] = <<>>
      /\ \A k \in 1 .. n : g[k] = IF k \in places THEN AddExtensionBlock(g[k - 1], s[k]) ELSE g[k - 1]
      /\ AddExtensionBlocks(s, places) = g[n]
  BY <1>2 DEF IsAdding
<1> HIDE DEF n
<1>4. \A k \in 1 .. n : s[k] \in BlockRec
  BY <1>1
<1>5. IsFiniteSet(places)
  <2>1. IsFiniteSet(1 .. n)
    BY <1>1, FS_Interval
  <2>2. QED BY <1>1, <2>1, FS_Subset
<1> DEFINE bad == {k \in 0 .. n : Len(g[k]) # Cardinality(upto(k))}
<1>6. ASSUME bad # {} PROVE FALSE
  <2> DEFINE m == Min(bad)
  <2>1. m \in bad /\ \A x \in bad : m <= x
    <3>1. bad \subseteq Nat
      BY <1>1
    <3> HIDE DEF bad
    <3>2. QED BY <1>6, <3>1, MinExists
  <2> HIDE DEF m
  <2>2. m \in 0 .. n /\ Len(g[m]) # Cardinality(upto(m))
        /\ \A k \in 0 .. n : k < m => Len(g[k]) = Cardinality(upto(k))
    BY <1>1, <2>1
  <2> HIDE DEF bad
  <2>3. m # 0
    <3>1. upto(0) = {}
      BY <1>1
    <3>2. Cardinality({}) = 0
      BY FS_EmptySet
    <3>3. Len(g[0]) = 0
      BY <1>3
    <3> HIDE DEF upto
    <3>4. QED BY <2>2, <3>1, <3>2, <3>3
  <2>4. PICK j : j = m - 1
    OBVIOUS
  <2>5. j \in 0 .. n /\ j < m /\ m \in 1 .. n /\ m = j + 1 /\ j \in Nat
    BY <1>1, <2>2, <2>3, <2>4
  <2>6. Len(g[j]) = Cardinality(upto(j)) /\ g[j] \in Seq(BlockRec)
    BY <1>3, <2>2, <2>5
  <2>7. g[m] = IF m \in places THEN AddExtensionBlock(g[j], s[m]) ELSE g[j]
    BY <1>3, <2>4, <2>5
  <2>8. IsFiniteSet(upto(j)) /\ Cardinality(upto(j)) \in Nat
    BY <1>5, FS_Subset, FS_CardinalityType
  <2>9. CASE m \in places
    <3>1. upto(m) = upto(j) \cup {m} /\ m \notin upto(j)
      BY <1>1, <2>5, <2>9
    <3> HIDE DEF upto
    <3>2. Cardinality(upto(j) \cup {m}) = Cardinality(upto(j)) + 1
      BY <2>8, <3>1, FS_AddElement
    <3>3. Len(AddExtensionBlock(g[j], s[m])) = Len(g[j]) + 1
      BY <1>4, <2>5, <2>6, AddIsTyped
    <3>4. QED BY <2>2, <2>6, <2>7, <2>9, <3>1, <3>2, <3>3
  <2>10. CASE m \notin places
    <3>1. upto(m) = upto(j)
      BY <1>1, <2>5, <2>10
    <3>2. QED BY <2>2, <2>6, <2>7, <2>10, <3>1
  <2>11. QED BY <2>9, <2>10
<1>7. upto(n) = places
  BY <1>1
<1>8. Len(g[n]) = Cardinality(upto(n))
  <2>1. n \in 0 .. n
    BY <1>1
  <2> HIDE DEF upto
  <2>2. QED BY <1>6, <2>1
<1>9. QED BY <1>3, <1>7, <1>8

LEMMA BelowCount ==
    ASSUME NEW n \in Nat, n > 0
    PROVE  IsFiniteSet(1 .. n - 1) /\ Cardinality(1 .. n - 1) = n - 1
<1>1. n - 1 \in Int /\ (1 > n - 1 => n - 1 = 0) /\ (n - 1) - 1 + 1 = n - 1
  OBVIOUS
<1>2. QED BY <1>1, FS_Interval

LEMMA FragmentSize ==
    ASSUME NEW o, WellFormed(o), CheckValid(o, FALSE), NEW i \in Nat, NEW hi \in Nat,
           i < hi, hi <= Len(Data(o)), NEW k, (i = 0) <=> (k = 1),
           NEW x, x = FragmentOf(o, i, hi), CheckValid(x, FALSE)
    PROVE  Size(x) \in Nat /\ Size(x) <= Overhead(o, k) + (hi - i)
<1> DEFINE s == o.blocks
           n == Len(s)
           D == Data(o)
           taken == {l \in DOMAIN s : s[l].type # "payload" /\ (i = 0 \/ "replicate" \in s[l].flags)}
           rep == {l \in DOMAIN s : "replicate" \in s[l].flags}
           pl == [PayloadBlock(o) EXCEPT !.data = SubSeq(D, i + 1, hi)]
           rest == AddExtensionBlocks(s, taken)
<1>1. /\ s \in Seq(BlockRec) /\ n \in Nat /\ n > 0 /\ DOMAIN s = 1 .. n
      /\ s[n].type = "payload" /\ \A j \in 1 .. n - 1 : s[j].type # "payload"
      /\ PayloadBlock(o) \in BlockRec /\ D \in Seq(Nat)
      /\ ExtensionBlocks(o, "payload") = {n} /\ PayloadBlock(o) = s[n]
  BY PayloadIsLast
<1>2. x.blocks = AddExtensionBlock(rest, pl)
  BY DEF FragmentOf
<1>3. WellFormed(x) /\ IsFragment(x) /\ Data(x) = SubSeq(D, i + 1, hi)
  BY FragmentFacts
<1>4. Size(x) \in Nat
      /\ Size(x) <= 1 + PrimarySize(x.primary) + 2 * Len(x.blocks) + Len(Data(x))
  BY <1>3, SizeBound
<1>5. PrimarySize(x.primary) = 3
  BY <1>3 DEF IsFragment, PrimarySize
<1> HIDE DEF D
<1>6. SubSeq(D, i + 1, hi) \in Seq(Nat) /\ Len(SubSeq(D, i + 1, hi)) = hi - i
  <2>1. Len(D) \in Nat /\ \A l \in 1 .. Len(D) : D[l] \in Nat
    BY <1>1
  <2>2. \A l \in i + 1 .. hi : D[l] \in Nat
    BY <2>1 DEF D
  <2>3. /\ SubSeq(D, i + 1, hi) \in Seq(Nat)
        /\ Len(SubSeq(D, i + 1, hi)) = IF i + 1 <= hi THEN hi - (i + 1) + 1 ELSE 0
    BY <2>2, SubSeqProperties
  <2>4. QED BY <2>3
<1>7. pl \in BlockRec
  BY <1>1, <1>6, DataSet
<1>8. taken \in SUBSET DOMAIN s /\ rep \in SUBSET DOMAIN s
  OBVIOUS
<1>9. IsFiniteSet(DOMAIN s) /\ Cardinality(DOMAIN s) = n /\ Overhead(o, 1) = 4 + 2 * n
  BY OverheadIsNat
<1>10. Len(rest) = Cardinality(taken)
  <2> HIDE DEF taken
  <2> QED BY <1>1, <1>8, AddsAsMany
<1>11. rest \in Seq(BlockRec)
  <2>1. PICK g : IsAdding(s, taken, g)
    BY <1>1, AddsInTurn
  <2>2. n \in 0 .. n
    BY <1>1
  <2> HIDE DEF taken
  <2>3. QED BY <2>1, <2>2 DEF IsAdding
<1> HIDE DEF rest, pl
<1>12. Len(x.blocks) = Cardinality(taken) + 1
  BY <1>2, <1>7, <1>10, <1>11, AddIsTyped
<1>13. Cardinality(taken) \in Nat /\ 4 + 2 * (Cardinality(taken) + 1) <= Overhead(o, k)
  <2>1. CASE i = 0
    <3>1. taken \subseteq 1 .. n - 1
      <4>1. \A l \in 1 .. n : l = n \/ l \in 1 .. n - 1
        BY <1>1
      <4>2. QED BY <1>1, <4>1
    <3>2. IsFiniteSet(1 .. n - 1) /\ Cardinality(1 .. n - 1) = n - 1
      BY <1>1, BelowCount
    <3> HIDE DEF taken
    <3>3. Cardinality(taken) <= n - 1 /\ Cardinality(taken) \in Nat
      BY <3>1, <3>2, FS_Subset, FS_CardinalityType
    <3>4. Overhead(o, k) = 4 + 2 * n
      BY <1>9, <2>1
    <3> HIDE DEF n
    <3>5. QED BY <1>1, <3>3, <3>4
  <2>2. CASE i # 0
    <3>1. taken \subseteq rep
      BY <2>2
    <3>2. IsFiniteSet(rep) /\ Cardinality(rep) \in Nat
      <4> HIDE DEF rep
      <4> QED BY <1>8, <1>9, FS_Subset, FS_CardinalityType
    <3>3. Cardinality({n}) = 1
      BY FS_Singleton
    <3>4. Overhead(o, k) = 1 + 3 + (2 * Cardinality(rep) + 2 * Cardinality({n}))
      BY <1>1, <2>2 DEF Overhead, fragmentExtensionBlocksLen
    <3> HIDE DEF taken, rep, n
    <3>5. Cardinality(taken) <= Cardinality(rep) /\ Cardinality(taken) \in Nat
      BY <3>1, <3>2, FS_Subset, FS_CardinalityType
    <3>6. QED BY <3>2, <3>3, <3>4, <3>5
  <2>3. QED BY <2>1, <2>2
<1>14. PICK c \in Nat : c = Cardinality(taken)
  BY <1>13
<1>15. Size(x) <= 1 + 3 + 2 * (c + 1) + (hi - i)
  BY <1>3, <1>4, <1>5, <1>6, <1>12, <1>14
<1>16. Overhead(o, k) \in Nat
  <2>1. k # 1 => Overhead(o, k) = Overhead(o, 2)
    BY OverheadIsNat
  <2>2. Overhead(o, 1) \in Nat /\ Overhead(o, 2) \in Nat
    BY OverheadIsNat
  <2>3. QED BY <2>1, <2>2
<1>17. QED BY <1>4, <1>13, <1>14, <1>15, <1>16

(***************************************************************************)
(* Every fragment fits the MTU it was made for.                            *)
(***************************************************************************)
LEMMA FragmentsFit ==
    ASSUME NEW o, WellFormed(o), CheckValid(o, FALSE), ~IsFragment(o), NEW mtu \in Nat,
           NEW k \in DOMAIN Fragment(o, mtu).bs
    PROVE  Size(Fragment(o, mtu).bs[k]) <= mtu
<1> DEFINE bs == Fragment(o, mtu).bs
           short == <<o>>
<1>1. CASE bs = <<>>
  BY <1>1
<1>2. CASE bs = short /\ Len(Data(o)) + Overhead(o, 1) <= mtu
  <2>1. bs[k] = o
    <3>1. k \in DOMAIN short /\ bs[k] = short[k]
      BY <1>2
    <3>2. DOMAIN short = {1} /\ short[1] = o
      OBVIOUS
    <3> HIDE DEF short
    <3>3. QED BY <3>1, <3>2
  <2>2. Size(o) \in Nat
        /\ Size(o) <= 1 + PrimarySize(o.primary) + 2 * Len(o.blocks) + Len(Data(o))
    BY SizeBound
  <2>3. PrimarySize(o.primary) = 2
    BY DEF IsFragment, PrimarySize
  <2>4. Overhead(o, 1) = 4 + 2 * Len(o.blocks)
    BY OverheadIsNat
  <2>5. Len(o.blocks) \in Nat /\ Len(Data(o)) \in Nat
    BY PayloadIsLast
  <2>6. Size(o) <= mtu
    BY <1>2, <2>2, <2>3, <2>4, <2>5
  <2>7. QED BY <2>1, <2>6
<1>3. CASE Splits(o, mtu)
  <2> DEFINE c == Count(o, mtu)
  <2>1. PICK x, i, hi : x = bs[k] /\ i = Start(o, mtu, k) /\ hi = Stop(o, mtu, k)
    OBVIOUS
  <2>2. bs = [l \in 1 .. c |-> Part(o, mtu, l)] /\ c \in Nat /\ c > 1
    BY <1>3 DEF Splits
  <2>3. k \in 1 .. c /\ x = Part(o, mtu, k)
    <3> HIDE DEF bs, c
    <3>1. k \in DOMAIN bs
      BY DEF bs
    <3>2. QED BY <2>1, <2>2, <3>1
  <2>4. /\ CheckValid(x, FALSE) /\ i \in Nat /\ hi \in Nat /\ i < hi /\ hi <= Len(Data(o))
        /\ hi - i <= mtu - Overhead(o, k)
    BY <1>3, <2>1, <2>3 DEF Splits
  <2>5. x = FragmentOf(o, i, hi)
    BY <2>1, <2>3 DEF Part
  <2>6. (i = 0) <=> (k = 1)
    <3>1. Start(o, mtu, 1) = 0 /\ \A j, l \in 1 .. c : j < l => Start(o, mtu, j) < Start(o, mtu, l)
      BY <1>3 DEF Splits
    <3>2. k # 1 => 1 \in 1 .. c /\ 1 < k
      BY <2>2, <2>3
    <3>3. k # 1 => 0 < i
      BY <2>1, <2>3, <3>1, <3>2
    <3>4. QED BY <2>1, <2>4, <3>1, <3>3
  <2>7. Size(x) \in Nat /\ Size(x) <= Overhead(o, k) + (hi - i)
    BY <2>4, <2>5, <2>6, FragmentSize
  <2>8. Overhead(o, k) \in Nat
    <3>1. k # 1 => Overhead(o, k) = Overhead(o, 2)
      BY OverheadIsNat
    <3>2. Overhead(o, 1) \in Nat /\ Overhead(o, 2) \in Nat
      BY OverheadIsNat
    <3>3. QED BY <3>1, <3>2
  <2>9. Size(x) <= mtu
    BY <2>4, <2>7, <2>8
  <2>10. QED BY <2>1, <2>9
<1>4. QED BY <1>1, <1>2, <1>3, FragmentResults

(***************************************************************************)
(* Fragment keeps its word for every bundle that can be built or is sent,  *)
(* and every MTU: the fragments fit the MTU, though the lengths of their   *)
(* blocks are only estimated, and together they give the bundle back.      *)
(***************************************************************************)
THEOREM FragmentsFaithful == Spec => []FragmentsAreFaithful
<1>1. Init => BInv
  BY InitValid
<1>2. BInv /\ [Next]_vars => BInv'
  BY StepValid
<1>3. ASSUME IInv, BInv PROVE FragmentsAreFaithful
  <2> SUFFICES ASSUME origin # None, NEW mtu \in setup.mtus
               PROVE  LET f == Fragment(origin, mtu)
                      IN  /\ \A k \in DOMAIN f.bs : Size(f.bs[k]) <= mtu
                          /\ Len(f.bs) > 1 =>
                                LET r == ReassembleFragments(f.bs, FALSE)
                                IN  r.res = "ok" /\ SameBundle(r.bundle, origin)
    BY DEF FragmentsAreFaithful
  <2>1. WellFormed(origin) /\ CheckValid(origin, FALSE) /\ ~IsFragment(origin)
    BY <1>3 DEF BInv
  <2>2. mtu \in Nat
    BY <1>3, StorageAssumption DEF IInv, SetupInv
  <2>3. PICK o : o = origin
    OBVIOUS
  <2>4. \A k \in DOMAIN Fragment(o, mtu).bs : Size(Fragment(o, mtu).bs[k]) <= mtu
    BY <2>1, <2>2, <2>3, FragmentsFit
  <2>5. ASSUME Len(Fragment(o, mtu).bs) > 1
        PROVE  LET r == ReassembleFragments(Fragment(o, mtu).bs, FALSE)
               IN  r.res = "ok" /\ SameBundle(r.bundle, o)
    <3>1. Fragment(o, mtu).bs # <<>> /\ Fragment(o, mtu).bs # <<o>>
      <4>1. ASSUME Fragment(o, mtu).bs = <<>> PROVE FALSE
        <5>1. Len(Fragment(o, mtu).bs) = 0
          BY <4>1
        <5>2. QED BY <2>5, <5>1
      <4>2. ASSUME Fragment(o, mtu).bs = <<o>> PROVE FALSE
        <5>1. Len(Fragment(o, mtu).bs) = 1
          BY <4>2
        <5>2. QED BY <2>5, <5>1
      <4>3. QED BY <4>1, <4>2
    <3>2. Splits(o, mtu)
      BY <2>1, <2>2, <2>3, <3>1, FragmentResults
    <3>3. QED BY <2>1, <2>2, <2>3, <3>2, SplitsReassemble
  <2>6. QED BY <2>3, <2>4, <2>5
<1> QED
  BY <1>1, <1>2, <1>3, Inductive, PTL DEF Spec

-----------------------------------------------------------------------------
\* IsComplete

\* No range starts behind the end of the one before, and the last ends at len.
NoGap(n, len, start, stop, p) ==
    /\ \A k \in 1 .. n : start[p[k]] <= (IF k = 1 THEN 0 ELSE stop[p[k - 1]])
    /\ len = stop[p[n]]
EachOne(c, n, p) == \A j \in 1 .. c : \E k \in 1 .. n : p[k] = j

(***************************************************************************)
(* The ranges from start[j] to stop[j] follow one another.  Of some of     *)
(* them, in their order, none is missing exactly if no gap is between two  *)
(* and they go from the first to the last.                                 *)
(***************************************************************************)
LEMMA NoGapIffAll ==
    ASSUME NEW c \in Nat, NEW n \in Nat, c > 0, n > 0, NEW len \in Nat,
           NEW start \in [1 .. c -> Nat], NEW stop \in [1 .. c -> Nat],
           NEW p \in [1 .. n -> 1 .. c],
           start[1] = 0, stop[c] = len,
           \A j \in 1 .. c : start[j] < stop[j] /\ stop[j] <= len,
           \A j \in 1 .. c : j < c => stop[j] = start[j + 1],
           \A j, k \in 1 .. c : j < k => start[j] < start[k],
           \A k, l \in 1 .. n : k < l => start[p[k]] <= start[p[l]]
    PROVE  NoGap(n, len, start, stop, p) <=> EachOne(c, n, p)
<1> DEFINE Joined == \A k \in 1 .. n : start[p[k]] <= (IF k = 1 THEN 0 ELSE stop[p[k - 1]])
           All == \A j \in 1 .. c : \E k \in 1 .. n : p[k] = j
<1>1. /\ \A k \in 1 .. n : p[k] \in 1 .. c
      /\ \A j \in 1 .. c : start[j] \in Nat /\ stop[j] \in Nat
      /\ 1 \in 1 .. n /\ n \in 1 .. n /\ 1 \in 1 .. c /\ c \in 1 .. c
  OBVIOUS
<1>2. \A i, j \in 1 .. c : start[i] <= start[j] => i <= j
  BY <1>1
<1>3. ASSUME NEW i \in 1 .. c, NEW j \in 1 .. c, i < j PROVE stop[i] <= start[j]
  <2>1. PICK m : m = i + 1
    OBVIOUS
  <2>2. m \in 1 .. c /\ m <= j /\ stop[i] = start[m]
    BY <2>1, <1>3
  <2>3. m = j \/ m < j
    BY <2>1, <2>2
  <2>4. m < j => start[m] < start[j]
    BY <2>2
  <2>5. PICK x, y : x = start[m] /\ y = start[j]
    OBVIOUS
  <2>6. x \in Nat /\ y \in Nat /\ (m = j => x = y) /\ (m < j => x < y)
    BY <1>1, <2>2, <2>4, <2>5
  <2>7. x <= y
    BY <2>3, <2>6
  <2>8. QED BY <2>2, <2>5, <2>7
<1>4. ASSUME Joined, len = stop[p[n]], NEW j \in 1 .. c, \A k \in 1 .. n : p[k] # j
      PROVE  FALSE
  <2>1. p[n] = c
    <3>1. ASSUME p[n] < c PROVE FALSE
      <4>1. stop[p[n]] <= start[c] /\ start[c] < stop[c]
        BY <1>1, <1>3, <3>1
      <4>2. QED BY <1>1, <1>4, <4>1
    <3>2. QED BY <1>1, <3>1
  <2> DEFINE Later == {k \in 1 .. n : p[k] > j}
  <2>2. Later \subseteq Nat /\ Later # {}
    <3>1. p[n] # j /\ p[n] \in 1 .. c
      BY <1>1, <1>4
    <3>2. p[n] > j
      BY <2>1, <3>1
    <3>3. n \in Later
      BY <1>1, <3>2
    <3>4. Later \subseteq Nat
      OBVIOUS
    <3> HIDE DEF Later
    <3>5. QED BY <3>3, <3>4
  <2>3. PICK k : k \in Later /\ \A l \in Later : k <= l
    BY <2>2, MinExists
  <2>4. k \in 1 .. n /\ p[k] > j /\ p[k] \in 1 .. c
    BY <1>1, <2>3
  <2>5. ASSUME k = 1 PROVE FALSE
    <3>1. start[p[1]] <= 0
      BY <1>1, <1>4
    <3>2. 1 < p[1]
      BY <2>4, <2>5
    <3>3. start[1] < start[p[1]]
      BY <1>1, <3>2
    <3>4. QED BY <1>1, <3>1, <3>3
  <2>6. ASSUME k # 1 PROVE FALSE
    <3>1. PICK l : l = k - 1
      OBVIOUS
    <3>2. l \in 1 .. n /\ ~(k <= l)
      BY <2>4, <2>6, <3>1
    <3>3. p[l] \in 1 .. c /\ ~(p[l] > j) /\ p[l] # j
      BY <1>1, <1>4, <2>3, <3>2
    <3>4. p[l] < j
      BY <3>3
    <3>5. stop[p[l]] <= start[j] /\ start[j] < start[p[k]]
      BY <1>3, <2>4, <3>3, <3>4
    <3>6. start[p[k]] <= stop[p[l]]
      BY <1>4, <2>4, <2>6, <3>1
    <3>7. PICK x, y, z : x = start[p[k]] /\ y = stop[p[l]] /\ z = start[j]
      OBVIOUS
    <3>8. x \in Nat /\ y \in Nat /\ z \in Nat
      BY <1>1, <2>4, <3>3, <3>7
    <3>9. y <= z /\ z < x /\ x <= y
      BY <3>5, <3>6, <3>7
    <3>10. QED BY <3>8, <3>9
  <2>7. QED BY <2>5, <2>6
<1>5. ASSUME All PROVE Joined
  <2> SUFFICES ASSUME NEW k \in 1 .. n
               PROVE  start[p[k]] <= (IF k = 1 THEN 0 ELSE stop[p[k - 1]])
    OBVIOUS
  <2>1. CASE k = 1
    <3>1. PICK l \in 1 .. n : p[l] = 1
      BY <1>1, <1>5
    <3>2. l = 1 \/ 1 < l
      OBVIOUS
    <3>3. start[p[1]] <= start[p[l]]
      BY <1>1, <3>2
    <3>4. QED BY <2>1, <3>1, <3>3
  <2>2. CASE k # 1
    <3>1. PICK l : l = k - 1
      OBVIOUS
    <3>2. l \in 1 .. n /\ l < k /\ \A m \in 1 .. n : m <= l \/ k <= m
      BY <2>2, <3>1
    <3>3. PICK i, j : i = p[l] /\ j = p[k]
      OBVIOUS
    <3>4. i \in 1 .. c /\ j \in 1 .. c
      BY <1>1, <3>2, <3>3
    <3>5. CASE j <= i
      <4>1. start[j] <= start[i]
        <5>1. j = i \/ j < i
          BY <3>4, <3>5
        <5>2. j < i => start[j] < start[i]
          BY <3>4
        <5>3. start[i] \in Nat /\ start[j] \in Nat
          BY <1>1, <3>4
        <5>4. QED BY <5>1, <5>2, <5>3
      <4>2. start[i] < stop[i]
        BY <3>4
      <4>3. start[j] <= stop[i]
        BY <1>1, <3>4, <4>1, <4>2
      <4>4. QED BY <2>2, <3>1, <3>3, <4>3
    <3>6. CASE i < j
      <4>1. PICK m : m = i + 1
        OBVIOUS
      <4>2. m \in 1 .. c /\ i < m /\ m <= j /\ stop[i] = start[m]
        BY <3>4, <3>6, <4>1
      <4>3. PICK q \in 1 .. n : p[q] = m
        BY <1>5, <4>2
      <4>4. CASE q <= l
        <5>1. q = l \/ q < l
          BY <3>2, <4>4
        <5>2. start[p[q]] <= start[p[l]]
          BY <1>1, <3>2, <5>1
        <5>3. start[m] <= start[i]
          BY <3>3, <4>3, <5>2
        <5>4. QED BY <1>2, <3>4, <4>2, <5>3
      <4>5. CASE k <= q
        <5>1. q = k \/ k < q
          BY <4>5
        <5>2. start[p[k]] <= start[p[q]]
          BY <1>1, <5>1
        <5>3. start[j] <= stop[i]
          BY <3>3, <4>2, <4>3, <5>2
        <5>4. QED BY <2>2, <3>1, <3>3, <5>3
      <4>6. QED BY <3>2, <4>4, <4>5
    <3>7. QED BY <3>4, <3>5, <3>6
  <2>3. QED BY <2>1, <2>2
<1>6. ASSUME All PROVE len = stop[p[n]]
  <2>1. PICK l \in 1 .. n : p[l] = c
    BY <1>1, <1>6
  <2>2. l = n \/ l < n
    OBVIOUS
  <2>3. start[c] <= start[p[n]]
    BY <1>1, <2>1, <2>2
  <2>4. c <= p[n]
    BY <1>1, <1>2, <2>3
  <2>5. p[n] = c
    BY <1>1, <2>4
  <2>6. QED BY <2>5
<1>7. QED BY <1>4, <1>5, <1>6 DEF NoGap, EachOne

PartsOf(o, mtu) == {Part(o, mtu, j) : j \in 1 .. Count(o, mtu)}

\* Fragments of one call of Fragment, in any order and repeatedly, can be
\* reassembled exactly if all of them are there.
LEMMA ReassemblableIffAll ==
    ASSUME NEW o, WellFormed(o), CheckValid(o, FALSE), NEW mtu \in Nat, Splits(o, mtu),
           NEW T, T = PartsOf(o, mtu),
           NEW bs \in Seq(T), bs # <<>>
    PROVE  IsBundleReassemblable(bs) <=> Range(bs) = T
<1> DEFINE c == Count(o, mtu)
           len == Len(Data(o))
           start == [j \in 1 .. c |-> Start(o, mtu, j)]
           stop == [j \in 1 .. c |-> Stop(o, mtu, j)]
           s == ByOffset(bs)
           n == Len(bs)
           p == [k \in 1 .. n |-> CHOOSE j \in 1 .. c : s[k] = Part(o, mtu, j)]
<1>1. /\ c \in Nat /\ c > 1 /\ Start(o, mtu, 1) = 0 /\ Stop(o, mtu, c) = len
      /\ \A k \in 1 .. c : Start(o, mtu, k) < Stop(o, mtu, k) /\ Stop(o, mtu, k) <= len
      /\ \A k \in 1 .. c - 1 : Stop(o, mtu, k) = Start(o, mtu, k + 1)
      /\ \A j, k \in 1 .. c : j < k => Start(o, mtu, j) < Start(o, mtu, k)
  BY DEF Splits
<1>2. \A k \in 1 .. c :
         /\ IsFragment(Part(o, mtu, k))
         /\ Offset(Part(o, mtu, k)) = Start(o, mtu, k) /\ End(Part(o, mtu, k)) = Stop(o, mtu, k)
         /\ Part(o, mtu, k).primary.total = len
         /\ Start(o, mtu, k) \in Nat /\ Stop(o, mtu, k) \in Nat
  <2> TAKE k \in 1 .. c
  <2>1. k \in 1 .. Count(o, mtu)
    OBVIOUS
  <2> QED BY <2>1, PlacedPart
<1>3. len \in Nat
  BY PayloadIsLast
<1> HIDE DEF c, len
<1>4. start \in [1 .. c -> Nat] /\ stop \in [1 .. c -> Nat]
      /\ \A j \in 1 .. c : start[j] = Start(o, mtu, j) /\ stop[j] = Stop(o, mtu, j)
  BY <1>2
<1> HIDE DEF start, stop
<1>5. n \in Nat /\ n > 0 /\ DOMAIN bs = 1 .. n /\ \A k \in 1 .. n : bs[k] \in T
  OBVIOUS
<1>6. \A x \in T : \E j \in 1 .. c : x = Part(o, mtu, j)
  BY DEF c, PartsOf
<1>7. \A k \in DOMAIN bs : Offset(bs[k]) \in Nat
  <2> SUFFICES ASSUME NEW k \in DOMAIN bs PROVE Offset(bs[k]) \in Nat
    OBVIOUS
  <2>1. bs[k] \in T
    OBVIOUS
  <2>2. PICK j \in 1 .. c : bs[k] = Part(o, mtu, j)
    BY <1>6, <2>1
  <2>3. Offset(Part(o, mtu, j)) = Start(o, mtu, j) /\ Start(o, mtu, j) \in Nat
    BY <1>2
  <2>4. QED BY <2>2, <2>3
<1>8. s \in Seq(T) /\ Len(s) = n
  BY <1>7, OffsetsSorted
<1>9. PICK f : InOrder(bs, f)
  BY <1>7, OffsetsSorted
<1>10. /\ \A k \in 1 .. n : f[k] \in 1 .. n /\ s[k] = bs[f[k]]
       /\ \A i \in 1 .. n : \E k \in 1 .. n : f[k] = i
       /\ \A k, l \in 1 .. n : k < l => Offset(s[k]) <= Offset(s[l])
  <2>1. /\ \A k \in 1 .. n : f[k] \in 1 .. n /\ s[k] = bs[f[k]]
        /\ \A i \in 1 .. n : \E k \in 1 .. n : f[k] = i
        /\ \A k, l \in 1 .. n : k < l =>
              Offset(bs[f[k]]) < Offset(bs[f[l]]) \/ Offset(bs[f[k]]) = Offset(bs[f[l]])
    <3> HIDE DEF n, s
    <3> QED BY <1>5, <1>9 DEF InOrder, s
  <2> HIDE DEF s, n
  <2>2. \A x, y \in Nat : x < y \/ x = y => x <= y
    OBVIOUS
  <2>3. ASSUME NEW k \in 1 .. n, NEW l \in 1 .. n, k < l PROVE Offset(s[k]) <= Offset(s[l])
    <3>1. PICK x, y : x = Offset(bs[f[k]]) /\ y = Offset(bs[f[l]])
      OBVIOUS
    <3>2. x \in Nat /\ y \in Nat
      BY <1>5, <1>7, <2>1, <3>1
    <3>3. x < y \/ x = y
      BY <2>1, <2>3, <3>1
    <3>4. x <= y
      BY <2>2, <3>2, <3>3
    <3>5. Offset(s[k]) = x /\ Offset(s[l]) = y
      BY <2>1, <3>1
    <3>6. QED BY <3>4, <3>5
  <2>4. QED BY <2>1, <2>3
<1> HIDE DEF s, n
<1>11. \A k \in 1 .. n : s[k] \in T
  BY <1>5, <1>10
<1>12. p \in [1 .. n -> 1 .. c] /\ \A k \in 1 .. n : p[k] \in 1 .. c /\ s[k] = Part(o, mtu, p[k])
  BY <1>6, <1>11
<1> HIDE DEF p
<1>13. \A k \in 1 .. n : /\ IsFragment(s[k]) /\ s[k].primary.total = len
                         /\ Offset(s[k]) = start[p[k]] /\ End(s[k]) = stop[p[k]]
  BY <1>2, <1>4, <1>12
<1>14. IsBundleReassemblable(bs) <=> NoGap(n, len, start, stop, p)
  <2>1. s # <<>> /\ DOMAIN s = 1 .. n /\ 1 \in 1 .. n /\ n \in 1 .. n /\ Last(s) = s[n]
    BY <1>5, <1>8 DEF Last
  <2>2. \A k \in 1 .. n : k # 1 => k - 1 \in 1 .. n
    BY <1>5
  <2>3. IsBundleReassemblable(bs) <=>
          /\ \A k \in 1 .. n : Offset(s[k]) <= (IF k = 1 THEN 0 ELSE End(s[k - 1]))
          /\ len = End(s[n])
    BY <1>13, <2>1 DEF IsBundleReassemblable, prepareReassembly, s
  <2>4. QED BY <1>13, <2>1, <2>2, <2>3 DEF NoGap
<1>15. Range(bs) = T <=> EachOne(c, n, p)
  <2>1. Range(bs) \subseteq T
    BY <1>5 DEF Range
  <2>2. ASSUME Range(bs) = T, NEW j \in 1 .. c PROVE \E k \in 1 .. n : p[k] = j
    <3>1. Part(o, mtu, j) \in T
      BY DEF c, PartsOf
    <3>2. PICK i \in 1 .. n : bs[i] = Part(o, mtu, j)
      BY <1>5, <2>2, <3>1 DEF Range
    <3>3. PICK k \in 1 .. n : f[k] = i
      BY <1>10
    <3>4. Part(o, mtu, p[k]) = Part(o, mtu, j) /\ p[k] \in 1 .. c
      BY <1>10, <1>12, <3>2, <3>3
    <3>5. Start(o, mtu, p[k]) = Start(o, mtu, j)
      BY <1>2, <3>4
    <3>6. p[k] = j
      <4>1. PICK i2 : i2 = p[k]
        OBVIOUS
      <4>2. i2 < j \/ i2 = j \/ j < i2
        BY <3>4, <4>1
      <4>3. QED BY <1>1, <1>2, <3>4, <3>5, <4>1, <4>2
    <3>7. QED BY <3>6
  <2>3. ASSUME \A j \in 1 .. c : \E k \in 1 .. n : p[k] = j, NEW x \in T
        PROVE  x \in Range(bs)
    <3>1. PICK j \in 1 .. c : x = Part(o, mtu, j)
      BY <1>6
    <3>2. PICK k \in 1 .. n : p[k] = j
      BY <2>3
    <3>3. x = bs[f[k]] /\ f[k] \in DOMAIN bs
      BY <1>5, <1>10, <1>12, <3>1, <3>2
    <3>4. QED BY <3>3 DEF Range
  <2>4. QED BY <2>1, <2>2, <2>3 DEF EachOne
<1>16. \A j \in 1 .. c : j < c => stop[j] = start[j + 1]
  <2> SUFFICES ASSUME NEW j \in 1 .. c, j < c PROVE stop[j] = start[j + 1]
    OBVIOUS
  <2>1. j \in 1 .. c - 1 /\ j + 1 \in 1 .. c
    BY <1>1
  <2>2. QED BY <1>1, <1>4, <2>1
<1>17. /\ start[1] = 0 /\ stop[c] = len
       /\ \A j \in 1 .. c : start[j] < stop[j] /\ stop[j] <= len
       /\ \A j, k \in 1 .. c : j < k => start[j] < start[k]
       /\ \A k, l \in 1 .. n : k < l => start[p[k]] <= start[p[l]]
  <2>1. 1 \in 1 .. c /\ c \in 1 .. c
    BY <1>1
  <2>2. QED BY <1>1, <1>4, <1>10, <1>13, <2>1
<1>18. c > 0
  BY <1>1
<1>19. NoGap(n, len, start, stop, p) <=> EachOne(c, n, p)
  <2>1. start \in [1 .. c -> Nat] /\ stop \in [1 .. c -> Nat]
    BY <1>4
  <2>2. c \in Nat /\ n \in Nat /\ n > 0 /\ p \in [1 .. n -> 1 .. c]
    BY <1>1, <1>5, <1>12
  <2>3. PICK a, b, q, m, d, e : a = start /\ b = stop /\ q = p /\ m = n /\ d = c /\ e = len
    OBVIOUS
  <2>4. /\ d \in Nat /\ m \in Nat /\ d > 0 /\ m > 0 /\ e \in Nat
        /\ a \in [1 .. d -> Nat] /\ b \in [1 .. d -> Nat] /\ q \in [1 .. m -> 1 .. d]
        /\ a[1] = 0 /\ b[d] = e
        /\ \A j \in 1 .. d : a[j] < b[j] /\ b[j] <= e
        /\ \A j \in 1 .. d : j < d => b[j] = a[j + 1]
        /\ \A j, k \in 1 .. d : j < k => a[j] < a[k]
        /\ \A k, l \in 1 .. m : k < l => a[q[k]] <= a[q[l]]
    BY <1>3, <1>16, <1>17, <1>18, <2>1, <2>2, <2>3
  <2>5. NoGap(m, e, a, b, q) <=> EachOne(d, m, q)
    BY <2>4, NoGapIffAll
  <2>6. QED BY <2>3, <2>5
<1>20. QED BY <1>14, <1>15, <1>19

\* With fragments, an item is not fragmented only where the whole bundle is
\* sent.
KindInv ==
    setup.mtus # {} /\ item # None /\ ~item.fragmented => \E b \in sent : ~IsFragment(b)

LEMMA StepKind == ASSUME IInv, KindInv, [Next]_vars PROVE KindInv'
<1>1. setup' = setup /\ sent' = sent
  BY DEF Next, vars, CallBuilder, Build, AddBlock, RemoveBlock, Push, Step, SyncKnows, SyncPush,
     storeBundle, PushCommit, SyncQuery, DeleteQuery, deleteBundle, DeleteCommit, Update,
     DeleteExpired, Expire, Crash, world, source, stored
<1>2. \/ item' = item
      \/ item' = None
      \/ setup.mtus = {}
      \/ \E b \in sent : item' # None /\ item'.fragmented = IsFragment(b)
      \/ item'.fragmented
  <2>1. CASE item' = item
    BY <2>1
  <2>2. CASE \E t \in Threads : PushCommit(t)
    <3>1. PICK t \in Threads : PushCommit(t)
      BY <2>2
    <3>2. thr[t].b \in sent /\ Name(thr[t].b) \in Nat \X Nat
      BY <3>1, PushCommitEffect
    <3>3. CASE item' = newBundleItem(thr[t].b)
      <4>1. item' \in ItemRec /\ item'.fragmented = IsFragment(thr[t].b)
        BY <3>2, <3>3, NewItem
      <4>2. item' # None
        BY <4>1, StorageAssumption
      <4>3. QED BY <3>2, <4>1, <4>2
    <3>4. CASE /\ item # None /\ item' = [item EXCEPT !.parts = Append(@, Name(thr[t].b))]
               /\ item.fragmented
      <4>1. item \in ItemRec
        BY <3>4 DEF IInv, TypeInv
      <4>2. item'.fragmented = item.fragmented
        BY <3>4, <4>1 DEF ItemRec
      <4>3. QED BY <3>4, <4>2
    <3>5. QED BY <3>1, <3>3, <3>4, PushCommitEffect
  <2>3. CASE \E t \in Threads, v \in BOOLEAN : Update(t, v)
    BY <2>3, UpdateEffect
  <2>4. CASE \E t \in Threads : DeleteCommit(t)
    BY <2>4 DEF DeleteCommit
  <2>5. QED
    BY <2>1, <2>2, <2>3, <2>4
       DEF Next, vars, CallBuilder, Build, AddBlock, RemoveBlock, Push, Step, SyncKnows, SyncPush,
           storeBundle, SyncQuery, DeleteQuery, deleteBundle, DeleteExpired, Expire, Crash, stored
<1>3. QED BY <1>1, <1>2 DEF KindInv

\* The parts of a fragmented item are fragments of the bundle.
LEMMA OneMtu ==
    ASSUME IInv, FileInv, KindInv, setup.bundle # None, item # None,
           Cardinality(setup.mtus) = 1
    PROVE  \/ ~item.fragmented /\ Range(item.parts) = {Name(b) : b \in sent}
           \/ /\ item.fragmented
              /\ \E mtu \in Nat : /\ Splits(origin, mtu) /\ setup.mtus = {mtu}
                                  /\ sent = PartsOf(origin, mtu)
<1>1. SetupInv /\ setup \in Setups
  BY DEF IInv, SetupInv
<1>2. PICK mtu : setup.mtus = {mtu}
  BY <1>1, StorageAssumption, FS_Singleton
<1>3. mtu \in Nat
  BY <1>1, <1>2, StorageAssumption
<1>4. WellFormed(origin) /\ CheckValid(origin, FALSE) /\ ~IsFragment(origin)
  BY <1>1, SentIsPart
<1>5. sent = Range(Fragment(origin, mtu).bs)
  <2>1. sent = UNION {Range(Fragment(origin, m).bs) : m \in setup.mtus}
    BY <1>1, <1>2 DEF SetupInv, Sent
  <2>2. QED BY <1>2, <2>1
<1>6. Range(item.parts) \subseteq {Name(b) : b \in sent} /\ Range(item.parts) # {}
  <2>1. Range(item.parts) \subseteq DOMAIN files
    BY <1>2 DEF FileInv
  <2>2. DOMAIN files = {Name(b) : b \in sent}
    BY DEF IInv, TypeInv
  <2>3. Parts # {}
    BY PartsNotEmpty
  <2>4. QED BY <2>1, <2>2, <2>3 DEF Parts
<1>7. PICK o : o = origin
  OBVIOUS
<1>8. \/ Fragment(o, mtu).bs = <<>> \/ Fragment(o, mtu).bs = <<o>> \/ Splits(o, mtu)
  BY <1>3, <1>4, <1>7, FragmentResults
<1>9. CASE Fragment(o, mtu).bs = <<>>
  <2>1. sent = {}
    BY <1>5, <1>7, <1>9 DEF Range
  <2>2. QED BY <1>6, <2>1
<1>10. CASE Fragment(o, mtu).bs = <<o>>
  <2>1. Range(<<o>>) = {o}
    BY DEF Range
  <2>2. sent = {o}
    BY <1>5, <1>7, <1>10, <2>1
  <2>3. Name(o) = Whole
    BY <1>4, <1>7 DEF Name
  <2>4. Range(item.parts) = {Whole} /\ {Name(b) : b \in sent} = {Whole}
    BY <1>6, <2>2, <2>3
  <2>5. ~item.fragmented
    BY <1>2, <2>4 DEF IInv, FragmentInv
  <2>6. QED BY <2>4, <2>5
<1>11. CASE Splits(o, mtu)
  <2> DEFINE c == Count(o, mtu)
  <2>1. Fragment(o, mtu).bs = [k \in 1 .. c |-> Part(o, mtu, k)]
    BY <1>11 DEF Splits
  <2>2. Range([k \in 1 .. c |-> Part(o, mtu, k)]) = {Part(o, mtu, k) : k \in 1 .. c}
    <3> HIDE DEF c
    <3> QED BY DEF Range
  <2>3. sent = {Part(o, mtu, k) : k \in 1 .. c}
    BY <1>5, <1>7, <2>1, <2>2
  <2>4. \A b \in sent : IsFragment(b)
    <3>1. \A k \in 1 .. Count(o, mtu) : IsFragment(Part(o, mtu, k))
      BY <1>3, <1>4, <1>7, <1>11, PlacedPart
    <3>2. QED BY <2>3, <3>1
  <2>5. item.fragmented
    BY <1>2, <2>4 DEF KindInv
  <2>6. QED BY <1>2, <1>3, <1>7, <1>11, <2>3, <2>5 DEF PartsOf
<1>12. QED BY <1>8, <1>9, <1>10, <1>11

LEMMA PartsNamed ==
    ASSUME NEW o, WellFormed(o), CheckValid(o, FALSE), NEW mtu \in Nat, Splits(o, mtu),
           NEW j \in 1 .. Count(o, mtu), NEW k \in 1 .. Count(o, mtu),
           Name(Part(o, mtu, j)) = Name(Part(o, mtu, k))
    PROVE  Part(o, mtu, j) = Part(o, mtu, k)
<1>1. PICK x, y : x = Part(o, mtu, j) /\ y = Part(o, mtu, k)
  OBVIOUS
<1>2. IsFragment(x) /\ IsFragment(y) /\ Offset(x) = Start(o, mtu, j) /\ Offset(y) = Start(o, mtu, k)
  BY <1>1, PlacedPart
<1>3. Start(o, mtu, j) \in Nat /\ Start(o, mtu, k) \in Nat
  BY PlacedPart
<1>4. Offset(x) = Offset(y)
  <2>1. Name(x) = <<Offset(x), x.primary.total>> /\ Name(y) = <<Offset(y), y.primary.total>>
    BY <1>2 DEF Name, Offset
  <2>2. Name(x) = Name(y)
    BY <1>1
  <2>3. QED BY <2>1, <2>2
<1>5. Start(o, mtu, j) = Start(o, mtu, k)
  BY <1>2, <1>4
<1>6. /\ Count(o, mtu) \in Nat
      /\ j < k => Start(o, mtu, j) < Start(o, mtu, k)
      /\ k < j => Start(o, mtu, k) < Start(o, mtu, j)
  BY DEF Splits
<1>7. PICK a, b : a = Start(o, mtu, j) /\ b = Start(o, mtu, k)
  OBVIOUS
<1>8. a \in Nat /\ b \in Nat /\ a = b /\ (j < k => a < b) /\ (k < j => b < a)
  BY <1>3, <1>5, <1>6, <1>7
<1>9. j = k
  BY <1>6, <1>8
<1>10. QED BY <1>9

LEMMA CompleteIsAll ==
    ASSUME IInv, LInv, KindInv, setup.bundle # None, item # None, Cardinality(setup.mtus) = 1,
           ~late, ~cut, \A t \in Threads : thr[t].pc # "remove"
    PROVE  IsComplete <=> Range(item.parts) = {Name(b) : b \in sent}
<1>1. CASE ~item.fragmented /\ Range(item.parts) = {Name(b) : b \in sent}
  BY <1>1 DEF IsComplete
<1>2. CASE /\ item.fragmented
           /\ \E mtu \in Nat : /\ Splits(origin, mtu) /\ setup.mtus = {mtu}
                               /\ sent = PartsOf(origin, mtu)
  <2>1. PICK mtu \in Nat : /\ Splits(origin, mtu) /\ setup.mtus = {mtu}
                           /\ sent = PartsOf(origin, mtu)
    BY <1>2
  <2>2. \A n \in Range(item.parts) : Loads(n)
    <3>1. setup.mtus # {}
      BY <2>1
    <3>2. \A n \in Range(item.parts) : Good(n)
      BY <3>1 DEF LInv, RInv, ReadInv
    <3>3. late = FALSE
      BY DEF IInv, TypeInv
    <3>4. QED BY <3>2, <3>3, GoodIsReadable DEF Readable, Loads
  <2>3. PICK bs, q, o, T : bs = bundleParts /\ q = item.parts /\ o = origin /\ T = sent
    OBVIOUS
  <2>4. /\ bs \in Seq(T) /\ DOMAIN bs = DOMAIN q /\ \A k \in DOMAIN q : Name(bs[k]) = q[k]
    BY <2>1, <2>2, <2>3, LoadedParts DEF LInv
  <2>5. q \in Seq(Nat \X Nat) /\ q # <<>>
    BY <2>3 DEF IInv, TypeInv, ItemRec
  <2>6. bs # <<>>
    BY <2>4, <2>5
  <2>7. WellFormed(o) /\ CheckValid(o, FALSE) /\ Splits(o, mtu)
        /\ T = PartsOf(o, mtu)
    BY <2>1, <2>3, SentIsPart DEF IInv
  <2>8. IsBundleReassemblable(bs) <=> Range(bs) = T
    BY <2>4, <2>6, <2>7, ReassemblableIffAll
  <2>9. IsComplete <=> IsBundleReassemblable(bs)
    BY <1>2, <2>2, <2>3 DEF IsComplete
  <2>10. Range(bs) = T <=> Range(q) = {Name(b) : b \in T}
    <3>1. \A k \in DOMAIN bs : bs[k] \in T
      BY <2>4
    <3>2. ASSUME NEW x \in T, NEW y \in T, Name(x) = Name(y) PROVE x = y
      <4>1. PICK j \in 1 .. Count(o, mtu), k \in 1 .. Count(o, mtu) :
               x = Part(o, mtu, j) /\ y = Part(o, mtu, k)
        BY <2>7 DEF PartsOf
      <4>2. Name(Part(o, mtu, j)) = Name(Part(o, mtu, k))
        BY <3>2, <4>1
      <4>3. Part(o, mtu, j) = Part(o, mtu, k)
        BY <2>7, <4>2, PartsNamed
      <4>4. QED BY <4>1, <4>3
    <3>3. ASSUME Range(bs) = T PROVE Range(q) = {Name(b) : b \in T}
      BY <2>4, <3>1, <3>3 DEF Range
    <3>4. ASSUME Range(q) = {Name(b) : b \in T}, NEW x \in T PROVE x \in Range(bs)
      <4>1. Name(x) \in Range(q)
        BY <3>4
      <4>2. PICK k \in DOMAIN q : q[k] = Name(x)
        BY <4>1 DEF Range
      <4>3. bs[k] \in T /\ Name(bs[k]) = Name(x)
        BY <2>4, <3>1, <4>2
      <4>4. bs[k] = x
        BY <3>2, <4>3
      <4>5. QED BY <2>4, <4>4 DEF Range
    <3>5. Range(bs) \subseteq T
      BY <3>1 DEF Range
    <3>6. QED BY <3>3, <3>4, <3>5
  <2>11. QED BY <2>3, <2>8, <2>9, <2>10
<1>3. QED BY <1>1, <1>2, OneMtu DEF LInv

(***************************************************************************)
(* With the fragments of one MTU, BundleItem.IsComplete tells exactly      *)
(* whether all of them are stored: for any valid bundle and any MTU, in    *)
(* whichever order and however often the fragments come, after crashes and *)
(* deletions, as long as no file is being removed.                         *)
(***************************************************************************)
THEOREM CompleteWhenAllStored == Spec => []CompleteIffAllStored
<1>1. Init => LInv /\ KindInv
  <2> SUFFICES ASSUME Init PROVE LInv /\ KindInv
    OBVIOUS
  <2>1. item = None /\ \A n \in DOMAIN files : files[n] = None
    BY DEF Init
  <2>2. QED BY <2>1, InitRInv DEF LInv, FileInv, StampInv, KindInv
<1>2. IInv /\ LInv /\ KindInv /\ [Next]_vars => LInv' /\ KindInv'
  BY StepLoads, StepKind
<1>3. IInv /\ LInv /\ KindInv => CompleteIffAllStored
  BY CompleteIsAll DEF CompleteIffAllStored, Deleting
<1> QED
  BY <1>1, <1>2, <1>3, Inductive, PTL DEF Spec
=============================================================================
