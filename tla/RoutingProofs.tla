---------------------------- MODULE RoutingProofs ----------------------------
(***************************************************************************)
(* Proofs about module Routing, for any set of peers and dispatchers, any  *)
(* kind of bundle and any parameters of the algorithms.                    *)
(*                                                                         *)
(* The variables fall into three groups that do not need each other's      *)
(* invariants: the link state database, the predictabilities, and what     *)
(* Core.forward and the bundle's metadata make up.                         *)
(***************************************************************************)
EXTENDS Routing, FiniteSetTheorems, TLAPS

-----------------------------------------------------------------------------
(* The link state database.                                                *)

\* The table of a node that knows of no link is empty.
LEMMA EmptyTable ==
    peerData.peers = NoMap => IsRoutingTable(NoMap, tableTime)
<1> SUFFICES ASSUME peerData.peers = NoMap
             PROVE  IsRoutingTable(NoMap, tableTime)
  OBVIOUS
<1>1. ASSUME NEW s \in Paths PROVE ~HasArcs(s)
  <2>1. PICK k \in 1..Cardinality(Peers) : s \in [1..k -> Peers]
    BY <1>1 DEF Paths
  <2>2. 1 \in 1..Len(s)
    <3>1. k \in Nat /\ k >= 1
      BY RoutingAssumption, FS_CardinalityType
    <3> QED
      BY <2>1, <3>1
  <2>3. DOMAIN From(s, 1) = {}
    BY DEF From, Links, NoMap
  <2> QED
    BY <2>2, <2>3 DEF HasArcs
<1>2. NextNodes(tableTime) = {}
  BY <1>1 DEF NextNodes
<1> QED
  BY <1>2 DEF IsRoutingTable, IsTable, NoMap

\* Shortest paths lead to peers and start with peers.
LEMMA NextNodesType ==
    ASSUME NEW t
    PROVE  \A h \in NextNodes(t) : h[1] \in Peers
<1> SUFFICES ASSUME NEW s \in Paths PROVE s[Len(s)] \in Peers
  BY DEF NextNodes
<1>1. PICK k \in 1..Cardinality(Peers) : s \in [1..k -> Peers]
  BY DEF Paths
<1>2. k \in Nat /\ k >= 1
  BY RoutingAssumption, FS_CardinalityType
<1>3. Len(s) = k
  BY <1>1, <1>2
<1> QED
  BY <1>1, <1>2, <1>3

DtlsrInv == DtlsrTypeOK /\ TableIsCurrent

\* What the routing table depends on.
known == <<peerData, receivedData, tracked, routingTable, tableTime>>

LEMMA EmptyMap ==
    /\ DOMAIN NoMap = {}
    /\ NoMap \in UNION { [P -> Times] : P \in SUBSET Peers }
    /\ NoMap \in UNION { [P -> Peers] : P \in SUBSET Peers }
<1>1. {} \in SUBSET Peers /\ NoMap \in [{} -> Times] /\ NoMap \in [{} -> Peers]
  BY DEF NoMap
<1> QED
  BY <1>1 DEF NoMap

LEMMA DtlsrInitInv == DtlsrInit => DtlsrInv
<1> SUFFICES ASSUME DtlsrInit PROVE DtlsrInv
  OBVIOUS
<1>1. DtlsrTypeOK
  <2>1. 0 \in Times /\ 1 \in Times
    BY DtlsrAssumption DEF Times
  <2> QED
    BY <2>1, EmptyMap DEF DtlsrInit, DtlsrTypeOK, IsPeerData, Nodes
<1>2. IsRoutingTable(routingTable, tableTime)
  BY EmptyTable DEF DtlsrInit
<1> QED
  BY <1>1, <1>2 DEF DtlsrInv, TableIsCurrent

\* NewDTLSR after a crash starts with the empty table of an empty database.
LEMMA DtlsrRestartInv == DtlsrTypeOK /\ DtlsrRestart => DtlsrInv'
<1> SUFFICES ASSUME DtlsrTypeOK, DtlsrRestart PROVE DtlsrInv'
  OBVIOUS
<1>1. DtlsrTypeOK'
  <2>1. 0 \in Times
    BY DtlsrAssumption DEF Times
  <2> QED
    BY <2>1, EmptyMap DEF DtlsrRestart, DtlsrTypeOK, IsPeerData, Nodes
<1>2. IsRoutingTable(routingTable, tableTime)'
  <2>1. peerData'.peers = NoMap /\ routingTable' = NoMap
    BY DEF DtlsrRestart
  <2>2. (peerData.peers = NoMap)' => IsRoutingTable(NoMap, tableTime)'
    BY EmptyTable, PTL
  <2> QED
    BY <2>1, <2>2 DEF IsRoutingTable, IsTable, NextNodes
<1> QED
  BY <1>1, <1>2 DEF DtlsrInv, TableIsCurrent

\* A change of the database raises a flag, so that no table is promised.
LEMMA DtlsrFrame ==
    ASSUME TableIsCurrent,
           UNCHANGED known \/ peerChange' \/ receivedChange',
           UNCHANGED known => /\ peerChange => peerChange' \/ receivedChange'
                              /\ receivedChange => receivedChange'
    PROVE  TableIsCurrent'
<1>1. CASE UNCHANGED known
  <2>1. IsRoutingTable(routingTable, tableTime)'
           = IsRoutingTable(routingTable, tableTime)
    BY <1>1 DEF known, IsRoutingTable, IsTable, NextNodes, HasArcs, Length, From,
                Links, Paths
  <2> QED
    BY <1>1, <2>1 DEF TableIsCurrent
<1>2. CASE peerChange' \/ receivedChange'
  BY <1>2 DEF TableIsCurrent
<1> QED
  BY <1>1, <1>2

\* ReportPeerAppeared, ReportPeerDisappeared
LEMMA PeerReportInv ==
    ASSUME DtlsrInv, NEW p \in Peers, PeerAppeared(p) \/ PeerDisappeared(p)
    PROVE  DtlsrInv'
<1>1. IsPeerData(peerData')
  <2>1. PICK ts \in Times : peerData' = [ts |-> now,
                                peers |-> Put(peerData.peers, p, ts)]
    <3>1. 0 \in Times /\ now \in Times
      BY DtlsrAssumption DEF Times, DtlsrInv, DtlsrTypeOK
    <3> QED
      BY <3>1 DEF PeerAppeared, PeerDisappeared, PeerReport
  <2>2. PICK P \in SUBSET Peers : peerData.peers \in [P -> Times]
    BY DEF DtlsrInv, DtlsrTypeOK, IsPeerData
  <2>3. Put(peerData.peers, p, ts) \in [P \cup {p} -> Times]
    BY <2>2 DEF Put
  <2>4. P \cup {p} \in SUBSET Peers /\ now \in Times
    BY DEF DtlsrInv, DtlsrTypeOK
  <2> QED
    BY <2>1, <2>3, <2>4 DEF IsPeerData
<1>2. DtlsrTypeOK'
  BY <1>1 DEF DtlsrInv, DtlsrTypeOK, PeerAppeared, PeerDisappeared, PeerReport,
              Nodes
<1>3. peerChange'
  BY DEF PeerAppeared, PeerDisappeared, PeerReport
<1>4. TableIsCurrent'
  BY <1>3 DEF TableIsCurrent
<1> QED
  BY <1>2, <1>4 DEF DtlsrInv

LEMMA ReceivePeerDataInv ==
    ASSUME DtlsrInv, NEW r \in Reports, ReceivePeerData(r[1], r[2])
    PROVE  DtlsrInv'
<1>1. DtlsrTypeOK'
  <2>1. CASE UNCHANGED <<receivedData, receivedChange, tracked>>
    BY <2>1 DEF ReceivePeerData, DtlsrInv, DtlsrTypeOK
  <2>2. CASE /\ receivedData' = Put(receivedData, r[1], r[2])
             /\ receivedChange' = TRUE
             /\ tracked' = tracked \cup DOMAIN r[2].peers \cup
                             (IF r[1] \in DOMAIN receivedData THEN {} ELSE {r[1]})
    <3>1. r[1] \in Peers /\ DOMAIN r[2].peers \subseteq Nodes
      BY DtlsrAssumption
    <3>2. DOMAIN receivedData' \subseteq Peers
      BY <2>2, <3>1 DEF DtlsrInv, DtlsrTypeOK, Put
    <3>3. tracked' \subseteq Nodes
      BY <2>2, <3>1 DEF DtlsrInv, DtlsrTypeOK, Nodes
    <3> QED
      BY <2>2, <3>2, <3>3 DEF ReceivePeerData, DtlsrInv, DtlsrTypeOK
  <2> QED
    BY <2>1, <2>2 DEF ReceivePeerData
<1>2. TableIsCurrent'
  BY DtlsrFrame DEF ReceivePeerData, DtlsrInv, known
<1> QED
  BY <1>1, <1>2 DEF DtlsrInv

LEMMA PurgePeersInv == DtlsrInv /\ PurgePeers => DtlsrInv'
<1> SUFFICES ASSUME DtlsrInv, PurgePeers PROVE DtlsrInv'
  OBVIOUS
<1>1. IsPeerData(peerData')
  <2>1. PICK S : peerData' = [peerData EXCEPT
                     !.peers = Restrict(peerData.peers, (DOMAIN peerData.peers) \ S)]
    BY DEF PurgePeers
  <2>2. PICK P \in SUBSET Peers : peerData.peers \in [P -> Times]
    BY DEF DtlsrInv, DtlsrTypeOK, IsPeerData
  <2>3. /\ Restrict(peerData.peers, (DOMAIN peerData.peers) \ S) \in [P \ S -> Times]
        /\ P \ S \in SUBSET Peers
    BY <2>2 DEF Restrict
  <2> QED
    BY <2>1, <2>3 DEF DtlsrInv, DtlsrTypeOK, IsPeerData
<1>2. DtlsrTypeOK'
  BY <1>1 DEF DtlsrInv, DtlsrTypeOK, PurgePeers
<1>3. TableIsCurrent'
  BY DEF TableIsCurrent, PurgePeers
<1> QED
  BY <1>2, <1>3 DEF DtlsrInv

\* computeRoutingTable: what is written is a table for what is known.
LEMMA RecomputeTableInv == DtlsrInv /\ RecomputeTable => DtlsrInv'
<1> SUFFICES ASSUME DtlsrInv, RecomputeTable PROVE DtlsrInv'
  OBVIOUS
<1> DEFINE D == { h[1] : h \in NextNodes(now) } \cap tracked
<1>1. routingTable' \in [D -> Peers] /\ IsTable(routingTable', NextNodes(now))
  BY DEF RecomputeTable
<1>2. D \in SUBSET Peers
  BY NextNodesType
<1>3. DtlsrTypeOK'
  BY <1>1, <1>2 DEF RecomputeTable, DtlsrInv, DtlsrTypeOK, Goto
<1>4. IsRoutingTable(routingTable, tableTime)'
  <2>1. /\ peerData' = peerData /\ receivedData' = receivedData
        /\ tracked' = tracked /\ tableTime' = now
    BY DEF RecomputeTable
  <2>2. NextNodes(tableTime)' = NextNodes(now)
    BY <2>1 DEF NextNodes, HasArcs, Length, From, Links, Paths
  <2> QED
    BY <1>1, <2>1, <2>2 DEF IsRoutingTable, IsTable
<1> QED
  BY <1>3, <1>4 DEF DtlsrInv, TableIsCurrent

\* The other steps of the cron jobs only move flags: broadcastCron hands
\* peerChange over to receivedChange.
LEMMA DtlsrJobInv ==
    ASSUME DtlsrInv,
           \/ RecomputeRead \/ BroadcastRead \/ BroadcastBuild
           \/ BroadcastSend \/ BroadcastReset
           \/ DtlsrTick /\ UNCHANGED <<peerChange, receivedChange, peerData,
                 receivedData, tracked, routingTable, tableTime, job, sentTs, told>>
           \/ UNCHANGED dtlsrVars
    PROVE  DtlsrInv'
<1>1. DtlsrTypeOK'
  <2>1. CASE DtlsrTick /\ UNCHANGED <<peerChange, receivedChange, peerData,
                 receivedData, tracked, routingTable, tableTime, job, sentTs, told>>
    <3>1. now' \in Times
      BY <2>1, DtlsrAssumption DEF DtlsrTick, Times, DtlsrInv, DtlsrTypeOK
    <3> QED
      BY <2>1, <3>1 DEF DtlsrInv, DtlsrTypeOK
  <2>2. CASE BroadcastSend
    <3>1. told' \in Times /\ sentTs' \in Times
      BY <2>2, DtlsrAssumption DEF BroadcastSend, Times, DtlsrInv, DtlsrTypeOK
    <3> QED
      BY <2>2, <3>1 DEF DtlsrInv, DtlsrTypeOK, BroadcastSend, Goto
  <2>3. CASE BroadcastBuild
    BY <2>3 DEF DtlsrInv, DtlsrTypeOK, IsPeerData, BroadcastBuild, Goto
  <2>4. CASE RecomputeRead \/ BroadcastRead \/ BroadcastReset
    BY <2>4 DEF DtlsrInv, DtlsrTypeOK, RecomputeRead, BroadcastRead,
                BroadcastReset, Goto
  <2>5. CASE UNCHANGED dtlsrVars
    BY <2>5 DEF DtlsrInv, DtlsrTypeOK, dtlsrVars
  <2> QED
    BY <2>1, <2>2, <2>3, <2>4, <2>5
<1>2. /\ UNCHANGED known
      /\ peerChange => peerChange' \/ receivedChange'
      /\ receivedChange => receivedChange'
  BY DEF RecomputeRead, BroadcastRead, BroadcastBuild, BroadcastSend,
         BroadcastReset, known, dtlsrVars
<1>3. TableIsCurrent'
  BY <1>2, DtlsrFrame DEF DtlsrInv
<1> QED
  BY <1>1, <1>3 DEF DtlsrInv

\* Every step of the node leaves the database alone or is one of the above.
LEMMA DtlsrNextInv == DtlsrInv /\ [Next]_vars => DtlsrInv'
<1> SUFFICES ASSUME DtlsrInv, [Next]_vars PROVE DtlsrInv'
  OBVIOUS
<1>1. CASE Crash
  BY <1>1, DtlsrRestartInv DEF Crash, DtlsrInv
<1>2. ASSUME NEW p \in Peers, Appear(p) \/ Disappear(p) PROVE DtlsrInv'
  <2>1. PeerAppeared(p) \/ PeerDisappeared(p) \/ UNCHANGED dtlsrVars
    BY <1>2 DEF Appear, Disappear
  <2> QED
    BY <2>1, PeerReportInv, DtlsrJobInv
<1>3. CASE DtlsrStep
  BY <1>3, ReceivePeerDataInv, PurgePeersInv, RecomputeTableInv, DtlsrJobInv
  DEF DtlsrStep
<1>4. CASE UNCHANGED dtlsrVars
  BY <1>4, DtlsrJobInv
<1>5. ASSUME NEW d \in Dispatchers,
             \/ Forward(d) \/ SenderRead(d) \/ SenderWrite(d)
             \/ Filtered(d) \/ Finish(d)
             \/ \E p \in Peers : \/ SendSucceeds(d, p)
                                 \/ FailureRead(d, p) \/ FailureWrite(d, p)
      PROVE  UNCHANGED dtlsrVars
  BY <1>5 DEF Forward, SenderRead, SenderWrite, Filtered, Finish, SendSucceeds,
              FailureRead, FailureWrite
<1>6. CASE NotifyNewBundle \/ DeleteBundle \/ GarbageCollect \/ ProphetStep
           \/ UNCHANGED vars
  BY <1>6, <1>4 DEF NotifyNewBundle, DeleteBundle, GarbageCollect, ProphetStep,
                    vars
<1> QED
  BY <1>1, <1>2, <1>3, <1>4, <1>5, <1>6 DEF Next

(***************************************************************************)
(* DTLSR never routes by a table that is older than what it knows: when    *)
(* neither flag is set, the table holds the first nodes of shortest paths  *)
(* over the links of the database.                                         *)
(***************************************************************************)
THEOREM TableCurrent == Spec => []TableIsCurrent
<1>1. Init => DtlsrInv
  BY DtlsrInitInv DEF Init
<1>2. DtlsrInv => TableIsCurrent
  BY DEF DtlsrInv
<1> QED
  BY <1>1, <1>2, DtlsrNextInv, PTL DEF Spec

-----------------------------------------------------------------------------
(* The predictabilities.                                                   *)

\* A product of two probabilities is a probability, and not above the first.
LEMMA MulBound ==
    ASSUME NEW a \in 0..One, NEW b \in 0..One
    PROVE  Mul(a, b) \in 0..a
<1>1. One \in Nat /\ One > 0
  BY ProphetAssumption
<1>2. a * b \in Nat /\ a * b <= a * One
  BY <1>1
<1> DEFINE q == (a * b) \div One
<1>3. q \in Int /\ One * q <= a * b /\ a * b < One * q + One
  BY <1>1, <1>2
<1>4. q >= 0
  <2>1. ASSUME q < 0 PROVE FALSE
    <3>1. One * q + One <= 0
      BY <1>1, <1>3, <2>1
    <3> QED
      BY <1>1, <1>2, <1>3, <3>1
  <2> QED
    BY <1>3, <2>1
<1>5. q <= a
  <2>1. ASSUME q > a PROVE FALSE
    <3>1. One * q >= One * a + One
      BY <1>1, <1>3, <2>1
    <3> QED
      BY <1>1, <1>2, <1>3, <3>1
  <2> QED
    BY <1>3, <2>1
<1> QED
  BY <1>3, <1>4, <1>5 DEF Mul

\* Raising a probability does not lower it, nor does it exceed 1.
LEMMA RaiseBound ==
    ASSUME NEW a \in 0..One, NEW x \in 0..One
    PROVE  Raise(a, x) \in 0..One /\ Raise(a, x) >= a
<1>1. One \in Nat
  BY ProphetAssumption
<1>2. One - a \in 0..One
  BY <1>1
<1>3. Mul(One - a, x) \in 0..(One - a)
  BY <1>2, MulBound
<1> QED
  BY <1>1, <1>3 DEF Raise

\* What transitivity adds is a probability.
LEMMA ViaBound ==
    ASSUME NEW a \in 0..One, NEW b \in 0..One
    PROVE  Mul(Mul(a, b), Beta) \in 0..One
<1>1. Mul(a, b) \in 0..One
  BY MulBound, ProphetAssumption
<1>2. Beta \in 0..One
  BY ProphetAssumption
<1> QED
  BY <1>1, <1>2, MulBound, ProphetAssumption

\* Whatever a neighbour sends, the results are numbers.
LEMMA RaiseType ==
    /\ \A a, b \in Int : Mul(a, b) \in Int
    /\ \A a, x \in Int : Raise(a, x) \in Int
<1>1. One \in Nat /\ One > 0
  BY ProphetAssumption
<1>2. ASSUME NEW a \in Int, NEW b \in Int PROVE Mul(a, b) \in Int
  <2>1. PICK c \in Int : c = a * b
    OBVIOUS
  <2>2. c \div One \in Int
    BY <1>1
  <2> QED
    BY <2>1, <2>2 DEF Mul
<1>3. ASSUME NEW a \in Int, NEW x \in Int PROVE Raise(a, x) \in Int
  <2>1. One - a \in Int
    BY <1>1
  <2>2. Mul(One - a, x) \in Int
    BY <1>2, <2>1
  <2> QED
    BY <2>2 DEF Raise
<1> QED
  BY <1>2, <1>3

\* Transitivity raises every predictability, in any order of the walk, if
\* the neighbour sent probabilities.
LEMMA TransitivityGrows ==
    ASSUME ProphetTypeOK, NEW p \in Peers, NEW v \in Vectors,
           Transitivity(p, v)
    PROVE  /\ pred' \in [Nodes -> Int]
           /\ honest /\ v \in [Nodes -> 0..One] =>
                 /\ pred' \in [Nodes -> 0..One]
                 /\ \A n \in Nodes : pred'[n] >= pred[n]
<1>1. v \in [Nodes -> Int] /\ p \in Nodes /\ Beta \in Int /\ One \in Nat
  BY ProphetAssumption DEF Nodes
<1>2. pred \in [Nodes -> Int]
  BY DEF ProphetTypeOK
<1> DEFINE new == Raise(pred[p], Mul(Mul(pred[p], v[p]), Beta))
<1>3. new \in Int
  BY <1>1, <1>2, RaiseType
<1>4. PICK before \in SUBSET (Nodes \ {p}) :
         pred' = [n \in Nodes |->
                    Raise(pred[n], Mul(Mul(IF n \in before \cup {p} THEN pred[p]
                                           ELSE new, v[n]), Beta))]
  BY DEF Transitivity
<1>5. honest /\ v \in [Nodes -> 0..One] => new \in 0..One
  BY <1>1, <1>2, ViaBound, RaiseBound DEF ProphetTypeOK
<1> HIDE DEF new
<1>6. ASSUME NEW n \in Nodes
      PROVE  /\ pred'[n] \in Int
             /\ honest /\ v \in [Nodes -> 0..One] =>
                   pred'[n] \in 0..One /\ pred'[n] >= pred[n]
  <2> DEFINE via == IF n \in before \cup {p} THEN pred[p] ELSE new
  <2>1. via \in Int /\ v[n] \in Int /\ pred[n] \in Int
    BY <1>1, <1>2, <1>3
  <2>2. pred'[n] = Raise(pred[n], Mul(Mul(via, v[n]), Beta))
    BY <1>4
  <2>3. pred'[n] \in Int
    BY <1>1, <2>1, <2>2, RaiseType
  <2>4. CASE honest /\ v \in [Nodes -> 0..One]
    <3>1. via \in 0..One /\ v[n] \in 0..One /\ pred[n] \in 0..One
      BY <1>1, <1>5, <2>4 DEF ProphetTypeOK
    <3>2. Mul(Mul(via, v[n]), Beta) \in 0..One
      BY <3>1, ViaBound
    <3> QED
      BY <2>2, <2>3, <3>1, <3>2, RaiseBound
  <2> QED
    BY <2>3, <2>4
<1> QED
  BY <1>4, <1>6

\* What a step does to the predictabilities: it ages them, starts anew or
\* lowers none.
Ages == pred' = [x \in Nodes |-> Mul(pred[x], Gamma)]
Grows == \A n \in Nodes : pred'[n] >= pred[n]
Changes == honest' => Ages \/ crashes' # crashes \/ Grows

ProphetInv == ProphetTypeOK /\ crashes \in Nat

LEMMA ProphetNext ==
    ASSUME ProphetInv, [Next]_vars
    PROVE  ProphetInv' /\ Changes
<1>1. /\ pred \in [Nodes -> Int] /\ One \in Nat /\ crashes \in Nat
      /\ honest => pred \in [Nodes -> 0..One]
  BY ProphetAssumption DEF ProphetInv, ProphetTypeOK
<1>2. CASE UNCHANGED prophetVars /\ UNCHANGED crashes
  BY <1>1, <1>2 DEF prophetVars, ProphetInv, ProphetTypeOK, Changes, Grows
<1>3. CASE Crash
  <2>1. crashes' \in Nat /\ crashes' # crashes
    BY <1>1, <1>3 DEF Crash
  <2>2. ProphetTypeOK'
    BY <1>1, <1>3 DEF Crash, ProphetRestart, ProphetTypeOK
  <2> QED
    BY <2>1, <2>2 DEF ProphetInv, Changes
<1>4. ASSUME NEW p \in Peers, Appear(p) \/ Disappear(p)
      PROVE  ProphetInv' /\ Changes
  <2> UNCHANGED crashes
    BY <1>4 DEF Appear, Disappear, Counts
  <2>1. CASE Encounter(p) /\ UNCHANGED <<peerPred, honest>>
    <3>1. p \in Nodes /\ PInit \in 0..One
      BY ProphetAssumption DEF Nodes
    <3>2. pred' = [pred EXCEPT ![p] = Raise(pred[p], PInit)]
      BY <2>1 DEF Encounter
    <3>3. Raise(pred[p], PInit) \in Int
      BY <1>1, <3>1, RaiseType
    <3>4. honest => /\ Raise(pred[p], PInit) \in 0..One
                    /\ Raise(pred[p], PInit) >= pred[p]
      BY <1>1, <3>1, RaiseBound
    <3>5. \A n \in Nodes : pred'[n] = IF n = p THEN Raise(pred[p], PInit)
                                       ELSE pred[n]
      BY <1>1, <3>2
    <3>6. /\ pred' \in [Nodes -> Int]
          /\ honest => pred' \in [Nodes -> 0..One]
      BY <1>1, <3>2, <3>3, <3>4
    <3>7. honest => Grows
      BY <1>1, <3>4, <3>5 DEF Grows
    <3> QED
      BY <1>1, <2>1, <3>6, <3>7 DEF ProphetInv, ProphetTypeOK, Changes
  <2>2. \/ Encounter(p) /\ UNCHANGED <<peerPred, honest>>
        \/ UNCHANGED prophetVars
    BY <1>4 DEF Appear, Disappear, prophetVars
  <2> QED
    BY <1>2, <2>1, <2>2
<1>5. CASE ProphetStep
  <2> UNCHANGED crashes
    BY <1>5 DEF ProphetStep, Counts
  <2>1. ASSUME NEW p \in Peers, NEW v \in Vectors, ReceiveVector(p, v)
        PROVE  ProphetInv' /\ Changes
    <3>1. honest' = (honest /\ v \in [Nodes -> 0..One])
      BY <2>1 DEF ReceiveVector
    <3>2. /\ pred' \in [Nodes -> Int]
          /\ honest /\ v \in [Nodes -> 0..One] =>
                pred' \in [Nodes -> 0..One] /\ Grows
      BY <2>1, TransitivityGrows DEF ReceiveVector, ProphetInv, Grows
    <3>3. peerPred' \in [Peers -> Vectors \cup {None}]
      BY <2>1 DEF ReceiveVector, ProphetInv, ProphetTypeOK
    <3> QED
      BY <1>1, <3>1, <3>2, <3>3 DEF ProphetInv, ProphetTypeOK, Changes
  <2>2. CASE AgeCron /\ UNCHANGED <<peerPred, honest>>
    <3>1. Ages
      BY <2>2 DEF AgeCron, Ages
    <3>2. ASSUME NEW n \in Nodes
          PROVE  /\ Mul(pred[n], Gamma) \in Int
                 /\ honest => Mul(pred[n], Gamma) \in 0..One
      <4>1. Gamma \in 0..One /\ Gamma \in Int /\ pred[n] \in Int
        BY <1>1, ProphetAssumption
      <4>2. Mul(pred[n], Gamma) \in Int
        BY <4>1, RaiseType
      <4>3. honest => Mul(pred[n], Gamma) \in 0..pred[n]
        BY <1>1, <4>1, MulBound
      <4> QED
        BY <1>1, <4>1, <4>2, <4>3
    <3>3. /\ pred' \in [Nodes -> Int]
          /\ honest => pred' \in [Nodes -> 0..One]
      BY <3>1, <3>2 DEF Ages
    <3> QED
      BY <1>1, <2>2, <3>1, <3>3 DEF ProphetInv, ProphetTypeOK, Changes
  <2> QED
    BY <1>5, <2>1, <2>2 DEF ProphetStep
<1>6. ASSUME NEW d \in Dispatchers,
             \/ Forward(d) \/ SenderRead(d) \/ SenderWrite(d)
             \/ Filtered(d) \/ Finish(d)
             \/ \E p \in Peers : \/ SendSucceeds(d, p)
                                 \/ FailureRead(d, p) \/ FailureWrite(d, p)
      PROVE  UNCHANGED prophetVars /\ UNCHANGED crashes
  BY <1>6 DEF Forward, SenderRead, SenderWrite, Filtered, Finish, SendSucceeds,
              FailureRead, FailureWrite, Counts
<1>7. CASE NotifyNewBundle \/ DeleteBundle \/ GarbageCollect \/ DtlsrStep
           \/ UNCHANGED vars
  BY <1>2, <1>7 DEF NotifyNewBundle, DeleteBundle, GarbageCollect, DtlsrStep,
                    vars, coreVars, Counts
<1> QED
  BY <1>2, <1>3, <1>4, <1>5, <1>6, <1>7 DEF Next

(***************************************************************************)
(* PRoPHET's predictabilities fall only by ageing or with a restart of the *)
(* node; as long as the neighbours' vectors hold probabilities, neither an *)
(* encounter nor a vector lowers one.                                      *)
(***************************************************************************)
THEOREM PredictabilitiesGrow == Spec => PredictabilityGrows
<1>1. Init => ProphetInv
  BY ProphetAssumption DEF Init, ProphetInit, RoutingInit, ProphetInv,
                           ProphetTypeOK
<1>2. ProphetInv /\ [Next]_vars => ProphetInv'
  BY ProphetNext
<1>3. ProphetInv /\ [Next]_vars
        => [\A n \in Nodes :
              honest' /\ pred'[n] < pred[n] =>
                 \/ pred' = [x \in Nodes |-> Mul(pred[x], Gamma)]
                 \/ crashes' # crashes]_vars
  <2> SUFFICES ASSUME ProphetInv, [Next]_vars, NEW n \in Nodes,
                      honest', pred'[n] < pred[n]
               PROVE  \/ pred' = [x \in Nodes |-> Mul(pred[x], Gamma)]
                      \/ crashes' # crashes
    OBVIOUS
  <2>1. ProphetInv' /\ (Ages \/ crashes' # crashes \/ Grows)
    BY ProphetNext DEF Changes
  <2>2. ~Grows
    BY <2>1, ProphetAssumption DEF Grows, ProphetInv, ProphetTypeOK
  <2> QED
    BY <2>1, <2>2 DEF Ages
<1> QED
  BY <1>1, <1>2, <1>3, PTL DEF Spec, PredictabilityGrows

-----------------------------------------------------------------------------
(* Core.forward and the metadata of the bundle.                            *)

\* What a dispatcher's local variables always satisfy.  Before a selection is
\* made nothing is on its way; a selection is made from metadata with copies
\* to give; a direct delivery is for the destination only; ReportFailure
\* writes back what it read; the mule sends to no sensor.
GoodFrame(f) ==
    /\ f.pc \in {"idle", "read", "write"} =>
          ~f.direct /\ \A p \in Peers : f.st[p] = "none"
    /\ f.pc = "write" /\ Spraying => f.m # None /\ f.m.copies >= 2
    /\ \A p \in Peers : f.st[p] # "none" =>
          /\ f.direct => p = Dest
          /\ ~f.direct /\ setup.algo = "spray" => f.share = 1
          /\ ~f.direct /\ setup.algo = "binary_spray" => f.hasBlock
          /\ f.st[p] = "failed" =>
                /\ f.fm[p] # None
                /\ Spraying => f.fm[p].copies >= 1 \/ setup.block = 0
    /\ setup.mule => \A p \in Sensors :
          /\ f.pc = "filter" => f.st[p] # "sending"
          /\ f.pc = "sending" /\ ~f.direct => f.st[p] = "none"

FramesOK == \A d \in Dispatchers : GoodFrame(fr[d])

\* A list in the store goes with the bundle.
ListInStore == InStore /\ ~stored => meta = None

ForwardInv ==
    /\ RoutingTypeOK
    /\ FramesOK
    /\ LastCopyKept
    /\ ListInStore

-----------------------------------------------------------------------------
(* Counting the copies on their way.                                       *)

Batch(s, w, e) == ({e} \X s[e]) \X (1..w[e])
Batches(s, w, D) == UNION { Batch(s, w, e) : e \in D }

LEMMA BatchSize ==
    ASSUME NEW s \in [Dispatchers -> SUBSET Peers],
           NEW w \in [Dispatchers -> Nat], NEW e \in Dispatchers
    PROVE  /\ IsFiniteSet(Batch(s, w, e))
           /\ Cardinality(s[e]) \in Nat
           /\ Cardinality(Batch(s, w, e)) = Cardinality(s[e]) * w[e]
<1>1. IsFiniteSet(s[e]) /\ Cardinality(s[e]) \in Nat
  BY RoutingAssumption, FS_Subset, FS_CardinalityType
<1>2. IsFiniteSet({e}) /\ Cardinality({e}) = 1
  BY FS_Singleton
<1>3. /\ IsFiniteSet({e} \X s[e])
      /\ Cardinality({e} \X s[e]) = 1 * Cardinality(s[e])
  BY <1>1, <1>2, FS_Product
<1>4. w[e] \in Nat /\ 1 \in Int /\ w[e] \in Int
  OBVIOUS
<1>5. IsFiniteSet(1..w[e]) /\ Cardinality(1..w[e]) = w[e]
  BY <1>4, FS_Interval
<1>6. /\ IsFiniteSet(Batch(s, w, e))
      /\ Cardinality(Batch(s, w, e))
           = Cardinality({e} \X s[e]) * Cardinality(1..w[e])
  BY <1>3, <1>5, FS_Product DEF Batch
<1> QED
  BY <1>1, <1>3, <1>4, <1>5, <1>6

LEMMA BatchesFinite ==
    ASSUME NEW s \in [Dispatchers -> SUBSET Peers],
           NEW w \in [Dispatchers -> Nat], NEW D \in SUBSET Dispatchers
    PROVE  IsFiniteSet(Batches(s, w, D))
<1> DEFINE T == { Batch(s, w, e) : e \in D }
           f == [e \in D |-> Batch(s, w, e)]
<1>1. IsFiniteSet(D)
  BY SetupAssumption, FS_Subset
<1>2. f \in Surjection(D, T)
  BY DEF Surjection
<1>3. IsFiniteSet(T)
  BY <1>1, <1>2, FS_Surjection
<1>4. \A S \in T : IsFiniteSet(S)
  BY BatchSize
<1> QED
  BY <1>3, <1>4, FS_UNION DEF Batches

\* The copies of one dispatcher and those of the others.
LEMMA BatchesSplit ==
    ASSUME NEW s \in [Dispatchers -> SUBSET Peers],
           NEW w \in [Dispatchers -> Nat], NEW d \in Dispatchers
    PROVE  /\ Cardinality(Batches(s, w, Dispatchers \ {d})) \in Nat
           /\ Cardinality(Batches(s, w, Dispatchers))
                = Cardinality(Batches(s, w, Dispatchers \ {d}))
                    + Cardinality(s[d]) * w[d]
<1> DEFINE B == Batch(s, w, d)
           R == Batches(s, w, Dispatchers \ {d})
<1>1. Batches(s, w, Dispatchers) = R \cup B
  BY DEF Batches
<1>2. R \cap B = {}
  BY DEF Batches, Batch
<1>3. IsFiniteSet(R) /\ IsFiniteSet(B)
  BY BatchesFinite, BatchSize
<1>4. /\ Cardinality(R) \in Nat
      /\ Cardinality(B) \in Nat
      /\ Cardinality(R \cap B) = 0
  BY <1>2, <1>3, FS_CardinalityType, FS_EmptySet
<1> HIDE DEF R, B
<1>5. Cardinality(R \cup B) = Cardinality(R) + Cardinality(B) - Cardinality(R \cap B)
  BY <1>3, FS_Union
<1>6. Cardinality(R \cup B) = Cardinality(R) + Cardinality(B)
  BY <1>4, <1>5
<1>7. Cardinality(B) = Cardinality(s[d]) * w[d]
  BY BatchSize DEF B
<1> QED
  BY <1>1, <1>4, <1>6, <1>7 DEF R

\* The peers a frame still has to do with, the copies each of them stands for.
Busy(f) == { p \in Peers : f.st[p] # "none" }
Share(f) == IF f.direct \/ InStore THEN 0 ELSE f.share
Load(f) == Cardinality(Busy(f)) * Share(f)

\* One frame changes: so does its part of the copies on their way.
LEMMA FlightStep ==
    ASSUME RoutingTypeOK, setup' = setup, NEW d \in Dispatchers, NEW f \in Frame,
           fr' = [fr EXCEPT ![d] = f]
    PROVE  /\ CopiesInFlight \in Nat
           /\ Load(fr[d]) \in Nat /\ Load(f) \in Nat
           /\ CopiesInFlight' = CopiesInFlight - Load(fr[d]) + Load(f)
<1> DEFINE s == [e \in Dispatchers |-> Busy(fr[e])]
           w == [e \in Dispatchers |-> Share(fr[e])]
           t == [e \in Dispatchers |-> IF e = d THEN Busy(f) ELSE Busy(fr[e])]
           v == [e \in Dispatchers |-> IF e = d THEN Share(f) ELSE Share(fr[e])]
           R == Cardinality(Batches(s, w, Dispatchers \ {d}))
<1>1. /\ s \in [Dispatchers -> SUBSET Peers] /\ t \in [Dispatchers -> SUBSET Peers]
      /\ w \in [Dispatchers -> Nat] /\ v \in [Dispatchers -> Nat]
  BY DEF RoutingTypeOK, Frame, Busy, Share
<1>2. CopiesInFlight = Cardinality(Batches(s, w, Dispatchers))
  BY DEF CopiesInFlight, Flight, Weight, InFlight, Batches, Batch, Busy, Share
<1>3. CopiesInFlight' = Cardinality(Batches(t, v, Dispatchers))
  <2>1. \A e \in Dispatchers : fr'[e] = IF e = d THEN f ELSE fr[e]
    BY DEF RoutingTypeOK
  <2>2. InStore' = InStore
    BY DEF InStore, Spraying
  <2>3. ASSUME NEW e \in Dispatchers
        PROVE  InFlight(e)' = t[e] /\ Weight(e)' = v[e]
    BY <2>1, <2>2 DEF InFlight, Weight, Busy, Share
  <2>4. ASSUME NEW e \in Dispatchers PROVE Flight(e)' = Batch(t, v, e)
    BY <2>3 DEF Flight, Batch
  <2> HIDE DEF t, v
  <2> QED
    BY <2>4 DEF CopiesInFlight, Batches
<1>4. Batches(t, v, Dispatchers \ {d}) = Batches(s, w, Dispatchers \ {d})
  BY DEF Batches, Batch
<1>5. s[d] = Busy(fr[d]) /\ w[d] = Share(fr[d]) /\ t[d] = Busy(f) /\ v[d] = Share(f)
  OBVIOUS
<1> HIDE DEF s, w, t, v
<1>6. /\ R \in Nat
      /\ Cardinality(Batches(s, w, Dispatchers)) = R + Cardinality(s[d]) * w[d]
  BY <1>1, BatchesSplit
<1>7. Cardinality(Batches(t, v, Dispatchers)) = R + Cardinality(t[d]) * v[d]
  BY <1>1, <1>4, BatchesSplit
<1>8. /\ Cardinality(s[d]) \in Nat /\ Cardinality(t[d]) \in Nat
      /\ w[d] \in Nat /\ v[d] \in Nat
  BY <1>1, BatchSize
<1>9. Load(fr[d]) \in Nat /\ Load(f) \in Nat
  BY <1>5, <1>8 DEF Load
<1>10. /\ CopiesInFlight = R + Load(fr[d])
       /\ CopiesInFlight' = R + Load(f)
  BY <1>2, <1>3, <1>5, <1>6, <1>7 DEF Load
<1> HIDE DEF R
<1> QED
  BY <1>6, <1>9, <1>10

LEMMA FlightSame ==
    ASSUME setup' = setup, fr' = fr
    PROVE  CopiesInFlight' = CopiesInFlight
BY DEF CopiesInFlight, Flight, InFlight, Weight, InStore, Spraying

-----------------------------------------------------------------------------
(* What SenderForBundle may select.                                        *)

LEMMA MinPair ==
    ASSUME NEW a \in Int, NEW b \in Int
    PROVE  Min({a, b}) \in {a, b} /\ Min({a, b}) <= a /\ Min({a, b}) <= b
<1>1. \E x \in {a, b} : \A y \in {a, b} : x <= y
  <2>1. CASE a <= b
    BY <2>1
  <2>2. CASE b <= a
    BY <2>2
  <2> QED
    BY <2>1, <2>2
<1> QED
  BY <1>1 DEF Min

\* SprayAndWait gives away all copies but one, one for each peer.
LEMMA SpraySelection ==
    ASSUME NEW m \in MetaData, m.copies >= 2, NEW C \in SUBSET Peers,
           NEW c \in SpraySenders(m, C)
    PROVE  /\ c.to \subseteq C /\ c.share = 1 /\ c.meta \in MetaData
           /\ c.to \cap m.sent = {}
           /\ c.meta.sent = m.sent \cup c.to
           /\ Cardinality(c.to) \in Nat
           /\ c.meta.copies = m.copies - Cardinality(c.to) * c.share
           /\ c.meta.copies >= 1
<1> DEFINE fresh == C \ m.sent
           n == Min({Cardinality(fresh), m.copies - 1})
<1>1. IsFiniteSet(fresh) /\ Cardinality(fresh) \in Nat
  BY RoutingAssumption, FS_Subset, FS_CardinalityType
<1>2. m.sent \in SUBSET Peers /\ m.copies \in Nat
  BY DEF MetaData
<1>3. n \in Nat /\ n <= m.copies - 1
  <2> DEFINE k == Cardinality(fresh)
             l == m.copies - 1
  <2>1. k \in Nat /\ l \in Nat
    BY <1>1, <1>2
  <2> HIDE DEF k, l
  <2>2. Min({k, l}) \in {k, l} /\ Min({k, l}) <= l
    BY <2>1, MinPair
  <2>3. Min({k, l}) \in Nat
    BY <2>1, <2>2
  <2> QED
    BY <2>2, <2>3 DEF k, l
<1>4. PICK S \in kSubset(n, fresh) :
         c = [to |-> S, share |-> 1,
              meta |-> [sent |-> m.sent \cup S, copies |-> m.copies - n]]
  BY DEF SpraySenders
<1>5. S \subseteq fresh /\ Cardinality(S) = n
  BY DEF kSubset
<1> HIDE DEF n
<1>6. m.copies - n \in Nat /\ m.copies - n >= 1
  BY <1>2, <1>3
<1>7. c.meta \in MetaData
  BY <1>2, <1>4, <1>5, <1>6 DEF MetaData
<1>8. c.to \cap m.sent = {} /\ c.to \subseteq C /\ c.meta.sent = m.sent \cup c.to
  BY <1>4, <1>5
<1>9. Cardinality(c.to) = n /\ c.share = 1 /\ c.meta.copies = m.copies - n
  BY <1>4, <1>5
<1> QED
  BY <1>2, <1>3, <1>6, <1>7, <1>8, <1>9

\* BinarySpray gives half of the copies to one peer.
LEMMA BinarySelection ==
    ASSUME NEW m \in MetaData, m.copies >= 2, NEW C \in SUBSET Peers,
           NEW c \in BinarySenders(m, C)
    PROVE  /\ c.to \subseteq C /\ c.share \in Nat /\ c.meta \in MetaData
           /\ c.to \cap m.sent = {}
           /\ c.meta.sent = m.sent \cup c.to
           /\ Cardinality(c.to) \in Nat
           /\ c.meta.copies = m.copies - Cardinality(c.to) * c.share
           /\ c.meta.copies >= 1
<1> DEFINE half == m.copies \div 2
<1>1. m.sent \in SUBSET Peers /\ m.copies \in Nat
  BY DEF MetaData
<1>2. half \in Nat /\ m.copies - half \in Nat /\ m.copies - half >= 1
  BY <1>1
<1>3. CASE c = [to |-> {}, share |-> 0, meta |-> m]
  BY <1>1, <1>3, FS_EmptySet
<1>4. ASSUME NEW p \in C \ m.sent,
             c = [to |-> {p}, share |-> half,
                  meta |-> [sent |-> m.sent \cup {p}, copies |-> m.copies - half]]
      PROVE  /\ c.to \subseteq C /\ c.share \in Nat /\ c.meta \in MetaData
             /\ c.to \cap m.sent = {}
             /\ c.meta.sent = m.sent \cup c.to
             /\ Cardinality(c.to) \in Nat
             /\ c.meta.copies = m.copies - Cardinality(c.to) * c.share
             /\ c.meta.copies >= 1
  <2>1. Cardinality({p}) = 1
    BY FS_Singleton
  <2> HIDE DEF half
  <2>2. c.meta \in MetaData
    BY <1>1, <1>2, <1>4 DEF MetaData
  <2> QED
    BY <1>1, <1>2, <1>4, <2>1, <2>2
<1> QED
  BY <1>3, <1>4 DEF BinarySenders

\* The peers that metadata lists.
SentOf(m) == IF m = None THEN {} ELSE m.sent

\* A selection takes connected peers; what is written lists them; the spray
\* algorithms take the copies from the metadata and keep one.
LEMMA Selection ==
    ASSUME RoutingTypeOK, NEW m \in MetaData \cup {None},
           Spraying => m # None /\ m.copies >= 2,
           NEW c \in Selections(m)
    PROVE  /\ c.to \subseteq Peers /\ c.share \in Nat
           /\ setup.algo = "spray" => c.share = 1
           /\ KeepsList => /\ c.to \cap SentOf(m) = {}
                           /\ Writes(c) \/ (InStore /\ ~stored) \/ c.to = {}
           /\ Writes(c) => /\ c.meta \in MetaData
                           /\ c.meta.sent = SentOf(m) \cup c.to
           /\ Spraying => /\ Writes(c)
                          /\ Cardinality(c.to) \in Nat
                          /\ c.meta.copies = m.copies - Cardinality(c.to) * c.share
                          /\ c.meta.copies >= 1
<1>1. setup \in SetupRec /\ connected \in SUBSET Peers
  BY SetupAssumption DEF RoutingTypeOK
<1>2. CASE setup.algo = "spray"
  <2>1. m \in MetaData /\ m.copies >= 2 /\ m # None
    BY <1>2 DEF Spraying
  <2>2. c \in SpraySenders(m, connected)
    BY <1>2 DEF Selections
  <2>3. Writes(c)
    BY <1>2 DEF Writes, InStore, Spraying
  <2>4. /\ c.to \subseteq connected /\ c.share = 1 /\ c.meta \in MetaData
        /\ c.to \cap m.sent = {}
        /\ c.meta.sent = m.sent \cup c.to
        /\ Cardinality(c.to) \in Nat
        /\ c.meta.copies = m.copies - Cardinality(c.to) * c.share
        /\ c.meta.copies >= 1
    BY <1>1, <2>1, <2>2, SpraySelection
  <2> QED
    BY <1>1, <2>1, <2>3, <2>4 DEF SentOf
<1>3. CASE setup.algo = "binary_spray"
  <2>1. m \in MetaData /\ m.copies >= 2 /\ m # None
    BY <1>3 DEF Spraying
  <2>2. c \in BinarySenders(m, connected)
    BY <1>3 DEF Selections
  <2>3. Writes(c)
    BY <1>3 DEF Writes, InStore, Spraying
  <2>4. /\ c.to \subseteq connected /\ c.share \in Nat /\ c.meta \in MetaData
        /\ c.to \cap m.sent = {}
        /\ c.meta.sent = m.sent \cup c.to
        /\ Cardinality(c.to) \in Nat
        /\ c.meta.copies = m.copies - Cardinality(c.to) * c.share
        /\ c.meta.copies >= 1
    BY <1>1, <2>1, <2>2, BinarySelection
  <2> QED
    BY <1>1, <1>3, <2>1, <2>3, <2>4 DEF SentOf
<1>4. CASE setup.algo \in {"prophet", "dtlsr"}
  <2>1. ~Spraying
    BY <1>4 DEF Spraying
  <2>2. ASSUME NEW C \in SUBSET Peers, c = FilterCLAs(m, C)
        PROVE  /\ c.to \subseteq Peers /\ c.share \in Nat
               /\ c.meta \in MetaData
               /\ c.to \cap SentOf(m) = {}
               /\ c.meta.sent = SentOf(m) \cup c.to
    BY <2>2 DEF FilterCLAs, MetaData, SentOf
  <2>3. CASE c = NextNode(m) /\ setup.algo = "dtlsr" /\ ~setup.metadata
    BY <1>1, <2>1, <2>3 DEF NextNode, Writes, KeepsList
  <2>4. Better(connected) \in SUBSET Peers
    BY <1>1 DEF Better
  <2>5. \/ c = FilterCLAs(m, Better(connected))
        \/ c = FilterCLAs(m, connected) /\ setup.metadata /\ setup.algo = "dtlsr"
        \/ c = NextNode(m) /\ setup.algo = "dtlsr" /\ ~setup.metadata
    BY <1>4 DEF Selections
  <2>6. KeepsList => Writes(c) \/ (InStore /\ ~stored) \/ c.to = {}
    BY <1>4 DEF KeepsList, Writes
  <2> QED
    BY <1>1, <1>4, <2>1, <2>2, <2>3, <2>4, <2>5, <2>6
<1> QED
  BY <1>1, <1>2, <1>3, <1>4 DEF SetupRec

-----------------------------------------------------------------------------
(* What the steps of a dispatcher do to its frame.                         *)

\* The peers of a frame that the list is about; those it selected; whether a
\* direct delivery failed and is about to be reported.
Others(f) == Busy(f) \ {Dest}
Chosen(f) == IF f.direct THEN {} ELSE Busy(f)
Due(f) == IF f.direct /\ f.st[Dest] = "failed" THEN 1 ELSE 0

\* Dispatcher d goes on with frame f.
Turns(d, f) == fr' = [fr EXCEPT ![d] = f] /\ GoodFrame(f)

\* Nothing changes for any peer.
Still(d) ==
    \E f \in Frame : /\ Turns(d, f)
                     /\ Others(f) = Others(fr[d]) /\ Chosen(f) = Chosen(fr[d])
                     /\ Load(f) = Load(fr[d]) /\ Due(f) = Due(fr[d])

\* Something changes for peer p.
Decides(d, p, f) ==
    /\ Turns(d, f)
    /\ f.direct = fr[d].direct
    /\ f.st[p] \in {"none", "failed"}
    /\ \A q \in Peers \ {p} : f.st[q] = fr[d].st[q]
    /\ Load(fr[d]) \in Nat /\ Share(fr[d]) \in Nat
    /\ Load(f) = IF f.st[p] = "none" THEN Load(fr[d]) - Share(fr[d])
                                     ELSE Load(fr[d])

LEMMA IdleFrameOK ==
    /\ IdleFrame \in Frame
    /\ IdleFrame.pc = "idle" /\ ~IdleFrame.direct
    /\ IdleFrame.st = [p \in Peers |-> "none"]
    /\ Busy(IdleFrame) = {}
BY DEF IdleFrame, Frame, Labels, SendStates, Busy

LEMMA IdleIsGood == GoodFrame(IdleFrame)
BY IdleFrameOK, RoutingAssumption DEF GoodFrame, IdleFrame

\* A step that writes one good frame.
LEMMA FrameStep ==
    ASSUME RoutingTypeOK, FramesOK, setup' = setup,
           NEW d \in Dispatchers, NEW f \in Frame, Turns(d, f)
    PROVE  fr' \in [Dispatchers -> Frame] /\ FramesOK'
<1>1. \A e \in Dispatchers : fr'[e] = IF e = d THEN f ELSE fr[e]
  BY DEF RoutingTypeOK, Turns
<1>2. Spraying' = Spraying
  BY DEF Spraying
<1>3. \A e \in Dispatchers : GoodFrame(IF e = d THEN f ELSE fr[e])
  BY DEF FramesOK, Turns
<1>4. ASSUME NEW e \in Dispatchers PROVE GoodFrame(fr[e])'
  <2>1. GoodFrame(fr'[e])
    BY <1>1, <1>3
  <2> QED
    BY <1>2, <2>1 DEF GoodFrame
<1>5. FramesOK'
  BY <1>4 DEF FramesOK
<1> QED
  BY <1>5 DEF RoutingTypeOK, Turns

\* A step that leaves the frames alone.
LEMMA FrameSame ==
    ASSUME FramesOK, setup' = setup, fr' = fr
    PROVE  FramesOK'
BY DEF FramesOK, GoodFrame, Spraying

\* A load of nothing.
LEMMA NoLoad ==
    ASSUME NEW f \in Frame, Busy(f) = {} \/ f.direct \/ InStore
    PROVE  Load(f) = 0
<1>1. IsFiniteSet(Busy(f)) /\ Cardinality(Busy(f)) \in Nat
  BY RoutingAssumption, FS_Subset, FS_CardinalityType DEF Busy
<1>2. Share(f) \in Nat
  BY DEF Share, Frame
<1>3. Busy(f) = {} => Cardinality(Busy(f)) = 0
  BY FS_EmptySet
<1>4. f.direct \/ InStore => Share(f) = 0
  BY DEF Share
<1> QED
  BY <1>1, <1>2, <1>3, <1>4 DEF Load

\* One peer less.
LEMMA LessLoad ==
    ASSUME NEW f \in Frame, NEW g \in Frame, NEW p \in Peers,
           f.st[p] # "none", g.st = [f.st EXCEPT ![p] = "none"],
           g.direct = f.direct, g.share = f.share
    PROVE  Load(f) \in Nat /\ Share(f) \in Nat /\ Load(g) = Load(f) - Share(f)
<1>1. IsFiniteSet(Busy(f)) /\ Cardinality(Busy(f)) \in Nat
  BY RoutingAssumption, FS_Subset, FS_CardinalityType DEF Busy
<1>2. Busy(g) = Busy(f) \ {p} /\ p \in Busy(f)
  BY DEF Busy, Frame
<1>3. Cardinality(Busy(g)) = Cardinality(Busy(f)) - 1
  BY <1>1, <1>2, FS_RemoveElement
<1>4. Share(f) \in Nat /\ Share(g) = Share(f)
  BY DEF Share, Frame
<1> DEFINE n == Cardinality(Busy(f))
           k == Share(f)
<1>5. n \in Nat /\ k \in Nat /\ (n - 1) * k = n * k - k /\ n * k \in Nat
  BY <1>1, <1>4
<1> QED
  BY <1>3, <1>4, <1>5 DEF Load

\* The same peers.
LEMMA SameLoad ==
    ASSUME NEW f, NEW g, Busy(g) = Busy(f), g.direct = f.direct, g.share = f.share
    PROVE  Load(g) = Load(f)
BY DEF Load, Share

LEMMA ForwardStep ==
    ASSUME ForwardInv, NEW d \in Dispatchers, Forward(d)
    PROVE  Still(d) /\ UNCHANGED <<setup, connected, stored, meta, Counts>>
<1>1. PICK f : fr' = [fr EXCEPT ![d] = f] /\
         \/ f = [IdleFrame EXCEPT !.pc = "sending", !.direct = TRUE,
                          !.del = TRUE, !.hasBlock = (setup.block # None),
                          !.st[Dest] = "sending"]
         \/ f = [IdleFrame EXCEPT !.pc = "read", !.hasBlock = (setup.block # None)]
  BY DEF Forward
<1>2. /\ f \in Frame /\ GoodFrame(f) /\ (Busy(f) = {} \/ f.direct)
      /\ Others(f) = {} /\ Chosen(f) = {} /\ Due(f) = 0
  <2> DEFINE none == [p \in Peers |-> "none"]
             fm == [p \in Peers |-> None]
             b == (setup.block # None)
  <2>1. none \in [Peers -> SendStates] /\ fm \in [Peers -> MetaData \cup {None}]
    BY DEF SendStates
  <2>2. CASE f = [IdleFrame EXCEPT !.pc = "sending", !.direct = TRUE,
                          !.del = TRUE, !.hasBlock = b, !.st[Dest] = "sending"]
    <3> DEFINE to == [none EXCEPT ![Dest] = "sending"]
    <3>1. f = [pc |-> "sending", m |-> None, direct |-> TRUE, share |-> 0,
               hasBlock |-> b, sent |-> FALSE, del |-> TRUE, st |-> to, fm |-> fm]
      BY <2>2 DEF IdleFrame
    <3>2. /\ to \in [Peers -> SendStates] /\ \A p \in Peers : to[p] # "failed"
          /\ \A p \in Peers : to[p] # "none" => p = Dest
      BY <2>1 DEF SendStates
    <3> HIDE DEF to, none, fm, b
    <3>3. b \in BOOLEAN
      BY DEF b
    <3>4. f \in Frame /\ GoodFrame(f) /\ f.direct
      BY <2>1, <3>1, <3>2, <3>3 DEF Frame, Labels, GoodFrame
    <3>5. Others(f) = {} /\ Chosen(f) = {} /\ Due(f) = 0
      BY <3>1, <3>2, RoutingAssumption DEF Others, Busy, Chosen, Due
    <3> QED
      BY <3>4, <3>5
  <2>3. CASE f = [IdleFrame EXCEPT !.pc = "read", !.hasBlock = b]
    <3>1. f = [pc |-> "read", m |-> None, direct |-> FALSE, share |-> 0,
               hasBlock |-> b, sent |-> FALSE, del |-> FALSE, st |-> none, fm |-> fm]
      BY <2>3 DEF IdleFrame
    <3>2. \A p \in Peers : none[p] = "none"
      OBVIOUS
    <3> HIDE DEF none, fm, b
    <3>3. b \in BOOLEAN
      BY DEF b
    <3>4. f \in Frame /\ GoodFrame(f) /\ Busy(f) = {}
      BY <2>1, <3>1, <3>2, <3>3, RoutingAssumption DEF Frame, Labels, GoodFrame, Busy
    <3>5. Others(f) = {} /\ Chosen(f) = {} /\ Due(f) = 0
      BY <3>1, <3>4 DEF Others, Chosen, Due
    <3> QED
      BY <3>4, <3>5
  <2> QED
    BY <1>1, <2>2, <2>3
<1>3. UNCHANGED <<setup, connected, stored, meta, Counts>>
  BY DEF Forward
<1>4. fr[d] \in Frame /\ Busy(fr[d]) = {} /\ ~fr[d].direct
  BY DEF Forward, ForwardInv, RoutingTypeOK, FramesOK, GoodFrame, Busy
<1>5. Load(f) = 0 /\ Load(fr[d]) = 0
  BY <1>2, <1>4, NoLoad
<1>6. Others(fr[d]) = {} /\ Chosen(fr[d]) = {} /\ Due(fr[d]) = 0
  BY <1>4 DEF Others, Chosen, Due
<1> QED
  BY <1>1, <1>2, <1>3, <1>5, <1>6 DEF Still, Turns

LEMMA SenderReadStep ==
    ASSUME ForwardInv, NEW d \in Dispatchers, SenderRead(d)
    PROVE  Still(d) /\ UNCHANGED <<setup, connected, stored, meta, Counts>>
<1>1. PICK f : fr' = [fr EXCEPT ![d] = f] /\
         \/ f = IdleFrame
         \/ ~NoSenders /\ f = [fr[d] EXCEPT !.pc = "write", !.m = meta]
  BY DEF SenderRead
<1>2. /\ fr[d] \in Frame /\ meta \in MetaData \cup {None}
      /\ GoodFrame(fr[d]) /\ fr[d].pc = "read"
  BY DEF ForwardInv, RoutingTypeOK, FramesOK, SenderRead
<1>3. f \in Frame
  BY <1>1, <1>2, IdleFrameOK DEF Frame, Labels
<1>4. GoodFrame(f)
  <2>1. CASE f = IdleFrame
    BY <2>1, IdleIsGood
  <2>2. CASE ~NoSenders /\ f = [fr[d] EXCEPT !.pc = "write", !.m = meta]
    <3>1. Spraying => meta # None /\ meta.copies >= 2
      <4>1. Spraying => meta # None /\ ~(meta.copies < 2)
        BY <2>2 DEF NoSenders
      <4> QED
        BY <1>2, <4>1 DEF MetaData
    <3>2. /\ f.pc = "write" /\ f.m = meta /\ f.direct = fr[d].direct
          /\ f.st = fr[d].st
      BY <1>2, <2>2 DEF Frame
    <3> QED
      BY <1>2, <3>1, <3>2, RoutingAssumption DEF GoodFrame
  <2> QED
    BY <1>1, <2>1, <2>2
<1>5. /\ Busy(fr[d]) = {} /\ Busy(f) = {} /\ ~fr[d].direct /\ ~f.direct
  <2>1. Busy(fr[d]) = {} /\ ~fr[d].direct
    BY <1>2 DEF GoodFrame, Busy
  <2>2. f = IdleFrame \/ (f.st = fr[d].st /\ f.direct = fr[d].direct)
    BY <1>1, <1>2 DEF Frame
  <2> QED
    BY <2>1, <2>2, IdleFrameOK DEF Busy
<1>6. Load(f) = 0 /\ Load(fr[d]) = 0
  BY <1>2, <1>3, <1>5, NoLoad
<1>7. /\ Others(fr[d]) = Others(f) /\ Chosen(fr[d]) = Chosen(f)
      /\ Due(fr[d]) = Due(f)
  BY <1>5 DEF Others, Chosen, Due
<1>8. UNCHANGED <<setup, connected, stored, meta, Counts>>
  BY DEF SenderRead
<1> QED
  BY <1>1, <1>3, <1>4, <1>6, <1>7, <1>8 DEF Still, Turns

LEMMA FilteredStep ==
    ASSUME ForwardInv, NEW d \in Dispatchers, Filtered(d)
    PROVE  Still(d) /\ UNCHANGED <<setup, connected, stored, meta, Counts>>
<1>1. fr[d] \in Frame /\ GoodFrame(fr[d]) /\ fr[d].pc = "filter"
  BY DEF ForwardInv, RoutingTypeOK, FramesOK, Filtered
<1>2. PICK f : /\ fr' = [fr EXCEPT ![d] = f]
               /\ f = [fr[d] EXCEPT !.pc = "sending",
                                    !.del = fr[d].del /\ InFlight(d) # {}]
  BY <1>1 DEF Filtered, Frame, ForwardInv, RoutingTypeOK
<1>3. f \in Frame
  BY <1>1, <1>2 DEF Frame, Labels
<1>4. /\ f.pc = "sending" /\ f.st = fr[d].st /\ f.fm = fr[d].fm
      /\ f.direct = fr[d].direct /\ f.share = fr[d].share
      /\ f.hasBlock = fr[d].hasBlock
  BY <1>1, <1>2 DEF Frame
<1>5. GoodFrame(f)
  BY <1>1, <1>4, RoutingAssumption DEF Filtered, GoodFrame
<1>6. /\ Others(fr[d]) = Others(f) /\ Chosen(fr[d]) = Chosen(f)
      /\ Due(fr[d]) = Due(f) /\ Busy(f) = Busy(fr[d])
  BY <1>4 DEF Others, Chosen, Due, Busy
<1>7. Load(f) = Load(fr[d])
  BY <1>4, <1>6, SameLoad
<1>8. UNCHANGED <<setup, connected, stored, meta, Counts>>
  BY DEF Filtered
<1> QED
  BY <1>2, <1>3, <1>5, <1>6, <1>7, <1>8 DEF Still, Turns

LEMMA FinishStep ==
    ASSUME ForwardInv, NEW d \in Dispatchers, Finish(d)
    PROVE  /\ Still(d) /\ UNCHANGED <<setup, connected, Counts>>
           /\ \/ stored' = stored /\ meta' = meta
              \/ stored' = FALSE /\ meta' = IF InStore THEN None ELSE meta
<1> DEFINE deleted == fr[d].del /\ fr[d].sent
<1>1. /\ fr' = [fr EXCEPT ![d] = IdleFrame]
      /\ stored' = (stored /\ ~deleted)
      /\ meta' = IF deleted /\ InStore THEN None ELSE meta
      /\ setup' = setup /\ connected' = connected /\ UNCHANGED Counts
  BY DEF Finish
<1>2. fr[d] \in Frame /\ Busy(fr[d]) = {} /\ stored \in BOOLEAN
  BY DEF Finish, InFlight, Busy, ForwardInv, RoutingTypeOK
<1>3. Load(fr[d]) = 0 /\ Load(IdleFrame) = 0
  BY <1>2, NoLoad, IdleFrameOK
<1>4. /\ Others(fr[d]) = Others(IdleFrame) /\ Chosen(fr[d]) = Chosen(IdleFrame)
      /\ Due(fr[d]) = Due(IdleFrame)
  BY <1>2, IdleFrameOK, RoutingAssumption DEF Others, Chosen, Due, Busy
<1>5. Still(d)
  BY <1>1, <1>3, <1>4, IdleFrameOK, IdleIsGood DEF Still, Turns
<1>6. deleted \in BOOLEAN
  BY <1>2 DEF Frame
<1> QED
  BY <1>1, <1>2, <1>5, <1>6

\* SenderForBundle's second half: what is selected is on its way.
SelectsInto(d, c, f) ==
    /\ Turns(d, f)
    /\ Busy(f) = c.to /\ ~f.direct
    /\ Load(f) = IF Spraying THEN Cardinality(c.to) * c.share ELSE 0

LEMMA SenderWriteStep ==
    ASSUME ForwardInv, NEW d \in Dispatchers, SenderWrite(d)
    PROVE  /\ UNCHANGED <<setup, connected, stored, given, out, missed, has,
                          crashes>>
           /\ fr[d].m \in MetaData \cup {None}
           /\ Spraying => fr[d].m # None /\ fr[d].m.copies >= 2
           /\ Busy(fr[d]) = {} /\ ~fr[d].direct /\ Load(fr[d]) = 0
           /\ \E c \in Selections(fr[d].m) :
                 /\ meta' = IF Writes(c) THEN c.meta ELSE meta
                 /\ clean' = (clean /\ (Writes(c) => meta = fr[d].m))
                 /\ \E f \in Frame : SelectsInto(d, c, f)
<1> DEFINE m == fr[d].m
<1>1. PICK c \in Selections(m) :
         /\ meta' = IF Writes(c) THEN c.meta ELSE meta
         /\ clean' = (clean /\ (Writes(c) => meta = m))
         /\ fr' = [fr EXCEPT ![d] =
               IF c.to = {} THEN IdleFrame
               ELSE [fr[d] EXCEPT
                       !.pc = IF Excluded(c.to) = {} THEN "sending" ELSE "filter",
                       !.m = None, !.share = c.share,
                       !.hasBlock = fr[d].hasBlock \/ setup.algo = "binary_spray",
                       !.del = setup.algo = "dtlsr" /\ ~setup.metadata,
                       !.st = [p \in Peers |->
                                 IF p \in Excluded(c.to) THEN "excluded"
                                 ELSE IF p \in c.to THEN "sending" ELSE "none"]]]
  BY DEF SenderWrite
<1>2. fr[d] \in Frame /\ GoodFrame(fr[d]) /\ fr[d].pc = "write"
  BY DEF ForwardInv, FramesOK, RoutingTypeOK, SenderWrite
<1>3. /\ m \in MetaData \cup {None}
      /\ Spraying => m # None /\ m.copies >= 2
  BY <1>2 DEF Frame, GoodFrame
<1>4. /\ c.to \subseteq Peers /\ c.share \in Nat
      /\ setup.algo = "spray" => c.share = 1
      /\ Spraying => Cardinality(c.to) \in Nat
  BY <1>3, Selection DEF ForwardInv
<1>5. Busy(fr[d]) = {} /\ ~fr[d].direct
  BY <1>2 DEF GoodFrame, Busy
<1>6. Load(fr[d]) = 0
  BY <1>2, <1>5, NoLoad
<1>7. PICK f \in Frame :
               /\ fr' = [fr EXCEPT ![d] = f]
               /\ GoodFrame(f) /\ Busy(f) = c.to
               /\ ~f.direct /\ (c.to # {} => f.share = c.share)
  <2>1. CASE c.to = {}
    BY <1>1, <2>1, IdleFrameOK, IdleIsGood
  <2>2. CASE c.to # {}
    <3> DEFINE b == fr[d].hasBlock \/ setup.algo = "binary_spray"
               x == setup.algo = "dtlsr" /\ ~setup.metadata
               l == IF Excluded(c.to) = {} THEN "sending" ELSE "filter"
               to == [p \in Peers |-> IF p \in Excluded(c.to) THEN "excluded"
                                      ELSE IF p \in c.to THEN "sending" ELSE "none"]
               f == [fr[d] EXCEPT !.pc = l, !.m = None, !.share = c.share,
                                  !.hasBlock = b, !.del = x, !.st = to]
    <3>1. /\ b \in BOOLEAN /\ x \in BOOLEAN
          /\ setup.algo = "binary_spray" => b
      BY <1>2 DEF Frame
    <3>2. fr' = [fr EXCEPT ![d] = f]
      BY <1>1, <2>2
    <3>3. to \in [Peers -> SendStates] /\ l \in {"sending", "filter"}
      BY DEF SendStates
    \* What the mule excludes is not sent to.
    <3>4. /\ \A p \in Peers : to[p] # "failed" /\ (to[p] # "none" <=> p \in c.to)
          /\ setup.mule => \A p \in Sensors : to[p] # "sending"
          /\ setup.mule /\ l = "sending" => \A p \in Sensors : to[p] = "none"
      BY RoutingAssumption DEF Excluded
    <3> HIDE DEF b, x, l, to
    <3>5. /\ f.pc = l /\ f.m = None /\ f.share = c.share /\ f.st = to
          /\ f.direct = fr[d].direct /\ f.fm = fr[d].fm /\ f.hasBlock = b
      BY <1>2 DEF Frame
    <3>6. f \in Frame
      BY <1>2, <1>4, <3>1, <3>3 DEF Frame, Labels
    <3> HIDE DEF f
    <3>7. ~f.direct
      BY <1>5, <3>5
    <3>8. GoodFrame(f)
      BY <1>4, <3>1, <3>3, <3>4, <3>5, <3>7, RoutingAssumption DEF GoodFrame
    <3>9. Busy(f) = c.to
      BY <1>4, <3>4, <3>5 DEF Busy
    <3> QED
      BY <3>2, <3>5, <3>6, <3>7, <3>8, <3>9
  <2> QED
    BY <2>1, <2>2
<1>8. Load(f) = IF Spraying THEN Cardinality(c.to) * c.share ELSE 0
  <2>1. CASE c.to = {}
    <3>1. Cardinality(c.to) = 0 /\ Load(f) = 0
      BY <1>7, <2>1, NoLoad, FS_EmptySet
    <3> QED
      BY <1>4, <3>1
  <2>2. CASE c.to # {} /\ Spraying
    BY <1>7, <2>2 DEF Load, Share, InStore
  <2>3. CASE ~Spraying
    BY <1>7, <2>3, NoLoad DEF InStore
  <2> QED
    BY <2>1, <2>2, <2>3
<1>9. SelectsInto(d, c, f)
  BY <1>7, <1>8 DEF SelectsInto, Turns
<1>10. UNCHANGED <<setup, connected, stored, given, out, missed, has, crashes>>
  BY DEF SenderWrite
<1> QED
  BY <1>1, <1>3, <1>5, <1>6, <1>9, <1>10

\* A frame in which only the state of one peer and what ReportFailure read
\* for it change.
LEMMA PeerStep ==
    ASSUME NEW g \in Frame, GoodFrame(g), NEW p \in Peers, g.st[p] # "none",
           NEW f \in Frame, f.pc = g.pc, f.m = g.m, f.direct = g.direct,
           f.share = g.share, f.hasBlock = g.hasBlock,
           \/ f.st[p] = "none"
           \/ /\ f.st[p] = "failed" /\ f.fm[p] # None
              /\ Spraying => f.fm[p].copies >= 1 \/ setup.block = 0,
           \A q \in Peers \ {p} : f.st[q] = g.st[q] /\ f.fm[q] = g.fm[q]
    PROVE  /\ GoodFrame(f)
           /\ Load(g) \in Nat /\ Share(g) \in Nat
           /\ Load(f) = IF f.st[p] = "none" THEN Load(g) - Share(g) ELSE Load(g)
<1>1. g.pc \notin {"idle", "read", "write"}
  BY DEF GoodFrame
<1>2. GoodFrame(f)
  <2>1. ASSUME NEW q \in Peers, f.st[q] # "none"
        PROVE  /\ f.direct => q = Dest
               /\ ~f.direct /\ setup.algo = "spray" => f.share = 1
               /\ ~f.direct /\ setup.algo = "binary_spray" => f.hasBlock
               /\ f.st[q] = "failed" =>
                     /\ f.fm[q] # None
                     /\ Spraying => f.fm[q].copies >= 1 \/ setup.block = 0
    <3>1. CASE q = p
      BY <2>1, <3>1 DEF GoodFrame
    <3>2. CASE q # p
      BY <2>1, <3>2 DEF GoodFrame
    <3> QED
      BY <3>1, <3>2
  <2>2. ASSUME setup.mule, NEW q \in Sensors
        PROVE  /\ f.pc = "filter" => f.st[q] # "sending"
               /\ f.pc = "sending" /\ ~f.direct => f.st[q] = "none"
    <3>1. q \in Peers
      BY RoutingAssumption
    <3>2. CASE q = p
      BY <2>2, <3>1, <3>2 DEF GoodFrame
    <3>3. CASE q # p
      BY <2>2, <3>1, <3>3 DEF GoodFrame
    <3> QED
      BY <3>2, <3>3
  <2> QED
    BY <1>1, <2>1, <2>2 DEF GoodFrame
<1>3. Load(g) \in Nat /\ Share(g) \in Nat
  <2>1. IsFiniteSet(Busy(g)) /\ Cardinality(Busy(g)) \in Nat
    BY RoutingAssumption, FS_Subset, FS_CardinalityType DEF Busy
  <2>2. Share(g) \in Nat
    BY DEF Share, Frame
  <2> QED
    BY <2>1, <2>2 DEF Load
<1>4. CASE f.st[p] = "none"
  <2>1. f.st = [g.st EXCEPT ![p] = "none"]
    BY <1>4 DEF Frame
  <2>2. Load(f) = Load(g) - Share(g)
    BY <2>1, LessLoad
  <2> QED
    BY <1>2, <1>3, <1>4, <2>2
<1>5. CASE f.st[p] = "failed"
  <2>1. Busy(f) = Busy(g)
    BY <1>5 DEF Busy
  <2>2. Load(f) = Load(g)
    BY <2>1, SameLoad
  <2> QED
    BY <1>2, <1>3, <1>5, <2>2
<1> QED
  BY <1>4, <1>5

LEMMA ShareIsWeight == \A d \in Dispatchers : Weight(d) = Share(fr[d])
BY DEF Weight, Share

LEMMA SendSucceedsStep ==
    ASSUME ForwardInv, NEW d \in Dispatchers, NEW p \in Peers, SendSucceeds(d, p)
    PROVE  /\ UNCHANGED <<setup, connected, stored, meta, given, missed, crashes,
                          clean>>
           /\ out' = out + Share(fr[d]) /\ has' = has \cup {p}
           /\ fr[d].st[p] = "sending"
           /\ \E f \in Frame : Decides(d, p, f) /\ f.st[p] = "none"
<1> DEFINE g == fr[d]
           m == fr[d].fm[p]
           f == [g EXCEPT !.st = [g.st EXCEPT ![p] = "none"],
                          !.fm = [g.fm EXCEPT ![p] = m], !.sent = TRUE]
<1>1. g \in Frame /\ GoodFrame(g) /\ g.st[p] = "sending"
  BY DEF ForwardInv, RoutingTypeOK, FramesOK, SendSucceeds
<1>2. fr' = [fr EXCEPT ![d] = f]
  <2>1. [g.fm EXCEPT ![p] = m] = g.fm
    BY <1>1 DEF Frame
  <2>2. fr' = [fr EXCEPT ![d] = [g EXCEPT !.st = [g.st EXCEPT ![p] = "none"],
                                          !.sent = TRUE]]
    BY <1>1 DEF SendSucceeds, Frame, ForwardInv, RoutingTypeOK
  <2>3. f = [g EXCEPT !.st = [g.st EXCEPT ![p] = "none"], !.sent = TRUE]
    BY <1>1, <2>1 DEF Frame
  <2> QED
    BY <2>2, <2>3
<1>3. m \in MetaData \cup {None}
  BY <1>1 DEF Frame
<1> HIDE DEF m
<1>4. /\ f \in Frame /\ f.pc = g.pc /\ f.m = g.m /\ f.direct = g.direct
      /\ f.share = g.share /\ f.hasBlock = g.hasBlock
      /\ f.st[p] = "none" /\ f.fm[p] = m
      /\ \A q \in Peers \ {p} : f.st[q] = g.st[q] /\ f.fm[q] = g.fm[q]
  BY <1>1, <1>3 DEF Frame, SendStates
<1> HIDE DEF f
<1>5. /\ GoodFrame(f)
      /\ Load(g) \in Nat /\ Share(g) \in Nat /\ Load(f) = Load(g) - Share(g)
  BY <1>1, <1>3, <1>4, PeerStep
<1>6. Decides(d, p, f)
  BY <1>2, <1>4, <1>5 DEF Decides, Turns
<1>7. /\ UNCHANGED <<setup, connected, stored, meta, given, missed, crashes,
                     clean>>
      /\ out' = out + Share(g) /\ has' = has \cup {p}
  BY ShareIsWeight DEF SendSucceeds
<1> QED
  BY <1>1, <1>4, <1>6, <1>7

LEMMA FailureReadStep ==
    ASSUME ForwardInv, NEW d \in Dispatchers, NEW p \in Peers, FailureRead(d, p)
    PROVE  /\ UNCHANGED <<setup, connected, stored, meta, given, out, has,
                          crashes, clean>>
           /\ missed' = IF fr[d].direct THEN missed + 1 ELSE missed
           /\ fr[d].st[p] \in {"sending", "excluded"}
           /\ \E f \in Frame :
                 /\ Decides(d, p, f)
                 /\ f.st[p] = IF Reportable(d) THEN "failed" ELSE "none"
<1> DEFINE g == fr[d]
           l == IF Reportable(d) THEN "failed" ELSE "none"
           m == IF Reportable(d) THEN meta ELSE None
           f == [g EXCEPT !.st = [g.st EXCEPT ![p] = l],
                          !.fm = [g.fm EXCEPT ![p] = m], !.sent = g.sent]
<1>1. g \in Frame /\ GoodFrame(g) /\ g.st[p] \in {"sending", "excluded"}
  BY DEF ForwardInv, RoutingTypeOK, FramesOK, FailureRead
<1>2. fr' = [fr EXCEPT ![d] = f]
  <2>1. fr' = [fr EXCEPT ![d].st[p] = l, ![d].fm[p] = m]
    BY DEF FailureRead
  <2> HIDE DEF l, m
  <2>2. fr' = [fr EXCEPT ![d] = [g EXCEPT !.st = [g.st EXCEPT ![p] = l],
                                          !.fm = [g.fm EXCEPT ![p] = m]]]
    BY <1>1, <2>1 DEF Frame, ForwardInv, RoutingTypeOK
  <2>3. f = [g EXCEPT !.st = [g.st EXCEPT ![p] = l], !.fm = [g.fm EXCEPT ![p] = m]]
    BY <1>1 DEF Frame
  <2> QED
    BY <2>2, <2>3
<1>3. /\ m \in MetaData \cup {None} /\ l \in {"none", "failed"}
      /\ l = "failed" =>
            m # None /\ (Spraying => m.copies >= 1 \/ setup.block = 0)
      /\ g.sent \in BOOLEAN
  BY <1>1 DEF Frame, ForwardInv, RoutingTypeOK, LastCopyKept, Reportable
<1>4. l = IF Reportable(d) THEN "failed" ELSE "none"
  OBVIOUS
<1> HIDE DEF m, l
<1>5. /\ f \in Frame /\ f.pc = g.pc /\ f.m = g.m /\ f.direct = g.direct
      /\ f.share = g.share /\ f.hasBlock = g.hasBlock
      /\ f.st[p] = l /\ f.fm[p] = m
      /\ \A q \in Peers \ {p} : f.st[q] = g.st[q] /\ f.fm[q] = g.fm[q]
  BY <1>1, <1>3 DEF Frame, SendStates
<1> HIDE DEF f
<1>6. /\ GoodFrame(f)
      /\ Load(g) \in Nat /\ Share(g) \in Nat
      /\ Load(f) = IF f.st[p] = "none" THEN Load(g) - Share(g) ELSE Load(g)
  BY <1>1, <1>3, <1>5, PeerStep
<1>7. Decides(d, p, f)
  BY <1>2, <1>3, <1>5, <1>6 DEF Decides, Turns
<1>8. /\ UNCHANGED <<setup, connected, stored, meta, given, out, has, crashes,
                     clean>>
      /\ missed' = IF g.direct THEN missed + 1 ELSE missed
  BY DEF FailureRead
<1> QED
  BY <1>1, <1>4, <1>5, <1>7, <1>8

LEMMA FailureWriteStep ==
    ASSUME ForwardInv, NEW d \in Dispatchers, NEW p \in Peers, FailureWrite(d, p)
    PROVE  /\ UNCHANGED <<setup, connected, stored, given, out, missed, has,
                          crashes>>
           /\ fr[d].st[p] = "failed"
           /\ fr[d].fm[p] \in MetaData /\ fr[d].fm[p] # None
           /\ Spraying => fr[d].fm[p].copies >= 1 \/ setup.block = 0
           /\ meta' = IF InStore => stored THEN Failure(fr[d].fm[p], p) ELSE meta
           /\ clean' = (clean /\ ((InStore => stored) => meta = fr[d].fm[p]))
           /\ \E f \in Frame : Decides(d, p, f) /\ f.st[p] = "none"
<1> DEFINE g == fr[d]
           f == [g EXCEPT !.st = [g.st EXCEPT ![p] = "none"],
                          !.fm = [g.fm EXCEPT ![p] = None]]
<1>1. g \in Frame /\ GoodFrame(g) /\ g.st[p] = "failed"
  BY DEF ForwardInv, RoutingTypeOK, FramesOK, FailureWrite
<1>2. fr' = [fr EXCEPT ![d] = f]
  BY <1>1 DEF FailureWrite, Frame, ForwardInv, RoutingTypeOK
<1>3. /\ f \in Frame /\ f.pc = g.pc /\ f.m = g.m /\ f.direct = g.direct
      /\ f.share = g.share /\ f.hasBlock = g.hasBlock /\ f.st[p] = "none"
      /\ \A q \in Peers \ {p} : f.st[q] = g.st[q] /\ f.fm[q] = g.fm[q]
  BY <1>1 DEF Frame, SendStates
<1>4. /\ g.fm[p] \in MetaData /\ g.fm[p] # None
      /\ Spraying => g.fm[p].copies >= 1 \/ setup.block = 0
  BY <1>1 DEF Frame, GoodFrame
<1> HIDE DEF f
<1>5. /\ GoodFrame(f) /\ Load(g) \in Nat /\ Share(g) \in Nat
      /\ Load(f) = Load(g) - Share(g)
  BY <1>1, <1>3, PeerStep
<1>6. Decides(d, p, f)
  BY <1>2, <1>3, <1>5 DEF Decides, Turns
<1>7. /\ UNCHANGED <<setup, connected, stored, given, out, missed, has, crashes>>
      /\ meta' = IF InStore => stored THEN Failure(g.fm[p], p) ELSE meta
      /\ clean' = (clean /\ ((InStore => stored) => meta = g.fm[p]))
  BY DEF FailureWrite
<1> QED
  BY <1>1, <1>3, <1>4, <1>6, <1>7

\* SprayAndWait takes one copy back, the others none; all forget the peer.
LEMMA FailureOK ==
    ASSUME NEW m \in MetaData, NEW p \in Peers
    PROVE  /\ Failure(m, p) \in MetaData
           /\ Failure(m, p).sent = m.sent \ {p}
           /\ Failure(m, p).copies = IF setup.algo = "spray" THEN m.copies + 1
                                     ELSE m.copies
BY DEF Failure, SprayFailure, BinaryFailure, MetaData

-----------------------------------------------------------------------------
(* Types, frames and the last copy.                                        *)

\* NotifyNewBundle creates metadata that lists the previous node at most, and
\* the copies that the source or the block grants.
LEMMA NoteBundleOK ==
    ASSUME setup \in Setups
    PROVE  /\ NoteBundle \in MetaData \cup {None}
           /\ PrevNodes(setup.prev) \subseteq Peers
           /\ Spraying => /\ NoteBundle \in MetaData
                          /\ NoteBundle.copies >= 1 \/ setup.block = 0
           /\ NoteBundle # None =>
                /\ NoteBundle.sent \subseteq PrevNodes(setup.prev)
                /\ PrevNodes(setup.prev) \ PassedOver \subseteq NoteBundle.sent
           /\ NoteBundle = None => PrevNodes(setup.prev) \subseteq PassedOver
<1>1. setup \in SetupRec
  BY SetupAssumption
<1>2. /\ setup.prev \in Peers \cup {None} /\ setup.block \in Nat \cup {None}
      /\ PrevNodes(setup.prev) \in SUBSET Peers
  BY <1>1 DEF SetupRec, PrevNodes
<1>3. CASE setup.algo = "spray"
  <2>1. NoteBundle = SprayNotify(setup.own, setup.prev)
    BY <1>3 DEF NoteBundle
  <2>2. NoteBundle \in MetaData /\ NoteBundle.copies >= 1 /\ NoteBundle # None
    BY <1>2, <2>1, SprayAssumption, SetupAssumption DEF SprayNotify, MetaData
  <2>3. /\ NoteBundle.sent \subseteq PrevNodes(setup.prev)
        /\ PrevNodes(setup.prev) \ PassedOver \subseteq NoteBundle.sent
    BY <1>3, <2>1 DEF SprayNotify, PassedOver
  <2> QED
    BY <1>2, <2>2, <2>3
<1>4. CASE setup.algo = "binary_spray"
  <2>1. NoteBundle = BinaryNotify(setup.block, setup.prev)
    BY <1>4 DEF NoteBundle
  <2>2. /\ NoteBundle \in MetaData /\ NoteBundle # None
        /\ NoteBundle.copies >= 1 \/ setup.block = 0
    BY <1>2, <2>1, SprayAssumption, SetupAssumption DEF BinaryNotify, MetaData
  <2>3. /\ NoteBundle.sent \subseteq PrevNodes(setup.prev)
        /\ PrevNodes(setup.prev) \ PassedOver \subseteq NoteBundle.sent
    BY <1>4, <2>1 DEF BinaryNotify, PassedOver
  <2> QED
    BY <1>2, <2>2, <2>3
<1>5. CASE setup.algo \notin {"spray", "binary_spray"}
  <2>1. NoteBundle = IF setup.prev = None \/ (setup.algo = "prophet" /\ setup.metadata)
                     THEN None ELSE [sent |-> {setup.prev}, copies |-> 0]
    BY <1>5 DEF NoteBundle
  <2>2. ~Spraying
    BY <1>5 DEF Spraying
  <2>3. CASE setup.prev = None \/ (setup.algo = "prophet" /\ setup.metadata)
    BY <1>2, <2>1, <2>2, <2>3 DEF PassedOver, PrevNodes
  <2>4. CASE ~(setup.prev = None \/ (setup.algo = "prophet" /\ setup.metadata))
    <3>1. NoteBundle \in MetaData /\ NoteBundle # None
      BY <1>2, <2>1, <2>4, SetupAssumption DEF MetaData
    <3>2. NoteBundle.sent = PrevNodes(setup.prev)
      BY <2>1, <2>4 DEF PrevNodes
    <3> QED
      BY <1>2, <2>2, <3>1, <3>2
  <2> QED
    BY <2>3, <2>4
<1> QED
  BY <1>3, <1>4, <1>5

\* What a step leaves alone that the setup determines.
LEMMA SetupSame ==
    ASSUME setup' = setup
    PROVE  /\ Spraying' = Spraying /\ InStore' = InStore
           /\ (Spraying <=> ~InStore)
           /\ KeepsList' = KeepsList /\ PassedOver' = PassedOver
BY DEF Spraying, InStore, KeepsList, PassedOver

LEMMA ForwardInvInit == RoutingInit => ForwardInv
<1> SUFFICES ASSUME RoutingInit PROVE ForwardInv
  OBVIOUS
<1>1. setup \in SetupRec
  BY SetupAssumption DEF RoutingInit
<1>2. connected \subseteq Peers
  BY <1>1 DEF RoutingInit, SetupRec
<1>3. RoutingTypeOK
  <2>1. fr \in [Dispatchers -> Frame]
    BY IdleFrameOK DEF RoutingInit
  <2>2. /\ setup \in Setups /\ meta \in MetaData \cup {None} /\ has \subseteq Peers
        /\ stored \in BOOLEAN /\ clean \in BOOLEAN
    BY DEF RoutingInit
  <2>3. given \in Nat /\ out \in Nat /\ missed \in Nat /\ crashes \in Nat
    BY DEF RoutingInit
  <2> QED
    BY <1>2, <2>1, <2>2, <2>3 DEF RoutingTypeOK
<1>4. FramesOK
  BY IdleIsGood DEF RoutingInit, FramesOK
<1>5. LastCopyKept /\ ListInStore
  BY DEF RoutingInit, LastCopyKept, ListInStore
<1> QED
  BY <1>3, <1>4, <1>5 DEF ForwardInv

LEMMA ForwardInvDispatcher ==
    ASSUME ForwardInv, NEW d \in Dispatchers,
           \/ Forward(d) \/ SenderRead(d) \/ Filtered(d) \/ Finish(d)
    PROVE  ForwardInv'
<1>1. /\ Still(d) /\ UNCHANGED <<setup, connected, Counts>>
      /\ \/ stored' = stored /\ meta' = meta
         \/ stored' = FALSE /\ meta' = IF InStore THEN None ELSE meta
  BY ForwardStep, SenderReadStep, FilteredStep, FinishStep
<1>2. PICK f \in Frame : Turns(d, f)
  BY <1>1 DEF Still
<1>3. fr' \in [Dispatchers -> Frame] /\ FramesOK'
  BY <1>1, <1>2, FrameStep DEF ForwardInv
<1>4. Spraying' = Spraying /\ InStore' = InStore /\ (Spraying <=> ~InStore)
  BY <1>1, SetupSame
<1>5. RoutingTypeOK'
  BY <1>1, <1>3 DEF ForwardInv, RoutingTypeOK, Counts
<1>6. LastCopyKept' /\ ListInStore'
  BY <1>1, <1>4 DEF ForwardInv, LastCopyKept, ListInStore
<1> QED
  BY <1>3, <1>5, <1>6 DEF ForwardInv

LEMMA ForwardInvSenderWrite ==
    ASSUME ForwardInv, NEW d \in Dispatchers, SenderWrite(d)
    PROVE  ForwardInv'
<1>1. /\ UNCHANGED <<setup, connected, stored, given, out, missed, has, crashes>>
      /\ fr[d].m \in MetaData \cup {None}
      /\ Spraying => fr[d].m # None /\ fr[d].m.copies >= 2
  BY SenderWriteStep
<1>2. PICK c \in Selections(fr[d].m) :
         /\ meta' = IF Writes(c) THEN c.meta ELSE meta
         /\ clean' = (clean /\ (Writes(c) => meta = fr[d].m))
         /\ \E f \in Frame : SelectsInto(d, c, f)
  BY SenderWriteStep
<1>3. PICK f \in Frame : Turns(d, f)
  BY <1>2 DEF SelectsInto
<1>4. /\ Writes(c) => c.meta \in MetaData
      /\ Spraying => Writes(c) /\ c.meta.copies >= 1
  BY <1>1, <1>2, Selection DEF ForwardInv
<1>5. fr' \in [Dispatchers -> Frame] /\ FramesOK'
  BY <1>1, <1>3, FrameStep DEF ForwardInv
<1>6. Spraying' = Spraying /\ InStore' = InStore /\ (Spraying <=> ~InStore)
  BY <1>1, SetupSame
<1>7. RoutingTypeOK'
  BY <1>1, <1>2, <1>4, <1>5 DEF ForwardInv, RoutingTypeOK
<1>8. LastCopyKept'
  BY <1>1, <1>2, <1>4, <1>6 DEF LastCopyKept
<1>9. ListInStore'
  <2>1. InStore /\ ~stored => ~Writes(c)
    BY DEF Writes
  <2> QED
    BY <1>1, <1>2, <1>6, <2>1 DEF ForwardInv, ListInStore
<1> QED
  BY <1>5, <1>7, <1>8, <1>9 DEF ForwardInv

LEMMA ForwardInvPeer ==
    ASSUME ForwardInv, NEW d \in Dispatchers, NEW p \in Peers,
           SendSucceeds(d, p) \/ FailureRead(d, p) \/ FailureWrite(d, p)
    PROVE  ForwardInv'
<1>1. /\ UNCHANGED <<setup, connected, stored, given, crashes>>
      /\ \E f \in Frame : Decides(d, p, f)
  BY SendSucceedsStep, FailureReadStep, FailureWriteStep
<1>2. PICK f \in Frame : Turns(d, f) /\ Share(fr[d]) \in Nat
  BY <1>1 DEF Decides
<1>3. fr' \in [Dispatchers -> Frame] /\ FramesOK'
  BY <1>1, <1>2, FrameStep DEF ForwardInv
<1>4. Spraying' = Spraying /\ InStore' = InStore /\ (Spraying <=> ~InStore)
  BY <1>1, SetupSame
<1>5. CASE SendSucceeds(d, p) \/ FailureRead(d, p)
  <2>1. /\ meta' = meta /\ clean' = clean
        /\ out' = out \/ out' = out + Share(fr[d])
        /\ missed' = missed \/ missed' = missed + 1
        /\ has' = has \/ has' = has \cup {p}
    BY <1>5, SendSucceedsStep, FailureReadStep
  <2>2. out' \in Nat /\ missed' \in Nat /\ has' \subseteq Peers
    BY <1>2, <2>1 DEF ForwardInv, RoutingTypeOK
  <2>3. RoutingTypeOK'
    BY <1>1, <1>3, <2>1, <2>2 DEF ForwardInv, RoutingTypeOK
  <2>4. LastCopyKept' /\ ListInStore'
    BY <1>1, <1>4, <2>1 DEF ForwardInv, LastCopyKept, ListInStore
  <2> QED
    BY <1>3, <2>3, <2>4 DEF ForwardInv
<1>6. CASE FailureWrite(d, p)
  <2> DEFINE m == fr[d].fm[p]
  <2>1. /\ UNCHANGED <<out, missed, has>> /\ m \in MetaData
        /\ Spraying => m.copies >= 1 \/ setup.block = 0
        /\ meta' = IF InStore => stored THEN Failure(m, p) ELSE meta
        /\ clean' = (clean /\ ((InStore => stored) => meta = m))
    BY <1>6, FailureWriteStep
  <2> HIDE DEF m
  <2>2. /\ Failure(m, p) \in MetaData
        /\ Failure(m, p).copies = IF setup.algo = "spray" THEN m.copies + 1
                                  ELSE m.copies
    BY <2>1, FailureOK
  <2>3. RoutingTypeOK'
    BY <1>1, <1>3, <2>1, <2>2 DEF ForwardInv, RoutingTypeOK
  <2>4. LastCopyKept'
    <3> SUFFICES ASSUME Spraying PROVE meta'.copies >= 1 \/ setup.block = 0
      BY <1>1, <1>4 DEF LastCopyKept
    <3>1. meta' = Failure(m, p) /\ m.copies \in Nat
      BY <1>4, <2>1 DEF MetaData
    <3> QED
      BY <2>1, <2>2, <3>1
  <2>5. ListInStore'
    BY <1>1, <1>4, <2>1 DEF ForwardInv, ListInStore
  <2> QED
    BY <1>3, <2>3, <2>4, <2>5 DEF ForwardInv
<1> QED
  BY <1>5, <1>6

LEMMA ForwardInvOutside ==
    ASSUME ForwardInv,
           NotifyNewBundle \/ DeleteBundle \/ GarbageCollect \/ Crash
    PROVE  ForwardInv'
<1>1. setup' = setup /\ connected' \subseteq Peers /\ setup \in Setups
  BY DEF NotifyNewBundle, DeleteBundle, GarbageCollect, Crash, ForwardInv,
         RoutingTypeOK
<1>2. Spraying' = Spraying /\ InStore' = InStore /\ (Spraying <=> ~InStore)
  BY <1>1, SetupSame
<1>3. CASE NotifyNewBundle
  <2>1. /\ stored' = TRUE /\ meta' = NoteBundle /\ fr' = fr
        /\ has' = PrevNodes(setup.prev)
        /\ given' = IF Spraying THEN given + NoteBundle.copies ELSE given
        /\ clean' = (clean /\ \A d \in Dispatchers : fr[d].pc = "idle")
        /\ UNCHANGED <<connected, out, missed, crashes>>
    BY <1>3 DEF NotifyNewBundle
  <2>2. /\ NoteBundle \in MetaData \cup {None}
        /\ PrevNodes(setup.prev) \subseteq Peers
        /\ Spraying => /\ NoteBundle \in MetaData
                       /\ NoteBundle.copies >= 1 \/ setup.block = 0
    BY <1>1, NoteBundleOK
  <2>3. given' \in Nat
    <3>1. Spraying => NoteBundle.copies \in Nat
      BY <2>2 DEF MetaData
    <3> QED
      BY <2>1, <3>1 DEF ForwardInv, RoutingTypeOK
  <2>4. FramesOK'
    BY <1>1, <2>1, FrameSame DEF ForwardInv
  <2>5. clean' \in BOOLEAN
    BY <2>1 DEF ForwardInv, RoutingTypeOK
  <2>6. RoutingTypeOK'
    BY <1>1, <2>1, <2>2, <2>3, <2>5 DEF ForwardInv, RoutingTypeOK
  <2>7. LastCopyKept' /\ ListInStore'
    BY <1>1, <1>2, <2>1, <2>2 DEF LastCopyKept, ListInStore
  <2> QED
    BY <2>4, <2>6, <2>7 DEF ForwardInv
<1>4. CASE DeleteBundle \/ GarbageCollect
  <2>1. /\ connected' = connected /\ fr' = fr /\ UNCHANGED Counts
        /\ stored' \in BOOLEAN
        /\ \/ stored' = FALSE /\ meta' = IF InStore THEN None ELSE meta
           \/ Spraying /\ stored' = stored /\ meta' = None
    BY <1>4 DEF DeleteBundle, GarbageCollect, ForwardInv, RoutingTypeOK
  <2>2. FramesOK'
    BY <1>1, <2>1, FrameSame DEF ForwardInv
  <2>3. RoutingTypeOK'
    BY <1>1, <2>1 DEF ForwardInv, RoutingTypeOK, Counts
  <2>4. LastCopyKept' /\ ListInStore'
    BY <1>1, <1>2, <2>1 DEF ForwardInv, LastCopyKept, ListInStore
  <2> QED
    BY <2>2, <2>3, <2>4 DEF ForwardInv
<1>5. CASE Crash
  <2>1. /\ fr' = [d \in Dispatchers |-> IdleFrame] /\ connected' = {}
        /\ meta' = IF InStore THEN meta ELSE None
        /\ crashes' = crashes + 1
        /\ UNCHANGED <<stored, given, out, missed, has, clean>>
    BY <1>5 DEF Crash
  <2>2. FramesOK'
    <3>1. ASSUME NEW d \in Dispatchers PROVE GoodFrame(fr[d])'
      BY <2>1, <3>1, IdleFrameOK, RoutingAssumption DEF GoodFrame
    <3> QED
      BY <3>1 DEF FramesOK
  <2>3. fr' \in [Dispatchers -> Frame] /\ crashes' \in Nat
    BY <2>1, IdleFrameOK DEF ForwardInv, RoutingTypeOK
  <2>4. RoutingTypeOK'
    BY <1>1, <2>1, <2>3 DEF ForwardInv, RoutingTypeOK
  <2>5. LastCopyKept' /\ ListInStore'
    BY <1>1, <1>2, <2>1 DEF ForwardInv, LastCopyKept, ListInStore
  <2> QED
    BY <2>2, <2>4, <2>5 DEF ForwardInv
<1> QED
  BY <1>3, <1>4, <1>5

\* Neighbours come and go, the algorithms learn, the clock ticks.
Elsewhere ==
    /\ UNCHANGED <<setup, stored, meta, fr, Counts>>
    /\ connected' \subseteq Peers

LEMMA ForwardInvElsewhere ==
    ASSUME ForwardInv, Elsewhere
    PROVE  ForwardInv'
<1>1. UNCHANGED <<setup, stored, meta, fr, Counts>>
  BY DEF Elsewhere
<1>2. FramesOK'
  BY <1>1, FrameSame DEF ForwardInv
<1>3. Spraying' = Spraying /\ InStore' = InStore
  BY <1>1, SetupSame
<1>4. RoutingTypeOK'
  BY DEF Elsewhere, ForwardInv, RoutingTypeOK, Counts
<1>5. LastCopyKept' /\ ListInStore'
  BY <1>1, <1>3 DEF ForwardInv, LastCopyKept, ListInStore
<1> QED
  BY <1>2, <1>4, <1>5 DEF ForwardInv

\* The steps, as the invariants tell them apart.
LEMMA Steps ==
    ASSUME ForwardInv, [Next]_vars
    PROVE  \/ Elsewhere
           \/ NotifyNewBundle \/ DeleteBundle \/ GarbageCollect \/ Crash
           \/ \E d \in Dispatchers :
                 \/ Forward(d) \/ SenderRead(d) \/ Filtered(d) \/ Finish(d)
                 \/ SenderWrite(d)
                 \/ \E p \in Peers : \/ SendSucceeds(d, p)
                                     \/ FailureRead(d, p) \/ FailureWrite(d, p)
<1>1. connected \subseteq Peers
  BY DEF ForwardInv, RoutingTypeOK
<1>2. ASSUME NEW p \in Peers, Appear(p) \/ Disappear(p) PROVE Elsewhere
  BY <1>1, <1>2 DEF Appear, Disappear, Elsewhere
<1>3. CASE ProphetStep \/ DtlsrStep \/ UNCHANGED vars
  BY <1>1, <1>3 DEF ProphetStep, DtlsrStep, vars, coreVars, Counts, Elsewhere
<1> QED
  BY <1>2, <1>3 DEF Next

LEMMA ForwardInvNext == ForwardInv /\ [Next]_vars => ForwardInv'
BY Steps, ForwardInvElsewhere, ForwardInvOutside, ForwardInvDispatcher,
   ForwardInvSenderWrite, ForwardInvPeer

-----------------------------------------------------------------------------
(* The copies.                                                             *)

\* Direct deliveries that failed, as ReportFailure is about to write.
Pending == { d \in Dispatchers : fr[d].direct /\ fr[d].st[Dest] = "failed" }

\* CopiesNotCreated is not inductive: SprayAndWait adds the copy for a failed
\* direct delivery when it writes, not when the delivery fails.
CopiesInv ==
    Spraying /\ clean =>
       Held + CopiesInFlight + out + Cardinality(Pending) <= given + missed

LEMMA PendingNat ==
    IsFiniteSet(Pending) /\ Cardinality(Pending) \in Nat
BY SetupAssumption, FS_Subset, FS_CardinalityType DEF Pending

LEMMA PendingStep ==
    ASSUME RoutingTypeOK, NEW d \in Dispatchers, NEW f \in Frame,
           fr' = [fr EXCEPT ![d] = f]
    PROVE  /\ Cardinality(Pending) \in Nat /\ Cardinality(Pending') \in Nat
           /\ Cardinality(Pending') = Cardinality(Pending) - Due(fr[d]) + Due(f)
           /\ Due(f) \in {0, 1} /\ Due(fr[d]) \in {0, 1}
<1> DEFINE R == Pending \ {d}
<1>1. IsFiniteSet(R) /\ Cardinality(R) \in Nat /\ d \notin R
  BY PendingNat, FS_Subset, FS_CardinalityType
<1>2. Cardinality(R \cup {d}) = Cardinality(R) + 1
  BY <1>1, FS_AddElement
<1>3. \A e \in Dispatchers : fr'[e] = IF e = d THEN f ELSE fr[e]
  BY DEF RoutingTypeOK
<1>4. Pending = IF Due(fr[d]) = 1 THEN R \cup {d} ELSE R
  BY DEF Pending, Due
<1>5. Pending' = IF Due(f) = 1 THEN R \cup {d} ELSE R
  BY <1>3 DEF Pending, Due
<1>6. Due(f) \in {0, 1} /\ Due(fr[d]) \in {0, 1}
  BY DEF Due
<1> HIDE DEF R
<1>7. Cardinality(Pending) = Cardinality(R) + Due(fr[d])
  BY <1>1, <1>2, <1>4, <1>6
<1>8. Cardinality(Pending') = Cardinality(R) + Due(f)
  BY <1>1, <1>2, <1>5, <1>6
<1> QED
  BY <1>1, <1>6, <1>7, <1>8

LEMMA FlightNat ==
    ASSUME RoutingTypeOK
    PROVE  CopiesInFlight \in Nat
<1> DEFINE s == [e \in Dispatchers |-> Busy(fr[e])]
           w == [e \in Dispatchers |-> Share(fr[e])]
<1>1. s \in [Dispatchers -> SUBSET Peers] /\ w \in [Dispatchers -> Nat]
  BY DEF RoutingTypeOK, Frame, Busy, Share
<1>2. CopiesInFlight = Cardinality(Batches(s, w, Dispatchers))
  BY DEF CopiesInFlight, Flight, Weight, InFlight, Batches, Batch, Busy, Share
<1> HIDE DEF s, w
<1>3. IsFiniteSet(Batches(s, w, Dispatchers))
  BY <1>1, BatchesFinite
<1> QED
  BY <1>2, <1>3, FS_CardinalityType

\* The numbers are numbers.
LEMMA CountsNat ==
    ASSUME RoutingTypeOK
    PROVE  /\ Held \in Nat /\ CopiesInFlight \in Nat
           /\ Cardinality(Pending) \in Nat
           /\ given \in Nat /\ out \in Nat /\ missed \in Nat
BY FlightNat, PendingNat DEF RoutingTypeOK, Held, MetaData

LEMMA CopiesSame ==
    ASSUME CopiesInv, UNCHANGED <<setup, clean, given, missed, out>>,
           Held' = Held \/ Held' = 0, RoutingTypeOK,
           CopiesInFlight' = CopiesInFlight,
           Cardinality(Pending)' = Cardinality(Pending)
    PROVE  CopiesInv'
<1>1. Spraying' = Spraying
  BY SetupSame
<1>2. /\ Held \in Nat /\ CopiesInFlight \in Nat /\ Cardinality(Pending) \in Nat
      /\ given \in Nat /\ out \in Nat /\ missed \in Nat
  BY CountsNat
<1> SUFFICES ASSUME Spraying, clean
             PROVE  (Held + CopiesInFlight + out + Cardinality(Pending)
                       <= given + missed)'
  BY <1>1 DEF CopiesInv
<1>3. Held + CopiesInFlight + out + Cardinality(Pending) <= given + missed
  BY DEF CopiesInv
<1> QED
  BY <1>2, <1>3

LEMMA CopiesDispatcher ==
    ASSUME ForwardInv, CopiesInv, NEW d \in Dispatchers,
           \/ Forward(d) \/ SenderRead(d) \/ Filtered(d) \/ Finish(d)
    PROVE  CopiesInv'
<1>1. /\ Still(d) /\ UNCHANGED <<setup, connected, Counts>>
      /\ \/ stored' = stored /\ meta' = meta
         \/ stored' = FALSE /\ meta' = IF InStore THEN None ELSE meta
  BY ForwardStep, SenderReadStep, FilteredStep, FinishStep
<1>2. PICK f \in Frame : /\ Turns(d, f) /\ Load(f) = Load(fr[d])
                         /\ Due(f) = Due(fr[d])
  BY <1>1 DEF Still
<1>3. /\ CopiesInFlight \in Nat /\ Load(f) \in Nat
      /\ CopiesInFlight' = CopiesInFlight - Load(fr[d]) + Load(f)
  BY <1>1, <1>2, FlightStep DEF ForwardInv, Turns
<1>4. /\ Cardinality(Pending) \in Nat /\ Due(f) \in {0, 1}
      /\ Cardinality(Pending') = Cardinality(Pending) - Due(fr[d]) + Due(f)
  BY <1>2, PendingStep DEF ForwardInv, Turns
<1>5. CopiesInFlight' = CopiesInFlight /\ Cardinality(Pending)' = Cardinality(Pending)
  BY <1>2, <1>3, <1>4
<1>6. Held' = Held \/ Held' = 0
  BY <1>1 DEF Held
<1>7. RoutingTypeOK /\ UNCHANGED <<setup, clean, given, missed, out>>
  BY <1>1 DEF ForwardInv, Counts
<1> QED
  BY <1>5, <1>6, <1>7, CopiesSame

LEMMA CopiesSenderWrite ==
    ASSUME ForwardInv, CopiesInv, NEW d \in Dispatchers, SenderWrite(d)
    PROVE  CopiesInv'
<1> DEFINE m == fr[d].m
<1>1. /\ UNCHANGED <<setup, connected, stored, given, out, missed, has, crashes>>
      /\ m \in MetaData \cup {None}
      /\ Spraying => m # None /\ m.copies >= 2
      /\ Busy(fr[d]) = {} /\ ~fr[d].direct /\ Load(fr[d]) = 0
  BY SenderWriteStep
<1>2. PICK c \in Selections(m) :
         /\ meta' = IF Writes(c) THEN c.meta ELSE meta
         /\ clean' = (clean /\ (Writes(c) => meta = m))
         /\ \E f \in Frame : SelectsInto(d, c, f)
  BY SenderWriteStep
<1>3. PICK f \in Frame : SelectsInto(d, c, f)
  BY <1>2
<1>4. Spraying' = Spraying
  BY <1>1, SetupSame
<1> SUFFICES ASSUME Spraying, clean'
             PROVE  (Held + CopiesInFlight + out + Cardinality(Pending)
                       <= given + missed)'
  BY <1>4 DEF CopiesInv
<1>5. /\ Writes(c) /\ c.meta \in MetaData
      /\ c.meta.copies = m.copies - Cardinality(c.to) * c.share
  BY <1>1, <1>2, Selection DEF ForwardInv
<1>6. /\ CopiesInFlight \in Nat /\ Load(f) \in Nat
      /\ CopiesInFlight' = CopiesInFlight - Load(fr[d]) + Load(f)
  BY <1>1, <1>3, FlightStep DEF ForwardInv, SelectsInto, Turns
<1>7. /\ Cardinality(Pending) \in Nat
      /\ Cardinality(Pending') = Cardinality(Pending) - Due(fr[d]) + Due(f)
  BY <1>3, PendingStep DEF ForwardInv, SelectsInto, Turns
<1>8. Due(fr[d]) = 0 /\ Due(f) = 0
  BY <1>1, <1>3 DEF Due, SelectsInto
<1>9. Load(f) = Cardinality(c.to) * c.share
  BY <1>3 DEF SelectsInto
<1>10. /\ meta = m /\ clean /\ meta # None /\ meta' = c.meta /\ meta' # None
  BY <1>1, <1>2, <1>5, SetupAssumption
<1>11. Held = m.copies /\ Held' = m.copies - Load(f)
  BY <1>5, <1>9, <1>10 DEF Held
<1>12. /\ Held \in Nat /\ given \in Nat /\ out \in Nat /\ missed \in Nat
  BY CountsNat DEF ForwardInv
<1>13. Held + CopiesInFlight + out + Cardinality(Pending) <= given + missed
  BY <1>10 DEF CopiesInv
<1>14. CopiesInFlight' = CopiesInFlight + Load(f)
  BY <1>1, <1>6
<1>15. Cardinality(Pending)' = Cardinality(Pending)
  BY <1>7, <1>8
<1> HIDE DEF m
<1> QED
  BY <1>1, <1>6, <1>7, <1>11, <1>12, <1>13, <1>14, <1>15

LEMMA CopiesPeer ==
    ASSUME ForwardInv, CopiesInv, NEW d \in Dispatchers, NEW p \in Peers,
           SendSucceeds(d, p) \/ FailureRead(d, p) \/ FailureWrite(d, p)
    PROVE  CopiesInv'
<1> DEFINE g == fr[d]
<1>1. /\ UNCHANGED <<setup, connected, stored, given, crashes>>
  BY SendSucceedsStep, FailureReadStep, FailureWriteStep
<1>2. Spraying' = Spraying /\ (Spraying => ~InStore)
  BY <1>1, SetupSame
<1>3. g \in Frame /\ GoodFrame(g)
  BY DEF ForwardInv, RoutingTypeOK, FramesOK
<1>4. /\ Held \in Nat /\ CopiesInFlight \in Nat /\ Cardinality(Pending) \in Nat
      /\ given \in Nat /\ out \in Nat /\ missed \in Nat
  BY CountsNat DEF ForwardInv
<1>5. ASSUME NEW f \in Frame, Decides(d, p, f)
      PROVE  /\ Load(g) \in Nat /\ Share(g) \in Nat
             /\ CopiesInFlight' = IF f.st[p] = "none"
                                  THEN CopiesInFlight - Share(g) ELSE CopiesInFlight
             /\ Cardinality(Pending') = Cardinality(Pending) - Due(g) + Due(f)
             /\ Due(f) \in {0, 1} /\ Due(g) \in {0, 1}
             /\ f.st[p] = "none" \/ ~g.direct => Due(f) <= Due(g)
  <2>1. /\ CopiesInFlight' = CopiesInFlight - Load(g) + Load(f)
        /\ Cardinality(Pending') = Cardinality(Pending) - Due(g) + Due(f)
        /\ Due(f) \in {0, 1} /\ Due(g) \in {0, 1}
    BY <1>1, <1>5, FlightStep, PendingStep DEF ForwardInv, Decides, Turns
  <2>2. /\ Load(g) \in Nat /\ Share(g) \in Nat
        /\ Load(f) = IF f.st[p] = "none" THEN Load(g) - Share(g) ELSE Load(g)
    BY <1>5 DEF Decides
  <2>3. f.st[p] = "none" \/ ~g.direct => Due(f) <= Due(g)
    <3>1. /\ f.direct = g.direct
          /\ \A q \in Peers \ {p} : f.st[q] = g.st[q]
      BY <1>5 DEF Decides
    <3>2. f.st[p] = "none" \/ ~g.direct => Due(f) = 0 \/ Due(f) = Due(g)
      BY <3>1, RoutingAssumption DEF Due
    <3> QED
      BY <2>1, <3>2
  <2> QED
    BY <1>4, <2>1, <2>2, <2>3
<1> SUFFICES ASSUME Spraying, clean'
             PROVE  (Held + CopiesInFlight + out + Cardinality(Pending)
                       <= given + missed)'
  BY <1>2 DEF CopiesInv
<1>6. clean
  BY SendSucceedsStep, FailureReadStep, FailureWriteStep
<1>7. Held + CopiesInFlight + out + Cardinality(Pending) <= given + missed
  BY <1>6 DEF CopiesInv
<1>8. CASE SendSucceeds(d, p)
  <2>1. PICK f \in Frame : Decides(d, p, f) /\ f.st[p] = "none"
    BY <1>8, SendSucceedsStep
  <2>2. out' = out + Share(g) /\ missed' = missed /\ meta' = meta
    BY <1>8, SendSucceedsStep
  <2>3. Held' = Held
    BY <2>2 DEF Held
  <2>4. /\ Share(g) \in Nat /\ CopiesInFlight' = CopiesInFlight - Share(g)
        /\ Cardinality(Pending') = Cardinality(Pending) - Due(g) + Due(f)
        /\ Due(f) \in {0, 1} /\ Due(g) \in {0, 1} /\ Due(f) <= Due(g)
    BY <1>5, <2>1
  <2> HIDE DEF g
  <2> QED
    BY <1>1, <1>4, <1>7, <2>2, <2>3, <2>4
<1>9. CASE FailureRead(d, p)
  <2>1. PICK f \in Frame : Decides(d, p, f)
    BY <1>9, FailureReadStep
  <2>2. /\ out' = out /\ missed' = IF g.direct THEN missed + 1 ELSE missed
        /\ meta' = meta
    BY <1>9, FailureReadStep
  <2>3. Held' = Held
    BY <2>2 DEF Held
  <2>4. /\ Share(g) \in Nat
        /\ CopiesInFlight' = CopiesInFlight - Share(g)
             \/ CopiesInFlight' = CopiesInFlight
        /\ Cardinality(Pending') = Cardinality(Pending) - Due(g) + Due(f)
        /\ Due(f) \in {0, 1} /\ Due(g) \in {0, 1}
        /\ ~g.direct => Due(f) <= Due(g)
    BY <1>5, <2>1
  <2>5. g.direct \in BOOLEAN
    BY <1>3 DEF Frame
  <2> HIDE DEF g
  <2> QED
    BY <1>1, <1>4, <1>7, <2>2, <2>3, <2>4, <2>5
<1>10. CASE FailureWrite(d, p)
  <2> DEFINE m == fr[d].fm[p]
  <2>1. PICK f \in Frame : Decides(d, p, f) /\ f.st[p] = "none"
    BY <1>10, FailureWriteStep
  <2>2. /\ out' = out /\ missed' = missed /\ g.st[p] = "failed"
        /\ m \in MetaData /\ m # None
        /\ meta' = IF InStore => stored THEN Failure(m, p) ELSE meta
        /\ clean' = (clean /\ ((InStore => stored) => meta = m))
    BY <1>10, FailureWriteStep
  <2>3. /\ Share(g) \in Nat /\ CopiesInFlight' = CopiesInFlight - Share(g)
        /\ Cardinality(Pending') = Cardinality(Pending) - Due(g) + Due(f)
        /\ Due(f) \in {0, 1} /\ Due(g) \in {0, 1} /\ Due(f) <= Due(g)
    BY <1>5, <2>1
  <2>4. /\ Failure(m, p) \in MetaData
        /\ Failure(m, p).copies = IF setup.algo = "spray" THEN m.copies + 1
                                  ELSE m.copies
    BY <2>2, FailureOK
  <2>5. meta' = Failure(m, p) /\ meta = m /\ meta' # None
    BY <1>2, <2>2, <2>4, SetupAssumption
  <2>6. Held = m.copies /\ Held' = Failure(m, p).copies
    BY <2>2, <2>5 DEF Held
  \* The copy that SprayAndWait takes back was on its way, or the direct
  \* delivery had failed.
  <2>7. setup.algo = "spray" => Share(g) = 1 \/ Due(f) = Due(g) - 1
    <3>1. CASE g.direct
      <4>1. p = Dest
        BY <1>3, <2>2, <3>1 DEF GoodFrame
      <4>2. Due(g) = 1 /\ Due(f) = 0
        BY <2>1, <2>2, <3>1, <4>1 DEF Due
      <4> QED
        BY <4>2
    <3>2. CASE ~g.direct
      BY <1>2, <1>3, <2>2, <3>2 DEF GoodFrame, Share
    <3> QED
      BY <3>1, <3>2
  <2>8. m.copies \in Nat
    BY <2>2 DEF MetaData
  <2> HIDE DEF g, m
  <2>9. Held' + CopiesInFlight' + Cardinality(Pending')
          <= Held + CopiesInFlight + Cardinality(Pending)
    <3>1. CASE setup.algo = "spray"
      BY <1>4, <2>3, <2>4, <2>6, <2>7, <2>8, <3>1
    <3>2. CASE setup.algo # "spray"
      BY <1>4, <2>3, <2>4, <2>6, <2>8, <3>2
    <3> QED
      BY <3>1, <3>2
  <2>10. Held' \in Int /\ CopiesInFlight' \in Int /\ Cardinality(Pending') \in Int
    BY <1>4, <2>3, <2>4, <2>6, <2>8
  <2> QED
    BY <1>1, <1>4, <1>7, <2>2, <2>9, <2>10
<1> QED
  BY <1>8, <1>9, <1>10

LEMMA CopiesOutside ==
    ASSUME ForwardInv, CopiesInv,
           NotifyNewBundle \/ DeleteBundle \/ GarbageCollect \/ Crash \/ Elsewhere
    PROVE  CopiesInv'
<1>1. /\ Held \in Nat /\ CopiesInFlight \in Nat /\ Cardinality(Pending) \in Nat
      /\ given \in Nat /\ out \in Nat /\ missed \in Nat
  BY CountsNat DEF ForwardInv
<1>2. setup' = setup /\ out' = out /\ missed' = missed
  BY DEF NotifyNewBundle, DeleteBundle, GarbageCollect, Crash, Elsewhere, Counts
<1>3. Spraying' = Spraying
  BY <1>2, SetupSame
<1>4. CASE DeleteBundle \/ GarbageCollect \/ Elsewhere
  <2>1. fr' = fr /\ UNCHANGED <<clean, given>> /\ (meta' = meta \/ meta' = None)
    BY <1>4 DEF DeleteBundle, GarbageCollect, Elsewhere, Counts
  <2>2. CopiesInFlight' = CopiesInFlight /\ Cardinality(Pending)' = Cardinality(Pending)
    BY <1>2, <2>1, FlightSame DEF Pending
  <2>3. Held' = Held \/ Held' = 0
    BY <2>1 DEF Held
  <2>4. RoutingTypeOK /\ UNCHANGED <<setup, clean, given, missed, out>>
    BY <1>2, <2>1 DEF ForwardInv
  <2> QED
    BY <2>2, <2>3, <2>4, CopiesSame
<1>5. CASE NotifyNewBundle
  <2> SUFFICES ASSUME Spraying, clean'
               PROVE  (Held + CopiesInFlight + out + Cardinality(Pending)
                         <= given + missed)'
    BY <1>3 DEF CopiesInv
  <2>1. /\ meta' = NoteBundle /\ fr' = fr /\ given' = given + NoteBundle.copies
        /\ clean
    BY <1>5 DEF NotifyNewBundle
  <2>2. NoteBundle \in MetaData
    BY NoteBundleOK DEF ForwardInv, RoutingTypeOK
  <2>3. NoteBundle.copies \in Nat /\ Held' = NoteBundle.copies
    BY <2>1, <2>2, SetupAssumption DEF Held, MetaData
  <2>4. CopiesInFlight' = CopiesInFlight /\ Cardinality(Pending)' = Cardinality(Pending)
    BY <1>2, <2>1, FlightSame DEF Pending
  <2>5. Held + CopiesInFlight + out + Cardinality(Pending) <= given + missed
    BY <2>1 DEF CopiesInv
  <2> QED
    BY <1>1, <1>2, <2>1, <2>3, <2>4, <2>5
<1>6. CASE Crash
  <2> SUFFICES ASSUME Spraying, clean'
               PROVE  (Held + CopiesInFlight + out + Cardinality(Pending)
                         <= given + missed)'
    BY <1>3 DEF CopiesInv
  <2>1. /\ fr' = [d \in Dispatchers |-> IdleFrame] /\ meta' = None
        /\ given' = given /\ clean
    BY <1>6, SetupSame DEF Crash, InStore
  <2>2. Cardinality(Pending)' = 0
    <3>1. Pending' = {}
      BY <2>1, IdleFrameOK DEF Pending
    <3> QED
      BY <3>1, FS_EmptySet
  <2>3. CopiesInFlight' = 0
    <3>1. ASSUME NEW d \in Dispatchers PROVE Flight(d)' = {}
      BY <2>1, <3>1, IdleFrameOK DEF Flight, InFlight
    <3>2. (UNION { Flight(d) : d \in Dispatchers })' = {}
      BY <3>1
    <3> QED
      BY <3>2, FS_EmptySet DEF CopiesInFlight
  <2>4. Held' = 0
    BY <2>1 DEF Held
  <2>5. Held + CopiesInFlight + out + Cardinality(Pending) <= given + missed
    BY <2>1 DEF CopiesInv
  <2> QED
    BY <1>1, <1>2, <2>1, <2>2, <2>3, <2>4, <2>5
<1> QED
  BY <1>4, <1>5, <1>6

LEMMA CopiesNext == ForwardInv /\ CopiesInv /\ [Next]_vars => CopiesInv'
BY Steps, CopiesOutside, CopiesDispatcher, CopiesSenderWrite, CopiesPeer

LEMMA CopiesInit == RoutingInit => CopiesInv
<1> SUFFICES ASSUME RoutingInit, Spraying
             PROVE  Held + CopiesInFlight + out + Cardinality(Pending) <= given + missed
  BY DEF CopiesInv
<1>1. /\ fr = [d \in Dispatchers |-> IdleFrame] /\ meta = None
      /\ given = 0 /\ out = 0 /\ missed = 0
  BY DEF RoutingInit
<1>2. Pending = {}
  BY <1>1, IdleFrameOK DEF Pending
<1>3. ASSUME NEW d \in Dispatchers PROVE Flight(d) = {}
  BY <1>1, <1>3, IdleFrameOK DEF Flight, InFlight
<1>4. UNION { Flight(d) : d \in Dispatchers } = {}
  BY <1>3
<1>5. CopiesInFlight = 0 /\ Cardinality(Pending) = 0 /\ Held = 0
  BY <1>1, <1>2, <1>4, FS_EmptySet DEF CopiesInFlight, Held
<1> QED
  BY <1>1, <1>5

-----------------------------------------------------------------------------
(* The list of a bundle.                                                   *)

\* Whom each dispatcher sends to, apart from the destination.
Flights == [d \in Dispatchers |-> Others(fr[d])]

\* Whoever is sent to is in the list, has not got the bundle and is sent to
\* by one dispatcher only.
FlightsListed ==
    clean /\ meta # None /\ KeepsList =>
       \A d \in Dispatchers : \A p \in Flights[d] :
          /\ p \in meta.sent
          /\ p \notin has \ PassedOver
          /\ \A e \in Dispatchers \ {d} : p \notin Flights[e]

\* A stored bundle without a list was sent to nobody.
FreshList ==
    clean /\ InStore /\ stored /\ meta = None /\ KeepsList =>
       /\ has \subseteq {Dest} \cup PassedOver
       /\ \A d \in Dispatchers : Flights[d] = {}

ListInv == HoldersAreListed /\ FlightsListed /\ FreshList

LEMMA FlightsStep ==
    ASSUME RoutingTypeOK, NEW d \in Dispatchers, NEW f \in Frame, Turns(d, f)
    PROVE  \A e \in Dispatchers :
              Flights'[e] = IF e = d THEN Others(f) ELSE Flights[e]
<1>1. \A e \in Dispatchers : fr'[e] = IF e = d THEN f ELSE fr[e]
  BY DEF RoutingTypeOK, Turns
<1> QED
  BY <1>1 DEF Flights, Others, Busy

\* The list is kept, or it is gone with the bundle.
ListKept ==
    /\ UNCHANGED <<setup, clean, has>>
    /\ \A d \in Dispatchers : Flights'[d] = Flights[d]
    /\ \/ meta' = meta /\ (stored' = stored \/ Spraying)
       \/ meta' = None /\ (~stored' \/ Spraying)

LEMMA ListSame ==
    ASSUME ListInv, ListKept
    PROVE  ListInv'
<1> USE DEF ListKept
<1>1. /\ Spraying' = Spraying /\ InStore' = InStore /\ (Spraying <=> ~InStore)
      /\ KeepsList' = KeepsList /\ PassedOver' = PassedOver
  BY SetupSame
<1>2. HoldersAreListed'
  BY <1>1 DEF ListInv, HoldersAreListed
<1>3. FlightsListed'
  BY <1>1 DEF ListInv, FlightsListed
<1>4. FreshList'
  BY <1>1 DEF ListInv, FreshList
<1> QED
  BY <1>2, <1>3, <1>4 DEF ListInv

LEMMA ListDispatcher ==
    ASSUME ForwardInv, ListInv, NEW d \in Dispatchers,
           \/ Forward(d) \/ SenderRead(d) \/ Filtered(d) \/ Finish(d)
    PROVE  ListInv'
<1>1. /\ Still(d) /\ UNCHANGED <<setup, connected, Counts>>
      /\ \/ stored' = stored /\ meta' = meta
         \/ stored' = FALSE /\ meta' = IF InStore THEN None ELSE meta
  BY ForwardStep, SenderReadStep, FilteredStep, FinishStep
<1>2. PICK f \in Frame : Turns(d, f) /\ Others(f) = Others(fr[d])
  BY <1>1 DEF Still
<1>3. \A e \in Dispatchers : Flights'[e] = IF e = d THEN Others(f) ELSE Flights[e]
  BY <1>2, FlightsStep DEF ForwardInv
<1>4. \A e \in Dispatchers : Flights'[e] = Flights[e]
  BY <1>2, <1>3 DEF Flights
<1>5. UNCHANGED <<setup, clean, has>> /\ (Spraying <=> ~InStore)
  BY <1>1, SetupSame DEF Counts
<1>6. ListKept
  BY <1>1, <1>4, <1>5 DEF ListKept
<1> QED
  BY <1>6, ListSame

LEMMA ListSenderWrite ==
    ASSUME ForwardInv, ListInv, NEW d \in Dispatchers, SenderWrite(d)
    PROVE  ListInv'
<1> DEFINE m == fr[d].m
<1>1. /\ UNCHANGED <<setup, connected, stored, given, out, missed, has, crashes>>
      /\ m \in MetaData \cup {None}
      /\ Spraying => m # None /\ m.copies >= 2
      /\ Busy(fr[d]) = {}
  BY SenderWriteStep
<1>2. PICK c \in Selections(m) :
         /\ meta' = IF Writes(c) THEN c.meta ELSE meta
         /\ clean' = (clean /\ (Writes(c) => meta = m))
         /\ \E f \in Frame : SelectsInto(d, c, f)
  BY SenderWriteStep
<1>3. PICK f \in Frame : SelectsInto(d, c, f)
  BY <1>2
<1>4. /\ KeepsList => /\ c.to \cap SentOf(m) = {}
                      /\ Writes(c) \/ (InStore /\ ~stored) \/ c.to = {}
      /\ Writes(c) => c.meta \in MetaData /\ c.meta.sent = SentOf(m) \cup c.to
  BY <1>1, <1>2, Selection DEF ForwardInv
<1>5. /\ Spraying' = Spraying /\ InStore' = InStore /\ (Spraying <=> ~InStore)
      /\ KeepsList' = KeepsList /\ PassedOver' = PassedOver
  BY <1>1, SetupSame
<1>6. Others(f) = c.to \ {Dest} /\ Flights[d] = {}
  BY <1>1, <1>3 DEF Others, SelectsInto, Flights
<1>7. \A e \in Dispatchers :
         Flights'[e] = IF e = d THEN c.to \ {Dest} ELSE Flights[e]
  BY <1>3, <1>6, FlightsStep DEF ForwardInv, SelectsInto
<1> HIDE DEF m
<1>8. CASE ~KeepsList
  BY <1>5, <1>8 DEF ListInv, HoldersAreListed, FlightsListed, FreshList
<1>9. CASE KeepsList /\ ~Writes(c)
  <2>1. meta' = meta /\ clean' = clean
    BY <1>2, <1>9 DEF ForwardInv, RoutingTypeOK
  <2>2. CASE c.to = {}
    <3>1. \A e \in Dispatchers : Flights'[e] = Flights[e]
      BY <1>6, <1>7, <2>2
    <3>2. ListKept
      BY <1>1, <2>1, <3>1 DEF ListKept
    <3> QED
      BY <3>2, ListSame
  <2>3. CASE InStore /\ ~stored
    <3>1. meta = None
      BY <2>3 DEF ForwardInv, ListInStore
    <3> QED
      BY <1>1, <1>5, <2>1, <2>3, <3>1
      DEF ListInv, HoldersAreListed, FlightsListed, FreshList
  <2> QED
    BY <1>4, <1>9, <2>2, <2>3
<1>10. CASE KeepsList /\ Writes(c) /\ clean'
  <2>1. /\ meta' = c.meta /\ meta' # None /\ clean /\ meta = m
        /\ meta'.sent = SentOf(m) \cup c.to /\ c.to \cap SentOf(m) = {}
    BY <1>2, <1>4, <1>10, SetupAssumption
  <2>2. m = None => InStore /\ stored
    BY <1>1, <1>5, <1>10 DEF Writes
  <2>3. has \ ({Dest} \cup PassedOver) \subseteq SentOf(m)
    <3>1. CASE m # None
      BY <1>10, <2>1, <3>1 DEF ListInv, HoldersAreListed, SentOf
    <3>2. CASE m = None
      BY <1>10, <2>1, <2>2, <3>2 DEF ListInv, FreshList
    <3> QED
      BY <3>1, <3>2
  <2>4. ASSUME NEW e \in Dispatchers, NEW p \in Flights[e]
        PROVE  /\ p \in SentOf(m)
               /\ p \notin has \ PassedOver
               /\ \A x \in Dispatchers \ {e} : p \notin Flights[x]
    <3>1. m # None
      BY <1>10, <2>1, <2>2, <2>4 DEF ListInv, FreshList
    <3> QED
      BY <1>10, <2>1, <3>1 DEF ListInv, FlightsListed, SentOf
  <2>5. HoldersAreListed'
    BY <1>1, <1>5, <2>1, <2>3 DEF HoldersAreListed
  <2>6. FlightsListed'
    <3> SUFFICES ASSUME NEW e \in Dispatchers, NEW p \in Flights'[e]
                 PROVE  /\ p \in meta'.sent
                        /\ p \notin has \ PassedOver
                        /\ \A x \in Dispatchers \ {e} : p \notin Flights'[x]
      BY <1>1, <1>5 DEF FlightsListed
    <3>1. CASE e = d
      <4>1. p \in c.to /\ p # Dest
        BY <1>7, <3>1
      <4>2. p \notin SentOf(m)
        BY <2>1, <4>1
      <4>3. \A x \in Dispatchers : p \notin Flights[x]
        BY <2>4, <4>2
      <4> QED
        BY <1>7, <2>1, <2>3, <3>1, <4>1, <4>2, <4>3
    <3>2. CASE e # d
      <4>1. p \in Flights[e]
        BY <1>7, <3>2
      <4>2. /\ p \in SentOf(m) /\ p \notin has \ PassedOver
            /\ \A x \in Dispatchers \ {e} : p \notin Flights[x]
        BY <2>4, <4>1
      <4> QED
        BY <1>7, <2>1, <4>2
    <3> QED
      BY <3>1, <3>2
  <2>7. FreshList'
    BY <2>1 DEF FreshList
  <2> QED
    BY <2>5, <2>6, <2>7 DEF ListInv
<1>11. CASE ~clean'
  BY <1>11 DEF ListInv, HoldersAreListed, FlightsListed, FreshList
<1> QED
  BY <1>8, <1>9, <1>10, <1>11

LEMMA ListPeer ==
    ASSUME ForwardInv, ListInv, NEW d \in Dispatchers, NEW p \in Peers,
           SendSucceeds(d, p) \/ FailureRead(d, p) \/ FailureWrite(d, p)
    PROVE  ListInv'
<1>1. setup' = setup /\ stored' = stored
  BY SendSucceedsStep, FailureReadStep, FailureWriteStep
<1>2. /\ Spraying' = Spraying /\ InStore' = InStore /\ (Spraying <=> ~InStore)
      /\ KeepsList' = KeepsList /\ PassedOver' = PassedOver
  BY <1>1, SetupSame
<1>3. fr[d].st[p] # "none"
  BY SendSucceedsStep, FailureReadStep, FailureWriteStep
<1>4. p # Dest => p \in Flights[d]
  BY <1>3 DEF Flights, Others, Busy
<1>5. ASSUME NEW f \in Frame, Decides(d, p, f)
      PROVE  \A e \in Dispatchers :
                Flights'[e] = IF e = d /\ f.st[p] = "none" THEN Flights[e] \ {p}
                              ELSE Flights[e]
  <2>1. \A e \in Dispatchers : Flights'[e] = IF e = d THEN Others(f) ELSE Flights[e]
    BY <1>5, FlightsStep DEF ForwardInv, Decides
  <2>2. Others(f) = IF f.st[p] = "none" THEN Flights[d] \ {p} ELSE Flights[d]
    BY <1>3, <1>5 DEF Decides, Others, Busy, Flights
  <2> QED
    BY <2>1, <2>2
<1>6. CASE FailureRead(d, p)
  <2>1. UNCHANGED <<meta, has, clean>> /\ \E f \in Frame : Decides(d, p, f)
    BY <1>6, FailureReadStep
  <2>2. \A e \in Dispatchers : Flights'[e] \subseteq Flights[e]
    BY <1>5, <2>1
  <2> QED
    BY <1>1, <1>2, <2>1, <2>2 DEF ListInv, HoldersAreListed, FlightsListed, FreshList
<1>7. CASE SendSucceeds(d, p)
  <2>1. /\ UNCHANGED <<meta, clean>> /\ has' = has \cup {p}
        /\ \E f \in Frame : Decides(d, p, f) /\ f.st[p] = "none"
    BY <1>7, SendSucceedsStep
  <2>2. \A e \in Dispatchers :
           Flights'[e] = IF e = d THEN Flights[e] \ {p} ELSE Flights[e]
    BY <1>5, <2>1
  <2>3. HoldersAreListed'
    BY <1>2, <1>4, <2>1 DEF ListInv, HoldersAreListed, FlightsListed
  <2>4. FlightsListed'
    <3> SUFFICES ASSUME clean, meta # None, KeepsList,
                        NEW e \in Dispatchers, NEW q \in Flights'[e]
                 PROVE  /\ q \in meta.sent
                        /\ q \notin (has \cup {p}) \ PassedOver
                        /\ \A x \in Dispatchers \ {e} : q \notin Flights'[x]
      BY <1>2, <2>1 DEF FlightsListed
    <3>1. q \in Flights[e]
      BY <2>2
    <3>2. /\ q \in meta.sent /\ q \notin has \ PassedOver
          /\ \A x \in Dispatchers \ {e} : q \notin Flights[x]
      BY <3>1 DEF ListInv, FlightsListed
    <3>3. q # p
      <4>1. CASE e = d
        BY <2>2, <4>1
      <4>2. CASE e # d
        <5>1. q \notin Flights[d] /\ q # Dest
          BY <3>1, <3>2, <4>2 DEF Flights, Others
        <5> QED
          BY <1>4, <5>1
      <4> QED
        BY <4>1, <4>2
    <3> QED
      BY <2>2, <3>2, <3>3
  <2>5. FreshList'
    BY <1>1, <1>2, <1>4, <2>1, <2>2 DEF ListInv, FreshList
  <2> QED
    BY <2>3, <2>4, <2>5 DEF ListInv
<1>8. CASE FailureWrite(d, p)
  <2> DEFINE m == fr[d].fm[p]
  <2>1. /\ has' = has /\ m \in MetaData /\ m # None
        /\ meta' = IF InStore => stored THEN Failure(m, p) ELSE meta
        /\ clean' = (clean /\ ((InStore => stored) => meta = m))
        /\ \E f \in Frame : Decides(d, p, f) /\ f.st[p] = "none"
    BY <1>8, FailureWriteStep
  <2>2. \A e \in Dispatchers :
           Flights'[e] = IF e = d THEN Flights[e] \ {p} ELSE Flights[e]
    BY <1>5, <2>1
  <2>3. Failure(m, p) \in MetaData /\ Failure(m, p).sent = m.sent \ {p}
    BY <2>1, FailureOK
  <2> HIDE DEF m
  <2>4. CASE clean' /\ (InStore => stored) /\ KeepsList
    <3>1. /\ meta = m /\ clean /\ meta # None /\ meta' # None
          /\ meta'.sent = meta.sent \ {p}
      BY <2>1, <2>3, <2>4, SetupAssumption
    <3>2. HoldersAreListed'
      BY <1>2, <1>4, <2>1, <2>4, <3>1 DEF ListInv, HoldersAreListed, FlightsListed
    <3>3. FlightsListed'
      <4> SUFFICES ASSUME NEW e \in Dispatchers, NEW q \in Flights'[e]
                   PROVE  /\ q \in meta'.sent
                          /\ q \notin has \ PassedOver
                          /\ \A x \in Dispatchers \ {e} : q \notin Flights'[x]
        BY <1>2, <2>1 DEF FlightsListed
      <4>1. q \in Flights[e]
        BY <2>2
      <4>2. /\ q \in meta.sent /\ q \notin has \ PassedOver
            /\ \A x \in Dispatchers \ {e} : q \notin Flights[x]
        BY <2>4, <3>1, <4>1 DEF ListInv, FlightsListed
      <4>3. q # p
        <5>1. CASE e = d
          BY <2>2, <5>1
        <5>2. CASE e # d
          <6>1. q \notin Flights[d] /\ q # Dest
            BY <4>1, <4>2, <5>2 DEF Flights, Others
          <6> QED
            BY <1>4, <6>1
        <5> QED
          BY <5>1, <5>2
      <4> QED
        BY <2>2, <3>1, <4>2, <4>3
    <3>4. FreshList'
      BY <3>1 DEF FreshList
    <3> QED
      BY <3>2, <3>3, <3>4 DEF ListInv
  <2>5. CASE InStore /\ ~stored
    <3>1. meta = None /\ meta' = None
      BY <2>1, <2>5 DEF ForwardInv, ListInStore
    <3> QED
      BY <1>1, <1>2, <2>5, <3>1
      DEF ListInv, HoldersAreListed, FlightsListed, FreshList
  <2>6. CASE ~clean' \/ ~KeepsList
    BY <1>2, <2>6 DEF ListInv, HoldersAreListed, FlightsListed, FreshList
  <2> QED
    BY <2>4, <2>5, <2>6
<1> QED
  BY <1>6, <1>7, <1>8

LEMMA ListOutside ==
    ASSUME ForwardInv, ListInv,
           NotifyNewBundle \/ DeleteBundle \/ GarbageCollect \/ Crash \/ Elsewhere
    PROVE  ListInv'
<1>1. setup' = setup
  BY DEF NotifyNewBundle, DeleteBundle, GarbageCollect, Crash, Elsewhere
<1>2. /\ Spraying' = Spraying /\ InStore' = InStore /\ (Spraying <=> ~InStore)
      /\ KeepsList' = KeepsList /\ PassedOver' = PassedOver
  BY <1>1, SetupSame
<1>3. CASE DeleteBundle \/ GarbageCollect \/ Elsewhere
  <2>1. /\ fr' = fr /\ UNCHANGED <<clean, has>>
        /\ \/ meta' = meta /\ (stored' = stored \/ Spraying)
           \/ meta' = None /\ (~stored' \/ Spraying)
    BY <1>2, <1>3 DEF DeleteBundle, GarbageCollect, Elsewhere, Counts
  <2>2. \A d \in Dispatchers : Flights'[d] = Flights[d]
    BY <2>1 DEF Flights
  <2>3. ListKept
    BY <1>1, <2>1, <2>2 DEF ListKept
  <2> QED
    BY <2>3, ListSame
<1>4. CASE NotifyNewBundle
  <2> SUFFICES ASSUME clean' PROVE ListInv'
    BY DEF ListInv, HoldersAreListed, FlightsListed, FreshList
  <2>1. /\ meta' = NoteBundle /\ fr' = fr /\ has' = PrevNodes(setup.prev)
        /\ \A d \in Dispatchers : fr[d].pc = "idle"
    BY <1>4 DEF NotifyNewBundle
  <2>2. /\ NoteBundle # None =>
              PrevNodes(setup.prev) \ PassedOver \subseteq NoteBundle.sent
        /\ NoteBundle = None => PrevNodes(setup.prev) \subseteq PassedOver
    BY NoteBundleOK DEF ForwardInv, RoutingTypeOK
  <2>3. \A d \in Dispatchers : Flights'[d] = {}
    <3>1. ASSUME NEW d \in Dispatchers PROVE Others(fr[d]) = {}
      BY <2>1, <3>1 DEF ForwardInv, FramesOK, GoodFrame, Others, Busy
    <3> QED
      BY <2>1, <3>1 DEF Flights
  <2>4. HoldersAreListed'
    BY <1>2, <2>1, <2>2 DEF HoldersAreListed
  <2>5. FlightsListed'
    BY <2>3 DEF FlightsListed
  <2>6. FreshList'
    BY <1>2, <2>1, <2>2, <2>3 DEF FreshList
  <2> QED
    BY <2>4, <2>5, <2>6 DEF ListInv
<1>5. CASE Crash
  <2>1. /\ fr' = [d \in Dispatchers |-> IdleFrame]
        /\ meta' = IF InStore THEN meta ELSE None
        /\ UNCHANGED <<stored, has, clean>>
    BY <1>5 DEF Crash
  <2>2. \A d \in Dispatchers : Flights'[d] = {}
    BY <2>1, IdleFrameOK DEF Flights, Others, Busy
  <2>3. HoldersAreListed'
    BY <1>2, <2>1 DEF ListInv, HoldersAreListed
  <2>4. FlightsListed'
    BY <2>2 DEF FlightsListed
  <2>5. FreshList'
    BY <1>2, <2>1, <2>2 DEF ListInv, FreshList
  <2> QED
    BY <2>3, <2>4, <2>5 DEF ListInv
<1> QED
  BY <1>3, <1>4, <1>5

LEMMA ListNext == ForwardInv /\ ListInv /\ [Next]_vars => ListInv'
BY Steps, ListOutside, ListDispatcher, ListSenderWrite, ListPeer

LEMMA ListInit == RoutingInit => ListInv
<1> SUFFICES ASSUME RoutingInit PROVE ListInv
  OBVIOUS
<1>1. /\ fr = [d \in Dispatchers |-> IdleFrame] /\ meta = None /\ has = {}
  BY DEF RoutingInit
<1>2. \A d \in Dispatchers : Flights[d] = {}
  BY <1>1, IdleFrameOK DEF Flights, Others
<1> QED
  BY <1>1, <1>2 DEF ListInv, HoldersAreListed, FlightsListed, FreshList

-----------------------------------------------------------------------------
(* Whoever is listed was served.                                           *)

LEMMA SelectedIs ==
    /\ Selected = UNION { Chosen(fr[d]) : d \in Dispatchers }
    /\ Selected' = UNION { Chosen(fr'[d]) : d \in Dispatchers }
<1>1. Selected = UNION { Chosen(fr[d]) : d \in Dispatchers }
  BY DEF Selected, Chosen, Busy
<1>2. Selected' = UNION { Chosen(fr'[d]) : d \in Dispatchers }
  BY DEF Selected, Chosen, Busy
<1> QED
  BY <1>1, <1>2

LEMMA SelectedStep ==
    ASSUME RoutingTypeOK, NEW d \in Dispatchers, NEW f \in Frame, Turns(d, f)
    PROVE  \E R \in SUBSET Selected :
              Selected = R \cup Chosen(fr[d]) /\ Selected' = R \cup Chosen(f)
<1>1. \A e \in Dispatchers : fr'[e] = IF e = d THEN f ELSE fr[e]
  BY DEF RoutingTypeOK, Turns
<1> DEFINE R == UNION { Chosen(fr[e]) : e \in Dispatchers \ {d} }
<1>2. Selected = R \cup Chosen(fr[d])
  BY SelectedIs
<1>3. Selected' = R \cup Chosen(f)
  BY <1>1, SelectedIs
<1> HIDE DEF R
<1> QED
  BY <1>2, <1>3

\* ListedAreServed without its conditions.
Served == meta.sent \subseteq has \cup Selected

\* Where the property is promised.
Promised ==
    /\ clean /\ meta # None
    /\ Spraying \/ (setup.algo = "prophet" /\ crashes = 0)

LEMMA ServedNext == ForwardInv /\ ListedAreServed /\ [Next]_vars => ListedAreServed'
<1> SUFFICES ASSUME ForwardInv, ListedAreServed, [Next]_vars, Promised'
             PROVE  Served'
  BY DEF ListedAreServed, Promised, Served
<1>1. Promised => Served
  BY DEF ListedAreServed, Promised, Served
<1>2. clean' /\ meta' # None
  BY DEF Promised
<1>3. ASSUME NEW d \in Dispatchers,
             \/ Forward(d) \/ SenderRead(d) \/ Filtered(d) \/ Finish(d)
      PROVE  Served'
  <2>1. /\ Still(d) /\ UNCHANGED <<setup, connected, Counts>>
        /\ \/ stored' = stored /\ meta' = meta
           \/ stored' = FALSE /\ meta' = IF InStore THEN None ELSE meta
    BY <1>3, ForwardStep, SenderReadStep, FilteredStep, FinishStep
  <2>2. meta' = meta /\ has' = has /\ clean' = clean /\ crashes' = crashes
    BY <1>2, <2>1 DEF Counts
  <2>3. PICK f \in Frame : Turns(d, f) /\ Chosen(f) = Chosen(fr[d])
    BY <2>1 DEF Still
  <2>4. Selected' = Selected
    BY <2>3, SelectedStep DEF ForwardInv
  <2>5. Promised
    BY <2>1, <2>2, SetupSame DEF Promised
  <2> QED
    BY <1>1, <2>2, <2>4, <2>5 DEF Served
<1>4. ASSUME NEW d \in Dispatchers, SenderWrite(d) PROVE Served'
  <2> DEFINE m == fr[d].m
  <2>1. /\ UNCHANGED <<setup, connected, stored, given, out, missed, has, crashes>>
        /\ m \in MetaData \cup {None}
        /\ Spraying => m # None /\ m.copies >= 2
        /\ Busy(fr[d]) = {}
    BY <1>4, SenderWriteStep
  <2>2. PICK c \in Selections(m) :
           /\ meta' = IF Writes(c) THEN c.meta ELSE meta
           /\ clean' = (clean /\ (Writes(c) => meta = m))
           /\ \E f \in Frame : SelectsInto(d, c, f)
    BY <1>4, SenderWriteStep
  <2>3. PICK f \in Frame : SelectsInto(d, c, f)
    BY <2>2
  <2>4. Writes(c) => c.meta \in MetaData /\ c.meta.sent = SentOf(m) \cup c.to
    BY <2>1, <2>2, Selection DEF ForwardInv
  <2>5. Chosen(fr[d]) = {} /\ Chosen(f) = c.to
    BY <2>1, <2>3 DEF Chosen, SelectsInto
  <2>6. Selected' = Selected \cup c.to
    BY <2>3, <2>5, SelectedStep DEF ForwardInv, SelectsInto
  <2>7. clean /\ (Writes(c) => meta = m)
    BY <1>2, <2>2
  <2>8. meta # None => Served
    BY <1>1, <2>1, <2>7, SetupSame DEF Promised
  <2> HIDE DEF m
  <2>9. CASE Writes(c)
    <3>1. SentOf(m) \subseteq has \cup Selected
      BY <2>7, <2>8, <2>9 DEF SentOf, Served
    <3> QED
      BY <2>1, <2>2, <2>4, <2>6, <2>9, <3>1 DEF Served
  <2>10. CASE ~Writes(c)
    BY <1>2, <2>1, <2>2, <2>6, <2>8, <2>10 DEF Served
  <2> QED
    BY <2>9, <2>10
<1>5. ASSUME NEW d \in Dispatchers, NEW p \in Peers,
             SendSucceeds(d, p) \/ FailureRead(d, p) \/ FailureWrite(d, p)
      PROVE  Served'
  <2>1. setup' = setup /\ stored' = stored /\ crashes' = crashes
    BY <1>5, SendSucceedsStep, FailureReadStep, FailureWriteStep
  <2>2. /\ Spraying' = Spraying /\ InStore' = InStore /\ (Spraying <=> ~InStore)
    BY <2>1, SetupSame
  <2>3. fr[d].st[p] # "none" /\ GoodFrame(fr[d])
    BY <1>5, SendSucceedsStep, FailureReadStep, FailureWriteStep
    DEF ForwardInv, FramesOK
  <2>4. clean /\ (meta # None => Served)
    <3>1. clean
      BY <1>2, <1>5, SendSucceedsStep, FailureReadStep, FailureWriteStep
    <3>2. meta # None => Promised
      BY <2>1, <2>2, <3>1 DEF Promised
    <3> QED
      BY <1>1, <3>1, <3>2
  <2>5. ASSUME NEW f \in Frame, Decides(d, p, f)
        PROVE  /\ Selected \subseteq Selected' \cup {p}
               /\ f.st[p] = "failed" \/ fr[d].direct => Selected \subseteq Selected'
    <3>1. PICK R \in SUBSET Selected :
             Selected = R \cup Chosen(fr[d]) /\ Selected' = R \cup Chosen(f)
      BY <2>5, SelectedStep DEF ForwardInv, Decides
    <3>2. /\ Chosen(fr[d]) \subseteq Chosen(f) \cup {p}
          /\ f.st[p] = "failed" \/ fr[d].direct =>
                Chosen(fr[d]) \subseteq Chosen(f)
      BY <2>5 DEF Decides, Chosen, Busy
    <3> QED
      BY <3>1, <3>2
  <2>6. CASE SendSucceeds(d, p)
    <3>1. /\ meta' = meta /\ has' = has \cup {p}
          /\ \E f \in Frame : Decides(d, p, f)
      BY <2>6, SendSucceedsStep
    <3> QED
      BY <1>2, <2>4, <2>5, <3>1 DEF Served
  \* A failure that is not reported was a direct delivery.
  <2>7. CASE FailureRead(d, p)
    <3>1. /\ meta' = meta /\ has' = has
          /\ \E f \in Frame :
                /\ Decides(d, p, f)
                /\ f.st[p] = IF Reportable(d) THEN "failed" ELSE "none"
      BY <2>7, FailureReadStep
    <3>2. Reportable(d) \/ fr[d].direct
      <4>1. setup.algo # "dtlsr" /\ meta # None
        BY <1>2, <2>1, <2>2, <3>1 DEF Promised, Spraying
      <4>2. InStore => stored
        BY <4>1 DEF ForwardInv, ListInStore
      <4>3. setup.algo = "binary_spray" => fr[d].hasBlock \/ fr[d].direct
        BY <2>3 DEF GoodFrame
      <4> QED
        BY <4>1, <4>2, <4>3 DEF Reportable
    <3>3. Selected \subseteq Selected'
      BY <2>5, <3>1, <3>2
    <3> QED
      BY <1>2, <2>4, <3>1, <3>3 DEF Served
  <2>8. CASE FailureWrite(d, p)
    <3> DEFINE m == fr[d].fm[p]
    <3>1. /\ has' = has /\ m \in MetaData /\ m # None
          /\ meta' = IF InStore => stored THEN Failure(m, p) ELSE meta
          /\ clean' = (clean /\ ((InStore => stored) => meta = m))
          /\ \E f \in Frame : Decides(d, p, f)
      BY <2>8, FailureWriteStep
    <3>2. Failure(m, p).sent = m.sent \ {p}
      BY <3>1, FailureOK
    <3>3. InStore => stored
      BY <1>2, <3>1 DEF ForwardInv, ListInStore
    <3>4. meta' = Failure(m, p) /\ meta = m
      BY <1>2, <3>1, <3>3
    <3>5. Selected \subseteq Selected' \cup {p}
      BY <2>5, <3>1
    <3> HIDE DEF m
    <3> QED
      BY <2>4, <3>1, <3>2, <3>4, <3>5 DEF Served
  <2> QED
    BY <1>5, <2>6, <2>7, <2>8
<1>6. CASE DeleteBundle \/ GarbageCollect \/ Elsewhere
  <2>1. /\ UNCHANGED <<setup, fr, clean, has, crashes>>
        /\ meta' = meta \/ meta' = None
    BY <1>6 DEF DeleteBundle, GarbageCollect, Elsewhere, Counts
  <2>2. Selected' = Selected
    BY <2>1 DEF Selected
  <2>3. meta' = meta
    BY <1>2, <2>1
  <2>4. Promised
    BY <2>1, <2>3, SetupSame DEF Promised
  <2> QED
    BY <1>1, <2>1, <2>2, <2>3, <2>4 DEF Served
<1>7. CASE NotifyNewBundle
  <2>1. meta' = NoteBundle /\ has' = PrevNodes(setup.prev)
    BY <1>7 DEF NotifyNewBundle
  <2>2. NoteBundle.sent \subseteq PrevNodes(setup.prev)
    BY <1>2, <2>1, NoteBundleOK DEF ForwardInv, RoutingTypeOK
  <2> QED
    BY <2>1, <2>2 DEF Served
<1>8. CASE Crash
  <2>1. /\ setup' = setup /\ crashes' = crashes + 1 /\ crashes \in Nat
        /\ meta' = IF InStore THEN meta ELSE None
    BY <1>8 DEF Crash, ForwardInv, RoutingTypeOK
  <2>2. crashes' # 0
    BY <2>1
  <2>3. Spraying' /\ InStore
    BY <1>2, <2>1, <2>2 DEF Promised
  <2> QED
    BY <2>1, <2>3, SetupSame
<1> QED
  BY <1>3, <1>4, <1>5, <1>6, <1>7, <1>8, Steps

-----------------------------------------------------------------------------
(***************************************************************************)
(* The parts together: every reachable state satisfies the inductive       *)
(* invariants, for every algorithm, with and without mule.                 *)
(***************************************************************************)
THEOREM Inductive ==
    Spec => [](/\ ForwardInv /\ ProphetInv /\ DtlsrInv
               /\ CopiesInv /\ ListInv /\ ListedAreServed)
<1> DEFINE I == /\ ForwardInv /\ ProphetInv /\ DtlsrInv
                /\ CopiesInv /\ ListInv /\ ListedAreServed
<1>1. Init => I
  <2>1. ProphetInit /\ RoutingInit => ProphetInv
    BY ProphetAssumption DEF ProphetInit, RoutingInit, ProphetInv, ProphetTypeOK
  <2>2. RoutingInit => ListedAreServed
    BY DEF RoutingInit, ListedAreServed
  <2> QED
    BY <2>1, <2>2, ForwardInvInit, DtlsrInitInv, CopiesInit, ListInit DEF Init
<1>2. I /\ [Next]_vars => I'
  <2>1. ProphetInv /\ [Next]_vars => ProphetInv'
    BY ProphetNext
  <2> QED
    BY <2>1, ForwardInvNext, DtlsrNextInv, CopiesNext, ListNext, ServedNext
<1> QED
  BY <1>1, <1>2, PTL DEF Spec

\* Every variable keeps its type: metadata lists peers and counts copies in
\* Nat, predictabilities stay between 0 and 1 as long as the neighbours send
\* probabilities, tables lead to peers.
THEOREM TypeCorrect == Spec => []TypeOK
<1>1. ForwardInv /\ ProphetInv /\ DtlsrInv => TypeOK
  BY DEF ForwardInv, ProphetInv, DtlsrInv, TypeOK
<1> QED
  BY <1>1, Inductive, PTL

(***************************************************************************)
(* The spray algorithms create no copies, however many dispatchers forward *)
(* the bundle, over failures, deletions and restarts, as long as none of   *)
(* them overwrites what another one wrote.                                 *)
(***************************************************************************)
THEOREM NoCopyCreated == Spec => []CopiesNotCreated
<1>1. ForwardInv /\ CopiesInv => CopiesNotCreated
  <2> SUFFICES ASSUME ForwardInv, CopiesInv, Spraying, clean
               PROVE  Held + CopiesInFlight + out <= given + missed
    BY DEF CopiesNotCreated
  <2>1. /\ Held \in Nat /\ CopiesInFlight \in Nat /\ Cardinality(Pending) \in Nat
        /\ given \in Nat /\ out \in Nat /\ missed \in Nat
    BY CountsNat DEF ForwardInv
  <2>2. Held + CopiesInFlight + out + Cardinality(Pending) <= given + missed
    BY DEF CopiesInv
  <2> QED
    BY <2>1, <2>2
<1> QED
  BY <1>1, Inductive, PTL

\* A node never gives its last copy away, even if dispatchers overwrite each
\* other's metadata or the node crashes.
THEOREM LastCopy == Spec => []LastCopyKept
<1>1. ForwardInv => LastCopyKept
  BY DEF ForwardInv
<1> QED
  BY <1>1, Inductive, PTL

\* Whoever sent the bundle or got it stays in the list, so that it is not
\* selected again.
THEOREM HoldersListed == Spec => []HoldersAreListed
<1>1. ListInv => HoldersAreListed
  BY DEF ListInv
<1> QED
  BY <1>1, Inductive, PTL

\* Nobody is in the list, and so passed over, who neither sent the bundle
\* nor got it nor is being sent to.
THEOREM ListedServed == Spec => []ListedAreServed
BY Inductive, PTL

\* The sensor mule relays nothing to a sensor, whatever algorithm it wraps.
THEOREM MuleSparesSensors == Spec => []SensorsSpared
<1>1. ForwardInv => SensorsSpared
  BY DEF ForwardInv, FramesOK, GoodFrame, SensorsSpared
<1> QED
  BY <1>1, Inductive, PTL
=============================================================================
