-------------------------------- MODULE Dtlsr --------------------------------
(***************************************************************************)
(* The link state database of DTLSR (algorithm_dtlsr.go), the cron jobs    *)
(* that work on it and what its broadcasts tell a neighbour.  A step of a  *)
(* job is a critical section of dataMutex; recomputeCron and broadcastCron *)
(* read the flags in one section and act on what they read in later ones.  *)
(* A DTLSRPeerData is a record [ts, peers]; peers maps a node to 0 or to   *)
(* the time at which the connection was lost.                              *)
(***************************************************************************)
EXTENDS RoutingBase, Functions, Sequences

CONSTANTS
    Reports,   \* <<node, DTLSRPeerData>> that may come from the network
    PurgeTime, \* DTLSRConfig.PurgeTime
    MaxTime    \* bound: the clock

ASSUME DtlsrAssumption ==
    /\ PurgeTime \in Nat
    /\ MaxTime \in Nat \ {0}
    /\ \A r \in Reports : /\ r[1] \in Peers
                           /\ r[2].ts \in 1..MaxTime
                           /\ DOMAIN r[2].peers \subseteq Nodes

VARIABLES
    now,            \* the clock
    peerChange, receivedChange,
    peerData,       \* dtlsr.peers
    receivedData,   \* node -> DTLSRPeerData
    tracked,        \* nodes with an index
    routingTable,   \* destination -> next node
    tableTime,      \* when the table was computed; no step reads this
    job,            \* broadcastCron and recomputeCron: where they are
    sentTs,         \* Timestamp of the block that is being broadcast
    told            \* Timestamp of what a neighbour knows that gets every
                    \* broadcast

dtlsrVars == <<now, peerChange, receivedChange, peerData, receivedData,
               tracked, routingTable, tableTime, job, sentTs, told>>

Times == 0..MaxTime
IsPeerData(data) ==
    data \in [ts : Times, peers : UNION { [P -> Times] : P \in SUBSET Peers }]

DtlsrTypeOK ==
    /\ now \in Times
    /\ peerChange \in BOOLEAN
    /\ receivedChange \in BOOLEAN
    /\ IsPeerData(peerData)
    /\ DOMAIN receivedData \subseteq Peers
    /\ tracked \subseteq Nodes
    /\ routingTable \in UNION { [P -> Peers] : P \in SUBSET Peers }
    /\ tableTime \in Times
    /\ job \in [{"broadcast", "recompute"} ->
                   {"idle", "build", "send", "reset", "compute"}]
    /\ sentTs \in Times
    /\ told \in Times

NoMap == [x \in {} |-> 0]

\* map[k] = v
Put(map, k, v) ==
    [x \in (DOMAIN map) \cup {k} |-> IF x = k THEN v ELSE map[x]]

DtlsrInit ==
    /\ now = 1
    /\ peerChange = FALSE
    /\ receivedChange = FALSE
    /\ peerData = [ts |-> 1, peers |-> NoMap]
    /\ receivedData = NoMap
    /\ tracked = {Self}
    /\ routingTable = NoMap
    /\ tableTime = 1
    /\ job = [j \in {"broadcast", "recompute"} |-> "idle"]
    /\ sentTs = 0
    /\ told = 0

\* NewDTLSR after a restart; a neighbour still has what it was told.
DtlsrRestart ==
    /\ peerChange' = FALSE
    /\ receivedChange' = FALSE
    /\ peerData' = [ts |-> now, peers |-> NoMap]
    /\ receivedData' = NoMap
    /\ tracked' = {Self}
    /\ routingTable' = NoMap
    /\ tableTime' = now
    /\ job' = [j \in {"broadcast", "recompute"} |-> "idle"]
    /\ sentTs' = 0
    /\ UNCHANGED <<now, told>>

-----------------------------------------------------------------------------
(***************************************************************************)
(* computeRoutingTable.  The graph library is external; of its Shortest    *)
(* only that it returns some shortest path is used.                        *)
(***************************************************************************)
Cost(ts, t) == IF ts = 0 THEN 1 ELSE 1 + (t - ts)

Links(n) == IF n = Self THEN peerData.peers
            ELSE IF n \in DOMAIN receivedData THEN receivedData[n].peers
            ELSE NoMap

\* The paths from this node on which no node occurs twice, without their
\* first node.
Paths == { s \in UNION { [1..k -> Peers] : k \in 1..Cardinality(Peers) } :
             IsInjective(s) }

\* The peers of the node before the i-th one of the path.
From(s, i) == Links(IF i = 1 THEN Self ELSE s[i - 1])

HasArcs(s) == \A i \in 1..Len(s) : s[i] \in DOMAIN From(s, i)

Length(s, t) ==
    LET sum[i \in 0..Len(s)] ==
          IF i = 0 THEN 0 ELSE sum[i - 1] + Cost(From(s, i)[s[i]], t)
    IN  sum[Len(s)]

\* The nodes that can be reached, each with the nodes a shortest path to it
\* may start with.
NextNodes(t) ==
    LET paths == { s \in Paths : HasArcs(s) }
        shortest(s) == \A r \in paths :
                          r[Len(r)] = s[Len(s)] => Length(s, t) <= Length(r, t)
    IN  { <<s[Len(s)], s[1]>> : s \in { r \in paths : shortest(r) } }

IsTable(next, hops) ==
    /\ DOMAIN next = { h[1] : h \in hops } \cap tracked
    /\ \A n \in DOMAIN next : <<n, next[n]>> \in hops

IsRoutingTable(next, t) == IsTable(next, NextNodes(t))

-----------------------------------------------------------------------------
DtlsrTick == now < MaxTime /\ now' = now + 1

\* ReportPeerAppeared, ReportPeerDisappeared
PeerReport(p, ts) ==
    /\ peerData' = [ts |-> now, peers |-> Put(peerData.peers, p, ts)]
    /\ peerChange' = TRUE

PeerAppeared(p) ==
    /\ PeerReport(p, 0)
    /\ tracked' = tracked \cup {p}
    /\ UNCHANGED <<now, receivedChange, receivedData, routingTable,
                   tableTime, job, sentTs, told>>

PeerDisappeared(p) ==
    /\ PeerReport(p, now)
    /\ UNCHANGED <<now, receivedChange, receivedData, tracked, routingTable,
                   tableTime, job, sentTs, told>>

ShouldReplace(data, other) == data.ts > other.ts

\* NotifyNewBundle with a DTLSRBlock of another node.
ReceivePeerData(id, data) ==
    /\ data.ts <= now
    /\ IF id \notin DOMAIN receivedData \/ ShouldReplace(data, receivedData[id])
       THEN /\ receivedData' = Put(receivedData, id, data)
            /\ receivedChange' = TRUE
            /\ tracked' = tracked \cup DOMAIN data.peers \cup
                             (IF id \in DOMAIN receivedData THEN {} ELSE {id})
       ELSE UNCHANGED <<receivedData, receivedChange, tracked>>
    /\ UNCHANGED <<now, peerChange, peerData, routingTable, tableTime, job,
                   sentTs, told>>

PurgePeers ==
    LET stale == { p \in DOMAIN peerData.peers :
                     /\ peerData.peers[p] # 0
                     /\ peerData.peers[p] + PurgeTime < now }
    IN  /\ stale # {}
        /\ peerData' = [peerData EXCEPT
                          !.peers = Restrict(@, (DOMAIN @) \ stale)]
        /\ peerChange' = TRUE
        /\ UNCHANGED <<now, receivedChange, receivedData, tracked,
                       routingTable, tableTime, job, sentTs, told>>

Goto(j, l) == job' = [job EXCEPT ![j] = l]

RecomputeRead ==
    /\ job["recompute"] = "idle"
    /\ peerChange \/ receivedChange
    /\ Goto("recompute", "compute")
    /\ UNCHANGED <<now, peerChange, receivedChange, peerData, receivedData,
                   tracked, routingTable, tableTime, sentTs, told>>

RecomputeTable ==
    /\ job["recompute"] = "compute"
    /\ \E hops \in {NextNodes(now)} :
          routingTable' \in
             { next \in [{ h[1] : h \in hops } \cap tracked -> Peers] :
                  IsTable(next, hops) }
    /\ tableTime' = now
    /\ receivedChange' = FALSE
    /\ Goto("recompute", "idle")
    /\ UNCHANGED <<now, peerChange, peerData, receivedData, tracked, sentTs,
                   told>>

BroadcastRead ==
    /\ job["broadcast"] = "idle"
    /\ peerChange
    /\ Goto("broadcast", "build")
    /\ UNCHANGED <<now, peerChange, receivedChange, peerData, receivedData,
                   tracked, routingTable, tableTime, sentTs, told>>

\* NewDTLSRBlock copies the Timestamp under the lock.
BroadcastBuild ==
    /\ job["broadcast"] = "build"
    /\ sentTs' = peerData.ts
    /\ Goto("broadcast", "send")
    /\ UNCHANGED <<now, peerChange, receivedChange, peerData, receivedData,
                   tracked, routingTable, tableTime, told>>

\* sendMetadataBundle; the neighbour replaces what is older.
BroadcastSend ==
    /\ job["broadcast"] = "send"
    /\ told' = IF ShouldReplace([ts |-> sentTs], [ts |-> told]) THEN sentTs ELSE told
    /\ sentTs' = 0
    /\ Goto("broadcast", "reset")
    /\ UNCHANGED <<now, peerChange, receivedChange, peerData, receivedData,
                   tracked, routingTable, tableTime>>

\* Mutant of BroadcastReset: the recomputation is not asked for.
BroadcastResetOnly ==
    /\ job["broadcast"] = "reset"
    /\ peerChange' = FALSE
    /\ Goto("broadcast", "idle")
    /\ UNCHANGED <<now, receivedChange, peerData, receivedData, tracked,
                   routingTable, tableTime, sentTs, told>>

BroadcastReset ==
    /\ job["broadcast"] = "reset"
    /\ peerChange' = FALSE
    /\ receivedChange' = TRUE
    /\ Goto("broadcast", "idle")
    /\ UNCHANGED <<now, peerData, receivedData, tracked, routingTable,
                   tableTime, sentTs, told>>
=============================================================================
