# A verification project for dtn7-go

dtn7-go is a delay-tolerant networking daemon: it stores bundles, carries them,
and forwards them to neighbours over several convergence layers. This directory
holds TLA+ models of its concurrent parts and of the algorithms they rest on,
the TLC runs that check them on small instances and the TLAPS proofs of what
holds for every instance.

Run a model with `tlc -config MCCore_relay.cfg MCCore`, check the proofs with
`tlapm CoreProofs.tla`.

## 1. Inventory

### Parts of the system

| Part | State | Operations | Correct if |
|---|---|---|---|
| Core (`pkg/routing/core.go`, `processing.go`) | none of its own: store, routing, IdKeeper, agents, CLAs | `SendBundle`, `receive`, `dispatching`, `forward`, `localDelivery`, `bundleDeletion`, `SendStatusReport`, `CheckPendingBundles`, `handler` | no bundle is lost before it reached its destination or may be discarded; reports tell the truth |
| BundleDescriptor (`bundle_descriptor.go`) | constraints, receiver, cached bundle; a copy per goroutine | `NewBundleDescriptor`, `Sync`, `AddConstraint`, `PurgeConstraints` | the Pending index in the store agrees with the constraints |
| Epidemic routing (`algorithm_epidemic.go`, `algorithm.go`) | the `routing/epidemic/*` properties of an item | `NotifyNewBundle`, `DispatchingAllowed`, `SenderForBundle`, `ReportFailure` | every neighbour gets a bundle, none that has it gets it again |
| IdKeeper (`id_keeper.go`) | sequence number per (source, time) | `update`, `Clean` | bundle IDs are unique |
| AgentManager (`agent_manager.go`) | registered agents | `Register`, `Deliver`, `handler` | a bundle for a registered endpoint gets to its agent |
| Cron (`cron.go`) | jobs with their next time | `Register`, `fire` | a due job runs, in a goroutine of its own |
| Storage (`pkg/storage`) | badgerhold index and a file per bundle part | `Push`, `Update`, `Delete`, `QueryPending`, `DeleteExpired` | an item has its files, a file its item |
| CLA manager (`pkg/cla`) | map of CLAs with their ttl, two channels | `Register`, `Restart`, `Sender`, handler | a lost CLA is restarted, nobody waits for everybody |
| TCPCLv4 (`pkg/cla/tcpclv4`) | stage, four channels, transfers, acknowledgements | stages, `TransferManager.Send` and `handle`, `Client` | a bundle that counts as sent was received; a stall is noticed |
| MTCP, quicl, BBC (`pkg/cla/mtcp`, `quicl`, `bbc`) | connections, transmissions | `Start`, `Send`, `Close`, readers | the same |
| Spray, PRoPHET, DTLSR (`pkg/routing/algorithm_*.go`) | copies, predictabilities, link states | the `Algorithm` interface, cron jobs | copies are conserved; routes follow the newest data |
| Agents (`pkg/agent`) | clients, mailboxes | ping, REST, WebSocket, `MuxAgent` | a message gets to each agent it is for |
| bpv7 (`pkg/bpv7`) | none | codec, CRC, security, fragmentation | inverse functions |
| Discovery, dtnd, dtn-tool | - | announcements, configuration, user interface | - |

### Interaction and what is hard about it

A bundle comes from a CLA as a `ConvergenceStatus` through the CLA manager's
channels to `Core.handler`, or from an agent to `AgentManager.handler`; a third
kind of goroutine is started by Cron. Each of them runs the processing of a
bundle to its end, including nested `SendBundle` calls for status reports, and
one goroutine per neighbour for each transmission. They communicate through the
store only. badgerhold makes a single read or write atomic, but the code reads
an item, decides, and writes the whole item back without a lock. Hence the
questions of this project: what may such a write undo, which bundles does a
crash or a lost update hide from `QueryPending`, what happens to two bundles
with one identity. In TCPCLv4 the goroutines of a session are connected to a
cycle by bounded channels, and timeouts race with acknowledgements. The CLA
manager, its elements and their CLAs, and the agents behind two multiplexers are
connected by unbuffered channels and locks: who waits for whom, and what a
message that overtakes another one does. The routing algorithms other than the
epidemic one keep their data under a lock that they release between reading and
writing; DTLSR's cron jobs pass flags to each other across such gaps. The store
has two halves, a database and a directory of files, and a crash may come in
between. `PROJECT.json` lists these hazards with their lines.

## 2. Modules

| Module | Contents |
|---|---|
| `Descriptor` | a `BundleItem` as the goroutines see it and the effect of each store operation on one key |
| `Core` | the goroutines of a node over a store; properties |
| `MCCore` | instances of `Core` |
| `CoreProofs` | inductive invariant of `Core`: types and retries |
| `CoreCustodyProofs` | a second invariant on top of it: that no bundle is lost |
| `Tcpcl` | a TCPCLv4 session between two nodes; properties |
| `MCTcpcl` | instances of `Tcpcl` |
| `TcpclProofs` | inductive invariant of `Tcpcl`: types, and that what was sent is received |
| `TcpclShutdownProofs` | a second invariant on top of it: why a session ends |
| `RoutingBase` | node and neighbours as routing algorithms see them |
| `Spray`, `Prophet`, `Dtlsr` | the data of each algorithm and what its functions do to it; for DTLSR also its cron jobs, and shortest paths by definition |
| `Routing` | composes them: goroutines that forward a bundle under one of the algorithms, with or without the sensor mule; properties |
| `MCRouting` | instances of `Routing` |
| `RoutingProofs` | theorems for every property of `Routing` |
| `Bundle` | a bundle's blocks, validity, `BundleBuilder`, what serialising keeps |
| `Fragmentation` | `Fragment` and `ReassembleFragments` as functions |
| `KeyedStore` | abstract: a bundle's item appears, grows and goes in single steps |
| `Storage` | the store's database and files with its goroutines and crashes; implements `KeyedStore`; properties |
| `MCStorage` | instances of `Storage` |
| `StorageProofs` | theorems for the properties of `Storage`: the refinement of `KeyedStore`, what building, fragmenting and reassembling yield, what is stored and loaded |
| `Links` | CLA manager, its elements, MTCP clients and servers, and who sends; properties |
| `MCLinks` | instances of `Links` |
| `LinksProofs` | types of `Links`; of addresses that one goroutine at a time has in hand: that what runs is supervised, and that no failure and no announcement is lost |
| `Agents` | AgentManager, both multiplexers, ping, REST and WebSocket agents; properties |
| `MCAgents` | instances of `Agents` |
| `AgentsProofs` | types of `Agents`, that no mux sends on a closed channel, and that a REST client fetches only its own bundles |

No run composes `Core` with the others: each of the five other models has at its
boundary what `Core` sees of it. `Links` produces the `PeerAppeared` and
`PeerDisappeared` messages and the senders that `Core` has as environment
actions, `Agents` refines the hand-over at the end of `Deliver`, `Storage` the
atomic store operations, and `Routing` replaces epidemic routing in `forward`.

### Core and Descriptor

`store` is the database, `fr[<<p, k>>]` a call frame of goroutine `p` with the
local variables of the processing (its descriptor, the item it read last, the
states of the sending goroutines); `<<p, 2>>` is the frame of a nested
`SendBundle`. `pc` names the next access of the store. One step goes up to and
including this access, so each read-modify-write is two steps and any other
goroutine may come in between. `idk` is `IdKeeper.data`, `todo` the rest of a
`CheckPendingBundles` loop, `peers` what `Manager.Sender()` returns, `news` the
`PeerAppeared` messages on their way. `receptions`, `got` and `reached` record
what happened at the node's boundary: `got` grows when a neighbour sends a bundle
and when a transmission to it succeeds, whatever the node notes down. No action
of the node reads them.

Abstractions, and why they are sound for the properties:

- Bundles are names; `Attr` gives the fields the processing reads. Payload,
  blocks and their encodings do not matter to it. Unknown blocks are the set of
  control flags that are looked at; the removal of a block is not visible.
- `KnowsBundle` and `QueryId` of `Sync` are one read: the item they both read
  could only be deleted in between, and `Sync` then returns with an error that
  its callers ignore, as it does when `Update` finds nothing.
- `Sender()` is read together with the item right before it: only the
  environment writes it.
- `Push` and `Delete` are atomic here and have no files. A bundle can be loaded
  as long as its item is there. Module `Storage` has the separate steps.
- The endpoints of CLAs are represented by `Self`. `PeerDisappeared` needs no
  action of epidemic routing. The signature block only decides whether a
  received report is believed and is left out, as is `Core.Close`.
- Lifetime: `Expire(b)` may happen at any time to members of `Mortal`.
- `Crash` forgets everything but the database.

### Tcpcl

For each node: the stage goroutine (`stage`, `held`), `TransferManager.handle`
(`tm`, `cur`, `bufs`), the channels `exIn` and `exOut` between them, the wire,
and the `Client`. Each transfer has the local variables of its `Send` and of the
goroutine that `Send` starts.

- A send on a channel with room is part of the step that leads to it; on a full
  channel the goroutine is in a state of its own ("in", "out", "ack",
  "feedback", "push") and serves nothing else, which is where deadlocks come from.
- `wire[n]` is `MsgOut`, the TCP connection and the peer's `MsgIn` together, a
  reliable queue. A `Disconnect` loses a suffix of it: what was not written.
- KEEPALIVE messages are not on the wire. `handleKeepalive` may find a stall if
  the peer's stage is in a state in which it does not send any.
- Both peers run this code, so nobody sends MSG_REJECT or XFER_REFUSE. The
  start flag of segments is never read. `reportChan` has room, for the manager
  reads it. After `Disconnect` nothing that is left in the channels matters.
- A bundle is the sequence of its positions; `ToBundle` accepts exactly a
  complete one. The lengths are small numbers, the MTU is what the peer
  announced.

### Routing, Spray, Prophet, Dtlsr

`setup` is chosen in the initial state: the algorithm, whether the mule is in
front of it, and what is known of the bundle. `meta` is what the algorithm keeps
for this bundle: `bundleData[bp.Id]` of the spray algorithms, the list in the
bundle's item of the others. `fr[d]` holds the local variables of a goroutine in
`forward`; reading and writing `meta` are separate steps wherever the code
releases its lock or goes to the store in between. Everything after
`SenderForBundle` that concerns the copies (the transmissions, their failures,
`ReportFailure`, the calls of it by the mule) is one action each.

An observer counts what passes the node's boundary: `given` (copies the node was
given), `out` (copies it handed over), `missed` (direct deliveries that failed),
`has` (peers that sent the bundle or got it), `crashes`, and `honest` (all vectors
so far were made of probabilities). `clean` says that no goroutine wrote metadata on
the basis of a reading that another one had replaced.

- A list of neighbours comes in any order: `SpraySenders` and `BinarySenders`
  yield the set of all results.
- PRoPHET's probabilities are multiples of 1/`One`, a product is rounded down. A
  vector may hold any number, also a negative one: `UnmarshalCbor` reads any
  float64 and `CheckValid` looks at none.
  `Transitivity` has every order in which Go may walk the map.
- DTLSR's cron jobs are split at each critical section. The Dijkstra library is
  external: `NextNodes` defines the first hops of shortest paths, and the
  computation may store any of them. Time is `now`; a broadcast reaches an
  imagined neighbour (`told`).

### Bundle, Fragmentation, Storage

`Storage` follows one bundle ID. Either the bundle is built by any sequence of
builder calls and then edited, or a given bundle is sent, whole or in fragments
for several MTUs. A step is one access of the database or of one file, also
within `storeBundle`, which opens and then writes. `Crash` forgets the
goroutines and keeps database and files.

- The payload is a sequence of numbers, so that lost or repeated bytes show.
  Sizes are counted in units; serialised lengths of numbers do not vary.
- `WriteBundle` and `ParseBundle` keep what CBOR keeps and apply the checks that
  parsing applies; a file with something behind the bundle parses like the
  bundle in front, because the parser stops there.
- The refinement mapping takes `item` to the set of its parts, which is empty
  where there is no item, and its Pending field. Files are what the abstract
  specification hides.
- Endpoints, times and flags are small sets of those that the checks tell apart.
- `Sorted` puts each element where the number of those before it says and keeps
  the order of equal ones, as `sort` does up to twelve elements. With more it may
  not. The blocks of a valid bundle have different numbers, so nothing is equal
  there; the proofs about fragments use only that the offsets do not decrease.
- Loops that build something up (`AddExtensionBlocks`, `Size`,
  `mergeFragmentPayload`) are recursive functions of the number of passes.
- `StorageAssumption` says what a setup may be: a bundle that is built here is
  not stored; one that is sent is valid and no fragment; the MTUs are finitely
  many natural numbers.

### Links

One process per goroutine: `mgr` (Manager.handler), `elem[c]`
(convergenceElem.handler), `cla[c]` (MTCPClient.handler or the accept loop),
`send[s]` (goroutines in `Send`, the Core's handler is one), and the Core's
reading of `outChnl`. A step ends where a goroutine may have to wait. `view` is
what the Core heard last of each CLA.

- A connection breaks when its peer becomes unreachable, and a write to a broken
  one fails or still succeeds, as with TCP. `Keepalive` and the probe at the end
  of `Send` can find out.
- A registration is four steps of the goroutine that does it (`reg[g]`: one of
  discovery, the main one, or the Manager in its Restart and its ticker): the
  look-up in `convs`, the comparison with the receivers and `isActive`, the start
  under the element's mutex, the `Store`. Each step before the next access that
  others may disturb is separate, also `deactivate`'s ttl and the `Delete` after it.
- `contested` is what an observer notes: addresses that two goroutines had in hand
  at a time. No lock of the code keeps them apart; the properties say what holds
  for the other addresses, and the table below what happens to these.
- The code makes an element for each registration, the model has one per CLA. They
  differ only for a CLA that is registered twice at a time; such a CLA, started
  while it runs, is not followed any further ("twice").
- The server's connections are not elements of their own: a bundle appears at
  the server (`Incoming`).

### Agents

`mux[m]` is the loop of a MuxAgent that holds its lock: the message and the
children it has still to hand it to. The channel of a child is read by the
agent's own goroutine, whose state is `ping`, `rest`, `ws` or `conn[w].rcv`.
`child[a]` is the goroutine `handleChild` with a message on its way up.

- `HasEndpoint` takes both locks, so it needs both to be free; it does not keep
  them.
- `clients.Range` of the RestAgent stops after one entry: `FirstClient` is any.
- A mailbox is an object of its own (`box`), because `handleFetch` looks it up
  before it takes the lock and uses the reference afterwards.
- The mux asks a child for its endpoints (`Ask`) and then sends to it (`Hand`), two
  steps; the RestAgent walks its clients (`RangeClients`) after it took the message
  and before it has the mailboxes' mutex.
- A write to a WebSocket connection may fail at any time and ends `handleReceiver`,
  which closes the client's sender. `handleConn` may be sending on it (`Speak`):
  net/http recovers from the panic, and the bundle is lost.

## 3. Runs

| Run | Instance | Result |
|---|---|---|
| `relay` | a bundle for a remote node, received twice; handler and a cron job; a neighbour that comes and goes | `Custody`, `NoBundleForgotten`, `ForwardedIsRetried` hold |
| `restart` | a bundle for the neighbour, received twice, failing transmissions, handler and cron job, a crash at any step, `FairSpec` | `TypeOK`, `PendingIsDelivered` hold |
| `local` | a bundle for an endpoint of this node whose agent may register late or never, with all reports requested and a lifetime that may end; bundles to discard | `Custody` holds |
| `mixed` | bundles of agents, renaming, a foreign source, a status report that deletes one of them, nested reports | `Custody`, `NoBundleForgotten` hold |
| `fair` | a bundle for the only neighbour, failing transmissions, a broken administrative record, `FairSpec` | `EventuallyDelivered` holds |
| `session` | a transfer of two segments one way, of one segment the other; all channels of capacity 1; a `Send` may time out, one side may be closed | `TypeOK`, `SentIsReceived`, `ShutdownHasReason` hold |
| `algorithms` | eleven setups: each algorithm with its own and a foreign bundle, with metadata bundles, the mule over both spray algorithms; three neighbours, two goroutines, failures, deletion, a crash, a vector with a negative number | `TypeOK`, `CopiesNotCreated`, `LastCopyKept`, `HoldersAreListed`, `ListedAreServed`, `TableIsCurrent`, `SensorsSpared`, `PredictabilityGrows` hold |
| `storage` | seven setups: building and editing of up to four blocks; fragments of two MTUs with overlaps, of a bundle without a clock; goroutines that push, update and delete a whole bundle; crashes | `TypeOK`, `BuiltStaysValid`, `FragmentsAreFaithful`, `LoadedIsSent`, `CompleteIffAllStored`, `StoredIsReadable` and the refinement `ImplementsKeyedStore` hold |
| `links` | two clients of one peer, one permanent, and a server; two sending goroutines and one that registers next to the Manager; the peer goes and comes; the Core closes the Manager at any time | `TypeOK`, `RunningIsSupervised`, `RunningIsAnnounced`, `FailedIsRestarted` hold |
| `closing` | one client, `FairSpec` | `CloseReturns` is violated |
| `agents` | two REST clients one after the other, two WebSocket clients, the PingAgent; a bundle from elsewhere, one from the REST client to the PingAgent and back, one from a WebSocket client to the REST client | `TypeOK`, `RetrievedOnce`, `FetchedIsOwn`, `NeverSendsOnClosed` hold |
| `stalled` | one WebSocket client, two bundles for it, `FairSpec` | `ShutdownIsUnregistered` is violated |

The two failing runs are in `PROJECT.json` under "findings":

- `closing`: `Core.handler` calls `claManager.Close` and reads no longer; a
  Manager in `outChnl <- cs` never sees `stopSyn`. Or: the element's handler
  waits in `MTCPClient.Close` for a client handler that waits to report to it.
- `stalled`: the client's reader has returned after a failed write, the mux
  waits for it under its lock, and the goroutine that would unregister the client
  waits for the lock.

### Known disagreements

What else the models show when an instance is widened or a condition dropped. The
configurations named here are not among the runs; TLC finds the property violated
with each.

| Where | What happens | To see it |
|---|---|---|
| `routing/processing.go:22` | The second bundle of a source in one millisecond is stored under the first one's identity before the IdKeeper renames it; the first one loses its Pending mark and is not retried. | `MCCore_same_time.cfg`, `NoBundleForgotten` |
| `routing/algorithm_epidemic.go:185` | Two `ReportFailure` calls of one forward overwrite each other's list: a neighbour without the bundle counts as having it. The list is stored before anything is sent, so that a crash in between leaves the same. | `MCCore_sent_list.cfg`, `SentMeansReceived` |
| the same | The neighbour in question is the destination: it connected between `senderForDestination` and `SenderForBundle`, the transmission failed, and it stays in the list. `DispatchingAllowed` then finds nobody to send to, though the destination is connected. | `MCCore_two.cfg`, `EventuallyDelivered` |
| `routing/processing.go:81` | A neighbour that sends a bundle the node already has is not noted down, because `receive` returns early: it is sent the bundle later. | `MCCore_again.cfg`, `NoRedundantForward` |
| `storage/store.go:187` | The process dies after `Push` and before the first constraints are stored: `QueryPending` does not find the bundle, and the first `Sync` of another reception deletes the item, which is then pushed anew. | reading; `restart` begins with what is pending |
| `routing/processing.go:451` | A bundle that no agent took is reported as delivered. | `MCCore_no_agent.cfg`, `DeliveredReportIsTrue` |
| `tcpclv4/.../transfer_out.go:65` | A bundle whose length is a multiple of the MTU has no last segment: `Send` returns nil, the receiver waits. | `MCTcpcl_full.cfg`, `SentIsReceived` |
| `tcpclv4/.../sess_established.go:125` | Long transfers in both directions fill all channels; no stage gets back to its keepalive check. With the capacities of the code this takes about a hundred segments on their way in each direction. | `MCTcpcl_stuck.cfg`, `StallIsNoticed` |
| `tcpclv4/client.go:224` | A `Send` while the session ends dereferences nil. | `MCTcpcl_late.cfg`, `NoPanic` |
| `routing/id_keeper.go:64` | `Clean` may forget a tuple after 60 ms: two bundles get one identity. | `OldTuples` of a tuple in use, `Custody` |
| `routing/processing.go:81` | A third reception may clear the Pending mark the second left. | `MaxReceptions = 3` in `relay` |
| `routing/agent_manager.go:95` | An agent registers late; a cron job and a second reception deliver the bundle at a time, the `Sync` of each fails because of the other, nobody hands it over, and the item stays without LocalEndpoint and without Pending. | `AgentEids = {"far"}` in `relay`, `NoBundleForgotten` |
| `routing/algorithm_epidemic.go:95` | Two goroutines read the list of neighbours before either writes it: a neighbour gets the bundle twice. | `CronJobs = {"cron"}` and `MaxReceptions = 1` in `MCCore_again.cfg` |
| `routing/processing.go:250` | A destination that connects between `senderForDestination` and `SenderForBundle` is sent the bundle by the algorithm, and directly when it is retried. | `DirectAttr` and `MaxReceptions = 1` in `MCCore_again.cfg` |
| `routing/algorithm_spray.go:415` | BinarySpray adds the copies of a failed transmission up in the block of the bundle and stores the metadata without them, although "ReportFailure resets remaining copies if delivery was unsuccessful" (line 387). | `MCRouting_lost.cfg`, `FailedCopiesReturn` |
| `routing/algorithm_spray.go:197` | A failed direct delivery gives SprayAndWait back a copy that it had not given away. | drop `missed` in `CopiesNotCreated` |
| `routing/algorithm_spray.go:130` | Two goroutines hand over the same copies. | drop `clean` in `CopiesNotCreated` |
| `routing/algorithm_spray.go`, `algorithm_prophet.go` (`NotifyNewBundle`) | The previous node is not noted for a bundle of this node that comes back, one without a BinarySprayBlock, and PRoPHET's metadata. | a setup `Foreign("binary_spray", None)`, `HoldersAreListed` without `PassedOver` |
| `routing/algorithm_dtlsr.go:218` | DTLSR's `ReportFailure` does nothing: a peer whose transmission failed stays in the list of a broadcast. | drop the second condition of `ListedAreServed` |
| `routing/algorithm_dtlsr.go:549` | `peerChange` is reset after the broadcast: a change of the neighbourhood between the copy of the data and the reset is announced only with the next one. | `MCRouting_untold.cfg`, `ChangesAreAnnounced` |
| `bpv7/extension_block_prophet.go:88` | A vector with a number that is no probability is accepted and lowers a predictability, or takes it out of its range. | drop `honest'` in `PredictabilityGrows` |
| `agent/rest_agent.go:131` | With several REST clients only one gets bundles. | `MaxClients = 2` in `agents`, `RetrievedOnce` |
| `agent/rest_agent.go:236` | Two fetches at a time return a bundle twice or drop one. | `Fetchers = {"f1", "f2"}` in `agents`, `RetrievedOnce` |
| `storage/store.go:155` | A goroutine that deletes what another one is deleting removes the file of the item that is pushed next. | `does` with "delete" for two goroutines in `MCStorage`, `StoredIsReadable` |
| `storage/store.go:80` | Two goroutines push a bundle and a third call deletes it between the second one's file and its item: the item stays without a file. | `does` with "push", "delete" for `handler` and "push" for `pending`, `StoredIsReadable` |
| `cla/manager_elem.go:133` | A permanent CLA's ttl counts down to -1, the mark of an active element; it is not started any more. | `Active(c) => Running(c)` of "c1" in `links` |
| `cla/manager.go:191` | Two goroutines that register one address, or one that registers while the Manager unregisters, get in each other's way: the address is opened twice, and a CLA that runs is not in the Manager's map. | `MCLinks_overlap.cfg`, `RunningIsStored` |
| `cla/manager.go:175` | `Register` looks at `isStopped` and then dials. `main.go` closes the Core before discovery, so the CLA may start after `Close` returned; its element then sends on the closed `inChnl` and panics. | `MCLinks_late.cfg`, `ClosedIsQuiet` |
| `cla/manager.go:225` | A CLA fails between its start and its `Store`: the Restart for its report does not find it stored and does nothing; it goes on with its broken connection until the next keepalive or `Send` reports it again. | drop `~Contested(c)` in `FailedIsRestarted` |
| `agent/ws_agent_client.go:118` | `handleConn` sends on the channel that `handleReceiver` closes after a failed write (line 48): the send panics, which net/http recovers from, and the bundle is lost. | `MCAgents_sender.cfg`, `NeverSpeaksOnClosed` |

Not in the models, but met while reading for them: two goroutines that push
fragments of one bundle overwrite each other's item, so that a part is lost
(`storage/store.go:117`; the daemon's `Sync` pushes nothing for a known ID);
`purgePeers` shortens the
peer list without a new timestamp, which others then ignore
(`algorithm_dtlsr.go:572`); clocks that differ give negative link costs
(`algorithm_dtlsr.go:442`); `BundleItem.Load` fails for whole bundles, for which
`IsComplete` is true (`bundle_item.go:44`); bundles without a clock count as
expired in the store (`bundle_item.go:96`); a contained fragment makes the merge
panic (`fragmentation.go:224`); `UpdateBundleAge` mixes up units
(`bundle_descriptor.go:194`); algorithms register cron jobs before `Core.Cron` is
set (`core.go:77`).

### Bounds

One bundle of interest is enough for what its own goroutines do to each other,
because items of different bundles share nothing but the IdKeeper; `mixed` has
several whose reports meet. Two receptions and a cron job make
three processings of one item at a time. The runs of `Core` have one neighbour; two are
the least at which two `ReportFailure` calls meet, which `MCCore_sent_list.cfg` and
`MCCore_two.cfg` are about, and the safety theorems hold for any number. `MaxSeq = 1` permits one renaming. One crash is
enough to separate what is in the database from what is not. In `Tcpcl`
capacity 1 makes each channel full at least once in each transfer; sizes 3 and
1 with MTUs 2 and 3 give a transfer with a full and a short segment and one
with a short segment only. `MaxReceptions`, `MaxCrashes`, `MaxSeq`, `MaxId` and
`WireCap` are the bounds that the code does not have.

`algorithms`: a multiplicity of 3 gives Spray two copies to hand out and Binary
Spray an uneven split; two calls of `forward` (`MaxForwards`) are the least that
overlap; three outside events (`MaxEvents`) permit a neighbour that comes, goes
and comes again, or a failure and a crash in between. PRoPHET's unit 1/4 leaves
five values, on which every product is rounded. DTLSR's clock ends at 2
(`MaxTime`): lost, purged and renewed links have different costs.

`storage`: six bytes of payload are cut into three fragments for MTU 11, into
two for 15, which begin elsewhere and overlap the three, and into two for 13; for
MTU 16 the whole bundle is sent next to these fragments. `MaxBlocks = 3`
allows two extension blocks next to the payload, the least at which numbers
collide after a removal.

`links`: `QueueTtl = 1` (10 in the code) lets an element expire after one failed
attempt, `InCap = 2` (100) fills `inChnl`; one outage (`MaxDowns`), one `Send`
call per goroutine (`MaxSends`) and one incoming bundle (`MaxBundles`) suffice
for a report of an old connection to reach a new one. Two registrations
(`MaxRegisters`) next to those of the Manager are the least that overlap.

`agents`: three bundles keep both multiplexers busy while clients come and go; a
uuid is registered once, since the code draws it at random. The two uuids have
different endpoints. The WebSocket clients have one and are symmetric: no property
distinguishes them.

Deadlock is not checked. The environment may stop sending bundles, a session and
a Manager end. In `links` and `agents` the models also contain real deadlocks of
the code (the two failing runs, and the PingAgent that waits for
AgentManager.handler, which waits for the multiplexer that waits for the
PingAgent); safety properties are checked up to them.

### Fairness

`FairSpec` of `Core` assumes that goroutines are scheduled (weak fairness of
each), that Cron starts `CheckPendingBundles` again and again (`cron.go`
reschedules a job each time it fires it), and, of the environment, that an
announced neighbour gets connected and that a transmission that is tried
infinitely often succeeds once (strong fairness). Nothing is assumed about how
many of them fail, how the goroutines interleave, or when a retry comes.

`FairSpec` of `Links` and of `Agents` assumes weak fairness of every goroutine of
the node, which is what Go's scheduler gives, and nothing of peers and clients.
The counterexamples of `closing` and `stalled` end in states in which the
goroutines involved can never go on, so no stronger fairness would remove them.

## 4. Proofs

The theorems hold for every value of the constants that satisfies the named
assumptions, so for any number of goroutines, nodes, bundles and retries and any
capacity; TLC evaluates the assumptions for each instance it checks. Each rests on
an inductive invariant: initially true, kept by every action (one lemma per
action), strong enough for the property. TLC checked each invariant before it
was proved.

| Module | Theorem | States | Beyond the module's assumptions |
|---|---|---|---|
| `CoreProofs` | `TypeCorrect` | `TypeOK` | |
| | `ForwardedRetried` | `ForwardedIsRetried` | |
| `CoreCustodyProofs` | `CustodyKept` | `Custody` | identities differ, agents do not change what is local, no crash (`Steady`) |
| `TcpclProofs` | `TypeCorrect` | `TypeOK` | |
| | `BytesArrived` | `BytesReceived`: after a `Send` without an error all bytes are in the peer's buffer of this transfer, or handed on | |
| | `SentReceived` | `SentIsReceived` | no bundle is as long as a whole number of segments (`ShortTail`) |
| `TcpclShutdownProofs` | `ShutdownReason` | `ShutdownHasReason` | |
| `RoutingProofs` | `TypeCorrect` | `TypeOK` | |
| | `NoCopyCreated` | `CopiesNotCreated` | |
| | `LastCopy` | `LastCopyKept` | |
| | `HoldersListed` | `HoldersAreListed` | |
| | `ListedServed` | `ListedAreServed` | |
| | `MuleSparesSensors` | `SensorsSpared` | |
| | `TableCurrent` | `TableIsCurrent` | |
| | `PredictabilitiesGrow` | the action property `PredictabilityGrows` | |
| `StorageProofs` | `TypeCorrect` | `TypeOK` | |
| | `BuiltIsValid` | `BuiltStaysValid` | |
| | `FragmentsFaithful` | `FragmentsAreFaithful` | |
| | `LoadedSent` | `LoadedIsSent` | |
| | `CompleteWhenAllStored` | `CompleteIffAllStored` | |
| | `StoreIsKeyed` | the refinement `ImplementsKeyedStore` | |
| | `FragmentsReadable` | `StoredIsReadable`, where fragments are stored | |
| `LinksProofs` | `TypeCorrect` | `TypeOK` | |
| | `Supervised` | `RunningIsSupervised` | |
| | `FailureNotLost` | `FailedIsRestarted` | |
| | `AnnouncementNotLost` | `RunningIsAnnounced` | |
| `AgentsProofs` | `TypeCorrect` | `TypeOK` | |
| | `NoSendOnClosed` | `NeverSendsOnClosed` | |
| | `OwnBundlesOnly` | `FetchedIsOwn` | |

**CoreProofs.** `ForwardedIsRetried` is not inductive: it speaks of the store, but
a goroutine may write back an item it read long ago. `IInv` therefore says
that (1) every item in the store is good, i.e. its Pending index agrees with its
constraints, (2) every item any goroutine has in hand at a label at which it is
going to write it, and every item a pending `ReportFailure` has read, is good,
and (3) the frames and the rest of the state have their types, with the facts on
labels that (1) and (2) need: a frame past loading has a bundle, and `Sync`
returns only to labels that read again. Each write is then a good item with
another list, another destination, Pending set, or the result of `Sync`, and
lemmas show that each is good again. Assumptions: `DescriptorAssumption`,
`CoreAssumption`.

**CoreCustodyProofs.** An item is deleted by a `Sync` with no constraints, and
several goroutines sync one item without a lock. `CInv` says that each goroutine
works under the key of its own bundle and where it got this bundle from
(`FramesOK`, `ItemsOK`), that a `Sync` of a bundle that is still held has no
constraints only where the goroutine stores the bundle again or hands it over,
and that meanwhile the goroutine the bundle came to keeps it (`HeldInv`,
`FreshInv`); a bundle for this node is processed by that goroutine alone
(`LocalInv`).

`Steady` has three parts, each of which the code needs. Identities differ: else
the rows on `processing.go:22` and `id_keeper.go:64` apply. No agent makes a remote
endpoint local while a bundle for it is on its way: the row on
`agent_manager.go:95`. No crash: a process that dies between a reception and the
first `Sync` takes the bundle with it. An agent for the node's own endpoint may
register at any time, or never. The instances of `relay`, `local` and `mixed` satisfy
these hypotheses; so do instances with any number of bundles, receptions, neighbours
and cron goroutines.

**TcpclProofs.** That all bytes have arrived when `Send` returns depends on what
is in every place a message may be. `IInv` treats the stage's hand, the channels
and the wire of one direction as one pipe. `FlowInv` says of each transfer that
its segments in the pipe follow each other and what the receiver's buffer holds
without a gap (so a buffer always holds a beginning of its own bundle), and that
no acknowledgement, in the pipe or taken, is higher than what the buffer got.
`IdInv` keeps transfer IDs apart, `StageInv` and `TmInv` say which messages a
stage and the transfer manager can have in hand. `ShortTail` is needed, because
a bundle that fills its last segment is sent without an end flag, which is the
disagreement listed above; `BytesArrived` is what remains true without it.
Assumption: `TcpclAssumption`.

**TcpclShutdownProofs.** A session ends when an acknowledgement finds no `Send`
that waits, a finished buffer is no bundle, or a stage gets a message it does
not await. `CalmInv` says what holds as long as no Manager has closed its
`Client`, no `Send` has failed and no stall was noticed: the peers take turns in
the handshake and afterwards only segments and acknowledgements are in the pipe
(`TurnInv`); the acknowledgements of a transfer grow along their way, and its
`Send` waits as long as one is still coming (`OrderInv`). Otherwise there is a
reason already, and a reason stays one.

**RoutingProofs.** The variables of DTLSR, of PRoPHET and of forwarding do not
need each other's invariants. `TableIsCurrent` is inductive together with the
types: whoever changes the link state sets a flag in the same critical section,
and only the recomputation takes it back. The properties of the spray algorithms
and of the lists rest on `ForwardInv`: what each frame holds (a selection is made
from metadata with at least two copies, `ReportFailure` writes back what it read), that
the last copy stays, and that a list in the store goes with its bundle. `CopiesInv`
counts a failed direct delivery from the moment it failed, not from the write of
`ReportFailure`, and the copies on their way as a set of pairs of peer and number.
`ListInv` adds that a peer that is sent to is in the list, has not got the bundle and
is sent to by one goroutine, and that a bundle without a list was sent to nobody.
A received bundle may come with a
BinarySprayBlock of 0 copies; `LastCopyKept` promises a copy only for the others.
In `PredictabilitiesGrow` an encounter, and a vector of probabilities in any order of
the walk, only add to a predictability that is at most 1, with products rounded down.
Assumptions: `RoutingAssumption`, `SprayAssumption`, `ProphetAssumption`,
`DtlsrAssumption`, `SetupAssumption` (types of the parameters and of what comes
from the network, finitely many peers and dispatchers).

**StorageProofs.** The steps of the abstract store are the commits. `IInv` says
what a goroutine knows when it gets there: with a whole bundle, every item that
anybody has read has exactly this part, so that a late `Update` writes back the
same parts; with fragments, the item is the one that `Push` has read or gone, and
its new fragment is not among the parts. For fragments the invariant `RInv` adds
that a file is completely written before its name gets into the item, that from then
on nobody writes something else into it, and that `Delete` only removes files of the
item that is still there. Lemma `RoundTrip` shows that `ParseBundle` returns what
`WriteBundle` wrote whatever follows it in the file. For a whole bundle
`StoredIsReadable` is not a theorem: the two rows on `storage/store.go` above are what
several goroutines that push and delete it do.

`BuiltIsValid` rests on `SortRearranges` (what `Sorted` returns is a rearrangement
in order, for any strict order) and on `BInv`: a builder that did not fail has
blocks whose numbers are those its counter gave out, with number 1 for the
payload. `AddExtensionBlock` takes a number that is free, and no removal makes two
numbers equal.

The lemmas about fragmentation hold for any valid bundle and any MTU.
`FragmentResults`: `Fragment` returns nothing, the bundle, or parts each of which
begins where the one before ends (`Splits`). `SizeBound` and `FragmentsFit`: what is
estimated for the blocks of a part is not less than their length, also for the
first part, which has all of them. `MergesToAll`: pieces of one payload that
`prepareReassembly` accepts merge to this payload, however they overlap, unless the
merge panics. `ReassembledIsWhole`: adding the blocks of the first part anew
restores the bundle's blocks with numbers in ascending order. `LoadedSent` uses
them under the invariant `LInv`: with fragments, each file of the item is written
in full or removed; with a whole bundle, whatever is in its file begins like the
bundle, is therefore no fragment, and `Load` fails. `CompleteWhenAllStored` adds
`NoGapIffAll`: of consecutive ranges in order none is missing exactly if no gap is
between two of them and they reach the end.

An induction over data is written as a proof by least counterexample there
(`MinExists`), and a recursive function is used through a predicate that states its
equations (`IsAdding`, `IsMerging`, `IsSizing`). Assumptions: `BundleAssumption`,
`StorageAssumption`.

**LinksProofs.** All is said of addresses that are not contested. `CalmInv` says that
one goroutine at a time has such an address in hand, `RegInv` what it then knows:
until it starts a CLA no element of this address runs, and until it stores it no
other one is stored. `RunInv` ties a CLA's goroutine to its element's handler and
that to an active element that is stored or about to be; it needs `StopInv`, which says
that only the element that `unregisterConvergence` waits for is asked to stop.
`FailInv` and `AnnounceInv` follow a report from the goroutine that found the failure
through the element, `inChnl` and the Manager to the Core. `HoldInv` and `StoreInv` are
about types. Any number of goroutines may register, also the same address; the
theorems say nothing of the addresses for which they meet, which is what
`MCLinks_overlap.cfg` shows to be necessary. Assumption: `LinksAssumption`.

**AgentsProofs.** A mux sends to the children it noted when it took its lock.
`MuxInv` says that these are still registered, that a registered child's channel
is open, and that a client unregisters only under the same lock. `FetchedIsOwn` needs
`OwnInv`: no two clients share a mailbox, a running `/fetch` holds a mailbox of its own
client or one that nobody has any more, and whatever is in either is for this
client. It holds for any number of clients and overlapping fetches, unlike
`RetrievedOnce`. Assumption: `AgentsAssumption` (types of the parameters, names of agents
and clients differ).

Model-checked only:

- `EventuallyDelivered` and `PendingIsDelivered`: liveness is beyond the prover.
- `CloseReturns` and `ShutdownIsUnregistered`, which are liveness too and which the
  code violates.
- `NoBundleForgotten`, which the code keeps for two receptions of a bundle and not
  for three; `RetrievedOnce`, which it keeps for one REST client and one `/fetch` at a
  time; `StoredIsReadable` for whole bundles.

The other invariants and action properties of the passing runs are proved. `Custody`
and `SentIsReceived` have hypotheses that exclude disagreements listed above; the
properties of `Links`, of copies and of lists name theirs themselves (`Contested`,
`clean`).

## 5. Not modelled

- CBOR, CRC, BPSec, TLS, HTTP, UDP multicast, configuration, command line: data
  transformations and input/output.
- `pkg/routing/pipeline*.go`, which the daemon does not use.
- quicl, whose protocol is the library's.
- The Bundle Broadcasting Connector: it needs a model of a lossy medium of its
  own, and is the next module of the plan.
- Shutdown of agents and of the AgentManager, which nothing triggers; syscall
  messages, which nothing answers; `ConvergenceProvider`, the listeners'
  registration.
- `Core.Close`, apart from the Manager's part in `Links`.

## 6. Plan

1. Proofs: weaker hypotheses for `CoreCustodyProofs`, first of all agents that
   register while the owner of the bundle is the only one to process it.
2. `Bbc`: transmissions over a lossy medium with sequence numbers modulo 16.
3. Elements of their own for each registration in `Links`, to follow a CLA that was
   started twice.
