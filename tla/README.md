# A model of Burrow

Burrow is a service mesh made of three programs. The **council** keeps one state table in
memory. **Kings** are QUIC tunnel servers that the public can reach. **Lings** are nodes
that may be isolated: they tunnel their local services out to kings, and proxy local TCP
clients to the services of other lings. Kings and lings report to the council with `PUT`
heartbeats and learn its state by polling `GET /state` every few seconds and over a
WebSocket that says "state-changed".

This directory holds TLA+ modules of that code, TLC configurations that check them on small
instances, and TLAPS proofs of the safety properties for every instance. Paths below are relative
to `src/`; `internal/` is left out.

1. [The system](#1-the-system)
2. [Modules and the code they stand for](#2-modules-and-the-code-they-stand-for)
3. [Runs](#3-runs)
4. [Fairness](#4-fairness)
5. [Proofs](#5-proofs)
6. [Disagreements with comments and tests](#6-disagreements-with-comments-and-tests)
7. [What is not modelled](#7-what-is-not-modelled)
8. [Plan](#8-plan)

## 1. The system

### Components

| component | source | state it keeps | operations |
|---|---|---|---|
| state table | `council/routes.go`, `state/state.go` | services, kings, lings, a revision; one `RWMutex` | `PUT /king`, `PUT /ling`, `GET /state` |
| provisioner | `council/provisioner.go` | none: it edits the table | place a service on a king and a port; take it off a king that shuts down |
| cleaner | `council/cleaner.go` | none: it edits the table | every tick, drop kings and lings that stopped beating, and services left over |
| hub | `council/websocket.go` | connected clients; one mutex | add, remove, broadcast, close all |
| council process | `council/council.go` | root context | start, graceful stop |
| watcher | `state/watcher.go` | the last state fetched; one mutex | poll, listen, fetch, deliver; wait for a first state |
| king tunnel server | `king/tunnel.go` | services with tokens, TCP listeners, QUIC connections, a drain channel | apply a state, accept and authenticate a connection, forward a client, drain, close |
| king process | `king/king.go` | the state last delivered | apply a state to every tunnel server; shutdown |
| king syncer | `king/syncer.go` | a trigger channel with one slot | heartbeat each second and when triggered |
| ling tunnel client | `ling/tunnel.go` | one connection per king | dial, authenticate, accept data streams, close all |
| ling process | `ling/ling.go` | the state last delivered | apply a state to connections and proxies; shutdown |
| ling syncer | `ling/syncer.go` | a trigger channel with one slot | heartbeat each second and when triggered |
| ling TCP proxy | `ling/proxy.go` | targets, a channel that is closed while there are some, a round-robin counter, upstreams | accept, wait for a target, dial with retries, bridge, close |
| command line, debug requester | `cmd/burrow/main.go`, `debugcmd/requester.go` | none | - |

### How they interact

    king, ling --PUT heartbeat--> state table --Provision--> (same table)
                                      ^  |
                              cleaner-+  +--Broadcast--> hub --"state-changed"--> watcher
    watcher --GET /state--> state table                      |
    watcher --onChange--> king: tunnel servers               | (also polls)
                          ling: connections, proxy targets   |
    ling tunnel client ==QUIC==> king tunnel server <--TCP-- ling TCP proxy <--TCP-- client

A service goes through the whole circle: a ling's heartbeat creates it; the provisioner
gives it a king and a port; the king hears of it and starts to listen; the ling hears of it
and dials; the king authenticates the connection and reports the service ready; the ling
sees that and reports it too; other lings' proxies then take it as a target.

### What is hard about it

* **Unlock windows.** A `PUT` handler releases the mutex around each broadcast in the middle
  of a request (`council/routes.go:183`, `:222`, `:245`, `:345`, `:400`, `:444`) and goes on in a
  table that other handlers and the cleaner have changed.
* **Aliasing.** A placed service does not copy its king's host and bind port. It keeps
  pointers into the backing array of the `Kings` slice (`council/provisioner.go:109`), which
  `append` reallocates and the cleaner compacts in place (`council/cleaner.go:67`).
* **Two goroutines per watcher** fetch, store and deliver states without any order between
  them (`state/watcher.go:131-165`).
* **Everything is eventually told to everybody, in any order.** A ling may hear of a
  placement before its king does; connections break and are replaced; handlers of old
  connections run on next to new ones.
* **Shutdown** has a final sync, a drain with a deadline and a close, next to goroutines
  that do not know of it. **Restarts** begin with an empty table at revision 0.

### What correctness means, per component

* *State table*: the mutex is held exactly in critical sections; a king and a service are
  listed once however many heartbeats race; what is stale or orphaned goes away; every
  request is answered.
* *Provisioner*: no two services share a public port; no service stays visible on a king
  that is shutting down.
* *Hub and watcher*: every change is announced; nobody misses a wake-up; a watcher ends up
  with the current state, through failures and restarts.
* *Tunnel*: a live connection stays registered, a dead one does not; the drain is woken; a
  ling notices that its connection died; no handshake hangs; a king ends up serving what it
  was assigned.
* *Syncers and lifecycle*: no connection goes unreported; every running node is listed, through
  restarts of the council; a connected service becomes a target; lings leave a king that drains.
* *Data path*: no response is cut short unnoticed; what a client, a service or a lost connection
  leaves behind is released; a client does not wait for a stream for ever.
* *Proxy*: nobody waits next to a target; an open connection is cut only when both
  directions are done or the proxy closes; what is closed is released.

The hazards, each at its line of code with the properties that watch it, are listed in
`PROJECT.json`.

## 2. Modules and the code they stand for

`PROJECT.json` maps every definition to its lines. In general one action is one stretch of
code between two points at which another goroutine can be noticed: taking or releasing a
mutex, a channel, the network. A definition with `\* mutant` next to it is a plausible bug;
it is used by nothing but the mutation checks, which put it in the place of the definition
it precedes and expect a property to fail.

### Council (`Council.tla`)

The table, the handlers, the provisioner and the cleaner.

* `heap`, `arr`, `nkings` are the `Kings` slice: every backing array it ever had, the one it
  points into, and its length. A service's `at` is a pointer to a cell; `Host` and `BindPort`
  always point into the same cell, so one pointer stands for both. `AddrOf` reads through it,
  as all code that compares addresses does. `Capacity` is how `append` grows the slice.
* A handler is a program counter `pc[h]` and its locals `call[h]`. `Locked` names the points
  at which it holds `stateMutex`. `Bump` is "revision++, Provision"; the deprovisioning half
  of `Provision` belongs to the same step, the placements follow as `ProvisionOne`, one per
  service, still under the mutex. Then come `ProvisionDone` (unlock), `Broadcast`, `Relock`, and
  the handler continues at `call[h].resume`.
* `PUT /king`: `ReadyMissing/Again/Mark/Done` (`processKingReadyServices`), then
  `KingNew`, `KingRefresh`, `KingUpdate` with `KingBeat` after the window
  (`processKingTunnels`, `updateExistingKing`). `KingBeat` writes through the pointer taken
  before the window, as the code does.
* `PUT /ling`: the same ready ids, then `LingNew`, `LingRefresh`, `LingFlip`
  (`ensureLingExists`), `ServiceExists`, `ServiceNew` (`processOneLingTunnel`).
* `RunCleaner` is one pass; it compacts the array in place, so pointers that led to one king
  may lead to another afterwards.
* `Send` builds a request. Its ready ids are any subset of what the node could claim from a
  state read at that moment (`KingClaims`, `LingClaims`). What happens before `Lock` makes
  them stale. A king's real claims also need a connection, which makes them a subset of these.

Abstractions: a port range is a set of numbers, a location or certificate a value, ids are
numbers in slice order; tokens, the JSON encoding and request validation are left out.
`SteadySpec` is the same system without any step that shortens `Kings`.

`Readers.tla` adds who reads the table: `Read` is `GET /state` under the read lock, `held` an answer
that a watcher has kept, and `KingsView`, `ServicesView`, `LingsView` what nodes act on in one (beats
are left out).  Its one property is about two answers with the same revision.

### Notify (`Notify.tla`) and Feed (`Feed.tla`)

How a change reaches a watcher. A state is its revision and the number (`epoch`) of the
council process that issued it.

* Council side: `Change` is whatever `Council` does to the table; `Begin`, `WriteOk`,
  `WriteFailed`, `End` are `Broadcast` under `hub.mu`; `Expire` is its context, which is the
  request's limited to five seconds for all clients together; `Add`, `Hello`, `Leave` are
  `handleWebSocket`; `Stop`, `CloseAll`, `Exit`, `Crash`, `Start` are the process.
* Watcher side: `Dial`, `Receive`, `Disconnected` (`listenWebSocket`), `Poll`, and
  `Answer`, `Failed`, `Store`, `Call` (`doFetchState`), for each of the two goroutines.
  `Store` compares revisions only. `Call` happens after the mutex is released.

`Feed` is the abstract promise: a watcher's copy is always a revision the council really
had, and catches up. `Promise == INSTANCE Feed WITH known <- ...` maps `w.state` to it.

### Tunnel (`TunnelWire.tla`, `TunnelServer.tla`, `TunnelClient.tla`, `Tunnel.tla`)

One bind port of one king and one ling. Other bind ports and kings have state of their own
and share nothing with it.

* `TunnelWire` has what both sides share: the placement with its revision, and the QUIC
  connections. `up[c]` holds the ends that have not yet seen `c` close; `Break` and `Notice` are
  idle timeouts and closes arriving. `Assignment` says that a port has one service and
  a service one port: `PortExclusive` of `Council` (while no king expires) is what allows it.
* `TunnelServer`: `OnStateChanged` by either goroutine of the watcher (`KingHears`,
  `UpdateServices`, `EnsureTCPListener`, `ListenFails`, `FindStale`, `RemoveTCPListener`,
  `KingApplied`); `handleConnection` (`Accept`, `Welcome`, `Reject`, `Abandon`, `Register`,
  `Unregister`, `Signal`); shutdown (`KingStop`, `DrainLook`, `DrainWake`, `DrainTimeout`,
  `Close`, `KingExit`, `KingCrash`).
* `TunnelClient`: `updateTunnelConnections` (`LingHears`, `HasActiveConnection`, `DialKing`,
  `DialFails`, `AuthOk`, `AuthFails`, `Trim`), `acceptDataStreams` (`AcceptEnds`), and
  shutdown (`LingStop`, `CloseAll`, `LingExit`, `LingCrash`).
* `Tunnel` composes them, says which connection numbers may be used again (`Unused`), and
  states the properties.

Abstractions: fetching and storing a state is one step here (`KingHears`, `LingHears`),
because `Notify` has the details; a token is its service; a QUIC handshake and the control
message on its first stream are one step, `DialKing`. A king or ling that exits does not come
back under the same identity within a run.

### Proxy (`Proxy.tla`)

One proxy, its clients and its targets. `UpdateTargets` (`updateTargets`); `Accept`, `Look`,
`Wake`, `Deadline` (`waitForTarget`), `DialOk`, `DialFails`, `Retry` (`dialUpstream`);
`Track`, `SourceEnds`, `WriteFails`, `Finish` (`handleConn`, one copying goroutine per
direction); `Cancel`, `CloseListener`, `CloseGate`, `CloseUpstreams` (`close`, one step per
critical section). The channel in `hasTargets` is a number, and `closed` the numbers that are
closed, so that a client may hold an earlier one. Bytes are left out: what matters of a
direction is when it ends, and that an end of the sink is only noticed when the source sends.

### Placement (`Placement.tla`)

What the nodes read in a state of the council, as operators: the services a king lets in
(`filterServicesForTunnel`), the ids it reports (`KingReadyServiceIDs`), the kings a ling connects
to (`TunnelGroups`), the ids it reports (`LingReadyServiceIDs`), the targets of a proxy
(`EligibleForProxy`), and `Provision`. `Seen` projects a state to what the code of one node reads of
it, which keeps the state space small and changes none of these operators' results.

Abstractions: one tunnel per ling and one bind port per king; a service's id and token are one
number; ports and the preferred location are in `Council`, here a service without a king may get
any that serves, and a proxy takes every eligible target.

### Mesh (`Mesh.tla`)

Kings and lings around the council, on top of `Placement`.

* Syncers: `Sync` is a turn of `run`, by the ticker or a token of the one-slot channel `notify`;
  `Payload` reads the flag, the last state and the connections; the request is on the `wire`
  until `Handle` or `Lose`, and the syncer is busy until then. `triggerSync` is called at both
  ends of a new connection. `unsaid` has no counterpart in the code: it remembers which
  nodes have made a connection since their last payload was built, for `NoLostTrigger`.
* Council: `Handle` is a whole `PUT`. An unknown ready id refuses the rest of it (`Handled`), after
  any of the known ones has been marked. The revision is bumped as often as the code does: per flag that
  changes (`Marked`), per node that is new or changes its word (`PutKing`, `PutLing`; a new ling only for its
  service), per placement (`Provision`). `CouncilRestart` empties the table, sets the revision back to 0 and
  fails what is under way; ids are never given twice.
* States: `Fetches` stores and delivers a state if its revision is not the one held, as `doFetchState` does, so
  after a restart a node may take another state for the one it holds (`Mistaken`).
  `KingOnStateChanged`, `LingOnStateChanged` are a fetch with its callback; the second
  dials what is missing once (`Admits` is the king's answer), keeps every other connection to a
  king it still needs (`Kept`) and closes the rest. `Break` is a lost connection.
* Shutdown: `Stop`, `FinalSync`, `FinalSyncTimeout`, then `Drained` or `DrainTimeout` for a king and
  `CloseAll` for a ling.

`Events` says which of stop, restart, lost heartbeat and lost connection a run allows, `MaxEvents` how many.

Abstractions: a request, a delivery and a handshake are one step each, as `Council`, `Notify` and
`Tunnel` look inside them. Nobody crashes or expires here: a
shutdown (2 s for its last heartbeat, 5 s of drain) and the loss of a heartbeat stay below the 10 s after
which the cleaner acts, and expiry is in `Council`.

### DataPath (`DataPath.tla`)

One client of a tunnelled service, from the king's `Accept` to both ends closed. Four pipes of
TCP and two of QUIC, each with `Window` chunks of buffer; `data`, `fin`, `cut` and `broken` say what is
in a pipe, whether its writer has ended it, its reader is gone, or it was reset. Four copying
goroutines (`Copier`) hold at most one chunk (`hand`).

* King: `KingAccept`, `OpenStream`, `Retry`, `GiveUp` (`openServiceStream`), `WriteHeader`,
  `WriteHeaderFails`, `BridgeDone` (`bridgeStreams`).
* Ling: `AcceptStream`, `Refuse`, `DialService`, `LingDone` (`handleDataStream`).
* Both: `Read`, `Write` and `CopyEnds` are `io.Copy` and what its goroutine does after it. `FinAfter`
  and `CutAfter` are the calls of `Close` and `CancelRead`: which pipes are ended and which are no longer read.
* Environment: client and service send, read, half-close and close; `Reset` is TCP's answer to data
  for a closed socket; `Connects` and `LinkLost` change the registered connection between any two steps.

Abstractions: one client (clients share nothing but the connection); a connection's loss is noticed by
both its ends at once; a chunk has no content.

### Model-checking modules

`MCCouncil`, `MCReaders`, `MCNotify`, `MCTunnel`, `MCProxy`, `MCMesh` and `MCDataPath` define the values of the
constants and the symmetry sets. Symmetry is used only where no liveness property is checked.

Two of them also have later states to start from, which leave more of the bounds for what happens afterwards.
`ServingInit` (`MCCouncil`) is a table with a king, a ling and a ready service. `FlowingInit` (`MCMesh`) has
everybody listed, each service placed, connected, ready and known to everyone, and nothing under way. `Init`
leads to both: TLC, asked for their negation as an invariant, prints the way. `StartingInit` (`MCMesh`) is `Init` with
one king running.

## 3. Runs

| run | configuration | checks | states |
|---|---|---|---|
| `council_core` | `CouncilCore.cfg` | `TypeOK`, `LockDiscipline`, `UniqueKings`, `UniqueServices`, `ChangesAnnounced`, `RevisionTellsView` | 4 304 228 |
| `council_steady` | `CouncilSteady.cfg` | `PortExclusive`, `OffShuttingDown` | 1 735 218 |
| `council_live` | `CouncilLive.cfg` | `RequestsAnswered`, `StaleKingsGo`, `OrphansGo` | 92 581 |
| `notify_push` | `NotifyPush.cfg` | `TypeOK`, `NoGhostClients`, `NoLostWakeup`, `WakesUp` | 218 832 |
| `notify_poll` | `NotifyPoll.cfg` | `CatchesUp`, `FeedKept` | 91 716 |
| `tunnel_core` | `TunnelCore.cfg` | `TypeOK`, `NoLostDrain`, `ConnectionWatched`, `NeverDropsLive` | 1 697 493 |
| `tunnel_live` | `TunnelLive.cfg` | `NoGhostConnections`, `HandshakeEnds`, `Settles` | 168 214 |
| `proxy` | `ProxyCore.cfg` | `TypeOK`, `NoWaitWithTargets`, `ConnectionsKept`, `Released` | 464 209 |
| `mesh` | `MeshCore.cfg` | `TypeOK`, `NoLostTrigger`, `ConnectedBecomesTarget`, `DrainEnds`, `Listed` | 145 302 |
| `data_path` | `DataPathCore.cfg` | `TypeOK`, `NoTruncation`, `ResponseDelivered`, `Released`, `LingReleased`, `Answered` | 698 353 |
| `cleaner_aliasing` | `CouncilOrphans.cfg` | `OrphansLeaveWithKing` - violated | |
| `council_restart` | `MeshRestart.cfg` | `TrafficReturns` - violated | |

### Bounds, and why they are enough

* **council_core**: two handlers in flight at once (every window is a window of one handler
  into which others fall), four heartbeats in all, two kings, one ling with one service,
  shutting down or not, `StaleAfter = 1` with a clock up to 1, so that a node can be exactly at the
  threshold or fresh, and comes back after it expired; and a watcher that keeps any answer for as long as it likes. Four heartbeats are what it takes to register both kings and
  a ling and have one more that meets them after the cleaner. Arrays have room for 1, 2 and
  4 kings, so that the second registration reallocates. `MaxReady = 1` id per request,
  because each id is processed alone.
* **council_steady**: four heartbeats and a clock up to 1, a ling with two services (two services are needed to
  share a port), a king with one port and one with two, so that ports run out.
* **council_live**: one king and one ling that may say something new in each heartbeat (`Downs = {TRUE, FALSE}`), so
  that a request writes through a pointer it saved before a window, and a ling can expire in the window between its
  registration and the look-up of its service, which leaves an orphan when the handler goes on.
  Three heartbeats of two handlers from an empty table are enough for both, and two from `ServingInit`, where
  king and ling are registered and the service is ready; the clock has one tick.
* **notify_push**: two broadcasters and two connections, so that an old connection is still
  in the hub when the watcher has a new one; one broken or timed-out broadcast, one exit or
  crash of the council, and `Poller = {}`: whatever is learnt is learnt from the WebSocket.
  `MaxFails = 0`: a failed fetch is not retried by this goroutine, so the claim would be
  false, and is repaired by polling, which `notify_poll` shows.
* **notify_poll**: both goroutines, a failed fetch and a broken connection, but no restart
  (section 6 says why). The WebSocket goroutine has no fairness here: it may interfere at the
  worst moment and never repair anything.
* **tunnel_core**: one service, but both goroutines of both watchers and three connections: one
  registered, one replaced and one being set up. Two changes (placed, taken away, or
  something else), one broken connection, a refused dial or port, and one shutdown or crash
  of either side.
* **tunnel_live**: two services and ports, so that a connection carries more than one
  service, and one goroutine per watcher. With both, `Settles` fails, because
  the older of two states may be delivered last (section 6). No failed `listen`, because nothing in the code retries one before
  the next state.
* **proxy**: two clients, which share the counter; targets that come and go twice, as a waiting
  client can then hold a channel that has been replaced; one target that starts or stops
  refusing; two tries per client.

* **mesh**: two starts in one run. From flowing traffic (`FlowingInit`), two kings, because a service has to
  move from one that stops to the other, one ling and one event: a stop, a restart, a lost heartbeat or a lost
  connection at any moment. From an empty table (`StartingInit`), one king, one ling and any two of these events, at
  any two moments: with a stop and a restart a node can be `Mistaken`, and `DrainEnds` without its exception is
  violated. A second ling with its service makes the liveness check too long, so whether a proxy gets the
  target is checked for the ling's own proxy only.
* **council_restart**: from flowing traffic, with two kings, a ling and a restart as the only event.
* **data_path**: one chunk per buffer makes every copy block at every point; two chunks each way
  are one more than a hop holds, so a sender can be held up by its reader. Three tries as in
  the code are met by two changes of the connection: lost and replaced, or stalled, between any two.

`CHECK_DEADLOCK FALSE` is set where the real system stops: a council without pollers has
nothing to do when nothing changes (`notify_push`), watchers deliver nothing without a new
revision (all tunnel runs), nodes that have shut down and a client that is done stay so (`mesh`,
`data_path`), and a proxy whose clients are done is idle. `Council` has an
explicit `Quiet` step instead, so that a deadlock on the mutex would be found.

### What the properties say that is not obvious

* `RevisionTellsView`: a watcher that holds an answer throws a later one with the same revision away, and
  loses nothing. Heartbeats written through a stale pointer and compaction under a service's pointer do not
  break this, because the first writes only the beat and the second always comes with a new revision.
  Lings are another matter. `ensureLingExists` lists a new ling without a new revision
  (`council/routes.go:386`); most of the time its new service makes up for that before the mutex is
  released. `ReturnedTo` is what is left: a ling that comes back to a service that outlived it, which kings then
  treat as if its ling were gone until the next change (section 6). `ChangesAnnounced` does not see this
  registration either: it is about changes that have a revision.
* `OffShuttingDown` and `PortExclusive` hold while no king expires. When one does, they may
  not: see `cleaner_aliasing`. `OffShuttingDown` also needs that an address is advertised with one
  port range: a king that comes back with another one is listed next to its old self (section 6).
* `OrphansGo` covers services that a handler creates for a ling that expired in its window, which is why its run
  has lings that change their word.
* `ConnectionWatched` is about the connection in the ling's map; another one that was overwritten there is open
  and managed by nobody (section 6).
* `Settles` compares the services a king knows and the ports it listens on with its last state, not the id an accept loop
  was started with (section 6).
* `NoLostWakeup` is the safety core of `WakesUp`: once a watcher's messages are read and no
  broadcast to it is under way, what it fetched is current. A client is added to the hub
  before it is sent its first message; in the other order (`ServesHelloFirst`) it fails.
* `NeverDropsLive` is about the handler of an old connection, which compares before it
  deletes. The ling's accept goroutine does not compare (section 6), and `ConnectionWatched`
  shows what remains true of it.
* `Mistaken` nodes are left out of `ConnectedBecomesTarget`, `DrainEnds` and `Listed`: the restarted council has
  come to rest at the revision the node holds, so it is delivered nothing (`state/watcher.go:153`). A node that
  is refused for ids of services that are gone stays refused then. `Listed` shows that this is the only way:
  whoever is not mistaken sees the new state and is listed. Without restarts nobody is ever mistaken.
* `DrainEnds` also excepts a king that is listed as serving: a heartbeat under way when it stopped may be
  handled after the final one, and lings then have no reason to leave. The drain then lasts to its deadline.
* `ConnectedBecomesTarget` is about connections let in for the service's present id. `TrafficReturns` asks for
  such a connection too, and a restart of the council breaks it.
* `NoTruncation` and `ResponseDelivered` speak of exchanges without a reset in which the client keeps its
  side open. If it half-closes, the ling closes the service's connection altogether (section 6).
* `Released` of `DataPath` leaves out a stream that the ling refused (section 6).
* `Released` of `Proxy` needs both peers gone. With only the upstream gone it is false: the copy
  towards it goes on until the client sends something.

## 4. Fairness

* Goroutines that can run do run: weak fairness on each handler, delivery, connection
  handler and copying goroutine.
* Mutexes are strongly fair: `sync.Mutex` and `sync.RWMutex` hand the lock to a waiter that
  has starved for a millisecond. That is `SF_vars(Acquire(h))` and `SF_vars(RunCleaner)` in
  `Council`, `SF_vars(Sends(k))` and `SF_vars(Serves(c))` in `Notify`.
* Deadlines pass: the drain's timeout and the idle timeout of a connection whose peer is
  gone are weakly fair. The proxy's `Deadline` is not, so that no property rests on it.
* In `Mesh` each node's syncer ticks and its requests are handled, and each node's watcher fetches or its shutdown goes
  on (one `WF_vars` each); the shutdown's two
  deadlines (`FinalSyncTimeout`, `DrainTimeout`) have no fairness, so that `DrainEnds` does not rest on them.
* In `DataPath` goroutines run, resets arrive, and client and service read what they are sent.
  Neither has to send or close.
* Clients, their heartbeats in `Council`, changes, the clock, shutdowns, crashes, peers that close, and every
  failure have no fairness. Failures draw on the budgets in `left`: a network that fails
  for ever would make every liveness claim false.
* A council that is down is started again (`WF_vars(Start)`), as the deployment's
  orchestrator does.
* A watcher's WebSocket goroutine redials and reads as long as it lives: `Pushes` is strongly
  fair because a connection can be closed again while it is being dialled.

## 5. Proofs

Every invariant and every action property that a passing run checks is also proved, for any number of
nodes, handlers, services, connections and clients, and for any bounds. Each component has its theorems in a
module of its own. The pattern is always the same: an inductive invariant `Inv` (TLC checked it on
the component's run first), a lemma per group of actions that keeps it, `Spec => []Inv`, and the
property from it.

The theorems use only the assumptions that the modules state about their constants (special values
are none of the ordinary ones, bounds are numbers, arrays grow, kings and lings send sequences of tunnels and
names); TLC evaluates them on every run. Three theorems need more, and say so in their statement: `PortsExclusiveWhileSteady` and
`PortsOfTheirKing` that no king expires, `NoneOnShuttingDown` that and `OneRange`.

| module | theorem | says |
|---|---|---|
| `CouncilProofs` | `TypeSafe` | `Spec => []TypeOK` |
| | `MutualExclusion` | `Spec => []LockDiscipline` |
| | `EveryChangeAnnounced` | `Spec => []ChangesAnnounced` |
| | `KingsListedOnce` | `Spec => []UniqueKings` |
| | `ServicesRegisteredOnce` | `Spec => []UniqueServices` |
| | `PortsExclusiveWhileSteady` | `SteadySpec => []PortExclusive` |
| | `NoneOnShuttingDown` | `SteadySpec => []OffShuttingDown` if `OneRange` |
| | `PlacedHasAddress` | the pointers of a placed service lead to a king, also when kings expire |
| | `PortsOfTheirKing` | `SteadySpec`: the king a placed service points at offers its port |
| | `PlacedOnFreePort` | who gets a place had none, and gets a free port of a king that serves, also when kings expire |
| `ReadersProofs` | `RevisionTells` | `RSpec => []RevisionTellsView` |
| `NotifyProofs` | `TypeSafe` | `Spec => []TypeOK` |
| | `NoGhosts` | `Spec => []NoGhostClients` |
| | `WakeupsKept` | `NoLostWakeup` always, until a fetch fails |
| | `ImplementsFeed` | `Notify` without a restart takes only steps of `Feed` |
| `TunnelProofs` | `TypeSafe` | `Spec => []TypeOK` |
| | `NoGhosts` | `Spec => []NoGhostConnections` |
| | `DrainWakes` | `Spec => []NoLostDrain` |
| | `LingWatches` | `Spec => []ConnectionWatched` |
| | `LiveStaysRegistered` | `Spec => NeverDropsLive` |
| `ProxyProofs` | `TypeSafe` | `Spec => []TypeOK` |
| | `NobodyWaitsWithTargets` | `Spec => []NoWaitWithTargets` |
| | `DialsATarget` | a client that dials has an address to dial |
| | `KeepsConnections` | `Spec => ConnectionsKept` |
| `MeshProofs` | `TypeSafe` | `Spec => []TypeOK` |
| | `NoTriggerLost` | `Spec => []NoLostTrigger` |
| | `ServicesHaveHomes` | services are at serving kings, or there are none |
| | `IdsKeepTheirOwner` | an id names one ling's service for good, also across restarts of the council |
| `DataPathProofs` | `TypeSafe` | `Spec => []TypeOK` |
| | `WholeResponse` | `Spec => []NoTruncation` |

### Council

* **`TypeInv` = `TypeOK` + `Written` + `AtTunnel`** is inductive; `TypeOK` alone is not.
  `Written`: the slots of the slice hold kings that were registered, which a compaction needs
  in order to keep them. `AtTunnel`: a handler about to look a service up is at one of its
  ling's tunnels, also through the window before it, which `ServiceNew` needs in order to
  give the service a name. `ListingOK` says that a compaction renumbers the kings it keeps
  without repetition, and `HandlersType`, `TableType`, `ServicesType`, `LingsType` and
  `OthersType` each preserve one part of the invariant.
* **`MutualExclusion`**: `RunMoves` says where the program counter can go from inside a
  critical section; all that leave it free the mutex.
* **`EveryChangeAnnounced`** strengthens `ChangesAnnounced` to `Announced`, which speaks of the
  time inside the critical section too: an unannounced change belongs to somebody in
  "provision" or "broadcast", or to the cleaner. `LockDiscipline` then rules out "provision"
  when the mutex is free.
* **`KingsListedOnce`**, **`ServicesRegisteredOnce`**: the look-up and the append are in one
  critical section; compaction keeps different kings different.
* **`RevisionTells`** rests on `Agrees`: as long as the revision is that of the held answer, kings and services are
  the held ones, no held ling has gone or changed its word, and a ling that is not held has returned to its service or
  is being registered right now (`Registering`). A step bumps the revision, or writes beats and at most one ling
  (`BumpsOrKeeps`); `BeatOnly` is the point for kings: a heartbeat written through a saved pointer,
  into whatever array and slot it leads, changes a beat and nothing else. `LookUpEnds` is the point for
  lings: who registers one goes on, under the mutex, to a look-up that bumps the revision or finds a
  service of that ling, which a held answer of the same revision then has too.
* **`PortsExclusiveWhileSteady`** needs `PointersPlaced`: a placed service points below the
  end of the slice or into an array the slice has left, so that `append` does not write where
  a service points. From that, `SameAddress` shows that a placed service keeps its address
  through every step, and the provisioner's choice is then among ports no such service
  has. Without the hypothesis that no king expires it is false.
* **`NoneOnShuttingDown`** proves more than the property: `Off` holds inside critical sections too,
  because every handler that announces a change deprovisions in the same step (`Deprovisions`). The step that
  places a service needs `UniqueKings` and `OneRange`: an address is advertised with one port
  range. Then no second entry at the chosen king's address is shutting down. Without
  `OneRange` TLC finds a counterexample with one handler, a restarted king and four heartbeats.
* **`PlacedHasAddress`** is what remains when kings expire: a cell of a Kings array is overwritten but never
  cleared (`WrittenStays`), so a placed service always has some king's address.
* **`PortsOfTheirKing`** rests on `SameAddress` as well: the cell a service points at keeps its tunnel, and
  with it the port range, as long as no compaction moves another king there.
* **`PlacedOnFreePort`** is about the step and needs no such hypothesis. Even over a table whose pointers
  a compaction has turned, the provisioner chooses a king of the slice that is not shutting down and a port that no
  service shows at its address *as the pointers read then*. So the aliasing of `cleaner_aliasing` is the
  compaction's doing, never the choice's. Nor does a service go from one place to another: in between it
  has none.

### The other components

* **Notify.** `NoLostWakeup` is not inductive: it says what is true when nothing is under way. `Told`
  names what may be under way to a watcher whose connection works (an answer, a message, a caster that
  has not begun or has the connection on its list), and `Links` that such a connection is in the hub.
  `WakeupsKept` speaks of the time before a fetch fails, as the run does with `MaxFails = 0`. `FeedStep` maps
  each step to a step of `Feed` or a stutter: only `Store` changes what a watcher knows, and
  `Answers` says that what it stores is a revision its council had.
* **Tunnel.** `OneHandler` (a connection that was not accepted has no handler) and
  `Dialled` (who waits for the king's answer has a connection) make the registry invariants
  inductive together: an entry has a handler that will remove it, the one that removes the
  last puts a token in the drain channel, or is about to.
* **Proxy.** `Gate`: all channels but the last are closed, and the last one is if there are targets; so a
  client that holds an old channel is woken. `Picks`: a client at `selectTarget` has read a list with a
  target on it, which makes the index of the round robin good.
* **Mesh.** `Triggered` speaks of a syncer whose request is under way as well: while it waits, a new
  connection puts a token in the channel or finds one there, and a turn takes the token before it reads the
  connections. `Beats` says which heartbeats can be on the wire with a node in which state, so that there is
  one of each kind. `ServicesHaveHomes` holds because `Provision` runs after everything a heartbeat
  does to the table (`ProvisionSettles`). It needs no hypothesis about expiry because nodes do not expire in
  `Mesh`; the detailed council is the subject of `NoneOnShuttingDown`.
  `IdsKeepTheirOwner` is `Issued` (who holds an id holds one below `fresh`) and `SameOwner` together: ids come
  from `uuid.New` (`council/routes.go:431`), so a restart forgets the services but does not set `fresh` back, and
  a heartbeat gives a new id to its sender only (`HandledIds`). So a view, a connection or a
  report of before the restart may name a service that is gone, never another ling's.
* **DataPath.** The chunks that client, copies and pipes have between them are never more than the service
  sent; in an exchange that nobody has disturbed (`Quiet`) they are all of them, and `InOrder` says in which
  order things end: the ling's copy of the response first and after all of it, the others because of it.
  That the end is the last thing the client reads follows.

### Model-checked only

* All liveness properties and the fairness part of `FeedKept`: the prover has neither fairness nor `ENABLED`.
* `NoLostWakeup` is not claimed after a failed fetch; it is false then, and polling repairs it
  (`CatchesUp`).
* That nobody is `Mistaken` without a restart was checked once on larger instances (two kings and a ling,
  a king and two lings), and so was `Listed` from `Init` with two kings and a restart; these take
  too long for a run that is kept.

## 6. Disagreements with comments and tests

Two runs end in a counterexample that TLC prints:

* `cleaner_aliasing`: `council/cleaner_test.go:149` expects the service of a removed king to be
  removed with it. With another king after it in the slice, the compaction moves that king
  under the service's pointers and the service stays, now at the wrong king.
* `council_restart`: the integration test waits for traffic, restarts the council and waits for
  traffic again (`test/integration/integration_test.go:160`, `:162`, `:204`). The run starts with traffic flowing.
  After the restart a king and the ling register, and the service gets a new id and a place. Watchers
  fetch on their own, so the ling may hear of that first. It dials, the king does not know the id
  and refuses it (`king/tunnel.go:245`), and `ensureConnection` returns (`ling/tunnel.go:90`). When the
  king has heard of the service too, nothing is left to change that would bump the revision, so the ling's
  watcher delivers nothing more, and nobody dials again.

Noticed while modelling; the model behaves so, and no comment or test promises otherwise:

* `ensureLingExists` lists a new ling without bumping the revision (`council/routes.go:386`). If the ling's
  service is still there, nothing else bumps it, and kings that read the table before go on without the ling
  until the next change;
* the two goroutines of a watcher call `onChange` outside its mutex (`state/watcher.go:156`), so the older of two
  states may be delivered last; nothing calls again until the next change;
* a port that goes to another service between two states the king sees keeps its accept loop,
  which forwards to the service that is gone (`king/tunnel.go:333`);
* a ling that dials before its king has heard of the placement is rejected, and does not try again before
  the state changes for another reason (`ling/tunnel.go:86`);
* ready flags outlive the connection they speak of (`council/routes.go:179`);
* a heartbeat under way when a king stops can list it as serving again (`king/syncer.go:156`);
* a stream the ling refuses is closed for sending only (`ling/tunnel.go:286`, `:302`); a client that sends more
  than the window and goes away leaves the king's copy blocked on it;
* a client that shuts down its sending side makes the ling close the service's connection altogether
  (`ling/tunnel.go:311`), and the response is lost;
* when service or ling are done, the king's handler waits for a client that stays silent (`king/tunnel.go:524`);
* while a king drains, its listeners accept clients, but its context is done and no stream is opened for
  them (`king/tunnel.go:461`);
* a king's beat written through a pointer into an array the slice has left is lost
  (`council/routes.go:250`); the king looks older than it is until its next heartbeat;
* `PUT /ling` answers at the first tunnel that has a service, so tunnels after it are not
  registered again once their service was removed (`council/routes.go:421`);
* after a king expired, two services can be given one port;
* a king that restarts with another port range is a second entry with the same address; if the
  old one was shutting down, it keeps taking services off the new one
  (`council/provisioner.go:144`);
* a watcher that compares revisions for inequality takes a restarted council's state for the
  one it holds when the numbers agree (`state/watcher.go:153`), so `CatchesUp` fails with a restart. In `Mesh` such a
  node may go on reporting ids of services that are gone, and be refused until the next change
  (`council/routes.go:167`, `:329`);
* after a restart of the council a ling that reports no ids may register before it has fetched anything from the new
  council. If it then finds its king in its groups, it keeps the connection that was let in for the old
  id (`ling/tunnel.go:76`), and the new one is never let in;
* a second service on an open connection is never authenticated (`ling/tunnel.go:75`);
* the accept goroutine of a dead connection deletes whatever connection is held
  (`ling/tunnel.go:243`); the newer one then stays open and is managed by nobody;
* a handler that registers late overwrites a newer connection, and takes the entry with it
  when its own ends (`king/tunnel.go:147`);
* an upstream that closes is not passed on to a client that stays silent (`ling/proxy.go:177`);
* an upstream dialled while `close()` runs is tracked after it and closed by nobody but the end
  of the process (`ling/proxy.go:167`);
* retries share the round-robin counter with other clients, and may pick the same dead target
  each time (`ling/proxy.go:189`).

## 7. What is not modelled

* **The preferred location** among a proxy's targets (`collectProxyTargets`, `ling/ling.go:618`): `Placement` has
  which targets are eligible, `Proxy` takes lists as they come.
* **Several tunnels of a ling, or several bind ports of a king,** in `Mesh`: `Council` and `Tunnel` have them.
* **Expiry, crashes and restarts of nodes in `Mesh`**: they are in `Council` (expiry) and `Tunnel` (crashes).
* **The encodings** of control messages and stream headers: a message is its service.
* URL handling, command-line parsing (including port ranges), certificates and
  TLS, the JSON encodings, logging, and the debug requester: no state, or pure data.
* Time is a clock of ticks in `Council` and a nondeterministic choice elsewhere. Memory is
  sequentially consistent: what the code shares, it shares under mutexes or channels.

## 8. Plan

Done in this order: `Council` with its proofs, `Notify` with `Feed`, `Tunnel`, `Proxy`.
Then `Placement` and `Mesh` with `MeshProofs`, and `DataPath`; then the proofs of `Proxy`, `Tunnel`,
`Notify`, `Mesh`, `DataPath` and the last two of `Council`; `Readers` with its proof, and exact revisions in `Mesh`.

Left, modules:

1. `Mesh` with nodes that crash, expire and come back, next to the cleaner: what a ling that
   returns under its id finds, and whether two kings can both take a service for theirs.
2. Several clients of one `DataPath` connection, joined to `Proxy` at one end.

Left, proofs: all safety properties of the runs are proved. Worth adding: which steps of `Council` a step of
`Mesh`'s council stands for.
