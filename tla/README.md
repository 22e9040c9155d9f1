# Verification of spfnet

spfnet is a small link-state routing overlay in Go. Every router keeps the
whole topology of the overlay, learns about it through Serf (gossip), computes
shortest paths with Dijkstra's algorithm and forwards packets hop by hop over
gRPC. This directory holds TLA+ models of its core, the TLC configurations that
check them, and proofs that TLAPS checks.

All paths below are relative to `internal/route/` unless they begin with a
directory of the repository.

## 1. Inventory

| Part | State it keeps | Operations | Hard because |
|---|---|---|---|
| **Topology** (`node.go`) | node table, adjacency matrix, one RWMutex | `AddNode`, `RemoveNode`, `UpdateLink`, `RemoveLink`, `GetCost`, `GetNeighbors`, `GetAllNodes`, `GetAdjacencyList` | shared by the event loop, the requests, the ticker and the forwarder; each call is atomic, no sequence of calls is |
| **SPF** (`spf.go`) | none between calls; within one call the distances, two maps of predecessors and next hops, a queue, a row cache | `ComputeRoutes` | reads the topology in many critical sections; lazy deletion instead of a visited set |
| **Route manager** (`route_manager.go`, callback in `bootstrap.go`) | current route table, a lock held through the whole computation | `RecomputeRoutes`, `GetRoute`, ... | requests for a recomputation race with the writes they are about |
| **Topology sync** (`topology_sync.go`) | interval, enabled flag, callback | event loop with one handler per event; `RegisterLink`, `UnregisterLink`, ...; periodic broadcast | events are lost, reordered, late; no sequence numbers, no tombstones; handlers fail halfway |
| **Serf** (external) | membership, gossip queues | user events, join / leave / failed events | delivery is best effort, failure detection may be wrong, payloads are limited |
| **Start and stop** (`bootstrap.go`) | the components | `Init`, `Start`, `Stop` | order of the steps; `Stop` only ends the gRPC server |
| **Control service** (`grpc_server.go`) | none | `AddLink`, `EnableSync`, `SendPacket`, probe | each request is a goroutine; the probe takes up to 5 s between two writes |
| **Forwarding** (`forward_manager.go`) | statistics, connection pool | `SendPacket`, `HandleIncomingPacket`, `getClient` | tables differ between routers; connections are shared and replaced |
| **Route table** (`route_table.go`) | routes | lookups | immutable once installed |
| **Configuration** (`config.go`) | id, edges that touch the router, interval, log file | load, defaults | files may be missing, incomplete or wrong; values are hardly validated |
| **SDK** (`spfnet/`) | the router it wraps | `NewNode`, `Start`, `Stop`, `Send`, `AddLink`, `EnableSync` | an application may start again after an error, and stop in any state |
| **Tools, generated code** (`cmd/`, `examples/`, `proto/`) | none | one call each | - |

Interactions: Serf puts events on `eventCh`; the event loop changes the
topology and calls the change callback, which runs `RecomputeRoutes` on the
event loop's own goroutine. Control requests change the same topology, broadcast
through Serf, and run the same callback on theirs. The ticker reads the
topology and broadcasts it. A broadcast user event comes back to its sender as
an event. The forwarder reads the installed table and the node entries.

What makes each part correct:

* SPF: it ends; the table is optimal for the graph that was read; path, next hop
  and cost of a route belong together.
* Router: no change of the topology stays without a recomputation; every request
  for one is served.
* Cluster: routers agree in the end; they hold no cost nobody gave; what has left
  is forgotten.
* Forwarding: a packet reported as delivered was delivered, and once; a reported
  failure has a reason; packets circle only where tables disagree; each router's
  statistics account for every packet it has taken on; every sender is answered.
* Connection pool: no connection is lost from it; a replaced address is not used
  for long; nobody waits for its lock for ever.
* Start and stop: a router serves only when it is ready, has one event loop and an
  interval its ticker accepts, and stops when it is told to, whichever step fails.

`PROJECT.json` lists the hazards at their lines.

## 2. Modules

```
Topology ── LinkStateView ── RouteComputation (abstract)
   │              │                 ▲ refines
   │              │       Paths ── SPF ── MCSPF, SPFProofs
   │              │         └── PathProofs (used by SPFProofs, RouteNodeProofs)
   │              └── RouteNode ── MCRouteNode, RouteNodeProofs
   ├── TopologySync ── MCTopologySync, TopologySyncProofs
   ├── RuntimeConfig ──┬── Lifecycle ── MCLifecycle, LifecycleProofs
   │         EdgeIds ──┘
   └── TopologyProofs

PacketDelivery (abstract)
   ▲ refines
Forwarding ── MCForwarding, ForwardingProofs

ConnPool ── MCConnPool, ConnPoolProofs
```

* **Topology** – the link-state database as a record `[nodes, edges]` and one
  operator per method. `NoLink` stands for a missing key; a missing inner map and
  an empty one read alike. `RemoveNode` is written as the code does it: it cleans
  the rows that the removed node's own row names, not all rows.
* **SPF** – `ComputeRoutes`, one action per critical section or loop body:
  `ReadNodes` (lines 36-61), `SkipStale` / `Expand` (68-86), `Improve` / `Keep`
  (86-102), `BuildTable` (105-144), and `TopologyWrite` for everybody else. The
  order of a Go map range and of ties in the heap is left open. The queue is a
  set of items: two equal ones never arise, because each insertion strictly lowers
  the node's distance.
  `Distance` reads a missing key as 0, as Go does, which is why a neighbour that
  is not in the node table is never reached.
* **Paths** – the paths of a graph and what they cost, by definition and not by any
  algorithm: what the properties of SPF compare its routes with.
* **LinkStateView**, **RouteComputation** – the same computation seen from the
  outside: one read of the node table, one read of each row that some row read
  before names, then the table. `SPF` refines it (`ReadsWhatItNeeds`), and
  `RouteNode` uses it in place of the full search.
* **RouteNode** – one router. Threads: the event loop and any number of request
  goroutines. Each call on the topology is a step; waiting for the route
  manager's lock, each read and the installation are steps. A handler that
  returns without asking for a recomputation sets the history variable `silent`;
  the next computation that reads the node table clears it. A table at rest is
  current unless `silent` (`QuietTableIsCurrent`); without that clause it need not
  be (run `node_silent`).
* **TopologySync** – a cluster. Here a handler is one step; the topologies, the
  events under way, membership, faults and restarts are what matters.
  `registered` is a history of the costs links were given.

* **Forwarding** – packets under way. `forwardPacket` calls the next router and waits
  for its answer, so a packet is a chain of calls, `frames[p]`, one frame per
  goroutine: the control tool, `ControlServer.SendPacket`, the sender, a
  `HandleIncomingPacket`. `GetRoute` looks the next hop up in the table of that
  moment; `Call`, `Arrive`, `Return` are the RPC; `GiveUp` is a caller whose deadline has
  passed, whose own caller is gone, or whose callee is: the handlers beyond it go
  on until they learn of it. Tables (`RecomputeRoutes`) and node entries
  (`UpdateEntries`) change at any time, to anything a router could compute. The
  statistics and the order they are counted in are the code's.
* **PacketDelivery** – what sending promises, seen by the sender: at most one
  delivery, a success only after it. `Forwarding` refines it.
* **ConnPool** – `getClient`, one critical section at a time: the pool is read under
  the read lock (`Peek`), the state of the connection looked at after it was
  released (`Check`), both again under the write lock (`Lock`), and the connection
  closed and replaced (`Replace`). gRPC's part: a new connection is idle, the first
  call makes it connect, it becomes ready or fails, it may be lost. Node entries are
  overwritten by joins and `AddLink` (`AddNode`).
* **RuntimeConfig** – what `LoadRuntimeConfig` makes of the two files and the
  arguments. `edges` keeps each link's place in the file in place of the slice.
* **EdgeIds** – `makeEdgeID` and Go's order of strings, on sequences of character
  codes.
* **Lifecycle** – one router from its configuration to its end, in a process of its
  own (`host = "tool"`: an error ends it) or in an application (`"sdk"`: an error is
  returned, and the application may call `Start` or `Stop` again). One action for each
  step of `Start` that can fail or be observed; `GracefulStop` is `Stop` (the listener
  closes) and `Stopped` (no request is left). While the loops run, events add and take
  away links (`HandleNodeJoin`, `HandleNodeLeave`, `HandleLinkUpdate`,
  `HandleLinkRemoval`), one step each; the history variable `withdrawn` keeps the ends
  of the links whose last event took them away. The interval is a `time.Duration`, so
  `Seconds` multiplies in a fixed width (`Wrap`), and `TickerPanics` is what
  `time.NewTicker` does with a result that is not positive. Of the requests in
  progress, `untimed` have no deadline.

Who corresponds to whom in TopologySync: `AddLink` is the request whose probe
succeeded (`grpc_server.go:152`, `bootstrap.go:172` do the same);
`HandleLinkUpdate`, `HandleTopologySync`, `HandleNodeJoin`, `NodeLeaves` are the
handlers of those names; `BroadcastFullTopology` is one tick of
`periodicSyncLoop`. `Send`, `Suspect`, `LoseEvent`, `InOrder` and `Crash` stand for
Serf and the network: an event reaches each running router at most once, in any
order, or never. Only the sender's own events have an order: `serf.UserEvent`
puts them into the sender's channel before it gossips them.

`RegisterNode`, `UnregisterNode` and `UnregisterLink` are exported but have no
caller in the repository. They are modelled because the SDK could reach them;
the constant `Calls` says which operations a run uses, and the findings need none
of the three.

Operators described as "mutant" in a comment are the same code with a plausible
bug; `PROJECT.json` pairs each property with one that it rejects.

## 3. Runs

| Run (cfg) | Shows | Bounds |
|---|---|---|
| `spf` (`MCSPF`) | the search ends, its routes are shortest, consistent and certified, settled nodes are final, each node is expanded once, every step brings the end nearer, it refines RouteComputation | every symmetric graph of 4 routers with costs 0, 1, 3, at most one router missing from the node table (a detour over two or three links can be cheaper than one, and ties occur); 3 routers with costs 0 and 2 under any 2 writes between the reads (`WrittenTopology` is what writes may lead to) |
| `node_race` (`MCRouteNodeRace`) | no lost update, a router at rest has a current table, what failed or refused requests leave behind concerns no link but the refused, every request for a recomputation is served, rows are read one by one while others write, merges carry two links, broadcasts may be refused | 3 routers, one request at a time and the loop, 3 operations of any kind |
| `sync_pair` (`MCTopologySyncPair`) | undirected graphs, no invented costs, agreement that lasts until somebody acts, agreement in the end, when links are also removed and the sync is switched off and on | 2 routers, 2 requests, 1 fault, concurrent broadcasts |
| `sync_three` (`MCTopologySyncThree`) | agreement in the end over a third router, complete removals | 3 routers, 1 fault, a configured link |
| `forwarding` (`MCForwarding`) | statistics balance, failures are the truth unless a deadline passed or something broke, circles come from tables only, at-most-once delivery with truthful successes (refinement), every sender is answered | 3 routers, one destination, every combination of tables, 1 packet, 5 calls in its chain, 1 change of a table or an entry, 1 fault |
| `conn_pool` (`MCConnPool`) | no connection leaks, old addresses only while they answer, every call returns | 2 goroutines, 1 next hop, 3 addresses of which `NewClient` rejects one, 3 calls, 2 changes |
| `lifecycle` (`MCLifecycle`) | a router that serves is ready, one event loop, legal ticker interval if the file's fits a `Duration`, both ends start with one cost for their link, broadcasts name every link, `Stop` returns unless a request without a deadline is in progress | 4 application files (missing, empty, a negative interval, one that wraps around: `Duration` has 10 bits and a second 3 units here), 2 topology files (missing; one with a router named twice and a link given twice), 5 ids chosen so that a bare concatenation would confuse links, events about 2 members and 1 link, which is a configured one for one router and not for another, 2 requests at once |

The bounds let each hazard happen: two writes suffice to put a row read early
out of step with one read late; three operations give a write, a computation
under way and a second write; one fault separates two routers. A chain of five
calls holds the control tool, its service and three routers, or a circle gone
round twice; the chains are independent of each other but for the statistics, and
the proofs hold for any number of packets. One change turns tables that agree
into tables that form a circle, and one entry removed meets a table that still
names it. Two goroutines are all that meets at one pool entry: a third finds what
the second finds.

Runs that refute what the repository says (see "findings" in `PROJECT.json`):

| Run | What happens |
|---|---|
| `node_silent` | an `AddLink` whose probe fails leaves the table without a route to a node it has entered |
| `node_merge` | a merge overwrites a smaller cost that was set after it looked |
| `sync_ghost` | a broadcast from before a failure brings the failed router's links back for good |
| `pool_in_use` | two packets for a new next hop: the second closes the connection, not READY yet, that the first is about to call on |
| `stop_releases` | a router inside an application comes up, is stopped, and when `Stop` has returned serf, both loops, the printer and the log file are still there |

Known weak spots that no run refutes, because the properties are stated around them:

* When serf refuses the event of a link (ids too long for a user event), `RegisterLink` and
  `UnregisterLink` return before they ask for a recomputation and `AddLink` only logs it: the
  table stays behind in that link. `OnlyRefusedLinksLag` says that it does so in no other.
* A `sync_interval` of more seconds than a `Duration` holds becomes another one; if that is
  negative, `time.NewTicker` panics (`TickerPanics`). `TickerIsPositive` is about the files
  whose interval fits.
* Ids may contain hyphens: a to b-b and a-b to b share the edge id a-b-b, and a broadcast
  names one of them. `BroadcastNamesEveryLink` is about ids that cannot be confused.

Deadlock checking is off throughout: a search that is done, a router whose bound
on operations is used up and a quiet cluster really stop.

### Fairness

* `SPF`: weak fairness of the computation; a goroutine that can run runs.
* `RouteNode`: weak fairness of the boot steps, of each handler's next step and
  of the computation; strong fairness of `Lock`, because a contended `sync.RWMutex`
  lets no waiter starve. Nobody is obliged to call.
* `TopologySync`: weak fairness of the ticker, of membership changes and of the
  delivery of what is under way (an event that is lost is gone from the set, so
  fairness does not undo losses), of broadcasts separately per sender, because
  Serf's channel is first in, first out. Requests, faults, restarts: none.
  `Converges` assumes that from some time on all running routers have the sync
  enabled; the bound on faults makes them finitely many.

* `Forwarding`: weak fairness of each call's own steps (a goroutine that can run
  runs), of accepting a call (a call that is lost is gone, so nothing is undone),
  and of time. `SendsReturn` excludes packets without a deadline whose tables may form
  a circle: those do go round for ever. Nobody is obliged to send, change or fail.
* `ConnPool`: strong fairness of the two steps that take `poolMtx`, for the same
  reason as `Lock` above; weak fairness of the other steps of a goroutine and of an
  attempt to connect, which gRPC ends after a time limit of its own.
* `Lifecycle`: weak fairness of answering a request that has a deadline, because its
  handler hands the deadline on to whatever it waits for, and of `GracefulStop`'s return
  once no request is left. None of answering one without a deadline
  (`SendWithContext` of another router's SDK, `spfnet/node.go:102`, may give it none, and
  every router hands the context on): its packet may be in a circle beyond this router
  for ever, `GracefulStop` then never returns, and `StopReturns` excludes the case.

Bound to keep in mind: `MaxBroadcasts` limits how many routers have a broadcast
under way, and a router waits until its last one has arrived everywhere or was
lost. In the code the ticker's period (30 s) is far longer than a delivery.
`MaxSyncLinks` is the size serf accepts in one event: the runs keep within it, and
beyond it (about a dozen links at serf's default) a topology is never broadcast and
`Converges` does not hold. `MaxFrames` stops a circle; it never stops an answer.

## 4. Proofs

TLAPS proves the following for all values of the constants, hence for any number
of routers, threads, operations, writes and faults. The assumptions are the named
`ASSUME`s of the modules; `SPFProofs` adds `NonNegative == Cost \subseteq Nat`, without
which the results are false: a negative cost, which no part of the code rejects, makes
the search go round for ever under the route manager's lock.

* **TopologyProofs** – what each operation returns. `RemoveNodeIsolates`: walking
  only the removed node's row is enough because the graph is undirected;
  `RemoveNodeSymmetric`, `LinkWritesSymmetric`: all writers keep it undirected.
* **PathProofs** – what is true of paths, whoever computes them. Induction along a path
  or over costs takes no scheme here: a set of naturals that is not empty has a least
  element, so the set of places where a claim fails is empty. From this: sums along a
  path are naturals and grow with it; a distance that no link undercuts is undercut
  by no path (`NoChainIsCheaper`); following predecessors whose distances add up
  gives a path of that cost (`CostOfChain`); a graph with the same rows has the same paths
  (`PathsCarryOver`). `OneTopologyFormsNoCircle`: routers whose tables are shortest for one
  topology form no circle if every link costs something. The clause is needed:
  links of cost 0 give ties that two routers may break against each other.
* **SPFProofs** – `TypeCorrect`, `TableIsCertified`, `SettledStaysFinal`,
  `ExpandsAtMostOnce`, and `Refinement` (the search implements
  RouteComputation). The properties are not inductive; the invariant adds what
  Dijkstra's argument rests on: no settled node is further away than anything
  that may still be dequeued, each finite distance of an unsettled node has an
  item in the queue, every relaxed link of a settled node is no shortcut, and
  each reached node's distance and next hop are those of its predecessor, a
  settled node, extended by one link.
  `TableIsShortest` and `TableFollowsLinks` take this from links to whole paths. "No
  shortcut" gives that no path is cheaper. That the predecessors lead back to
  the source at all does not follow from distances (a circle of links of cost 0 has
  consistent ones), so the invariant `PathInv` ranks the nodes: each
  predecessor has a smaller rank than the node it precedes. `NextHopsAreShortest` is
  what the forwarder sees of it. `ProgressIsMade`: every step makes a set of unexpanded
  nodes, of neighbours left or of queue items smaller in lexical order, which
  is the safety half of `Terminates`. The theorems about paths assume `IsFiniteSet(Node)`:
  node tables are Go maps.
* **RouteNodeProofs** – `TypeCorrect` and `NoUpdateIsLost`. The invariant adds that a
  computation under way is in step with the topology or somebody else owes a
  further one: a write that comes between two reads is always followed by its own
  request, which waits for the lock. `QuietTablesAreCurrent` needs, beyond it, that there
  is a finished table (the router's own join is what asks for the first one) and
  says with it that a router at rest has read what its topology is;
  `QuietRoutesAreCurrent` draws the conclusion for paths and costs. These excuse whoever gave up
  silently; `OnlyRefusalsAreMissed` does not, and its invariant counts a thread about to register a
  link as owing only if serf will take the event.
* **TopologySyncProofs** – `TypeCorrect`, `NoCostIsInvented`, `RemovalIsComplete`. The
  invariant extends the properties of the topologies to what is under way: each
  delayed event and broadcast carries only costs that were given, each broadcast
  graph is undirected, and the configuration counts as given (a restart relies
  on it). `AgreementIsStable`: when running routers agree and nothing under way says
  otherwise, this stays so (`Settled` is preserved) through ticks, late events, losses,
  crashes and joins, because merging what one has changes nothing and what is sent is
  what everybody has. It is the half of `Converges` that is safety; only an
  operation, a removal or a restart ends it.
* **ForwardingProofs** – `ForwardingDelivers` (the refinement), `FailuresAreTrue`,
  `CirclesComeFromTables`, `StatisticsBalance`, `TypeCorrect`, for any number of routers,
  packets and faults. The invariant describes a chain: only its last call may still be
  looking for a route or about to call; from a call that has succeeded on, all later
  ones have; the packet is delivered exactly if the last one has succeeded; a call is
  on its way only behind the last frame and only if that frame has waited for it;
  and without a deadline or a fault no call has failed while one beyond it is
  alive. That is why a success travels back only from the destination, and why a
  failure tells the truth when nothing broke. For the circles: the routers of a
  steady packet follow one table each, so coming back to one of them would show a
  set of routers that pass the packet round. For the statistics: each step changes the
  counters and the set of calls in progress (a finite set, whose cardinality is the
  balance) by the same amount.
* **ConnPoolProofs** – `PoolLosesNothing`, `OldAddressesAnswer`, `TypeCorrect`. The
  invariant: the write lock is held exactly by whoever is about to replace a connection,
  and what it has seen under the lock is still what is in the pool.
* **LifecycleProofs** – `RequestsFindARouter`, `EventsHaveOneReader`,
  `FittingIntervalsAreSafe`, `BroadcastsAreComplete`, `TypeCorrect`. The invariant: loops run only where serf holds
  its port, which is what keeps a second attempt from getting far enough to start them
  again; the configured links up to the current place are in the database, and once the
  loops run each of them is there or withdrawn (an update puts it back); requests exist
  only after the loops were started. `FittingIntervalsAreSafe` is about any width: a
  product no larger than `MaxDuration` is what it was after wrapping, a larger one may be
  anything.
  `EndsStartAlike` (property `EndsAgree`) adds where the attempt is in the file: the cost a
  configured link has so far is the last one the file gives it up to there, and the
  lines about a link are the same ones, in the same order, from either end.
  `EdgeIdsTellLinksApart` is about strings alone: two links share an id only if one router's
  id is another's with a hyphen and more behind it (a, b-c and a-b, c).

Only model-checked:

* everything temporal beyond safety (`Terminates`, `TriggersAreServed`,
  `Converges`, `SendsReturn`, `CallsReturn`, `StopReturns`): outside this prover's
  reach. Of `Terminates`, `ProgressIsMade` proves that steps cannot be taken for
  ever; of `Converges`, `AgreementIsStable` proves that agreement lasts. That the
  steps are taken rests on fairness and stays with TLC.

Every invariant, action property and refinement of a run that passes is a theorem.

## 5. Plan

*Done*: Topology, SPF with its abstract specification, RouteNode, TopologySync,
Forwarding with its abstract specification, ConnPool, RuntimeConfig, EdgeIds and
Lifecycle, with the runs and proofs above.

*Left*:

1. That RouteNode's handlers, in several critical sections, implement the one-step
   handlers of TopologySync, where no request comes between them.
2. Forwarding over the tables of RouteNode and the entries of TopologySync in one
   composition, in place of tables that change to anything; with
   `OneTopologyFormsNoCircle` for routers that agree.

## 6. Not modelled

* Formatting, logging and JSON encoding; the log file is opened and closed, but
  `SetupLogger` never hands it to `log.SetOutput`, so nothing is written to it.
* The probe's random answer (any cost). Costs are integers here and `float64` in
  the code: sums that round are out of scope. Negative costs are excluded (`SPF`).
* Generated protobuf code; what the command line tools print; the examples.
* What nothing calls: `RouteManager.SendPacket` and `GetGRPCClient`,
  `ForwardManager.Close`, `RouteTable.RemoveRoute` and `Clear`, a change of the sync
  interval of a running router.
* How long a handler takes in ConnPool: a call may end as soon as its connection does
  not connect any more. Forwarding and the pool are not composed: to Forwarding a
  connection that fails is `Disconnect`.
* An application that uses the SDK from several goroutines: `Start` and `Stop` are
  called one at a time. Serf's port is a given one (with port 0 each instance would
  get its own, and the argument for `OneEventLoop` would not hold).
* Router ids as strings outside Lifecycle: `TopologySync!Links` names each link once,
  which `BroadcastsAreComplete` justifies for ids that cannot be mistaken.

Facts about the code met on the way, which no statement of the repository denies:
the SDK's `AddLink` ignores the cost it is given (it always probes); a packet a
router sends to itself through the SDK is dropped, through the control service it is
delivered; a rise of a link's cost is undone by the next merge of a broadcast that
was sent before it; links of cost 0 give ties, and tables computed from one topology
may then form a circle.
