------------------------------ MODULE RouteNode ------------------------------
(***************************************************************************)
(* One running router: the goroutines that change its topology and the     *)
(* route table that has to follow (internal/route/bootstrap.go,            *)
(* topology_sync.go, grpc_server.go, route_manager.go).                    *)
(*                                                                         *)
(* The event loop takes one cluster event after the other; control         *)
(* requests run concurrently, each in a goroutine of its own.  Every call  *)
(* on the topology is one critical section, but a handler makes several,   *)
(* and the recomputation it asks for at the end is a separate step again:  *)
(* it waits for the route manager's lock, reads the topology bit by bit    *)
(* (LinkStateView) and installs what it computed.                          *)
(***************************************************************************)
EXTENDS LinkStateView

CONSTANTS
  Caller,    \* goroutines that serve control requests
  Loop,      \* the event loop
  NoThread,  \* nobody holds the route manager's lock
  Calls,     \* the operations the callers use
  TooLong,   \* nodes whose ids push a link event over serf's size limit
  SyncLinks, \* the sets of links another router may send
  MaxOps     \* bound: configured edges, events and calls together

Operations == {"AddLink", "RegisterNode", "UnregisterNode", "UnregisterLink"}

ASSUME RouteNodeAssumption ==
  /\ Loop \notin Caller /\ NoThread \notin Caller \cup {Loop}
  /\ Calls \subseteq Operations
  /\ TooLong \subseteq Node
  /\ SyncLinks \subseteq SUBSET [from : Node, to : Node, cost : Cost]
  /\ MaxOps \in Nat

Thread == Caller \cup {Loop}
Link == [from : Node, to : Node, cost : Cost]

VARIABLES
  boot,     \* "new", "edges", "loop", "up": how far Start has come
  topo,
  at,       \* where each thread is in its handler
  job,      \* the link each thread is working on
  links,    \* links of the sync event the loop has not merged yet
  seen,     \* the cost the merge has looked up
  changed,  \* topologyChanged of handleTopologySync
  holder,   \* who holds the route manager's lock
  view,     \* what each thread's computation has read so far
  table,    \* the installed route table
  silent,   \* history: a change was made that nobody will recompute for
  ops       \* operations begun

handler == <<at, job, links, seen, changed>>
routing == <<holder, view, table>>
vars == <<boot, topo, handler, routing, silent, ops>>

\* A link whose cost has not been settled has none.
Job == [from : Node, to : Node, cost : Cost \cup {NoLink}]
NoJob == [from |-> Self, to |-> Self, cost |-> NoLink]

Goto(t, place) == at' = [at EXCEPT ![t] = place]

\* Another operation begins.
Begin == ops < MaxOps /\ ops' = ops + 1

-----------------------------------------------------------------------------
(* Start (bootstrap.go). *)

Init ==
  /\ boot = "new"
  /\ topo = NewTopology
  /\ at = [t \in Thread |-> "idle"]
  /\ job = [t \in Thread |-> NoJob]
  /\ links = {}
  /\ seen = NoLink
  /\ changed = FALSE
  /\ holder = NoThread
  /\ view = [t \in Thread |-> NoView]
  /\ table = NoView
  /\ silent = FALSE
  /\ ops = 0

\* Node.Start ends by entering the router itself; no recomputation.
StartNode ==
  /\ boot = "new"
  /\ boot' = "edges"
  /\ topo' = AddNode(topo, Self)
  /\ UNCHANGED <<handler, routing, silent, ops>>

\* The configured edges that touch this router, without a recomputation or a
\* broadcast.
ConfigureEdge(a, b, c) ==
  /\ boot = "edges"
  /\ Self \in {a, b}
  /\ Begin
  /\ topo' = UpdateLink(topo, a, b, c)
  /\ UNCHANGED <<boot, handler, routing, silent>>

StartLoop ==
  /\ boot = "edges"
  /\ boot' = "loop"
  /\ UNCHANGED <<topo, handler, routing, silent, ops>>

\* Mutant of HandleOwnJoin: the router's own arrival is no news.
HandleOwnJoinQuietly ==
  /\ boot = "loop"
  /\ at[Loop] = "idle"
  /\ boot' = "up"
  /\ UNCHANGED <<topo, handler, routing, silent, ops>>

\* Serf's first event is the router's own arrival. It has been waiting in
\* eventCh since before the edges were configured.
HandleOwnJoin ==
  /\ boot = "loop"
  /\ at[Loop] = "idle"
  /\ boot' = "up"
  /\ topo' = AddNode(topo, Self)
  /\ Goto(Loop, "trigger")
  /\ UNCHANGED <<job, links, seen, changed, routing, silent, ops>>

-----------------------------------------------------------------------------
(* The event loop (topology_sync.go). *)

Event ==
  /\ boot = "up"
  /\ at[Loop] = "idle"
  /\ Begin
  /\ UNCHANGED <<boot, job, routing, silent>>

HandleNodeJoin(n) ==
  /\ Event
  /\ topo' = AddNode(topo, n)
  /\ Goto(Loop, "trigger")
  /\ UNCHANGED <<links, seen, changed>>

HandleNodeLeave(n) ==
  /\ Event
  /\ topo' = RemoveNode(topo, n)
  /\ Goto(Loop, "trigger")
  /\ UNCHANGED <<links, seen, changed>>

HandleLinkUpdate(a, b, c) ==
  /\ Event
  /\ topo' = UpdateLink(topo, a, b, c)
  /\ Goto(Loop, "trigger")
  /\ UNCHANGED <<links, seen, changed>>

HandleLinkRemoval(a, b) ==
  /\ Event
  /\ topo' = RemoveLink(topo, a, b)
  /\ Goto(Loop, "trigger")
  /\ UNCHANGED <<links, seen, changed>>

HandleTopologySync(ls) ==
  /\ Event
  /\ links' = ls
  /\ changed' = FALSE
  /\ Goto(Loop, "merge")
  /\ UNCHANGED <<topo, seen>>

\* One iteration of the merge takes the topology's lock twice: once to look
\* the link up,
MergeLookup(link) ==
  /\ at[Loop] = "merge"
  /\ link \in links
  /\ links' = links \ {link}
  /\ job' = [job EXCEPT ![Loop] = link]
  /\ seen' = GetCost(topo, link.from, link.to)
  /\ Goto(Loop, "decide")
  /\ UNCHANGED <<boot, topo, changed, routing, silent, ops>>

Better(c, old) == IF old = NoLink THEN TRUE ELSE c < old

\* and once more to write it, when it was missing or dearer.
MergeWrite ==
  LET link == job[Loop]
  IN  /\ at[Loop] = "decide"
      /\ IF Better(link.cost, seen)
         THEN /\ topo' = UpdateLink(topo, link.from, link.to, link.cost)
              /\ changed' = TRUE
         ELSE UNCHANGED <<topo, changed>>
      /\ job' = [job EXCEPT ![Loop] = NoJob]
      /\ seen' = NoLink
      /\ Goto(Loop, "merge")
      /\ UNCHANGED <<boot, links, routing, silent, ops>>

MergeEnd ==
  /\ at[Loop] = "merge"
  /\ links = {}
  /\ Goto(Loop, IF changed THEN "trigger" ELSE "idle")
  /\ changed' = FALSE
  /\ UNCHANGED <<boot, topo, job, links, seen, routing, silent, ops>>

-----------------------------------------------------------------------------
(* Control requests (grpc_server.go, bootstrap.go: AddLink, and the        *)
(* operations TopologySync offers).                                        *)

Call(t, op) ==
  /\ op \in Calls
  /\ at[t] = "idle"
  /\ Begin
  /\ UNCHANGED <<boot, links, seen, changed, routing>>

\* The handler returns although nobody will recompute for what it changed.
ReturnSilently(t) == Goto(t, "idle") /\ silent' = TRUE

AddLink(t, n) ==
  /\ Call(t, "AddLink")
  /\ topo' = AddNode(topo, n)
  /\ job' = [job EXCEPT ![t].to = n]
  /\ Goto(t, "probe")
  /\ UNCHANGED silent

\* The neighbour did not answer the probe: the call fails, its node entry stays.
ProbeFails(t) ==
  /\ at[t] = "probe"
  /\ job' = [job EXCEPT ![t] = NoJob]
  /\ ReturnSilently(t)
  /\ UNCHANGED <<boot, topo, links, seen, changed, routing, ops>>

\* The cost was given or probed.
SetLink(t, c) ==
  /\ at[t] = "probe"
  /\ topo' = UpdateLink(topo, Self, job[t].to, c)
  /\ job' = [job EXCEPT ![t].cost = c]
  /\ Goto(t, "register")
  /\ UNCHANGED <<boot, links, seen, changed, routing, silent, ops>>

\* Serf takes the broadcast of a change to link a-b, or there is no serf yet.
Broadcasts(a, b) == boot = "new" \/ {a, b} \cap TooLong = {}

\* Mutant of RegisterLink: the recomputation is left to those who get the event.
RegisterLinkForOthers(t) ==
  /\ at[t] = "register"
  /\ topo' = UpdateLink(topo, Self, job[t].to, job[t].cost)
  /\ job' = [job EXCEPT ![t] = NoJob]
  /\ ReturnSilently(t)
  /\ UNCHANGED <<boot, links, seen, changed, routing, ops>>

\* RegisterLink writes the link again and broadcasts it. When serf refuses
\* the broadcast it returns before asking for a recomputation, and AddLink
\* only logs that.
RegisterLink(t) ==
  /\ at[t] = "register"
  /\ topo' = UpdateLink(topo, Self, job[t].to, job[t].cost)
  /\ job' = [job EXCEPT ![t] = NoJob]
  /\ IF Broadcasts(Self, job[t].to)
     THEN Goto(t, "trigger") /\ UNCHANGED silent
     ELSE ReturnSilently(t)
  /\ UNCHANGED <<boot, links, seen, changed, routing, ops>>

RegisterNode(t, n) ==
  /\ Call(t, "RegisterNode")
  /\ topo' = AddNode(topo, n)
  /\ ReturnSilently(t)
  /\ UNCHANGED job

UnregisterNode(t, n) ==
  /\ Call(t, "UnregisterNode")
  /\ topo' = RemoveNode(topo, n)
  /\ Goto(t, "trigger")
  /\ UNCHANGED <<job, silent>>

UnregisterLink(t, a, b) ==
  /\ Call(t, "UnregisterLink")
  /\ topo' = RemoveLink(topo, a, b)
  /\ IF Broadcasts(a, b)
     THEN Goto(t, "trigger") /\ UNCHANGED silent
     ELSE ReturnSilently(t)
  /\ UNCHANGED job

-----------------------------------------------------------------------------
(* RecomputeRoutes (route_manager.go), run by whoever asked for it.        *)

\* Mutants of Lock: without mutual exclusion; and a request that is dropped
\* when a computation is under way.
LockAnyway(t) ==
  /\ at[t] = "trigger"
  /\ holder' = t
  /\ Goto(t, "start")
  /\ UNCHANGED <<boot, topo, job, links, seen, changed, view, table, silent, ops>>

LockOrDrop(t) ==
  /\ at[t] = "trigger"
  /\ IF holder = NoThread THEN holder' = t /\ Goto(t, "start")
     ELSE Goto(t, "idle") /\ UNCHANGED holder
  /\ UNCHANGED <<boot, topo, job, links, seen, changed, view, table, silent, ops>>

Lock(t) ==
  /\ at[t] = "trigger"
  /\ holder = NoThread
  /\ holder' = t
  /\ Goto(t, "start")
  /\ UNCHANGED <<boot, topo, job, links, seen, changed, view, table, silent, ops>>

ReadNodes(t) ==
  /\ at[t] = "start"
  /\ view' = [view EXCEPT ![t] = NodesRead(topo)]
  /\ silent' = FALSE
  /\ Goto(t, "search")
  /\ UNCHANGED <<boot, topo, job, links, seen, changed, holder, table, ops>>

ReadRow(t, u) ==
  /\ at[t] = "search"
  /\ u \in Frontier(view[t])
  /\ view' = [view EXCEPT ![t] = RowRead(view[t], topo, u)]
  /\ UNCHANGED <<boot, topo, handler, holder, table, silent, ops>>

\* Mutant of Install: the lock is not released.
InstallKeepsLock(t) ==
  /\ at[t] = "search"
  /\ Frontier(view[t]) = {}
  /\ table' = view[t]
  /\ view' = [view EXCEPT ![t] = NoView]
  /\ Goto(t, "idle")
  /\ UNCHANGED <<boot, topo, job, links, seen, changed, holder, silent, ops>>

\* Install the table, release the lock, return.
Install(t) ==
  /\ at[t] = "search"
  /\ Frontier(view[t]) = {}
  /\ table' = view[t]
  /\ view' = [view EXCEPT ![t] = NoView]
  /\ holder' = NoThread
  /\ Goto(t, "idle")
  /\ UNCHANGED <<boot, topo, job, links, seen, changed, silent, ops>>

-----------------------------------------------------------------------------

Boot ==
  \/ StartNode \/ StartLoop \/ HandleOwnJoin
  \/ \E a, b \in Node, c \in Cost : ConfigureEdge(a, b, c)

HandleEvent ==
  \/ \E n \in Node : HandleNodeJoin(n) \/ HandleNodeLeave(n)
  \/ \E a, b \in Node : HandleLinkRemoval(a, b) \/ \E c \in Cost : HandleLinkUpdate(a, b, c)
  \/ \E ls \in SyncLinks : HandleTopologySync(ls)

Merge == MergeWrite \/ MergeEnd \/ \E link \in links : MergeLookup(link)

Serve(t) ==
  \/ \E n \in Node : AddLink(t, n) \/ RegisterNode(t, n) \/ UnregisterNode(t, n)
  \/ \E a, b \in Node : UnregisterLink(t, a, b)

Continue(t) == ProbeFails(t) \/ RegisterLink(t) \/ \E c \in Cost : SetLink(t, c)

Recompute(t) == ReadNodes(t) \/ Install(t) \/ \E u \in Node : ReadRow(t, u)

Next ==
  \/ Boot \/ HandleEvent \/ Merge
  \/ \E t \in Caller : Serve(t) \/ Continue(t)
  \/ \E t \in Thread : Lock(t) \/ Recompute(t)

\* Started goroutines run on, and a goroutine that waits for the lock gets it
\* in the end: sync.RWMutex hands a lock that keeps being contended to the
\* longest waiter.
Fairness ==
  /\ WF_vars(StartNode) /\ WF_vars(StartLoop) /\ WF_vars(HandleOwnJoin) /\ WF_vars(Merge)
  /\ \A t \in Caller : WF_vars(Continue(t))
  /\ \A t \in Thread : WF_vars(Recompute(t)) /\ SF_vars(Lock(t))

Spec == Init /\ [][Next]_vars /\ Fairness

-----------------------------------------------------------------------------

Places == {"idle", "probe", "register", "trigger", "start", "search"}

\* Every variable stays in its domain, and a view under construction belongs
\* to the thread that holds the lock.
TypeOK ==
  /\ boot \in {"new", "edges", "loop", "up"}
  /\ topo \in Topologies
  /\ at \in [Thread -> Places \cup {"merge", "decide"}]
  /\ \A t \in Caller : at[t] \in Places
  /\ job \in [Thread -> Job]
  /\ links \subseteq Link
  /\ seen \in Cost \cup {NoLink}
  /\ changed \in BOOLEAN
  /\ holder \in Thread \cup {NoThread}
  /\ view \in [Thread -> Views]
  /\ table \in Views
  /\ silent \in BOOLEAN
  /\ ops \in 0..MaxOps
  /\ \A t \in Thread : at[t] \in {"start", "search"} <=> holder = t

\* A thread that has changed the topology, or may have, and will yet
\* recompute for it or own up to not doing so.
Owes(t) ==
  \/ at[t] \in {"probe", "register", "trigger", "start"}
  \/ t = Loop /\ at[t] \in {"merge", "decide"} /\ changed

\* Whenever nobody is computing and the installed table is not what the
\* topology says, somebody is on the way to recompute it, unless a handler
\* gave up silently: no order of writes, waits and bit by bit reads loses an
\* update. (route_manager.go: RecomputeRoutes reads under its own lock;
\* topology_sync.go: every handler triggers after its last write.)
StaleIsOwed ==
  holder = NoThread /\ ~InStep(table, topo) =>
    silent \/ boot # "up" \/ \E t \in Thread : Owes(t)

\* Every request for a recomputation is served, although others keep taking
\* the lock and writing the topology. (route_manager.go: the compute runs
\* under the lock from start to end.)
TriggersAreServed == \A t \in Thread : at[t] = "trigger" ~> at[t] = "idle"

Quiet == boot = "up" /\ \A t \in Thread : at[t] = "idle"

\* When all handlers have returned the table gives the routes of the topology.
TableFollowsTopology == Quiet => SameRoutes(table, topo)

\* What holds of that is less: when all handlers have returned and none has
\* given up since the table was computed, it gives the routes of the topology,
\* whatever was written between its reads. (topology_sync.go: the own arrival
\* asks for the first computation, every handler for one after its writes.)
QuietTableIsCurrent == Quiet /\ ~silent => SameRoutes(table, topo)

\* And without that excuse: a probe that failed and an event that serf refused
\* leave the table behind in what they changed and in nothing else. When all
\* handlers have returned, each link that serf would broadcast is in the rows
\* the table was computed from as it is now. (topology_sync.go:361, 396: what
\* is returned early; grpc_server.go:183.)
OnlyRefusedLinksLag ==
  Quiet => \A a \in Read(table), b \in Node :
             Broadcasts(a, b) => table.rows[a][b] = topo.edges[a][b]

\* Merging another router's links never makes a link dearer.
SyncTakesTheSmallerCost ==
  [][MergeWrite => \A a, b \in Node :
       HasLink(topo, a, b) => topo'.edges[a][b] = topo.edges[a][b] \/ topo'.edges[a][b] < topo.edges[a][b]]_vars

=============================================================================
