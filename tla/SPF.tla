--------------------------------- MODULE SPF ---------------------------------
(***************************************************************************)
(* SPFCalculator.ComputeRoutes (internal/route/spf.go): Dijkstra with lazy *)
(* deletion, run by one router while other goroutines keep changing the    *)
(* topology it reads.                                                      *)
(*                                                                         *)
(* ComputeRoutes does not read the topology in one critical section.  It   *)
(* takes the read lock once for the node table and once more for the row   *)
(* of each node it expands, and remembers the rows in neighborCache.  So   *)
(* the graph it solves is stitched together from rows read at different    *)
(* moments; what the routes mean is stated against that graph.             *)
(*                                                                         *)
(* The order in which Go ranges over a row, and the order in which the     *)
(* binary heap returns items of equal priority, are left open.             *)
(***************************************************************************)
EXTENDS Paths

CONSTANTS
  Source,           \* the router that computes its table
  InitialTopology,  \* the topologies a computation may start from
  MaxWrites,        \* bound: topology writes during one computation
  WrittenTopology,  \* bound: the topologies that are written, and their outcomes
  NoNode,           \* the empty string a missing map key reads as
  Inf,              \* math.Inf(1)
  Absent,           \* "distance has no entry for this node"
  Unread            \* "the node's row is not in neighborCache"

ASSUME SPFAssumption ==
  /\ Source \in Node
  /\ InitialTopology \subseteq Topologies
  /\ MaxWrites \in Nat
  /\ NoNode \notin Node
  /\ Inf \notin Int /\ Absent \notin Int /\ Inf # Absent
  /\ Unread \notin [Node -> Cost \cup {NoLink}]

VARIABLES
  topo,      \* the shared topology
  writes,    \* how often it was written since the computation was started
  pc,        \* "start", "search" or "done"
  distance, nextHop, previous,
  pq,        \* the priority queue, as a set of items
  cache,     \* neighborCache
  current,   \* the item being expanded
  todo,      \* neighbours of current the range loop has not visited yet
  routes     \* the table: destination -> route, complete when pc is "done"

calc == <<pc, distance, nextHop, previous, pq, cache, current, todo, routes>>
vars == <<topo, writes, calc>>

Item == [node : Node, priority : Int]

NewRouteTable == [d \in {} |-> d]

\* A map lookup in Go yields the zero value for a missing key.
Distance(v) == IF distance[v] = Absent THEN 0 ELSE distance[v]

\* Mutant of Below: ties count as cheaper.
BelowTies(c, d) == IF d = Inf THEN TRUE ELSE c <= d

\* Comparison of a finite cost with a distance.
Below(c, d) == IF d = Inf THEN TRUE ELSE c < d

-----------------------------------------------------------------------------

Init ==
  /\ topo \in InitialTopology
  /\ writes = 0
  /\ pc = "start"
  /\ distance = [v \in Node |-> Absent]
  /\ nextHop = [v \in Node |-> NoNode]
  /\ previous = [v \in Node |-> NoNode]
  /\ pq = {}
  /\ cache = [v \in Node |-> Unread]
  /\ current = [node |-> Source, priority |-> 0]
  /\ todo = {}
  /\ routes = NewRouteTable

\* GetAllNodes, the initial distances and the source item.
ReadNodes ==
  /\ pc = "start"
  /\ pc' = "search"
  /\ distance' = [v \in Node |-> IF v = Source THEN 0
                                 ELSE IF v \in topo.nodes THEN Inf ELSE Absent]
  /\ pq' = {[node |-> Source, priority |-> 0]}
  /\ UNCHANGED <<topo, writes, nextHop, previous, cache, current, todo, routes>>

\* Mutant of Dequeue: a plain queue.
DequeueAny(item) == pc = "search" /\ todo = {} /\ item \in pq /\ pq' = pq \ {item}

\* Dequeue returns some item of least priority.
Dequeue(item) ==
  /\ pc = "search"
  /\ todo = {}
  /\ item \in pq
  /\ \A other \in pq : item.priority <= other.priority
  /\ pq' = pq \ {item}

\* The item was overtaken by a cheaper one for the same node.
SkipStale(item) ==
  /\ Dequeue(item)
  /\ Distance(item.node) < item.priority
  /\ UNCHANGED <<topo, writes, pc, distance, nextHop, previous, cache, current, todo, routes>>

\* Mutants of Expand: without the test for stale items; and without the cache.
ExpandStale(item) ==
  /\ Dequeue(item)
  /\ LET u == item.node
         row == IF cache[u] = Unread THEN topo.edges[u] ELSE cache[u]
     IN  cache' = [cache EXCEPT ![u] = row] /\ todo' = Neighbors(row)
  /\ current' = item
  /\ UNCHANGED <<topo, writes, pc, distance, nextHop, previous, routes>>

ExpandAfresh(item) ==
  /\ Dequeue(item)
  /\ cache' = [cache EXCEPT ![item.node] = topo.edges[item.node]]
  /\ todo' = Neighbors(topo.edges[item.node])
  /\ current' = item
  /\ UNCHANGED <<topo, writes, pc, distance, nextHop, previous, routes>>

\* Fetch the row, from neighborCache when it is there, and start ranging over it.
Expand(item) ==
  /\ Dequeue(item)
  /\ item.priority <= Distance(item.node)
  /\ LET u == item.node
         row == IF cache[u] = Unread THEN topo.edges[u] ELSE cache[u]
     IN  /\ cache' = [cache EXCEPT ![u] = row]
         /\ todo' = Neighbors(row)
  /\ current' = item
  /\ UNCHANGED <<topo, writes, pc, distance, nextHop, previous, routes>>

NewCost(v) == current.priority + cache[current.node][v]

\* Mutants of Improve: the wrong next hop, two ways; the first predecessor is
\* kept; a node that is queued already is not queued again.
ImproveWith(v, hop, prev, items) ==
  /\ v \in todo
  /\ Below(NewCost(v), Distance(v))
  /\ distance' = [distance EXCEPT ![v] = NewCost(v)]
  /\ previous' = [previous EXCEPT ![v] = prev]
  /\ nextHop' = [nextHop EXCEPT ![v] = hop]
  /\ pq' = pq \cup items
  /\ todo' = todo \ {v}
  /\ UNCHANGED <<topo, writes, pc, cache, current, routes>>

RightHop(v) == IF current.node = Source THEN v ELSE nextHop[current.node]
NewItem(v) == [node |-> v, priority |-> NewCost(v)]

ImproveInheritsHop(v) == ImproveWith(v, nextHop[current.node], current.node, {NewItem(v)})
ImproveHopsDirectly(v) == ImproveWith(v, v, current.node, {NewItem(v)})
ImproveKeepsPrevious(v) ==
  ImproveWith(v, RightHop(v), IF previous[v] = NoNode THEN current.node ELSE previous[v], {NewItem(v)})
ImproveQueuesOnce(v) ==
  ImproveWith(v, RightHop(v), current.node, IF Distance(v) = Inf THEN {NewItem(v)} ELSE {})

\* The body of the range loop when the detour through current is cheaper.
Improve(v) ==
  /\ v \in todo
  /\ Below(NewCost(v), Distance(v))
  /\ distance' = [distance EXCEPT ![v] = NewCost(v)]
  /\ previous' = [previous EXCEPT ![v] = current.node]
  /\ nextHop' = [nextHop EXCEPT ![v] = IF current.node = Source THEN v
                                       ELSE nextHop[current.node]]
  /\ pq' = pq \cup {[node |-> v, priority |-> NewCost(v)]}
  /\ todo' = todo \ {v}
  /\ UNCHANGED <<topo, writes, pc, cache, current, routes>>

\* The body of the range loop when it is not.
Keep(v) ==
  /\ v \in todo
  /\ ~Below(NewCost(v), Distance(v))
  /\ todo' = todo \ {v}
  /\ UNCHANGED <<topo, writes, pc, distance, nextHop, previous, pq, cache, current, routes>>

\* The chain of predecessors of d, source first. The loop ends at the source
\* or at a node without a predecessor.
PathTo(d) ==
  LET walk[k \in Nat] ==
        IF k = 0 THEN <<d>>
        ELSE LET p == walk[k - 1]
             IN  IF Head(p) = Source \/ previous[Head(p)] = NoNode THEN p
                 ELSE <<previous[Head(p)]>> \o p
  IN  walk[Cardinality(Node)]

\* Every known, reachable node other than the source gets a route.
BuildTable ==
  /\ pc = "search"
  /\ todo = {}
  /\ pq = {}
  /\ routes' = [d \in {v \in Node \ {Source} : distance[v] \notin {Inf, Absent}} |->
                  [nextHop |-> nextHop[d], cost |-> distance[d], path |-> PathTo(d)]]
  /\ pc' = "done"
  /\ UNCHANGED <<topo, writes, distance, nextHop, previous, pq, cache, current, todo>>

ComputeRoutes ==
  \/ ReadNodes
  \/ \E item \in pq : SkipStale(item) \/ Expand(item)
  \/ \E v \in todo : Improve(v) \/ Keep(v)
  \/ BuildTable

\* Event loop and control handlers write the topology between the reads.
TopologyWrite ==
  /\ pc # "done"
  /\ writes < MaxWrites
  /\ topo \in WrittenTopology
  /\ writes' = writes + 1
  /\ \/ \E n \in Node : topo' \in {AddNode(topo, n), RemoveNode(topo, n)}
     \/ \E a, b \in Node : topo' = RemoveLink(topo, a, b)
     \/ \E a, b \in Node, c \in Cost : topo' = UpdateLink(topo, a, b, c)
  /\ topo' \in WrittenTopology
  /\ UNCHANGED calc

Next == ComputeRoutes \/ TopologyWrite

\* The goroutine that computes keeps running.
Spec == Init /\ [][Next]_vars /\ WF_vars(ComputeRoutes)

-----------------------------------------------------------------------------

\* Every variable stays in its domain; a table entry always names a next hop.
TypeOK ==
  /\ topo \in Topologies
  /\ writes \in 0..MaxWrites
  /\ pc \in {"start", "search", "done"}
  /\ distance \in [Node -> Int \cup {Inf, Absent}]
  /\ nextHop \in [Node -> Node \cup {NoNode}]
  /\ previous \in [Node -> Node \cup {NoNode}]
  /\ pq \subseteq Item
  /\ cache \in [Node -> Row \cup {Unread}]
  /\ current \in Item
  /\ todo \subseteq Node
  /\ DOMAIN routes \subseteq Node \ {Source}
  /\ \A d \in DOMAIN routes : routes[d].nextHop \in Node

-----------------------------------------------------------------------------
(* What the table must say, against the graph the computation saw: rows    *)
(* that were read are taken as read, a row that was not read as it is now. *)

SeenRow(u) == IF cache[u] = Unread THEN topo.edges[u] ELSE cache[u]

SeenRows == [u \in Node |-> SeenRow(u)]

Known == {v \in Node : distance[v] # Absent}

PathsTo(d) == Paths(Known, SeenRows, Source, d)

\* A finished table has an entry exactly for the known nodes some chain of
\* links reaches, and no chain of links is cheaper than the entry's cost -
\* whatever was written to the topology while the rows were being read.
\* (spf.go: the lazy-deletion test, the relaxation and the table loop.)
RoutesAreShortest ==
  pc = "done" =>
    \A d \in Node \ {Source} :
      /\ d \in DOMAIN routes <=> PathsTo(d) # {}
      /\ \A p \in PathsTo(d) : routes[d].cost <= PathCost(SeenRows, p)

\* The path recorded with a route is a loop-free chain of links from the
\* source, it costs what the route says, and it starts with the route's next
\* hop: nextHop and previous, kept in two maps, never tell different stories.
RoutesFollowLinks ==
  pc = "done" =>
    \A d \in DOMAIN routes :
      /\ routes[d].path \in PathsTo(d)
      /\ routes[d].cost = PathCost(SeenRows, routes[d].path)
      /\ routes[d].nextHop = routes[d].path[2]

Reached == DOMAIN routes \cup {Source}
RouteCost(v) == IF v = Source THEN 0 ELSE routes[v].cost

\* The same, as a certificate that can be checked link by link: no link seen
\* offers a shortcut, and every route extends the source or another route by
\* one link of its cost, with the next hop of the route it extends.
\* (spf.go: the relaxation, the stale test and the nextHop bookkeeping.)
RoutesAreCertified ==
  pc = "done" =>
    /\ \A u \in Reached, v \in Known : SeenRow(u)[v] # NoLink =>
         v \in Reached /\ RouteCost(v) <= RouteCost(u) + SeenRow(u)[v]
    /\ \A v \in DOMAIN routes : \E u \in Reached :
         /\ SeenRow(u)[v] # NoLink
         /\ routes[v].cost = RouteCost(u) + SeenRow(u)[v]
         /\ routes[v].nextHop = IF u = Source THEN v ELSE routes[u].nextHop

\* Once a node's row has been read its distance, predecessor and next hop are
\* final. This is what makes it sound to have dropped the visited map in
\* favour of the distance test.
SettledIsFinal ==
  [][\A v \in Node : cache[v] # Unread =>
       UNCHANGED <<distance[v], previous[v], nextHop[v], cache[v]>>]_vars

\* No node is expanded twice, which the documented O((V+E)logV) rests on.
ExpandsOnce ==
  [][\A item \in pq : Expand(item) => cache[item.node] = Unread]_vars

Unexpanded == {v \in Node : cache[v] = Unread}

Less(A, B) == A \subseteq B /\ A # B

\* Why it ends: every step expands a node that was not expanded before, or
\* visits one more neighbour of it, or takes one more item off the queue -
\* although relaxing a link puts items on the queue. So the number of steps
\* depends on the number of nodes alone, not on costs, ties or writes.
\* (spf.go: the test for stale items in place of a visited set.)
EveryStepProgresses ==
  [][calc' # calc =>
       \/ <<pc, pc'>> \in {<<"start", "search">>, <<"search", "done">>}
       \/ /\ pc' = pc
          /\ \/ Less(Unexpanded', Unexpanded)
             \/ Unexpanded' = Unexpanded /\ Less(todo', todo)
             \/ UNCHANGED <<Unexpanded, todo>> /\ Less(pq', pq)]_vars

\* The computation ends however often the topology is written meanwhile; the
\* caller holds the route manager's lock until it does.
Terminates == <>(pc = "done")

-----------------------------------------------------------------------------

\* The search refines RouteComputation: skipping, relaxing and keeping are
\* steps nobody outside sees, expanding a node reads its row, and the table
\* is built only when every row that can matter has been read - once each.
Reading == INSTANCE RouteComputation
             WITH Self <- Source, view <- [nodes |-> Known, rows |-> cache], phase <- pc

\* (spf.go: GetAllNodes, GetNeighbors through neighborCache, the pq loop.)
ReadsWhatItNeeds == Reading!Spec

=============================================================================
