------------------------------ MODULE SPFProofs ------------------------------
(***************************************************************************)
(* Proofs about ComputeRoutes for any set of nodes, any starting topology  *)
(* and any number of concurrent topology writes, as long as no link cost   *)
(* is negative.                                                            *)
(***************************************************************************)
EXTENDS SPF, TopologyProofs, PathProofs

NonNegative == Cost \subseteq Nat

-----------------------------------------------------------------------------
(* The inductive invariant. A node is settled when its row has been read   *)
(* and finite when a path to it has been found.                            *)

Settled(v) == cache[v] # Unread
Finite(v) == distance[v] \in Nat

Types ==
  /\ topo \in Topologies
  /\ writes \in 0..MaxWrites
  /\ pc \in {"start", "search", "done"}
  /\ distance \in [Node -> Nat \cup {Inf, Absent}]
  /\ nextHop \in [Node -> Node \cup {NoNode}]
  /\ previous \in [Node -> Node \cup {NoNode}]
  /\ pq \subseteq [node : Node, priority : Nat]
  /\ cache \in [Node -> Row \cup {Unread}]
  /\ current \in [node : Node, priority : Nat]
  /\ todo \subseteq Node

\* Nothing happens before the node table has been read.
Started ==
  IF pc = "start" THEN /\ pq = {} /\ todo = {} /\ current.priority = 0
                       /\ \A v \in Node : ~Settled(v) /\ ~Finite(v)
                  ELSE distance[Source] = 0

\* What is queued is an upper bound, not below the item being expanded, and
\* overtaken when its node is settled.
QueueIsAhead ==
  \A item \in pq :
    /\ Finite(item.node)
    /\ distance[item.node] <= item.priority
    /\ current.priority <= item.priority
    /\ Settled(item.node) => distance[item.node] < item.priority

SettledIsBehind ==
  \A v \in Node : Settled(v) => Finite(v) /\ distance[v] <= current.priority

FoundIsQueued ==
  \A v \in Node : Finite(v) /\ ~Settled(v) => [node |-> v, priority |-> distance[v]] \in pq

TodoIsOpen ==
  todo # {} =>
    /\ Settled(current.node)
    /\ distance[current.node] = current.priority
    /\ todo \subseteq Neighbors(cache[current.node])

\* No link of a settled node offers a shortcut, except those still to visit.
Relaxed ==
  \A u, v \in Node :
    /\ Settled(u) /\ cache[u][v] # NoLink /\ distance[v] # Absent
    /\ ~(u = current.node /\ v \in todo)
    => Finite(v) /\ distance[v] <= distance[u] + cache[u][v]

\* A found node hangs off a settled one by a link that was seen.
Tree ==
  \A v \in Node \ {Source} : Finite(v) =>
    /\ previous[v] \in Node
    /\ Settled(previous[v])
    /\ cache[previous[v]][v] # NoLink
    /\ distance[v] = distance[previous[v]] + cache[previous[v]][v]
    /\ nextHop[v] \in Node
    /\ nextHop[v] = IF previous[v] = Source THEN v ELSE nextHop[previous[v]]

TableIsCopied ==
  IF pc = "done"
  THEN /\ pq = {} /\ todo = {}
       /\ DOMAIN routes = {v \in Node \ {Source} : Finite(v)}
       /\ \A d \in DOMAIN routes : routes[d].cost = distance[d] /\ routes[d].nextHop = nextHop[d]
  ELSE DOMAIN routes = {}

IInv ==
  /\ Types /\ Started /\ QueueIsAhead /\ SettledIsBehind /\ FoundIsQueued
  /\ TodoIsOpen /\ Relaxed /\ Tree /\ TableIsCopied

-----------------------------------------------------------------------------

\* A link that was seen has a cost, and that cost is not negative.
LEMMA SeenCost ==
  ASSUME NonNegative, Types, NEW u \in Node, NEW v \in Node, Settled(u), cache[u][v] # NoLink
  PROVE  cache[u][v] \in Nat
  BY DEF NonNegative, Types, Settled, Row

LEMMA InitIInv == ASSUME Init PROVE IInv
<1> USE SPFAssumption
<1>1. Types
  BY DEF Init, Types
<1>2. Started /\ QueueIsAhead /\ SettledIsBehind /\ FoundIsQueued
  BY DEF Init, Started, QueueIsAhead, SettledIsBehind, FoundIsQueued, Settled, Finite
<1>3. TodoIsOpen /\ Relaxed /\ Tree
  BY DEF Init, TodoIsOpen, Relaxed, Tree, Settled, Finite
<1>4. TableIsCopied
  BY DEF Init, TableIsCopied, NewRouteTable
<1>5. QED
  BY <1>1, <1>2, <1>3, <1>4 DEF IInv

LEMMA ReadNodesIInv == ASSUME IInv, ReadNodes PROVE IInv'
<1> USE SPFAssumption
<1> USE DEF IInv, ReadNodes
<1>1. Types'
  BY DEF Types
<1>2. /\ \A v \in Node : cache'[v] = Unread
      /\ \A v \in Node : distance'[v] \in Nat => v = Source
      /\ distance'[Source] = 0
      /\ todo' = {}
  BY DEF Types, Started, Settled
<1>3. Started' /\ SettledIsBehind' /\ FoundIsQueued' /\ TodoIsOpen' /\ Relaxed' /\ Tree'
  BY <1>2 DEF Started, SettledIsBehind, FoundIsQueued, TodoIsOpen, Relaxed, Tree, Settled, Finite
<1>4. QueueIsAhead'
  BY <1>2 DEF QueueIsAhead, Types, Started, Settled, Finite
<1>5. TableIsCopied'
  BY DEF TableIsCopied
<1>6. QED
  BY <1>1, <1>3, <1>4, <1>5

LEMMA SkipStaleIInv ==
  ASSUME IInv, NEW item \in pq, SkipStale(item) PROVE IInv'
<1> USE SPFAssumption
<1> USE DEF IInv, SkipStale, Dequeue
<1>1. item.node \in Node /\ item.priority \in Nat
  BY DEF Types
<1>2. distance[item.node] \in Nat /\ distance[item.node] < item.priority
  BY <1>1 DEF Distance, QueueIsAhead, Finite
<1>3. Types'
  BY DEF Types
<1>4. FoundIsQueued'
  BY <1>2 DEF FoundIsQueued, Settled, Finite
<1>5. QueueIsAhead' /\ Started'
  BY DEF QueueIsAhead, Started, Settled, Finite
<1>6. SettledIsBehind' /\ TodoIsOpen' /\ Relaxed' /\ Tree' /\ TableIsCopied'
  BY DEF SettledIsBehind, TodoIsOpen, Relaxed, Tree, TableIsCopied, Settled, Finite
<1>7. QED
  BY <1>3, <1>4, <1>5, <1>6

\* The node of a least item that is not stale has not been expanded before.
LEMMA ExpandsUnsettled ==
  ASSUME IInv, NEW item \in pq, Expand(item)
  PROVE  /\ item.node \in Node /\ item.priority \in Nat
         /\ distance[item.node] = item.priority
         /\ ~Settled(item.node)
  BY SPFAssumption DEF IInv, Types, QueueIsAhead, Expand, Dequeue, Distance, Finite

LEMMA ExpandIInv ==
  ASSUME NonNegative, IInv, NEW item \in pq, Expand(item) PROVE IInv'
<1> DEFINE u == item.node
<1> USE SPFAssumption
<1> USE DEF IInv
<1>1. u \in Node /\ item.priority \in Nat /\ distance[u] = item.priority /\ ~Settled(u)
  BY ExpandsUnsettled
<1>2. topo.edges[u] \in Row
  BY <1>1 DEF Types, Topologies
<1>3. cache' = [cache EXCEPT ![u] = topo.edges[u]] /\ todo' = Neighbors(cache'[u])
  BY <1>1 DEF Expand, Settled, Types
<1>4. /\ current' = item
      /\ pq' = pq \ {item}
      /\ todo = {}
      /\ UNCHANGED <<topo, writes, pc, distance, nextHop, previous, routes>>
      /\ \A other \in pq : item.priority <= other.priority
      /\ pc = "search"
  BY DEF Expand, Dequeue
<1>5. \A v \in Node : Settled(v)' <=> (Settled(v) \/ v = u)
  BY <1>1, <1>2, <1>3 DEF Settled, Types, Row
<1>6. \A v \in Node : v # u => cache'[v] = cache[v]
  BY <1>3 DEF Types
<1> HIDE DEF u
<1>7. Types'
  BY <1>1, <1>2, <1>3, <1>4 DEF Types, Neighbors
<1>8. Started' /\ TableIsCopied'
  BY <1>4 DEF Started, TableIsCopied
<1>9. QueueIsAhead'
  <2> SUFFICES ASSUME NEW other \in pq, other # item
               PROVE  /\ Finite(other.node)
                      /\ distance[other.node] <= other.priority
                      /\ item.priority <= other.priority
                      /\ Settled(other.node)' => distance[other.node] < other.priority
    BY <1>4 DEF QueueIsAhead, Finite
  <2>1. other.node = u => other.priority # item.priority
    BY DEF u, Types
  <2>2. other.node \in Node /\ other.priority \in Nat
    BY DEF Types
  <2>3. QED
    BY <2>1, <2>2, <1>1, <1>4, <1>5 DEF QueueIsAhead, Finite
<1>10. SettledIsBehind'
  <2>1. \A v \in Node : Settled(v) => distance[v] \in Nat /\ distance[v] <= item.priority
    BY <1>1 DEF SettledIsBehind, QueueIsAhead, Finite, Types
  <2>2. QED
    BY <2>1, <1>1, <1>4, <1>5 DEF SettledIsBehind, Finite
<1>11. FoundIsQueued'
  <2> SUFFICES ASSUME NEW v \in Node, distance[v] \in Nat, ~Settled(v), v # u
               PROVE  [node |-> v, priority |-> distance[v]] \in pq \ {item}
    BY <1>4, <1>5 DEF FoundIsQueued, Finite
  <2>1. [node |-> v, priority |-> distance[v]] \in pq
    BY DEF FoundIsQueued, Finite
  <2>2. QED
    BY <2>1 DEF u
<1>12. TodoIsOpen'
  BY <1>1, <1>3, <1>4, <1>5 DEF TodoIsOpen, u
<1>13. Relaxed'
  <2> SUFFICES ASSUME NEW w \in Node, NEW v \in Node, Settled(w)', cache'[w][v] # NoLink,
                      distance[v] # Absent, ~(w = u /\ v \in todo')
               PROVE  distance[v] \in Nat /\ distance[v] <= distance[w] + cache'[w][v]
    BY <1>4 DEF Relaxed, Finite, u
  <2>1. w # u
    BY <1>3 DEF Neighbors
  <2>2. QED
    BY <2>1, <1>4, <1>5, <1>6 DEF Relaxed, Finite
<1>14. Tree'
  <2> SUFFICES ASSUME NEW v \in Node \ {Source}, distance[v] \in Nat
               PROVE  /\ previous[v] \in Node
                      /\ Settled(previous[v])'
                      /\ cache'[previous[v]][v] # NoLink
                      /\ distance[v] = distance[previous[v]] + cache'[previous[v]][v]
                      /\ nextHop[v] \in Node
                      /\ nextHop[v] = IF previous[v] = Source THEN v ELSE nextHop[previous[v]]
    BY <1>4 DEF Tree, Finite
  <2>1. /\ previous[v] \in Node
        /\ Settled(previous[v])
        /\ cache[previous[v]][v] # NoLink
        /\ distance[v] = distance[previous[v]] + cache[previous[v]][v]
        /\ nextHop[v] \in Node
        /\ nextHop[v] = IF previous[v] = Source THEN v ELSE nextHop[previous[v]]
    BY DEF Tree, Finite
  <2>2. previous[v] # u
    BY <2>1, <1>1
  <2>3. QED
    BY <2>1, <2>2, <1>4, <1>6 DEF Settled
<1>15. QED
  BY <1>7, <1>8, <1>9, <1>10, <1>11, <1>12, <1>13, <1>14

\* The neighbour being visited hangs off the node being expanded.
LEMMA VisitedLink ==
  ASSUME NonNegative, IInv, NEW v \in todo
  PROVE  /\ v \in Node /\ current.node \in Node /\ current.priority \in Nat
         /\ Settled(current.node)
         /\ distance[current.node] = current.priority
         /\ cache[current.node][v] # NoLink
         /\ cache[current.node][v] \in Nat
         /\ NewCost(v) \in Nat /\ current.priority <= NewCost(v)
<1>1. v \in Node /\ current.node \in Node /\ current.priority \in Nat
  BY DEF IInv, Types
<1>2. /\ Settled(current.node)
      /\ distance[current.node] = current.priority
      /\ cache[current.node][v] # NoLink
  BY DEF IInv, TodoIsOpen, Neighbors
<1>3. cache[current.node][v] \in Nat
  BY <1>1, <1>2, SeenCost DEF IInv
<1>4. QED
  BY <1>1, <1>2, <1>3 DEF NewCost

\* Only a node that is known, not the source and not settled is improved.
LEMMA ImprovesUnsettled ==
  ASSUME NonNegative, IInv, NEW v \in todo, Improve(v)
  PROVE  v # Source /\ ~Settled(v) /\ distance[v] # Absent
         /\ (Finite(v) => NewCost(v) < distance[v])
<1> USE SPFAssumption
<1>1. v \in Node /\ NewCost(v) \in Nat /\ current.priority \in Nat /\ current.priority <= NewCost(v)
  BY VisitedLink
<1>2. distance[v] # Absent
  BY <1>1 DEF Improve, Below, Distance
<1>3. distance[v] \in Nat => NewCost(v) < distance[v]
  BY <1>1, <1>2 DEF Improve, Below, Distance
<1>4. distance[Source] = 0
  BY DEF IInv, Started
<1>5. v # Source
  BY <1>1, <1>3, <1>4
<1>6. ~Settled(v)
  BY <1>1, <1>3 DEF IInv, SettledIsBehind, Finite
<1>7. QED
  BY <1>2, <1>3, <1>5, <1>6 DEF Finite

LEMMA ImproveIInv ==
  ASSUME NonNegative, IInv, NEW v \in todo, Improve(v) PROVE IInv'
<1> DEFINE c == NewCost(v)
           u == current.node
<1> USE SPFAssumption
<1> USE DEF IInv
<1>1. /\ v \in Node /\ u \in Node /\ current.priority \in Nat
      /\ Settled(u) /\ distance[u] = current.priority
      /\ cache[u][v] # NoLink /\ cache[u][v] \in Nat
      /\ c \in Nat /\ current.priority <= c /\ c = distance[u] + cache[u][v]
  BY VisitedLink DEF NewCost
<1>2. v # Source /\ ~Settled(v) /\ distance[v] # Absent /\ (distance[v] \in Nat => c < distance[v])
  BY ImprovesUnsettled DEF Finite
<1>3. /\ distance' = [distance EXCEPT ![v] = c]
      /\ previous' = [previous EXCEPT ![v] = u]
      /\ nextHop' = [nextHop EXCEPT ![v] = IF u = Source THEN v ELSE nextHop[u]]
      /\ pq' = pq \cup {[node |-> v, priority |-> c]}
      /\ todo' = todo \ {v}
      /\ UNCHANGED <<topo, writes, pc, cache, current, routes>>
  BY DEF Improve
<1>4. pc = "search"
  BY DEF Types, Started, TableIsCopied
<1>5. u # v
  BY <1>1, <1>2
<1>6. u # Source => nextHop[u] \in Node
  BY <1>1 DEF Tree, Finite
<1>7. /\ distance'[v] = c
      /\ \A w \in Node : w # v => distance'[w] = distance[w]
      /\ previous'[v] = u
      /\ \A w \in Node : w # v => previous'[w] = previous[w]
      /\ nextHop'[v] = IF u = Source THEN v ELSE nextHop[u]
      /\ \A w \in Node : w # v => nextHop'[w] = nextHop[w]
  BY <1>1, <1>3 DEF Types
<1> HIDE DEF c, u
<1>8. Types'
  <2>1. [node |-> v, priority |-> c] \in [node : Node, priority : Nat]
    BY <1>1
  <2>2. distance' \in [Node -> Nat \cup {Inf, Absent}]
    BY <1>1, <1>3 DEF Types
  <2>3. previous' \in [Node -> Node \cup {NoNode}] /\ nextHop' \in [Node -> Node \cup {NoNode}]
    BY <1>1, <1>3, <1>6 DEF Types
  <2>4. QED
    BY <2>1, <2>2, <2>3, <1>3 DEF Types
<1>9. Started' /\ TableIsCopied'
  BY <1>2, <1>3, <1>4, <1>7 DEF Started, TableIsCopied
<1>10. QueueIsAhead'
  <2> SUFFICES ASSUME NEW item \in pq'
               PROVE  /\ distance'[item.node] \in Nat
                      /\ distance'[item.node] <= item.priority
                      /\ current.priority <= item.priority
                      /\ Settled(item.node) => distance'[item.node] < item.priority
    BY <1>3 DEF QueueIsAhead, Finite, Settled
  <2>1. CASE item = [node |-> v, priority |-> c]
    BY <2>1, <1>1, <1>2, <1>7
  <2>2. CASE item \in pq
    <3>1. /\ item.node \in Node /\ item.priority \in Nat
          /\ distance[item.node] \in Nat
          /\ distance[item.node] <= item.priority
          /\ current.priority <= item.priority
          /\ Settled(item.node) => distance[item.node] < item.priority
      BY <2>2 DEF QueueIsAhead, Finite, Types
    <3>2. CASE item.node = v
      BY <3>1, <3>2, <1>1, <1>2, <1>7
    <3>3. CASE item.node # v
      BY <3>1, <3>3, <1>7
    <3>4. QED
      BY <3>2, <3>3
  <2>3. QED
    BY <2>1, <2>2, <1>3
<1>11. SettledIsBehind'
  BY <1>2, <1>3, <1>7 DEF SettledIsBehind, Settled, Finite
<1>12. FoundIsQueued'
  <2> SUFFICES ASSUME NEW w \in Node, distance'[w] \in Nat, ~Settled(w)
               PROVE  [node |-> w, priority |-> distance'[w]] \in pq'
    BY <1>3 DEF FoundIsQueued, Finite, Settled
  <2>1. CASE w = v
    BY <2>1, <1>3, <1>7
  <2>2. CASE w # v
    BY <2>2, <1>3, <1>7 DEF FoundIsQueued, Finite
  <2>3. QED
    BY <2>1, <2>2
<1>13. TodoIsOpen'
  BY <1>1, <1>3, <1>5, <1>7 DEF TodoIsOpen, Settled, u
<1>14. Relaxed'
  <2> SUFFICES ASSUME NEW w \in Node, NEW x \in Node, Settled(w), cache[w][x] # NoLink,
                      distance'[x] # Absent, ~(w = u /\ x \in todo')
               PROVE  distance'[x] \in Nat /\ distance'[x] <= distance'[w] + cache[w][x]
    BY <1>3 DEF Relaxed, Finite, Settled, u
  <2>1. w # v /\ distance'[w] = distance[w] /\ distance[w] \in Nat
    BY <1>2, <1>7 DEF SettledIsBehind, Finite
  <2>2. cache[w][x] \in Nat
    BY SeenCost
  <2>3. CASE x = v /\ w = u
    BY <2>1, <2>3, <1>1, <1>7
  <2>4. CASE x = v /\ w # u
    <3>1. distance[v] \in Nat /\ distance[v] <= distance[w] + cache[w][v]
      BY <2>4, <1>2 DEF Relaxed, Finite, u
    <3>2. QED
      BY <3>1, <2>1, <2>2, <2>4, <1>1, <1>2, <1>7
  <2>5. CASE x # v
    BY <2>1, <2>5, <1>3, <1>7 DEF Relaxed, Finite, u
  <2>6. QED
    BY <2>3, <2>4, <2>5
<1>15. Tree'
  <2> SUFFICES ASSUME NEW w \in Node \ {Source}, distance'[w] \in Nat
               PROVE  /\ previous'[w] \in Node
                      /\ Settled(previous'[w])
                      /\ cache[previous'[w]][w] # NoLink
                      /\ distance'[w] = distance'[previous'[w]] + cache[previous'[w]][w]
                      /\ nextHop'[w] \in Node
                      /\ nextHop'[w] = IF previous'[w] = Source THEN w ELSE nextHop'[previous'[w]]
    BY <1>3 DEF Tree, Finite, Settled
  <2>1. CASE w = v
    BY <2>1, <1>1, <1>5, <1>6, <1>7
  <2>2. CASE w # v
    <3>1. /\ previous[w] \in Node
          /\ Settled(previous[w])
          /\ cache[previous[w]][w] # NoLink
          /\ distance[w] = distance[previous[w]] + cache[previous[w]][w]
          /\ nextHop[w] \in Node
          /\ nextHop[w] = IF previous[w] = Source THEN w ELSE nextHop[previous[w]]
      BY <2>2, <1>7 DEF Tree, Finite
    <3>2. previous[w] # v
      BY <3>1, <1>2
    <3>3. QED
      BY <3>1, <3>2, <2>2, <1>7
  <2>3. QED
    BY <2>1, <2>2
<1>16. QED
  BY <1>8, <1>9, <1>10, <1>11, <1>12, <1>13, <1>14, <1>15

LEMMA KeepIInv ==
  ASSUME NonNegative, IInv, NEW v \in todo, Keep(v) PROVE IInv'
<1> USE SPFAssumption
<1> USE DEF IInv
<1>1. /\ v \in Node /\ current.node \in Node
      /\ distance[current.node] = current.priority
      /\ cache[current.node][v] # NoLink
      /\ NewCost(v) \in Nat /\ NewCost(v) = distance[current.node] + cache[current.node][v]
  BY VisitedLink DEF NewCost
<1>2. /\ todo' = todo \ {v}
      /\ UNCHANGED <<topo, writes, pc, distance, nextHop, previous, pq, cache, current, routes>>
  BY DEF Keep
<1>3. distance[v] # Absent => distance[v] \in Nat /\ distance[v] <= NewCost(v)
  BY <1>1 DEF Keep, Below, Distance, Types
<1>4. Types' /\ Started' /\ QueueIsAhead' /\ SettledIsBehind' /\ FoundIsQueued' /\ Tree'
  BY <1>2 DEF Types, Started, QueueIsAhead, SettledIsBehind, FoundIsQueued, Tree, Settled, Finite
<1>5. TodoIsOpen' /\ TableIsCopied'
  BY <1>2 DEF TodoIsOpen, TableIsCopied, Settled, Finite
<1>6. Relaxed'
  BY <1>1, <1>2, <1>3 DEF Relaxed, Settled, Finite
<1>7. QED
  BY <1>4, <1>5, <1>6

LEMMA BuildTableIInv == ASSUME IInv, BuildTable PROVE IInv'
<1> USE SPFAssumption
<1> USE DEF IInv
<1>1. /\ pc = "search" /\ pc' = "done" /\ pq = {} /\ todo = {}
      /\ UNCHANGED <<topo, writes, distance, nextHop, previous, pq, cache, current, todo>>
  BY DEF BuildTable
<1>2. {v \in Node \ {Source} : distance[v] \notin {Inf, Absent}} = {v \in Node \ {Source} : Finite(v)}
  BY DEF Types, Finite
<1>3. TableIsCopied'
  BY <1>1, <1>2 DEF BuildTable, TableIsCopied, Finite
<1>4. Types' /\ Started' /\ QueueIsAhead' /\ SettledIsBehind' /\ FoundIsQueued'
  BY <1>1 DEF Types, Started, QueueIsAhead, SettledIsBehind, FoundIsQueued, Settled, Finite
<1>5. TodoIsOpen' /\ Relaxed' /\ Tree'
  BY <1>1 DEF TodoIsOpen, Relaxed, Tree, Settled, Finite
<1>6. QED
  BY <1>3, <1>4, <1>5

\* Everything the calculation knows is its own: a write to the topology does
\* not disturb it, because rows are copied when they are read.
LEMMA CalcIInv ==
  ASSUME IInv, UNCHANGED calc, topo' \in Topologies, writes' \in 0..MaxWrites
  PROVE  IInv'
<1> USE DEF IInv, calc
<1>1. Types' /\ Started' /\ QueueIsAhead' /\ SettledIsBehind' /\ FoundIsQueued'
  BY DEF Types, Started, QueueIsAhead, SettledIsBehind, FoundIsQueued, Settled, Finite
<1>2. TodoIsOpen' /\ Relaxed' /\ Tree' /\ TableIsCopied'
  BY DEF TodoIsOpen, Relaxed, Tree, TableIsCopied, Settled, Finite
<1>3. QED
  BY <1>1, <1>2

LEMMA TopologyWriteIInv == ASSUME IInv, TopologyWrite PROVE IInv'
<1>1. topo \in Topologies /\ writes \in 0..MaxWrites
  BY DEF IInv, Types
<1>2. topo' \in Topologies
  <2>1. CASE \E n \in Node : topo' \in {AddNode(topo, n), RemoveNode(topo, n)}
    BY <2>1, <1>1, AddNodeType, RemoveNodeType
  <2>2. CASE \E a, b \in Node : topo' = RemoveLink(topo, a, b)
    BY <2>2, <1>1, RemoveLinkType
  <2>3. CASE \E a, b \in Node, c \in Cost : topo' = UpdateLink(topo, a, b, c)
    BY <2>3, <1>1, UpdateLinkType
  <2>4. QED
    BY <2>1, <2>2, <2>3 DEF TopologyWrite
<1>3. writes' \in 0..MaxWrites
  BY <1>1, SPFAssumption DEF TopologyWrite
<1>4. QED
  BY <1>2, <1>3, CalcIInv DEF TopologyWrite

LEMMA NextIInv == ASSUME NonNegative, IInv, [Next]_vars PROVE IInv'
<1>1. CASE ReadNodes
  BY <1>1, ReadNodesIInv
<1>2. CASE \E item \in pq : SkipStale(item) \/ Expand(item)
  BY <1>2, SkipStaleIInv, ExpandIInv
<1>3. CASE \E v \in todo : Improve(v) \/ Keep(v)
  BY <1>3, ImproveIInv, KeepIInv
<1>4. CASE BuildTable
  BY <1>4, BuildTableIInv
<1>5. CASE TopologyWrite
  BY <1>5, TopologyWriteIInv
<1>6. CASE UNCHANGED vars
  BY <1>6, CalcIInv DEF vars, IInv, Types
<1>7. QED
  BY <1>1, <1>2, <1>3, <1>4, <1>5, <1>6 DEF Next, ComputeRoutes

THEOREM Invariant == ASSUME NonNegative PROVE Spec => []IInv
<1>1. Init => IInv
  BY InitIInv
<1>2. IInv /\ [Next]_vars => IInv'
  BY NextIInv
<1>3. QED
  BY <1>1, <1>2, PTL DEF Spec

-----------------------------------------------------------------------------
(* What follows from it. *)

\* The variables keep their types, and no table entry lacks a next hop
\* (spf.go: nextHop[current] is never read before it has been written).
THEOREM TypeCorrect == ASSUME NonNegative PROVE Spec => []TypeOK
<1>1. IInv => TypeOK
  <2> SUFFICES ASSUME IInv PROVE TypeOK
    OBVIOUS
  <2>1. DOMAIN routes \subseteq Node \ {Source} /\ \A d \in DOMAIN routes : routes[d].nextHop \in Node
    BY DEF IInv, TableIsCopied, Tree
  <2>2. QED
    BY <2>1 DEF TypeOK, IInv, Types, Item
<1>2. QED
  BY <1>1, Invariant, PTL

\* A finished table satisfies its certificate whatever was written to the
\* topology while the rows were being read (spf.go: the relaxation).
THEOREM TableIsCertified == ASSUME NonNegative PROVE Spec => []RoutesAreCertified
<1>1. IInv => RoutesAreCertified
  <2> SUFFICES ASSUME IInv, pc = "done" PROVE RoutesAreCertified
    BY DEF RoutesAreCertified
  <2> USE SPFAssumption
  <2>1. /\ Reached = {v \in Node : Finite(v)}
        /\ \A v \in Reached : RouteCost(v) = distance[v]
    BY DEF IInv, TableIsCopied, Started, Reached, RouteCost, Finite
  <2>2. \A v \in Reached : Settled(v) /\ SeenRow(v) = cache[v]
    BY <2>1 DEF IInv, TableIsCopied, FoundIsQueued, Settled, SeenRow
  <2>3. ASSUME NEW u \in Reached, NEW v \in Known, SeenRow(u)[v] # NoLink
        PROVE  v \in Reached /\ RouteCost(v) <= RouteCost(u) + SeenRow(u)[v]
    <3>1. u \in Node /\ v \in Node /\ Settled(u) /\ cache[u][v] # NoLink /\ distance[v] # Absent
      BY <2>1, <2>2, <2>3 DEF Known
    <3>2. Finite(v) /\ distance[v] <= distance[u] + cache[u][v]
      BY <3>1 DEF IInv, Relaxed, TableIsCopied
    <3>3. QED
      BY <3>1, <3>2, <2>1, <2>2
  <2>4. ASSUME NEW v \in DOMAIN routes
        PROVE  \E u \in Reached :
                 /\ SeenRow(u)[v] # NoLink
                 /\ routes[v].cost = RouteCost(u) + SeenRow(u)[v]
                 /\ routes[v].nextHop = IF u = Source THEN v ELSE routes[u].nextHop
    <3> DEFINE u == previous[v]
    <3>1. /\ v \in Node \ {Source} /\ Finite(v)
          /\ routes[v].cost = distance[v] /\ routes[v].nextHop = nextHop[v]
      BY DEF IInv, TableIsCopied
    <3>2. /\ u \in Node /\ Settled(u)
          /\ cache[u][v] # NoLink
          /\ distance[v] = distance[u] + cache[u][v]
          /\ nextHop[v] = IF u = Source THEN v ELSE nextHop[u]
      BY <3>1 DEF IInv, Tree
    <3>3. u \in Reached
      BY <3>2, <2>1 DEF IInv, SettledIsBehind
    <3>4. u # Source => routes[u].nextHop = nextHop[u]
      BY <3>3 DEF IInv, TableIsCopied, Reached
    <3>5. QED
      BY <3>1, <3>2, <3>3, <3>4, <2>1, <2>2
  <2>5. QED
    BY <2>3, <2>4 DEF RoutesAreCertified
<1>2. QED
  BY <1>1, Invariant, PTL

\* What is known of a node whose row has been read never changes again
\* (spf.go: the distance test that replaced the visited map).
THEOREM SettledStaysFinal == ASSUME NonNegative PROVE Spec => SettledIsFinal
<1> DEFINE Final == \A v \in Node : cache[v] # Unread =>
                      UNCHANGED <<distance[v], previous[v], nextHop[v], cache[v]>>
<1>1. ASSUME NonNegative, IInv, [Next]_vars PROVE [Final]_vars
  <2> SUFFICES ASSUME Next, NEW v \in Node, cache[v] # Unread
               PROVE  UNCHANGED <<distance[v], previous[v], nextHop[v], cache[v]>>
    BY <1>1
  <2>1. CASE ReadNodes
    BY <2>1, <1>1 DEF ReadNodes, IInv, Started, Settled
  <2>2. ASSUME NEW item \in pq, SkipStale(item) PROVE UNCHANGED <<distance[v], previous[v], nextHop[v], cache[v]>>
    BY <2>2 DEF SkipStale
  <2>3. ASSUME NEW item \in pq, Expand(item) PROVE UNCHANGED <<distance[v], previous[v], nextHop[v], cache[v]>>
    <3>1. item.node # v
      BY <2>3, <1>1, ExpandsUnsettled DEF Settled
    <3>2. cache'[v] = cache[v]
      BY <3>1, <2>3, <1>1 DEF Expand, IInv, Types
    <3>3. QED
      BY <3>2, <2>3 DEF Expand
  <2>4. ASSUME NEW w \in todo, Improve(w) PROVE UNCHANGED <<distance[v], previous[v], nextHop[v], cache[v]>>
    <3>1. w # v
      BY <2>4, <1>1, ImprovesUnsettled DEF Settled
    <3>2. QED
      BY <3>1, <2>4, <1>1 DEF Improve, IInv, Types
  <2>5. ASSUME NEW w \in todo, Keep(w) PROVE UNCHANGED <<distance[v], previous[v], nextHop[v], cache[v]>>
    BY <2>5 DEF Keep
  <2>6. CASE BuildTable
    BY <2>6 DEF BuildTable
  <2>7. CASE TopologyWrite
    BY <2>7 DEF TopologyWrite, calc
  <2>8. QED
    BY <2>1, <2>2, <2>3, <2>4, <2>5, <2>6, <2>7 DEF Next, ComputeRoutes
<1>2. QED
  BY <1>1, Invariant, PTL DEF Spec, SettledIsFinal

\* No row is fetched or ranged over twice: with costs that are not negative
\* the documented complexity holds (spf.go: the stale test).
THEOREM ExpandsAtMostOnce == ASSUME NonNegative PROVE Spec => ExpandsOnce
<1>1. IInv => \A item \in pq : Expand(item) => cache[item.node] = Unread
  BY ExpandsUnsettled DEF Settled
<1>2. QED
  BY <1>1, Invariant, PTL DEF Spec, ExpandsOnce

\* Every step of a computation uses something up that no step of it gives back,
\* so it ends however costs, ties and writes of others fall (spf.go: the test
\* for stale items; route_manager.go: the lock is held until it ends).
THEOREM ProgressIsMade == ASSUME NonNegative PROVE Spec => EveryStepProgresses
<1> DEFINE Progress ==
             \/ <<pc, pc'>> \in {<<"start", "search">>, <<"search", "done">>}
             \/ /\ pc' = pc
                /\ \/ Less(Unexpanded', Unexpanded)
                   \/ Unexpanded' = Unexpanded /\ Less(todo', todo)
                   \/ UNCHANGED <<Unexpanded, todo>> /\ Less(pq', pq)
<1>1. ASSUME NonNegative, IInv, Next, calc' # calc PROVE Progress
  <2>1. CASE ReadNodes \/ BuildTable
    BY <2>1 DEF ReadNodes, BuildTable
  <2>2. ASSUME NEW item \in pq, SkipStale(item) PROVE Progress
    <3>1. UNCHANGED <<pc, cache, todo>> /\ pq' = pq \ {item}
      BY <2>2 DEF SkipStale, Dequeue
    <3>2. Less(pq', pq) /\ Unexpanded' = Unexpanded
      BY <3>1 DEF Less, Unexpanded
    <3>3. QED
      BY <3>1, <3>2
  <2>3. ASSUME NEW item \in pq, Expand(item) PROVE Progress
    <3>1. item.node \in Node /\ cache[item.node] = Unread
      BY <2>3, <1>1, ExpandsUnsettled DEF Settled
    <3>2. cache' = [cache EXCEPT ![item.node] = topo.edges[item.node]] /\ pc' = pc
      BY <2>3, <3>1 DEF Expand
    <3>3. topo.edges[item.node] # Unread /\ cache \in [Node -> Row \cup {Unread}]
      BY <3>1, <1>1, SPFAssumption DEF IInv, Types, Topologies, Row
    <3>4. Less(Unexpanded', Unexpanded)
      BY <3>1, <3>2, <3>3 DEF Less, Unexpanded
    <3>5. QED
      BY <3>2, <3>4
  <2>4. ASSUME NEW v \in todo, Improve(v) \/ Keep(v) PROVE Progress
    <3>1. UNCHANGED <<pc, cache>> /\ todo' = todo \ {v}
      BY <2>4 DEF Improve, Keep
    <3>2. Less(todo', todo) /\ Unexpanded' = Unexpanded
      BY <3>1 DEF Less, Unexpanded
    <3>3. QED
      BY <3>1, <3>2
  <2>5. CASE TopologyWrite
    BY <2>5, <1>1 DEF TopologyWrite
  <2>6. QED
    BY <1>1, <2>1, <2>2, <2>3, <2>4, <2>5 DEF Next, ComputeRoutes
<1>2. ASSUME NonNegative PROVE IInv /\ [Next]_vars => [calc' # calc => Progress]_vars
  BY <1>1, <1>2
<1>3. QED
  BY <1>2, Invariant, PTL DEF Spec, EveryStepProgresses

-----------------------------------------------------------------------------
(* SPF implements RouteComputation.                                        *)

LEMMA ReadNodesRefines == ASSUME IInv, ReadNodes PROVE Reading!ReadNodes
<1> USE SPFAssumption
<1>1. cache = [u \in Node |-> Unread] /\ cache' = cache
  BY DEF IInv, Types, Started, Settled, ReadNodes
<1>2. Known' = topo.nodes \cup {Source}
  BY DEF ReadNodes, Known, IInv, Types, Topologies
<1>3. [nodes |-> Known, rows |-> cache]' = Reading!NodesRead(topo)
  BY <1>1, <1>2 DEF Reading!NodesRead, Reading!NodesOf
<1>4. QED
  BY <1>3 DEF Reading!ReadNodes, ReadNodes

LEMMA ExpandRefines ==
  ASSUME NonNegative, IInv, NEW item \in pq, Expand(item)
  PROVE  Reading!ReadRow(item.node)
<1> DEFINE u == item.node
           view == [nodes |-> Known, rows |-> cache]
<1> USE SPFAssumption
<1>1. u \in Node /\ distance[u] \in Nat /\ ~Settled(u)
  BY ExpandsUnsettled
<1>2. u # Source => previous[u] \in Reading!Read(view) /\ u \in Neighbors(cache[previous[u]])
  BY <1>1 DEF IInv, Tree, Finite, Settled, Reading!Read, Neighbors
<1>3. u \in Reading!Frontier(view)
  <2>1. u \in view.nodes /\ view.rows[u] = Unread
    BY <1>1 DEF Known, Settled
  <2>2. u = Source \/ \E w \in Reading!Read(view) : u \in Reading!Neighbors(view.rows[w])
    BY <1>2 DEF Neighbors, Reading!Neighbors
  <2>3. QED
    BY <2>1, <2>2 DEF Reading!Frontier
<1>4. cache' = [cache EXCEPT ![u] = topo.edges[u]]
  BY <1>1 DEF Expand, Settled
<1>5. view' = Reading!RowRead(view, topo, u)
  BY <1>4 DEF Reading!RowRead, Known, Expand
<1>6. pc = "search" /\ UNCHANGED <<topo, pc>>
  BY DEF Expand, Dequeue
<1>7. QED
  BY <1>3, <1>5, <1>6 DEF Reading!ReadRow

LEMMA BuildTableRefines ==
  ASSUME NonNegative, IInv, BuildTable PROVE Reading!Finish
<1> DEFINE view == [nodes |-> Known, rows |-> cache]
<1> USE SPFAssumption
<1>1. pc = "search" /\ pc' = "done" /\ pq = {} /\ todo = {}
      /\ UNCHANGED <<topo, distance, cache>>
  BY DEF BuildTable
<1>2. \A v \in Node : Finite(v) => Settled(v)
  BY <1>1 DEF IInv, FoundIsQueued
<1>3. Settled(Source)
  BY <1>1, <1>2 DEF IInv, Started, Finite
<1>4. ASSUME NEW v \in Known, cache[v] = Unread, NEW u \in Node, cache[u] # Unread, v \in Neighbors(cache[u])
      PROVE  FALSE
  <2>1. Finite(v)
    BY <1>4, <1>1 DEF IInv, Relaxed, Known, Settled, Neighbors
  <2>2. QED
    BY <2>1, <1>2, <1>4 DEF Known, Settled
<1>5. Reading!Frontier(view) = {}
  BY <1>3, <1>4 DEF Reading!Frontier, Reading!Read, Reading!Neighbors, Neighbors, Settled
<1>6. Source \in Reading!Read(view)
  BY <1>3 DEF Reading!Read, Settled
<1>7. QED
  BY <1>1, <1>5, <1>6 DEF Reading!Finish, Known

\* Every behaviour of the search is one of RouteComputation (spf.go: the
\* whole of ComputeRoutes, with the topology written between its reads).
THEOREM Refinement == ASSUME NonNegative PROVE Spec => ReadsWhatItNeeds
<1>1. Init => Reading!Init
  <2> SUFFICES ASSUME Init PROVE Reading!Init
    OBVIOUS
  <2>1. Known = {} /\ cache = [u \in Node |-> Unread]
    BY DEF Init, Known
  <2>2. QED
    BY <2>1 DEF Init, Reading!Init, Reading!NoView
<1>2. ASSUME NonNegative, IInv, IInv', [Next]_vars PROVE [Reading!Next]_(Reading!vars)
  <2> USE <1>2
  <2>1. CASE ReadNodes
    BY <2>1, ReadNodesRefines DEF Reading!Next
  <2>2. ASSUME NEW item \in pq, SkipStale(item) PROVE UNCHANGED Reading!vars
    BY <2>2 DEF SkipStale, Reading!vars, Known
  <2>3. ASSUME NEW item \in pq, Expand(item) PROVE Reading!Next
    BY <2>3, ExpandRefines, ExpandsUnsettled DEF Reading!Next
  <2>4. ASSUME NEW v \in todo, Improve(v) PROVE UNCHANGED Reading!vars
    <3>1. v \in Node /\ NewCost(v) \in Nat
      BY <2>4, VisitedLink
    <3>2. distance[v] # Absent
      BY <2>4, ImprovesUnsettled
    <3>3. Known' = Known
      BY <2>4, <3>1, <3>2, SPFAssumption DEF Improve, Known, IInv, Types
    <3>4. QED
      BY <2>4, <3>3 DEF Improve, Reading!vars
  <2>5. ASSUME NEW v \in todo, Keep(v) PROVE UNCHANGED Reading!vars
    BY <2>5 DEF Keep, Reading!vars, Known
  <2>6. CASE BuildTable
    BY <2>6, BuildTableRefines DEF Reading!Next
  <2>7. CASE TopologyWrite
    <3>1. topo' \in Topologies
      BY DEF IInv, Types
    <3>2. Known' = Known
      BY <2>7 DEF TopologyWrite, calc, Known
    <3>3. QED
      BY <2>7, <3>1, <3>2 DEF TopologyWrite, calc, Reading!Next, Reading!Environment,
                              Reading!Topologies, Reading!Row, Topologies, Row
  <2>8. CASE UNCHANGED vars
    BY <2>8 DEF vars, calc, Reading!vars, Known
  <2>9. QED
    BY <2>1, <2>2, <2>3, <2>4, <2>5, <2>6, <2>7, <2>8 DEF Next, ComputeRoutes
<1>3. QED
  BY <1>1, <1>2, Invariant, PTL DEF Spec, Reading!Spec, ReadsWhatItNeeds

-----------------------------------------------------------------------------
(* Whole paths. The predecessors form a tree: a found node hangs off a     *)
(* settled one, which was found before it. Distances alone do not show it, *)
(* for links may cost nothing.                                             *)

Rooted ==
  \E depth \in [Node -> Nat] :
    \A v \in Node \ {Source} : Finite(v) => depth[previous[v]] < depth[v]

PathsAreCopied == pc = "done" => \A d \in DOMAIN routes : routes[d].path = PathTo(d)

PathInv == IInv /\ Rooted /\ PathsAreCopied

\* A new leaf goes one level below the node it hangs off.
LEMMA ImproveRooted ==
  ASSUME NonNegative, IInv, Rooted, NEW v \in todo, Improve(v) PROVE Rooted'
<1> USE SPFAssumption
<1>1. v \in Node /\ current.node \in Node /\ Settled(current.node) /\ ~Settled(v) /\ v # current.node
  BY VisitedLink, ImprovesUnsettled
<1>2. PICK depth \in [Node -> Nat] :
        \A w \in Node \ {Source} : Finite(w) => depth[previous[w]] < depth[w]
  BY DEF Rooted
<1> DEFINE deeper == [depth EXCEPT ![v] = depth[current.node] + 1]
<1>3. deeper \in [Node -> Nat]
  BY <1>1
<1>4. previous' = [previous EXCEPT ![v] = current.node] /\ distance' = [distance EXCEPT ![v] = NewCost(v)]
  BY DEF Improve
<1>5. ASSUME NEW w \in Node \ {Source}, Finite(w)' PROVE deeper[previous'[w]] < deeper[w]
  <2>1. CASE w = v
    <3>1. previous'[v] = current.node
      BY <1>1, <1>4 DEF IInv, Types
    <3>2. deeper[current.node] = depth[current.node] /\ deeper[v] = depth[current.node] + 1
          /\ depth[current.node] \in Nat
      BY <1>1, <1>2
    <3>3. QED
      BY <2>1, <3>1, <3>2
  <2>2. CASE w # v
    <3>1. Finite(w) /\ previous'[w] = previous[w]
      BY <2>2, <1>1, <1>4, <1>5 DEF IInv, Types, Finite
    <3>2. previous[w] \in Node /\ previous[w] # v
      BY <3>1, <1>1 DEF IInv, Tree
    <3>3. depth[previous[w]] < depth[w]
      BY <3>1, <1>2
    <3>4. QED
      BY <3>1, <3>2, <3>3, <2>2, <1>1, <1>2
  <2>3. QED
    BY <2>1, <2>2
<1> HIDE DEF deeper
<1>6. QED
  BY <1>3, <1>5 DEF Rooted

LEMMA NextPathInv == ASSUME NonNegative, PathInv, [Next]_vars PROVE PathInv'
<1> USE DEF PathInv
<1>1. IInv'
  BY NextIInv
<1>2. Rooted'
  <2>1. ASSUME UNCHANGED previous, \A w \in Node \ {Source} : Finite(w)' => Finite(w) PROVE Rooted'
    BY <2>1 DEF Rooted
  <2>2. CASE ReadNodes
    BY <2>2, <2>1, SPFAssumption DEF ReadNodes, Finite
  <2>3. ASSUME NEW item \in pq, SkipStale(item) \/ Expand(item) PROVE Rooted'
    BY <2>3, <2>1 DEF SkipStale, Expand, Finite
  <2>4. ASSUME NEW v \in todo, Improve(v) PROVE Rooted'
    BY <2>4, ImproveRooted
  <2>5. ASSUME NEW v \in todo, Keep(v) PROVE Rooted'
    BY <2>5, <2>1 DEF Keep, Finite
  <2>6. CASE BuildTable
    BY <2>6, <2>1 DEF BuildTable, Finite
  <2>7. CASE TopologyWrite
    BY <2>7, <2>1 DEF TopologyWrite, calc, Finite
  <2>8. CASE UNCHANGED vars
    BY <2>8, <2>1 DEF vars, calc, Finite
  <2>9. QED
    BY <2>2, <2>3, <2>4, <2>5, <2>6, <2>7, <2>8 DEF Next, ComputeRoutes
<1>3. PathsAreCopied'
  <2>1. ASSUME UNCHANGED <<pc, routes, previous>> PROVE PathsAreCopied'
    BY <2>1 DEF PathsAreCopied, PathTo
  <2>2. CASE ReadNodes
    BY <2>2 DEF ReadNodes, PathsAreCopied
  <2>3. ASSUME NEW item \in pq, SkipStale(item) \/ Expand(item) PROVE PathsAreCopied'
    BY <2>3, <2>1 DEF SkipStale, Expand
  <2>4. ASSUME NEW v \in todo, Improve(v) PROVE PathsAreCopied'
    BY <2>4 DEF Improve, PathsAreCopied, IInv, TableIsCopied
  <2>5. ASSUME NEW v \in todo, Keep(v) PROVE PathsAreCopied'
    BY <2>5, <2>1 DEF Keep
  <2>6. CASE BuildTable
    <3>1. previous' = previous
      BY <2>6 DEF BuildTable
    <3>2. \A d \in DOMAIN routes' : routes'[d].path = PathTo(d)
      BY <2>6 DEF BuildTable
    <3>3. \A d : PathTo(d)' = PathTo(d)
      BY <3>1 DEF PathTo
    <3>4. QED
      BY <3>2, <3>3 DEF PathsAreCopied
  <2>7. CASE TopologyWrite
    BY <2>7, <2>1 DEF TopologyWrite, calc
  <2>8. CASE UNCHANGED vars
    BY <2>8, <2>1 DEF vars, calc
  <2>9. QED
    BY <2>2, <2>3, <2>4, <2>5, <2>6, <2>7, <2>8 DEF Next, ComputeRoutes
<1>4. QED
  BY <1>1, <1>2, <1>3

LEMMA PathInvariant == ASSUME NonNegative PROVE Spec => []PathInv
<1>1. Init => PathInv
  <2> SUFFICES ASSUME Init PROVE PathInv
    OBVIOUS
  <2>1. [v \in Node |-> 0] \in [Node -> Nat] /\ \A v \in Node : ~Finite(v)
    BY SPFAssumption DEF Init, Finite
  <2>2. Rooted
    BY <2>1 DEF Rooted
  <2>3. QED
    BY <2>2, InitIInv DEF PathInv, PathsAreCopied, Init
<1>2. PathInv /\ [Next]_vars => PathInv'
  BY NextPathInv
<1>3. QED
  BY <1>1, <1>2, PTL DEF Spec

\* w leads from some node, over its successors, to d, at most k links long and
\* as long as that unless it begins at the source.
WalksTo(w, k, d) ==
  /\ w \in Seq(Node) /\ w # <<>> /\ w[Len(w)] = d
  /\ Len(w) = k + 1 \/ (w[1] = Source /\ Len(w) <= k + 1)
  /\ \A i \in 1..Len(w) : Finite(w[i])
  /\ \A i \in 1..(Len(w) - 1) : w[i + 1] # Source /\ w[i] = previous[w[i + 1]]

\* One step of the loop that collects the path.
LEMMA WalkStep ==
  ASSUME IInv, NEW d, NEW k \in Nat, NEW w, WalksTo(w, k, d)
  PROVE  WalksTo(IF Head(w) = Source \/ previous[Head(w)] = NoNode THEN w
                 ELSE <<previous[Head(w)]>> \o w, k + 1, d)
<1> USE SPFAssumption
<1>1. /\ w \in Seq(Node) /\ w # <<>> /\ Len(w) \in Nat /\ Len(w) >= 1 /\ Head(w) = w[1]
      /\ w[1] \in Node /\ Finite(w[1])
  BY DEF WalksTo
<1>2. CASE Head(w) = Source
  BY <1>1, <1>2 DEF WalksTo
<1>3. CASE Head(w) # Source
  <2> DEFINE u == previous[w[1]]
             x == <<u>> \o w
  <2>1. u \in Node /\ u # NoNode /\ Settled(u)
    BY <1>1, <1>3 DEF IInv, Tree
  <2>2. Finite(u)
    BY <2>1 DEF IInv, SettledIsBehind
  <2> HIDE DEF u
  <2>3. /\ x \in Seq(Node) /\ Len(x) = Len(w) + 1 /\ x[1] = u
        /\ \A i \in 1..Len(w) : x[i + 1] = w[i]
    BY <2>1, <1>1
  <2> HIDE DEF x
  <2>4. ASSUME NEW i \in 1..Len(x) PROVE Finite(x[i])
    <3>1. CASE i = 1
      BY <3>1, <2>2, <2>3
    <3>2. CASE i # 1
      <4>1. i - 1 \in 1..Len(w) /\ x[(i - 1) + 1] = w[i - 1] /\ (i - 1) + 1 = i
        BY <3>2, <2>3, <1>1
      <4>2. Finite(w[i - 1])
        BY <4>1 DEF WalksTo
      <4>3. QED
        BY <4>1, <4>2
    <3>3. QED
      BY <3>1, <3>2
  <2>5. ASSUME NEW i \in 1..(Len(x) - 1) PROVE x[i + 1] # Source /\ x[i] = previous[x[i + 1]]
    <3>1. i \in 1..Len(w) /\ x[i + 1] = w[i]
      BY <2>3, <1>1
    <3>2. CASE i = 1
      BY <3>1, <3>2, <2>3, <1>1, <1>3 DEF u
    <3>3. CASE i # 1
      <4>1. i - 1 \in 1..(Len(w) - 1) /\ (i - 1) + 1 = i /\ x[(i - 1) + 1] = w[i - 1]
        BY <3>1, <3>3, <2>3, <1>1
      <4>2. w[(i - 1) + 1] # Source /\ w[i - 1] = previous[w[(i - 1) + 1]]
        BY <4>1 DEF WalksTo
      <4>3. QED
        BY <3>1, <4>1, <4>2
    <3>4. QED
      BY <3>2, <3>3
  <2>6. x[Len(x)] = d /\ x # <<>>
    <3>1. x[Len(w) + 1] = w[Len(w)]
      BY <2>3, <1>1
    <3>2. QED
      BY <3>1, <2>3, <1>1 DEF WalksTo
  <2>7. Len(w) = k + 1
    BY <1>1, <1>3 DEF WalksTo
  <2>8. WalksTo(x, k + 1, d)
    BY <2>3, <2>4, <2>5, <2>6, <2>7 DEF WalksTo
  <2>9. previous[Head(w)] = u /\ u # NoNode
    BY <1>1, <2>1 DEF u
  <2>10. QED
    BY <2>8, <2>9, <1>3 DEF x
<1>4. QED
  BY <1>2, <1>3

\* What the loop has collected after as many steps as there are nodes.
LEMMA PathWalks ==
  ASSUME IInv, IsFiniteSet(Node), NEW d \in Node, Finite(d)
  PROVE  WalksTo(PathTo(d), Cardinality(Node), d)
<1> DEFINE Next1(w) == IF Head(w) = Source \/ previous[Head(w)] = NoNode THEN w
                       ELSE <<previous[Head(w)]>> \o w
           Walk(h) == h = [k \in Nat |-> IF k = 0 THEN <<d>> ELSE Next1(h[k - 1])]
           walk == CHOOSE h : Walk(h)
<1>1. PathTo(d) = walk[Cardinality(Node)]
  BY DEF PathTo
<1>2. \E h : Walk(h)
  <2> DEFINE T == Seq(Node) \ {<<>>}
             step == [x \in Nat \X T |-> Next1(x[2])]
  <2>1. step \in StepsIn(T)
    <3> SUFFICES ASSUME NEW w \in T PROVE Next1(w) \in T
      BY DEF StepsIn
    <3>1. Head(w) \in Node
      OBVIOUS
    <3>2. previous[Head(w)] \in Node \cup {NoNode}
      BY <3>1 DEF IInv, Types
    <3>3. ASSUME NEW u \in Node PROVE <<u>> \o w \in T
      OBVIOUS
    <3>4. QED
      BY <3>2, <3>3
  <2>2. <<d>> \in T
    OBVIOUS
  <2>3. PICK g : Unrolls(g, T, <<d>>, step)
    <3> HIDE DEF T, step
    <3>1. QED
      BY <2>1, <2>2, Recursion
  <2>4. \A k \in Nat, w \in T : step[<<k, w>>] = Next1(w)
    OBVIOUS
  <2>5. g \in [Nat -> T] /\ g[0] = <<d>> /\ \A k \in Nat : g[k + 1] = step[<<k, g[k]>>]
    BY <2>3 DEF Unrolls
  <2> HIDE DEF T, step, Next1
  <2>6. \A k \in Nat : g[k] = IF k = 0 THEN <<d>> ELSE Next1(g[k - 1])
    <3> SUFFICES ASSUME NEW k \in Nat, k # 0 PROVE g[k] = Next1(g[k - 1])
      BY <2>5
    <3>1. k - 1 \in Nat /\ (k - 1) + 1 = k
      OBVIOUS
    <3>2. g[k] = step[<<k - 1, g[k - 1]>>] /\ g[k - 1] \in T
      BY <3>1, <2>5
    <3>3. QED
      BY <3>1, <3>2, <2>4
  <2>7. g = [k \in Nat |-> g[k]]
    BY <2>5
  <2>8. Walk(g)
    BY <2>6, <2>7
  <2>9. QED
    BY <2>8
<1>3. Walk(walk)
  BY <1>2
<1> HIDE DEF walk
<1>4. walk[0] = <<d>> /\ \A k \in Nat : walk[k + 1] = Next1(walk[k])
  <2> HIDE DEF Next1
  <2>1. walk[0] = <<d>>
    BY <1>3
  <2>2. ASSUME NEW k \in Nat PROVE walk[k + 1] = Next1(walk[k])
    <3>1. k + 1 \in Nat /\ k + 1 # 0 /\ (k + 1) - 1 = k
      OBVIOUS
    <3>2. QED
      BY <1>3, <3>1
  <2>3. QED
    BY <2>1, <2>2
<1> DEFINE S == {k \in Nat : WalksTo(walk[k], k, d)}
<1>5. 0 \in S
  <2>1. <<d>> \in Seq(Node) /\ Len(<<d>>) = 1 /\ <<d>>[1] = d /\ <<d>> # <<>>
    OBVIOUS
  <2>2. WalksTo(<<d>>, 0, d)
    BY <2>1 DEF WalksTo
  <2>3. QED
    BY <2>2, <1>4
<1>6. ASSUME NEW k \in Nat, k \in S PROVE k + 1 \in S
  <2>1. WalksTo(walk[k], k, d)
    BY <1>6
  <2>2. WalksTo(Next1(walk[k]), k + 1, d)
    BY <2>1, WalkStep
  <2>3. QED
    BY <2>2, <1>4
<1> HIDE DEF S
<1>7. Nat \subseteq S
  BY <1>5, <1>6, Induction
<1>8. Cardinality(Node) \in Nat
  BY FS_CardinalityType
<1>9. QED
  BY <1>1, <1>7, <1>8 DEF S

\* So the path of a route begins at the source: one that did not would be
\* longer than there are nodes to put into it.
LEMMA PathFromSource ==
  ASSUME IInv, Rooted, IsFiniteSet(Node), NEW d \in Node \ {Source}, Finite(d)
  PROVE  /\ WalksTo(PathTo(d), Cardinality(Node), d)
         /\ PathTo(d)[1] = Source /\ Len(PathTo(d)) >= 2
         /\ IsInjective(PathTo(d))
<1> DEFINE w == PathTo(d)
<1>1. WalksTo(w, Cardinality(Node), d) /\ Cardinality(Node) \in Nat
  BY PathWalks, FS_CardinalityType
<1> HIDE DEF w
<1>2. w \in [1..Len(w) -> Node] /\ Len(w) \in Nat /\ Len(w) >= 1
  BY <1>1 DEF WalksTo
<1>3. PICK depth \in [Node -> Nat] :
        \A v \in Node \ {Source} : Finite(v) => depth[previous[v]] < depth[v]
  BY DEF Rooted
<1>4. ASSUME NEW i \in 1..(Len(w) - 1) PROVE depth[w[i]] < depth[w[i + 1]]
  <2>1. i + 1 \in 1..Len(w) /\ w[i + 1] \in Node
    BY <1>2
  <2>2. Finite(w[i + 1]) /\ w[i + 1] # Source /\ w[i] = previous[w[i + 1]]
    BY <2>1, <1>1 DEF WalksTo
  <2>3. QED
    BY <2>1, <2>2, <1>3
<1>5. IsInjective(w)
  BY <1>2, <1>4, RankedIsInjective
<1>6. Len(w) <= Cardinality(Node)
  BY <1>2, <1>5, InjectiveLength
<1>7. w[1] = Source
  BY <1>1, <1>2, <1>6 DEF WalksTo
<1>8. Len(w) # 1
  BY <1>7, <1>1 DEF WalksTo
<1>9. QED
  BY <1>1, <1>2, <1>5, <1>7, <1>8 DEF w

\* In a finished table, the path of each route is a chain of links that were
\* seen, from the source, and each of its nodes' distances is that of the one
\* before plus the link between them.
LEMMA RoutePaths ==
  ASSUME NonNegative, PathInv, IsFiniteSet(Node), pc = "done", NEW d \in DOMAIN routes, NEW p, p = routes[d].path
  PROVE  /\ d \in Node \ {Source} /\ Finite(d)
         /\ p[1] = Source /\ p[Len(p)] = d /\ IsInjective(p)
         /\ Chain(p, Len(p), Known, SeenRows)
         /\ \A i \in 1..Len(p) : distance[p[i]] \in Nat
         /\ \A i \in 1..(Len(p) - 1) :
              /\ p[i] \in Node /\ p[i + 1] \in Node \ {Source} /\ Finite(p[i + 1]) /\ p[i] = previous[p[i + 1]]
              /\ SeenRows[p[i]][p[i + 1]] \in Nat
              /\ distance[p[i + 1]] = distance[p[i]] + SeenRows[p[i]][p[i + 1]]
<1> USE SPFAssumption
<1>1. d \in Node \ {Source} /\ Finite(d) /\ p = PathTo(d)
  BY DEF PathInv, PathsAreCopied, IInv, TableIsCopied
<1>2. /\ WalksTo(p, Cardinality(Node), d)
      /\ p[1] = Source /\ Len(p) >= 2 /\ IsInjective(p)
  BY <1>1, PathFromSource DEF PathInv
<1>3. /\ p \in Seq(Node) /\ p[Len(p)] = d
      /\ \A i \in 1..Len(p) : p[i] \in Node /\ Finite(p[i])
  BY <1>2 DEF WalksTo
<1>4. p \in [1..Len(p) -> Known] /\ Len(p) \in Nat
  BY <1>3 DEF Known, Finite
<1>5. ASSUME NEW i \in 1..(Len(p) - 1)
      PROVE  /\ p[i] \in Node /\ p[i + 1] \in Node \ {Source} /\ Finite(p[i + 1]) /\ p[i] = previous[p[i + 1]]
             /\ SeenRows[p[i]][p[i + 1]] \in Nat
             /\ distance[p[i + 1]] = distance[p[i]] + SeenRows[p[i]][p[i + 1]]
  <2>1. i \in 1..Len(p) /\ i + 1 \in 1..Len(p)
    BY <1>3
  <2>2. /\ p[i] \in Node /\ p[i + 1] \in Node \ {Source} /\ Finite(p[i + 1]) /\ p[i] = previous[p[i + 1]]
    BY <2>1, <1>2, <1>3 DEF WalksTo
  <2>3. /\ Settled(p[i]) /\ cache[p[i]][p[i + 1]] # NoLink
        /\ distance[p[i + 1]] = distance[p[i]] + cache[p[i]][p[i + 1]]
    BY <2>2 DEF PathInv, IInv, Tree
  <2>4. cache[p[i]][p[i + 1]] \in Nat
    BY <2>2, <2>3, SeenCost DEF PathInv, IInv
  <2>5. SeenRows[p[i]] = cache[p[i]]
    BY <2>2, <2>3 DEF SeenRows, SeenRow, Settled
  <2>6. QED
    BY <2>2, <2>3, <2>4, <2>5
<1>6. Chain(p, Len(p), Known, SeenRows)
  <2>1. \A i \in 1..(Len(p) - 1) : SeenRows[p[i]][p[i + 1]] # NoLink
    BY <1>5, TopologyAssumption
  <2>2. QED
    BY <2>1, <1>2, <1>4 DEF Chain
<1>7. \A i \in 1..Len(p) : distance[p[i]] \in Nat
  BY <1>3 DEF Finite
<1>8. QED
  BY <1>1, <1>2, <1>3, <1>5, <1>6, <1>7

\* The recorded path of a route is a loop-free chain of links, costs what the
\* route says and starts with its next hop, although nextHop and previous are
\* kept apart, links may be free and rows were read at different moments
\* (spf.go: buildPath in the table loop, the bookkeeping of the relaxation).
THEOREM TableFollowsLinks ==
  ASSUME NonNegative, IsFiniteSet(Node) PROVE Spec => []RoutesFollowLinks
<1>1. PathInv => RoutesFollowLinks
  <2> SUFFICES ASSUME PathInv, pc = "done", NEW d \in DOMAIN routes
               PROVE  /\ routes[d].path \in PathsTo(d)
                      /\ routes[d].cost = PathCost(SeenRows, routes[d].path)
                      /\ routes[d].nextHop = routes[d].path[2]
    BY DEF RoutesFollowLinks
  <2> DEFINE p == routes[d].path
             n == Len(p)
  <2>1. /\ d \in Node \ {Source} /\ Finite(d)
        /\ p[1] = Source /\ p[n] = d /\ IsInjective(p)
        /\ Chain(p, n, Known, SeenRows)
        /\ \A i \in 1..n : distance[p[i]] \in Nat
        /\ \A i \in 1..(n - 1) :
             /\ p[i] \in Node /\ p[i + 1] \in Node \ {Source} /\ Finite(p[i + 1]) /\ p[i] = previous[p[i + 1]]
             /\ SeenRows[p[i]][p[i + 1]] \in Nat
             /\ distance[p[i + 1]] = distance[p[i]] + SeenRows[p[i]][p[i + 1]]
    BY RoutePaths
  <2> HIDE DEF p, n
  <2>2. n \in Nat /\ n >= 2 /\ Len(p) = n
    BY <2>1 DEF Chain
  <2>3. p \in PathsTo(d)
    <3>1. IsFiniteSet(Known)
      BY FS_Subset DEF Known
    <3>2. p \in Paths(Known, SeenRows, p[1], p[n])
      BY <2>1, <3>1, IsPath
    <3>3. QED
      BY <3>2, <2>1 DEF PathsTo
  <2>4. PathCost(SeenRows, p) = distance[d]
    <3>1. distance[p[1]] = 0
      BY <2>1 DEF PathInv, IInv, Started
    <3>2. \A i \in 1..n : distance[p[i]] \in Int
      BY <2>1
    <3>3. \A i \in 1..(n - 1) : /\ SeenRows[p[i]][p[i + 1]] \in Int
                                /\ distance[p[i + 1]] = distance[p[i]] + SeenRows[p[i]][p[i + 1]]
      BY <2>1
    <3>4. n \in Nat \ {0}
      BY <2>2
    <3>5. AddsUp(distance, p, n, SeenRows)
      BY <3>1, <3>2, <3>3, <3>4, <2>2 DEF AddsUp
    <3>6. PathCost(SeenRows, p) = distance[p[n]]
      BY <3>5, CostAddsUp
    <3>7. QED
      BY <3>6, <2>1
  <2>5. nextHop[d] = p[2]
    <3> DEFINE S == {i \in 1..(n - 1) : nextHop[p[i + 1]] = p[2]}
    <3>1. \A i \in 1..(n - 1) :
            nextHop[p[i + 1]] = IF p[i] = Source THEN p[i + 1] ELSE nextHop[p[i]]
      BY <2>1 DEF PathInv, IInv, Tree
    <3>2. 1 \in S
      BY <3>1, <2>1, <2>2
    <3>3. ASSUME NEW i \in 1..((n - 1) - 1), i \in S PROVE i + 1 \in S
      <4>1. i + 1 \in 1..(n - 1) /\ i \in 1..(n - 1) /\ nextHop[p[i + 1]] = p[2]
        BY <3>3, <2>2
      <4>2. p[i + 1] # Source
        BY <4>1, <2>1
      <4>3. nextHop[p[(i + 1) + 1]] = nextHop[p[i + 1]]
        BY <4>1, <4>2, <3>1
      <4>4. QED
        BY <4>1, <4>3
    <3> HIDE DEF S
    <3>4. n - 1 \in Nat /\ n - 1 \in 1..(n - 1) /\ (n - 1) + 1 = n
      BY <2>2
    <3>5. n - 1 \in S
      BY <3>2, <3>3, <3>4, InductionUpTo
    <3>6. QED
      BY <3>4, <3>5, <2>1 DEF S
  <2>6. routes[d].cost = distance[d] /\ routes[d].nextHop = nextHop[d]
    BY DEF PathInv, IInv, TableIsCopied
  <2>7. QED
    BY <2>3, <2>4, <2>5, <2>6 DEF p
<1>2. QED
  BY <1>1, PathInvariant, PTL

\* No chain of links reaches a node that has no route, and none is cheaper
\* than a route: the search is correct for the graph it saw, whatever was
\* written to the topology while it was reading (spf.go: ComputeRoutes).
THEOREM TableIsShortest ==
  ASSUME NonNegative, IsFiniteSet(Node) PROVE Spec => []RoutesAreShortest
<1>1. PathInv /\ RoutesFollowLinks /\ RoutesAreCertified => RoutesAreShortest
  <2> SUFFICES ASSUME PathInv, RoutesFollowLinks, RoutesAreCertified, pc = "done", NEW d \in Node \ {Source}
               PROVE  /\ d \in DOMAIN routes <=> PathsTo(d) # {}
                      /\ \A p \in PathsTo(d) : routes[d].cost <= PathCost(SeenRows, p)
    BY DEF RoutesAreShortest
  <2> USE SPFAssumption
  <2> DEFINE reached == {v \in Node : Finite(v)}
  <2>1. d \in DOMAIN routes => PathsTo(d) # {}
    BY DEF RoutesFollowLinks
  <2>2. DOMAIN routes = reached \ {Source} /\ \A v \in DOMAIN routes : routes[v].cost = distance[v]
    BY DEF PathInv, IInv, TableIsCopied
  <2>3. Source \in reached /\ distance[Source] = 0 /\ \A v \in reached : distance[v] \in Int
    BY DEF PathInv, IInv, Started, Finite
  <2>4. ASSUME NEW u \in reached, NEW v \in Known, SeenRows[u][v] # NoLink
        PROVE  v \in reached /\ SeenRows[u][v] \in Int /\ distance[v] <= distance[u] + SeenRows[u][v]
    <3>1. u \in Node /\ v \in Node /\ Settled(u) /\ SeenRows[u] = cache[u] /\ distance[v] # Absent
      BY DEF PathInv, IInv, TableIsCopied, FoundIsQueued, SeenRows, SeenRow, Settled, Known
    <3>2. Finite(v) /\ distance[v] <= distance[u] + cache[u][v]
      BY <3>1, <2>4 DEF PathInv, IInv, Relaxed, TableIsCopied
    <3>3. cache[u][v] \in Nat
      BY <3>1, <2>4, SeenCost DEF PathInv, IInv
    <3>4. QED
      BY <3>1, <3>2, <3>3
  <2> HIDE DEF reached
  <2>5. ASSUME NEW p \in PathsTo(d) PROVE d \in reached /\ distance[d] <= PathCost(SeenRows, p)
    <3>1. p \in Paths(Known, SeenRows, Source, d)
      BY DEF PathsTo
    <3>2. QED
      BY <3>1, <2>3, <2>4, NoChainIsCheaper
  <2>6. QED
    BY <2>1, <2>2, <2>5
<1>2. QED
  BY <1>1, PathInvariant, TableFollowsLinks, TableIsCertified, PTL

\* The next hop of each route begins a chain of links than which none is
\* cheaper. Tables like this of several routers form no circle when they come
\* from one topology (OneTopologyFormsNoCircle; spf.go: nextHop).
THEOREM NextHopsAreShortest ==
  ASSUME NonNegative, IsFiniteSet(Node)
  PROVE  Spec => [](pc = "done" =>
           \A d \in DOMAIN routes : ShortestHop(Known, SeenRows, Source, d, routes[d].nextHop))
<1>1. TypeOK /\ RoutesFollowLinks /\ RoutesAreShortest =>
        (pc = "done" =>
           \A d \in DOMAIN routes : ShortestHop(Known, SeenRows, Source, d, routes[d].nextHop))
  <2> SUFFICES ASSUME TypeOK, RoutesFollowLinks, RoutesAreShortest, pc = "done", NEW d \in DOMAIN routes
               PROVE  ShortestHop(Known, SeenRows, Source, d, routes[d].nextHop)
    OBVIOUS
  <2>1. d \in Node \ {Source}
    BY DEF TypeOK
  <2>2. /\ routes[d].path \in Paths(Known, SeenRows, Source, d)
        /\ routes[d].cost = PathCost(SeenRows, routes[d].path)
        /\ routes[d].nextHop = routes[d].path[2]
    BY DEF RoutesFollowLinks, PathsTo
  <2>3. \A p \in Paths(Known, SeenRows, Source, d) : routes[d].cost <= PathCost(SeenRows, p)
    BY <2>1 DEF RoutesAreShortest, PathsTo
  <2>4. QED
    BY <2>2, <2>3 DEF ShortestHop
<1>2. QED
  BY <1>1, TypeCorrect, TableFollowsLinks, TableIsShortest, PTL

=============================================================================
