-------------------------- MODULE TopologySyncProofs --------------------------
(***************************************************************************)
(* What a cluster of any size never does to its links, whatever is lost,   *)
(* reordered, crashed or wrongly suspected.                                *)
(*                                                                         *)
(* The invariants speak of the topologies; to be inductive they must also  *)
(* hold of what is under way: a delayed event or broadcast carries only    *)
(* costs that were given, and a broadcast graph is undirected.  Agreement  *)
(* lasts because what is under way is by then what everybody knows.        *)
(***************************************************************************)
EXTENDS TopologySync, TopologyProofs

\* Some operation or configuration gave link a-b this cost.
Vouched(a, b, c, reg) == \E r \in reg : r.ends = {a, b} /\ r.cost = c

GoodEdges(edges, reg) ==
  /\ edges \in [Node -> Row]
  /\ \A a, b \in Node : edges[a][b] = edges[b][a]
  /\ \A a, b \in Node : edges[a][b] # NoLink => Vouched(a, b, edges[a][b], reg)

Good(t, reg) == t \in Topologies /\ GoodEdges(t.edges, reg)

ConfigIsKnown == \A n \in Node : \A l \in Config[n] : Given(l.from, l.to, l.cost, 0) \in registered

TopologiesAreGood == \A n \in Node : Good(topo[n], registered)

UpdatesAreGood ==
  \A n \in Node : \A e \in updates[n] :
    e.cost # NoLink => Vouched(e.from, e.to, e.cost, registered)

SyncsAreGood ==
  \A n \in Node : \A s \in syncs[n] : GoodEdges(s.edges, registered)

Types ==
  /\ up \in [Node -> BOOLEAN]
  /\ topo \in [Node -> Topologies]
  /\ member \in [Node -> SUBSET Node]
  /\ syncEnabled \in [Node -> BOOLEAN]
  /\ updates \in [Node -> SUBSET Update]
  /\ syncs \in [Node -> SUBSET Sync]
  /\ \A r \in registered : r.ends \subseteq Node /\ r.cost \in Cost /\ r.stamp \in 0..MaxOps
  /\ ops \in 0..MaxOps /\ faults \in 0..MaxFaults

IInv ==
  Types /\ ConfigIsKnown /\ TopologiesAreGood /\ UpdatesAreGood /\ SyncsAreGood

-----------------------------------------------------------------------------
(* What each operation does to a good topology.                            *)

LEMMA GoodNew == ASSUME NEW reg PROVE Good(NewTopology, reg)
  BY DEF Good, GoodEdges, NewTopology, Topologies, Row, EmptyRow

LEMMA GoodAddNode ==
  ASSUME NEW reg, NEW t, Good(t, reg), NEW n \in Node PROVE Good(AddNode(t, n), reg)
  BY AddNodeType DEF Good

LEMMA GoodRemoveNode ==
  ASSUME NEW reg, NEW t, Good(t, reg), NEW n \in Node PROVE Good(RemoveNode(t, n), reg)
<1>1. t \in Topologies /\ RemoveNode(t, n) \in Topologies
  BY RemoveNodeType DEF Good
<1>2. \A a, b \in Node : RemoveNode(t, n).edges[a][b] =
        IF a = n \/ (b = n /\ t.edges[n][a] # NoLink) THEN NoLink ELSE t.edges[a][b]
  BY <1>1, RemoveNodeEdges DEF HasLink
<1>3. QED
  BY <1>1, <1>2 DEF Good, GoodEdges, Topologies

LEMMA GoodUpdateLink ==
  ASSUME NEW reg, NEW t, Good(t, reg), NEW a \in Node, NEW b \in Node, NEW c \in Cost,
         Vouched(a, b, c, reg)
  PROVE  Good(UpdateLink(t, a, b, c), reg)
<1>1. t \in Topologies /\ UpdateLink(t, a, b, c) \in Topologies
  BY UpdateLinkType DEF Good
<1>2. \A x, y \in Node : UpdateLink(t, a, b, c).edges[x][y] =
        IF (x = a /\ y = b) \/ (x = b /\ y = a) THEN c ELSE t.edges[x][y]
  BY <1>1, UpdateLinkEdges
<1>3. Vouched(b, a, c, reg)
  <2>1. {a, b} = {b, a}
    OBVIOUS
  <2>2. QED
    BY <2>1 DEF Vouched
<1>4. QED
  BY <1>1, <1>2, <1>3 DEF Good, GoodEdges, Topologies

LEMMA GoodRemoveLink ==
  ASSUME NEW reg, NEW t, Good(t, reg), NEW a \in Node, NEW b \in Node
  PROVE  Good(RemoveLink(t, a, b), reg)
<1>1. t \in Topologies /\ RemoveLink(t, a, b) \in Topologies
  BY RemoveLinkType DEF Good
<1>2. \A x, y \in Node : RemoveLink(t, a, b).edges[x][y] =
        IF (x = a /\ y = b) \/ (x = b /\ y = a) THEN NoLink ELSE t.edges[x][y]
  BY <1>1, RemoveLinkEdges
<1>3. QED
  BY <1>1, <1>2 DEF Good, GoodEdges, Topologies

LEMMA GoodMerge ==
  ASSUME NEW reg, NEW t, Good(t, reg), NEW edges, GoodEdges(edges, reg)
  PROVE  Good(Merge(t, edges), reg)
<1>1. \A a, b \in Node : Merge(t, edges).edges[a][b] = Cheaper(t.edges[a][b], edges[a][b])
  BY DEF Merge
<1>2. \A a, b \in Node : Cheaper(t.edges[a][b], edges[a][b]) \in {t.edges[a][b], edges[a][b]}
  BY DEF Cheaper
<1>3. Merge(t, edges) \in Topologies
  <2>1. \A a, b \in Node : Cheaper(t.edges[a][b], edges[a][b]) \in Cost \cup {NoLink}
    BY <1>2 DEF Good, GoodEdges, Topologies, Row
  <2>2. QED
    BY <2>1 DEF Merge, Good, Topologies, Row
<1>4. QED
  BY <1>1, <1>2, <1>3 DEF Good, GoodEdges, Topologies

LEMMA GoodStart ==
  ASSUME ConfigIsKnown, NEW n \in Node
  PROVE  Good(StartTopology(n), registered)
<1> DEFINE conf(a, b) == {l \in Config[n] : {l.from, l.to} = {a, b}}
           edge(a, b) == ConfiguredCost(conf(a, b))
<1>1. ASSUME NEW a \in Node, NEW b \in Node
      PROVE  /\ edge(a, b) \in Cost \cup {NoLink}
             /\ edge(a, b) # NoLink => Vouched(a, b, edge(a, b), registered)
  <2> DEFINE l == CHOOSE x \in conf(a, b) : TRUE
  <2>1. CASE conf(a, b) = {}
    BY <2>1 DEF ConfiguredCost
  <2>2. CASE conf(a, b) # {}
    <3>1. l \in conf(a, b)
      BY <2>2
    <3>2. l \in Config[n] /\ {l.from, l.to} = {a, b} /\ l \in Link
      BY <3>1, TopologySyncAssumption
    <3>3. Given(l.from, l.to, l.cost, 0) \in registered
      BY <3>2 DEF ConfigIsKnown
    <3>4. Vouched(a, b, l.cost, registered)
      BY <3>2, <3>3 DEF Vouched, Given
    <3>5. QED
      BY <2>2, <3>2, <3>4 DEF Link, ConfiguredCost
  <2>3. QED
    BY <2>1, <2>2
<1>2. ASSUME NEW a \in Node, NEW b \in Node PROVE edge(a, b) = edge(b, a)
  <2>1. {a, b} = {b, a}
    OBVIOUS
  <2>2. conf(a, b) = conf(b, a)
    BY <2>1
  <2>3. QED
    BY <2>2
<1>3. StartTopology(n) = [nodes |-> {n}, edges |-> [a \in Node |-> [b \in Node |-> edge(a, b)]]]
  BY DEF StartTopology
<1> HIDE DEF edge
<1>4. QED
  BY <1>1, <1>2, <1>3 DEF Good, GoodEdges, Topologies, Row

-----------------------------------------------------------------------------
(* Costs once given stay given.                                            *)

LEMMA GoodStaysGood ==
  ASSUME NEW reg, NEW more, reg \subseteq more
  PROVE  /\ \A a, b, c : Vouched(a, b, c, reg) => Vouched(a, b, c, more)
         /\ \A edges : GoodEdges(edges, reg) => GoodEdges(edges, more)
         /\ \A t : Good(t, reg) => Good(t, more)
<1>1. \A a, b, c : Vouched(a, b, c, reg) => Vouched(a, b, c, more)
  BY DEF Vouched
<1>2. \A edges : GoodEdges(edges, reg) => GoodEdges(edges, more)
  BY <1>1 DEF GoodEdges
<1>3. QED
  BY <1>1, <1>2 DEF Good

\* What a router is sent is good if the new event is.
LEMMA SendOnly ==
  ASSUME NEW Event, NEW flight \in [Node -> SUBSET Event], NEW event \in Event, NEW to
  PROVE  /\ Send(flight, event, to) \in [Node -> SUBSET Event]
         /\ \A n \in Node : \A e \in Send(flight, event, to)[n] : e \in flight[n] \/ e = event
  BY DEF Send

LEMMA InitIInv == Init => IInv
<1> SUFFICES ASSUME Init PROVE IInv
  OBVIOUS
<1>1. ConfigIsKnown
  BY DEF Init, ConfigIsKnown
<1>2. \A r \in registered : r.ends \subseteq Node /\ r.cost \in Cost /\ r.stamp \in 0..MaxOps
  <2>1. \A n \in Node : \A l \in Config[n] : l.from \in Node /\ l.to \in Node /\ l.cost \in Cost
    BY TopologySyncAssumption DEF Link
  <2>2. QED
    BY <2>1, TopologySyncAssumption DEF Init, Given
<1>3. \A n \in Node : Good(topo[n], registered)
  <2> SUFFICES ASSUME NEW n \in Node PROVE Good(topo[n], registered)
    OBVIOUS
  <2>1. Good(StartTopology(n), registered)
    BY <1>1, GoodStart
  <2>2. topo[n] = [StartTopology(n) EXCEPT !.nodes = Node]
    BY DEF Init
  <2>3. QED
    BY <2>1, <2>2 DEF Good, Topologies
<1>4. topo \in [Node -> Topologies]
  BY <1>3 DEF Init, Good
<1>5. /\ up = [n \in Node |-> TRUE] /\ member = [n \in Node |-> Node]
      /\ syncEnabled = [n \in Node |-> TRUE]
      /\ updates = [n \in Node |-> {}] /\ syncs = [n \in Node |-> {}]
      /\ ops = 0 /\ faults = 0
  BY DEF Init
<1>6. Types
  <2>1. 0 \in 0..MaxOps /\ 0 \in 0..MaxFaults
    BY TopologySyncAssumption
  <2>2. QED
    BY <1>2, <1>4, <1>5, <2>1 DEF Types
<1>7. QED
  BY <1>1, <1>3, <1>5, <1>6 DEF IInv, TopologiesAreGood, UpdatesAreGood, SyncsAreGood

-----------------------------------------------------------------------------
(* The steps. Those that only replace one router's topology, drop events    *)
(* or forget a router share one argument.                                  *)

\* Any step that keeps the history, puts good topologies in place of the old
\* ones and adds no event.
LEMMA QuietStep ==
  ASSUME IInv,
         UNCHANGED registered, UNCHANGED ops,
         faults' \in 0..MaxFaults,
         up' \in [Node -> BOOLEAN], member' \in [Node -> SUBSET Node],
         syncEnabled' \in [Node -> BOOLEAN],
         DOMAIN topo' = Node, topo' = [n \in Node |-> topo'[n]],
         \A n \in Node : Good(topo'[n], registered),
         updates' \in [Node -> SUBSET Update], syncs' \in [Node -> SUBSET Sync],
         \A n \in Node : updates'[n] \subseteq updates[n] /\ syncs'[n] \subseteq syncs[n]
  PROVE  IInv'
<1>1. topo' \in [Node -> Topologies]
  BY DEF Good
<1>2. Types'
  BY <1>1 DEF IInv, Types
<1>3. ConfigIsKnown'
  BY DEF IInv, ConfigIsKnown
<1>4. TopologiesAreGood'
  BY DEF TopologiesAreGood
<1>5. UpdatesAreGood'
  BY DEF IInv, UpdatesAreGood
<1>6. SyncsAreGood'
  BY DEF IInv, SyncsAreGood
<1>7. QED
  BY <1>2, <1>3, <1>4, <1>5, <1>6 DEF IInv

\* One router's topology gives way to another good one.
LEMMA OneTopology ==
  ASSUME IInv, NEW n \in Node, NEW t, Good(t, registered), topo' = [topo EXCEPT ![n] = t]
  PROVE  /\ DOMAIN topo' = Node /\ topo' = [m \in Node |-> topo'[m]]
         /\ \A m \in Node : Good(topo'[m], registered)
  BY DEF IInv, Types, TopologiesAreGood

LEMMA AddLinkStep ==
  ASSUME IInv, NEW n \in Node, NEW m \in Node, NEW c \in Cost, AddLink(n, m, c)
  PROVE  IInv'
<1> DEFINE e == [sender |-> n, stamp |-> ops', from |-> n, to |-> m, cost |-> c]
           t == UpdateLink(AddNode(topo[n], m), n, m, c)
<1>1. /\ topo' = [topo EXCEPT ![n] = t]
      /\ updates' = Send(updates, e, Node)
      /\ registered' = registered \cup {Given(n, m, c, ops')}
      /\ UNCHANGED <<up, member, syncEnabled, syncs, faults>>
      /\ ops' \in 0..MaxOps
  BY TopologySyncAssumption DEF AddLink, Operation, IInv, Types
<1>2. /\ Vouched(n, m, c, registered')
      /\ \A a, b, x : Vouched(a, b, x, registered) => Vouched(a, b, x, registered')
      /\ \A edges : GoodEdges(edges, registered) => GoodEdges(edges, registered')
      /\ \A x : Good(x, registered) => Good(x, registered')
  <2>1. registered \subseteq registered'
    BY <1>1
  <2>2. Vouched(n, m, c, registered')
    <3>1. Given(n, m, c, ops') \in registered'
      BY <1>1
    <3>2. Given(n, m, c, ops').ends = {n, m} /\ Given(n, m, c, ops').cost = c
      BY DEF Given
    <3>3. QED
      BY <3>1, <3>2 DEF Vouched
  <2>3. QED
    BY <2>1, <2>2, GoodStaysGood
<1>3. Good(t, registered')
  <2>1. Good(topo[n], registered')
    BY <1>2 DEF IInv, TopologiesAreGood
  <2>2. Good(AddNode(topo[n], m), registered')
    BY <2>1, GoodAddNode
  <2>3. QED
    BY <2>2, <1>2, GoodUpdateLink
<1>4. TopologiesAreGood'
  BY <1>1, <1>2, <1>3 DEF IInv, Types, TopologiesAreGood
<1>5. e \in Update
  BY <1>1 DEF Update
<1>6. /\ updates' \in [Node -> SUBSET Update]
      /\ \A k \in Node : \A x \in updates'[k] : x \in updates[k] \/ x = e
  BY <1>1, <1>5, SendOnly DEF IInv, Types
<1>7. UpdatesAreGood'
  BY <1>2, <1>6 DEF IInv, UpdatesAreGood
<1>8. SyncsAreGood'
  BY <1>1, <1>2 DEF IInv, SyncsAreGood
<1>9. ConfigIsKnown'
  BY <1>1 DEF IInv, ConfigIsKnown
<1>10. Types'
  <2>1. topo' \in [Node -> Topologies]
    BY <1>1, <1>3 DEF IInv, Types, Good
  <2>2. \A r \in registered' : r.ends \subseteq Node /\ r.cost \in Cost /\ r.stamp \in 0..MaxOps
    BY <1>1 DEF IInv, Types, Given
  <2>3. QED
    BY <1>1, <1>6, <2>1, <2>2 DEF IInv, Types
<1>11. QED
  BY <1>4, <1>7, <1>8, <1>9, <1>10 DEF IInv

LEMMA UnregisterLinkStep ==
  ASSUME IInv, NEW n \in Node, NEW a \in Node, NEW b \in Node, UnregisterLink(n, a, b)
  PROVE  IInv'
<1> DEFINE e == [sender |-> n, stamp |-> ops', from |-> a, to |-> b, cost |-> NoLink]
           t == RemoveLink(topo[n], a, b)
<1>1. /\ topo' = [topo EXCEPT ![n] = t]
      /\ updates' = Send(updates, e, Node)
      /\ UNCHANGED <<registered, up, member, syncEnabled, syncs, faults>>
      /\ ops' \in 0..MaxOps
  BY TopologySyncAssumption DEF UnregisterLink, Operation, IInv, Types
<1>2. Good(t, registered)
  BY GoodRemoveLink DEF IInv, TopologiesAreGood
<1>3. TopologiesAreGood'
  BY <1>1, <1>2 DEF IInv, Types, TopologiesAreGood
<1>4. e \in Update /\ e.cost = NoLink
  BY <1>1 DEF Update
<1> HIDE DEF e
<1>5. /\ updates' \in [Node -> SUBSET Update]
      /\ \A k \in Node : \A x \in updates'[k] : x \in updates[k] \/ x = e
  BY <1>1, <1>4, SendOnly DEF IInv, Types
<1>6. UpdatesAreGood'
  BY <1>1, <1>4, <1>5 DEF IInv, UpdatesAreGood
<1>7. SyncsAreGood' /\ ConfigIsKnown'
  BY <1>1 DEF IInv, SyncsAreGood, ConfigIsKnown
<1>8. topo' \in [Node -> Topologies]
  BY <1>1, <1>2 DEF IInv, Types, Good
<1>9. Types'
  BY <1>1, <1>5, <1>8 DEF IInv, Types
<1>10. QED
  BY <1>3, <1>6, <1>7, <1>9 DEF IInv

LEMMA EnableSyncStep ==
  ASSUME IInv, NEW n \in Node, NEW enabled \in BOOLEAN, EnableSync(n, enabled)
  PROVE  IInv'
<1>1. /\ syncEnabled' = [syncEnabled EXCEPT ![n] = enabled]
      /\ UNCHANGED <<up, topo, member, updates, syncs, registered, faults>>
      /\ ops' \in 0..MaxOps
  BY TopologySyncAssumption DEF EnableSync, Operation, IInv, Types
<1>2. Types'
  BY <1>1 DEF IInv, Types
<1>3. QED
  BY <1>1, <1>2 DEF IInv, ConfigIsKnown, TopologiesAreGood, UpdatesAreGood, SyncsAreGood

LEMMA HandleLinkUpdateStep ==
  ASSUME IInv, NEW n \in Node, NEW e \in updates[n], HandleLinkUpdate(n, e)
  PROVE  IInv'
<1> DEFINE t == IF e.cost = NoLink THEN RemoveLink(topo[n], e.from, e.to)
                ELSE UpdateLink(topo[n], e.from, e.to, e.cost)
<1>1. /\ topo' = [topo EXCEPT ![n] = t]
      /\ updates' = [updates EXCEPT ![n] = @ \ {e}]
      /\ UNCHANGED <<up, member, syncEnabled, syncs, registered, ops, faults>>
  BY DEF HandleLinkUpdate
<1>2. e.from \in Node /\ e.to \in Node /\ e.cost \in Cost \cup {NoLink}
  BY DEF IInv, Types, Update
<1>3. Good(topo[n], registered)
  BY DEF IInv, TopologiesAreGood
<1>4. Good(t, registered)
  <2>1. CASE e.cost = NoLink
    BY <1>2, <1>3, <2>1, GoodRemoveLink
  <2>2. CASE e.cost # NoLink
    <3>1. Vouched(e.from, e.to, e.cost, registered)
      BY <2>2 DEF IInv, UpdatesAreGood
    <3>2. QED
      BY <1>2, <1>3, <2>2, <3>1, GoodUpdateLink
  <2>3. QED
    BY <2>1, <2>2
<1> HIDE DEF t
<1>5. QED
  <2>1. /\ DOMAIN topo' = Node /\ topo' = [k \in Node |-> topo'[k]]
        /\ \A k \in Node : Good(topo'[k], registered)
    BY <1>1, <1>4, OneTopology
  <2>2. updates' \in [Node -> SUBSET Update] /\ \A k \in Node : updates'[k] \subseteq updates[k]
    BY <1>1 DEF IInv, Types
  <2>3. Types
    BY DEF IInv
  <2>4. QED
    BY <1>1, <2>1, <2>2, <2>3, QuietStep DEF Types

LEMMA BroadcastStep ==
  ASSUME IInv, NEW n \in Node, BroadcastFullTopology(n)
  PROVE  IInv'
<1> DEFINE s == [sender |-> n, stamp |-> ops, edges |-> topo[n].edges]
<1>1. /\ syncs' = Send(syncs, s, Node \ {n})
      /\ UNCHANGED <<up, topo, member, syncEnabled, updates, registered, ops, faults>>
  BY DEF BroadcastFullTopology
<1>2. s \in Sync /\ GoodEdges(s.edges, registered)
  BY TopologySyncAssumption DEF IInv, Types, TopologiesAreGood, Good, Topologies, Sync
<1> HIDE DEF s
<1>3. /\ syncs' \in [Node -> SUBSET Sync]
      /\ \A k \in Node : \A x \in syncs'[k] : x \in syncs[k] \/ x = s
  <2>1. syncs \in [Node -> SUBSET Sync] /\ s \in Sync
    BY <1>2 DEF IInv, Types
  <2>2. /\ Send(syncs, s, Node \ {n}) \in [Node -> SUBSET Sync]
        /\ \A k \in Node : \A x \in Send(syncs, s, Node \ {n})[k] : x \in syncs[k] \/ x = s
    BY <2>1, SendOnly
  <2>3. QED
    BY <1>1, <2>2
<1>4. SyncsAreGood'
  BY <1>1, <1>2, <1>3 DEF IInv, SyncsAreGood
<1>5. Types'
  BY <1>1, <1>3 DEF IInv, Types
<1>6. QED
  BY <1>1, <1>4, <1>5 DEF IInv, ConfigIsKnown, TopologiesAreGood, UpdatesAreGood

LEMMA HandleTopologySyncStep ==
  ASSUME IInv, NEW n \in Node, NEW s \in syncs[n], HandleTopologySync(n, s)
  PROVE  IInv'
<1>1. /\ topo' = [topo EXCEPT ![n] = Merge(topo[n], s.edges)]
      /\ syncs' = [syncs EXCEPT ![n] = @ \ {s}]
      /\ UNCHANGED <<up, member, syncEnabled, updates, registered, ops, faults>>
  BY DEF HandleTopologySync
<1>2. Good(Merge(topo[n], s.edges), registered)
  BY GoodMerge DEF IInv, TopologiesAreGood, SyncsAreGood
<1>3. /\ DOMAIN topo' = Node /\ topo' = [k \in Node |-> topo'[k]]
      /\ \A k \in Node : Good(topo'[k], registered)
  BY <1>1, <1>2, OneTopology
<1>4. syncs' \in [Node -> SUBSET Sync] /\ \A k \in Node : syncs'[k] \subseteq syncs[k]
  BY <1>1 DEF IInv, Types
<1>5. Types
  BY DEF IInv
<1>6. QED
  BY <1>1, <1>3, <1>4, <1>5, QuietStep DEF Types

LEMMA HandleNodeJoinStep ==
  ASSUME IInv, NEW n \in Node, NEW m \in Node, HandleNodeJoin(n, m)
  PROVE  IInv'
<1>1. /\ topo' = [topo EXCEPT ![n] = AddNode(topo[n], m)]
      /\ member' = [member EXCEPT ![n] = @ \cup {m}]
      /\ UNCHANGED <<up, syncEnabled, updates, syncs, registered, ops, faults>>
  BY DEF HandleNodeJoin
<1>2. Good(AddNode(topo[n], m), registered)
  BY GoodAddNode DEF IInv, TopologiesAreGood
<1>3. /\ DOMAIN topo' = Node /\ topo' = [k \in Node |-> topo'[k]]
      /\ \A k \in Node : Good(topo'[k], registered)
  BY <1>1, <1>2, OneTopology
<1>4. member' \in [Node -> SUBSET Node]
  BY <1>1 DEF IInv, Types
<1>5. Types
  BY DEF IInv
<1>6. QED
  BY <1>1, <1>3, <1>4, <1>5, QuietStep DEF Types

LEMMA NodeLeavesStep ==
  ASSUME IInv, NEW n \in Node, NEW m \in Node, NodeLeaves(n, m), faults' \in 0..MaxFaults
  PROVE  IInv'
<1>1. /\ topo' = [topo EXCEPT ![n] = RemoveNode(topo[n], m)]
      /\ member' = [member EXCEPT ![n] = @ \ {m}]
      /\ UNCHANGED <<up, syncEnabled, updates, syncs, registered, ops>>
  BY DEF NodeLeaves
<1>2. Good(RemoveNode(topo[n], m), registered)
  BY GoodRemoveNode DEF IInv, TopologiesAreGood
<1>3. /\ DOMAIN topo' = Node /\ topo' = [k \in Node |-> topo'[k]]
      /\ \A k \in Node : Good(topo'[k], registered)
  BY <1>1, <1>2, OneTopology
<1>4. member' \in [Node -> SUBSET Node]
  BY <1>1 DEF IInv, Types
<1>5. Types
  BY DEF IInv
<1>6. QED
  BY <1>1, <1>3, <1>4, <1>5, QuietStep DEF Types

LEMMA FaultCounts == ASSUME IInv, Fault PROVE faults' \in 0..MaxFaults
  BY TopologySyncAssumption DEF IInv, Types, Fault

LEMMA LoseEventStep ==
  ASSUME IInv, NEW n \in Node, LoseEvent(n)
  PROVE  IInv'
<1>1. UNCHANGED <<up, topo, member, syncEnabled, registered, ops>> /\ faults' \in 0..MaxFaults
  BY FaultCounts DEF LoseEvent
<1>2. /\ updates' \in [Node -> SUBSET Update] /\ syncs' \in [Node -> SUBSET Sync]
      /\ \A k \in Node : updates'[k] \subseteq updates[k] /\ syncs'[k] \subseteq syncs[k]
  <2>1. ASSUME NEW e, updates' = [updates EXCEPT ![n] = @ \ {e}], UNCHANGED syncs PROVE <1>2
    BY <2>1 DEF IInv, Types
  <2>2. ASSUME NEW s, syncs' = [syncs EXCEPT ![n] = @ \ {s}], UNCHANGED updates PROVE <1>2
    BY <2>2 DEF IInv, Types
  <2>3. QED
    BY <2>1, <2>2 DEF LoseEvent
<1>3. /\ DOMAIN topo' = Node /\ topo' = [k \in Node |-> topo'[k]]
      /\ \A k \in Node : Good(topo'[k], registered)
  BY <1>1 DEF IInv, Types, TopologiesAreGood
<1>4. Types
  BY DEF IInv
<1>5. QED
  BY <1>1, <1>2, <1>3, <1>4, QuietStep DEF Types

LEMMA CrashStep ==
  ASSUME IInv, NEW n \in Node, Crash(n)
  PROVE  IInv'
<1>1. /\ up' = [up EXCEPT ![n] = FALSE]
      /\ topo' = [topo EXCEPT ![n] = NewTopology]
      /\ member' = [member EXCEPT ![n] = {n}]
      /\ syncEnabled' = [syncEnabled EXCEPT ![n] = TRUE]
      /\ updates' = [updates EXCEPT ![n] = {}]
      /\ syncs' = [syncs EXCEPT ![n] = {}]
      /\ UNCHANGED <<registered, ops>> /\ faults' \in 0..MaxFaults
  BY FaultCounts DEF Crash
<1>2. /\ DOMAIN topo' = Node /\ topo' = [k \in Node |-> topo'[k]]
      /\ \A k \in Node : Good(topo'[k], registered)
  BY <1>1, GoodNew, OneTopology
<1>3. /\ updates' \in [Node -> SUBSET Update] /\ syncs' \in [Node -> SUBSET Sync]
      /\ \A k \in Node : updates'[k] \subseteq updates[k] /\ syncs'[k] \subseteq syncs[k]
  BY <1>1 DEF IInv, Types
<1>4. /\ up' \in [Node -> BOOLEAN] /\ member' \in [Node -> SUBSET Node]
      /\ syncEnabled' \in [Node -> BOOLEAN]
  BY <1>1 DEF IInv, Types
<1>5. QED
  BY <1>1, <1>2, <1>3, <1>4, QuietStep

LEMMA RestartStep ==
  ASSUME IInv, NEW n \in Node, Restart(n)
  PROVE  IInv'
<1>1. /\ up' = [up EXCEPT ![n] = TRUE]
      /\ topo' = [topo EXCEPT ![n] = StartTopology(n)]
      /\ UNCHANGED <<member, syncEnabled, updates, syncs, registered, ops, faults>>
  BY DEF Restart
<1>2. Good(StartTopology(n), registered)
  BY GoodStart DEF IInv
<1>3. /\ DOMAIN topo' = Node /\ topo' = [k \in Node |-> topo'[k]]
      /\ \A k \in Node : Good(topo'[k], registered)
  BY <1>1, <1>2, OneTopology
<1>4. up' \in [Node -> BOOLEAN]
  BY <1>1 DEF IInv, Types
<1>5. Types
  BY DEF IInv
<1>6. QED
  BY <1>1, <1>3, <1>4, <1>5, QuietStep DEF Types

LEMMA NextIInv == IInv /\ [Next]_vars => IInv'
<1> SUFFICES ASSUME IInv, [Next]_vars PROVE IInv'
  OBVIOUS
<1>1. ASSUME NEW n \in Node, Operate(n) PROVE IInv'
  BY <1>1, AddLinkStep, UnregisterLinkStep, EnableSyncStep DEF Operate
<1>2. ASSUME NEW n \in Node, Receive(n) PROVE IInv'
  BY <1>2, HandleLinkUpdateStep, HandleTopologySyncStep DEF Receive
<1>3. ASSUME NEW n \in Node, BroadcastFullTopology(n) PROVE IInv'
  BY <1>3, BroadcastStep
<1>4. ASSUME NEW n \in Node, Membership(n) PROVE IInv'
  <2>1. ASSUME NEW m \in Node, HandleNodeJoin(n, m) PROVE IInv'
    BY <2>1, HandleNodeJoinStep
  <2>2. ASSUME NEW m \in Node, HandleNodeLeave(n, m) PROVE IInv'
    <3>1. NodeLeaves(n, m) /\ faults' \in 0..MaxFaults
      BY <2>2 DEF HandleNodeLeave, IInv, Types
    <3>2. QED
      BY <3>1, NodeLeavesStep
  <2>3. QED
    BY <1>4, <2>1, <2>2 DEF Membership
<1>5. ASSUME NEW n \in Node, Fail(n) PROVE IInv'
  <2>1. ASSUME NEW m \in Node, Suspect(n, m) PROVE IInv'
    BY <2>1, FaultCounts, NodeLeavesStep DEF Suspect
  <2>2. QED
    BY <1>5, <2>1, CrashStep, LoseEventStep DEF Fail
<1>6. ASSUME NEW n \in Node, Restart(n) PROVE IInv'
  BY <1>6, RestartStep
<1>7. CASE UNCHANGED vars
  BY <1>7 DEF vars, IInv, Types, ConfigIsKnown, TopologiesAreGood, UpdatesAreGood, SyncsAreGood
<1>8. QED
  BY <1>1, <1>2, <1>3, <1>4, <1>5, <1>6, <1>7 DEF Next

-----------------------------------------------------------------------------
(* Routers that agree keep agreeing: what they are told is what they know. *)

\* Whether a broadcast changes a topology depends on the links alone; a
\* broadcast of the very same links does not.
LEMMA MergeKeeps ==
  ASSUME NEW t \in Topologies, NEW edges
  PROVE  Merge(t, edges) = t <=> \A a, b \in Node : Cheaper(t.edges[a][b], edges[a][b]) = t.edges[a][b]
<1>1. ASSUME \A a, b \in Node : Cheaper(t.edges[a][b], edges[a][b]) = t.edges[a][b]
      PROVE  Merge(t, edges) = t
  <2>1. [a \in Node |-> [b \in Node |-> Cheaper(t.edges[a][b], edges[a][b])]] =
        [a \in Node |-> [b \in Node |-> t.edges[a][b]]]
    BY <1>1
  <2>2. [a \in Node |-> [b \in Node |-> t.edges[a][b]]] = t.edges
    BY DEF Topologies, Row
  <2>3. t = [nodes |-> t.nodes, edges |-> t.edges]
    BY DEF Topologies
  <2>4. QED
    BY <2>1, <2>2, <2>3 DEF Merge
<1>2. ASSUME Merge(t, edges) = t, NEW a \in Node, NEW b \in Node
      PROVE  Cheaper(t.edges[a][b], edges[a][b]) = t.edges[a][b]
  <2>1. Merge(t, edges).edges[a][b] = Cheaper(t.edges[a][b], edges[a][b])
    BY DEF Merge
  <2>2. QED
    BY <1>2, <2>1
<1>3. QED
  BY <1>1, <1>2

LEMMA WritingWhatIsThere ==
  ASSUME NEW t \in Topologies, Symmetric(t), NEW a \in Node, NEW b \in Node
  PROVE  /\ \A c \in Cost : t.edges[a][b] = c => UpdateLink(t, a, b, c).edges = t.edges
         /\ t.edges[a][b] = NoLink => RemoveLink(t, a, b).edges = t.edges
<1>1. t.edges \in [Node -> Row] /\ t.edges[a][b] = t.edges[b][a]
  BY DEF Symmetric, Topologies
<1>2. ASSUME NEW c \in Cost, t.edges[a][b] = c PROVE UpdateLink(t, a, b, c).edges = t.edges
  <2>1. UpdateLink(t, a, b, c).edges \in [Node -> Row]
    BY UpdateLinkType DEF Topologies
  <2>2. \A x, y \in Node : UpdateLink(t, a, b, c).edges[x][y] =
          IF (x = a /\ y = b) \/ (x = b /\ y = a) THEN c ELSE t.edges[x][y]
    BY UpdateLinkEdges
  <2>3. \A x, y \in Node : UpdateLink(t, a, b, c).edges[x][y] = t.edges[x][y]
    BY <1>1, <1>2, <2>2
  <2>4. QED
    BY <1>1, <2>1, <2>3 DEF Row
<1>3. ASSUME t.edges[a][b] = NoLink PROVE RemoveLink(t, a, b).edges = t.edges
  <2>1. RemoveLink(t, a, b).edges \in [Node -> Row]
    BY RemoveLinkType DEF Topologies
  <2>2. \A x, y \in Node : RemoveLink(t, a, b).edges[x][y] =
          IF (x = a /\ y = b) \/ (x = b /\ y = a) THEN NoLink ELSE t.edges[x][y]
    BY RemoveLinkEdges
  <2>3. \A x, y \in Node : RemoveLink(t, a, b).edges[x][y] = t.edges[x][y]
    BY <1>1, <1>3, <2>2
  <2>4. QED
    BY <1>1, <2>1, <2>3 DEF Row
<1>4. QED
  BY <1>2, <1>3

\* A step after which the routers that still run know the links they knew, and
\* are sent nothing but what some running router knows.
LEMMA StaysSettled ==
  ASSUME IInv, IInv', Settled,
         \A n \in Node : up'[n] => up[n] /\ topo'[n].edges = topo[n].edges,
         \A n \in Node : up'[n] => updates'[n] \subseteq updates[n],
         \A n \in Node : up'[n] => \A s \in syncs'[n] :
           s \in syncs[n] \/ \E m \in Node : up[m] /\ s.edges = topo[m].edges
  PROVE  Settled'
<1>1. Agree'
  BY DEF Settled, Agree
<1>2. ASSUME NEW n \in Node, up'[n] PROVE NothingNew(n)'
  <2>1. /\ up[n] /\ NothingNew(n) /\ topo'[n].edges = topo[n].edges
        /\ topo[n] \in Topologies /\ topo'[n] \in Topologies
    BY <1>2 DEF Settled, IInv, Types
  <2>2. \A e \in updates'[n] : e.cost = GetCost(topo'[n], e.from, e.to)
    BY <1>2, <2>1 DEF NothingNew, GetCost
  <2>3. ASSUME NEW s \in syncs'[n] PROVE Merge(topo'[n], s.edges) = topo'[n]
    <3>1. CASE s \in syncs[n]
      <4>1. Merge(topo[n], s.edges) = topo[n]
        BY <2>1, <3>1 DEF NothingNew
      <4>2. \A a, b \in Node : Cheaper(topo[n].edges[a][b], s.edges[a][b]) = topo[n].edges[a][b]
        BY <2>1, <4>1, MergeKeeps
      <4>3. \A a, b \in Node : Cheaper(topo'[n].edges[a][b], s.edges[a][b]) = topo'[n].edges[a][b]
        BY <2>1, <4>2
      <4>4. QED
        BY <2>1, <4>3, MergeKeeps
    <3>2. ASSUME NEW m \in Node, up[m], s.edges = topo[m].edges
          PROVE  Merge(topo'[n], s.edges) = topo'[n]
      <4>1. s.edges = topo'[n].edges
        BY <2>1, <3>2 DEF Settled, Agree
      <4>2. \A c : Cheaper(c, c) = c
        BY DEF Cheaper
      <4>3. QED
        BY <2>1, <4>1, <4>2, MergeKeeps
    <3>3. QED
      BY <1>2, <2>3, <3>1, <3>2
  <2>4. QED
    BY <2>2, <2>3 DEF NothingNew
<1>3. QED
  BY <1>1, <1>2 DEF Settled

LEMMA ReceiveStaysSettled ==
  ASSUME IInv, IInv', Settled, NEW n \in Node, Receive(n)
  PROVE  Settled'
<1>1. topo[n] \in Topologies /\ Symmetric(topo[n])
  BY DEF IInv, TopologiesAreGood, Good, GoodEdges, Symmetric
<1>2. ASSUME NEW e \in updates[n], HandleLinkUpdate(n, e) PROVE Settled'
  <2>1. /\ up[n] /\ UNCHANGED <<up, syncs>>
        /\ updates' = [updates EXCEPT ![n] = @ \ {e}]
        /\ topo' = [topo EXCEPT ![n] = IF e.cost = NoLink THEN RemoveLink(@, e.from, e.to)
                                       ELSE UpdateLink(@, e.from, e.to, e.cost)]
    BY <1>2 DEF HandleLinkUpdate
  <2>2. e.from \in Node /\ e.to \in Node /\ e.cost \in Cost \cup {NoLink}
    BY DEF IInv, Types, Update
  <2>3. topo[n].edges[e.from][e.to] = e.cost
    BY <2>1 DEF Settled, NothingNew, GetCost
  <2>4. /\ e.cost = NoLink => RemoveLink(topo[n], e.from, e.to).edges = topo[n].edges
        /\ e.cost # NoLink => UpdateLink(topo[n], e.from, e.to, e.cost).edges = topo[n].edges
    BY <1>1, <2>2, <2>3, WritingWhatIsThere
  <2>5. \A m \in Node : topo'[m].edges = topo[m].edges /\ updates'[m] \subseteq updates[m]
    BY <2>1, <2>4 DEF IInv, Types
  <2>6. QED
    BY <2>1, <2>5, StaysSettled
<1>3. ASSUME NEW s \in syncs[n], HandleTopologySync(n, s) PROVE Settled'
  <2>1. /\ up[n] /\ UNCHANGED <<up, updates>>
        /\ syncs' = [syncs EXCEPT ![n] = @ \ {s}]
        /\ topo' = [topo EXCEPT ![n] = Merge(@, s.edges)]
    BY <1>3 DEF HandleTopologySync
  <2>2. Merge(topo[n], s.edges) = topo[n]
    BY <2>1 DEF Settled, NothingNew
  <2>3. \A m \in Node : topo'[m].edges = topo[m].edges /\ syncs'[m] \subseteq syncs[m]
    BY <2>1, <2>2 DEF IInv, Types
  <2>4. QED
    BY <2>1, <2>3, StaysSettled
<1>4. QED
  BY <1>2, <1>3 DEF Receive

LEMMA BroadcastStaysSettled ==
  ASSUME IInv, IInv', Settled, NEW n \in Node, BroadcastFullTopology(n)
  PROVE  Settled'
<1> DEFINE s == [sender |-> n, stamp |-> ops, edges |-> topo[n].edges]
<1>1. up[n] /\ UNCHANGED <<up, topo, updates>> /\ syncs' = Send(syncs, s, Node \ {n})
  BY DEF BroadcastFullTopology
<1>2. s.edges = topo[n].edges
  OBVIOUS
<1> HIDE DEF s
<1>3. \A m \in Node : \A x \in syncs'[m] : x \in syncs[m] \/ x = s
  BY <1>1 DEF Send
<1>4. QED
  BY <1>1, <1>2, <1>3, StaysSettled

LEMMA HandleNodeJoinStaysSettled ==
  ASSUME IInv, IInv', Settled, NEW n \in Node, NEW m \in Node, HandleNodeJoin(n, m)
  PROVE  Settled'
<1>1. UNCHANGED <<up, updates, syncs>> /\ topo' = [topo EXCEPT ![n] = AddNode(@, m)]
  BY DEF HandleNodeJoin
<1>2. \A k \in Node : topo'[k].edges = topo[k].edges
  BY <1>1, AddNodeType DEF IInv, Types
<1>3. QED
  BY <1>1, <1>2, StaysSettled

LEMMA LossStaysSettled ==
  ASSUME IInv, IInv', Settled, NEW n \in Node, LoseEvent(n) \/ Crash(n)
  PROVE  Settled'
<1>1. CASE LoseEvent(n)
  <2>1. /\ UNCHANGED <<up, topo>>
        /\ \A m \in Node : updates'[m] \subseteq updates[m] /\ syncs'[m] \subseteq syncs[m]
    BY <1>1 DEF LoseEvent, IInv, Types
  <2>2. QED
    BY <2>1, StaysSettled
<1>2. CASE Crash(n)
  <2>1. /\ up' = [up EXCEPT ![n] = FALSE] /\ topo' = [topo EXCEPT ![n] = NewTopology]
        /\ updates' = [updates EXCEPT ![n] = {}] /\ syncs' = [syncs EXCEPT ![n] = {}]
    BY <1>2 DEF Crash
  <2>2. \A m \in Node : /\ up'[m] => up[m] /\ topo'[m].edges = topo[m].edges
                        /\ updates'[m] \subseteq updates[m] /\ syncs'[m] \subseteq syncs[m]
    BY <2>1 DEF IInv, Types
  <2>3. QED
    BY <2>2, StaysSettled
<1>3. QED
  BY <1>1, <1>2

-----------------------------------------------------------------------------
(* The theorems.                                                           *)

\* What is known and what is under way stays good, through every operation,
\* loss, crash, restart and wrong suspicion. (topology_sync.go, node.go.)
THEOREM Invariant == Spec => []IInv
  BY InitIInv, NextIInv, PTL DEF Spec

\* Every router's graph is well formed and undirected.
\* (node.go: UpdateLink, RemoveLink, RemoveNode; topology_sync.go: handlers.)
THEOREM TypeCorrect == Spec => []TypeOK
<1>1. IInv => TypeOK
  BY DEF IInv, Types, TypeOK, TopologiesAreGood, Good, GoodEdges, Symmetric
<1>2. QED
  BY <1>1, Invariant, PTL

\* No router holds a cost that nobody gave that link: nothing on the way, and
\* no order of events, mixes links or costs up.
\* (topology_sync.go: handleLinkUpdate, handleTopologySync.)
THEOREM NoCostIsInvented == Spec => []NoInventedCosts
<1>1. IInv => NoInventedCosts
  BY DEF IInv, TopologiesAreGood, Good, GoodEdges, Vouched, NoInventedCosts, HasLink, GetCost
<1>2. QED
  BY <1>1, Invariant, PTL

\* Whenever a router learns that another is gone, no row of its topology
\* mentions that router afterwards. (node.go: RemoveNode, which relies on the
\* graph being undirected; topology_sync.go: handleNodeLeave.)
THEOREM RemovalIsComplete == Spec => RemovedWithItsLinks
<1>1. IInv /\ [Next]_vars => [\A n, m \in Node : NodeLeaves(n, m) => Isolated(topo'[n], m)]_vars
  <2> SUFFICES ASSUME IInv, NEW n \in Node, NEW m \in Node, NodeLeaves(n, m)
               PROVE  Isolated(topo'[n], m)
    OBVIOUS
  <2>1. topo[n] \in Topologies /\ Symmetric(topo[n])
    BY DEF IInv, TopologiesAreGood, Good, GoodEdges, Symmetric
  <2>2. topo'[n] = RemoveNode(topo[n], m)
    BY DEF NodeLeaves, IInv, Types
  <2>3. QED
    BY <2>1, <2>2, RemoveNodeIsolates
<1>2. QED
  BY <1>1, Invariant, PTL DEF Spec, RemovedWithItsLinks

\* Routers that agree, while nothing under way says otherwise, go on agreeing
\* until a router is operated, removed by another or started again: their
\* broadcasts and late events, the loss of those, a crash and a join change no
\* link. (topology_sync.go: periodicSyncLoop, handleTopologySync,
\* handleLinkUpdate, handleNodeJoin.)
THEOREM AgreementIsStable == Spec => AgreementLasts
<1> DEFINE Undisturbed == /\ ops' = ops
                          /\ \A n \in Node : up'[n] => up[n] /\ member[n] \subseteq member'[n]
<1>1. ASSUME IInv, IInv', [Next]_vars, Settled, Undisturbed PROVE Settled'
  <2>1. ASSUME NEW n \in Node, Operate(n) PROVE FALSE
    <3>1. ops' = ops + 1
      BY <2>1 DEF Operate, AddLink, UnregisterLink, EnableSync, Operation
    <3>2. ops \in 0..MaxOps
      BY <1>1 DEF IInv, Types
    <3>3. QED
      BY <1>1, <3>1, <3>2
  <2>2. ASSUME NEW n \in Node, NEW m \in Node, NodeLeaves(n, m), UNCHANGED up PROVE FALSE
    <3>1. up[n] /\ m \in member[n] /\ member' = [member EXCEPT ![n] = @ \ {m}]
      BY <2>2 DEF NodeLeaves
    <3>2. m \notin member'[n]
      BY <3>1, <1>1 DEF IInv, Types
    <3>3. QED
      BY <1>1, <2>2, <3>1, <3>2
  <2>3. ASSUME NEW n \in Node, Restart(n) PROVE FALSE
    <3>1. ~up[n] /\ up' = [up EXCEPT ![n] = TRUE]
      BY <2>3 DEF Restart
    <3>2. up'[n]
      BY <3>1, <1>1 DEF IInv, Types
    <3>3. QED
      BY <1>1, <3>1, <3>2
  <2>4. ASSUME NEW n \in Node, Membership(n) PROVE Settled'
    BY <1>1, <2>2, <2>4, HandleNodeJoinStaysSettled DEF Membership, HandleNodeLeave, NodeLeaves
  <2>5. ASSUME NEW n \in Node, Fail(n) PROVE Settled'
    BY <1>1, <2>2, <2>5, LossStaysSettled DEF Fail, Suspect, NodeLeaves
  <2>6. ASSUME NEW n \in Node, Receive(n) \/ BroadcastFullTopology(n) PROVE Settled'
    BY <1>1, <2>6, ReceiveStaysSettled, BroadcastStaysSettled
  <2>7. CASE UNCHANGED vars
    BY <1>1, <2>7, StaysSettled DEF vars
  <2>8. QED
    BY <1>1, <2>1, <2>3, <2>4, <2>5, <2>6, <2>7 DEF Next
<1>2. IInv /\ IInv' /\ [Next]_vars =>
        [Settled /\ ops' = ops /\ (\A n \in Node : up'[n] => up[n] /\ member[n] \subseteq member'[n])
           => Settled']_vars
  BY <1>1
<1>3. QED
  BY <1>2, Invariant, PTL DEF Spec, AgreementLasts

=============================================================================
