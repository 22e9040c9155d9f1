----------------------------- MODULE TopologySync -----------------------------
(***************************************************************************)
(* How the routers of a cluster keep their topologies alike                *)
(* (internal/route/topology_sync.go over Serf, with node.go and the        *)
(* AddLink handlers that feed it).                                         *)
(*                                                                         *)
(* A link that is added is broadcast as a user event, which its sender     *)
(* receives too.  Every router broadcasts its whole topology from time to  *)
(* time, and a router that receives one takes over the links it lacks and  *)
(* the costs that are smaller than its own.  Serf reports who joined and   *)
(* who failed; a failed router is removed with its links.  There are no    *)
(* sequence numbers and no tombstones.                                     *)
(*                                                                         *)
(* Serf is external: user events reach running routers in any order, or    *)
(* not at all, never twice; failure detection may be wrong.  A handler is  *)
(* one step here; RouteNode has the steps within a handler.                *)
(***************************************************************************)
EXTENDS Topology, FiniteSets

CONSTANTS
  Config,        \* the configured edges of each router, those that touch it
  Calls,         \* the operations in use: "AddLink", "UnregisterLink", "EnableSync"
  MaxSyncLinks,  \* how many links fit into one user event
  MaxOps,        \* bound: operations
  MaxFaults,     \* bound: crashes, wrong suspicions and lost events together
  MaxBroadcasts  \* bound: routers whose topology broadcast is under way

Link == [from : Node, to : Node, cost : Cost]

ASSUME TopologySyncAssumption ==
  /\ Config \in [Node -> SUBSET Link]
  /\ \A n \in Node : \A l \in Config[n] : n \in {l.from, l.to}
  /\ MaxSyncLinks \in Nat /\ MaxOps \in Nat /\ MaxFaults \in Nat /\ MaxBroadcasts \in Nat

VARIABLES
  up,          \* is the router running
  topo,        \* its topology
  member,      \* whom its Serf agent has reported as joined and not as failed
  syncEnabled,
  updates,     \* link events under way to each router
  syncs,       \* topology broadcasts under way to each router
  registered,  \* history: the costs links were given, and by which operation
  ops, faults

vars == <<up, topo, member, syncEnabled, updates, syncs, registered, ops, faults>>

\* The stamp orders what is sent: how many operations had begun by then.
\* A link event without a cost is a removal.
Update == [sender : Node, stamp : Nat, from : Node, to : Node, cost : Cost \cup {NoLink}]
Sync == [sender : Node, stamp : Nat, edges : [Node -> Row]]

Given(a, b, c, stamp) == [ends |-> {a, b}, cost |-> c, stamp |-> stamp]

\* A configuration that lists a link twice gives it one of the two costs.
ConfiguredCost(links) ==
  IF links = {} THEN NoLink ELSE (CHOOSE l \in links : TRUE).cost

\* What Start leaves in the topology: the router itself and its configured
\* edges, which nobody is told about.
StartTopology(n) ==
  [nodes |-> {n},
   edges |-> [a \in Node |-> [b \in Node |->
                ConfiguredCost({l \in Config[n] : {l.from, l.to} = {a, b}})]]]

\* The event is under way to those running routers that will not ignore it.
Send(flight, event, to) ==
  [m \in Node |-> IF up[m] /\ m \in to THEN flight[m] \cup {event} ELSE flight[m]]

\* A router's own link event is in its queue before the event goes out to
\* anyone, so it is handled before whatever was sent later.
InOrder(n, stamp) ==
  \A e \in updates[n] : e.sender = n => stamp <= e.stamp

-----------------------------------------------------------------------------

\* A cluster that has formed: everybody has started and seen everybody join.
Init ==
  /\ up = [n \in Node |-> TRUE]
  /\ topo = [n \in Node |-> [StartTopology(n) EXCEPT !.nodes = Node]]
  /\ member = [n \in Node |-> Node]
  /\ syncEnabled = [n \in Node |-> TRUE]
  /\ updates = [n \in Node |-> {}]
  /\ syncs = [n \in Node |-> {}]
  /\ registered = {Given(l.from, l.to, l.cost, 0) : l \in UNION {Config[n] : n \in Node}}
  /\ ops = 0 /\ faults = 0

Operation(op) ==
  /\ op \in Calls
  /\ ops < MaxOps
  /\ ops' = ops + 1
  /\ UNCHANGED <<up, member, syncs, faults>>

\* AddLink whose probe succeeded: the node entry, the link, the broadcast.
AddLink(n, m, c) ==
  /\ Operation("AddLink")
  /\ up[n]
  /\ topo' = [topo EXCEPT ![n] = UpdateLink(AddNode(@, m), n, m, c)]
  /\ updates' = Send(updates, [sender |-> n, stamp |-> ops', from |-> n, to |-> m, cost |-> c], Node)
  /\ registered' = registered \cup {Given(n, m, c, ops')}
  /\ UNCHANGED syncEnabled

UnregisterLink(n, a, b) ==
  /\ Operation("UnregisterLink")
  /\ up[n]
  /\ topo' = [topo EXCEPT ![n] = RemoveLink(@, a, b)]
  /\ updates' = Send(updates, [sender |-> n, stamp |-> ops', from |-> a, to |-> b, cost |-> NoLink], Node)
  /\ UNCHANGED <<registered, syncEnabled>>

EnableSync(n, enabled) ==
  /\ Operation("EnableSync")
  /\ up[n]
  /\ syncEnabled' = [syncEnabled EXCEPT ![n] = enabled]
  /\ UNCHANGED <<topo, updates, registered>>

\* Mutant of HandleLinkUpdate: the operation is not looked at, so that a
\* removal sets cost 0.
HandleLinkUpdateAnyOp(n, e) ==
  /\ up[n]
  /\ e \in updates[n]
  /\ InOrder(n, e.stamp)
  /\ updates' = [updates EXCEPT ![n] = @ \ {e}]
  /\ topo' = [topo EXCEPT ![n] = UpdateLink(@, e.from, e.to, IF e.cost = NoLink THEN 0 ELSE e.cost)]
  /\ UNCHANGED <<up, member, syncEnabled, syncs, registered, ops, faults>>

HandleLinkUpdate(n, e) ==
  /\ up[n]
  /\ e \in updates[n]
  /\ InOrder(n, e.stamp)
  /\ updates' = [updates EXCEPT ![n] = @ \ {e}]
  /\ topo' = [topo EXCEPT ![n] = IF e.cost = NoLink THEN RemoveLink(@, e.from, e.to)
                                 ELSE UpdateLink(@, e.from, e.to, e.cost)]
  /\ UNCHANGED <<up, member, syncEnabled, syncs, registered, ops, faults>>

\* The link entries of a topology broadcast: each undirected link once.
Links(edges) == {ends \in SUBSET Node : \E a, b \in Node : ends = {a, b} /\ edges[a][b] # NoLink}

Broadcasting == {s.sender : s \in UNION {syncs[m] : m \in Node}}

\* The ticker fires. A router skips its own broadcast, so it is not sent it.
\* Bound: its last broadcast has reached everybody before it sends the next.
BroadcastFullTopology(n) ==
  /\ up[n]
  /\ syncEnabled[n]
  /\ Cardinality(Links(topo[n].edges)) <= MaxSyncLinks
  /\ n \notin Broadcasting /\ Cardinality(Broadcasting) < MaxBroadcasts
  /\ syncs' = Send(syncs, [sender |-> n, stamp |-> ops, edges |-> topo[n].edges], Node \ {n})
  /\ UNCHANGED <<up, topo, member, syncEnabled, updates, registered, ops, faults>>

\* Mutants of Cheaper: a known link keeps its cost; an unknown one is ignored.
CheaperKeepsOwn(old, c) == IF old = NoLink THEN c ELSE old
CheaperLearnsNothing(old, c) ==
  IF c = NoLink \/ old = NoLink THEN old ELSE IF c < old THEN c ELSE old

Cheaper(old, c) ==
  IF c = NoLink THEN old
  ELSE IF old = NoLink THEN c
  ELSE IF c < old THEN c ELSE old

Merge(t, edges) ==
  [nodes |-> t.nodes,
   edges |-> [a \in Node |-> [b \in Node |-> Cheaper(t.edges[a][b], edges[a][b])]]]

HandleTopologySync(n, s) ==
  /\ up[n]
  /\ s \in syncs[n]
  /\ InOrder(n, s.stamp + 1)
  /\ syncs' = [syncs EXCEPT ![n] = @ \ {s}]
  /\ topo' = [topo EXCEPT ![n] = Merge(@, s.edges)]
  /\ UNCHANGED <<up, member, syncEnabled, updates, registered, ops, faults>>

HandleNodeJoin(n, m) ==
  /\ up[n] /\ up[m]
  /\ m \notin member[n]
  /\ member' = [member EXCEPT ![n] = @ \cup {m}]
  /\ topo' = [topo EXCEPT ![n] = AddNode(@, m)]
  /\ UNCHANGED <<up, syncEnabled, updates, syncs, registered, ops, faults>>

NodeLeaves(n, m) ==
  /\ up[n]
  /\ m \in member[n] \ {n}
  /\ member' = [member EXCEPT ![n] = @ \ {m}]
  /\ topo' = [topo EXCEPT ![n] = RemoveNode(@, m)]
  /\ UNCHANGED <<up, syncEnabled, updates, syncs, registered, ops>>

\* Serf reports a router that is down, or suspects one that is not.
HandleNodeLeave(n, m) == ~up[m] /\ NodeLeaves(n, m) /\ UNCHANGED faults

Fault == faults < MaxFaults /\ faults' = faults + 1

Suspect(n, m) == Fault /\ up[m] /\ NodeLeaves(n, m)

LoseEvent(n) ==
  /\ Fault
  /\ \/ \E e \in updates[n] : e.sender # n /\ updates' = [updates EXCEPT ![n] = @ \ {e}]
        /\ UNCHANGED syncs
     \/ \E s \in syncs[n] : syncs' = [syncs EXCEPT ![n] = @ \ {s}]
        /\ UNCHANGED updates
  /\ UNCHANGED <<up, topo, member, syncEnabled, registered, ops>>

\* The process ends; everything it kept is gone.
Crash(n) ==
  /\ Fault
  /\ up[n]
  /\ up' = [up EXCEPT ![n] = FALSE]
  /\ topo' = [topo EXCEPT ![n] = NewTopology]
  /\ member' = [member EXCEPT ![n] = {n}]
  /\ syncEnabled' = [syncEnabled EXCEPT ![n] = TRUE]
  /\ updates' = [updates EXCEPT ![n] = {}]
  /\ syncs' = [syncs EXCEPT ![n] = {}]
  /\ UNCHANGED <<registered, ops>>

\* It joins again, ignoring what was sent before.
Restart(n) ==
  /\ ~up[n]
  /\ up' = [up EXCEPT ![n] = TRUE]
  /\ topo' = [topo EXCEPT ![n] = StartTopology(n)]
  /\ UNCHANGED <<member, syncEnabled, updates, syncs, registered, ops, faults>>

-----------------------------------------------------------------------------

Operate(n) ==
  \/ \E m \in Node \ {n}, c \in Cost : AddLink(n, m, c)
  \/ \E a \in Node : \E b \in Node \ {a} : UnregisterLink(n, a, b)
  \/ \E enabled \in BOOLEAN : EnableSync(n, enabled)

Receive(n) ==
  \/ \E e \in updates[n] : HandleLinkUpdate(n, e)
  \/ \E s \in syncs[n] : HandleTopologySync(n, s)

Membership(n) == \E m \in Node : HandleNodeJoin(n, m) \/ HandleNodeLeave(n, m)

Fail(n) == Crash(n) \/ LoseEvent(n) \/ \E m \in Node : Suspect(n, m)

Next == \E n \in Node :
  \/ Operate(n) \/ Receive(n) \/ BroadcastFullTopology(n) \/ Membership(n)
  \/ Fail(n) \/ Restart(n)

\* Serf's queue is first in, first out, so every event is handled in the end;
\* the ticker keeps firing and Serf finds out who is there. Nobody has to call
\* or to restart anything.
Fairness ==
  \A n \in Node :
    /\ WF_vars(BroadcastFullTopology(n))
    /\ WF_vars(Membership(n))
    /\ WF_vars(\E e \in updates[n] : HandleLinkUpdate(n, e))
    /\ \A m \in Node :
         WF_vars(\E s \in syncs[n] : s.sender = m /\ HandleTopologySync(n, s))

Spec == Init /\ [][Next]_vars /\ Fairness

-----------------------------------------------------------------------------

\* Every variable stays in its domain; every router's graph is undirected.
TypeOK ==
  /\ up \in [Node -> BOOLEAN]
  /\ topo \in [Node -> Topologies]
  /\ member \in [Node -> SUBSET Node]
  /\ syncEnabled \in [Node -> BOOLEAN]
  /\ updates \in [Node -> SUBSET Update]
  /\ syncs \in [Node -> SUBSET Sync]
  /\ \A r \in registered : r.ends \subseteq Node /\ r.cost \in Cost /\ r.stamp \in 0..MaxOps
  /\ ops \in 0..MaxOps /\ faults \in 0..MaxFaults
  /\ \A n \in Node : Symmetric(topo[n])

\* No router ever holds a cost for a link that nobody gave that link: however
\* events are delayed, lost, reordered and merged, costs are passed on whole.
\* (topology_sync.go: handleLinkUpdate, handleTopologySync.)
NoInventedCosts ==
  \A n, a, b \in Node : HasLink(topo[n], a, b) =>
    \E r \in registered : r.ends = {a, b} /\ r.cost = GetCost(topo[n], a, b)

\* A router that is reported gone is mentioned by no row any more, although
\* RemoveNode walks only its own row. (node.go: RemoveNode.)
RemovedWithItsLinks ==
  [][\A n, m \in Node : NodeLeaves(n, m) => Isolated(topo'[n], m)]_vars

Agree == \A n, m \in Node : up[n] /\ up[m] => topo[n].edges = topo[m].edges

\* When all routers that run keep the periodic sync enabled, they agree on all
\* links in the end, whatever was lost, crashed or wrongly suspected before.
\* (topology_sync.go: periodicSyncLoop, handleTopologySync.)
Converges ==
  <>[](\A n \in Node : up[n] => syncEnabled[n]) => <>[]Agree

\* What is under way to n tells it nothing new.
NothingNew(n) ==
  /\ \A e \in updates[n] : e.cost = GetCost(topo[n], e.from, e.to)
  /\ \A s \in syncs[n] : Merge(topo[n], s.edges) = topo[n]

Settled == Agree /\ \A n \in Node : up[n] => NothingNew(n)

\* Once routers agree and nothing under way says otherwise, only an operation,
\* a router removed by another or one that starts again can make them differ:
\* no broadcast, repeated or late event, loss, crash or join does.
\* (topology_sync.go: periodicSyncLoop, handleTopologySync, handleLinkUpdate,
\* handleNodeJoin.)
AgreementLasts ==
  [][Settled /\ ops' = ops /\ (\A n \in Node : up'[n] => up[n] /\ member[n] \subseteq member'[n])
       => Settled']_vars

\* A router that everybody has removed is mentioned by nobody.
DepartedIsForgotten ==
  \A m \in Node :
    (~up[m] /\ \A n \in Node : up[n] => m \notin member[n] /\ m \notin topo[n].nodes) =>
      \A n \in Node : up[n] => Isolated(topo[n], m)

=============================================================================
