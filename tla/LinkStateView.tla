---------------------------- MODULE LinkStateView ----------------------------
(***************************************************************************)
(* What one route computation reads of the topology, and in what order     *)
(* (internal/route/spf.go: ComputeRoutes).  The node table is read first,  *)
(* in one critical section; then, one critical section each, the row of    *)
(* the router itself and of every known node that some row read so far     *)
(* names.  The routes are a function of what was read, so this "view"      *)
(* stands for the route table wherever only its freshness matters.         *)
(***************************************************************************)
EXTENDS Topology

CONSTANTS
  Self,    \* the router that computes its routes
  Unread   \* "this row has not been read"

ASSUME LinkStateViewAssumption ==
  /\ Self \in Node
  /\ Unread \notin [Node -> Cost \cup {NoLink}]

Views == [nodes : SUBSET Node, rows : [Node -> Row \cup {Unread}]]

NoView == [nodes |-> {}, rows |-> [u \in Node |-> Unread]]

Read(view) == {u \in Node : view.rows[u] # Unread}

\* The router knows itself, even when its node table lacks the entry.
NodesOf(t) == t.nodes \cup {Self}

\* The read of the node table.
NodesRead(t) == [nodes |-> NodesOf(t), rows |-> [u \in Node |-> Unread]]

\* The read of u's row.
RowRead(view, t, u) ==
  [nodes |-> view.nodes, rows |-> [view.rows EXCEPT ![u] = t.edges[u]]]

\* The rows that remain to be read.
Frontier(view) ==
  {v \in view.nodes : /\ view.rows[v] = Unread
                      /\ v = Self \/ \E u \in Read(view) : v \in Neighbors(view.rows[u])}

\* Nothing that was read has changed since.
InStep(view, t) ==
  /\ view.nodes = NodesOf(t)
  /\ \A u \in Read(view) : view.rows[u] = t.edges[u]

\* Reading again now would give the same routes: a change to a node that no
\* row read names does not matter.
SameRoutes(view, t) ==
  /\ Self \in Read(view)
  /\ \A u \in Read(view) :
       /\ view.rows[u] = t.edges[u]
       /\ \A v \in Neighbors(view.rows[u]) : v \in view.nodes <=> v \in NodesOf(t)

=============================================================================
