------------------------------ MODULE Topology ------------------------------
(***************************************************************************)
(* The link-state database of one router (type Topology of                 *)
(* internal/route/node.go) as a value, and the operations that read and    *)
(* change it.  Each operation takes the RWMutex of the Topology for its    *)
(* whole body, so each is one indivisible step of whichever goroutine      *)
(* calls it; the modules that extend this one decide who calls what, when. *)
(*                                                                         *)
(* A topology is a record:                                                 *)
(*   nodes  the keys of the node table (map[string]*NodeInfo)              *)
(*   edges  the adjacency matrix; NoLink where the nested map has no key.  *)
(*          A missing inner map and an empty one read the same everywhere. *)
(***************************************************************************)
EXTENDS Integers

CONSTANTS
  Node,     \* node identifiers
  Cost,     \* the link costs in play (float64 in the code)
  NoLink    \* "no such key" in the nested edge map

ASSUME TopologyAssumption ==
  /\ Cost \subseteq Int
  /\ NoLink \notin Int

Row == [Node -> Cost \cup {NoLink}]

Topologies == [nodes : SUBSET Node, edges : [Node -> Row]]

EmptyRow == [m \in Node |-> NoLink]

NewTopology == [nodes |-> {}, edges |-> [n \in Node |-> EmptyRow]]

-----------------------------------------------------------------------------
(* Reads. *)

\* GetCost returns (cost, exists); exists is "not NoLink".
GetCost(t, from, to) == t.edges[from][to]

HasLink(t, from, to) == t.edges[from][to] # NoLink

\* GetNeighbors copies one row; its keys are the neighbours.
Neighbors(row) == {m \in Node : row[m] # NoLink}

-----------------------------------------------------------------------------
(* Writes. *)

\* Mutant of AddNode: the row is created anew, missing or not.
AddNodeNewRow(t, n) == [nodes |-> t.nodes \cup {n}, edges |-> [t.edges EXCEPT ![n] = EmptyRow]]

\* AddNode overwrites the node entry and keeps whatever links the node's
\* row already holds: the row is only created when it is missing.
AddNode(t, n) == [t EXCEPT !.nodes = @ \cup {n}]

\* Mutant of RemoveNode: only the removed node's own row is cleaned.
RemoveNodeOwnRow(t, n) ==
  [t EXCEPT !.nodes = @ \ {n}, !.edges = [@ EXCEPT ![n] = EmptyRow]]

\* RemoveNode finds the rows to clean by walking the removed node's own row,
\* so an entry pointing at n survives in a row that n's row does not mirror.
RemoveNode(t, n) ==
  [nodes |-> t.nodes \ {n},
   edges |-> [a \in Node |->
                IF a = n THEN EmptyRow
                ELSE [t.edges[a] EXCEPT ![n] = IF HasLink(t, n, a) THEN NoLink ELSE @]]]

\* Mutant of UpdateLink: one entry is written.
UpdateLinkOneWay(t, from, to, cost) == [t EXCEPT !.edges = [@ EXCEPT ![from][to] = cost]]

\* The graph is undirected: both entries are written. The node table is not.
UpdateLink(t, from, to, cost) ==
  [t EXCEPT !.edges = [@ EXCEPT ![from][to] = cost, ![to][from] = cost]]

RemoveLink(t, from, to) ==
  [t EXCEPT !.edges = [@ EXCEPT ![from][to] = NoLink, ![to][from] = NoLink]]

-----------------------------------------------------------------------------

\* Both directions of every link carry the same cost.
Symmetric(t) == \A a, b \in Node : t.edges[a][b] = t.edges[b][a]

\* No row, n's own included, mentions n.
Isolated(t, n) == \A a \in Node : ~HasLink(t, n, a) /\ ~HasLink(t, a, n)

=============================================================================
