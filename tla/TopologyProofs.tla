--------------------------- MODULE TopologyProofs ---------------------------
(***************************************************************************)
(* What the operations on a topology return, for every set of nodes and    *)
(* costs: they stay within the type, they keep the graph undirected, and   *)
(* RemoveNode, which cleans only the rows its own row names, removes every *)
(* mention of the node because the graph is undirected.                    *)
(***************************************************************************)
EXTENDS Topology, TLAPS

LEMMA NewTopologyType == NewTopology \in Topologies /\ Symmetric(NewTopology)
  BY DEF NewTopology, Topologies, Row, EmptyRow, Symmetric

LEMMA AddNodeType ==
  ASSUME NEW t \in Topologies, NEW n \in Node
  PROVE  AddNode(t, n) \in Topologies /\ AddNode(t, n).edges = t.edges
  BY DEF AddNode, Topologies

LEMMA RemoveNodeType ==
  ASSUME NEW t \in Topologies, NEW n \in Node
  PROVE  RemoveNode(t, n) \in Topologies
<1>1. \A a \in Node : [t.edges[a] EXCEPT ![n] = IF HasLink(t, n, a) THEN NoLink ELSE @] \in Row
  BY DEF Topologies, Row
<1>2. EmptyRow \in Row
  BY DEF EmptyRow, Row
<1>3. QED
  BY <1>1, <1>2 DEF RemoveNode, Topologies

LEMMA UpdateLinkType ==
  ASSUME NEW t \in Topologies, NEW a \in Node, NEW b \in Node, NEW c \in Cost
  PROVE  UpdateLink(t, a, b, c) \in Topologies
  BY DEF UpdateLink, Topologies, Row

LEMMA RemoveLinkType ==
  ASSUME NEW t \in Topologies, NEW a \in Node, NEW b \in Node
  PROVE  RemoveLink(t, a, b) \in Topologies
  BY DEF RemoveLink, Topologies, Row

LEMMA RemoveNodeEdges ==
  ASSUME NEW t \in Topologies, NEW n \in Node, NEW a \in Node, NEW b \in Node
  PROVE  RemoveNode(t, n).edges[a][b] =
           IF a = n \/ (b = n /\ HasLink(t, n, a)) THEN NoLink ELSE t.edges[a][b]
  BY DEF RemoveNode, Topologies, Row, EmptyRow

LEMMA UpdateLinkEdges ==
  ASSUME NEW t \in Topologies, NEW a \in Node, NEW b \in Node, NEW c,
         NEW x \in Node, NEW y \in Node
  PROVE  UpdateLink(t, a, b, c).edges[x][y] =
           IF (x = a /\ y = b) \/ (x = b /\ y = a) THEN c ELSE t.edges[x][y]
  BY DEF UpdateLink, Topologies, Row

LEMMA RemoveLinkEdges ==
  ASSUME NEW t \in Topologies, NEW a \in Node, NEW b \in Node,
         NEW x \in Node, NEW y \in Node
  PROVE  RemoveLink(t, a, b).edges[x][y] =
           IF (x = a /\ y = b) \/ (x = b /\ y = a) THEN NoLink ELSE t.edges[x][y]
  BY DEF RemoveLink, Topologies, Row

\* RemoveNode leaves no row that mentions the node - given that the graph was
\* undirected (node.go: RemoveNode walks only the removed node's row).
THEOREM RemoveNodeIsolates ==
  ASSUME NEW t \in Topologies, NEW n \in Node, Symmetric(t)
  PROVE  Isolated(RemoveNode(t, n), n)
<1>1. \A a, b \in Node : RemoveNode(t, n).edges[a][b] =
        IF a = n \/ (b = n /\ t.edges[n][a] # NoLink) THEN NoLink ELSE t.edges[a][b]
  BY RemoveNodeEdges DEF HasLink
<1>2. \A a \in Node : t.edges[a][n] = t.edges[n][a]
  BY DEF Symmetric
<1>3. QED
  BY <1>1, <1>2 DEF Isolated, HasLink

\* RemoveNode keeps the graph undirected (node.go: RemoveNode).
THEOREM RemoveNodeSymmetric ==
  ASSUME NEW t \in Topologies, NEW n \in Node, Symmetric(t)
  PROVE  Symmetric(RemoveNode(t, n))
<1>1. \A a, b \in Node : RemoveNode(t, n).edges[a][b] =
        IF a = n \/ (b = n /\ t.edges[n][a] # NoLink) THEN NoLink ELSE t.edges[a][b]
  BY RemoveNodeEdges DEF HasLink
<1>2. QED
  BY <1>1 DEF Symmetric

\* Both writers of links keep the graph undirected (node.go: UpdateLink,
\* RemoveLink write the two entries of a link in one critical section).
THEOREM LinkWritesSymmetric ==
  ASSUME NEW t \in Topologies, NEW a \in Node, NEW b \in Node, NEW c \in Cost, Symmetric(t)
  PROVE  Symmetric(UpdateLink(t, a, b, c)) /\ Symmetric(RemoveLink(t, a, b))
  BY DEF UpdateLink, RemoveLink, Topologies, Row, Symmetric

=============================================================================
