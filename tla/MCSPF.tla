-------------------------------- MODULE MCSPF --------------------------------
(* Instances of SPF for TLC.                                               *)
EXTENDS SPF

CONSTANTS s, a, b, c

\* The graphs over some routers, without self-links, that are symmetric.
Graphs(routers, costs) ==
  LET Pairs == {e \in SUBSET routers : Cardinality(e) = 2}
      Edges(w) == [m \in Node |-> [n \in Node |-> IF {m, n} \in Pairs THEN w[{m, n}] ELSE NoLink]]
  IN  {Edges(w) : w \in [Pairs -> costs \cup {NoLink}]}

\* Four routers, at most one missing from the node table; and
MCLarge ==
  [nodes : {ns \in SUBSET Node : Cardinality(Node \ ns) <= 1}, edges : Graphs(Node, {0, 1, 3})]

\* three of them, all there, which are written to while the search runs.
MCSmall == [nodes : {{s, a, b}}, edges : Graphs({s, a, b}, {0, 2})]

MCInitialTopology == MCLarge \cup MCSmall

MCWrittenRow == [Node -> {0, 2, NoLink}]

MCWrittenTopology ==
  {t \in [nodes : SUBSET {s, a, b}, edges : [Node -> MCWrittenRow]] : Isolated(t, c)}
=============================================================================
