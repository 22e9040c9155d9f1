-------------------------------- MODULE Paths --------------------------------
(***************************************************************************)
(* Chains of links in a graph that is given by some nodes and the row of   *)
(* each: what the routes of a router are about.                            *)
(***************************************************************************)
EXTENDS Topology, Sequences, FiniteSets, Functions

\* The loop-free chains of at least one link from a to b.
Paths(nodes, rows, a, b) ==
  {p \in UNION {[1..len -> nodes] : len \in 2..Cardinality(nodes)} :
     /\ p[1] = a /\ p[Len(p)] = b
     /\ IsInjective(p)
     /\ \A i \in 1..(Len(p) - 1) : rows[p[i]][p[i + 1]] # NoLink}

\* The sum of the costs of a chain's links.
PathCost(rows, p) ==
  LET upTo[i \in 1..Len(p)] == IF i = 1 THEN 0 ELSE upTo[i - 1] + rows[p[i - 1]][p[i]]
  IN  upTo[Len(p)]

=============================================================================
