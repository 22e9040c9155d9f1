---------------------------- MODULE MCTopologySync ----------------------------
(* Instances of TopologySync for TLC.                                      *)
EXTENDS TopologySync

CONSTANTS n1, n2, n3

MCNoConfig == [n \in Node |-> {}]

\* n1 is configured with a link to n2.
MCOneEdge == [MCNoConfig EXCEPT ![n1] = {[from |-> n1, to |-> n2, cost |-> 2]}]
=============================================================================
