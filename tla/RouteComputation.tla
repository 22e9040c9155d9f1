-------------------------- MODULE RouteComputation ---------------------------
(***************************************************************************)
(* What RouteManager relies on when it calls ComputeRoutes: the node table *)
(* is read once, every row that can matter is read at most once, and the   *)
(* computation ends only when no such row is left - while other goroutines *)
(* write the topology at will.  SPF implements this.                       *)
(***************************************************************************)
EXTENDS LinkStateView

CONSTANT InitialTopology   \* the topologies a computation may start from

VARIABLES
  topo,    \* the shared topology
  view,    \* what has been read of it
  phase    \* "start", "search" or "done"

vars == <<topo, view, phase>>

Init ==
  /\ topo \in InitialTopology
  /\ view = NoView
  /\ phase = "start"

ReadNodes ==
  /\ phase = "start"
  /\ phase' = "search"
  /\ view' = NodesRead(topo)
  /\ UNCHANGED topo

ReadRow(u) ==
  /\ phase = "search"
  /\ u \in Frontier(view)
  /\ view' = RowRead(view, topo, u)
  /\ UNCHANGED <<topo, phase>>

Finish ==
  /\ phase = "search"
  /\ Frontier(view) = {}
  /\ Self \in Read(view)
  /\ phase' = "done"
  /\ UNCHANGED <<topo, view>>

\* Any other goroutine.
Environment ==
  /\ topo' \in Topologies
  /\ UNCHANGED <<view, phase>>

Next ==
  \/ ReadNodes
  \/ \E u \in Node : ReadRow(u)
  \/ Finish
  \/ Environment

Spec == Init /\ [][Next]_vars

=============================================================================
