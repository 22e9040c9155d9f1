----------------------------- MODULE MCRouteNode -----------------------------
(* Instances of RouteNode for TLC.                                         *)
EXTENDS RouteNode, FiniteSets

\* What another router may send: up to two links, none of them a self-link.
MCSyncLinks ==
  {ls \in SUBSET {link \in Link : link.from # link.to} : Cardinality(ls) \in 1..2}

MCOneLink == {ls \in MCSyncLinks : Cardinality(ls) = 1}
=============================================================================
