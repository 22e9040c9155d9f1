------------------------------- MODULE EdgeIds -------------------------------
(***************************************************************************)
(* The name of an undirected link (makeEdgeID of internal/route/node.go):  *)
(* its ends in order, with a hyphen between them.  Router ids may contain  *)
(* hyphens themselves (the default one does: node-<port>), so strings are  *)
(* sequences of character codes here.                                      *)
(***************************************************************************)
EXTENDS Naturals, Sequences

Hyphen == 45

Strings == Seq(Nat)

\* Go's < on strings: the first place where they differ decides, and a
\* beginning comes before what it begins.
Before(s, t) ==
  \E i \in 1..Len(t) : /\ i - 1 <= Len(s)
                       /\ \A j \in 1..(i - 1) : s[j] = t[j]
                       /\ i <= Len(s) => s[i] < t[i]

\* Mutant of makeEdgeID: nothing between the ends.
makeEdgeIDPlain(from, to) == IF Before(from, to) THEN from \o to ELSE to \o from

makeEdgeID(from, to) ==
  IF Before(from, to) THEN from \o <<Hyphen>> \o to ELSE to \o <<Hyphen>> \o from

-----------------------------------------------------------------------------

\* s reads on after t, with a hyphen first.
Extends(s, t) ==
  /\ Len(s) > Len(t)
  /\ \A i \in 1..Len(t) : s[i] = t[i]
  /\ s[Len(t) + 1] = Hyphen

\* No id is another one with a hyphen and more behind it.
Unmistakable(ids) == \A s, t \in ids : ~Extends(s, t)

=============================================================================
