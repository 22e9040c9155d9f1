----------------------------- MODULE MCLifecycle -----------------------------
(* Instances of Lifecycle for TLC. The ids are a, b, bb, ab and n-5: without   *)
(* a hyphen, the links a-bb and ab-b would bear the same name.                 *)
EXTENDS Lifecycle

A == <<97>>
B == <<98>>
BB == <<98, 98>>
AB == <<97, 98>>
MCDefaultId == <<110, 45, 53>>
MCNode == {A, B, BB, AB, MCDefaultId}

\* Files that are missing or empty, and with an interval that is negative
\* or does not fit a time.Duration of 10 bits.
MCAppFiles ==
  {Unreadable, [output |-> "", interval |-> 0],
   [output |-> "stdout", interval |-> -5], [output |-> "stdout", interval |-> 200]}

\* A log file is opened.
MCLogToFile == {[output |-> "file", interval |-> 30]}

\* A router named twice, a link given twice with different costs, once from
\* each end, and a link of b that is none of a.
MCTopologyFiles ==
  {Unreadable,
   [nodes |-> <<[id |-> A, join |-> FALSE], [id |-> B, join |-> TRUE], [id |-> A, join |-> TRUE]>>,
    edges |-> <<[from |-> A, to |-> B, cost |-> 1], [from |-> A, to |-> BB, cost |-> 2],
                [from |-> AB, to |-> B, cost |-> 1], [from |-> B, to |-> A, cost |-> 2]>>]}

\* A link of routers further away to a, a configured one to b.
MCLearnt == {[from |-> AB, to |-> B, cost |-> 2]}

MCMembers == {A, B}

=============================================================================
