\* Every graph of four routers, at most one of them missing from the node
\* table, and three routers whose topology is written between any two reads.
SPECIFICATION Spec
CONSTANTS
  s = s
  a = a
  b = b
  c = c
  Node = {s, a, b, c}
  Source = s
  Cost = {0, 1, 2, 3}
  InitialTopology <- MCInitialTopology
  WrittenTopology <- MCWrittenTopology
  MaxWrites = 2
  NoLink = NoLink
  NoNode = NoNode
  Inf = Inf
  Absent = Absent
  Unread = Unread
INVARIANTS
  TypeOK
  RoutesAreShortest
  RoutesFollowLinks
  RoutesAreCertified
PROPERTIES
  SettledIsFinal
  ExpandsOnce
  EveryStepProgresses
  ReadsWhatItNeeds
  Terminates
CHECK_DEADLOCK FALSE
