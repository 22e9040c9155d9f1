\* A router fails and the others hear of it one after the other.
SPECIFICATION Spec
CONSTANTS
  n1 = n1
  n2 = n2
  n3 = n3
  Node = {n1, n2, n3}
  Cost = {1, 2}
  Config <- MCOneEdge
  Calls = {"AddLink", "EnableSync"}
  MaxSyncLinks = 9
  MaxOps = 0
  MaxFaults = 1
  MaxBroadcasts = 3
  NoLink = NoLink
INVARIANT
  DepartedIsForgotten
CHECK_DEADLOCK FALSE
