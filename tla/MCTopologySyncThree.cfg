\* Three routers, one fault, and a configured edge nobody was told about.
SPECIFICATION Spec
CONSTANTS
  n1 = n1
  n2 = n2
  n3 = n3
  Node = {n1, n2, n3}
  Cost = {1, 2}
  Config <- MCOneEdge
  Calls = {}
  MaxSyncLinks = 9
  MaxOps = 0
  MaxFaults = 1
  MaxBroadcasts = 3
  NoLink = NoLink
PROPERTIES
  RemovedWithItsLinks
  Converges
CHECK_DEADLOCK FALSE
