\* Two routers, links added and removed, sync switched on and off, one fault.
SPECIFICATION Spec
CONSTANTS
  n1 = n1
  n2 = n2
  n3 = n3
  Node = {n1, n2}
  Cost = {1, 2}
  Config <- MCOneEdge
  Calls = {"AddLink", "UnregisterLink", "EnableSync"}
  MaxSyncLinks = 9
  MaxOps = 2
  MaxFaults = 1
  MaxBroadcasts = 3
  NoLink = NoLink
INVARIANTS
  TypeOK
  NoInventedCosts
PROPERTIES
  AgreementLasts
  Converges
CHECK_DEADLOCK FALSE
