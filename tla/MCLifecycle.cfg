\* Files missing, incomplete and wrong, every way to name the router, events that
\* add and take away links, and two requests at once.
SPECIFICATION Spec
CONSTANTS
  Node <- MCNode
  Cost = {1, 2}
  NoLink = NoLink
  Unreadable = Unreadable
  DefaultId <- MCDefaultId
  AppFiles <- MCAppFiles
  TopologyFiles <- MCTopologyFiles
  Members <- MCMembers
  Learnt <- MCLearnt
  Second = 3
  MaxDuration = 511
  MaxRequests = 2
INVARIANTS
  TypeOK
  ServesOnlyWhenReady
  TickerIsPositive
  OneEventLoop
PROPERTIES
  EndsAgree
  BroadcastNamesEveryLink
  StopReturns
CHECK_DEADLOCK FALSE
