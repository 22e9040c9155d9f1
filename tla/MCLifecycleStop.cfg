\* A router inside an application, with a log file, and what Stop leaves of it.
SPECIFICATION Spec
CONSTANTS
  Node <- MCNode
  Cost = {1, 2}
  NoLink = NoLink
  Unreadable = Unreadable
  DefaultId <- MCDefaultId
  AppFiles <- MCLogToFile
  TopologyFiles <- MCTopologyFiles
  Members <- MCMembers
  Learnt <- MCLearnt
  Second = 3
  MaxDuration = 511
  MaxRequests = 2
PROPERTY
  StopReleases
CHECK_DEADLOCK FALSE
