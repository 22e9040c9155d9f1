\* A request that fails halfway leaves the route table behind.
SPECIFICATION Spec
CONSTANTS
  Node = {s, a}
  Self = s
  Cost = {1, 2}
  Caller = {c1}
  Loop = Loop
  NoThread = NoThread
  Calls = {"AddLink"}
  TooLong = {}
  SyncLinks <- MCOneLink
  MaxOps = 3
  NoLink = NoLink
  Unread = Unread
INVARIANT
  TableFollowsTopology
CHECK_DEADLOCK FALSE
