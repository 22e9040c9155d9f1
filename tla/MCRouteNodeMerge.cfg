\* A request changes a link between the two halves of a merge.
SPECIFICATION Spec
CONSTANTS
  Node = {s, a}
  Self = s
  Cost = {1, 2}
  Caller = {c1}
  Loop = Loop
  NoThread = NoThread
  Calls = {"AddLink"}
  TooLong = {}
  SyncLinks <- MCOneLink
  MaxOps = 3
  NoLink = NoLink
  Unread = Unread
PROPERTY
  SyncTakesTheSmallerCost
CHECK_DEADLOCK FALSE
