\* Three routers, a request and the event loop at once, some broadcasts refused.
SPECIFICATION Spec
CONSTANTS
  Node = {s, a, b}
  Self = s
  Cost = {1}
  Caller = {c1}
  Loop = Loop
  NoThread = NoThread
  Calls = {"AddLink", "UnregisterNode", "UnregisterLink", "RegisterNode"}
  TooLong = {b}
  SyncLinks <- MCSyncLinks
  MaxOps = 3
  NoLink = NoLink
  Unread = Unread
INVARIANTS
  TypeOK
  StaleIsOwed
  QuietTableIsCurrent
  OnlyRefusedLinksLag
PROPERTY
  TriggersAreServed
CHECK_DEADLOCK FALSE
