\* Two goroutines, one next hop, two addresses and one that NewClient rejects.
SPECIFICATION Spec
CONSTANTS
  Goroutine = {g1, g2}
  Peer = {m1}
  Address = {x, y, z}
  Refused = {z}
  Nobody = Nobody
  MaxCalls = 3
  MaxChanges = 2
INVARIANTS
  TypeOK
  NoConnectionLeaks
PROPERTIES
  StaleOnlyWhileReady
  CallsReturn
CHECK_DEADLOCK FALSE
