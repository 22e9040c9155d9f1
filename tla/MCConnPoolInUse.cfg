\* A connection is closed under a call: two goroutines, one next hop, two addresses and one that NewClient rejects.
SPECIFICATION Spec
CONSTANTS
  Goroutine = {g1, g2}
  Peer = {m1}
  Address = {x, y, z}
  Refused = {z}
  Nobody = Nobody
  MaxCalls = 2
  MaxChanges = 0
PROPERTY
  InUseStaysOpen
CHECK_DEADLOCK FALSE
