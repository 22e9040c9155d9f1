\* Packets to one router d, from everywhere, over every combination of tables.
SPECIFICATION Spec
CONSTANTS
  Node = {a, b, d}
  Destination = {d}
  Packet = {p}
  None = None
  MaxFrames = 5
  MaxChanges = 1
  MaxFaults = 1
INVARIANTS
  TypeOK
  PacketsConserved
  FailureIsHonest
  LoopsNeedDisagreement
PROPERTIES
  ImplementsDelivery
  SendsReturn
CHECK_DEADLOCK FALSE
