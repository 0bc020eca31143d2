SPECIFICATION Spec
CONSTANTS
  Writers = {w1}
  Gateways = {g1}
  MaxSerial = 3
  MaxFaults = 2
  StaleFeed = TRUE
INVARIANTS
  TypeOK
  PointerComplete
  MarkWasInForce
  ServesActivated
  KeepsProtection
  RestoresPrevious
PROPERTIES
  SyncNeverPointsBack
  MarkMonotone
