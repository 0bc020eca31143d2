SPECIFICATION Spec
CONSTANTS
  Tokens <- MCTokens
  Secret <- MCSecret
  Events <- MCEvents
  NoIdentity = "none"
  Budget = 12
  MaxEvents = 4
INVARIANTS
  TypeOK
  InOrder
  Conserved
  HeldBounded
  RawRestored
  HeldSplitRestored
CHECK_DEADLOCK FALSE
