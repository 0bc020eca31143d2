SPECIFICATION Spec
CONSTANTS
  Words = {"addr", "sk", "corp", "Corp", "t"}
  FoldOf <- MCFoldOf
  Empty = ""
  Ids = {"email", "p1", "p2", "prefix", "r1", "r2"}
  IdOrder <- MCOrder
  DetectorTable <- MCTable
  Detects <- MCDetects
  Categories = {"email", "api_key"}
  MaxRules = 2
  MaxMatches = 2
  Documents <- MCTruncating
  Batches <- MCBatches
  Bodies <- MCLongBodies
  MaxEntries = 3
INVARIANT NothingTruncated
CHECK_DEADLOCK FALSE
