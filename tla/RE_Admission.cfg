SPECIFICATION Spec
CONSTANTS
  Words = {"addr", "sk", "corp", "Corp", "t"}
  FoldOf <- MCFoldOf
  Empty = ""
  Ids = {"email", "p1", "p2", "prefix", "r1", "r2"}
  IdOrder <- MCOrder
  DetectorTable <- MCTable
  Detects <- MCDetects
  Categories = {"email", "api_key"}
  MaxRules = 2
  MaxMatches = 2
  Documents <- MCDocuments
  Batches <- MCBatches
  Bodies <- MCBodies
  MaxEntries = 4
INVARIANTS TypeOK DocumentsWhole ResponseNeverRedacted BlockWins PackNeverWeakens
PROPERTY PathsAgree
CHECK_DEADLOCK FALSE
