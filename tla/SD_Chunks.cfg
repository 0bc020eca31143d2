SPECIFICATION DecoderSpec
CONSTANTS
  Alphabet <- MCAlphabet
  MaxCells = 6
INVARIANTS
  ChunkInvariant
  Partition
CHECK_DEADLOCK FALSE
