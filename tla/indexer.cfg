SPECIFICATION IndexerSpec
CONSTANTS
  INDEXED_ACTIONS <- MCIndexed
  BlockShapes <- MCBlocks
  WindowBlocks = 1
  QueryLimit = 5
  MaxBlocks = 3
  MaxFailures = 2
INVARIANTS
  ScanCoversItsRange
PROPERTIES
  NoDuplicateRows
  EventuallyRecorded
