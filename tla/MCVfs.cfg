CONSTANTS
  Names = {"a", "b"}
  Hash <- MCHash
  FRAME_SIZE = 2
  Sizes = {1, 2, 3}
  MaxDepth = 3
  MaxNodes = 11
SPECIFICATION VfsSpec
INVARIANTS
  PathsLead
  DataFits
PROPERTIES
  PathsStay
CHECK_DEADLOCK FALSE
