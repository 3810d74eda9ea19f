CONSTANTS
  Cpus = {c1}
  Limit = 3
  FRAME_SIZE = 4096
  HEADER_SIZE = 24
  NODE_SIZE = 32
  Sizes = {72, 1000, 2952}
  MaxBlocks = 4
SPECIFICATION Spec
SYMMETRY Symmetry
INVARIANTS
  UsedBlocksNotFree
CHECK_DEADLOCK FALSE
