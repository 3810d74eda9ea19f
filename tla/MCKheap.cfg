CONSTANTS
  Cpus = {c1, c2}
  Limit = 6
  FRAME_SIZE = 4096
  HEADER_SIZE = 24
  NODE_SIZE = 32
  Sizes = {4060, 4096, 8192}
  MaxBlocks = 3
SPECIFICATION Spec
SYMMETRY Symmetry
INVARIANTS
  TypeOK
  
PROPERTIES
  UsedBlocksStay
CHECK_DEADLOCK FALSE
