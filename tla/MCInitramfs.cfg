CONSTANTS
  Sectors = {0, 1, 6, 7, 8, 15}
  Archives <- MCArchives
SPECIFICATION WalkSpec
INVARIANTS
  
  UnreadKept
PROPERTIES
  FreedOnce
CHECK_DEADLOCK FALSE
