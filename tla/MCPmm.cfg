CONSTANTS
  Cpus = {c1, c2}
  Limit = 5
  FRAME_SIZE = 4
  Wants = {0, 3}
  Sizes = {5}
  BITS = 2
  Boot = c1
  MemoryMaps <- MCMemoryMaps
SPECIFICATION MCSpec
INVARIANTS
  TypeOK
  Exclusive
  
PROPERTIES
  NullOnlyWhenFull
  ImplementsFrameAllocator
  LockIsReleased
CHECK_DEADLOCK FALSE
