CONSTANTS
  Cpus = {c1, c2}
  kernel = kernel
  Limit = 22
  ENTRIES = 2
  KERNEL_OFFSET = 15
  KernelPhys = 0
  KernelLength = 1
  HHDM_OFFSET = 8
  PhysEnd = 2
  Programs <- MCPrograms
  STACK_SIZE = 1
  thread_stack_top = 2
  AnonBase = 3
  Lengths = {1}
  Hints = {0, 1}
  NULL = NULL
SPECIFICATION FairSpec
INVARIANTS
  TypeOK
  
PROPERTIES
  
  LockReleasedOrFault
CHECK_DEADLOCK FALSE
