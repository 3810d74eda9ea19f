CONSTANTS
  Cpus = {c0, c1}
  Bsp = c0
  Threads = {kernel, user}
  kernel = kernel
  user = user
  Root = kernel
  Creates <- MCCreates
  Ends = {kernel}
  TIME_QUANTUM = 3
  NULL = NULL
SPECIFICATION Spec
INVARIANTS
  DeadThreadNotPicked
CHECK_DEADLOCK FALSE
