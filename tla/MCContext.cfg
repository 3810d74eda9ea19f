CONSTANTS
  Cpus = {c1, c2}
  Bsp = c1
  UserThreads = {u1, u2}
  KernelThreads = {k1}
  NULL = NULL
SPECIFICATION ContextSpec
INVARIANTS
  ContextTypeOK
  KernelSeesItsCpu
  StackReturned
CHECK_DEADLOCK FALSE
