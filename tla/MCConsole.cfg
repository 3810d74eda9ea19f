CONSTANTS
  Cpus = {c0, c1}
  Bsp = c0
  NULL = NULL
  MaxCalls = 3
SPECIFICATION FairPrintSpec
INVARIANTS
  OutputWhole
  DevicesFree
PROPERTIES
  LockReleased
CHECK_DEADLOCK FALSE
