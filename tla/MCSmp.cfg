CONSTANTS
  Cpus = {c0, c1, c2}
  Bsp = c0
  Reloads = TRUE
  NULL = NULL
SPECIFICATION FairSpec
INVARIANTS
  TypeOK
  NobodyLeftBehind
  OwnTss
  CalibrationUndisturbed
  IdleRing

  
CHECK_DEADLOCK FALSE
