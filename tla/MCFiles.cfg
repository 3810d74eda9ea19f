CONSTANTS
  root = root
  dir = dir
  short = short
  long = long
  Nodes = {root, dir, short, long}
  Dirs = {root, dir}
  Root = root
  Unwritten = Unwritten
  MAX_FILDES = 2
  INT_MAX = 3
  Counts = {1, 2}
  FileSize <- MCFileSize
  AT_FDCWD <- MCCwd
  Fds <- MCFds
  Offsets <- MCOffsets
SPECIFICATION FilesSpec
INVARIANTS
  FilesTypeOK
PROPERTIES
  LocksReleased
  
CHECK_DEADLOCK FALSE
