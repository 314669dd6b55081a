SPECIFICATION Spec
CONSTANTS
  a = a
  b = b
  c = c
  NoDir = NoDir
  Dirs <- ThreeDirs
  Hosts <- AllHosts
  LDCONF_MAX_DEPTH = 2
  LDCONF_DEFAULT_BUDGET = 4
  MaxNames = 2
CHECK_DEADLOCK FALSE
INVARIANTS DirsInFileOrder TargetIsBest
