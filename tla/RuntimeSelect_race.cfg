SPECIFICATION Spec
CONSTANTS
  d64 = d64
  e64 = e64
  d32 = d32
  NoDir = NoDir
  Dirs = {d64, e64, d32}
  Class <- MCClass
  Launchers = {p1, p2}
  Hosts <- WholeHosts
  Configs <- OneConfig
  MaxLaunches = 2
  MaxFaults = 0
CHECK_DEADLOCK FALSE
INVARIANTS NeverMixed
