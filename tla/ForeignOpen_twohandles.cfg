SPECIFICATION Spec
CONSTANTS
  Procs = {p1}
  ThreadsPerProc = 2
  Objects = {o1}
  Refused = {}
  KeepsTags = {}
  CacheMax = 1
  MaxOpens = 1
  MaxFaults = 0
  MaxDays = 0
  NoName = NoName
  NoImage = NoImage
  NoHandle = NoHandle
CHECK_DEADLOCK FALSE
INVARIANTS OneHandle
