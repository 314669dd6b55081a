SPECIFICATION Spec
CONSTANTS
  Procs = {p1, p2}
  ThreadsPerProc = 1
  Objects = {o1, o2}
  Refused = {o2}
  KeepsTags = {p1}
  CacheMax = 2
  MaxOpens = 3
  MaxFaults = 1
  MaxDays = 1
  NoName = NoName
  NoImage = NoImage
  NoHandle = NoHandle
CHECK_DEADLOCK FALSE
INVARIANTS WholeImages OneHandle EmittedOnce LeftoversAreFaults
