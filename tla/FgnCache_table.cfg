SPECIFICATION FairSpec
CONSTANTS
  Threads = {t1, t2}
  Keys = {k1, k2}
  Handles = {h1, h2}
  CacheMax = 2
  MaxDepth = 2
  MaxOpens = 2
  NoKey = NoKey
  NoHandle = NoHandle
CHECK_DEADLOCK FALSE
INVARIANTS TypeOK ScannedOnce VersionsBeforeLoad NoTornEntry
PROPERTIES AnswersNeverChange ImplementsHandleMap EveryOpenReturns
