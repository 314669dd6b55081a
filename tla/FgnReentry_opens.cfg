SPECIFICATION FairSpec
CONSTANTS
  Threads = {t1, t2}
  Files = {f1, f2}
  Bundled = {f2}
  FGN_PROV_FILES = 1
  MaxDepth = 2
  MaxOpens = 2
  MaxDeps = 1
  NoFile = NoFile
  NoPath = NoPath
  NoThread = NoThread
CHECK_DEADLOCK FALSE
INVARIANTS OneEntryPerFile StackIsOwn
PROPERTIES OpensReturn
