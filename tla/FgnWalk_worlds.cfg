SPECIFICATION FairSpec
CONSTANTS
  a = a
  b = b
  c = c
  m = m
  Musl = Musl
  None = None
  Sonames = {a, b, c, m}
  CoreSonames = {m}
  Worlds <- AllWorlds
  MaxDepth = 3
  MaxOpens = 2
CHECK_DEADLOCK FALSE
INVARIANTS TypeOK BundledWins OneOfEach KeptObjectsLoad MuslStaysOut OneRefusalOpens
PROPERTIES EveryOpenReturns
