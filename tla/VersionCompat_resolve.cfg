SPECIFICATION Spec
CONSTANTS
  NoName = NoName
  Null = Null
  s1 = s1
  s2 = s2
  Threads = {t1, t2}
  Symbols = {s1, s2}
  Libcs <- AllLibcs
  Reenters = {s2}
  MaxCalls = 2
CHECK_DEADLOCK FALSE
INVARIANTS SlotsAreDefault NeverWorse OneLevel
