SPECIFICATION RewriteSpec
CONSTANTS
  NoName = NoName
  Nul = Nul
  Chars = {x, y}
  x = x
  y = y
  Images <- AllImages
  fgn_renames <- Rules
  Settings <- AllSettings
CHECK_DEADLOCK FALSE
INVARIANTS OtherNamesKept SymbolsAllSeen
