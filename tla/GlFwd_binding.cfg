SPECIFICATION FairSpec
CONSTANTS
  Threads = {t1, t2}
  Count = 2
  Plugins = TRUE
  MaxCalls = 2
  None = None
CHECK_DEADLOCK FALSE
INVARIANTS TypeOK OneLoader AnswersAreTheHosts CountsAreNames
PROPERTIES SlotsSettle ImplementsBinding WaitEndsButForPlugins
