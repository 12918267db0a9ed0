CONSTANTS
  Keys = {k1}
  Vals = {a}
  Absent = absent
  Writers = {}
  Callers = {c1}
  Readers = {}
  MaxVersion = 1
  MaxTicks = 0
  MaxCalls = 1
  SingletonWrites = TRUE
  EarlyCallers = TRUE
  RefreshPanics = FALSE
SPECIFICATION FairSpec
PROPERTIES RunUnblocksCallers
CHECK_DEADLOCK FALSE
