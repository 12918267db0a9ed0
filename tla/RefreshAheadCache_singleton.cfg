CONSTANTS
  Keys = {k1, k2}
  Vals = {a}
  Absent = absent
  Writers = {w1}
  Callers = {c1, c2}
  Readers = {}
  MaxVersion = 1
  MaxTicks = 0
  MaxCalls = 2
  SingletonWrites = TRUE
  EarlyCallers = FALSE
  RefreshPanics = TRUE
SPECIFICATION FairSpec
INVARIANTS ReadYourWrites InvalidateFresh OneSender
PROPERTIES NeverGoesBack InvalidateReturns
CHECK_DEADLOCK FALSE
