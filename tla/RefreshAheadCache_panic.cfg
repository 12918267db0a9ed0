CONSTANTS
  Keys = {k1}
  Vals = {a}
  Absent = absent
  Writers = {}
  Callers = {c1}
  Readers = {}
  MaxVersion = 1
  MaxTicks = 0
  MaxCalls = 1
  SingletonWrites = TRUE
  EarlyCallers = FALSE
  RefreshPanics = TRUE
SPECIFICATION Spec
INVARIANTS InvalidateGuarantee
CHECK_DEADLOCK FALSE
