CONSTANTS
  Keys = {k1}
  Vals = {a, b}
  Absent = absent
  Writers = {w1, w2}
  Callers = {c1}
  Readers = {r1}
  MaxVersion = 2
  MaxTicks = 1
  MaxCalls = 1
  SingletonWrites = FALSE
  EarlyCallers = FALSE
  RefreshPanics = TRUE
SPECIFICATION Spec
SYMMETRY Symmetry
INVARIANTS MemoSound InvalidateConverges
PROPERTIES EpochStable
CHECK_DEADLOCK FALSE
