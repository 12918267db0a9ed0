CONSTANTS
  x1 = x1  x2 = x2  c1 = c1  c2 = c2
  Resources = {x1}
  Consumers = {c1}
  Singles = {}
  MaxChanges = 2
  MaxFaults = 0
  StaleReads = TRUE
SPECIFICATION Spec
CHECK_DEADLOCK FALSE
INVARIANTS RemovedIsGone
