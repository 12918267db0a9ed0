CONSTANTS
  x1 = x1  x2 = x2  c1 = c1  c2 = c2
  Resources = {x1}
  Consumers = {c1, c2}
  Singles = {c2}
  MaxChanges = 2
  MaxFaults = 1
  StaleReads = FALSE
SPECIFICATION FairSpec
CHECK_DEADLOCK FALSE
INVARIANTS UsedIsHeld RemovedIsGone
PROPERTIES OwnReferencesOnly DeletionUnblocked
