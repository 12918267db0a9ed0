CONSTANTS
  Replicas = {r1}
  Holders = {}
  MaxGen = 1
  MaxReferences = 0
  MaxFailovers = 0
  Terminal = {}
  LostReplies = TRUE
  FaultsCease = TRUE
SPECIFICATION FairSpec
PROPERTIES LogCatchesUp
CHECK_DEADLOCK FALSE
