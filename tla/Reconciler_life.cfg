CONSTANTS
  Replicas = {r1}
  Holders = {h1}
  MaxGen = 2
  MaxReferences = 1
  MaxFailovers = 0
  Terminal = {1}
  LostReplies = TRUE
  FaultsCease = TRUE
SPECIFICATION FairSpec
INVARIANTS NoOrphans
PROPERTIES Converges
CHECK_DEADLOCK FALSE
