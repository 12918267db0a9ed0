CONSTANTS
  Replicas = {r1, r2}
  Holders = {h1}
  MaxGen = 1
  MaxReferences = 1
  MaxFailovers = 1
  Terminal = {}
  LostReplies = FALSE
  FaultsCease = FALSE
SPECIFICATION Spec
INVARIANTS DeprovisionUnreferenced ReadyMeansProvisioned QuietMeansSettled
PROPERTIES FinalizerLast LogCommitted
CHECK_DEADLOCK FALSE
