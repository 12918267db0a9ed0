SPECIFICATION Spec
CONSTANTS
  Parents = {"p1", "p2"}
  Children = {"c1", "c2", "c3"}
  Doomed = {"p1"}
  ParentOf <- MCParentOf
  Consumers <- MCConsumers
  SagaLen = 4
  Compensable <- MCCompensable
  SagaErrors <- MCSagaErrors
  Requests <- MCRequests
  Routed <- MCRouted
  Operations <- MCOperations
  AllowedOrigins <- MCAllowedOrigins
  Downstreams <- MCDownstreams
  Fields <- MCFields
  Callers = {"u1", "u2", "u3"}
  Invariants = {"i1", "i2"}
  Ids = {"1", "a", "b"}
  Letters = {"a", "b"}
  Hash <- MCHash
  InvariantOf <- MCInvariantOf
  Metadata <- MCMetadata
  MaxUpdates = 1
  Resources = {"r1", "r2"}
  DependsOn <- MCDependsOn
  None = None
  Intervals = {0, 2}
  MaxRotations = 2
  MaxClock = 5
  Refresh = 2
  MaxTime = 5
  LRUKeys = {"k1", "k2", "k3"}
  Heap = {"h1", "h2", "h3", "h4"}
  Contents = {"x", "y"}
  MaxSize = 2
INVARIANTS OwnChildrenOnly NoEventLost AllOrNothing AnswerMatchesEffects ErrorsKeepStatus NoDuplicates ReadsBack  ServedInTime CachedIsAdded
PROPERTIES PresentsFresh RefusedOnlyAfterRotation CascadeCompletes RetryEnds
CHECK_DEADLOCK FALSE
