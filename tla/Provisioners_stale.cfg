CONSTANTS
  None = None
  Apps = {"cluster"}
  Remote = {}
  ClusterApp = "cluster"
  MaxGen = 1
  Versions <- MCVersions
  WantedVersion <- MCWantedVersion
  Generator <- MCGenerator
  ResourceLabels <- MCLabels
  LabelOrder <- MCLabelOrder
  AllowDegraded = {"cluster"}
  Lag = TRUE
  Nodes <- LoneNodes
  Root = "root"
  Kind <- LoneKind
  Children <- LoneChildren
  Condition <- MCCondition
  Background = {}
  Controller = TRUE
  MaxFaults = 0
SPECIFICATION LagSpec
INVARIANTS Gating
CHECK_DEADLOCK FALSE
