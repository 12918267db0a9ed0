CONSTANTS
  None = None
  Apps = {"cluster", "a", "b"}
  Remote = {"a", "b"}
  ClusterApp = "cluster"
  MaxGen = 2
  Versions <- MCVersions
  WantedVersion <- MCWantedVersion
  Generator <- MCGenerator
  ResourceLabels <- MCLabels
  LabelOrder <- MCLabelOrder
  AllowDegraded = {"cluster"}
  Lag = FALSE
  Nodes <- MCNodes
  Root = "root"
  Kind <- MCKind
  Children <- MCChildren
  Condition <- MCCondition
  Background = {"onB"}
  Controller = TRUE
  MaxFaults = 1
SPECIFICATION FairSpec
INVARIANTS TypeOK ListedAsRequested
PROPERTIES  CreatedInOrder TornDownInReverse  Settles
CHECK_DEADLOCK FALSE
