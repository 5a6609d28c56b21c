SPECIFICATION FairSpec
CONSTANTS
  Deployments = {"d1"}
  StatefulSets = {}
  Namespaces = {"n1"}
  NsOf <- MCNsOf
  MaxData = 2
  SourceLabelled = FALSE
  Changes = {"create", "pods"}
  MaxChanges = 2
  Pace = "settled"
  FailingCalls = {}
  MaxErrors = 0
PROPERTY TargetGetsCopy
CHECK_DEADLOCK FALSE
