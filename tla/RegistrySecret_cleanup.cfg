SPECIFICATION Spec
CONSTANTS
  Deployments = {"d1"}
  StatefulSets = {"s1"}
  Namespaces = {"n1"}
  NsOf <- MCNsOf
  MaxData = 2
  SourceLabelled = TRUE
  Changes = {"create", "pods", "respec"}
  MaxChanges = 5
  Pace = "free"
  FailingCalls = {}
  MaxErrors = 0
INVARIANT CopyForEveryTarget
CHECK_DEADLOCK FALSE
