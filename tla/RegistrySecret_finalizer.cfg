SPECIFICATION Spec
CONSTANTS
  Deployments = {"d1"}
  StatefulSets = {}
  Namespaces = {"n1"}
  NsOf <- MCNsOf
  MaxData = 2
  SourceLabelled = TRUE
  Changes = {"create", "pods", "deleteSource"}
  MaxChanges = 3
  Pace = "free"
  FailingCalls = {}
  MaxErrors = 0
PROPERTY NoCopyOfReleasedSource
CHECK_DEADLOCK FALSE
