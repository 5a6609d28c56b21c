SPECIFICATION Spec
CONSTANTS
  Deployments = {"d1"}
  StatefulSets = {"s1"}
  Namespaces = {"n1"}
  NsOf <- MCNsOf
  MaxData = 2
  SourceLabelled = TRUE
  Changes = {"create", "pods", "deleteForeground"}
  MaxChanges = 6
  Pace = "idle"
  FailingCalls = {}
  MaxErrors = 0
INVARIANT NoCopyWithoutTarget
CHECK_DEADLOCK FALSE
