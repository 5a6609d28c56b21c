SPECIFICATION Spec
CONSTANTS
  Deployments = {"d1"}
  StatefulSets = {}
  Namespaces = {"n1"}
  NsOf <- MCNsOf
  MaxData = 2
  SourceLabelled = TRUE
  Changes = {"create", "pods", "deleteBackground"}
  MaxChanges = 3
  Pace = "settled"
  FailingCalls = {}
  MaxErrors = 0
INVARIANT NoCopyWithoutTarget
CHECK_DEADLOCK FALSE
