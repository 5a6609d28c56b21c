SPECIFICATION Spec
CONSTANTS
  Deployments = {"d1"}
  StatefulSets = {}
  Namespaces = {"n1"}
  NsOf <- MCNsOf
  MaxData = 2
  SourceLabelled = TRUE
  Changes = {"create", "pods", "rotate"}
  MaxChanges = 3
  Pace = "free"
  FailingCalls = {}
  MaxErrors = 0
INVARIANT CopiesCurrent
CHECK_DEADLOCK FALSE
