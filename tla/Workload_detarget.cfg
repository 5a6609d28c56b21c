SPECIFICATION Spec
CONSTANTS
  Kind = "Deployment"
  Pods = {"p1"}
  Configs <- RouteOnly
  Changes = {"create", "pod", "respec"}
  MaxChanges = 3
  MaxErrors = 0
INVARIANT PrunedCompletely
CHECK_DEADLOCK FALSE
