SPECIFICATION Spec
CONSTANTS
  Kind = "Deployment"
  Pods = {"p1"}
  Configs <- RouteOnly
  Changes = {"create", "pod", "relabel"}
  MaxChanges = 3
  MaxErrors = 0
INVARIANT NotExposedUnlessTarget
CHECK_DEADLOCK FALSE
