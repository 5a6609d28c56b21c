SPECIFICATION Spec
CONSTANTS
  Kind = "Deployment"
  Pods = {"p1"}
  Configs <- RouteOnly
  Changes = {"create", "latePod"}
  MaxChanges = 2
  MaxErrors = 0
INVARIANT ServedAfterEveryPod
CHECK_DEADLOCK FALSE
