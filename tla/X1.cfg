SPECIFICATION Spec
CONSTANTS
  Kind = "Deployment"
  Pods = {"p1"}
  Configs <- RouteOnly
  Changes = {"create", "pod", "latePod", "respec", "deleteBackground", "remove", "restart"}
  MaxChanges = 6
  MaxErrors = 1
INVARIANTS DependenciesReady NotExposedUnlessTarget
CHECK_DEADLOCK FALSE
