SPECIFICATION Spec
CONSTANTS
  Kind = "Deployment"
  Pods = {"p1", "p2"}
  Configs <- RouteOnly
  Changes = {"create", "pod", "respec", "deleteBackground"}
  MaxChanges = 6
  MaxErrors = 0
INVARIANT NeverExposedUnlessTarget
CHECK_DEADLOCK FALSE
