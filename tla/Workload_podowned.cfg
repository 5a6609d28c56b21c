SPECIFICATION Spec
CONSTANTS
  Kind = "StatefulSet"
  Pods = {"p1"}
  Configs <- RouteOnly
  Changes = {"create", "pod", "respec"}
  MaxChanges = 3
  MaxErrors = 0
INVARIANT NotExposedUnlessTarget
CHECK_DEADLOCK FALSE
