SPECIFICATION FairSpec
CONSTANTS
  Kind = "StatefulSet"
  Pods = {"p1", "p2"}
  Configs <- RouteAndCa
  Changes = {"create", "pod", "remove", "restart"}
  MaxChanges = 4
  MaxErrors = 1
INVARIANT DependenciesReady
PROPERTY TargetServed
CHECK_DEADLOCK FALSE
