SPECIFICATION FairSpec
CONSTANTS
  Kind = "Deployment"
  Pods = {"p1"}
  Configs <- NamespaceOnly
  Changes = {"create", "pod"}
  MaxChanges = 2
  MaxErrors = 0
PROPERTY TargetServed
CHECK_DEADLOCK FALSE
