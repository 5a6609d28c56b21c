SPECIFICATION FairSpec
CONSTANTS
  Deployments = {"d1", "d2"}
  StatefulSets = {"s1"}
  Namespaces = {"n1", "n2"}
  NsOf <- MCNsOf
  MaxData = 2
  SourceLabelled = TRUE
  Changes = {"rotate", "deleteSource", "create", "pods", "respec", "deleteForeground"}
  MaxChanges = 8
  Pace = "settled"
  FailingCalls = {"create", "delete", "finalizer"}
  MaxErrors = 1
INVARIANTS CopyForEveryTarget NoCopyWithoutTarget CopiesCurrent
PROPERTIES NoCopyOfReleasedSource TargetGetsCopy
CHECK_DEADLOCK FALSE
