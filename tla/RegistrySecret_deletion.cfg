SPECIFICATION FairSpec
CONSTANTS
  Deployments = {"d1"}
  StatefulSets = {"s1"}
  Namespaces = {"n1"}
  NsOf <- MCNsOf
  MaxData = 2
  SourceLabelled = TRUE
  Changes = {"rotate", "deleteSource", "recreateSource", "create", "pods", "respec", "relabel", "deleteForeground", "deleteBackground", "restart"}
  MaxChanges = 4
  Pace = "free"
  FailingCalls = {"create", "delete", "update", "finalizer"}
  MaxErrors = 1
INVARIANT TypeOK
PROPERTY SourceDeletionCompletes
CHECK_DEADLOCK FALSE
