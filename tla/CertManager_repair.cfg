\* Liveness: one replica
SPECIFICATION FairSpec
CONSTANTS
  r1 = r1
  r2 = r2
  Replicas <- OneReplica
  NumWebhooks = 2
  CAValidity = 3
  CARotation = 1
  TLSValidity = 4
  TLSRotation = 1
  UpdateSteps = 1
  MaxTime = 3
  Disruptions = {"crash", "stop", "replace", "reapply", "apiError"}
  MaxDisruptions = 1
INVARIANT
  StoppedCAWithdrawn
PROPERTY
  CAEventuallyPublished
