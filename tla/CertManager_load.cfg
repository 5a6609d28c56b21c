\* One replica that crashes while it rotates its CA.
SPECIFICATION Spec
CONSTANTS
  r1 = r1
  r2 = r2
  Replicas <- OneReplica
  NumWebhooks = 2
  CAValidity = 3
  CARotation = 1
  TLSValidity = 4
  TLSRotation = 1
  UpdateSteps = 2
  MaxTime = 2
  Disruptions = {"crash"}
  MaxDisruptions = 1
INVARIANT
  LoadedCAIsValid
