\* One replica and the two webhooks of the chart; the CA is wiped from both.
SPECIFICATION Spec
CONSTANTS
  r1 = r1
  r2 = r2
  Replicas <- OneReplica
  NumWebhooks = 2
  CAValidity = 3
  CARotation = 1
  TLSValidity = 4
  TLSRotation = 1
  UpdateSteps = 2
  MaxTime = 0
  Disruptions = {"reapply"}
  MaxDisruptions = 1
INVARIANT
  OneCopyOfEachCA
