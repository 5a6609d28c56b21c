\* One replica, two webhooks, several rotations of both certificates; the chart is
\* applied again once.
SPECIFICATION Spec
CONSTANTS
  r1 = r1
  r2 = r2
  Replicas <- OneReplica
  NumWebhooks = 2
  CAValidity = 7
  CARotation = 2
  TLSValidity = 3
  TLSRotation = 1
  UpdateSteps = 2
  MaxTime = 10
  Disruptions = {"reapply"}
  MaxDisruptions = 1
INVARIANTS
  ServedCertTrusted
  ServedPairMatches
PROPERTY
  ImplementsCABundle
