\* Two replicas that boot, publish, sync and shut down around each other.
SPECIFICATION Spec
CONSTANTS
  r1 = r1
  r2 = r2
  Replicas <- TwoReplicas
  NumWebhooks = 1
  CAValidity = 2
  CARotation = 1
  TLSValidity = 4
  TLSRotation = 1
  UpdateSteps = 2
  MaxTime = 0
  Disruptions = {"stop"}
  MaxDisruptions = 2
SYMMETRY Symmetry
INVARIANTS
  TypeOK
  StoppedCAWithdrawn
PROPERTY
  NoForeignCARemoved
  ImplementsCABundle
