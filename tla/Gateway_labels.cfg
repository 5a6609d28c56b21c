SPECIFICATION FairSpec
CONSTANTS
  Names = {"oidc-apps", "named"}
  Confs <- Relabelled
  Edits <- SomeEdits
  MaxChanges = 2
  MaxErrors = 1
PROPERTY GatewayConvergesAlways
CHECK_DEADLOCK FALSE
