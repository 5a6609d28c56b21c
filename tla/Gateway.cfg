SPECIFICATION FairSpec
CONSTANTS
  Names = {"oidc-apps", "named"}
  Confs <- SomeConfs
  Edits <- SomeEdits
  MaxChanges = 3
  MaxErrors = 1
INVARIANT TypeOK
PROPERTIES ForeignGatewaysKept GatewayConverges RouteAttached
CHECK_DEADLOCK FALSE
