SPECIFICATION FairSpec
CONSTANTS
  Names = {"oidc-apps", "named"}
  Confs <- SomeConfs
  Edits <- SomeEdits
  MaxChanges = 2
  MaxErrors = 1
PROPERTY OrphansRemoved
CHECK_DEADLOCK FALSE
