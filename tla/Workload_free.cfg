SPECIFICATION FairSpec
CONSTANTS
  Kind = "StatefulSet"
  Pods = {"p1"}
  Configs <- RouteOnly
  Changes = {"create", "pod", "latePod", "respec", "relabel", "deleteForeground", "deleteBackground", "edit", "remove", "restart"}
  MaxChanges = 4
  MaxErrors = 1
INVARIANT TypeOK
PROPERTIES CookieStable NothingLeftBehind
CHECK_DEADLOCK FALSE
