SPECIFICATION FairSpec
CONSTANTS
  Kinds = {"Deployment", "StatefulSet"}
  Configs <- MadeOnly
  LabelSets = {{"a"}, {"a", "b"}, {}}
  Ns <- InNamespace
  OwnerSuffixes = {""}
  Manifests <- SomeVpas
  Orders = {"none", "before", "after"}
  Sizes = {"large"}
  Changes = {"relabel", "pod", "update", "vpa", "resize", "stop"}
  MaxChanges = 4
  MaxErrors = 1
PROPERTY NoTargetWithoutSidecars
CHECK_DEADLOCK FALSE
