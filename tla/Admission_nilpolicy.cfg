SPECIFICATION FairSpec
CONSTANTS
  Kinds = {"Deployment", "StatefulSet"}
  Configs <- MadeOnly
  LabelSets = {{"a"}, {"a", "b"}, {}}
  Ns <- InNamespace
  OwnerSuffixes = {""}
  Manifests <- NilPolicy
  Orders = {"none", "before", "after"}
  Sizes = {"large"}
  Changes = {"relabel", "pod", "update", "vpa", "resize", "stop"}
  MaxChanges = 4
  MaxErrors = 1
PROPERTY QueueDrains
CHECK_DEADLOCK FALSE
