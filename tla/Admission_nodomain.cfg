SPECIFICATION FairSpec
CONSTANTS
  Kinds = {"Deployment", "StatefulSet"}
  Configs <- NoDomainOnly
  LabelSets = {{"a"}, {"a", "b"}, {}}
  Ns <- InNamespace
  OwnerSuffixes = {""}
  Manifests <- SomeVpas
  Orders = {"none", "before", "after"}
  Sizes = {"large"}
  Changes = {"relabel", "pod", "update", "vpa", "resize", "stop"}
  MaxChanges = 4
  MaxErrors = 1
INVARIANT RedirectRouted
CHECK_DEADLOCK FALSE
