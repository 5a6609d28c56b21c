\* Every start, restart and signal, with a directory that changes once.
SPECIFICATION FairSpec
CONSTANTS
  MaxVersion = 2
  MaxReadErrors = 1
  MaxStartErrors = 1
INVARIANTS
  TypeOK
  AtMostOneChild
  NoOrphan
PROPERTIES
  NewConfigServed
  SignalEndsWatcher
  ImplementsSupervisor
CHECK_DEADLOCK FALSE
