SPECIFICATION FairSpec
CONSTANTS
  Types <- MCTypes
  Wirings <- MCWirings
INVARIANTS
  DependenciesFirst
  NothingMissing
  NothingIdle
PROPERTIES
  ShutdownCloses
CHECK_DEADLOCK FALSE
