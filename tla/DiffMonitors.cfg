\* Two types of which one cannot be watched, and a second term.
SPECIFICATION Spec
CONSTANTS
  Gvrs = {g1, g2}
  Listable = {g1}
  MaxChanges = 3
  MaxTerms = 2
INVARIANTS
  MonitorsFollowDiscovery
  NoOrphanMonitor
PROPERTIES
  ServedIsMonitored
CHECK_DEADLOCK FALSE
