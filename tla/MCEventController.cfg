SPECIFICATION Spec
CONSTANTS
  Procs = {p1, p2}
  Slots = {s1}
  None = None
  MaxTerms = 2
  TicksPerSecond = 2
  MaxAge = 0
  Cap = 1
  MaxTime = 4
  MaxEvents = 2
INVARIANTS
  OneLeaderPerSlot
  SkippedWereOvertaken
PROPERTIES
  SavedNeverDecreases
CHECK_DEADLOCK FALSE
SYMMETRY Symmetry
