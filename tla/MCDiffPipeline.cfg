\* Two watch leaders of which each may be the writer, crash and list again, and a
\* lease of two ticks.
SPECIFICATION MCSpec
CONSTANTS
  Procs = {p1, p2}
  None = None
  UseOldResourceVersion = TRUE
  L = 2
  MaxRv = 3
  MaxTime = 4
  MaxWriteTerms = 2
  MaxRelists = 1
  MaxCrashes = 1
  MaxFailures = 1
  Backlog = 2
SYMMETRY Symmetry
INVARIANTS
  NoPatchLost
  DecorationCoversUpdate
CHECK_DEADLOCK FALSE
