\* Three tasks that schedule one another, fail and are cancelled, none, one
\* or two at a time or without a limit.
SPECIFICATION SemFairSpec
CONSTANTS
  Tasks = {t1, t2, t3}
  Limits <- MCLimits
  None = None
INVARIANTS
  NilMeansComplete
PROPERTIES
  RunReturns
  NoGoroutineLeaks
CHECK_DEADLOCK FALSE
