\* Two concurrent calls for one object, in the same or in two windows, with
\* retries.
SPECIFICATION FairSpec
CONSTANTS
  Objects = {o1}
  Times <- MCTimes
  Keys <- MCKeys
  Clients = {1, 2}
  Second = 2
  SpanTtl = 2
  RetrySteps = 2
  MaxExpiries = 2
INVARIANTS
  AgreeWithinLife
  LinkJobs
PROPERTIES
  SendReturns
CHECK_DEADLOCK FALSE
