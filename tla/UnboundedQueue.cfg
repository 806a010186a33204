\* Two senders, five items through a buffer that starts with one slot, as the
\* audit webhook's does, so that it wraps and expands from every rotation.
SPECIFICATION QueueFairSpec
CONSTANTS
  Items = {1, 2}
  Senders = {s1, s2}
  InitialCapacity = 1
  MaxSends = 5
INVARIANTS
  PendingInOrder
  NoLostWakeup
PROPERTIES
  ImplementsChannel
  EverythingArrives
CHECK_DEADLOCK FALSE
