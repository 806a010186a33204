\* Two clients, one key; three leases let a key be reserved, stored, lost and
\* reserved again.
SPECIFICATION FairSpec
CONSTANTS
  Keys = {k1}
  Clients = {c1, c2}
  Vals = {1}
  ReuseUids = FALSE
  MaxLease = 3
INVARIANTS
  KeysLiveWithTheirLease
PROPERTIES
  ImplementsContract
  ReservationEnds
CHECK_DEADLOCK FALSE
