\* Two goroutines, one key, four uids, a clock that passes both ttls.
SPECIFICATION FairSpec
CONSTANTS
  Keys = {k1}
  Clients = {c1, c2}
  ReserveTtl = 1
  SpanTtl = 1
  Vals = {1}
  MaxUid = 4
  MaxTime = 2
PROPERTIES
  ImplementsContract
  ExpiredIsTrimmed
CHECK_DEADLOCK FALSE
