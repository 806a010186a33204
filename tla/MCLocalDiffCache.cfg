\* Two patches and two snapshots that are stored, expire and are stored again.
SPECIFICATION SpecCache
CONSTANTS
  o1 = o1
  Objects <- MCObjects
  SnapshotNames <- MCSnapshotNames
  Keys <- MCKeys
  Vals <- MCVals
  Document <- MCDocument
  Differences <- Compare
  SaysChange <- Tells
  UseOldResourceVersion = TRUE
  Ttl = 1
  PatchTtl = 1
  MaxTime = 4
  MaxStores = 2
INVARIANTS
  QueueTracksData
  FetchTellsTheChange
PROPERTIES
  AwakeLoopCleansUp
CHECK_DEADLOCK FALSE
