\* Expected to fail: a message that comes late between the two statements of a
\* per-stream deletion.
SPECIFICATION MCSpec
CONSTANTS
  Parts = {"partitions"}
  hot = hot
  cold = cold
  w1 = w1
  w2 = w2
  DayLen = 2
  GlobalDays = 2
  Streams = {hot, cold}
  StreamDays <- MCStreamDays
  Sweepers = {w1, w2}
  Kinds <- MCKinds
  FirstNow = 7
  MaxNow = 8
  MaxRows = 2
  MaxStops = 0
  SDayLen = 4
  Null = Null
  DefaultLimit = 4
  PercentileCap = 4
  Scale = 60
  StoreRows <- MCStores
  Requests <- MCRequests
  Words = {"a", "_exists_"}
  Queries <- MCQueries
  Levels <- MCLevels
  Messages <- MCMessages
  Columns = {"source"}
  NoValue = NoValue
  Open = Open
INVARIANT IndexConsistent
CHECK_DEADLOCK FALSE
