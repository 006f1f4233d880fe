\* Two sweeps over two days; requests over two days; short queries.
SPECIFICATION MCSpec
CONSTANTS
  Parts = {"partitions", "search", "parser", "compiler"}
  hot = hot
  cold = cold
  w1 = w1
  w2 = w2
  DayLen = 2
  GlobalDays = 2
  Streams = {hot, cold}
  StreamDays <- MCStreamDays
  Sweepers = {w1, w2}
  Kinds <- MCKinds
  FirstNow = 7
  MaxNow = 8
  MaxRows = 3
  MaxStops = 1
  SDayLen = 4
  Null = Null
  DefaultLimit = 4
  PercentileCap = 4
  Scale = 60
  StoreRows <- MCStores
  Requests <- MCRequests
  Words = {"a", "_exists_"}
  Queries <- MCQueries
  Levels <- MCLevels
  Messages <- MCMessages
  Columns = {"source"}
  NoValue = NoValue
  Open = Open
INVARIANTS TypeOK KeptUntilExpiry SweepPrunes PageOfUnion ChartsOfUnion NearestRank ParsesTheGrammar SqlMeansTheQuery
SYMMETRY Symmetry
CHECK_DEADLOCK FALSE
