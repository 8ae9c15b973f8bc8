CONSTANTS
  TaskID = {t1, t2, t3}
  WorkerID = {}
  NoWorker = NoWorker
  Key = {}
  NoKey = NoKey
  HBTimeout = 1
  TTL = 0
  Filters <- SomeFilters
  Starts <- SomeStarts
  DefaultPageSize = 1
  OffsetLimit = 8
  NewTasks <- TwoTypes
SPECIFICATION ListingSpec
SYMMETRY Symm
CHECK_DEADLOCK FALSE
INVARIANTS
  PagingMissesNothing
  TotalCoversPages
