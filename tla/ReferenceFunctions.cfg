SPECIFICATION ReferenceSpec
CONSTANTS
  k1 = k1  k2 = k2  v1 = v1  r1 = r1  db = db
  Keys = {k1, k2}  Vals = {v1}  NoRecord = NoRecord
  RemoteIds = {r1}  LocalId = LocalId  DatabaseIds = {db}  Database = db
  Retention = 2  MaxEntries = 3
  Updates <- SampleUpdates  Rows <- SampleRows  Filters <- SampleFilters
  Orders <- SampleOrders  Projections <- SampleProjections
  MaxNumber = 1  MaxLength = 2
INVARIANTS ClosedFormsAgree AppliedIdsAreRetained RepeatedUpdateIsHarmless UpdateIsExact PipelineIsExact
CHECK_DEADLOCK FALSE
