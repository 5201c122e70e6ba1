SPECIFICATION Spec
CONSTANTS
  x = x  y = y  t1 = t1  t2 = t2  t3 = t3  c1 = c1  c2 = c2
  Ids = {x, y}  Buckets <- MCBuckets  BucketOf <- MCBucketOf
  Txns = {t1, t2, t3}  None = None  Programs <- MCPrograms
  Changes = {c1, c2}  ChangeOf <- MCChangeOf
  CacheBuckets = 1  MaxHot = 1  Remembered = 1  MaxRetries = 1  CheckpointEvery = 2
  Operations = {"checkpoint", "compact"}  Faults = {"crash", "append", "store", "checkpoint"}  MaxFaults = 2
SYMMETRY MCSymmetry
CONSTRAINT Unharmed
INVARIANTS CommitsSerialize HistorySurvives ChangeAppliedOnce
CHECK_DEADLOCK FALSE
