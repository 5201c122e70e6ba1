SPECIFICATION Spec
CONSTANTS
  k1 = k1  k2 = k2  a = a  b = b  c = c  r1 = r1
  Keys = {k1, k2}  Vals = {a, b, c}  NoRecord = NoRecord  UpdatedAt <- Times
  Watched = {k1}  Replicas = {r1}  None = None
  Retention = 3  Limit = 2  Skew = FALSE
  MaxWrites = 3  MaxQueued = 1  MaxFaults = 1
INVARIANTS FollowersAgree
PROPERTIES NoPartialHistory CatchesUp
CHECK_DEADLOCK FALSE
