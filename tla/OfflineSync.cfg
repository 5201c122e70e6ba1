SPECIFICATION Spec
CONSTANTS
  i1 = i1  i2 = i2  k1 = k1  k2 = k2  c1 = c1  c2 = c2  None = None
  Intents = {i1, i2}  Keys = {k1, k2}  Callers = {c1, c2}
  Retention = 1  MaxAttempts = 2  MaxCalls = 4  MaxQueueCalls = 6  MaxFaults = 1  Parts = {"intents", "queue"}
SYMMETRY MCSymmetry
INVARIANTS IntentsSurvive ExecutedOnce ChangesDelivered
PROPERTIES CancelledIsNotExecuted
CHECK_DEADLOCK FALSE
