SPECIFICATION Spec
CONSTANTS
  p1 = p1  c1 = c1  c2 = c2  a1 = a1  a2 = a2  a3 = a3  None = None
  Accounts = {a1, a2, a3}  Projects = {p1}  Emails = {e1}  Plans = {"free", "pro"}  Free = "free"
  Events <- MCEvents  UsageKeys = {u1}  ActionKeys = {k1}
  Callers = {c1, c2}  Setups <- MCSetups
  MaxCalls = 6  MaxTime = 3  Sizes = {"small", "large"}  Faults = {"refuse", "restart", "clock"}  MaxFaults = 1
INVARIANTS RecordsAgree NothingTwice
PROPERTIES FinalStays
SYMMETRY MCSymmetry
CHECK_DEADLOCK FALSE
