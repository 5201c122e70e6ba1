SPECIFICATION Spec
CONSTANTS
  i1 = i1  i2 = i2  a = a  b = b
  Ids = {i1, i2}  Scalars = {a, b}  Arrays = {}  NoRecord = NoRecord  States <- MCStates
  Valid = {a}  Expired = {b}  Kinds = {"schema", "text", "ttl"}
  Faults = {"crash", "io"}  MaxCalls = 4  MaxQueued = 2  MaxFaults = 2
SYMMETRY MCSymmetry
INVARIANTS AnswersAreCurrent DefinitionsHold 
CHECK_DEADLOCK FALSE
