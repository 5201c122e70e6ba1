SPECIFICATION FairSpec
CONSTANTS
  t1 = t1  t2 = t2  p1 = p1  p2 = p2  k1 = k1  v0 = v0  v1 = v1  v2 = v2  v3 = v3
  Transactions = {t1, t2}  Participants = {p1, p2}  Rank <- MCRank
  Keys = {k1}  Values = {v0, v1, v2, v3}  Initial = v0  Routed <- MCRouted
  Plan <- MCPlan
  Operations = {"execute", "route", "recover"}
  Faults = {"crash", "io"}  MaxFaults = 2
INVARIANTS TypeOK CommittedEverywhere OneHolder DecisionIsCovered
PROPERTIES ImplementsTransactionOutcome OperationsSettle
CHECK_DEADLOCK FALSE
