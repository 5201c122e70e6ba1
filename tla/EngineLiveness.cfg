SPECIFICATION FairSpec
CONSTANTS
  k1 = k1  k2 = k2  v1 = v1  v2 = v2  r1 = r1  r2 = r2  w1 = w1  w2 = w2  db = db
  NoRecord = NoRecord  LocalId = LocalId  Absent = Absent
  Unreadable = Unreadable  BadLine = BadLine
  DatabaseIds = {db}  Self = db
  Keys = {k1, k2}  Vals = {v1}  RemoteIds = {r1}
  Retention = 2  CheckpointEvery = 2  MaxSequence = 3  MaxFaults = 1
  RemoteChanges <- NoRemoteChanges  Resolvers = {"incoming"}  Replacements = {}
  Operations = {"mutate", "transaction", "close"}
  WritesAfterClose = FALSE
  Watchers = {w1}  Scope <- MCScope  ReplayLimit = 2
  Faults = {"crash", "tear", "append", "sync", "checkpoint", "corrupt"}
PROPERTIES WritesSettle EventsArrive
