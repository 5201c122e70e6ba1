SPECIFICATION FairSpec
CONSTANTS
  k1 = k1  v1 = v1  r1 = r1  self = self
  Keys = {k1}  Vals = {v1}  NoRecord = NoRecord
  RemoteIds = {r1}  LocalId = LocalId  DatabaseIds = {self}  Self = self
  Retention = 2  KeepSnapshots = 1  Script <- MCScript
  MaxSnapshots = 2  Faults = {"crash", "tear", "io"}  MaxFaults = 1
INVARIANTS JournalIsSound RestoreIsExact RefusalExplained
PROPERTY ChangesAreJournaled
CHECK_DEADLOCK FALSE
