SPECIFICATION FairSpec
CONSTANTS
  Paths = {p1}
  LocalEdits = {a}
  RemoteEdits = {x}
  MaxCrashes = 0
  MaxLosses = 0
  MaxFlushes = 1
INVARIANTS SyncedIsTrue
PROPERTIES  Integrated
