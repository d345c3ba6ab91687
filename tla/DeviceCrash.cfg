SPECIFICATION Spec
CONSTANTS
  Paths = {p1}
  LocalEdits = {a}
  RemoteEdits = {x}
  MaxCrashes = 1
  MaxLosses = 1
  MaxFlushes = 0
INVARIANTS TypeOK NoEditLost NeverDiverged RefusedForCopyOnly
