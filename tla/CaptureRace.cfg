SPECIFICATION Spec
CONSTANTS
  Paths = {p1}
  LocalEdits = {a, b}
  RemoteEdits = {x}
  MaxCrashes = 0
  MaxLosses = 0
  MaxFlushes = 0
PROPERTIES NeverReverted
