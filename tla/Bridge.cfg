SPECIFICATION FairSpec
CONSTANTS
  p1 = p1
  p2 = p2
  a = a
  b = b
  Paths <- Notes
  Fresh <- Created
  Contents = {a, b}
  Old = a
  Absent = Absent
  None = None
  MaxEdits = 2
  MaxModels = 2
  MaxFaults = 1
INVARIANTS TypeOK ReadsAreCoherent OwnWriteReadable VectorsMatch
PROPERTIES IndexCatchesUp
