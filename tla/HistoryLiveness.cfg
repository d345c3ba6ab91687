SPECIFICATION LiveSpec
CONSTANTS
  v1 = v1
  v2 = v2
  o1 = o1
  o2 = o2
  b1 = b1
  k1 = k1
  b2 = b2
  Vaults = {v1}
  NoVault = NoVault
  Ops = {o1, o2}
  NoOp = NoOp
  Keys = {k1}
  NoKey = NoKey
  Bases = {b1, b2}
  NoBase = NoBase
  MaxBatch = 1
  FaultMixes <- Apart
  MaxFaults = 2
PROPERTIES HandoffSettles
