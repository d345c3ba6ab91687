SPECIFICATION Spec
CONSTANTS
  d1 = d1
  d2 = d2
  Devices = {d1, d2}
  NoDevice = NoDevice
  Ids <- Commits7
  Conflicts <- ThreeSlots
  Ops <- ThreeSlots
  Requests = {"resolve", "refresh", "restore", "settings", "name_repair"}
  Proposals = {"retry"}
  Faults = {"crash"}
  MaxFaults = 1
  MaxRequests = 3
SYMMETRY Symmetry
INVARIANTS TypeOK RecoveredExactly AnnouncedChain OpenConflictHoldsDevice
