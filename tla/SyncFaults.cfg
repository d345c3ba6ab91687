SPECIFICATION Spec
CONSTANTS
  d1 = d1
  d2 = d2
  Devices = {d1, d2}
  NoDevice = NoDevice
  Ids <- Commits7
  Conflicts <- TwoSlots
  Ops <- ThreeSlots
  Requests = {"resolve", "refresh", "restore", "settings", "name_repair"}
  Proposals = {"retry", "covered"}
  Faults = {"crash", "fsync", "git_command", "lost_exit", "store_write"}
  MaxFaults = 2
  MaxRequests = 2
SYMMETRY Symmetry
INVARIANTS OpenConflictsPinned
PROPERTIES ImplementsCanonicalVault
