SPECIFICATION LiveSpec
CONSTANTS
  d1 = d1
  d2 = d2
  Devices = {d1, d2}
  NoDevice = NoDevice
  Ids <- Commits6
  Conflicts <- TwoSlots
  Ops <- ThreeSlots
  Requests = {"resolve", "refresh", "restore", "settings", "name_repair", "acknowledge"}
  Proposals = {"retry"}
  Faults = {"power_loss"}
  MaxFaults = 1
  MaxRequests = 2
INVARIANTS MetadataBehindGit SyncedIsSettled
PROPERTIES PublishedIsIntegrated
