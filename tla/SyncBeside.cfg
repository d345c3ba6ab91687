SPECIFICATION Spec
CONSTANTS
  d1 = d1
  d2 = d2
  Devices = {d1, d2}
  NoDevice = NoDevice
  Ids <- Commits6
  Conflicts <- TwoSlots
  Ops <- ThreeSlots
  Requests = {"resolve", "revoke", "readiness", "operator_repair", "acknowledge", "complete_onboarding"}
  Proposals = {"divergent", "orphan"}
  Faults = {"crash", "slow"}
  MaxFaults = 1
  MaxRequests = 2
SYMMETRY Symmetry
INVARIANTS AcknowledgedPreserved
PROPERTIES RevocationSticks
