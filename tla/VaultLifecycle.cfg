SPECIFICATION FairSpec
CONSTANTS
  None = None
  r1 = r1
  Requests <- RequestIds
  MaxCommits = 2
  MaxFaults = 1
INVARIANTS TypeOK ErasedInPeace RemovedIsRemoved
PROPERTIES DiscardedByGrant DeletionCompletes
CHECK_DEADLOCK FALSE
