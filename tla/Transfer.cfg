SPECIFICATION FairSpec
CONSTANTS
  None = None
  MaxCommits = 3
  Invalid = {2}
  MaxOpen = 2
  MaxFaults = 2
  Transfers <- TransferIds
  Chunks <- ChunkIds
INVARIANTS TypeOK NothingDropped CompletedIsTrue
PROPERTIES QueueDrains
CHECK_DEADLOCK FALSE
