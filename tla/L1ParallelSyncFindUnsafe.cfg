SPECIFICATION ParallelSpec
CONSTANTS
  Genesis = 2
  MaxBlock = 5
  MaxFork = 1
  SyncChunkSize = 0
  SafeDistance = 1
  ActiveCheckers = {}
  Scenarios <- MCReorg
  NumWorkers = 2
  Capacity = 2
  CmdCapacity = 5
  UnsafeDistance = 2
  InitialBlocks = 2
  Events = {TRUE}
INVARIANTS
  BadBlocksLast
CHECK_DEADLOCK FALSE
