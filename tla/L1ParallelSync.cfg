SPECIFICATION ParallelSpec
CONSTANTS
  Genesis = 2
  MaxBlock = 5
  MaxFork = 1
  SyncChunkSize = 1
  SafeDistance = 1
  ActiveCheckers = {}
  Scenarios <- MCScenarios
  NumWorkers = 2
  Capacity = 2
  CmdCapacity = 5
  UnsafeDistance = 2
  InitialBlocks = 3
  Events = {TRUE, FALSE}
INVARIANTS
  NoRangeAbandoned
  NoBlockSkipped
  StoredOnce
