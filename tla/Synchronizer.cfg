SPECIFICATION FairSpec
CONSTANTS
  Genesis = 2
  MaxBlock = 4
  MaxFork = 1
  SyncChunkSize = 1
  SafeDistance = 1
  ActiveCheckers = {"checker", "preChecker"}
  Scenarios <- MCScenarios
INVARIANTS
  BadBlocksLast
  L1InfoTreeInSync
PROPERTIES
  GoodBlocksKept
  AllSynced
CHECK_DEADLOCK FALSE
