SPECIFICATION FairSpec
CONSTANTS
  MaxBatch = 2
  MaxBatchesForL1 = 2
  ForkUpgradeBatchNumber = 0
  SequenceL1BlockConfirmations = 1
  Members = 2
  RequiredSignatures = 2
  ForcedGas = 0
  MaxReorgDepth = 2
  Scenarios <- MCScenarios
INVARIANTS HaltOnlyAfterReorg NoDuplicatedData OnlyCheckedSequenced
PROPERTIES ConfirmationsAwaited AllSequenced
CHECK_DEADLOCK FALSE
