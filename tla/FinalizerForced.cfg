SPECIFICATION Spec
CONSTANTS
    MaxBlock = 4
    MaxBatch = 5
    MaxFailed = 1
    MaxCrashes = 1
    MaxDBErrors = 1
    MaxForced = 2
    HaltOnBatchNumber = 5
INVARIANTS
    ForcedInOrder
    StoppedClean
