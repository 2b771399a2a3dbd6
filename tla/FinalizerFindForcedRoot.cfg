SPECIFICATION Spec
CONSTANTS
    MaxBlock = 3
    MaxBatch = 3
    MaxFailed = 0
    MaxCrashes = 0
    MaxDBErrors = 0
    MaxForced = 1
    HaltOnBatchNumber = 0
INVARIANTS
    BatchesChained
