SPECIFICATION Spec
CONSTANTS
    MaxBlock = 5
    MaxBatch = 5
    MaxFailed = 0
    MaxCrashes = 1
    MaxDBErrors = 0
    MaxForced = 0
    HaltOnBatchNumber = 0
INVARIANTS
    StartupCheckSound
