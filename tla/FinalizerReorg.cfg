SPECIFICATION FairSpec
CONSTANTS
    MaxBlock = 5
    MaxBatch = 4
    MaxFailed = 1
    MaxCrashes = 1
    MaxDBErrors = 1
    MaxForced = 0
    HaltOnBatchNumber = 0
INVARIANTS
    BatchesChained
    ExecutedWhereBuilt
    IntermediateRootInSync
    SanityHaltsExplained
PROPERTIES
    ImplementsTrustedState
    PipelineDrains
