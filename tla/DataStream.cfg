SPECIFICATION FairSpec
CONSTANTS
    MaxBlock = 3
    MaxBatch = 3
    MaxCrashes = 2
    Limit = 1
    Capacity = 3
    Version = 4
INVARIANTS
    StreamInOrder
    BatchesFramed
    NeverWaitsForRoom
PROPERTIES
    BlocksStreamed
CHECK_DEADLOCK FALSE
