SPECIFICATION Spec
CONSTANTS
    NumCPU = 3
    MaxLen = 5
INVARIANTS
    BestFittingTx
    EmptyBatchNotClosed
CHECK_DEADLOCK FALSE
