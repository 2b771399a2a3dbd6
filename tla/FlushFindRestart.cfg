SPECIFICATION Spec
CONSTANTS
    MaxExecutions = 3
    MaxRestarts = 1
INVARIANTS
    FlushedBeforeCommit
CHECK_DEADLOCK FALSE
