SPECIFICATION FairSpec
CONSTANTS
    MaxExecutions = 2
    MaxRestarts = 0
PROPERTIES
    EveryExecutionCommitted
CHECK_DEADLOCK FALSE
