SPECIFICATION FairSpec
CONSTANTS
    MaxExecutions = 4
    MaxRestarts = 2
INVARIANTS
    DurableBeforeCommit
    NobodyWaitsForStored
PROPERTIES
    CommittedIfHeard
CHECK_DEADLOCK FALSE
