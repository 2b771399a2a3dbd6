SPECIFICATION FairSpec
CONSTANTS
  Routines <- MCRoutines
  Modes <- MCModes
  Backends = {"direct", "agglayer"}
  Sequences <- MCSequences
  Scenarios <- MCScenarios
INVARIANTS
  ProofsDisjoint
  NoDoubleWork
  NoWastedVerification
PROPERTY AllVerified
CHECK_DEADLOCK FALSE
