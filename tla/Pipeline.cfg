\* Three chunks, two of them in flight; two faults anywhere.
CONSTANTS
  TotalChunks = 3
  UpdateEvery = 2
  MaxInflight = 2
  MaxAttempts = 2
  MaxFaults = 2
SPECIFICATION Spec
INVARIANTS
  AckedIsDone
  NeverStuck
PROPERTIES
  ImplementsChunkFlow
  Completes
CHECK_DEADLOCK FALSE
