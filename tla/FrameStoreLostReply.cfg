\* One reply may be lost.
CONSTANTS
  Videos = {v1}
  TotalChunks = 2
  MaxPerTask = 2
  MaxGlobal = 2
  PutAttempts = 2
  IngestConcurrency = 1
  MaxFaults = 1
SPECIFICATION Spec
INVARIANTS
  FramesUntilTracked
CHECK_DEADLOCK FALSE
