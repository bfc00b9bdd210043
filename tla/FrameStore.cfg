\* Two videos at a time share three slots; one fault.
CONSTANTS
  Videos = {v1, v2}
  TotalChunks = 3
  MaxPerTask = 1
  MaxGlobal = 3
  PutAttempts = 2
  IngestConcurrency = 2
  MaxFaults = 1
SPECIFICATION FaultSpec
INVARIANTS
  TypeOK
  CapacityRespected
  FramesUntilTracked
  WindowRespected
  SourceUntilDone
  NoSlotLost
PROPERTIES
  EverythingReleased
CHECK_DEADLOCK FALSE
