\* A job fails midway and is delivered again.
CONSTANTS
  LastChunk = 1
  ChunkSize = 2
  MaxCuts = 3
  ActorCache = 4
  MaxAttempts = 3
  MaxFaults = 1
SPECIFICATION Spec
INVARIANTS
  FedOnce
CHECK_DEADLOCK FALSE
