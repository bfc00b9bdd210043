\* Every video of three chunks of two frames, with up to one cut; two faults.
CONSTANTS
  LastChunk = 2
  ChunkSize = 2
  MaxCuts = 1
  ActorCache = 1
  MaxAttempts = 3
  MaxFaults = 2
SPECIFICATION Spec
INVARIANTS
  InTurn
  ContinuousScenes
  ReleasedWhenDone
PROPERTIES
  EveryJobTracked
CHECK_DEADLOCK FALSE
