\* Up to two transitions anywhere; up to three chunks; one fault.
CONSTANTS
  Layouts <- MCLayouts
  GradualMin = 2
  GradualMax = 4
  MaxTransitions = 2
  MaxAttempts = 2
  MaxFaults = 1
SPECIFICATION Spec
INVARIANTS
  OneResult
  ScenesFollowTransitions
  NumbersGrow
  ReportedOnce
  FinalScenesTile
PROPERTIES
  EveryChunkPublished
CHECK_DEADLOCK FALSE
