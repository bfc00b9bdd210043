\* Four layouts; two faults of any kind, and a timeout at any moment.
CONSTANTS
  Videos <- MCVideos
  MaxFaults = 2
SPECIFICATION Spec
INVARIANTS
  FramesExact
  NoChildLeft
PROPERTIES
  DeliveryEnds
CHECK_DEADLOCK FALSE
