\* One gradual transition across a chunk boundary.
CONSTANTS
  Layouts <- MCOneLayout
  GradualMin = 3
  GradualMax = 5
  MaxTransitions = 1
  MaxAttempts = 2
  MaxFaults = 0
SPECIFICATION Spec
INVARIANTS
  SplitOnce
CHECK_DEADLOCK FALSE
