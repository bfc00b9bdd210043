\* One process with two lanes, and two processes that read one entry at a
\* time; one fault of any kind.
CONSTANTS
  v1 = v1
  v2 = v2
  w1 = w1
  w2 = w2
  Deployments <- MCDeployments
  MaxAttempts = 2
  MaxFaults = 1
SPECIFICATION Spec
INVARIANTS
  NothingLost
  GivenUpMeansFailed
  BudgetForErrorsOnly
  OrderWithinTask
  NeverTwiceAtOnce
PROPERTIES
  EverySettled
CHECK_DEADLOCK FALSE
