\* Four chunks; an entry is delivered any number of times, in any order.
CONSTANTS
  TotalChunks = 4
  UpdateEvery = 2
SPECIFICATION Spec
INVARIANTS
  CutBeforeTracking
  ResultsInOrder
  CountersExact
  StageMatchesWork
  ProgressHonest
  CompleteResult
PROPERTIES
  StagesFollowTable
  ImplementsResequencer
