\* The aggregator may be interrupted between its three calls.
CONSTANTS
  TotalChunks = 2
  UpdateEvery = 5
SPECIFICATION InterruptedSpec
PROPERTIES
  FinalisationResumes
