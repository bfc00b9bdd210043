\* Two requests at a time on a disk that is too small for some pairs; two faults.
CONSTANTS
  Requests = {r1, r2}
  Bodies <- MCBodies
  DiskSize = 6
  DiskReserve = 1
  MaxUpload = 4
  MaxArchiveUpload = 4
  MaxArchiveVideo = 4
  MaxUncompressed = 5
  MaxMembers = 3
  MaxFaults = 2
SPECIFICATION Spec
INVARIANTS
  QueuedHasSource
  OnlyAcceptedRemains
CHECK_DEADLOCK FALSE
