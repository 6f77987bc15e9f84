SPECIFICATION Spec
CONSTANTS
  NumReplicas = 1
  NumKeys = 1
  PageSize = 1
  ScanCap = 5
  MaxBatch = 2
  Workers = 2
  Slack = 2
  TickDeadline = 2
  QueueCap = 1
  EventKinds = {}
  Bypass = TRUE
  LatePuts = FALSE
  StoreFaults = FALSE
  Blur = 0
  MaxClock = 4
  MaxVersion = 1
  MaxFaults = 0
INVARIANTS LastSyncHighWaterMark
