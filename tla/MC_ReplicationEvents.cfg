SPECIFICATION Spec
CONSTANTS
  NumReplicas = 1
  NumKeys = 1
  PageSize = 1
  ScanCap = 5
  MaxBatch = 2
  Workers = 1
  Slack = 1
  TickDeadline = 9
  QueueCap = 1
  EventKinds = {"delete"}
  Bypass = TRUE
  LatePuts = TRUE
  StoreFaults = TRUE
  Blur = 1
  MaxClock = 3
  MaxVersion = 2
  MaxFaults = 1
INVARIANTS HighWaterMark
