SPECIFICATION FairSpec
CONSTANTS
  NumReplicas = 1
  NumKeys = 2
  PageSize = 1
  ScanCap = 5
  MaxBatch = 2
  Workers = 2
  Slack = 1
  TickDeadline = 2
  QueueCap = 1
  EventKinds = {}
  Bypass = FALSE
  LatePuts = FALSE
  StoreFaults = FALSE
  Blur = 0
  MaxClock = 3
  MaxVersion = 2
  MaxFaults = 3
INVARIANTS HighWaterMark BrokenAfterThreeFailures
PROPERTIES WatermarkNeverRegresses Converges
