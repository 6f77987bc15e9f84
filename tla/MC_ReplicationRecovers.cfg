SPECIFICATION FairSpec
CONSTANTS
  NumReplicas = 1
  NumKeys = 1
  PageSize = 1
  ScanCap = 5
  MaxBatch = 2
  Workers = 1
  Slack = 1
  TickDeadline = 9
  QueueCap = 1
  EventKinds = {"put", "delete"}
  Bypass = TRUE
  LatePuts = TRUE
  StoreFaults = TRUE
  Blur = 0
  MaxClock = 1
  MaxVersion = 1
  MaxFaults = 1
PROPERTIES BrokenReplicaRecovers
