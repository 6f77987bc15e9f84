SPECIFICATION FairSpec
CONSTANTS
  Targets = {a, b}
  Watchdogs = {w1}
  Operators = {}
  ProbesRequired = 2
  StaleBound = 0
  MaxClock = 1
  MaxRequests = 0
  MaxFaults = 1
CHECK_DEADLOCK FALSE
PROPERTIES OutageEnds
