SPECIFICATION FairSpec
CONSTANTS
  Targets = {a, b}
  Watchdogs = {w1}
  Operators = {o1}
  ProbesRequired = 2
  StaleBound = 1
  MaxClock = 2
  MaxRequests = 1
  MaxFaults = 2
CHECK_DEADLOCK FALSE
INVARIANTS PrimaryIsNoReplica
PROPERTIES ImplementsPrimary WatchdogActs
