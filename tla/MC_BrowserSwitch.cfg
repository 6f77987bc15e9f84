SPECIFICATION Spec
CONSTANTS
    Lifetime = 1
    MaxTime = 1
    Pages <- Asked
    UIAdmin = TRUE
INVARIANT SettlesOnTruth
CHECK_DEADLOCK FALSE
