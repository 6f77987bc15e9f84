SPECIFICATION FairSpec
CONSTANTS
    Lifetime = 1
    MaxTime = 1
    Pages <- Asked
    UIAdmin = TRUE
INVARIANT ShowsTheTruth
INVARIANT LiteralRouteWins
INVARIANT AdminIsRecent
PROPERTY AdmittedStays
PROPERTY PromptSettles
PROPERTY ExpiryLeavesAdmin
CHECK_DEADLOCK FALSE
