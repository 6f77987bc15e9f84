SPECIFICATION FairSpec
CONSTANTS
    Screens <- AllScreens
    KnownGaps <- Unrefreshed
    OpenControls <- NotDisabled
    FollowingForms <- Followers
    MaxPresses = 2
    MaxEvents = 2
INVARIANTS
    WellWired
    ReadYourWrites
    LastPressWins
PROPERTIES
    EditsSurvive
    PollsKeepUp
CHECK_DEADLOCK FALSE
