CONSTANTS
    None = None
    fill = fill
    load = load
    Job = {fill, load}
    KindOf <- MCKindOf
    MaxRetries = 2
    MaxCrashes = 1
SPECIFICATION FairSpec
INVARIANTS TypeOK NothingLost ToldTheTruth
PROPERTIES CancelSticks EventuallyOver
CHECK_DEADLOCK FALSE
