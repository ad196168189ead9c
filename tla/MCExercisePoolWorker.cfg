CONSTANTS
    None = None
    CardType = {typing}
    OnDemand = {typing}
    Refiller = {f1}
    Request = {r1}
    Target = 2
    PerType = 2
    RoundWords = 1
    AdminStatus = {}
    Rejected = Rejected
    Missing = Missing
    MaxExercises = 3
    MaxAttempts = 1
    Limit = 2
    MaxDay = 0
    MaxPlanChanges = 0
SPECIFICATION Spec
INVARIANTS WithinQuota
PROPERTIES TopUpStopsAtTarget
CHECK_DEADLOCK FALSE
