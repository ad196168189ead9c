CONSTANTS
    None = None
    CardType = {typing}
    OnDemand = {}
    Refiller = {f1}
    Request = {r1, r2}
    Target = 1
    PerType = 1
    RoundWords = 2
    AdminStatus = {"READY", "SERVED", "COMPLETED"}
    Rejected = Rejected
    Missing = Missing
    MaxExercises = 1
    MaxAttempts = 2
    Limit = 2
    MaxDay = 0
    MaxPlanChanges = 0
SPECIFICATION Spec
SYMMETRY RequestSymmetry
INVARIANTS TypeOK ReviewsEarned
CHECK_DEADLOCK FALSE
