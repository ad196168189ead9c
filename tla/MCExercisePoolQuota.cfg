CONSTANTS
    None = None
    CardType = {typing}
    OnDemand = {typing}
    Refiller = {f1, f2}
    Request = {}
    Target = 2
    PerType = 2
    RoundWords = 1
    AdminStatus = {}
    Rejected = Rejected
    Missing = Missing
    MaxExercises = 4
    MaxAttempts = 1
    Limit = 2
    MaxDay = 1
    MaxPlanChanges = 1
SPECIFICATION Spec
SYMMETRY RefillerSymmetry
INVARIANTS NeverOvercharged
CHECK_DEADLOCK FALSE
