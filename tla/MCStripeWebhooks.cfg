CONSTANTS
    u1 = u1
    u2 = u2
    s1 = s1
    s2 = s2
    User = {u1}
    Sub = {s1}
    Owner <- OneOwner
    Status = {"active", "incomplete", "canceled", "paused"}
    Request = {r1, r2}
    None = None
    MaxEvents = 3
    MaxCrashes = 1
SPECIFICATION Spec
SYMMETRY RequestSymmetry
INVARIANTS TypeOK AccessEarned
PROPERTIES SettledIsFinal
CHECK_DEADLOCK FALSE
