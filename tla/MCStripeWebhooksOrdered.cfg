CONSTANTS
    u1 = u1
    u2 = u2
    s1 = s1
    s2 = s2
    User = {u1}
    Sub = {s1}
    Owner <- OneOwner
    Status = {"active", "past_due", "incomplete", "canceled", "paused"}
    Request = {r1}
    None = None
    MaxEvents = 4
    MaxCrashes = 2
SPECIFICATION OrderedSpec
INVARIANTS MirrorsStripe PaidOnce
CHECK_DEADLOCK FALSE
