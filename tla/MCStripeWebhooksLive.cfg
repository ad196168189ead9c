CONSTANTS
    u1 = u1
    u2 = u2
    s1 = s1
    s2 = s2
    User = {u1}
    Sub = {s1}
    Owner <- OneOwner
    Status = {"active", "canceled"}
    Request = {r1, r2}
    None = None
    MaxEvents = 2
    MaxCrashes = 1
SPECIFICATION FairSpec
PROPERTIES EventuallyProcessed
CHECK_DEADLOCK FALSE
