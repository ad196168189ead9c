CONSTANTS
    None = None
    Request = {r1, r2}
    Limit <- MCLimit
    Window <- MCWindow
    MaxStarted = 4
    MaxClock = 3
SPECIFICATION Spec
SYMMETRY Symmetry
INVARIANTS TypeOK CounterExpires TwoWindows LockHolds
CHECK_DEADLOCK FALSE
