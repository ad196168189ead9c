CONSTANTS
    User = {u1, u2}
    Request = {r1, r2}
    None = None
    Grace = 0
    Lifetime = 2
    MaxTokens = 2
    MaxClock = 2
    MaxResets = 1
SYMMETRY Symmetry
SPECIFICATION Spec
INVARIANTS TypeOK RotationSound
PROPERTIES DeadStaysDead OldPasswordStaysOut OthersUntouched ImplementsLifecycle
