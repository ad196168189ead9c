CONSTANTS
    None = None
    root = root
    ann = ann
    new = new
    User = {1, 2, 3, 4}
    Email = {root, ann, new}
    Link = {l1, l2, l3}
    Request = {r1, r2}
    Start <- MCStart
    MaxStarted = 3
SPECIFICATION Spec
SYMMETRY Symmetry
INVARIANTS TypeOK OneLinkLives SignedUpHasTrial
PROPERTIES WritesKept RolesGuarded
CHECK_DEADLOCK FALSE
