CONSTANTS
    u1 = u1
    u2 = u2
    x = x
    o = o
    bad = bad
    plain = plain
    both = both
    half = half
    far = far
    lost = lost
    r1 = r1
    r2 = r2
    r3 = r3
    User = {u1, u2}
    Unknown = {x}
    Outside = {o}
    Malformed = {bad}
    Mail = {plain, both, far}
    sender <- SomeSenders
    receivers <- SomeReceivers
    Capitals = {far}
    Request = {r1, r2, r3}
    None = None
    Failed = Failed
    Alone = FALSE
    MayFail = {"GET", "PUT"}
    MaxCrash = 1
SPECIFICATION Spec
CHECK_DEADLOCK FALSE
INVARIANTS
    TypeOK
    OwnListsKept
    TextsKept
SYMMETRY Symmetry
