CONSTANTS
    b1 = b1
    b2 = b2
    u1 = u1
    u2 = u2
    r1 = r1
    r2 = r2
    r3 = r3
    r4 = r4
    s1 = s1
    s2 = s2
    Browser = {b1, b2}
    User = {u1, u2}
    Request = {r1, r2, r3, r4}
    Session = {s1, s2}
    None = None
    MayRestart = TRUE
SPECIFICATION Spec
CHECK_DEADLOCK FALSE
INVARIANTS
    TypeOK
    NothingFreedIsUsed
    ActsForEntered
PROPERTIES
    StaysLoggedIn
    LoginTakesEffectUnlessStale
SYMMETRY Symmetry
