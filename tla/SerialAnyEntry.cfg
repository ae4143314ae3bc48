CONSTANTS
    Server = {1, 2, 3}
    u1 = u1
    r1 = r1
    r2 = r2
    User = {u1}
    Request = {r1, r2, r3}
    userOf <- ThreeOnRow
    None = None
    MaxDepth = 3
    MaxCrash <- CrashEnds
    ChannelBackoff = FALSE
    FirstEntry = FALSE
    IdleFailures = TRUE
SPECIFICATION SerialSpec
INVARIANTS
    OnePrimary
    TaskGoesToPrimary
SYMMETRY Symmetry
