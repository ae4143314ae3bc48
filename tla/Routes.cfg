CONSTANTS
    ann = ann
    fay = fay
    zero = zero
    r1 = r1
    r2 = r2
    r3 = r3
    r4 = r4
    Server = {1, 2, 3}
    Lines <- TwoLines
    Row = {ann, fay, zero}
    letter <- Letters
    Garbage <- Stray
    Request = {r1, r2, r3, r4}
    rowOf <- Rows
    None = None
    MaxSockets = 4
    MaxChange = 3
SPECIFICATION Spec
SYMMETRY Symmetry
CHECK_DEADLOCK FALSE
INVARIANTS
    TypeOK
    EntersOwnGroup
    EntersAtFirstLive
    NullOnlyWithoutServers
