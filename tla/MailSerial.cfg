CONSTANTS
    u1 = u1
    u2 = u2
    x = x
    o = o
    bad = bad
    plain = plain
    both = both
    half = half
    far = far
    lost = lost
    r1 = r1
    r2 = r2
    r3 = r3
    User = {u1, u2}
    Unknown = {x}
    Outside = {o}
    Malformed = {bad}
    Mail = {both, half, far, lost}
    sender <- AllSenders
    receivers <- AllReceivers
    Capitals = {both}
    Request = {r1, r2, r3}
    None = None
    Failed = Failed
    Alone = TRUE
    MayFail = {}
    MaxCrash = 1
SPECIFICATION FairSpec
CHECK_DEADLOCK FALSE
INVARIANTS
    ReceivedKept
    ListedCanBeOpened
PROPERTIES
    ActsAsMailStore
    LocalRequestsEnd
