CONSTANTS
    Server = {1, 2, 3}
    u1 = u1
    r1 = r1
    r2 = r2
    User = {u1}
    Request = {r1}
    userOf <- OneOnRow
    None = None
    MaxDepth = 2
    MaxCrash <- CrashAll
    ChannelBackoff = FALSE
SPECIFICATION Spec
CHECK_DEADLOCK FALSE
INVARIANTS
    PassedOverIsMarked
