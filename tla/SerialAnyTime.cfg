CONSTANTS
    Server = {1, 2, 3}
    u1 = u1
    r1 = r1
    r2 = r2
    User = {u1}
    Request = {r1, r2}
    userOf <- TwoOnRow
    None = None
    MaxDepth = 3
    MaxCrash <- CrashLow
    ChannelBackoff = FALSE
    FirstEntry = FALSE
    IdleFailures = FALSE
SPECIFICATION FairSerialSpec
INVARIANT NeverFailedAgree
PROPERTY PutEnds
