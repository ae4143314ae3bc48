CONSTANTS
    Server = {1, 2, 3}
    u1 = u1
    r1 = r1
    r2 = r2
    User = {u1}
    Request = {r1, r2}
    userOf <- TwoOnRow
    None = None
    MaxDepth = 2
    MaxCrash <- CrashMany
    ChannelBackoff = FALSE
    FirstEntry = TRUE
    IdleFailures = TRUE
SPECIFICATION SerialSpec
INVARIANT ServingAgree
PROPERTIES
    MissingInfoKept
    ActsAsOneStore
