CONSTANTS
    Key = {1, 2, 3, 4}
    FirstLine = 1
    small = small
    large = large
    deleted = deleted
    Value = {small, deleted}
    Deleted = deleted
    sizeOf <- Sizes
    None = None
    FileSize = 1
    MaxTables = 3
    MaxLog = 4
    MaxCrash = 0
SPECIFICATION Spec
CHECK_DEADLOCK FALSE
INVARIANT UnavailableIsAbsent
