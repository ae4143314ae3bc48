CONSTANTS
    Key = {1, 2, 3}
    FirstLine = 2
    small = small
    large = large
    deleted = deleted
    Value = {large, deleted}
    Deleted = deleted
    sizeOf <- Sizes
    None = None
    FileSize = 2
    MaxTables = 3
    MaxLog = 2
    MaxCrash = 1
SPECIFICATION Spec
CHECK_DEADLOCK FALSE
INVARIANTS
    TypeOK
    FilesApart
    ThreeFirstsApart
PROPERTIES
    RestartKeepsAnswers
    ActsAsStoreButAtLaterSplits
