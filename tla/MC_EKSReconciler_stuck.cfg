CONSTANTS
    r1 = r1
    r2 = r2
    s1 = s1
    s2 = s2
    Refs <- MCRefs
    StackIds <- MCStackIds
    NoStack = NoStack
    ReclaimPolicy = "Delete"
    MaxRV <- MCMaxRV
    TransientErrors = FALSE
    BadSpec = TRUE
    EmptyNameRejected = TRUE
    AlreadyExistsPanics = FALSE
SPECIFICATION LiveSpec
CHECK_DEADLOCK FALSE
PROPERTY
    DeletionCompletes
