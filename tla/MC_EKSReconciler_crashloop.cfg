CONSTANTS
    r1 = r1
    r2 = r2
    s1 = s1
    s2 = s2
    Refs <- MCRefs
    StackIds <- MCStackIds
    NoStack = NoStack
    ReclaimPolicy = "Delete"
    MaxRV <- MCMaxRV
    TransientErrors = FALSE
    BadSpec = FALSE
    EmptyNameRejected = FALSE
    AlreadyExistsPanics = TRUE
SPECIFICATION LiveSpec
CHECK_DEADLOCK FALSE
PROPERTY
    ProvisioningCompletes
