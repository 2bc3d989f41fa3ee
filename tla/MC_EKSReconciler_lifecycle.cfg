CONSTANTS
    r1 = r1
    r2 = r2
    s1 = s1
    s2 = s2
    Refs <- MCRefs
    StackIds <- MCStackIds
    NoStack = NoStack
    ReclaimPolicy = "Delete"
    MaxRV <- MCMaxRV
    TransientErrors = TRUE
    BadSpec = FALSE
    EmptyNameRejected = FALSE
    AlreadyExistsPanics = TRUE
SPECIFICATION Spec
SYMMETRY Symmetry
CHECK_DEADLOCK FALSE
PROPERTIES
    ImplementsLifecycle
