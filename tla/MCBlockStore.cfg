SPECIFICATION Spec
CONSTANTS
    p = p
    Payload = {p}
    TwoChain = TRUE
    Certs <- MCCerts
    Blocks <- MCBlocks
    SyncGap = 2
    MaxPruned = 1
INVARIANTS
    TypeOK
    RootsExist
    CommitPathExists
    SyncInfoIsValid
    Recoverable
PROPERTIES
    NothingForgotten
    OrderedReachesCommitRoot
CHECK_DEADLOCK FALSE
