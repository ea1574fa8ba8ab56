SPECIFICATION Spec
CONSTANTS
    p = p
    Payload = {p}
    TwoChain = TRUE
    Certs <- LateCerts
    Blocks <- LateCerts
    SyncGap = 1
    MaxPruned = 1
PROPERTY
    CallbackSparesLedger
CHECK_DEADLOCK FALSE
