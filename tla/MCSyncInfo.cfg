SPECIFICATION Spec
CONSTANTS
    p = p
    Payload = {p}
    TwoChain = TRUE
    Certs <- FirstCerts
    Blocks <- FirstCerts
    SyncGap = 1
    MaxPruned = 1
INVARIANT
    SyncInfoAlwaysValid
CHECK_DEADLOCK FALSE
