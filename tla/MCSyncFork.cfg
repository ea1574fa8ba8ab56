SPECIFICATION Spec
CONSTANTS
    p = p
    Payload = {p}
    TwoChain = TRUE
    Certs <- ForkCerts
    Blocks <- ForkCerts
    SyncGap = 1
    MaxPruned = 1
INVARIANT
    Recoverable
CHECK_DEADLOCK FALSE
