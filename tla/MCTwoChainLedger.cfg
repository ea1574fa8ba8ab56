SPECIFICATION LSpec
CONSTANTS
    h1 = h1
    h2 = h2
    h3 = h3
    z1 = z1
    p = p
    n1 = n1
    n2 = n2
    Validator = {h1, h2, h3, z1}
    Faulty = {z1}
    Crashes <- MCCrashes
    Quorum = {{h1, h2, h3}, {h1, h2, z1}, {h1, h3, z1}, {h2, h3, z1}, {h1, h2, h3, z1}}
    Payload = {p}
    Node = {n1, n2}
    MaxRound = 3
SYMMETRY Symmetry
INVARIANTS
    OneCertifiedPerRound
    TimeoutCoversVotes
    CommittedIsLocked
PROPERTIES
    LedgerSpec
CHECK_DEADLOCK FALSE
