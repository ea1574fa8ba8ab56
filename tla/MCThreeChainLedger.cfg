SPECIFICATION LSpec3Chain
CONSTANTS
    h1 = h1
    h2 = h2
    h3 = h3
    z1 = z1
    p = p
    q = q
    n1 = n1
    n2 = n2
    Validator = {h1, h2, h3, z1}
    Faulty = {z1}
    Crashes = {}
    Quorum = {{h1, h2, h3}, {h1, h2, z1}, {h1, h3, z1}, {h2, h3, z1}, {h1, h2, h3, z1}}
    Payload = {p}
    Node = {n1, n2}
    MaxRound = 4
SYMMETRY Symmetry
INVARIANTS
    OneCertifiedPerRound
    PreferredRoundIsKept
    CommittedIsLocked3Chain
PROPERTIES
    LedgerSpec
CHECK_DEADLOCK FALSE
