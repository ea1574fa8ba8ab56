SPECIFICATION MCSpec
CONSTANTS
    v1 = v1
    v2 = v2
    v3 = v3
    Validator = {v1, v2, v3}
    Nil = Nil
    Payload = {v1, v2, v3, Nil}
    Quorum = {{v1, v2}, {v1, v3}, {v1, v2, v3}}
    Proposer <- MCProposer
    Configs <- MCConfigs
    MaxRestarts = 1
INVARIANTS
    TypeOK
    RoundIsHighest
    CanTimeOut
    CertificatesAreBacked
PROPERTIES
    NeverRegresses
    RoundsAdvance
