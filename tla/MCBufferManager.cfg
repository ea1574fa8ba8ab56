SPECIFICATION Spec
CONSTANTS
    v1 = v1
    v2 = v2
    v3 = v3
    Validator = {v1, v2, v3}
    Quorum = {{v1, v2}, {v1, v3}, {v1, v2, v3}}
    Faulty = {v3}
    Configs <- MCConfigs
INVARIANTS
    RootsAreDriven
    ResultsFit
    NothingIsLost
    PersistsCertified
PROPERTIES
    EveryBlockIsPersisted
CHECK_DEADLOCK FALSE
