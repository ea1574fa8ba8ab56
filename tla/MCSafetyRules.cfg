SPECIFICATION Spec
CONSTANTS
    MaxEpoch = 2
    Proposals <- MCProposals
    Timeouts <- MCTimeouts
    TimeoutCerts <- MCTimeoutCerts
    TwoChain <- MCTwoChain
    CacheEnabled = TRUE
    NoKey = NoKey
    k1 = k1
    k2 = k2
    ExpectedKey <- MCExpectedKey
    HeldKeys <- MCHeldKeys
INVARIANTS
    CacheCoherent
    EpochWithinWaypoint
    SentIsPersisted
    VotesOncePerRound
    SecondRuleHolds
PROPERTIES
    ProposesAboveSent
    ImplementsVoter
CHECK_DEADLOCK FALSE
