SPECIFICATION FairSpec
CONSTANTS
    e1 = e1
    e2 = e2
    e3 = e3
    NoOne = NoOne
    Executions <- ThreeExecutions
    MaxAttempts = 2
    MaxConcurrency = 2
    RateLimit = 1
INVARIANTS
    TypeOK
    ProbeIsExclusive
    SlotsConserved
    EpisodeIsLed
    ClaimIsLegal
PROPERTIES
    ImplementsBreaker
    ExhaustionIsShared
    FirstAdmitted
CHECK_DEADLOCK FALSE
