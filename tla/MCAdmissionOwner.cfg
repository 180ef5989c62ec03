SPECIFICATION Spec
CONSTANTS
    e1 = e1
    e2 = e2
    e3 = e3
    NoOne = NoOne
    Executions <- TwoExecutions
    MaxAttempts = 2
    MaxConcurrency = 2
    RateLimit = 2
CHECK_DEADLOCK FALSE
INVARIANT OwnerIsAlive
