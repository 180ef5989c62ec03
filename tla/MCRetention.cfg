SPECIFICATION HostSteps
CONSTANTS
    Candidates = 3
    MaxCuts = 2
    MaxAttempts = 3
    BatchSize = 1
    MaxRows = 1
    MaxRecords = 3
    MaxReads = 1
    Updates = {u1, u2}
    MaxFaults = 1
    MaxWrites = 1
    u1 = u1
    u2 = u2
PROPERTIES
    RetentionIsKept
CHECK_DEADLOCK FALSE
