SPECIFICATION SessionsSpec
CONSTANTS
    Senders = {1, 2}
    MaxOperations = 2
    MaxConnections = 2
    MaxThreads = 2
    MaxCrashes = 1
    Observers = {1, 2}
    QueueSize = 2
    MaxPublished = 4
    MaxEvents = 3
    Calls = {1}
    Requests = {1}
    Candidates = 3
    MaxCuts = 2
    MaxAttempts = 3
    BatchSize = 1
    MaxRows = 1
    MaxRecords = 3
    MaxReads = 1
    Updates = {u1, u2}
    MaxFaults = 1
    MaxWrites = 1
    u1 = u1
    u2 = u2
INVARIANTS
    CodeSafety
    FeedSafety
    AppSafety
    RequestSafety
    TransportSafety
    HostSafety
PROPERTIES
    FinishedStays
    EverythingRests
CHECK_DEADLOCK FALSE
