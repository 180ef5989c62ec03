SPECIFICATION ChatSpec
CONSTANTS
    Streams <- SomeStreams
    ReservedIds <- OneId
    MaxCuts = 2
INVARIANTS
    TaskRunsInForeground
CHECK_DEADLOCK FALSE
