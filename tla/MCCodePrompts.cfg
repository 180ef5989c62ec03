SPECIFICATION CodeSpec
CONSTANTS
    Senders = {1}
    MaxOperations = 1
    MaxConnections = 1
    MaxThreads = 1
    MaxCrashes = 0
INVARIANTS
    PromptsCanBeFinished
CHECK_DEADLOCK FALSE
