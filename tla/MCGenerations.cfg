SPECIFICATION DrainedSpec
CONSTANTS
    Requests = {r1}
    MaxGenerations = 2
    Keys = {k1}
    MaxRetries = 1
    MaxCalls = 3
INVARIANTS
    ClientInUseIsOpen
    CloseIsFinal
    RetiredIsNotForgotten
    DeliverySafety
PROPERTIES
    OnlyTasksOvertake
    CleanupEnds
    CallersAreTold
CHECK_DEADLOCK FALSE
