SPECIFICATION OrderedSpec
CONSTANTS
    n1 = n1
    n2 = n2
    n3 = n3
    Nodes <- TwoNodes
    NoNode = NoNode
    MaxTurns = 3
    MaxGenerations = 1
INVARIANTS
    ExactlyOneRunner
    StopIsQuiet
    StoreFollowsTrees
PROPERTIES
    CancelledStaysCancelled
    EveryPromptSettles
CHECK_DEADLOCK FALSE
