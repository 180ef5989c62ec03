SPECIFICATION HistoriesSpec
CONSTANTS
    n1 = n1
    n2 = n2
    n3 = n3
    Nodes <- ThreeNodes
    NoNode = NoNode
    MaxTurns = 3
    MaxGenerations = 0
    Streams <- SomeStreams
    ReservedIds <- OneId
    MaxCuts = 2
    Settings <- SomeSettings
    MaxPerMessage = 3
    ToolIds = {1, 2}
    Thoughts = {"plain", "hereThinking", "hereRedacted", "elseThinking", "otherTold", "otherSealed", "otherSilent", "raw", "broken"}
    MaxItems = 4
SYMMETRY NodeSymmetry
INVARIANTS
    QueueIsInOrder
    ResumeMatchesParent
    StoreIsRestorable
    ChatSafety
    HistoriesSafety
CHECK_DEADLOCK FALSE
