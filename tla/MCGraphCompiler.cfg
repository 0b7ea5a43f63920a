SPECIFICATION Spec
CONSTANTS
    p1 = p1
    p2 = p2
    l1 = l1
    Processors = {p1, p2}
    Links = {l1}
    Source <- MCSource
    Target <- MCTarget
    Callers = {c1}
    NoCaller = NoCaller
    MaxEdits = 4
INVARIANTS
    NoOrphanThread
    EveryLiveThreadCanBeStopped
    SetupWaitsForWiring
    WiringFindsItsLinks
    WiredLinkHasBothEnds
    ShutdownSendNeverBlocks
    CompiledMeansWiredAndReleased
PROPERTIES
    ThreadKeepsError
    RemovalsSurviveAborts
    CommitReturns
CHECK_DEADLOCK FALSE
