SPECIFICATION LiveSpec
CONSTANTS
    Links = {l1}
    SocketRoom = 1
    MaxCalls = 1
    MaxRequests = 2
    MaxExtras = 2
INVARIANTS
    EveryReplyAnswersItsCommand
    NoWindowForAProcessRequest
    OneRequestOutlivesTheBridge
    NoSurvivors
    PortsFollowTheEnvelope
PROPERTIES
    HostCallReturns
    DeathIsReported
    ShutChildEnds
CHECK_DEADLOCK FALSE
