SPECIFICATION Spec
CONSTANTS
    l1 = l1
    l2 = l2
    p1 = p1
    p2 = p2
    Links = {l1, l2}
    Ports = {p1, p2}
    PortOf <- Apart
    Newest = {p2}
    Depth = 1
    WiredFirst = {}
    MayPause = TRUE
    MaxBags = 1
INVARIANT NoProcessWhileToldPaused
PROPERTIES
    ShutdownIsSeen
    NotificationIsServed
CHECK_DEADLOCK FALSE
