SPECIFICATION Spec
CONSTANTS
    l1 = l1
    l2 = l2
    p1 = p1
    p2 = p2
    Links = {l1, l2}
    Ports = {p1}
    PortOf <- FanIn
    Newest = {}
    Depth = 2
    WiredFirst = {l1}
    MayPause = TRUE
    MaxBags = 1
INVARIANT AsleepMeansEmpty
CHECK_DEADLOCK FALSE
