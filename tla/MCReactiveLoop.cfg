SPECIFICATION Spec
CONSTANTS
    l1 = l1
    l2 = l2
    p1 = p1
    p2 = p2
    Links = {l1, l2}
    Ports = {p1}
    PortOf <- FanIn
    Newest = {}
    Depth = 2
    WiredFirst = {l1}
    MayPause = FALSE
    MaxBags = 3
INVARIANTS
    TypeOK
    EveryBagIsAccountedFor
    AsleepMeansEmpty
PROPERTY BagsKeepTheirOrder
CHECK_DEADLOCK FALSE
