SPECIFICATION NewOrRunning
CONSTANTS
    p1 = p1
    l1 = l1
    h1 = h1
    h2 = h2
    t1 = t1
    Processors = {p1}
    Links = {l1}
    Source <- SelfLoop
    Target <- SelfLoop
    Hosts = {h1}
    Tasks = {t1}
    Makes <- Alone
    Callers = {h1, t1, p1}
    NoCaller = NoCaller
    MaxEdits = 2
PROPERTIES
    CallReturns
    QueuedIsCommitted
    RemovalCompletes
CHECK_DEADLOCK FALSE
