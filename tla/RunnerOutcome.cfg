SPECIFICATION RunnerSpec
CONSTANTS
    p1 = p1
    l1 = l1
    h1 = h1
    h2 = h2
    t1 = t1
    Processors = {p1}
    Links = {}
    Source <- NoLinks
    Target <- NoLinks
    Hosts = {h1, h2}
    Tasks = {t1}
    Makes <- TwoEditors
    Callers = {h1, h2, t1, p1}
    NoCaller = NoCaller
    MaxEdits = 2
INVARIANT CallerLearnsItsOutcome
CHECK_DEADLOCK FALSE
