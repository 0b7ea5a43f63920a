SPECIFICATION Spec
CONSTANTS
    Threads = {t1, t2}
    Helpers = {}
    Nobody = Nobody
    PreAllocate = 1
    ExpandBy = 1
    PoolMax = 2
    CacheMax = 9
    MaxGen = 2
    MaxHolders = 1
    MaxLeases = 1
INVARIANT NoOlderFrameIsHeld
