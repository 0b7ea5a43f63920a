SPECIFICATION LiveSpec
CONSTANTS
    Threads = {t1, t2}
    Helpers = {h1}
    Nobody = Nobody
    PreAllocate = 1
    ExpandBy = 1
    PoolMax = 2
    CacheMax = 1
    MaxGen = 2
    MaxHolders = 1
    MaxLeases = 2
INVARIANTS
    TypeOK
    HeldFrameIsCurrent
    LeaseEndsWithItsConnection
    CacheServesLiveFrames
PROPERTIES
    ContractHolds
    DeadConnectionPinsNothing
    AcquireReturns
