SPECIFICATION Spec
CONSTANTS
    hi = hi
    p1 = p1
    p2 = p2
    idle = idle
    NoThread = NoThread
    Thread <- PairThread
    PrioMax = 10
    IpcList = {}
    Priority <- PairPriority
    InitTick <- PairInitTick
    TickMax = 3
    LockMax = 2
    Delay = {1}
    BootThread <- FreeBoot
    Api <- FreeApi
INVARIANTS
    ReadyLevelsHaveBits
    StaleBitsAreTransient
    LinkedOnce
CHECK_DEADLOCK FALSE
