SPECIFICATION SemSpec
CONSTANTS
    hi = hi
    p1 = p1
    p2 = p2
    sem = sem
    idle = idle
    NoThread = NoThread
    Thread <- MCThread
    PrioMax = 3
    IpcList <- MCSem
    Priority <- MCPriority
    InitTick <- MCInitTick
    TickMax = 3
    LockMax = 1
    Delay = {1}
    BootThread <- MCThread
    Api <- TakersApi
    SemFlag <- Prio_
    SemValue <- One
    SemValueMax = 2
    ReleaseMax = 2
    WaitTime <- Timed
    ResetValue = {0, 1}
INVARIANTS
    GrantedTakesSucceed
