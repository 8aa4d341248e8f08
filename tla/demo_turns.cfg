SPECIFICATION DemoFairSpec
CONSTANTS
    flag1 = flag1
    flag2 = flag2
    flag3 = flag3
    flag4 = flag4
    idle = idle
    NoThread = NoThread
    container = container
    Thread <- MCThread
    PrioMax = 2
    IpcList = {}
    Priority <- MCPriority
    InitTick <- MCInitTick
    TickMax = 2
    LockMax = 2
    Delay = {1, 2}
    BootThread <- MCThread
    Api <- MCApi
    LongDelay = 2
    ShortDelay = 1
    CounterRange = 3
    DetachAt = 2
PROPERTIES
    PeersGetTurns
