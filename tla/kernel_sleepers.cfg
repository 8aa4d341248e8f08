SPECIFICATION FairSpec
CONSTANTS
    hi = hi
    p1 = p1
    p2 = p2
    idle = idle
    NoThread = NoThread
    Thread <- MCThread
    PrioMax = 3
    IpcList = {}
    Priority <- MCPriority
    InitTick <- MCInitTick
    TickMax = 3
    LockMax = 2
    Delay = {0, 1, 2}
    BootThread <- MCThread
    Api <- SleepersApi
INVARIANTS
    TypeOK
    NoFault
    ReadyIffListed
    SleepersHaveTimers
    TimersSorted
    NoneOverdue
PROPERTIES
    LockKeepsCpu
    SchedulesByPriority
    TimersCountDown
    SleepersWake
    PeersTakeTurns
