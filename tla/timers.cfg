SPECIFICATION TimerFairSpec
CONSTANTS
    u = u
    v = v
    once = once
    beat = beat
    both = both
    Timer <- MCTimer
    rt_timer_list = rt_timer_list
    Thread = {u, v}
    TickRange = 12
    Time <- MCTime
    Period <- MCPeriod
    Patience = 1
    Api <- MCApi
    Callback <- MCCallback
INVARIANTS
    TimerTypeOK
    RingSound
    PendingCanBeStopped
PROPERTIES
    CheckEnds
    CountsDown
