CONSTANTS
    high = high
    mid = mid
    low = low
    idle = idle
    None = None
    m = m
    Thread = {high, mid, low, idle}
    Idle = idle
    Main = low
    Object = {m}
    MaxPrio = 3
    InitPrio <- MCInitPrio
    InitTick <- MCInitTick
    TickMod = 8
    SleepTimes = {0}
    MaxNest = 0
    MutexFlag = "FIFO"
    HoldMax = 2
    WaitTimes <- MCWaitTimes
SPECIFICATION FairSpec
INVARIANTS
    TypeOK
    SchedulerConsistent
    NoneStranded
    TimersAhead
    OwnerAgrees
    OwnerInherits
    PriorityRestored
    NoInversion
PROPERTIES
    ImplementsMutex
    NoEarlyTimeout
    TopTakeReturns
