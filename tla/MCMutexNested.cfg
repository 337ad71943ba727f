CONSTANTS
    high = high
    low = low
    idle = idle
    None = None
    m = m
    n = n
    Thread = {high, low, idle}
    Idle = idle
    Main = low
    Object = {m, n}
    MaxPrio = 3
    InitPrio <- MCInitPrio
    InitTick <- MCInitTick
    TickMod = 8
    SleepTimes = {2}
    MaxNest = 0
    MutexFlag = "PRIO"
    HoldMax = 1
    WaitTimes <- MCForever
SPECIFICATION Spec
INVARIANTS
    PriorityRestored
