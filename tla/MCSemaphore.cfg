CONSTANTS
    a = a
    b = b
    d = d
    idle = idle
    sem = sem
    Thread = {a, b, d, idle}
    Idle = idle
    Main = b
    Object = {sem}
    Sem = sem
    MaxPrio = 2
    InitPrio <- MCInitPrio
    InitTick <- MCInitTick
    TickMod = 8
    SleepTimes = {}
    MaxNest = 1
    SemFlag = "PRIO"
    SemValueMax = 1
    WaitTimes <- MCWaitTimes
SPECIFICATION Spec
INVARIANTS
    TypeOK
    HighestRuns
    NoTokenWhileWaiting
PROPERTIES
    ImplementsSemaphore
    ServedInOrder
