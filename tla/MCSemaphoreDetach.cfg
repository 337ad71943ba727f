CONSTANTS
    a = a
    b = b
    idle = idle
    sem = sem
    Thread = {a, b, idle}
    Idle = idle
    Main = b
    Object = {sem}
    Sem = sem
    MaxPrio = 2
    InitPrio <- MCInitPrio
    InitTick <- MCInitTick
    TickMod = 8
    SleepTimes = {}
    MaxNest = 0
    SemFlag = "FIFO"
    SemValueMax = 1
    WaitTimes <- MCWaitTimes
SPECIFICATION Spec
INVARIANTS
    ResumesThreads
