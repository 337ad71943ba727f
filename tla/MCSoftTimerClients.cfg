CONSTANTS
    a = a
    b = b
    timerd = timerd
    idle = idle
    once = once
    Thread = {a, b, timerd, idle}
    Idle = idle
    Main = b
    Object = {}
    MaxPrio = 3
    InitPrio <- MCInitPrio
    InitTick <- MCInitTick
    TickMod = 10
    SleepTimes = {1}
    MaxNest = 0
    Timer = {once}
    TimerThread = timerd
    Delay <- MCDelay
    Periodic = {}
    MaxLate = 1
SPECIFICATION Spec
INVARIANTS
    TimeoutOfSuspended
