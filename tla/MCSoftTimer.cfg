CONSTANTS
    a = a
    timerd = timerd
    idle = idle
    once = once
    again = again
    Thread = {a, timerd, idle}
    Idle = idle
    Main = a
    Object = {}
    MaxPrio = 2
    InitPrio <- MCInitPrio
    InitTick <- MCInitTick
    TickMod = 10
    SleepTimes = {}
    MaxNest = 0
    Timer = {once, again}
    TimerThread = timerd
    Delay <- MCDelay
    Periodic = {again}
    MaxLate = 1
SPECIFICATION FairSpec
INVARIANTS
    TypeOK
PROPERTIES
    ImplementsTimer
    DueTimersFire
