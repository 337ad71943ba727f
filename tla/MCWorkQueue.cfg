CONSTANTS
    a = a
    timerd = timerd
    workd = workd
    idle = idle
    ackd = ackd
    workV = workV
    workW = workW
    Thread = {a, timerd, workd, idle}
    Idle = idle
    Main = a
    Object = {ackd}
    MaxPrio = 3
    InitPrio <- MCInitPrio
    InitTick <- MCInitTick
    TickMod = 5
    SleepTimes = {1}
    MaxNest = 0
    Timer = {workV, workW}
    TimerThread = timerd
    Delay <- MCDelay
    Periodic = {}
    MaxLate = 1
    WorkThread = workd
    Ack = ackd
    DelayedWork = {workV}
VIEW MCView
SPECIFICATION QueueSpec
INVARIANTS
    QueueTypeOK
    NoWorkMissed
    NoSyncForgotten
    NoDelayForgotten
