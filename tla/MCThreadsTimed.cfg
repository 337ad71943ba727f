CONSTANTS
    m = m
    v = v
    idle = idle
    sem = sem
    Thread = {m, v, idle}
    Idle = idle
    Main = m
    Manager = m
    Static = {}
    Object = {sem}
    Sem = sem
    MaxPrio = 2
    InitPrio <- MCInitPrio
    InitTick <- MCInitTick
    TickMod = 8
    SleepTimes = {}
    MaxNest = 0
    SemFlag = "PRIO"
    SemValueMax = 1
    WaitTimes <- MCTimed
SPECIFICATION ThreadsSpec
INVARIANTS
    ClosedUnlinked
