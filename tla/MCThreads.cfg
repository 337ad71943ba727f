CONSTANTS
    m = m
    v = v
    w = w
    idle = idle
    sem = sem
    Thread = {m, v, w, idle}
    Idle = idle
    Main = m
    Manager = m
    Static = {w}
    Object = {sem}
    Sem = sem
    MaxPrio = 2
    InitPrio <- MCInitPrio
    InitTick <- MCInitTick
    TickMod = 5
    SleepTimes = {}
    MaxNest = 0
    SemFlag = "PRIO"
    SemValueMax = 1
    WaitTimes <- MCForever
SPECIFICATION ThreadsSpec
INVARIANTS
    ThreadsTypeOK
    ClosedUnlinked
    ClosedOnce
    PlacesAgree
