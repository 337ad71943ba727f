CONSTANTS
    a = a
    b = b
    idle = idle
    evt = evt
    x = x
    y = y
    Thread = {a, b, idle}
    Idle = idle
    Main = b
    Object = {evt}
    Evt = evt
    MaxPrio = 2
    InitPrio <- MCInitPrio
    InitTick <- MCInitTick
    TickMod = 8
    SleepTimes = {}
    MaxNest = 0
    EventFlag = "PRIO"
    Bit = {x, y}
    Requests <- MCRequests
    WaitTimes <- MCWaitTimes
SYMMETRY MCSymmetry
SPECIFICATION Spec
INVARIANTS
    TypeOK
    NoEventMissed
PROPERTIES
    ImplementsEvent
