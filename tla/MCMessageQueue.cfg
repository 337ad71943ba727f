CONSTANTS
    a = a
    b = b
    idle = idle
    recvs = recvs
    sends = sends
    x = x
    y = y
    Thread = {a, b, idle}
    Idle = idle
    Main = b
    Object = {recvs, sends}
    Receivers = recvs
    Senders = sends
    MaxPrio = 2
    InitPrio <- MCInitPrio
    InitTick <- MCInitTick
    TickMod = 8
    SleepTimes = {}
    MaxNest = 0
    MqFlag = "FIFO"
    MaxMsgs = 2
    Message = {x, y}
    WaitTimes <- MCWaitTimes
    MaxDelay = 2
SYMMETRY MCSymmetry
SPECIFICATION Spec
INVARIANTS
    TypeOK
    BlocksAccounted
    NoMessageMissed
    NoBlockMissed
PROPERTIES
    ImplementsMessageQueue
