------------------------------ MODULE MCMutex ------------------------------
EXTENDS Mutex

CONSTANTS m, high, mid, low, idle

MCInitPrio == high :> 0 @@ mid :> 1 @@ low :> 2 @@ idle :> 3
MCInitTick == [t \in Thread |-> 1]
MCWaitTimes == {-1, 0, 2}
=============================================================================
