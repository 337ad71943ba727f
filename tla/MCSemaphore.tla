---------------------------- MODULE MCSemaphore ----------------------------
EXTENDS Semaphore

CONSTANTS a, b, d, idle, sem

MCInitPrio == a :> 0 @@ b :> 1 @@ d :> 1 @@ idle :> 2
MCInitTick == [t \in Thread |-> 1]
MCWaitTimes == {-1, 0, 2}
=============================================================================
