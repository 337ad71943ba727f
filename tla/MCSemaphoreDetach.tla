------------------------- MODULE MCSemaphoreDetach -------------------------
EXTENDS Semaphore

CONSTANTS a, b, idle, sem

MCInitPrio == a :> 0 @@ b :> 1 @@ idle :> 2
MCInitTick == [t \in Thread |-> 1]
MCWaitTimes == {-1, 2}
=============================================================================
