--------------------------- MODULE MCMutexNested ---------------------------
(* Two mutexes that one thread holds at a time.                            *)
EXTENDS Mutex

CONSTANTS m, n, high, low, idle

MCInitPrio == high :> 0 @@ low :> 2 @@ idle :> 3
MCInitTick == [t \in Thread |-> 1]
MCForever == {-1}
=============================================================================
