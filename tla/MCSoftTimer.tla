---------------------------- MODULE MCSoftTimer ----------------------------
(* One worker thread below the timer thread, a one-shot and a periodic     *)
(* timer.                                                                  *)
EXTENDS SoftTimer

CONSTANTS a, timerd, idle, once, again

MCInitPrio == timerd :> 0 @@ a :> 1 @@ idle :> 2
MCInitTick == [t \in Thread |-> 1]
MCDelay == once :> 1 @@ again :> 2
=============================================================================
