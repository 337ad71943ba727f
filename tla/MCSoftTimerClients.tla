------------------------ MODULE MCSoftTimerClients ------------------------
(* Two threads below the timer thread, as a program with the configuration *)
(* of this repository has (the timer thread is at priority 4), each of     *)
(* which starts and stops timers; the higher one sleeps now and then.      *)
EXTENDS SoftTimer

CONSTANTS a, b, timerd, idle, once

MCInitPrio == timerd :> 0 @@ a :> 1 @@ b :> 2 @@ idle :> 3
MCInitTick == [t \in Thread |-> 1]
MCDelay == once :> 1
=============================================================================
