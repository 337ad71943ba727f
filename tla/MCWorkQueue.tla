---------------------------- MODULE MCWorkQueue ----------------------------
(* A client above the timer thread, which sleeps and so may come in at any *)
(* point of the timer thread and of the work thread, and two works.        *)
EXTENDS WorkQueue

CONSTANTS a, timerd, workd, idle, ackd, workV, workW

MCInitPrio == a :> 0 @@ timerd :> 1 @@ workd :> 2 @@ idle :> 3
MCInitTick == [t \in Thread |-> 1]
MCDelay == [x \in Timer |-> 1]

(* No two threads have one priority and InitTick is 1: the yield flag is   *)
(* read only between threads of one priority, and changes nothing here.    *)
MCView == <<[k EXCEPT !.yield = {}], pc, irq, softVars, queueVars>>
=============================================================================
