----------------------------- MODULE MCThreads -----------------------------
(* The threads that are deleted wait without a time limit.                 *)
EXTENDS Threads

CONSTANTS m, v, w, idle, sem

MCInitPrio == m :> 1 @@ v :> 1 @@ w :> 0 @@ idle :> 2
MCInitTick == [t \in Thread |-> 1]
MCForever == {-1}
=============================================================================
