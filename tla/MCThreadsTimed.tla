-------------------------- MODULE MCThreadsTimed --------------------------
(* A thread that is deleted may be in a wait with a time limit.            *)
EXTENDS Threads

CONSTANTS m, v, idle, sem

MCInitPrio == m :> 1 @@ v :> 1 @@ idle :> 2
MCInitTick == [t \in Thread |-> 1]
MCTimed == {2}
=============================================================================
