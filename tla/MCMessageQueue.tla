--------------------------- MODULE MCMessageQueue ---------------------------
(* Two worker threads and a handler, which may take what a thread was      *)
(* woken for, or move a message while a thread copies another.             *)
EXTENDS MessageQueue

CONSTANTS a, b, idle, recvs, sends, x, y

MCInitPrio == a :> 0 @@ b :> 1 @@ idle :> 2
MCInitTick == [t \in Thread |-> 1]
MCWaitTimes == {-1, 1}

(* The contents of the messages matter to no step.                         *)
MCSymmetry == Permutations(Message)
=============================================================================
