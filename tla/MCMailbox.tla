----------------------------- MODULE MCMailbox -----------------------------
(* Two worker threads and a handler, which may take what a thread was      *)
(* woken for.                                                              *)
EXTENDS Mailbox

CONSTANTS a, b, idle, recvs, sends, x, y

MCInitPrio == a :> 0 @@ b :> 1 @@ idle :> 2
MCInitTick == [t \in Thread |-> 1]
MCWaitTimes == {-1, 2}

(* The values of the mails matter to no step.                              *)
MCSymmetry == Permutations(Mail)
=============================================================================
