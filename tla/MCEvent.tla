------------------------------ MODULE MCEvent ------------------------------
(* Two threads of two priorities, two bits, and a handler that sends: with *)
(* the idle thread running, both may wait when the handler sends.          *)
EXTENDS Event

CONSTANTS a, b, idle, evt, x, y

MCInitPrio == a :> 0 @@ b :> 1 @@ idle :> 2
MCInitTick == [t \in Thread |-> 1]
MCWaitTimes == {0, 2}
MCRequests ==
    [want : {Bit}, all : BOOLEAN, clear : BOOLEAN]
        \cup [want : {{v} : v \in Bit}, all : {TRUE}, clear : BOOLEAN]

(* The requests are closed under a permutation of the bits.                *)
MCSymmetry == Permutations(Bit)
=============================================================================
