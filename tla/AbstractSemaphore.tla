------------------------- MODULE AbstractSemaphore -------------------------
(***************************************************************************)
(* What a counting semaphore promises, without lists, timers or scheduler. *)
(* A thread that asks while a token is there gets it at once.  Otherwise   *)
(* it wants one until a release grants it, or until it is refused, and a   *)
(* thread that wants a token never sees one lie there.                     *)
(***************************************************************************)
EXTENDS Naturals

CONSTANTS Client, MaxTokens

VARIABLES tokens, phase

Phase == {"out", "want", "granted", "refused"}

Init ==
    /\ tokens \in 0 .. MaxTokens
    /\ phase = [c \in Client |-> "out"]

Move(c, from, to) ==
    /\ phase[c] = from
    /\ phase' = [phase EXCEPT ![c] = to]

Nobody(ph) == \A c \in Client : phase[c] # ph

Take == tokens > 0 /\ tokens' = tokens - 1 /\ UNCHANGED phase

Ask(c) == tokens = 0 /\ Move(c, "out", "want") /\ UNCHANGED tokens

Release ==
    \/ Nobody("want") /\ tokens < MaxTokens
       /\ tokens' = tokens + 1 /\ UNCHANGED phase
    \/ \E c \in Client : Move(c, "want", "granted") /\ UNCHANGED tokens

GiveUp(c) == Move(c, "want", "refused") /\ UNCHANGED tokens

Return(c) ==
    /\ Move(c, "granted", "out") \/ Move(c, "refused", "out")
    /\ UNCHANGED tokens

Reset ==
    /\ Nobody("want")
    /\ tokens' \in 0 .. MaxTokens
    /\ UNCHANGED phase

Next ==
    \/ Take \/ Release \/ Reset
    \/ \E c \in Client : Ask(c) \/ GiveUp(c) \/ Return(c)

Spec == Init /\ [][Next]_<<tokens, phase>>
=============================================================================
