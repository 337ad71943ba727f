--------------------------- MODULE AbstractMutex ---------------------------
(***************************************************************************)
(* What a mutex promises: one holder at a time, who may take it again; a   *)
(* release goes to a thread that wants it if there is one, never to a      *)
(* newcomer; and a refused thread has never held it.                       *)
(***************************************************************************)
EXTENDS Integers

CONSTANTS Client, MaxDepth

VARIABLES phase,  \* "out", "want", "granted" (not yet returned) or "refused"
          depth   \* how often each client has taken it and not released it

Init ==
    /\ phase = [c \in Client |-> "out"]
    /\ depth = [c \in Client |-> 0]

Move(c, from, to) ==
    /\ phase[c] = from
    /\ phase' = [phase EXCEPT ![c] = to]

Deepen(c, n) == depth' = [depth EXCEPT ![c] = @ + n]

Holding(c) == depth[c] > 0 \/ phase[c] = "granted"

Free == \A c \in Client : ~Holding(c)

Take(c) ==
    /\ phase[c] = "out"
    /\ depth[c] > 0 \/ Free
    /\ depth[c] < MaxDepth
    /\ Deepen(c, 1)
    /\ UNCHANGED phase

Ask(c) == ~Free /\ ~Holding(c) /\ Move(c, "out", "want") /\ UNCHANGED depth

Nobody(ph) == \A c \in Client : phase[c] # ph

Release(c) ==
    /\ depth[c] > 0
    /\ Deepen(c, -1)
    /\ IF depth[c] > 1 \/ Nobody("want")
       THEN UNCHANGED phase
       ELSE \E d \in Client : Move(d, "want", "granted")

GiveUp(c) == Move(c, "want", "refused") /\ UNCHANGED depth

Return(c) ==
    \/ Move(c, "granted", "out") /\ Deepen(c, 1)
    \/ Move(c, "refused", "out") /\ UNCHANGED depth

Next == \E c \in Client :
    Take(c) \/ Ask(c) \/ Release(c) \/ GiveUp(c) \/ Return(c)

Spec == Init /\ [][Next]_<<phase, depth>>
=============================================================================
