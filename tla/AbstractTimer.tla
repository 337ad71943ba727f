--------------------------- MODULE AbstractTimer ---------------------------
(***************************************************************************)
(* What software timers promise to the clients that start and stop them: a *)
(* timer is called only when the ticks it was last started for have gone   *)
(* by, once for each start, and never after it was stopped; a periodic one *)
(* is armed again after each call, unless it was started or stopped during *)
(* it.  One timer is called at a time.                                     *)
(***************************************************************************)
EXTENDS Naturals

CONSTANTS Client, Timer, Delay, Periodic

VARIABLES phase, \* [Timer -> {"stopped", "armed", "called"}]
          left,  \* [Timer -> Nat], the ticks an armed timer has still to go
          asked  \* [Client -> <<"nothing">>, <<"start", tm>> or <<"stop", tm>>]

Init ==
    /\ phase = [tm \in Timer |-> "stopped"]
    /\ left = [tm \in Timer |-> 0]
    /\ asked = [c \in Client |-> <<"nothing">>]

Tick ==
    /\ left' = [tm \in Timer |-> IF left[tm] > 0 THEN left[tm] - 1 ELSE 0]
    /\ UNCHANGED <<phase, asked>>

Ask(c) ==
    /\ asked[c] = <<"nothing">>
    /\ \E what \in {"start", "stop"}, tm \in Timer :
          asked' = [asked EXCEPT ![c] = <<what, tm>>]
    /\ UNCHANGED <<phase, left>>

Becomes(tm, p, n) ==
    /\ phase' = [phase EXCEPT ![tm] = p]
    /\ left' = [left EXCEPT ![tm] = n]

Answer(c) ==
    /\ \E tm \in Timer :
          \/ asked[c] = <<"start", tm>> /\ Becomes(tm, "armed", Delay[tm])
          \/ asked[c] = <<"stop", tm>> /\ Becomes(tm, "stopped", 0)
    /\ asked' = [asked EXCEPT ![c] = <<"nothing">>]

(* The timers in back have been called, and those in out are called.       *)
Serve(back, out) ==
    /\ \A tm \in back : phase[tm] = "called"
    /\ \A tm \in out : phase[tm] = "armed" /\ left[tm] = 0
    /\ phase' = [tm \in Timer |->
                    IF tm \in out THEN "called"
                    ELSE IF tm \notin back THEN phase[tm]
                    ELSE IF tm \in Periodic THEN "armed" ELSE "stopped"]
    /\ left' = [tm \in Timer |-> IF tm \in back \cap Periodic THEN Delay[tm]
                                 ELSE left[tm]]
    /\ \A t1, t2 \in Timer :
          phase'[t1] = "called" /\ phase'[t2] = "called" => t1 = t2
    /\ UNCHANGED asked

Next ==
    \/ Tick
    \/ \E c \in Client : Ask(c) \/ Answer(c)
    \/ \E back, out \in SUBSET Timer : Serve(back, out)

Spec == Init /\ [][Next]_<<phase, left, asked>>
=============================================================================
