------------------------ MODULE AbstractMessageQueue ------------------------
(***************************************************************************)
(* What a message queue promises: a bounded queue of messages.  Moving a   *)
(* message takes time: a sender claims a place first and fills it later, a *)
(* receiver takes the oldest message first and gives its place back later. *)
(* A client that finds no place (or no message) may wait and may give up;  *)
(* once it has claimed or taken it always finishes.                        *)
(***************************************************************************)
EXTENDS Naturals, Sequences, FiniteSets

CONSTANTS Client, Message, Capacity

VARIABLES queue,
          phase  \* [Client -> <<"out">>, <<"receiving">>, <<"sending", m>>,
                 \*   <<"filling", m>>, <<"urging", m>> or <<"emptying">>]

Init ==
    /\ queue = <<>>
    /\ phase = [c \in Client |-> <<"out">>]

Busy == {c \in Client : phase[c][1] \in {"filling", "urging", "emptying"}}

Room == Len(queue) + Cardinality(Busy) < Capacity

Move(c, from, to) == phase[c] = from /\ phase' = [phase EXCEPT ![c] = to]

Wait(c) ==
    /\ \/ ~Room /\ \E m \in Message : Move(c, <<"out">>, <<"sending", m>>)
       \/ queue = <<>> /\ Move(c, <<"out">>, <<"receiving">>)
    /\ UNCHANGED queue

GiveUp(c) ==
    /\ phase[c] \notin {<<"out">>} /\ c \notin Busy
    /\ Move(c, phase[c], <<"out">>)
    /\ UNCHANGED queue

Claim(c, m) ==
    /\ Room
    /\ \/ Move(c, <<"out">>, <<"filling", m>>)
       \/ Move(c, <<"sending", m>>, <<"filling", m>>)
       \/ Move(c, <<"out">>, <<"urging", m>>)
    /\ UNCHANGED queue

Fill(c, m) ==
    \/ Move(c, <<"filling", m>>, <<"out">>) /\ queue' = Append(queue, m)
    \/ Move(c, <<"urging", m>>, <<"out">>) /\ queue' = <<m>> \o queue

Take(c) ==
    /\ queue # <<>>
    /\ \/ Move(c, <<"out">>, <<"emptying">>)
       \/ Move(c, <<"receiving">>, <<"emptying">>)
    /\ queue' = Tail(queue)

Return(c) == Move(c, <<"emptying">>, <<"out">>) /\ UNCHANGED queue

(* A handler moves a message in one step, and a reset drops them all.      *)
Handler ==
    /\ \/ Room /\ \E m \in Message : queue' \in {Append(queue, m), <<m>> \o queue}
       \/ queue # <<>> /\ queue' = Tail(queue)
       \/ queue' = <<>>
    /\ UNCHANGED phase

Next ==
    \/ Handler
    \/ \E c \in Client :
          \/ Wait(c) \/ GiveUp(c) \/ Take(c) \/ Return(c)
          \/ \E m \in Message : Claim(c, m) \/ Fill(c, m)

Spec == Init /\ [][Next]_<<queue, phase>>
=============================================================================
