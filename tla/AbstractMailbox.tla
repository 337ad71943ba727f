-------------------------- MODULE AbstractMailbox --------------------------
(***************************************************************************)
(* What a mailbox promises: a bounded queue of mails.  A client that finds *)
(* it full (or empty) may wait, with the mail it wants to send; it leaves  *)
(* the wait by sending that mail, by receiving the oldest one, or by       *)
(* giving up, and then the queue is as it was.                             *)
(***************************************************************************)
EXTENDS Naturals, Sequences

CONSTANTS Client, Mail, Capacity

VARIABLES queue,
          phase  \* [Client -> <<"out">>, <<"receiving">> or <<"sending", mail>>]

Init ==
    /\ queue = <<>>
    /\ phase = [c \in Client |-> <<"out">>]

Enter(c, ph) == phase[c] = <<"out">> /\ phase' = [phase EXCEPT ![c] = ph]

AskSend(c, m) ==
    Len(queue) = Capacity /\ Enter(c, <<"sending", m>>) /\ UNCHANGED queue

AskReceive(c) == queue = <<>> /\ Enter(c, <<"receiving">>) /\ UNCHANGED queue

Leave(c, ph) == phase[c] = ph /\ phase' = [phase EXCEPT ![c] = <<"out">>]

(* By a client that has not waited, by a handler, or by a waiting client.  *)
Send(m) ==
    /\ Len(queue) < Capacity
    /\ queue' = Append(queue, m)
    /\ UNCHANGED phase \/ \E c \in Client : Leave(c, <<"sending", m>>)

Urgent(m) ==
    /\ Len(queue) < Capacity
    /\ queue' = <<m>> \o queue
    /\ UNCHANGED phase

Receive ==
    /\ queue # <<>>
    /\ queue' = Tail(queue)
    /\ UNCHANGED phase \/ \E c \in Client : Leave(c, <<"receiving">>)

GiveUp(c) ==
    /\ Leave(c, phase[c])
    /\ UNCHANGED queue

Clear == queue' = <<>> /\ UNCHANGED phase

Next ==
    \/ \E m \in Mail : Send(m) \/ Urgent(m)
    \/ Receive \/ Clear
    \/ \E c \in Client :
          AskReceive(c) \/ GiveUp(c) \/ \E m \in Mail : AskSend(c, m)

Spec == Init /\ [][Next]_<<queue, phase>>
=============================================================================
