------------------------------ MODULE Mailbox ------------------------------
(***************************************************************************)
(* A mailbox of src/rt-thread/src/ipc.c, used by threads and by a handler, *)
(* on the processor of module Processor.                                   *)
(*                                                                         *)
(* A sender that finds it full and a receiver that finds it empty wait in  *)
(* lists of their own.  A waiter that is woken is given nothing: it tests  *)
(* the mailbox again when it runs, and may wait again for the time left.   *)
(***************************************************************************)
EXTENDS Processor

CONSTANTS Receivers,  \* the list mb->parent.suspend_thread
          Senders,    \* the list mb->suspend_sender_thread
          MbFlag,     \* RT_IPC_FLAG_FIFO or RT_IPC_FLAG_PRIO
          Size,       \* mb->size
          Mail,       \* the values sent
          WaitTimes,  \* the times the calls are made with
          MaxDelay    \* bound on the ticks from a blocking to the next step

ASSUME MailboxAssumption ==
    /\ Object = {Receivers, Senders} /\ Receivers # Senders
    /\ MbFlag \in {"FIFO", "PRIO"}
    /\ Size \in Nat \ {0}
    /\ WaitTimes \subseteq Int
    /\ MaxDelay \in Nat /\ MaxDelay <= HalfTick + 1

VARIABLES pool,   \* [0 .. Size - 1 -> Mail or "none"]: mb->msg_pool
          in,     \* mb->in_offset
          out,    \* mb->out_offset
          entry,  \* mb->entry
          life,   \* "live"; the list a detach is in; "gone" after it
          call    \* the locals of the call a thread is blocked in

box == <<pool, in, out, entry>>
vars == <<kernelVars, box, life, call>>

Slot == 0 .. Size - 1

(* start is tick_delta before it is recomputed, deadline a history         *)
(* variable: the tick at which the call was to end when it was made.       *)
NoCall == [op |-> "none", mail |-> "none", time |-> 0, start |-> 0, deadline |-> 0]

Init ==
    /\ KernelInit
    /\ pool = [i \in Slot |-> "none"]
    /\ in = 0 /\ out = 0 /\ entry = 0
    /\ life = "live"
    /\ call = [t \in Thread |-> NoCall]

Full == entry = Size
Empty == entry = 0

EndCall(t) == call' = [call EXCEPT ![t] = NoCall]

-----------------------------------------------------------------------------
(* The masked regions that move a mail.                                    *)

Step(i) == IF i + 1 >= Size THEN 0 ELSE i + 1

PutBack(m) ==
    /\ pool' = [pool EXCEPT ![in] = m]
    /\ in' = Step(in)
    /\ entry' = entry + 1
    /\ UNCHANGED out

PutFront(m) ==
    LET prev == IF out > 0 THEN out - 1 ELSE Size - 1
    IN  /\ pool' = [pool EXCEPT ![prev] = m]
        /\ out' = prev
        /\ entry' = entry + 1
        /\ UNCHANGED in

TakeFrontMutant ==                          \* past the end of the pool
    /\ pool' = [pool EXCEPT ![out] = "none"]
    /\ out' = IF out + 1 > Size THEN 0 ELSE out + 1
    /\ entry' = entry - 1
    /\ UNCHANGED in

(* The slot keeps its value in the code, which reads it no more.           *)
TakeFront ==
    /\ pool' = [pool EXCEPT ![out] = "none"]
    /\ out' = Step(out)
    /\ entry' = entry - 1
    /\ UNCHANGED in

(* The end of a call that has moved a mail: wake one waiter and schedule.  *)
WakeOne(t, list) ==
    IF k.wait[list] # <<>>
    THEN k' = IpcListResume(k, list) /\ Goto(t, "sched")
    ELSE Goto(t, "run") /\ UNCHANGED k

Suspend(t, list, c) ==
    /\ k' = Block(k, list, t, MbFlag, c.time)
    /\ Goto(t, "wait")
    /\ call' = [call EXCEPT ![t] =
                   [c EXCEPT !.start = IF c.time > 0 THEN k.tick ELSE 0]]

Deadline(time) == IF time > 0 THEN Later(k, time) ELSE 0

LeftMutant(c) == c.time                     \* the whole time once more

(* The time left, in the signed and unsigned arithmetic of the code.       *)
Left(c) ==
    LET d == Minus(c.time, Minus(k.tick, c.start))
    IN  IF c.time <= 0 THEN c.time
        ELSE IF d < (TickMod + 1) \div 2 THEN d ELSE 0

-----------------------------------------------------------------------------
(* rt_mb_send_wait                                                         *)

SendNow(t, m) ==
    /\ At(t, "run") /\ life = "live"
    /\ ~Full
    /\ PutBack(m)
    /\ WakeOne(t, Receivers)
    /\ UNCHANGED <<irq, life, call>>

SendBlocks(t, m) ==
    /\ At(t, "run") /\ life = "live" /\ MayBlock
    /\ Full
    /\ \E time \in WaitTimes \ {0} :
          Suspend(t, Senders, [op |-> "send", mail |-> m, time |-> time,
                               start |-> 0, deadline |-> Deadline(time)])
    /\ UNCHANGED <<irq, box, life>>

(* A waiter that runs again with RT_EOK in thread->error.                  *)
Resumed(t, op) == At(t, "woken") /\ k.error[t] = "OK" /\ call[t].op = op

SendResumesMutant(t) ==                     \* mb->entry is not tested again
    /\ Resumed(t, "send")
    /\ PutBack(call[t].mail)
    /\ WakeOne(t, Receivers)
    /\ EndCall(t)
    /\ UNCHANGED <<irq, life>>

SendResumes(t) ==
    /\ Resumed(t, "send")
    /\ ~Full
    /\ PutBack(call[t].mail)
    /\ WakeOne(t, Receivers)
    /\ EndCall(t)
    /\ UNCHANGED <<irq, life>>

SendWaitsOn(t) ==                           \* the slot is taken again
    /\ Resumed(t, "send")
    /\ Full
    /\ IF Left(call[t]) = 0
       THEN Goto(t, "run") /\ EndCall(t) /\ UNCHANGED k     \* -RT_EFULL
       ELSE Suspend(t, Senders, [call[t] EXCEPT !.time = Left(call[t])])
    /\ UNCHANGED <<irq, box, life>>

CallFails(t) ==                 \* either call returns thread->error
    /\ At(t, "woken")
    /\ k.error[t] # "OK"
    /\ Goto(t, "run")
    /\ EndCall(t)
    /\ UNCHANGED <<k, irq, box, life>>

Urgent(t, m) ==                             \* rt_mb_urgent
    /\ At(t, "run") /\ life = "live"
    /\ ~Full
    /\ PutFront(m)
    /\ WakeOne(t, Receivers)
    /\ UNCHANGED <<irq, life, call>>

-----------------------------------------------------------------------------
(* rt_mb_recv                                                              *)

RecvNow(t) ==
    /\ At(t, "run") /\ life = "live"
    /\ ~Empty
    /\ TakeFront
    /\ WakeOne(t, Senders)
    /\ UNCHANGED <<irq, life, call>>

RecvBlocks(t) ==
    /\ At(t, "run") /\ life = "live" /\ MayBlock
    /\ Empty
    /\ \E time \in WaitTimes \ {0} :
          Suspend(t, Receivers, [op |-> "recv", mail |-> "none", time |-> time,
                                 start |-> 0, deadline |-> Deadline(time)])
    /\ UNCHANGED <<irq, box, life>>

RecvResumes(t) ==
    /\ Resumed(t, "recv")
    /\ ~Empty
    /\ TakeFront
    /\ WakeOne(t, Senders)
    /\ EndCall(t)
    /\ UNCHANGED <<irq, life>>

RecvWaitsOn(t) ==                           \* the mail is taken already
    /\ Resumed(t, "recv")
    /\ Empty
    /\ IF Left(call[t]) = 0
       THEN k' = [k EXCEPT !.error[t] = "TIMEOUT"] /\ Goto(t, "run") /\ EndCall(t)
       ELSE Suspend(t, Receivers, [call[t] EXCEPT !.time = Left(call[t])])
    /\ UNCHANGED <<irq, box, life>>

-----------------------------------------------------------------------------
(* A handler: the calls with time = 0.                                     *)

Handler == irq = "on" /\ life = "live" /\ UNCHANGED <<pc, irq, life, call>>

WakeFromHandlerMutant(list) ==  \* only when the mailbox was empty, or full
    IF k.wait[list] # <<>> /\ (IF list = Receivers THEN Empty ELSE Full)
    THEN k' = Schedule(IpcListResume(k, list))
    ELSE UNCHANGED k

WakeFromHandler(list) ==
    IF k.wait[list] # <<>>
    THEN k' = Schedule(IpcListResume(k, list))
    ELSE UNCHANGED k

IsrSend(m) == Handler /\ ~Full /\ PutBack(m) /\ WakeFromHandler(Receivers)

IsrUrgent(m) == Handler /\ ~Full /\ PutFront(m) /\ WakeFromHandler(Receivers)

IsrRecv == Handler /\ ~Empty /\ TakeFront /\ WakeFromHandler(Senders)

-----------------------------------------------------------------------------
(* rt_mb_control(RT_IPC_CMD_RESET): both lists in one masked region.       *)

Emptied ==
    /\ in' = 0 /\ out' = 0 /\ entry' = 0
    /\ pool' = [i \in Slot |-> "none"]

InReset(t) == irq = "off" /\ k.cur = t /\ pc[t] = "reset"

Nonempty == {o \in Object : k.wait[o] # <<>>}

ResetBegin(t) ==
    /\ At(t, "run") /\ life = "live"
    /\ irq' = "off"
    /\ Goto(t, "reset")
    /\ UNCHANGED <<k, box, life, call>>

ResetWake(t) ==                 \* the receivers first
    /\ InReset(t)
    /\ \E o \in Nonempty :
          /\ Receivers \in Nonempty => o = Receivers
          /\ k' = IpcListAbort(k, o)
    /\ UNCHANGED <<pc, irq, box, life, call>>

ResetEnd(t) ==
    /\ InReset(t)
    /\ Nonempty = {}
    /\ Emptied
    /\ irq' = "on"
    /\ Goto(t, "sched")
    /\ UNCHANGED <<k, life, call>>

-----------------------------------------------------------------------------
(* rt_mb_detach and rt_mb_delete empty the list of the receivers, then     *)
(* that of the senders, with interrupts enabled between two waiters.       *)

Unfinished(t) ==    \* woken in a call that may use the mailbox again
    /\ call[t].op # "none"
    /\ k.error[t] = "OK"
    /\ \A o \in Object : t \notin Range(k.wait[o])

DetachBegin(t) ==   \* the program lets the calls finish that were woken
    /\ At(t, "run") /\ life = "live"
    /\ \A u \in Thread : ~Unfinished(u)
    /\ life' = "receivers"
    /\ Goto(t, "detach")
    /\ UNCHANGED <<k, irq, box, call>>

Closing == IF life = "receivers" THEN Receivers ELSE Senders

DetachTest(t) ==
    /\ At(t, "detach")
    /\ k.wait[Closing] # <<>>
    /\ Goto(t, "dequeue")
    /\ UNCHANGED <<k, irq, box, life, call>>

DetachWake(t) ==
    /\ At(t, "dequeue")
    /\ k.wait[Closing] # <<>>
    /\ k' = IpcListAbort(k, Closing)
    /\ Goto(t, "detach")
    /\ UNCHANGED <<irq, box, life, call>>

DetachHalt(t) ==    \* the list has become empty since the test
    /\ At(t, "dequeue")
    /\ k.wait[Closing] = <<>>
    /\ irq' = "off"
    /\ Goto(t, "halt")
    /\ UNCHANGED <<k, box, life, call>>

Halted(t) ==                                \* rt_assert_handler
    /\ irq = "off" /\ k.cur = t /\ pc[t] = "halt"
    /\ UNCHANGED vars

DetachNext(t) ==
    /\ At(t, "detach") /\ life = "receivers"
    /\ k.wait[Receivers] = <<>>
    /\ life' = "senders"
    /\ UNCHANGED <<kernelVars, box, call>>

DetachEnd(t) ==
    /\ At(t, "detach") /\ life = "senders"
    /\ k.wait[Senders] = <<>>
    /\ life' = "gone"
    /\ Goto(t, "run")
    /\ UNCHANGED <<k, irq, box, call>>

MbInit(t) ==                                \* rt_mb_init, rt_mb_create
    /\ At(t, "run") /\ life = "gone"
    /\ life' = "live"
    /\ Emptied
    /\ UNCHANGED <<kernelVars, call>>

-----------------------------------------------------------------------------
MailStep(t) ==
    \/ \E m \in Mail : SendNow(t, m) \/ SendBlocks(t, m) \/ Urgent(t, m)
    \/ SendResumes(t) \/ SendWaitsOn(t)
    \/ RecvNow(t) \/ RecvBlocks(t) \/ RecvResumes(t) \/ RecvWaitsOn(t)
    \/ CallFails(t)
    \/ ResetBegin(t) \/ ResetWake(t) \/ ResetEnd(t)
    \/ DetachBegin(t) \/ DetachTest(t) \/ DetachWake(t) \/ DetachHalt(t)
    \/ DetachNext(t) \/ DetachEnd(t) \/ Halted(t)
    \/ MbInit(t)

HandlerStep == IsrRecv \/ \E m \in Mail : IsrSend(m) \/ IsrUrgent(m)

(* Tick arithmetic needs that a call goes on within half the tick range.   *)
Patient ==
    \A t \in Thread : call[t].time > 0 => Minus(k.tick, call[t].start) < MaxDelay

KernelStep ==
    /\ \/ Patient /\ TickInterrupt
       \/ TimerCheck \/ TickReturn
       \/ \E t \in Worker : CpuStep(t) \/ Sleep(t)
    /\ UNCHANGED <<box, life, call>>

Next == KernelStep \/ HandlerStep \/ \E t \in Worker : MailStep(t)

Spec == Init /\ [][Next]_vars

-----------------------------------------------------------------------------
TypeOK ==
    /\ KernelTypeOK
    /\ pool \in [Slot -> Mail \cup {"none"}]
    /\ in \in Slot /\ out \in Slot
    /\ entry \in 0 .. Size
    /\ life \in {"live", "receivers", "senders", "gone"}
    /\ call \in [Thread -> [op : {"none", "send", "recv"},
                            mail : Mail \cup {"none"},
                            time : WaitTimes \cup Tick,
                            start : Tick, deadline : Tick]]

(* No lost wakeup in either direction (rt_mb_send_wait, rt_mb_urgent,      *)
(* rt_mb_recv): while receivers wait, each mail has a receiver that was    *)
(* woken and will test the mailbox again, though others may have taken the *)
(* mail it was woken for; likewise the free slots and the senders.         *)
Woken(op) == {t \in Thread : Unfinished(t) /\ call[t].op = op}

NoMailMissed == k.wait[Receivers] # <<>> => entry <= Cardinality(Woken("recv"))

NoSlotMissed == k.wait[Senders] # <<>> => Size - entry <= Cardinality(Woken("send"))

(* The limit of a call does not move (the timeout that rt_mb_send_wait and *)
(* rt_mb_recv recompute): however often the caller is woken in vain, its   *)
(* timer is set for the tick at which the call was to end.                 *)
DeadlineKept ==
    \A t \in Thread :
        call[t].op # "none" /\ t \in Range(k.timers) => k.due[t] = call[t].deadline

PhaseOf(t) == CASE call[t].op = "send" -> <<"sending", call[t].mail>>
                [] call[t].op = "recv" -> <<"receiving">>
                [] OTHER -> <<"out">>

Abstract == INSTANCE AbstractMailbox WITH
    Client <- Thread, Capacity <- Size,
    queue <- [i \in 1 .. entry |-> pool[(out + i - 1) % Size]],
    phase <- [t \in Thread |-> PhaseOf(t)]

(* The ring of slots implements a bounded queue in the order of sending:   *)
(* each mail is received once, a waiting call that fails sends and takes   *)
(* nothing, and one that succeeds moves its own mail.                      *)
ImplementsMailbox == Abstract!Spec
=============================================================================
