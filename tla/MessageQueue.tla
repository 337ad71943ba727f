---------------------------- MODULE MessageQueue ----------------------------
(***************************************************************************)
(* A message queue of src/rt-thread/src/ipc.c, used by threads and by a    *)
(* handler, on the processor of module Processor.                          *)
(*                                                                         *)
(* The messages live in blocks, which are linked in a free list and in the *)
(* queue.  A thread takes a block out of one list in a first masked        *)
(* region, copies the message with interrupts enabled and links the block  *)
(* into the other list in a second one.  The block is in neither list      *)
(* meanwhile.                                                              *)
(***************************************************************************)
EXTENDS Processor

CONSTANTS Receivers,  \* the list mq->parent.suspend_thread
          Senders,    \* the list mq->suspend_sender_thread
          MqFlag,     \* RT_IPC_FLAG_FIFO or RT_IPC_FLAG_PRIO
          MaxMsgs,    \* mq->max_msgs
          Message,    \* the messages sent
          WaitTimes,  \* the times the calls are made with
          MaxDelay    \* bound on the ticks from a blocking to the next step

ASSUME MessageQueueAssumption ==
    /\ Object = {Receivers, Senders} /\ Receivers # Senders
    /\ MqFlag \in {"FIFO", "PRIO"}
    /\ MaxMsgs \in Nat \ {0}
    /\ WaitTimes \subseteq Int
    /\ MaxDelay \in Nat /\ MaxDelay <= HalfTick + 1

VARIABLES mq,    \* the block lists of the message queue
          life,  \* "live"; the list a detach is in; "gone" after it
          call   \* the locals of the call a thread is in

vars == <<kernelVars, mq, life, call>>

(* The blocks of msg_pool by their index, from 1; RT_NULL is 0.            *)
MsgBlock == 1 .. MaxMsgs
Null == 0
Link == MsgBlock \cup {Null}

BlockLists ==
    [next    : [MsgBlock -> Link],                   \* msg->next
     content : [MsgBlock -> Message \cup {"none"}],  \* the bytes behind it
     head    : Link,                                 \* msg_queue_head
     tail    : Link,                                 \* msg_queue_tail
     free    : Link,                                 \* msg_queue_free
     entry   : 0 .. MaxMsgs]

(* The last block initialised is the first one of the free list.           *)
Initialized ==
    [next    |-> [b \in MsgBlock |-> b - 1],
     content |-> [b \in MsgBlock |-> "none"],
     head |-> Null, tail |-> Null, free |-> MaxMsgs, entry |-> 0]

(* msg is the block a call has in its hands, start is tick_delta before it *)
(* is recomputed.                                                          *)
NoCall == [op |-> "none", data |-> "none", msg |-> Null, time |-> 0, start |-> 0]

Init ==
    /\ KernelInit
    /\ mq = Initialized
    /\ life = "live"
    /\ call = [t \in Thread |-> NoCall]

Live == life = "live"
Full == mq.free = Null
Empty == mq.entry = 0

EndCall(t) == call' = [call EXCEPT ![t] = NoCall]

-----------------------------------------------------------------------------
(* The masked regions, from block lists q to the block lists they leave.   *)

Unfree(q) == [q EXCEPT !.free = q.next[q.free]]

(* msg->next = RT_NULL and the copy need no mask: nobody else knows b.     *)
LinkTail(q, b, m) ==
    [q EXCEPT !.next = [x \in MsgBlock |-> IF x = b THEN Null
                                           ELSE IF x = q.tail THEN b ELSE @[x]],
              !.content[b] = m,
              !.tail = b,
              !.head = IF @ = Null THEN b ELSE @,
              !.entry = @ + 1]

LinkHeadMutant(q, b, m) == LinkTail(q, b, m)        \* behind the others

LinkHead(q, b, m) ==
    [q EXCEPT !.next[b] = q.head,
              !.content[b] = m,
              !.head = b,
              !.tail = IF @ = Null THEN b ELSE @,
              !.entry = @ + 1]

UnlinkHeadMutant(q) ==                      \* the tail is left behind
    [q EXCEPT !.head = q.next[q.head], !.entry = @ - 1]

UnlinkHead(q) ==
    [q EXCEPT !.head = q.next[q.head],
              !.tail = IF @ = q.head THEN Null ELSE @,
              !.entry = @ - 1]

(* The bytes stay in a free block, which nobody reads.                     *)
LinkFree(q, b) ==
    [q EXCEPT !.next[b] = q.free, !.content[b] = "none", !.free = b]

-----------------------------------------------------------------------------
(* A call that has linked a block wakes one waiter and schedules.          *)
WakeOne(t, list) ==
    IF k.wait[list] # <<>>
    THEN k' = IpcListResume(k, list) /\ Goto(t, "sched")
    ELSE Goto(t, "run") /\ UNCHANGED k

Suspend(t, list, c) ==
    /\ k' = Block(k, list, t, MqFlag, c.time)
    /\ Goto(t, "wait")
    /\ call' = [call EXCEPT ![t] =
                   [c EXCEPT !.start = IF c.time > 0 THEN k.tick ELSE 0]]

(* The time left, in the signed and unsigned arithmetic of the code.       *)
Left(c) ==
    LET d == Minus(c.time, Minus(k.tick, c.start))
    IN  IF c.time <= 0 THEN c.time
        ELSE IF d < (TickMod + 1) \div 2 THEN d ELSE 0

(* A thread takes block b into its hands, and is about to use it.          *)
Grab(t, op, m, b) ==
    /\ Goto(t, "call")
    /\ call' = [call EXCEPT ![t] = [NoCall EXCEPT !.op = op, !.data = m, !.msg = b]]

InHand(t, op) == At(t, "call") /\ call[t].op = op

(* A waiter that runs again with RT_EOK in thread->error.                  *)
Resumed(t, op) == At(t, "woken") /\ k.error[t] = "OK" /\ call[t].op = op

-----------------------------------------------------------------------------
(* rt_mq_send_wait.  mq->entry stays below RT_MQ_ENTRY_MAX, since max_msgs *)
(* has 16 bits too.                                                        *)

SendTake(t, m) ==
    /\ At(t, "run") /\ Live
    /\ ~Full
    /\ mq' = Unfree(mq)
    /\ Grab(t, "send", m, mq.free)
    /\ UNCHANGED <<k, irq, life>>

SendBlocks(t, m) ==
    /\ At(t, "run") /\ Live /\ MayBlock
    /\ Full
    /\ \E time \in WaitTimes \ {0} :
          Suspend(t, Senders, [NoCall EXCEPT !.op = "waitsend", !.data = m,
                                             !.time = time])
    /\ UNCHANGED <<irq, mq, life>>

SendResumesMutant(t) ==                     \* the free list not read again
    /\ Resumed(t, "waitsend")
    /\ mq' = IF Full THEN mq ELSE Unfree(mq)
    /\ Grab(t, "send", call[t].data, IF Full THEN 1 ELSE mq.free)
    /\ UNCHANGED <<k, irq, life>>

SendResumes(t) ==
    /\ Resumed(t, "waitsend")
    /\ ~Full
    /\ mq' = Unfree(mq)
    /\ Grab(t, "send", call[t].data, mq.free)
    /\ UNCHANGED <<k, irq, life>>

SendWaitsOn(t) ==                           \* the block is taken again
    /\ Resumed(t, "waitsend")
    /\ Full
    /\ IF Left(call[t]) = 0
       THEN Goto(t, "run") /\ EndCall(t) /\ UNCHANGED k     \* -RT_EFULL
       ELSE Suspend(t, Senders, [call[t] EXCEPT !.time = Left(call[t])])
    /\ UNCHANGED <<irq, mq, life>>

SendLink(t) ==
    /\ InHand(t, "send")
    /\ mq' = LinkTail(mq, call[t].msg, call[t].data)
    /\ WakeOne(t, Receivers)
    /\ EndCall(t)
    /\ UNCHANGED <<irq, life>>

CallFails(t) ==                 \* either call returns thread->error
    /\ At(t, "woken")
    /\ k.error[t] # "OK"
    /\ Goto(t, "run")
    /\ EndCall(t)
    /\ UNCHANGED <<k, irq, mq, life>>

UrgentTake(t, m) ==                         \* rt_mq_urgent
    /\ At(t, "run") /\ Live
    /\ ~Full
    /\ mq' = Unfree(mq)
    /\ Grab(t, "urgent", m, mq.free)
    /\ UNCHANGED <<k, irq, life>>

UrgentLink(t) ==
    /\ InHand(t, "urgent")
    /\ mq' = LinkHead(mq, call[t].msg, call[t].data)
    /\ WakeOne(t, Receivers)
    /\ EndCall(t)
    /\ UNCHANGED <<irq, life>>

-----------------------------------------------------------------------------
(* rt_mq_recv                                                              *)

RecvTake(t) ==
    /\ At(t, "run") /\ Live
    /\ ~Empty
    /\ mq' = UnlinkHead(mq)
    /\ Grab(t, "recv", "none", mq.head)
    /\ UNCHANGED <<k, irq, life>>

RecvBlocks(t) ==
    /\ At(t, "run") /\ Live /\ MayBlock
    /\ Empty
    /\ \E time \in WaitTimes \ {0} :
          Suspend(t, Receivers, [NoCall EXCEPT !.op = "waitrecv", !.time = time])
    /\ UNCHANGED <<irq, mq, life>>

RecvResumes(t) ==
    /\ Resumed(t, "waitrecv")
    /\ ~Empty
    /\ mq' = UnlinkHead(mq)
    /\ Grab(t, "recv", "none", mq.head)
    /\ UNCHANGED <<k, irq, life>>

RecvWaitsOn(t) ==                           \* the message is taken already
    /\ Resumed(t, "waitrecv")
    /\ Empty
    /\ IF Left(call[t]) = 0
       THEN k' = [k EXCEPT !.error[t] = "TIMEOUT"] /\ Goto(t, "run") /\ EndCall(t)
       ELSE Suspend(t, Receivers, [call[t] EXCEPT !.time = Left(call[t])])
    /\ UNCHANGED <<irq, mq, life>>

RecvLink(t) ==
    /\ InHand(t, "recv")
    /\ mq' = LinkFree(mq, call[t].msg)
    /\ WakeOne(t, Senders)
    /\ EndCall(t)
    /\ UNCHANGED <<irq, life>>

-----------------------------------------------------------------------------
(* A handler: the calls with timeout = 0, from their first step to their   *)
(* last.                                                                   *)

Handler == irq = "on" /\ Live /\ UNCHANGED <<pc, irq, life, call>>

WakeFromHandlerMutant(list) ==  \* only when the queue was empty, or full
    IF k.wait[list] # <<>> /\ (IF list = Receivers THEN Empty ELSE Full)
    THEN k' = Schedule(IpcListResume(k, list))
    ELSE UNCHANGED k

WakeFromHandler(list) ==
    IF k.wait[list] # <<>>
    THEN k' = Schedule(IpcListResume(k, list))
    ELSE UNCHANGED k

IsrSend(m) ==
    /\ Handler
    /\ ~Full
    /\ mq' = LinkTail(Unfree(mq), mq.free, m)
    /\ WakeFromHandler(Receivers)

IsrUrgent(m) ==
    /\ Handler
    /\ ~Full
    /\ mq' = LinkHead(Unfree(mq), mq.free, m)
    /\ WakeFromHandler(Receivers)

IsrRecv ==
    /\ Handler
    /\ ~Empty
    /\ mq' = LinkFree(UnlinkHead(mq), mq.head)
    /\ WakeFromHandler(Senders)

-----------------------------------------------------------------------------
(* rt_mq_control(RT_IPC_CMD_RESET): one masked region with three loops.    *)

InReset(t) == irq = "off" /\ k.cur = t /\ pc[t] = "reset"

Nonempty == {o \in Object : k.wait[o] # <<>>}

ResetBegin(t) ==
    /\ At(t, "run") /\ Live
    /\ irq' = "off"
    /\ Goto(t, "reset")
    /\ UNCHANGED <<k, mq, life, call>>

ResetWake(t) ==                             \* the receivers first
    /\ InReset(t)
    /\ \E o \in Nonempty :
          /\ Receivers \in Nonempty => o = Receivers
          /\ k' = IpcListAbort(k, o)
    /\ UNCHANGED <<pc, irq, mq, life, call>>

ResetRelease(t) ==      \* one turn of the loop that frees the messages
    /\ InReset(t)
    /\ Nonempty = {} /\ mq.head # Null
    /\ mq' = [LinkFree(UnlinkHead(mq), mq.head) EXCEPT !.entry = mq.entry]
    /\ UNCHANGED <<kernelVars, life, call>>

ResetEnd(t) ==
    /\ InReset(t)
    /\ Nonempty = {} /\ mq.head = Null
    /\ mq' = [mq EXCEPT !.entry = 0]
    /\ irq' = "on"
    /\ Goto(t, "sched")
    /\ UNCHANGED <<k, life, call>>

-----------------------------------------------------------------------------
(* rt_mq_detach and rt_mq_delete empty the list of the receivers, then     *)
(* that of the senders, with interrupts enabled between two waiters.       *)

Unfinished(t) ==    \* in a call that will use the queue again
    /\ call[t].op # "none"
    /\ k.error[t] = "OK" \/ call[t].msg # Null
    /\ \A o \in Object : t \notin Range(k.wait[o])

DetachBegin(t) ==   \* the program lets those calls finish
    /\ At(t, "run") /\ Live
    /\ \A u \in Thread : ~Unfinished(u)
    /\ life' = "receivers"
    /\ Goto(t, "detach")
    /\ UNCHANGED <<k, irq, mq, call>>

Closing == IF life = "receivers" THEN Receivers ELSE Senders

DetachTest(t) ==
    /\ At(t, "detach")
    /\ k.wait[Closing] # <<>>
    /\ Goto(t, "dequeue")
    /\ UNCHANGED <<k, irq, mq, life, call>>

DetachWake(t) ==
    /\ At(t, "dequeue")
    /\ k.wait[Closing] # <<>>
    /\ k' = IpcListAbort(k, Closing)
    /\ Goto(t, "detach")
    /\ UNCHANGED <<irq, mq, life, call>>

DetachHalt(t) ==    \* the list has become empty since the test
    /\ At(t, "dequeue")
    /\ k.wait[Closing] = <<>>
    /\ irq' = "off"
    /\ Goto(t, "halt")
    /\ UNCHANGED <<k, mq, life, call>>

Halted(t) ==                                \* rt_assert_handler
    /\ irq = "off" /\ k.cur = t /\ pc[t] = "halt"
    /\ UNCHANGED vars

DetachNext(t) ==
    /\ At(t, "detach") /\ life = "receivers"
    /\ k.wait[Receivers] = <<>>
    /\ life' = "senders"
    /\ UNCHANGED <<kernelVars, mq, call>>

DetachEnd(t) ==
    /\ At(t, "detach") /\ life = "senders"
    /\ k.wait[Senders] = <<>>
    /\ life' = "gone"
    /\ Goto(t, "run")
    /\ UNCHANGED <<k, irq, mq, call>>

MqInit(t) ==                                \* rt_mq_init, rt_mq_create
    /\ At(t, "run") /\ life = "gone"
    /\ life' = "live"
    /\ mq' = Initialized
    /\ UNCHANGED <<kernelVars, call>>

-----------------------------------------------------------------------------
QueueStep(t) ==
    \/ \E m \in Message : SendTake(t, m) \/ SendBlocks(t, m) \/ UrgentTake(t, m)
    \/ SendResumes(t) \/ SendWaitsOn(t) \/ SendLink(t) \/ UrgentLink(t)
    \/ RecvTake(t) \/ RecvBlocks(t)
    \/ RecvResumes(t) \/ RecvWaitsOn(t) \/ RecvLink(t)
    \/ CallFails(t)
    \/ ResetBegin(t) \/ ResetWake(t) \/ ResetRelease(t) \/ ResetEnd(t)
    \/ DetachBegin(t) \/ DetachTest(t) \/ DetachWake(t) \/ DetachHalt(t)
    \/ DetachNext(t) \/ DetachEnd(t) \/ Halted(t)
    \/ MqInit(t)

HandlerStep == IsrRecv \/ \E m \in Message : IsrSend(m) \/ IsrUrgent(m)

(* Tick arithmetic needs that a call goes on within half the tick range.   *)
Patient ==
    \A t \in Thread : call[t].time > 0 => Minus(k.tick, call[t].start) < MaxDelay

KernelStep ==
    /\ \/ Patient /\ TickInterrupt
       \/ TimerCheck \/ TickReturn
       \/ \E t \in Worker : CpuStep(t) \/ Sleep(t)
    /\ UNCHANGED <<mq, life, call>>

Next == KernelStep \/ HandlerStep \/ \E t \in Worker : QueueStep(t)

Spec == Init /\ [][Next]_vars

-----------------------------------------------------------------------------
Ops == {"none", "send", "urgent", "recv", "waitsend", "waitrecv"}

TypeOK ==
    /\ KernelTypeOK
    /\ mq \in BlockLists
    /\ life \in {"live", "receivers", "senders", "gone"}
    /\ call \in [Thread -> [op : Ops, data : Message \cup {"none"}, msg : Link,
                            time : WaitTimes \cup Tick, start : Tick]]

(* The blocks of q from b on, n of them, by msg->next.                     *)
Chain(q, b, n) ==
    LET nth[i \in 1 .. n] == IF i = 1 THEN b ELSE q.next[nth[i - 1]]
    IN  [i \in 1 .. n |-> nth[i]]

Held == {t \in Thread : call[t].msg # Null}
FreeCount == MaxMsgs - mq.entry - Cardinality(Held)

(* No block is lost, shared or linked twice (rt_mq_send_wait,              *)
(* rt_mq_urgent, rt_mq_recv, rt_mq_control): the queue has entry blocks    *)
(* and ends at the tail, the free list has the others but those that a     *)
(* call has in its hands, and all are different.  A tail that is not the   *)
(* last block loses every message linked behind it.                        *)
EndsAt(q, n) ==
    IF n = 0 THEN q.head = Null /\ q.tail = Null
    ELSE /\ Chain(q, q.head, n)[n] = q.tail
         /\ q.tail # Null /\ q.next[q.tail] = Null

BlocksAccounted ==
    irq # "off" =>
        LET queued == Chain(mq, mq.head, mq.entry)
            unused == Chain(mq, mq.free, FreeCount)
            held   == {call[t].msg : t \in Held}
        IN  /\ FreeCount >= 0
            /\ EndsAt(mq, mq.entry)
            /\ FreeCount = 0 <=> Full
            /\ Range(queued) \cup Range(unused) \cup held = MsgBlock
            /\ Cardinality(held) = Cardinality(Held)

(* No lost wakeup in either direction: while receivers wait, each message  *)
(* has a receiver that was woken and will test the queue again, though     *)
(* others may have taken the message it was woken for; likewise the free   *)
(* blocks and the senders, also while blocks are in the hands of calls.    *)
Woken(op) == {t \in Thread : Unfinished(t) /\ call[t].op = op}

NoMessageMissed ==
    k.wait[Receivers] # <<>> => mq.entry <= Cardinality(Woken("waitrecv"))

NoBlockMissed ==
    k.wait[Senders] # <<>> => FreeCount <= Cardinality(Woken("waitsend"))

PhaseOf(t) == CASE call[t].op = "waitsend" -> <<"sending", call[t].data>>
                [] call[t].op = "waitrecv" -> <<"receiving">>
                [] call[t].op = "send"     -> <<"filling", call[t].data>>
                [] call[t].op = "urgent"   -> <<"urging", call[t].data>>
                [] call[t].op = "recv"     -> <<"emptying">>
                [] OTHER -> <<"out">>

(* The messages in the order of the list, also while a reset has freed     *)
(* some of them and has not counted them: up to the first end.             *)
Queued(q) ==
    LET len == CHOOSE n \in 0 .. q.entry :
                  EndsAt(q, n) /\ \A i \in 0 .. n - 1 : ~EndsAt(q, i)
    IN  [i \in 1 .. len |-> q.content[Chain(q, q.head, len)[i]]]

Abstract == INSTANCE AbstractMessageQueue WITH
    Client <- Thread, Capacity <- MaxMsgs, queue <- Queued(mq),
    phase <- [t \in Thread |-> PhaseOf(t)]

(* The linked blocks implement a bounded queue with reserved places: a     *)
(* call that has claimed a block sends its own message in it, messages are *)
(* received once and in the order they were linked, an urgent one first,   *)
(* and a waiting call that fails has moved nothing (rt_mq_send_wait,       *)
(* rt_mq_urgent, rt_mq_recv, rt_mq_control).                               *)
ImplementsMessageQueue == Abstract!Spec
=============================================================================
