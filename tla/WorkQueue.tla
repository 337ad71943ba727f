----------------------------- MODULE WorkQueue -----------------------------
(***************************************************************************)
(* A work queue of src/rt-thread/components/drivers/src/workqueue.c and    *)
(* its thread, with the software timers of module SoftTimer for delayed    *)
(* works: three threads and the tick interrupt share the two lists of the  *)
(* queue, the current work, and the flags and timer of each work.          *)
(***************************************************************************)
EXTENDS SoftTimer

CONSTANTS WorkThread, \* queue->work_thread
          Ack,        \* the suspend list of queue->sem
          DelayedWork \* the works that are submitted with a delay

ASSUME WorkQueueAssumption ==
    /\ WorkThread \in Thread \ {Idle, Main, TimerThread}
    /\ Object = {Ack}
    /\ Periodic = {}
    /\ DelayedWork \subseteq Timer
    /\ "none" \notin Timer                     \* RT_NULL is no work

VARIABLES queue, \* the work queue and its works
          stage  \* [Thread -> where it is in a function of workqueue.c]

queueVars == <<queue, stage>>
allVars == <<vars, queueVars>>

(* A work and its timer have one name.  The timer is an object from        *)
(* rt_timer_init to rt_timer_detach, while the work is SUBMITTING.         *)
Work == Timer
None == "none"

QueueState ==
    [work       : Seq(Work),            \* work_list
     delayed    : Seq(Work),            \* delayed_list
     current    : Work \cup {None},     \* work_current
     submitting : SUBSET Work,          \* RT_WORK_STATE_SUBMITTING
     bound      : SUBSET Work]          \* work->workqueue is not RT_NULL

(* of the work thread: "loop", "work" (in work_func), "ack", "acking";     *)
(* of the timer thread in a callback: "entry", "queue", "done";            *)
(* of the other threads: "none", "sync", "drain".                          *)
StageAtStart(t) == CASE t = WorkThread -> "loop"
                     [] t = TimerThread -> "entry"
                     [] OTHER -> "none"

(* rt_workqueue_create by the main thread, which goes on before the timer  *)
(* thread and the work thread have run.                                    *)
QueueInit ==
    /\ k = ThreadStartup(ThreadStartup(Started, TimerThread), WorkThread)
    /\ pc = [t \in Thread |-> "run"]
    /\ irq = "on"
    /\ soft = NoTimers
    /\ loop = Loop("scan", 0)
    /\ op = [t \in Thread |-> NoOp]
    /\ queue = [work |-> <<>>, delayed |-> <<>>, current |-> None,
                submitting |-> {}, bound |-> {}]
    /\ stage = [t \in Thread |-> StageAtStart(t)]

GoOn(t, where) == stage' = [stage EXCEPT ![t] = where]

(* A failed RT_ASSERT loops for ever in rt_assert_handler, with interrupts *)
(* as they were: mask is "off" in a masked region, which stops everything, *)
(* and "on" outside, where handlers and threads of a higher priority go on.*)
Halts(t, mask) ==
    /\ irq' = mask
    /\ Goto(t, "halt")
    /\ UNCHANGED <<k, softVars, queueVars>>

-----------------------------------------------------------------------------
(* The masked regions, from a queue q to the queue they leave.             *)

Delist(q, w) ==                             \* rt_list_remove(&(work->list))
    [q EXCEPT !.work = Without(@, w), !.delayed = Without(@, w)]

PutLastMutant(q, w) ==                      \* wherever it was before
    [q EXCEPT !.work = Append(@, w), !.bound = @ \cup {w}]

PutLast(q, w) ==
    [Delist(q, w) EXCEPT !.work = Append(@, w), !.bound = @ \cup {w}]

PutFirst(q, w) == [Delist(q, w) EXCEPT !.work = <<w>> \o @]

WorkThreadIdle == queue.current = None /\ k.stat[WorkThread] = "SUSPEND"

(* "whether the workqueue is doing work": the end of every submission.     *)
WakeWorkThread(t) ==
    IF WorkThreadIdle
    THEN k' = ThreadResume(k, WorkThread) /\ Goto(t, "sched")
    ELSE UNCHANGED <<k, pc>>

CancelMutant(q, w) ==                       \* the work stays in its list
    [q EXCEPT !.submitting = @ \ {w}, !.bound = @ \ {w}]

Cancel(q, w) ==                             \* _workqueue_cancel_work
    [Delist(q, w) EXCEPT !.submitting = @ \ {w}, !.bound = @ \ {w}]

CancelTimer(w) == IF w \in queue.submitting THEN SoftStop(soft, w) ELSE soft

-----------------------------------------------------------------------------
(* _workqueue_thread_entry                                                 *)

WorkAt(where) == At(WorkThread, "run") /\ stage[WorkThread] = where

WorkNone ==
    /\ WorkAt("loop")
    /\ queue.work = <<>>
    /\ k' = ThreadSuspend(k, WorkThread)
    /\ Goto(WorkThread, "sched")
    /\ UNCHANGED <<irq, softVars, queueVars>>

WorkTake ==
    /\ WorkAt("loop")
    /\ queue.work # <<>>
    /\ LET w == Head(queue.work)
       IN  queue' = [queue EXCEPT !.work = Tail(@), !.current = w,
                                  !.bound = @ \ {w}]
    /\ GoOn(WorkThread, "work")
    /\ UNCHANGED <<vars>>

WorkDone ==                                 \* work_func has returned
    /\ WorkAt("work")
    /\ queue' = [queue EXCEPT !.current = None]
    /\ GoOn(WorkThread, "ack")
    /\ UNCHANGED <<vars>>

(* _workqueue_work_completion: with the scheduler locked, one release for  *)
(* each thread that waits; then a release and a take leave the value at 0. *)
AckBeginMutant ==                           \* not until the list is empty
    /\ WorkAt("ack")
    /\ IF queue.work = <<>>
       THEN k' = [k EXCEPT !.lock = @ + 1] /\ GoOn(WorkThread, "acking")
       ELSE GoOn(WorkThread, "loop") /\ UNCHANGED k
    /\ UNCHANGED <<pc, irq, softVars, queue>>

AckBegin ==
    /\ WorkAt("ack")
    /\ k' = [k EXCEPT !.lock = @ + 1]
    /\ GoOn(WorkThread, "acking")
    /\ UNCHANGED <<pc, irq, softVars, queue>>

AckRelease ==
    /\ WorkAt("acking")
    /\ k.wait[Ack] # <<>>
    /\ k' = ThreadResume(k, Head(k.wait[Ack]))
    /\ UNCHANGED <<pc, irq, softVars, queueVars>>

AckEnd ==
    /\ WorkAt("acking")
    /\ k.wait[Ack] = <<>>
    /\ k' = [k EXCEPT !.lock = @ - 1]
    /\ GoOn(WorkThread, "loop")
    /\ Goto(WorkThread, "sched")
    /\ UNCHANGED <<irq, softVars, queue>>

WorkThreadStep ==
    \/ WorkNone \/ WorkTake \/ WorkDone \/ AckBegin \/ AckRelease \/ AckEnd
    \/ /\ \/ RtSchedule(WorkThread) \/ Napped(WorkThread)
          \/ stage[WorkThread] = "work" /\ Sleep(WorkThread)
       /\ UNCHANGED <<softVars, queueVars>>

-----------------------------------------------------------------------------
(* _delayed_work_timeout_handler, the callback on the timer thread.        *)

HandlerAt(where) == InLoop("callback") /\ stage[TimerThread] = where

HandlerEnter ==
    /\ HandlerAt("entry")
    /\ loop.value \in queue.bound
    /\ GoOn(TimerThread, "queue")
    /\ UNCHANGED <<vars, queue>>

HandlerHalts ==     \* RT_ASSERT(queue != RT_NULL), or that of the timer type
    \/ /\ HandlerAt("entry") /\ loop.value \notin queue.bound
       /\ Halts(TimerThread, "on")
    \/ /\ HandlerAt("queue") /\ loop.value \notin queue.submitting
       /\ Halts(TimerThread, "off")

HandlerQueuesMutant ==                      \* the work thread sleeps on
    /\ HandlerAt("queue")
    /\ LET w == loop.value
           q == [Delist(queue, w) EXCEPT !.submitting = @ \ {w}]
       IN  /\ w \in queue.submitting
           /\ soft' = SoftStop(soft, w)
           /\ queue' = IF queue.current # w THEN [q EXCEPT !.work = Append(@, w)]
                       ELSE q
    /\ GoOn(TimerThread, "done")
    /\ UNCHANGED <<kernelVars, loop, op>>

HandlerQueues ==
    /\ HandlerAt("queue")
    /\ LET w == loop.value
           q == [Delist(queue, w) EXCEPT !.submitting = @ \ {w}]
       IN  /\ w \in queue.submitting
           /\ soft' = SoftStop(soft, w)
           /\ queue' = IF queue.current # w THEN [q EXCEPT !.work = Append(@, w)]
                       ELSE q
    /\ WakeWorkThread(TimerThread)
    /\ GoOn(TimerThread, "done")
    /\ UNCHANGED <<irq, loop, op>>

TimerStep ==
    \/ TimerLoopStep /\ UNCHANGED queueVars
    \/ HandlerEnter \/ HandlerHalts \/ HandlerQueues
    \/ HandlerAt("done") /\ CallbackReturns
          /\ GoOn(TimerThread, "entry") /\ UNCHANGED queue

-----------------------------------------------------------------------------
(* The calls of a client, or of work_func on the work thread.              *)

MayCall(t) ==
    /\ At(t, "run")
    /\ stage[t] = IF t = WorkThread THEN "work" ELSE "none"

SubmitNow(t, w) ==      \* rt_workqueue_dowork, rt_workqueue_submit_work(0)
    /\ MayCall(t)
    /\ queue' = IF queue.current # w THEN PutLast(queue, w)
                ELSE Delist(queue, w)               \* -RT_EBUSY
    /\ WakeWorkThread(t)
    /\ UNCHANGED <<irq, softVars, stage>>

(* The masked region; then rt_timer_start with interrupts enabled.         *)
SubmitDelayed(t, w) ==
    /\ MayCall(t) /\ w \in DelayedWork
    /\ queue' = [Delist(queue, w) EXCEPT !.delayed = Append(@, w),
                                         !.submitting = @ \cup {w},
                                         !.bound = @ \cup {w}]
    /\ soft' = IF w \in soft.active THEN SoftStop(soft, w) ELSE soft
    /\ Calls(t, "start", w)
    /\ UNCHANGED <<k, irq, loop, stage>>

(* A delay of half the tick range is refused, when the work has been taken *)
(* out of its list: a timer that runs for it goes on.                      *)
SubmitRefused(t, w) ==                      \* -RT_ERROR
    /\ MayCall(t) /\ w \in DelayedWork
    /\ queue' = Delist(queue, w)
    /\ UNCHANGED <<vars, stage>>

SubmitStarts(t) ==
    /\ op[t].timer \in queue.submitting
    /\ Start(t)
    /\ UNCHANGED queueVars

SubmitHalts(t) ==       \* the assertion of rt_timer_start on the object type
    /\ InOp(t, "start") /\ op[t].timer \notin queue.submitting
    /\ Halts(t, "on")

CriticalWork(t, w) ==                       \* rt_workqueue_critical_work
    /\ MayCall(t)
    /\ queue' = PutFirst(queue, w)
    /\ WakeWorkThread(t)
    /\ UNCHANGED <<irq, softVars, stage>>

CancelWork(t, w) ==                         \* rt_workqueue_cancel_work
    /\ MayCall(t)
    /\ queue' = Cancel(queue, w)
    /\ soft' = CancelTimer(w)
    /\ UNCHANGED <<kernelVars, loop, op, stage>>

(* rt_workqueue_cancel_work_sync, which a work must not call for itself.   *)
(* The test is made with interrupts enabled.                               *)
SyncTest(t, w) ==
    /\ MayCall(t) /\ t # WorkThread /\ MayBlock
    /\ queue.current = w
    /\ GoOn(t, "sync")
    /\ UNCHANGED <<vars, queue>>

SyncWait(t) ==                              \* rt_sem_take, its value is 0
    /\ At(t, "run") /\ stage[t] = "sync"
    /\ k' = Block(k, Ack, t, "FIFO", -1)
    /\ Goto(t, "wait")
    /\ GoOn(t, "none")
    /\ UNCHANGED <<irq, softVars, queue>>

SyncReturns(t) ==
    /\ At(t, "woken")
    /\ Goto(t, "run")
    /\ UNCHANGED <<k, irq, softVars, queueVars>>

(* rt_workqueue_cancel_all_work, with the scheduler locked.                *)
CancelAllBegin(t) ==
    /\ MayCall(t) /\ t # WorkThread
    /\ k' = [k EXCEPT !.lock = @ + 1]
    /\ GoOn(t, "drain")
    /\ UNCHANGED <<pc, irq, softVars, queue>>

Draining(t) == At(t, "run") /\ stage[t] = "drain"

CancelNext(t) ==
    /\ Draining(t)
    /\ LET left == queue.work \o queue.delayed
       IN  /\ left # <<>>
           /\ queue' = Cancel(queue, Head(left))
           /\ soft' = CancelTimer(Head(left))
    /\ UNCHANGED <<kernelVars, loop, op, stage>>

CancelAllEnd(t) ==
    /\ Draining(t)
    /\ queue.work = <<>> /\ queue.delayed = <<>>
    /\ k' = [k EXCEPT !.lock = @ - 1]
    /\ Goto(t, "sched")
    /\ GoOn(t, "none")
    /\ UNCHANGED <<irq, softVars, queue>>

Halted(t) ==                                \* rt_assert_handler
    /\ irq # "tick" /\ k.cur = t /\ pc[t] = "halt"
    /\ UNCHANGED allVars

User == Client \ {WorkThread}

QueueCall(t) ==
    \/ \E w \in Work : \/ SubmitNow(t, w) \/ SubmitDelayed(t, w)
                       \/ SubmitRefused(t, w)
                       \/ CriticalWork(t, w) \/ CancelWork(t, w)
                       \/ SyncTest(t, w)
    \/ SubmitStarts(t) \/ SubmitHalts(t)
    \/ SyncWait(t) \/ SyncReturns(t)
    \/ CancelAllBegin(t) \/ CancelNext(t) \/ CancelAllEnd(t)
    \/ (StartTest(t) \/ ResumeUnlink(t) \/ ResumeInsert(t)) /\ UNCHANGED queueVars

(* The clock never waits for the timer thread here: a client above it may  *)
(* have started a timer just before it suspends itself.  How late a timer  *)
(* is counts up to MaxLate only, so that no timer is late by half the tick *)
(* range: the clock moves the timeout along (and never onto RT_TICK_MAX).  *)
Moved(due) ==
    IF Minus(k.tick, due) # MaxLate THEN due
    ELSE (due + (IF due + 1 = RtTickMax THEN 2 ELSE 1)) % TickMod

QueueTick ==
    /\ TickInterrupt
    /\ soft' = [soft EXCEPT !.due = [tm \in Timer |->
                    IF tm \in Range(soft.list) THEN Moved(@[tm]) ELSE @[tm]]]
    /\ loop' = IF loop.at = "delay" THEN Loop("delay", Moved(loop.value)) ELSE loop
    /\ UNCHANGED op

(* The assertion of rt_thread_timeout, on the timer thread: a call of      *)
(* rt_timer_start, preempted in rt_thread_resume by another one, has made  *)
(* it ready while it sleeps.                                               *)
Timeout ==
    /\ irq = "tick" /\ TimerExpired(k)
    /\ \/ /\ k.stat[Head(k.timers)] = "SUSPEND"
          /\ TimerCheck /\ UNCHANGED softVars
       \/ k.stat[Head(k.timers)] # "SUSPEND" /\ Halts(k.cur, "off")

QueueClock == QueueTick \/ Timeout \/ (TickReturn /\ UNCHANGED softVars)

QueueNext ==
    \/ QueueClock /\ UNCHANGED queueVars
    \/ TimerStep
    \/ WorkThreadStep
    \/ \E t \in User :
          stage[t] = "none" /\ ClientStep(t) /\ UNCHANGED queueVars
    \/ \E t \in Client : QueueCall(t)
    \/ \E t \in Thread : Halted(t)

QueueSpec == QueueInit /\ [][QueueNext]_allVars

-----------------------------------------------------------------------------
(* The lists and flags of the queue are well formed: no work is linked     *)
(* twice.                                                                  *)
QueueTypeOK ==
    /\ TypeOK
    /\ queue \in QueueState
    /\ \A w \in Work :
          Cardinality({i \in 1 .. Len(queue.work) : queue.work[i] = w})
            + Cardinality({i \in 1 .. Len(queue.delayed) : queue.delayed[i] = w})
          <= 1
    /\ stage \in [Thread -> {"none", "loop", "work", "ack", "acking", "entry",
                             "queue", "done", "sync", "drain"}]

(* No work is left in the list while the work thread sleeps                *)
(* (_workqueue_submit_work, rt_workqueue_critical_work, the timeout        *)
(* handler): each of them must find it suspended, also in the window       *)
(* before its rt_schedule, and not disturb it when a work is sleeping.     *)
NoWorkMissed ==
    WorkThreadIdle /\ stage[WorkThread] = "loop" => queue.work = <<>>

(* No canceller is forgotten (rt_workqueue_cancel_work_sync,               *)
(* _workqueue_work_completion): while a thread waits for the end of a      *)
(* work, a work is running or its end is about to be acknowledged.         *)
NoSyncForgotten ==
    k.wait[Ack] # <<>> =>
        queue.current # None \/ stage[WorkThread] \in {"ack", "acking"}

(* No delayed work is forgotten (_workqueue_submit_work, the timeout       *)
(* handler, _workqueue_cancel_work): the timer of each work in the delayed *)
(* list is armed or is being called, or rt_timer_start is on the way.      *)
NoDelayForgotten ==
    \A w \in Range(queue.delayed) :
        /\ w \in queue.submitting
        /\ \/ w \in Range(soft.list) \cup soft.temp
           \/ \E t \in Thread : op[t] = Op("start", w)
=============================================================================
