------------------------------- MODULE Kernel -------------------------------
(***************************************************************************)
(* The state that the scheduler (src/rt-thread/src/scheduler.c), the       *)
(* threads (thread.c), the hard timers (timer.c) and the suspend lists of  *)
(* the IPC objects (ipc.c) share, and the operations on it that run with   *)
(* interrupts disabled.                                                    *)
(*                                                                         *)
(* The build is single-core (rtconfig.h does not define RT_USING_SMP), so  *)
(* such an operation is one indivisible step.  Each is an operator from a  *)
(* kernel state k to the kernel state it leaves; the modules that extend   *)
(* this one put the operators into actions.                                *)
(***************************************************************************)
EXTENDS Integers, FiniteSets, SequencesExt

CONSTANTS Thread,    \* the threads, the idle thread among them
          Idle,      \* tidle0, created by rt_thread_idle_init
          Main,      \* the main thread, created by rt_application_init
          Object,    \* the suspend lists: one per IPC object (two for some)
          MaxPrio,   \* RT_THREAD_PRIORITY_MAX - 1; 0 is the highest priority
          InitPrio,  \* [Thread -> Prio]: init_priority
          InitTick,  \* [Thread -> positive]: init_tick, the time slice
          TickMod    \* rt_tick counts modulo TickMod (2^32 in the code)

Prio == 0 .. MaxPrio
Tick == 0 .. TickMod - 1

(* RT_TICK_MAX / 2, where RT_TICK_MAX is the largest tick. *)
HalfTick == (TickMod - 1) \div 2

ASSUME KernelAssumption ==
    /\ IsFiniteSet(Thread)
    /\ Idle \in Thread /\ Main \in Thread /\ Idle # Main
    /\ MaxPrio \in Nat
    /\ InitPrio \in [Thread -> Prio]
    /\ InitPrio[Idle] = MaxPrio
    /\ InitTick \in [Thread -> Nat \ {0}]
    /\ TickMod \in Nat /\ TickMod > 4

(* RT_THREAD_INIT, SUSPEND, READY, RUNNING and CLOSE.                      *)
Stat == {"INIT", "SUSPEND", "READY", "RUNNING", "CLOSE"}

(* RT_EOK, -RT_ERROR and -RT_ETIMEOUT, the values thread->error takes.     *)
Error == {"OK", "ERROR", "TIMEOUT"}

(***************************************************************************)
(* The kernel state.  A list head is a sequence: ready[p] is               *)
(* rt_thread_priority_table[p], wait[o] the suspend_thread list of o, and  *)
(* timers is rt_timer_list with the thread timers in it (a timer is        *)
(* ACTIVATED exactly while it is linked there).  group is                  *)
(* rt_thread_ready_priority_group as the set of its bits, and mask[t] the  *)
(* bit number_mask[t] holds, which the code recalculates apart from        *)
(* current_priority.  yield[t] is RT_THREAD_STAT_YIELD in stat[t].         *)
(***************************************************************************)
KernelState ==
    [cur       : Thread,              \* rt_current_thread
     stat      : [Thread -> Stat],
     yield     : [Thread -> BOOLEAN],
     prio      : [Thread -> Prio],    \* current_priority
     mask      : [Thread -> Prio],    \* number_mask
     remaining : [Thread -> Nat \ {0}],  \* remaining_tick
     error     : [Thread -> Error],
     ready     : [Prio -> Seq(Thread)],
     group     : SUBSET Prio,
     wait      : [Object -> Seq(Thread)],
     tick      : Tick,                \* rt_tick
     due       : [Thread -> Tick],    \* thread_timer.timeout_tick
     timers    : Seq(Thread),         \* rt_timer_list
     lock      : Nat]                 \* rt_scheduler_lock_nest

-----------------------------------------------------------------------------
(* Doubly linked lists: rt_list_remove from whatever list holds the node.  *)

Without(s, t) ==
    IF \E i \in 1 .. Len(s) : s[i] = t
    THEN RemoveAt(s, CHOOSE i \in 1 .. Len(s) : s[i] = t)
    ELSE s

Unlink(k, t) ==
    [k EXCEPT !.ready = [p \in Prio |-> Without(k.ready[p], t)],
              !.wait  = [o \in Object |-> Without(k.wait[o], t)]]

-----------------------------------------------------------------------------
(* scheduler.c                                                             *)

InsertThread(k, t) ==                       \* rt_schedule_insert_thread
    IF t = k.cur
    THEN [k EXCEPT !.stat[t] = "RUNNING"]
    ELSE [k EXCEPT !.stat[t] = "READY",
                   !.ready[k.prio[t]] = Append(@, t),
                   !.group = @ \cup {k.mask[t]}]

(* Each operator named ...Mutant is a plausible mistake in the operator it *)
(* is named after and precedes; no specification uses one.                 *)
RemoveThreadMutant(k, t) == Unlink(k, t)    \* the group bit stays set

RemoveThread(k, t) ==                       \* rt_schedule_remove_thread
    LET u == Unlink(k, t)
    IN  IF u.ready[k.prio[t]] = <<>>
        THEN [u EXCEPT !.group = @ \ {k.mask[t]}]
        ELSE u

(* _get_highest_priority_thread: the lowest set bit, __rt_ffs(group) - 1.  *)
HighestReady(k) == CHOOSE p \in k.group : \A q \in k.group : p <= q

(* The running thread keeps the processor: it beats the highest ready      *)
(* priority, or equals it and has not yielded.                             *)
KeepsCpu(k) ==
    /\ k.stat[k.cur] = "RUNNING"
    /\ \/ k.prio[k.cur] < HighestReady(k)
       \/ k.prio[k.cur] = HighestReady(k) /\ ~k.yield[k.cur]

(* The switch: rt_current_thread first, then the insertion of the thread   *)
(* that was running, then the removal of the one that runs next.           *)
Requeue(k, to) ==
    LET here == [k EXCEPT !.cur = to]
    IN  IF k.stat[k.cur] = "RUNNING"
        THEN InsertThread([here EXCEPT !.yield[k.cur] = FALSE], k.cur)
        ELSE here

SwitchTo(k, to) ==
    [RemoveThread(Requeue(k, to), to) EXCEPT !.stat[to] = "RUNNING"]

Schedule(k) ==                              \* rt_schedule
    IF k.lock # 0 \/ k.group = {}
    THEN k
    ELSE IF KeepsCpu(k)
         THEN [RemoveThread(k, k.cur) EXCEPT !.yield[k.cur] = FALSE]
         ELSE SwitchTo(k, Head(k.ready[HighestReady(k)]))

-----------------------------------------------------------------------------
(* timer.c, for the hard one-shot timer each thread owns                   *)

Later(k, n) == (k.tick + n) % TickMod       \* unsigned rt_tick_t arithmetic

(* The unsigned difference a - b.                                          *)
Minus(a, b) == (a - b) % TickMod

(* The timeout_tick of a stopped timer is never read: it is 0 here.        *)
TimerStop(k, t) ==                          \* rt_timer_stop
    [k EXCEPT !.timers = Without(@, t), !.due[t] = 0]

TimerPlaceMutant(s, due, when) ==           \* ticks compared as numbers
    LET later == {i \in 1 .. Len(s) : due[s[i]] > when}
    IN  IF later = {}
        THEN Len(s) + 1
        ELSE CHOOSE i \in later : \A j \in later : i <= j

(* The scan of rt_timer_start: pass the timers that expire no later, stop  *)
(* in front of the first one whose distance is under half the tick range.  *)
TimerPlace(s, due, when) ==
    LET later == {i \in 1 .. Len(s) :
                    /\ due[s[i]] # when
                    /\ Minus(due[s[i]], when) < HalfTick}
    IN  IF later = {}
        THEN Len(s) + 1
        ELSE CHOOSE i \in later : \A j \in later : i <= j

TimerStart(k, t, n) ==  \* rt_timer_control(SET_TIME) and rt_timer_start
    LET s    == Without(k.timers, t)
        when == Later(k, n)
    IN  [k EXCEPT !.due[t] = when,
                  !.timers = InsertAt(s, TimerPlace(s, k.due, when), t)]

TimerExpiredMutant(k) ==                    \* ticks compared as numbers
    k.timers # <<>> /\ k.tick >= k.due[Head(k.timers)]

(* The test of rt_timer_check on the first timer of the list.              *)
TimerExpired(k) ==
    /\ k.timers # <<>>
    /\ Minus(k.tick, k.due[Head(k.timers)]) < HalfTick

-----------------------------------------------------------------------------
(* thread.c                                                                *)

ThreadSuspend(k, t) ==                      \* rt_thread_suspend
    IF k.stat[t] \notin {"READY", "RUNNING"}
    THEN k
    ELSE TimerStop([RemoveThread(k, t) EXCEPT !.stat[t] = "SUSPEND"], t)

ThreadResumeMutant(k, t) ==                 \* the timer keeps running
    IF k.stat[t] # "SUSPEND" THEN k ELSE InsertThread(Unlink(k, t), t)

ThreadResume(k, t) ==                       \* rt_thread_resume
    IF k.stat[t] # "SUSPEND"
    THEN k
    ELSE InsertThread(TimerStop(Unlink(k, t), t), t)

ThreadTimeout(k, t) ==                      \* rt_thread_timeout
    Schedule(InsertThread(Unlink([k EXCEPT !.error[t] = "TIMEOUT"], t), t))

ThreadYield(k, t) ==                        \* rt_thread_yield
    Schedule([k EXCEPT !.remaining[t] = InitTick[t], !.yield[t] = TRUE])

ChangePriorityMutant(k, t, p) ==            \* number_mask is left behind
    IF k.stat[t] = "READY"
    THEN InsertThread([RemoveThread(k, t) EXCEPT !.prio[t] = p], t)
    ELSE [k EXCEPT !.prio[t] = p]

ChangePriorityInPlaceMutant(k, t, p) ==     \* not moved to its new list
    [k EXCEPT !.prio[t] = p, !.mask[t] = p]

(* rt_thread_control(RT_THREAD_CTRL_CHANGE_PRIORITY)                       *)
ChangePriority(k, t, p) ==
    IF k.stat[t] = "READY"
    THEN InsertThread([RemoveThread(k, t) EXCEPT !.prio[t] = p,
                                                 !.mask[t] = p], t)
    ELSE [k EXCEPT !.prio[t] = p, !.mask[t] = p]

-----------------------------------------------------------------------------
(* clock.c: rt_tick_increase up to its call of rt_timer_check              *)

TickIncrease(k) ==
    LET c    == k.cur
        next == [k EXCEPT !.tick = Later(k, 1)]
    IN  IF k.remaining[c] = 1
        THEN ThreadYield(next, c)
        ELSE [next EXCEPT !.remaining[c] = @ - 1]

(* One turn of the loop of rt_timer_check, for an expired thread timer.    *)
TimerFire(k) ==
    LET t == Head(k.timers)
    IN  ThreadTimeout([k EXCEPT !.timers = Tail(@), !.due[t] = 0], t)

-----------------------------------------------------------------------------
(* ipc.c: the suspend list of an IPC object                                *)

WaitPlaceMutant(k, o, t, flag) ==           \* before its equals
    LET s     == k.wait[o]
        lower == {i \in 1 .. Len(s) : k.prio[t] <= k.prio[s[i]]}
    IN  IF flag = "FIFO" \/ lower = {}
        THEN Len(s) + 1
        ELSE CHOOSE i \in lower : \A j \in lower : i <= j

(* Where rt_ipc_list_suspend links t: at the tail under RT_IPC_FLAG_FIFO,  *)
(* before the first thread of a lower priority under RT_IPC_FLAG_PRIO.     *)
WaitPlace(k, o, t, flag) ==
    LET s     == k.wait[o]
        lower == {i \in 1 .. Len(s) : k.prio[t] < k.prio[s[i]]}
    IN  IF flag = "FIFO" \/ lower = {}
        THEN Len(s) + 1
        ELSE CHOOSE i \in lower : \A j \in lower : i <= j

Join(k, o, t, flag) ==
    [k EXCEPT !.wait[o] = InsertAt(@, WaitPlace(k, o, t, flag), t)]

IpcListSuspend(k, o, t, flag) ==            \* rt_ipc_list_suspend
    Join(ThreadSuspend(k, t), o, t, flag)

IpcListResume(k, o) ==                      \* rt_ipc_list_resume
    ThreadResume(k, Head(k.wait[o]))

(* One turn of the loop of rt_ipc_list_resume_all.                         *)
IpcListAbort(k, o) ==
    LET t == Head(k.wait[o])
    IN  ThreadResume([k EXCEPT !.error[t] = "ERROR"], t)

(* Suspend the caller on o; a positive time starts its thread timer, a     *)
(* negative one waits forever (the common part of the blocking calls).     *)
Block(k, o, t, flag, time) ==
    LET s == IpcListSuspend([k EXCEPT !.error[t] = "OK"], o, t, flag)
    IN  IF time > 0 THEN TimerStart(s, t, time) ELSE s

-----------------------------------------------------------------------------
(* rt_thread_startup up to its call of rt_schedule.                        *)
ThreadStartup(k, t) ==
    ThreadResume([k EXCEPT !.prio[t] = InitPrio[t],
                           !.mask[t] = InitPrio[t],
                           !.stat[t] = "SUSPEND"], t)

(* What rtthread_startup leaves: the main and the idle thread are started  *)
(* and rt_system_scheduler_start has switched to the main one.  The other  *)
(* threads are initialised and wait for rt_thread_startup.                 *)
Started ==
    [cur       |-> Main,
     stat      |-> [t \in Thread |-> IF t = Main THEN "RUNNING"
                                     ELSE IF t = Idle THEN "READY" ELSE "INIT"],
     yield     |-> [t \in Thread |-> FALSE],
     prio      |-> InitPrio,
     mask      |-> InitPrio,
     remaining |-> InitTick,
     error     |-> [t \in Thread |-> "OK"],
     ready     |-> [p \in Prio |-> IF p = MaxPrio THEN <<Idle>> ELSE <<>>],
     group     |-> {MaxPrio},
     wait      |-> [o \in Object |-> <<>>],
     tick      |-> 0,
     due       |-> [t \in Thread |-> 0],
     timers    |-> <<>>,
     lock      |-> 0]

-----------------------------------------------------------------------------
(* Consistency of the data structures.                                     *)

Distinct(s) == \A i, j \in 1 .. Len(s) : s[i] = s[j] => i = j

(* The ready table, its bitmap, the states and the priorities of the       *)
(* threads are five records of one fact, each updated by its own           *)
(* statements in scheduler.c and thread.c.                                 *)
ReadyAgrees(k) ==
    /\ \A p \in Prio : Distinct(k.ready[p])
    /\ \A p \in Prio, t \in Thread :
          t \in Range(k.ready[p]) <=> k.stat[t] = "READY" /\ k.prio[t] = p
    /\ k.group = {p \in Prio : k.ready[p] # <<>>}
    /\ k.mask = k.prio

(* Only the current thread is RUNNING, and it is not in the ready table:   *)
(* it runs, or it has suspended itself and not called rt_schedule yet.     *)
OneRuns(k) ==
    /\ k.stat[k.cur] \in {"RUNNING", "SUSPEND"}
    /\ \A t \in Thread : k.stat[t] = "RUNNING" => t = k.cur

(* A linked waiter is suspended: rt_ipc_list_resume_all loops until the    *)
(* list is empty, and rt_thread_resume leaves any other thread in it.      *)
WaitersSuspended(k) ==
    /\ \A o \in Object : Distinct(k.wait[o])
    /\ \A o \in Object, t \in Thread :
          t \in Range(k.wait[o]) => k.stat[t] = "SUSPEND"
    /\ \A o1, o2 \in Object, t \in Thread :
          t \in Range(k.wait[o1]) /\ t \in Range(k.wait[o2]) => o1 = o2

Consistent(k) == ReadyAgrees(k) /\ OneRuns(k) /\ WaitersSuspended(k)
=============================================================================
