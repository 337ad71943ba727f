----------------------------- MODULE Processor -----------------------------
(***************************************************************************)
(* The processor: which code may take the next step.                       *)
(*                                                                         *)
(* There is one core.  A region of code with interrupts disabled is one    *)
(* step, or, when it loops, a run of steps between which irq is not "on".  *)
(* Between two steps of the current thread interrupts are enabled, so the  *)
(* tick interrupt (or a device interrupt of an extending module) may come  *)
(* in.  An interrupt handler runs to its end before any thread does, and a *)
(* switch that rt_schedule decides in it takes effect there               *)
(* (rt_hw_context_switch_interrupt, context_gcc.S).                        *)
(*                                                                         *)
(* pc[t] is where t is between two of its steps:                           *)
(*   "run"    in its own code, about to call the kernel                    *)
(*   "sched"  interrupts enabled again, about to call rt_schedule and      *)
(*            return                                                       *)
(*   "nap"    as "sched", in rt_thread_sleep                               *)
(*   "napped" back from that rt_schedule                                   *)
(*   "wait"   as "sched", in a blocking call                               *)
(*   "woken"  back from that rt_schedule, about to read thread->error      *)
(*   "reset"  in the loop of rt_ipc_list_resume_all, interrupts disabled   *)
(*   "detach" in that loop called with interrupts enabled                  *)
(*   "dequeue" as "detach", having found a waiter                          *)
(*   "call"   in a call, between two of its masked regions                 *)
(*   "halt"   in rt_assert_handler, for ever                               *)
(***************************************************************************)
EXTENDS Kernel

CONSTANTS SleepTimes,  \* the ticks rt_thread_sleep is called with
          MaxNest      \* bound on the nesting of rt_enter_critical

ASSUME ProcessorAssumption ==
    /\ SleepTimes \subseteq Nat
    /\ \A n \in SleepTimes : n < HalfTick      \* asserted by rt_timer_start
    /\ MaxNest \in Nat

VARIABLES k,    \* the kernel state
          pc,   \* [Thread -> Location]
          irq   \* "on"; "off" in a masked loop; "tick" in rt_timer_check

kernelVars == <<k, pc, irq>>

Location == {"run", "sched", "nap", "napped", "wait", "woken",
             "reset", "detach", "dequeue", "call", "halt"}

KernelInit ==
    /\ k = Started
    /\ pc = [t \in Thread |-> "run"]
    /\ irq = "on"

-----------------------------------------------------------------------------
(* Thread t executes and is in its own code.  Thread context is the only   *)
(* one these calls are made from.                                          *)
At(t, loc) ==
    /\ irq = "on"
    /\ k.cur = t
    /\ pc[t] = loc

(* The threads that call the kernel.  The idle thread only gives way: in   *)
(* this build it has no hook and nothing defunct to free.                  *)
Worker == Thread \ {Idle}

(* The program rule the kernel asks for: no blocking call between          *)
(* rt_enter_critical and rt_exit_critical.                                 *)
MayBlock == k.lock = 0

Goto(t, loc) == pc' = [pc EXCEPT ![t] = loc]

(* rt_schedule called with interrupts enabled, at the end of a call.       *)
RtSchedule(t) ==
    \E loc \in {"sched", "nap", "wait"} :
        /\ At(t, loc)
        /\ k' = Schedule(k)
        /\ Goto(t, CASE loc = "sched" -> "run"
                     [] loc = "nap"   -> "napped"
                     [] loc = "wait"  -> "woken")
        /\ UNCHANGED irq

Startup(t, u) ==                            \* rt_thread_startup
    /\ At(t, "run")
    /\ k.stat[u] = "INIT"
    /\ k' = ThreadStartup(k, u)
    /\ Goto(t, "sched")
    /\ UNCHANGED irq

Yield(t) ==                                 \* rt_thread_yield
    /\ At(t, "run")
    /\ k' = ThreadYield(k, t)
    /\ UNCHANGED <<pc, irq>>

SleepMutant(t) ==       \* the timer is armed first: suspending stops it
    /\ At(t, "run")
    /\ MayBlock
    /\ \E n \in SleepTimes : k' = ThreadSuspend(TimerStart(k, t, n), t)
    /\ Goto(t, "nap")
    /\ UNCHANGED irq

Sleep(t) ==                                 \* rt_thread_sleep
    /\ At(t, "run")
    /\ MayBlock
    /\ \E n \in SleepTimes : k' = TimerStart(ThreadSuspend(k, t), t, n)
    /\ Goto(t, "nap")
    /\ UNCHANGED irq

Napped(t) ==    \* the end of rt_thread_sleep: the timeout is no error
    /\ At(t, "napped")
    /\ k' = [k EXCEPT !.error[t] = IF @ = "TIMEOUT" THEN "OK" ELSE @]
    /\ Goto(t, "run")
    /\ UNCHANGED irq

EnterCritical(t) ==                         \* rt_enter_critical
    /\ At(t, "run")
    /\ k.lock < MaxNest
    /\ k' = [k EXCEPT !.lock = @ + 1]
    /\ UNCHANGED <<pc, irq>>

ExitCriticalMutant(t) ==                    \* no rt_schedule at the end
    /\ At(t, "run")
    /\ k.lock > 0
    /\ k' = [k EXCEPT !.lock = @ - 1]
    /\ UNCHANGED <<pc, irq>>

ExitCritical(t) ==                          \* rt_exit_critical
    /\ At(t, "run")
    /\ k.lock > 0
    /\ k' = [k EXCEPT !.lock = @ - 1]
    /\ IF k.lock = 1 THEN Goto(t, "sched") ELSE UNCHANGED pc
    /\ UNCHANGED irq

-----------------------------------------------------------------------------
(* The tick interrupt: rt_tick_increase, then the loop of rt_timer_check.  *)

TickInterrupt ==
    /\ irq = "on"
    /\ k' = TickIncrease(k)
    /\ irq' = "tick"
    /\ UNCHANGED pc

TimerCheck ==
    /\ irq = "tick"
    /\ TimerExpired(k)
    /\ k' = TimerFire(k)
    /\ UNCHANGED <<pc, irq>>

TickReturn ==
    /\ irq = "tick"
    /\ ~TimerExpired(k)
    /\ irq' = "on"
    /\ UNCHANGED <<k, pc>>

TickIsr == TickInterrupt \/ TimerCheck \/ TickReturn

CpuStep(t) ==
    \/ RtSchedule(t)
    \/ \E u \in Worker : Startup(t, u)
    \/ Yield(t)
    \/ Napped(t)
    \/ EnterCritical(t)
    \/ ExitCritical(t)

KernelNext == TickIsr \/ \E t \in Worker : CpuStep(t) \/ Sleep(t)

(* Fairness.  The tick interrupt comes again and again: the hardware keeps *)
(* it pending while interrupts are disabled (driver/board.c), and its      *)
(* handler and a masked loop run to their end.  No thread keeps the        *)
(* scheduler locked for ever.  A thread that has the processor again and   *)
(* again gets through the finitely many steps of a kernel call (the strong *)
(* fairness of its steps, written so that TLC need not evaluate ENABLED):  *)
(* time slices are many instructions long.                                 *)
InCall(t) == irq = "on" /\ k.cur = t /\ pc[t] # "run"

KernelFairness ==
    /\ []<>(irq = "tick")
    /\ []<>(irq = "on")
    /\ []<>(k.lock = 0)
    /\ \A t \in Worker : []<>InCall(t) => []<>(pc[t] = "run")

-----------------------------------------------------------------------------
KernelTypeOK ==
    /\ k \in KernelState
    /\ pc \in [Thread -> Location]
    /\ irq \in {"on", "off", "tick"}

(* The data structures of the scheduler are consistent at every point      *)
(* where interrupts are enabled and inside the interrupt handlers          *)
(* (scheduler.c, thread.c, ipc.c): a wrong one sends the processor to a    *)
(* thread that is not ready, or through an empty list head.                *)
SchedulerConsistent == Consistent(k)

(* No thread is stranded (rt_thread_suspend, rt_thread_resume and          *)
(* rt_thread_timeout): a suspended thread is linked where a wakeup finds   *)
(* it, or its timer is armed; and an armed timer belongs to a suspended    *)
(* thread, which rt_thread_timeout asserts.                                *)
NoneStranded ==
    \A t \in Thread :
        /\ k.stat[t] = "SUSPEND" =>
              t \in Range(k.timers) \/ \E o \in Object : t \in Range(k.wait[o])
        /\ t \in Range(k.timers) => k.stat[t] = "SUSPEND"

(* Preemption (rt_schedule after every wakeup): when the current thread is *)
(* in its own code and the scheduler is not locked, no ready thread has a  *)
(* higher priority.  The threads rt_sem_detach has woken with an error are *)
(* exempt: it calls no rt_schedule.                                        *)
Aborted(t) == pc[t] \in {"wait", "woken"} /\ k.error[t] = "ERROR"

HighestRuns ==
    irq = "on" /\ k.lock = 0 /\ pc[k.cur] \notin {"sched", "nap", "wait"} =>
        \A t \in Thread :
            k.stat[t] = "READY" /\ ~Aborted(t) => k.prio[k.cur] <= k.prio[t]

(* The timer list (rt_timer_start, rt_timer_check) across the wrap of      *)
(* rt_tick: outside the tick interrupt no armed timer is overdue, and the  *)
(* list is sorted by the ticks left.                                       *)
TicksLeft(t) == Minus(k.due[t], k.tick)

TimersAhead ==
    irq # "tick" =>
        \A i \in 1 .. Len(k.timers) :
            /\ TicksLeft(k.timers[i]) < HalfTick
            /\ \A j \in 1 .. i : TicksLeft(k.timers[j]) <= TicksLeft(k.timers[i])

(* rt_timer_check never ends a wait before the tick its timer is set for.  *)
NoEarlyTimeout ==
    [][\A t \in Range(k.timers) :
          k'.error[t] = "TIMEOUT" /\ t \notin Range(k'.timers) =>
              Minus(k.tick, k.due[t]) <= 1]_kernelVars
=============================================================================
