----------------------------- MODULE SoftTimer -----------------------------
(***************************************************************************)
(* The software timers of src/rt-thread/src/timer.c and the thread that    *)
(* serves them, on the processor of module Processor.                      *)
(*                                                                         *)
(* The timer thread reads the time of the first timer, sleeps until then   *)
(* (or suspends itself when there is none), and calls the timers that are  *)
(* due with interrupts enabled.  rt_timer_start links the timer in a       *)
(* masked region and then resumes the timer thread, if it finds it         *)
(* suspended and not in a callback, with interrupts enabled.               *)
(***************************************************************************)
EXTENDS Processor

CONSTANTS Timer,       \* the software timers
          TimerThread, \* timer_thread
          Delay,       \* [Timer -> ticks]: init_tick
          Periodic,    \* the timers with RT_TIMER_FLAG_PERIODIC
          MaxLate      \* bound on the ticks a due timer waits for its thread

ASSUME SoftTimerAssumption ==
    /\ TimerThread \in Thread \ {Idle, Main}
    /\ Delay \in [Timer -> 0 .. HalfTick - 1]
    /\ Periodic \subseteq Timer
    /\ MaxLate \in 0 .. HalfTick - 1

VARIABLES soft, \* the soft timer list and what belongs to it
          loop, \* where rt_thread_timer_entry is, with its locals
          op    \* [Thread -> the call of timer.c it is in]

softVars == <<soft, loop, op>>
vars == <<kernelVars, softVars>>

(* A timer is linked in rt_soft_timer_list, or in the temporary list while *)
(* its callback runs, or nowhere.  The timeout_tick of a timer that is not *)
(* in the soft list is never read: it is 0 here.                           *)
SoftLists ==
    [list   : Seq(Timer),            \* rt_soft_timer_list
     due    : [Timer -> Tick],       \* timeout_tick
     active : SUBSET Timer,          \* RT_TIMER_FLAG_ACTIVATED
     temp   : SUBSET Timer,          \* list, in rt_soft_timer_check
     busy   : BOOLEAN]               \* soft_timer_status

NoTimers ==
    [list |-> <<>>, due |-> [tm \in Timer |-> 0], active |-> {}, temp |-> {},
     busy |-> FALSE]

(* at is "scan", "suspend", "delay" (value is next_timeout), "sleep"       *)
(* (value is the delta), "check" or "callback" (of value).                 *)
Loop(at, value) == [at |-> at, value |-> value]

(* what is "start", "stop" or "detach" before the masked region of the     *)
(* call, and "test", "unlink" or "insert" in the end of rt_timer_start.    *)
Op(what, tm) == [what |-> what, timer |-> tm]
NoOp == Op("none", "none")

(* rt_system_scheduler_start finds the timer thread ready too, above main. *)
Init ==
    /\ k = SwitchTo(ThreadStartup(Started, TimerThread), TimerThread)
    /\ pc = [t \in Thread |-> "run"]
    /\ irq = "on"
    /\ soft = NoTimers
    /\ loop = Loop("scan", 0)
    /\ op = [t \in Thread |-> NoOp]

-----------------------------------------------------------------------------
(* The masked regions, from timer lists s to the timer lists they leave.   *)

SoftRemove(s, tm) ==                        \* _rt_timer_remove
    [s EXCEPT !.list = Without(@, tm), !.temp = @ \ {tm}, !.due[tm] = 0]

SoftStop(s, tm) == [SoftRemove(s, tm) EXCEPT !.active = @ \ {tm}]

SoftStartMutant(s, tm) ==                   \* the tick does not wrap
    LET r    == SoftRemove(s, tm)
        when == k.tick + Delay[tm]
    IN  [r EXCEPT !.list = InsertAt(@, TimerPlace(@, r.due, when), tm),
                  !.due[tm] = when,
                  !.active = @ \cup {tm}]

SoftStart(s, tm) ==
    LET r    == SoftRemove(s, tm)
        when == Later(k, Delay[tm])
    IN  [r EXCEPT !.list = InsertAt(@, TimerPlace(@, r.due, when), tm),
                  !.due[tm] = when,
                  !.active = @ \cup {tm}]

SoftExpired(s) ==
    s.list # <<>> /\ Minus(k.tick, s.due[Head(s.list)]) < HalfTick

(* A one-shot timer loses its flag before its callback, a periodic one     *)
(* keeps it.                                                               *)
SoftCall(s) ==
    LET tm == Head(s.list)
    IN  [SoftRemove(s, tm) EXCEPT !.temp = {tm}, !.busy = TRUE,
                                  !.active = @ \ ({tm} \ Periodic)]

SoftReturnMutant(s, tm) ==  \* the timer is taken out of whatever list
    LET r == SoftRemove([s EXCEPT !.busy = FALSE], tm)
    IN  IF tm \in Periodic /\ tm \in s.active THEN SoftStart(r, tm) ELSE r

SoftReturnBusyMutant(s, tm) ==              \* soft_timer_status stays BUSY
    IF tm \notin s.temp THEN s
    ELSE IF tm \in Periodic /\ tm \in s.active THEN SoftStart(s, tm)
    ELSE SoftRemove(s, tm)

(* The callback of tm is over: nothing is left to do when it, or another   *)
(* thread meanwhile, has stopped, started or detached the timer.           *)
SoftReturn(s, tm) ==
    LET r == [s EXCEPT !.busy = FALSE]
    IN  IF tm \notin s.temp THEN r
        ELSE IF tm \in Periodic /\ tm \in s.active THEN SoftStart(r, tm)
        ELSE SoftRemove(r, tm)

-----------------------------------------------------------------------------
(* rt_thread_timer_entry                                                   *)

InLoop(at) == At(TimerThread, "run") /\ loop.at = at

RtTickMax == TickMod - 1

NextTimeout == IF soft.list = <<>> THEN RtTickMax ELSE soft.due[Head(soft.list)]

Scan ==                                     \* rt_timer_list_next_timeout
    /\ InLoop("scan")
    /\ loop' = IF NextTimeout = RtTickMax THEN Loop("suspend", 0)
               ELSE Loop("delay", NextTimeout)
    /\ UNCHANGED <<kernelVars, soft, op>>

SuspendSelf ==
    /\ InLoop("suspend")
    /\ k' = ThreadSuspend(k, TimerThread)
    /\ Goto(TimerThread, "sched")
    /\ loop' = Loop("check", 0)
    /\ UNCHANGED <<irq, soft, op>>

DelayTest ==
    /\ InLoop("delay")
    /\ LET n == Minus(loop.value, k.tick)
       IN  loop' = IF n < HalfTick THEN Loop("sleep", n) ELSE Loop("check", 0)
    /\ UNCHANGED <<kernelVars, soft, op>>

SleepSelf ==                                \* rt_thread_delay
    /\ InLoop("sleep")
    /\ k' = TimerStart(ThreadSuspend(k, TimerThread), TimerThread, loop.value)
    /\ Goto(TimerThread, "nap")
    /\ loop' = Loop("check", 0)
    /\ UNCHANGED <<irq, soft, op>>

(* A turn of the loop of rt_soft_timer_check.                              *)
CheckFrom(s) ==
    IF SoftExpired(s)
    THEN soft' = SoftCall(s) /\ loop' = Loop("callback", Head(s.list))
    ELSE soft' = s /\ loop' = Loop("scan", 0)

SoftTimerCheck ==
    /\ InLoop("check")
    /\ CheckFrom(soft)
    /\ UNCHANGED <<kernelVars, op>>

CallbackReturns ==      \* and the next turn, in the same masked region
    /\ InLoop("callback")
    /\ CheckFrom(SoftReturn(soft, loop.value))
    /\ UNCHANGED <<kernelVars, op>>

TimerLoopStep ==
    \/ Scan \/ SuspendSelf \/ DelayTest \/ SleepSelf \/ SoftTimerCheck
    \/ RtSchedule(TimerThread) /\ UNCHANGED softVars
    \/ Napped(TimerThread) /\ UNCHANGED softVars

TimerThreadStep == TimerLoopStep \/ CallbackReturns

-----------------------------------------------------------------------------
(* The calls of a thread, or of a callback on the timer thread.            *)

Calls(t, what, tm) ==
    /\ Goto(t, "call")
    /\ op' = [op EXCEPT ![t] = Op(what, tm)]

InOp(t, what) == At(t, "call") /\ op[t].what = what

Returns(t, loc) == Goto(t, loc) /\ op' = [op EXCEPT ![t] = NoOp]

(* rt_timer_stop tests RT_TIMER_FLAG_ACTIVATED with interrupts enabled;    *)
(* rt_timer_detach and rt_timer_delete do not test it.                     *)
CallBegin(t) ==
    /\ At(t, "run")
    /\ t = TimerThread => loop.at = "callback"
    /\ \E what \in {"start", "stop", "detach"}, tm \in Timer :
          /\ what = "stop" => tm \in soft.active
          /\ Calls(t, what, tm)
    /\ UNCHANGED <<k, irq, soft, loop>>

Stop(t) ==              \* rt_timer_stop, rt_timer_detach, rt_timer_delete
    /\ InOp(t, "stop") \/ InOp(t, "detach")
    /\ soft' = SoftStop(soft, op[t].timer)
    /\ Returns(t, "run")
    /\ UNCHANGED <<k, irq, loop>>

Start(t) ==                                 \* rt_timer_start
    /\ InOp(t, "start")
    /\ soft' = SoftStart(soft, op[t].timer)
    /\ Calls(t, "test", "none")
    /\ UNCHANGED <<k, irq, loop>>

StartTest(t) ==
    /\ InOp(t, "test")
    /\ IF ~soft.busy /\ k.stat[TimerThread] = "SUSPEND"
       THEN Calls(t, "unlink", "none")
       ELSE Returns(t, "run")
    /\ UNCHANGED <<k, irq, soft, loop>>

(* rt_thread_resume called with interrupts enabled: the thread is in no    *)
(* list between its two masked regions.                                    *)
ResumeUnlink(t) ==
    /\ InOp(t, "unlink")
    /\ k' = TimerStop(Unlink(k, TimerThread), TimerThread)
    /\ Calls(t, "insert", "none")
    /\ UNCHANGED <<irq, soft, loop>>

ResumeInsert(t) ==
    /\ InOp(t, "insert")
    /\ k' = InsertThread(k, TimerThread)
    /\ Returns(t, "sched")
    /\ UNCHANGED <<irq, soft, loop>>

CallStep(t) ==
    Stop(t) \/ Start(t) \/ StartTest(t) \/ ResumeUnlink(t) \/ ResumeInsert(t)

-----------------------------------------------------------------------------
Client == Worker \ {TimerThread}

(* Tick arithmetic needs that no timer is late by half the tick range.  The *)
(* timer thread is late by MaxLate at most while it runs, or should run;   *)
(* when it sleeps until its own timer it may be late by what it sleeps.    *)
MayBeLate == IF TimerThread \in Range(k.timers) THEN HalfTick - 1 ELSE MaxLate

Patient ==
    \A tm \in Range(soft.list) :
        Minus(k.tick, soft.due[tm]) \notin MayBeLate .. HalfTick - 1

ClockStep ==
    /\ (Patient /\ TickInterrupt) \/ TimerCheck \/ TickReturn
    /\ UNCHANGED softVars

ClientStep(t) == (CpuStep(t) \/ Sleep(t)) /\ UNCHANGED softVars

Next ==
    \/ ClockStep
    \/ TimerThreadStep
    \/ \E t \in Client : ClientStep(t)
    \/ \E t \in Worker : CallBegin(t) \/ CallStep(t)

(* Fairness: the tick comes again and again and its handler ends, and a    *)
(* thread that has the processor again and again gets on with the timer    *)
(* loop, with a callback, and with the calls of the kernel it is in.       *)
EndOfCall(t) == CallStep(t) \/ (RtSchedule(t) /\ UNCHANGED softVars)

Fairness ==
    /\ WF_vars(ClockStep)
    /\ SF_vars(TimerThreadStep)
    /\ \A t \in Worker : SF_vars(EndOfCall(t))

Spec == Init /\ [][Next]_vars
FairSpec == Spec /\ Fairness

-----------------------------------------------------------------------------
Ops == {"none", "start", "stop", "detach", "test", "unlink", "insert"}

TypeOK ==
    /\ KernelTypeOK
    /\ soft \in SoftLists
    /\ loop.at \in {"scan", "suspend", "delay", "sleep", "check", "callback"}
    /\ loop.value \in Tick \cup Timer
    /\ op \in [Thread -> [what : Ops, timer : Timer \cup {"none"}]]

TicksToGo(tm) ==
    LET n == Minus(soft.due[tm], k.tick) IN IF n < HalfTick THEN n ELSE 0

AskedBy(t) ==
    CASE op[t].what = "start" -> <<"start", op[t].timer>>
      [] op[t].what \in {"stop", "detach"} -> <<"stop", op[t].timer>>
      [] OTHER -> <<"nothing">>

Phases ==
    [tm \in Timer |-> IF tm \in Range(soft.list) THEN "armed"
                      ELSE IF tm \in soft.temp THEN "called"
                      ELSE "stopped"]

Remaining ==
    [tm \in Timer |-> IF tm \in Range(soft.list) THEN TicksToGo(tm) ELSE 0]

Asked == [t \in Thread |-> AskedBy(t)]

Abstract == INSTANCE AbstractTimer WITH
    Client <- Thread, phase <- Phases, left <- Remaining, asked <- Asked

(* The promise of software timers (rt_timer_start, rt_timer_stop,          *)
(* rt_soft_timer_check): called at the end of the ticks of the last start, *)
(* never early, never after a stop, while callbacks and other threads stop *)
(* and restart the timer that is being called and ticks wrap.              *)
ImplementsTimer == Abstract!Spec

(* A thread timer only ends the wait of a suspended thread                 *)
(* (rt_thread_timeout, thread.c: RT_ASSERT((thread->stat &                 *)
(* RT_THREAD_STAT_MASK) == RT_THREAD_SUSPEND)).                            *)
TimeoutOfSuspended ==
    irq = "tick" /\ TimerExpired(k) => k.stat[Head(k.timers)] = "SUSPEND"

(* The timers that are due are called, stopped or started again in the end *)
(* (rt_timer_start, rt_thread_timer_entry), unless some timer is set for   *)
(* the tick RT_TICK_MAX, which the timer thread takes for "no timer".      *)
SetForTickMax == \E tm \in Range(soft.list) : soft.due[tm] = RtTickMax

DueTimersFire ==
    []~SetForTickMax => (SoftExpired(soft) ~> ~SoftExpired(soft))
=============================================================================
