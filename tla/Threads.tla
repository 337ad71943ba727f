------------------------------ MODULE Threads ------------------------------
(***************************************************************************)
(* The life of a thread (src/rt-thread/src/thread.c, idle.c): created,     *)
(* started, suspended and resumed by another thread, closed by its own     *)
(* return (rt_thread_exit) or by another thread (rt_thread_delete,         *)
(* rt_thread_detach), freed by the idle thread, while the threads take and *)
(* release the semaphore of module Semaphore.                              *)
(*                                                                         *)
(* These calls enable interrupts between their parts.  phase is where the  *)
(* manager is in one of them:                                              *)
(*   "unlink"  in rt_thread_delete, the state of the victim has been read  *)
(*   "timer"   the victim has been removed from its list                   *)
(*   "close"   its thread timer has been detached                          *)
(*   "park"    in rt_thread_suspend, the victim was READY                  *)
(*   "insert"  in rt_thread_resume, the victim is in no list               *)
(***************************************************************************)
EXTENDS Semaphore

CONSTANTS Manager,   \* the thread that makes the calls on other threads
          Static     \* the threads made by rt_thread_init, closed by detach

ASSUME ThreadsAssumption ==
    /\ Manager \in Worker
    /\ InitPrio[Manager] < MaxPrio
    /\ Static \subseteq Worker

VARIABLES phase,    \* "none" or the step of the manager's call
          victim,   \* the thread the call is about
          parked,   \* the threads the manager has suspended
          defunct,  \* rt_thread_defunct
          free      \* the threads whose object does not exist (any more)

lifeVars == <<phase, victim, parked, defunct, free>>
threadVars == <<vars, lifeVars>>

ThreadsInit ==
    /\ Init
    /\ phase = "none"
    /\ victim = Manager
    /\ parked = {}
    /\ defunct = <<>>
    /\ free = {}

-----------------------------------------------------------------------------
(* rt_thread_create and rt_thread_init; rt_thread_startup is Startup.      *)
Create(u) ==
    /\ At(Manager, "run")
    /\ u \in free
    /\ k' = [k EXCEPT !.stat[u] = "INIT",
                      !.yield[u] = FALSE,
                      !.prio[u] = InitPrio[u],
                      !.mask[u] = InitPrio[u],
                      !.remaining[u] = InitTick[u],
                      !.error[u] = "OK"]
    /\ pc' = [pc EXCEPT ![u] = "run"]
    /\ free' = free \ {u}
    /\ UNCHANGED <<irq, semVars, phase, victim, parked, defunct>>

(* The end of a closed thread: a static one is detached and may be used    *)
(* again, any other goes to the front of the defunct list.                 *)
Dispose(u, list) ==
    IF u \in Static
    THEN free' = free \cup {u} /\ defunct' = list
    ELSE defunct' = <<u>> \o list /\ UNCHANGED free

(* A thread whose timer is detached cannot exit or block: rt_timer_detach  *)
(* and rt_timer_stop assert that they are given a timer.                   *)
HasTimer(t) == ~(phase = "close" /\ victim = t)

Closed(s, t) == TimerStop([RemoveThread(s, t) EXCEPT !.stat[t] = "CLOSE"], t)

ExitMutant(t) ==        \* entered in the defunct list, then unlinked
    /\ At(t, "run")
    /\ MayBlock
    /\ HasTimer(t)
    /\ k' = Schedule(Closed(k, t))
    /\ free' = IF t \in Static THEN free \cup {t} ELSE free
    /\ UNCHANGED <<pc, irq, semVars, phase, victim, parked, defunct>>

Exit(t) ==                                  \* rt_thread_exit
    /\ At(t, "run")
    /\ MayBlock
    /\ HasTimer(t)
    /\ k' = Schedule(Closed(k, t))
    /\ Dispose(t, defunct)
    /\ UNCHANGED <<pc, irq, semVars, phase, victim, parked>>

-----------------------------------------------------------------------------
(* rt_thread_delete and rt_thread_detach                                   *)

DeleteBegins(u) ==      \* a thread that is closed already is left alone
    /\ At(Manager, "run")
    /\ u \in Worker \ (free \cup {Manager})
    /\ k.stat[u] # "CLOSE"
    /\ victim' = u
    /\ phase' = IF k.stat[u] = "INIT" THEN "timer" ELSE "unlink"
    /\ Goto(Manager, "call")
    /\ UNCHANGED <<k, irq, semVars, parked, defunct, free>>

DeleteUnlinksMutant ==                      \* only from the ready list
    /\ At(Manager, "call")
    /\ phase = "unlink"
    /\ k' = IF k.stat[victim] = "READY" THEN RemoveThread(k, victim) ELSE k
    /\ Remember
    /\ defunct' = Without(defunct, victim)
    /\ phase' = "timer"
    /\ UNCHANGED <<pc, irq, value, life, victim, parked, free>>

(* rt_schedule_remove_thread: from whatever list links the victim now, the *)
(* defunct list too, if it has returned since its state was read.          *)
DeleteUnlinks ==
    /\ At(Manager, "call")
    /\ phase = "unlink"
    /\ k' = RemoveThread(k, victim)
    /\ Remember
    /\ defunct' = Without(defunct, victim)
    /\ phase' = "timer"
    /\ UNCHANGED <<pc, irq, value, life, victim, parked, free>>

DeleteStopsTimer ==                         \* rt_timer_detach
    /\ At(Manager, "call")
    /\ phase = "timer"
    /\ k.stat[victim] # "CLOSE"
    /\ k' = TimerStop(k, victim)
    /\ phase' = "close"
    /\ UNCHANGED <<pc, irq, semVars, victim, parked, defunct, free>>

DeleteCloses ==
    /\ At(Manager, "call")
    /\ phase = "close"
    /\ k' = [k EXCEPT !.stat[victim] = "CLOSE"]
    /\ Dispose(victim, defunct)
    /\ parked' = parked \ {victim}
    /\ phase' = "none"
    /\ Goto(Manager, "run")
    /\ UNCHANGED <<irq, semVars, victim>>

IdleFrees ==            \* one turn of the loop of rt_thread_idle_excute
    /\ At(Idle, "run")
    /\ defunct # <<>>
    /\ free' = free \cup {Head(defunct)}
    /\ defunct' = Tail(defunct)
    /\ UNCHANGED <<vars, phase, victim, parked>>

-----------------------------------------------------------------------------
(* rt_thread_suspend and rt_thread_resume, called on another thread        *)

SuspendBegins(u) ==     \* any other state: the call returns -RT_ERROR
    /\ At(Manager, "run")
    /\ u \in Worker \ (free \cup {Manager})
    /\ k.stat[u] = "READY"
    /\ victim' = u
    /\ phase' = "park"
    /\ Goto(Manager, "call")
    /\ UNCHANGED <<k, irq, semVars, parked, defunct, free>>

(* The masked region does not read the state again: a victim that waits by *)
(* now is taken out of the suspend list, and its timer is stopped.         *)
SuspendTakes ==
    /\ At(Manager, "call")
    /\ phase = "park"
    /\ k.stat[victim] # "CLOSE"
    /\ k' = TimerStop([RemoveThread(k, victim) EXCEPT !.stat[victim] = "SUSPEND"],
                      victim)
    /\ Remember
    /\ parked' = parked \cup {victim}
    /\ phase' = "none"
    /\ Goto(Manager, "run")
    /\ UNCHANGED <<irq, value, life, victim, defunct, free>>

(* The manager resumes what it has suspended itself.                       *)
ResumeUnlinks(u) ==
    /\ At(Manager, "run")
    /\ u \in parked
    /\ k' = TimerStop(Unlink(k, u), u)
    /\ parked' = parked \ {u}
    /\ victim' = u
    /\ phase' = "insert"
    /\ Goto(Manager, "call")
    /\ UNCHANGED <<irq, semVars, defunct, free>>

ResumeInserts ==
    /\ At(Manager, "call")
    /\ phase = "insert"
    /\ k' = InsertThread(k, victim)
    /\ phase' = "none"
    /\ Goto(Manager, "run")
    /\ UNCHANGED <<irq, semVars, victim, parked, defunct, free>>

(* The victim has returned since its state was read.  Its timer is no      *)
(* timer any more, which rt_timer_detach and rt_timer_stop assert against: *)
(* the manager loops for ever, with interrupts disabled in the masked      *)
(* region of rt_thread_suspend, enabled in rt_thread_delete.               *)
CallHalts ==
    /\ At(Manager, "call")
    /\ phase \in {"timer", "park"}
    /\ k.stat[victim] = "CLOSE"
    /\ irq' = IF phase = "park" THEN "off" ELSE "on"
    /\ Goto(Manager, "halt")
    /\ UNCHANGED <<k, semVars, lifeVars>>

-----------------------------------------------------------------------------
LifeStep ==
    \/ \E u \in Worker : Create(u) \/ Exit(u)
    \/ \E u \in Worker : DeleteBegins(u)
    \/ DeleteUnlinks \/ DeleteStopsTimer \/ DeleteCloses
    \/ \E u \in Worker : SuspendBegins(u) \/ ResumeUnlinks(u)
    \/ SuspendTakes \/ ResumeInserts
    \/ CallHalts
    \/ IdleFrees

(* Programs take and release the semaphore as in module Semaphore.  The    *)
(* manager starts a thread it has created before it deletes it, or after.  *)
ProgramStep ==
    /\ \/ /\ \/ TickIsr
             \/ \E t \in Worker : RtSchedule(t) \/ Yield(t)
             \/ \E u \in Worker \ free : Startup(Manager, u)
          /\ Remember
          /\ UNCHANGED <<value, life>>
       \/ IsrRelease
       \/ \E t \in Worker :
             \/ TakeAvailable(t) \/ TakeReturns(t) \/ Release(t) \/ Halted(t)
             \/ HasTimer(t) /\ TakeBlocks(t)
    /\ UNCHANGED lifeVars

ThreadsNext == LifeStep \/ ProgramStep

ThreadsSpec == ThreadsInit /\ [][ThreadsNext]_threadVars

-----------------------------------------------------------------------------
ThreadsTypeOK ==
    /\ TypeOK
    /\ phase \in {"none", "unlink", "timer", "close", "park", "insert"}
    /\ victim \in Worker
    /\ parked \subseteq Worker
    /\ defunct \in Seq(Worker \ Static)
    /\ free \subseteq Worker

Listed(t) ==
    \/ \E p \in Prio : t \in Range(k.ready[p])
    \/ t \in Range(k.wait[Sem])
    \/ t \in Range(k.timers)

(* "The thread object will be removed from thread queue" (rt_thread_delete *)
(* and rt_thread_detach; rt_thread_exit): a closed thread does not run, no *)
(* list of threads that wait to run or to be woken links it, and nothing   *)
(* is left of its timer.                                                   *)
ClosedUnlinked ==
    \A t \in Thread : k.stat[t] = "CLOSE" => k.cur # t /\ ~Listed(t)

(* Whatever is closed is freed once (rt_thread_exit, rt_thread_delete,     *)
(* rt_thread_idle_excute): a closed thread is in the defunct list once and *)
(* its object exists, or it has been detached or freed; a thread that is   *)
(* deleted while it returns is in neither only until the assertion stops   *)
(* the deletion.                                                           *)
ClosedOnce ==
    /\ Distinct(defunct)
    /\ \A t \in Worker :
          /\ t \in Range(defunct) \cup free => k.stat[t] = "CLOSE"
          /\ ~(t \in Range(defunct) /\ t \in free)
          /\ k.stat[t] = "CLOSE" /\ ~(phase = "timer" /\ victim = t) =>
                t \in Range(defunct) \cup free

(* Where a thread is linked agrees with what was done to it, however       *)
(* threads and handlers go on between the parts of the manager's calls:    *)
(* the ready table and its bitmap hold the READY threads but the one that  *)
(* is being deleted (rt_schedule_remove_thread), and no wakeup reaches a   *)
(* thread that rt_thread_suspend has put away.                             *)
PlacesAgree ==
    /\ k.group = {p \in Prio : k.ready[p] # <<>>}
    /\ \A t \in Thread, p \in Prio :
          t \in Range(k.ready[p]) <=>
             /\ k.stat[t] = "READY"
             /\ k.prio[t] = p
             /\ ~(phase \in {"timer", "close"} /\ victim = t)
    /\ \A t \in parked : k.stat[t] = "SUSPEND" /\ ~Listed(t)
=============================================================================
