----------------------------- MODULE Semaphore -----------------------------
(***************************************************************************)
(* A semaphore of src/rt-thread/src/ipc.c, used by threads and by a device *)
(* interrupt, on the processor of module Processor.                        *)
(***************************************************************************)
EXTENDS Processor

CONSTANTS Sem,          \* the semaphore's suspend_thread list
          SemFlag,      \* RT_IPC_FLAG_FIFO or RT_IPC_FLAG_PRIO
          SemValueMax,  \* RT_SEM_VALUE_MAX
          WaitTimes     \* the times rt_sem_take is called with

ASSUME SemaphoreAssumption ==
    /\ Object = {Sem}
    /\ SemFlag \in {"FIFO", "PRIO"}
    /\ SemValueMax \in Nat
    /\ WaitTimes \subseteq Int

VARIABLES value,  \* sem->value
          life,   \* "live"; "closing" in rt_sem_detach; "gone" after it
          asked   \* history: the waiters, in the order they blocked

semVars == <<value, life, asked>>
vars == <<kernelVars, semVars>>

Waiters == Range(k.wait[Sem])

Init ==
    /\ KernelInit
    /\ value \in 0 .. SemValueMax
    /\ life = "live"
    /\ asked = <<>>

(* The history variable follows the membership of the suspend list, which  *)
(* at most one thread leaves in a step.                                    *)
Remember ==
    LET gone == Range(asked) \ Range(k'.wait[Sem])
    IN  asked' = IF gone = {} THEN asked
                 ELSE Without(asked, CHOOSE t \in gone : TRUE)

-----------------------------------------------------------------------------
(* rt_sem_take                                                             *)

TakeAvailableMutant(t) ==                   \* value is not tested
    /\ At(t, "run")
    /\ life = "live"
    /\ value' = value - 1
    /\ UNCHANGED <<kernelVars, life, asked>>

TakeAvailable(t) ==
    /\ At(t, "run")
    /\ life = "live"
    /\ value > 0
    /\ value' = value - 1
    /\ UNCHANGED <<kernelVars, life, asked>>

(* With time = 0 (rt_sem_trytake) and no token the call returns and        *)
(* nothing changes; otherwise the caller is suspended.                     *)
TakeBlocks(t) ==
    /\ At(t, "run")
    /\ life = "live"
    /\ MayBlock
    /\ value = 0
    /\ \E time \in WaitTimes \ {0} : k' = Block(k, Sem, t, SemFlag, time)
    /\ Goto(t, "wait")
    /\ asked' = Append(asked, t)
    /\ UNCHANGED <<irq, value, life>>

(* Back in rt_sem_take: the call returns thread->error.                    *)
TakeReturns(t) ==
    /\ At(t, "woken")
    /\ Goto(t, "run")
    /\ UNCHANGED <<k, irq, semVars>>

(* rt_sem_release: at RT_SEM_VALUE_MAX the call returns -RT_EFULL.         *)
Release(t) ==                               \* rt_sem_release by a thread
    /\ At(t, "run")
    /\ life = "live"
    /\ IF k.wait[Sem] # <<>>
       THEN /\ k' = IpcListResume(k, Sem)
            /\ Goto(t, "sched")
            /\ UNCHANGED value
       ELSE /\ value' = IF value < SemValueMax THEN value + 1 ELSE value
            /\ UNCHANGED <<k, pc>>
    /\ Remember
    /\ UNCHANGED <<irq, life>>

IsrReleaseMutant ==                         \* the waiters are forgotten
    /\ irq = "on"
    /\ life # "gone"
    /\ value' = IF value < SemValueMax THEN value + 1 ELSE value
    /\ UNCHANGED <<kernelVars, life, asked>>

IsrRelease ==                               \* rt_sem_release by a handler
    /\ irq = "on"
    /\ life # "gone"
    /\ IF k.wait[Sem] # <<>>
       THEN k' = Schedule(IpcListResume(k, Sem)) /\ UNCHANGED value
       ELSE /\ value' = IF value < SemValueMax THEN value + 1 ELSE value
            /\ UNCHANGED k
    /\ Remember
    /\ UNCHANGED <<pc, irq, life>>

-----------------------------------------------------------------------------
(* rt_sem_control(RT_IPC_CMD_RESET): one masked region, a step per waiter. *)

ResetBegin(t) ==
    /\ At(t, "run")
    /\ life = "live"
    /\ irq' = "off"
    /\ Goto(t, "reset")
    /\ UNCHANGED <<k, semVars>>

ResetWake(t) ==
    /\ irq = "off" /\ k.cur = t /\ pc[t] = "reset"
    /\ k.wait[Sem] # <<>>
    /\ k' = IpcListAbort(k, Sem)
    /\ Remember
    /\ UNCHANGED <<pc, irq, value, life>>

ResetEnd(t) ==
    /\ irq = "off" /\ k.cur = t /\ pc[t] = "reset"
    /\ k.wait[Sem] = <<>>
    /\ value' \in 0 .. SemValueMax
    /\ irq' = "on"
    /\ Goto(t, "sched")
    /\ UNCHANGED <<k, life, asked>>

-----------------------------------------------------------------------------
(* rt_sem_detach and rt_sem_delete: the loop of rt_ipc_list_resume_all     *)
(* tests the list with interrupts enabled and disables them for one waiter *)
(* at a time; no rt_schedule follows.  Threads stop using a semaphore that *)
(* is being detached; an interrupt may still release it.                   *)

DetachBegin(t) ==
    /\ At(t, "run")
    /\ life = "live"
    /\ life' = "closing"
    /\ Goto(t, "detach")
    /\ UNCHANGED <<k, irq, value, asked>>

DetachTest(t) ==
    /\ At(t, "detach")
    /\ k.wait[Sem] # <<>>
    /\ Goto(t, "dequeue")
    /\ UNCHANGED <<k, irq, semVars>>

DetachWake(t) ==
    /\ At(t, "dequeue")
    /\ k.wait[Sem] # <<>>
    /\ k' = IpcListAbort(k, Sem)
    /\ Goto(t, "detach")
    /\ Remember
    /\ UNCHANGED <<irq, value, life>>

(* The list has become empty since the test: its head, which lies inside   *)
(* the semaphore, is taken for a thread, and rt_thread_resume asserts that *)
(* it is one.  The handler of the assertion loops, interrupts disabled.    *)
DetachHalt(t) ==
    /\ At(t, "dequeue")
    /\ k.wait[Sem] = <<>>
    /\ irq' = "off"
    /\ Goto(t, "halt")
    /\ UNCHANGED <<k, semVars>>

Halted(t) ==                                \* rt_assert_handler
    /\ irq = "off" /\ k.cur = t /\ pc[t] = "halt"
    /\ UNCHANGED vars

DetachEnd(t) ==
    /\ At(t, "detach")
    /\ k.wait[Sem] = <<>>
    /\ life' = "gone"
    /\ Goto(t, "run")
    /\ UNCHANGED <<k, irq, value, asked>>

SemInit(t) ==                               \* rt_sem_init, rt_sem_create
    /\ At(t, "run")
    /\ life = "gone"
    /\ life' = "live"
    /\ value' \in 0 .. SemValueMax
    /\ UNCHANGED <<kernelVars, asked>>

-----------------------------------------------------------------------------
SemStep(t) ==
    \/ TakeAvailable(t) \/ TakeBlocks(t) \/ TakeReturns(t)
    \/ Release(t)
    \/ ResetBegin(t) \/ ResetWake(t) \/ ResetEnd(t)
    \/ DetachBegin(t) \/ DetachTest(t) \/ DetachWake(t) \/ DetachEnd(t)
    \/ DetachHalt(t) \/ Halted(t)
    \/ SemInit(t)

KernelStep == KernelNext /\ Remember /\ UNCHANGED <<value, life>>

Next == KernelStep \/ IsrRelease \/ \E t \in Worker : SemStep(t)

Spec == Init /\ [][Next]_vars

-----------------------------------------------------------------------------
TypeOK ==
    /\ KernelTypeOK
    /\ value \in 0 .. SemValueMax
    /\ life \in {"live", "closing", "gone"}
    /\ asked \in Seq(Thread)

(* No lost wakeup (rt_sem_take, rt_sem_release): no thread waits while the *)
(* semaphore has a token, however releases, timeouts and resets fall       *)
(* between the steps of the waiters.                                       *)
NoTokenWhileWaiting == Waiters # {} => value = 0

(* rt_thread_resume asserts that it is given a thread: the loop that       *)
(* rt_sem_detach and rt_sem_delete run finds a waiter where it has seen    *)
(* one.                                                                    *)
ResumesThreads == \A t \in Thread : pc[t] # "halt"

(* The promise of the semaphore.  A waiter is granted a token when it has  *)
(* left the list with RT_EOK in thread->error, which is what rt_sem_take   *)
(* returns once it runs.                                                   *)
PhaseOf(t) ==
    CASE t \in Waiters                                -> "want"
      [] t \notin Waiters /\ pc[t] \in {"wait", "woken"} ->
            IF k.error[t] = "OK" THEN "granted" ELSE "refused"
      [] OTHER                                         -> "out"

Abstract == INSTANCE AbstractSemaphore WITH
    Client <- Thread, MaxTokens <- SemValueMax,
    tokens <- value, phase <- [t \in Thread |-> PhaseOf(t)]

(* The code implements it: a token is never lost between a release and the *)
(* return of the take it wakes, nor handed out twice, whether the wakeup   *)
(* races the timeout, the reset or the detach of the semaphore.            *)
ImplementsSemaphore == Abstract!Spec

(* Who is next (rt_ipc_list_suspend and rt_ipc_list_resume): the first to  *)
(* block, under RT_IPC_FLAG_PRIO among those of the highest priority.      *)
NextInLine(t) ==
    LET rivals == {i \in 1 .. Len(asked) :
                     SemFlag = "FIFO" \/ \A u \in Range(asked) :
                                           k.prio[asked[i]] <= k.prio[u]}
    IN  \E i \in rivals : asked[i] = t /\ \A j \in rivals : i <= j

ServedInOrder ==
    [][\A t \in Waiters :
          t \notin Range(k'.wait[Sem]) /\ k'.error[t] = "OK" => NextInLine(t)]_vars
=============================================================================
