------------------------------- MODULE Mutex -------------------------------
(***************************************************************************)
(* The mutexes of src/rt-thread/src/ipc.c, with priority inheritance, used *)
(* by threads on the processor of module Processor.                        *)
(***************************************************************************)
EXTENDS Processor

CONSTANTS MutexFlag,     \* RT_IPC_FLAG_FIFO or RT_IPC_FLAG_PRIO
          HoldMax,       \* RT_MUTEX_HOLD_MAX
          WaitTimes,     \* the times rt_mutex_take is called with
          None           \* RT_NULL as an owner, 0xff as a priority

ASSUME MutexAssumption ==
    /\ MutexFlag \in {"FIFO", "PRIO"}
    /\ HoldMax \in Nat \ {0}
    /\ WaitTimes \subseteq Int
    /\ \A n \in WaitTimes : n < HalfTick       \* asserted by rt_timer_start
    /\ None \notin Thread \cup Prio \cup Object

VARIABLES value,   \* [Object -> 0 .. 1]: mutex->value
          owner,   \* [Object -> Thread or None]
          hold,    \* [Object -> 0 .. HoldMax]
          orig,    \* [Object -> Prio or None]: original_priority
          target,  \* the mutex of the rt_mutex_take a thread is blocked in
          depth    \* history: takes of m that returned RT_EOK to t, not undone

mutexVars == <<value, owner, hold, orig>>
vars == <<kernelVars, mutexVars, target, depth>>

Init ==
    /\ KernelInit
    /\ value = [m \in Object |-> 1]
    /\ owner = [m \in Object |-> None]
    /\ hold = [m \in Object |-> 0]
    /\ orig = [m \in Object |-> None]
    /\ target = [t \in Thread |-> None]
    /\ depth = [t \in Thread |-> [m \in Object |-> 0]]

Deepen(t, m, n) == depth' = [depth EXCEPT ![t][m] = @ + n]

SetError(t, e) == k' = [k EXCEPT !.error[t] = e]

-----------------------------------------------------------------------------
(* rt_mutex_take                                                           *)

TakeAgain(t, m) ==      \* by the owner; -RT_EFULL at RT_MUTEX_HOLD_MAX
    /\ At(t, "run")
    /\ owner[m] = t
    /\ SetError(t, "OK")
    /\ IF hold[m] < HoldMax
       THEN hold' = [hold EXCEPT ![m] = @ + 1] /\ Deepen(t, m, 1)
       ELSE UNCHANGED <<hold, depth>>
    /\ UNCHANGED <<pc, irq, value, owner, orig, target>>

TakeFreeMutant(t, m) ==                     \* value is not tested
    /\ At(t, "run")
    /\ owner[m] # t
    /\ SetError(t, "OK")
    /\ value' = [value EXCEPT ![m] = @ - 1]
    /\ owner' = [owner EXCEPT ![m] = t]
    /\ orig'  = [orig EXCEPT ![m] = k.prio[t]]
    /\ hold'  = [hold EXCEPT ![m] = @ + 1]
    /\ Deepen(t, m, 1)
    /\ UNCHANGED <<pc, irq, target>>

TakeFree(t, m) ==
    /\ At(t, "run")
    /\ owner[m] # t
    /\ value[m] > 0
    /\ SetError(t, "OK")
    /\ value' = [value EXCEPT ![m] = @ - 1]
    /\ owner' = [owner EXCEPT ![m] = t]
    /\ orig'  = [orig EXCEPT ![m] = k.prio[t]]
    /\ hold'  = [hold EXCEPT ![m] = @ + 1]
    /\ Deepen(t, m, 1)
    /\ UNCHANGED <<pc, irq, target>>

TakeRefused(t, m) ==                        \* time = 0
    /\ At(t, "run")
    /\ owner[m] # t
    /\ value[m] = 0
    /\ 0 \in WaitTimes
    /\ SetError(t, "TIMEOUT")
    /\ UNCHANGED <<pc, irq, mutexVars, target, depth>>

InheritMutant(t, m) == k                    \* nothing is lent

(* The caller lends its priority to the owner, then suspends itself.       *)
Inherit(t, m) ==
    IF k.prio[t] < k.prio[owner[m]]
    THEN ChangePriority(k, owner[m], k.prio[t])
    ELSE k

TakeBlocks(t, m) ==
    /\ At(t, "run")
    /\ MayBlock
    /\ owner[m] # t
    /\ value[m] = 0
    /\ \E time \in WaitTimes \ {0} :
          k' = Block(Inherit(t, m), m, t, MutexFlag, time)
    /\ Goto(t, "wait")
    /\ target' = [target EXCEPT ![t] = m]
    /\ UNCHANGED <<irq, mutexVars, depth>>

TakeReturns(t) ==       \* back in rt_mutex_take: it returns thread->error
    /\ At(t, "woken")
    /\ IF k.error[t] = "OK" THEN Deepen(t, target[t], 1) ELSE UNCHANGED depth
    /\ target' = [target EXCEPT ![t] = None]
    /\ Goto(t, "run")
    /\ UNCHANGED <<k, irq, mutexVars>>

-----------------------------------------------------------------------------
(* rt_mutex_release                                                        *)

ReleaseRefused(t, m) ==                     \* not the owner
    /\ At(t, "run")
    /\ owner[m] # t
    /\ SetError(t, "ERROR")
    /\ UNCHANGED <<pc, irq, mutexVars, target, depth>>

ReleaseInner(t, m) ==
    /\ At(t, "run")
    /\ owner[m] = t
    /\ hold[m] > 1
    /\ hold' = [hold EXCEPT ![m] = @ - 1]
    /\ Deepen(t, m, -1)
    /\ UNCHANGED <<k, pc, irq, value, owner, orig, target>>

RestoreMutant(t, m) == k                    \* the loan is kept

(* The owner gets the priority back it had when it took the mutex.         *)
Restore(t, m) ==
    IF orig[m] # k.prio[t] THEN ChangePriority(k, t, orig[m]) ELSE k

ReleaseFreeMutant(t, m) ==                  \* mutex->owner is not cleared
    /\ At(t, "run")
    /\ owner[m] = t
    /\ hold[m] = 1
    /\ k.wait[m] = <<>>
    /\ k' = Restore(t, m)
    /\ hold'  = [hold EXCEPT ![m] = 0]
    /\ value' = [value EXCEPT ![m] = @ + 1]
    /\ orig'  = [orig EXCEPT ![m] = None]
    /\ Deepen(t, m, -1)
    /\ UNCHANGED <<pc, irq, owner, target>>

ReleaseFree(t, m) ==                        \* the last hold, nobody waits
    /\ At(t, "run")
    /\ owner[m] = t
    /\ hold[m] = 1
    /\ k.wait[m] = <<>>
    /\ k' = Restore(t, m)
    /\ hold'  = [hold EXCEPT ![m] = 0]
    /\ value' = [value EXCEPT ![m] = @ + 1]
    /\ owner' = [owner EXCEPT ![m] = None]
    /\ orig'  = [orig EXCEPT ![m] = None]
    /\ Deepen(t, m, -1)
    /\ UNCHANGED <<pc, irq, target>>

(* rt_ipc_get_highest_priority on the suspend list of m                    *)
HighestWaiting(s, m) ==
    CHOOSE p \in {s.prio[u] : u \in Range(s.wait[m])} :
        \A u \in Range(s.wait[m]) : p <= s.prio[u]

PromoteMutant(s, u, m) == s                 \* the new owner is not raised

(* Under FIFO the new owner may have waited in front of a higher priority. *)
Promote(s, u, m) ==
    IF MutexFlag = "FIFO" /\ s.prio[u] # HighestWaiting(s, m)
    THEN ChangePriority(s, u, HighestWaiting(s, m))
    ELSE s

ReleaseHandOver(t, m) ==                    \* the last hold, somebody waits
    /\ At(t, "run")
    /\ owner[m] = t
    /\ hold[m] = 1
    /\ k.wait[m] # <<>>
    /\ LET u == Head(k.wait[m])
           s == Restore(t, m)
       IN  /\ owner' = [owner EXCEPT ![m] = u]
           /\ orig'  = [orig EXCEPT ![m] = s.prio[u]]
           /\ k' = IpcListResume(Promote(s, u, m), m)
    /\ Goto(t, "sched")
    /\ Deepen(t, m, -1)
    /\ UNCHANGED <<irq, value, hold, target>>

-----------------------------------------------------------------------------
MutexStep(t, m) ==
    \/ TakeAgain(t, m) \/ TakeFree(t, m) \/ TakeRefused(t, m) \/ TakeBlocks(t, m)
    \/ ReleaseRefused(t, m) \/ ReleaseInner(t, m)
    \/ ReleaseFree(t, m) \/ ReleaseHandOver(t, m)

Holds(t) == \E m \in Object : owner[m] = t

KernelStep == KernelNext /\ UNCHANGED <<mutexVars, target, depth>>

Next ==
    \/ KernelStep
    \/ \E t \in Worker : TakeReturns(t)
    \/ \E t \in Worker, m \in Object : MutexStep(t, m)

Spec == Init /\ [][Next]_vars

(* A thread that runs or sleeps, and is not kept from the processor or     *)
(* waiting for another thread, does not keep a mutex for ever.             *)
KeptWaiting(t) == k.stat[t] = "READY" \/ target[t] # None

FairSpec ==
    /\ Spec
    /\ KernelFairness
    /\ \A t \in Worker : []<>(Holds(t) => KeptWaiting(t))

-----------------------------------------------------------------------------
TypeOK ==
    /\ KernelTypeOK
    /\ value \in [Object -> 0 .. 1]
    /\ owner \in [Object -> Thread \cup {None}]
    /\ hold \in [Object -> 0 .. HoldMax]
    /\ orig \in [Object -> Prio \cup {None}]
    /\ target \in [Thread -> Object \cup {None}]
    /\ depth \in [Thread -> [Object -> 0 .. HoldMax]]

(* t has been made the owner while it was suspended and has not returned   *)
(* from rt_mutex_take yet.                                                 *)
Granted(t, m) ==
    /\ target[t] = m
    /\ t \notin Range(k.wait[m])
    /\ k.error[t] = "OK"

(* The mutex and the programs agree (rt_mutex_take, rt_mutex_release): the *)
(* recorded owner is the one thread whose takes returned RT_EOK, hold      *)
(* counts them, also when the ownership is passed to a suspended thread    *)
(* whose timeout is due, and a free mutex has no waiter.                   *)
OwnerAgrees ==
    \A m \in Object :
        /\ owner[m] = None <=> value[m] = 1
        /\ owner[m] = None <=> hold[m] = 0
        /\ owner[m] = None => k.wait[m] = <<>>
        /\ \A t \in Thread :
              /\ depth[t][m] + (IF Granted(t, m) THEN 1 ELSE 0) =
                     IF owner[m] = t THEN hold[m] ELSE 0

PhaseOf(t, m) ==
    CASE t \in Range(k.wait[m])                   -> "want"
      [] t \notin Range(k.wait[m]) /\ target[t] = m ->
            IF k.error[t] = "OK" THEN "granted" ELSE "refused"
      [] OTHER                                    -> "out"

OneMutex == CHOOSE m \in Object : TRUE

Abstract == INSTANCE AbstractMutex WITH
    Client <- Thread, MaxDepth <- HoldMax,
    phase <- [t \in Thread |-> PhaseOf(t, OneMutex)],
    depth <- [t \in Thread |-> depth[t][OneMutex]]

(* The code implements the promise of a mutex: exclusion, re-entry, and    *)
(* direct hand-over that neither a timeout nor a newcomer can intercept.   *)
ImplementsMutex == Abstract!Spec

(* Priority inheritance (rt_mutex_take, rt_mutex_release): the owner runs  *)
(* at no lower priority than any thread that waits for it.                 *)
OwnerInherits ==
    \A m \in Object : \A t \in Range(k.wait[m]) : k.prio[owner[m]] <= k.prio[t]

(* rt_mutex_release changes "the owner thread to original priority": a     *)
(* thread that owns no mutex has the priority it was started with.         *)
PriorityRestored ==
    \A t \in Thread : ~Holds(t) => k.prio[t] = InitPrio[t]

(* No priority inversion: while a thread waits for a mutex whose owner     *)
(* could run, no thread of a lower priority than the waiter has the        *)
(* processor in its own code.                                              *)
NoInversion ==
    irq = "on" /\ k.lock = 0 /\ pc[k.cur] \notin {"sched", "nap", "wait"} =>
        \A m \in Object : \A t \in Range(k.wait[m]) :
            k.stat[owner[m]] # "SUSPEND" => k.prio[k.cur] <= k.prio[t]

(* Bounded waiting for the highest priority: its rt_mutex_take returns,    *)
(* though a thread of a middle priority never gives up the processor by    *)
(* itself.  Only inheritance gets the owner past that thread.              *)
TopTakeReturns ==
    \A t \in Worker :
        (\A u \in Thread \ {t} : InitPrio[t] < InitPrio[u]) =>
            pc[t] = "wait" ~> pc[t] = "run"
=============================================================================
