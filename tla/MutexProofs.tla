---------------------------- MODULE MutexProofs ----------------------------
(***************************************************************************)
(* The mutexes of module Mutex, for every number of threads and mutexes,   *)
(* every assignment of priorities, both kinds of suspend list and every    *)
(* bound on the recursion: the type invariant, the consistency of the      *)
(* ready lists while priorities change, the agreement of what a mutex      *)
(* records with what the programs have been told, the timer list, and the  *)
(* promise of AbstractMutex for each mutex.                                *)
(* Priority inheritance holds for mutexes that no thread nests, and keeps  *)
(* middle priorities from the processor when there is one mutex.           *)
(***************************************************************************)
EXTENDS Mutex, ProcessorProofs

(* A thread inside rt_mutex_take: it is in the list of its mutex with      *)
(* RT_EOK in thread->error while it is suspended, and in no other list.    *)
Calls ==
    \A t \in Thread :
        /\ Inside(t) <=> target[t] # None
        /\ \A m \in Object :
              t \in Range(k.wait[m]) => target[t] = m /\ k.error[t] = "OK"
        /\ Inside(t) /\ k.stat[t] = "SUSPEND" => t \in Range(k.wait[target[t]])

MutexTypes ==
    /\ value \in [Object -> 0 .. 1]
    /\ owner \in [Object -> Thread \cup {None}]
    /\ hold \in [Object -> 0 .. HoldMax]
    /\ orig \in [Object -> Prio \cup {None}]
    /\ target \in [Thread -> Object \cup {None}]
    /\ depth \in [Thread -> [Object -> Nat]]

(* The owner of a mutex has a priority to be given back.                   *)
OrigKept == \A m \in Object : owner[m] # None => orig[m] \in Prio

MutexInv == KernelInv /\ MutexTypes /\ Calls /\ OrigKept /\ OwnerAgrees

(* The mutex m, for one thread and by itself.                              *)
Count(t, m) == IF owner[m] = t THEN hold[m] ELSE 0
Told(t, m) == depth[t][m] + (IF Granted(t, m) THEN 1 ELSE 0)

FreeAgrees(m) ==
    /\ owner[m] = None <=> value[m] = 1
    /\ owner[m] = None <=> hold[m] = 0
    /\ owner[m] = None => Range(k.wait[m]) = {}

-----------------------------------------------------------------------------
(* rt_thread_control(RT_THREAD_CTRL_CHANGE_PRIORITY) of a thread in any    *)
(* state.                                                                  *)
LEMMA ChangePriorityEffect ==
    ASSUME NEW b, Sound(b), NEW t \in Thread, NEW p \in Prio
    PROVE  LET s == ChangePriority(b, t, p)
           IN  /\ Wakes(b, s) /\ Calm(b, s)
               /\ s.cur = b.cur /\ s.stat = b.stat /\ s.lock = b.lock
               /\ b.stat[t] # "READY" => s.wait = b.wait
<1> DEFINE s == ChangePriority(b, t, p)
<1>1. b \in KernelState /\ Linked(b) /\ b.stat \in [Thread -> Stat]
  BY DEF Sound, Linked, KernelState
<1>2. CASE b.stat[t] # "READY"
  <2>1. s = [b EXCEPT !.prio[t] = p, !.mask[t] = p]
    BY <1>2 DEF ChangePriority
  <2> HIDE DEF s
  <2>2. /\ s \in KernelState
        /\ s.prio = [b.prio EXCEPT ![t] = p] /\ s.mask = [b.mask EXCEPT ![t] = p]
        /\ s.cur = b.cur /\ s.stat = b.stat /\ s.lock = b.lock
        /\ s.ready = b.ready /\ s.group = b.group /\ s.error = b.error
        /\ s.wait = b.wait /\ s.timers = b.timers
    BY <1>1, <2>1 DEF KernelState
  <2>3. ReadyAgrees(s)
    <3>1. \A u \in Thread \ {t} : s.prio[u] = b.prio[u]
      BY <1>1, <2>2 DEF KernelState
    <3>2. \A q \in Prio, u \in Thread :
            u \in Range(s.ready[q]) <=> s.stat[u] = "READY" /\ s.prio[u] = q
      BY <1>1, <1>2, <2>2, <3>1 DEF Linked, ReadyAgrees
    <3>3. s.mask = s.prio
      BY <1>1, <2>2 DEF Linked, ReadyAgrees
    <3> QED
      BY <1>1, <2>2, <3>2, <3>3 DEF Linked, ReadyAgrees
  <2>4. WaitersSuspended(s)
    BY <1>1, <2>2 DEF Linked, WaitersSuspended
  <2>5. OneRuns(s) /\ Timed(s) /\ Alive(s)
    BY <2>2 DEF Sound, OneRuns, Timed, Alive
  <2>6. Sound(s)
    BY <2>2, <2>3, <2>4, <2>5 DEF Sound, Linked
  <2>7. Wakes(b, s) /\ Calm(b, s)
    BY <2>2, <2>6 DEF Wakes, Calm
  <2> QED
    BY <2>2, <2>7 DEF s
<1>3. CASE b.stat[t] = "READY"
  <2> DEFINE r == RemoveThread(b, t)
             d == [r EXCEPT !.prio[t] = p, !.mask[t] = p]
  <2>1. /\ Detached(r, t)
        /\ r = [b EXCEPT !.ready = r.ready, !.wait = r.wait, !.group = r.group]
    BY <1>1, RemoveDetaches
  <2>2. Calm(b, r)
    BY <1>1, <1>3, RemoveCalm
  <2>3. s = InsertThread(d, t)
    BY <1>3 DEF ChangePriority
  <2> HIDE DEF r
  <2>4. r \in KernelState /\ r.mask = r.prio
    BY <2>1 DEF Detached
  <2>5. /\ r.cur = b.cur /\ r.stat = b.stat /\ r.lock = b.lock
        /\ r.timers = b.timers
    BY <1>1, <2>1 DEF KernelState
  <2>6. /\ d \in KernelState
        /\ d.prio = [r.prio EXCEPT ![t] = p] /\ d.mask = [r.mask EXCEPT ![t] = p]
        /\ d.cur = r.cur /\ d.stat = r.stat /\ d.lock = r.lock
        /\ d.ready = r.ready /\ d.group = r.group /\ d.error = r.error
        /\ d.wait = r.wait /\ d.timers = r.timers
    BY <2>4 DEF KernelState
  <2> HIDE DEF d
  <2>7. Detached(d, t)
    <3>1. \A u \in Thread \ {t} : d.stat[u] = r.stat[u] /\ d.prio[u] = r.prio[u]
      BY <2>4, <2>6 DEF KernelState
    <3>2. d.mask = d.prio
      BY <2>4, <2>6
    <3> QED
      BY <2>1, <2>4, <2>6, <3>1, <3>2, DetachedUpdate
  <2>8. t # b.cur
    BY <1>3 DEF Sound, OneRuns
  <2>9. /\ Linked(s) /\ s.stat = [d.stat EXCEPT ![t] = "READY"]
        /\ s.cur = b.cur /\ s.wait = r.wait /\ s.timers = b.timers
        /\ s.lock = b.lock
    BY <2>3, <2>5, <2>6, <2>7, <2>8, InsertLinks
  <2>10. s.error = r.error
    BY <2>3, <2>6, InsertCalm
  <2> HIDE DEF s
  <2>11. s.stat = b.stat
    BY <1>1, <1>3, <2>5, <2>6, <2>9
  <2>12. OneRuns(s) /\ Timed(s) /\ Alive(s)
    BY <2>9, <2>11 DEF Sound, OneRuns, Timed, Alive
  <2>13. Calm(b, s)
    BY <2>2, <2>9, <2>10 DEF Calm
  <2>14. Wakes(b, s)
    BY <2>9, <2>11, <2>12, <2>13 DEF Sound, Wakes, Calm
  <2> QED
    BY <1>3, <2>9, <2>11, <2>13, <2>14 DEF s
<1> QED
  BY <1>2, <1>3

(* Assigning thread->error.                                                *)
LEMMA SetErrorEffect ==
    ASSUME KernelInv, NEW t \in Thread, NEW e \in Error, SetError(t, e)
    PROVE  /\ Wakes(k, k') /\ k'.wait = k.wait /\ k'.stat = k.stat
           /\ \A u \in Thread \ {t} : k'.error[u] = k.error[u]
<1>1. Sound(k) /\ k \in KernelState
  BY DEF KernelInv, Sound, Linked
<1>2. k' = [k EXCEPT !.error[t] = e]
  BY DEF SetError
<1>3. /\ k' \in KernelState
      /\ k'.cur = k.cur /\ k'.stat = k.stat /\ k'.prio = k.prio
      /\ k'.mask = k.mask /\ k'.ready = k.ready /\ k'.group = k.group
      /\ k'.wait = k.wait /\ k'.timers = k.timers /\ k'.lock = k.lock
      /\ k'.error = [k.error EXCEPT ![t] = e]
  BY <1>1, <1>2 DEF KernelState
<1>4. Wakes(k, k')
  BY <1>1, <1>3, PlainUpdate
<1> QED
  BY <1>1, <1>3, <1>4 DEF KernelState

LEMMA DeepenIs ==
    ASSUME depth \in [Thread -> [Object -> Nat]], NEW t \in Thread,
           NEW m \in Object, NEW n \in Int, depth[t][m] + n \in Nat,
           Deepen(t, m, n)
    PROVE  /\ depth' \in [Thread -> [Object -> Nat]]
           /\ depth'[t][m] = depth[t][m] + n
           /\ \A u \in Thread, x \in Object :
                 u # t \/ x # m => depth'[u][x] = depth[u][x]
<1> DEFINE row == [depth[t] EXCEPT ![m] = @ + n]
<1>1. depth[t] \in [Object -> Nat]
  OBVIOUS
<1>2. row \in [Object -> Nat] /\ row[m] = depth[t][m] + n
      /\ \A x \in Object : x # m => row[x] = depth[t][x]
  BY <1>1
<1>3. depth' = [depth EXCEPT ![t] = row]
  BY DEF Deepen
<1> HIDE DEF row
<1> QED
  BY <1>2, <1>3

(* OwnerAgrees, as the facts above about each mutex and each thread.       *)
LEMMA AgreesIs ==
    ASSUME KernelInv
    PROVE  OwnerAgrees <=>
              /\ \A m \in Object : FreeAgrees(m)
              /\ \A m \in Object, t \in Thread : Told(t, m) = Count(t, m)
<1>1. \A m \in Object : k.wait[m] = <<>> <=> Range(k.wait[m]) = {}
  BY EmptyRange DEF KernelInv, Sound, Linked, KernelState
<1> QED
  BY <1>1 DEF OwnerAgrees, FreeAgrees, Told, Count

LEMMA AgreesNext ==
    ASSUME KernelInv',
           \A m \in Object : FreeAgrees(m)',
           \A m \in Object, t \in Thread : Told(t, m)' = Count(t, m)'
    PROVE  OwnerAgrees'
<1>1. \A m \in Object : k'.wait[m] = <<>> <=> Range(k'.wait[m]) = {}
  BY EmptyRange DEF KernelInv, Sound, Linked, KernelState
<1> QED
  BY <1>1 DEF OwnerAgrees, FreeAgrees, Told, Count

(* The suspend lists hold threads.                                         *)
LEMMA WaitersAreThreads ==
    ASSUME KernelInv', NEW m \in Object
    PROVE  Range(k'.wait[m]) \subseteq Thread
<1>1. k'.wait[m] \in Seq(Thread)
  BY DEF KernelInv, Sound, Linked, KernelState
<1> QED
  BY <1>1, RangeOfSeq DEF Range

LEMMA InitInv == Init => MutexInv
<1> SUFFICES ASSUME Init
             PROVE  MutexInv
  OBVIOUS
<1>1. KernelInv /\ \A m \in Object : k.wait[m] = <<>>
  BY KernelInitInv DEF Init
<1>2. \A m \in Object : Range(k.wait[m]) = {}
  BY <1>1 DEF Range
<1>3. MutexTypes
  BY MutexAssumption DEF Init, MutexTypes
<1>4. pc = [t \in Thread |-> "run"]
  BY DEF Init, KernelInit
<1>5. Calls
  BY <1>2, <1>4, MutexAssumption DEF Init, Calls, Inside
<1>6. OrigKept
  BY DEF Init, OrigKept
<1>7. \A m \in Object : FreeAgrees(m)
  BY <1>2 DEF Init, FreeAgrees
<1>8. ASSUME NEW m \in Object, NEW t \in Thread
      PROVE  Told(t, m) = Count(t, m)
  <2>1. depth[t][m] = 0 /\ ~Granted(t, m) /\ owner[m] # t
    BY MutexAssumption DEF Init, Granted
  <2> QED
    BY <2>1 DEF Told, Count
<1> QED
  BY <1>1, <1>3, <1>5, <1>6, <1>7, <1>8, AgreesIs DEF MutexInv

(* A thread in its own code waits for no mutex and has been granted none.  *)
LEMMA OutsideIs ==
    ASSUME MutexInv, NEW t \in Thread, ~Inside(t)
    PROVE  /\ target[t] = None
           /\ \A m \in Object : t \notin Range(k.wait[m]) /\ ~Granted(t, m)
BY MutexAssumption DEF MutexInv, Calls, Granted

(* A step of thread t in its own code that wakes nobody: the calls of the  *)
(* others stay as they are.                                                *)
LEMMA QuietKernel ==
    ASSUME MutexInv, NEW t \in Worker, At(t, "run"), Wakes(k, k'),
           UNCHANGED <<pc, irq, target>>,
           \A u \in Thread \ {t} : k'.error[u] = k.error[u],
           \A m \in Object : Range(k'.wait[m]) = Range(k.wait[m])
    PROVE  /\ KernelInv' /\ Calls'
           /\ \A u \in Thread, m \in Object : Granted(u, m)' <=> Granted(u, m)
<1>1. t \in Thread /\ ~Inside(t)
  BY DEF Worker, At, Inside
<1>2. /\ target[t] = None
      /\ \A m \in Object : t \notin Range(k.wait[m]) /\ ~Granted(t, m)
  BY <1>1, OutsideIs
<1>3. KernelInv'
  BY WakeStep DEF MutexInv, KernelInv
<1>4. \A u \in Thread : k'.stat[u] = "SUSPEND" => k.stat[u] = "SUSPEND"
  BY DEF Wakes
<1>5. Calls'
  BY <1>1, <1>2, <1>4 DEF MutexInv, Calls, Inside, MutexTypes
<1>6. \A u \in Thread, m \in Object : Granted(u, m)' <=> Granted(u, m)
  BY <1>2, MutexAssumption DEF Granted
<1> QED
  BY <1>3, <1>5, <1>6

(* A step on mutex m by thread t: it is enough to look at m.               *)
LEMMA StepOnOne ==
    ASSUME MutexInv, KernelInv', NEW t \in Thread, NEW m \in Object,
           \A x \in Object \ {m} : Range(k'.wait[x]) \subseteq Range(k.wait[x]),
           \A u \in Thread, x \in Object \ {m} :
              /\ Granted(u, x)' <=> Granted(u, x)
              /\ depth'[u][x] = depth[u][x]
              /\ owner'[x] = owner[x] /\ hold'[x] = hold[x] /\ value'[x] = value[x],
           FreeAgrees(m)',
           \A u \in Thread : Told(u, m)' = Count(u, m)'
    PROVE  OwnerAgrees'
<1>1. /\ \A x \in Object : FreeAgrees(x)
      /\ \A x \in Object, u \in Thread : Told(u, x) = Count(u, x)
  BY AgreesIs DEF MutexInv
<1>2. \A x \in Object : FreeAgrees(x)'
  <2>1. ASSUME NEW x \in Object \ {m}
        PROVE  FreeAgrees(x)'
    <3>1. FreeAgrees(x) /\ Range(k'.wait[x]) \subseteq Range(k.wait[x])
      BY <1>1
    <3>2. owner'[x] = owner[x] /\ hold'[x] = hold[x] /\ value'[x] = value[x]
      OBVIOUS
    <3> QED
      BY <3>1, <3>2 DEF FreeAgrees
  <2> QED
    BY <2>1
<1>3. \A x \in Object, u \in Thread : Told(u, x)' = Count(u, x)'
  <2>1. ASSUME NEW x \in Object \ {m}, NEW u \in Thread
        PROVE  Told(u, x)' = Count(u, x)'
    <3>1. /\ Told(u, x) = Count(u, x)
          /\ Granted(u, x)' <=> Granted(u, x)
          /\ depth'[u][x] = depth[u][x]
          /\ owner'[x] = owner[x] /\ hold'[x] = hold[x]
      BY <1>1
    <3> QED
      BY <3>1 DEF Told, Count
  <2> QED
    BY <2>1
<1> QED
  BY <1>2, <1>3, AgreesNext

-----------------------------------------------------------------------------
(* The calls of module Mutex.                                              *)

(* The calls that neither suspend nor wake a thread, as far as they        *)
(* concern the kernel state.                                               *)
Quiet(t, m) ==
    \/ TakeAgain(t, m) \/ TakeFree(t, m) \/ TakeRefused(t, m)
    \/ ReleaseRefused(t, m) \/ ReleaseInner(t, m) \/ ReleaseFree(t, m)

LEMMA QuietEffect ==
    ASSUME MutexInv, NEW t \in Worker, NEW m \in Object, Quiet(t, m)
    PROVE  /\ At(t, "run") /\ UNCHANGED <<pc, irq, target>>
           /\ Wakes(k, k')
           /\ \A u \in Thread \ {t} : k'.error[u] = k.error[u]
           /\ \A x \in Object : Range(k'.wait[x]) = Range(k.wait[x])
<1>1. KernelInv /\ Sound(k) /\ t \in Thread
  BY DEF MutexInv, KernelInv, Worker
<1>2. At(t, "run") /\ UNCHANGED <<pc, irq, target>>
  BY DEF Quiet, TakeAgain, TakeFree, TakeRefused, ReleaseRefused,
         ReleaseInner, ReleaseFree, mutexVars
<1>3. CASE \E e \in {"OK", "TIMEOUT", "ERROR"} : SetError(t, e)
  <2>1. PICK e \in {"OK", "TIMEOUT", "ERROR"} : SetError(t, e)
    BY <1>3
  <2>2. e \in Error
    BY DEF Error
  <2> QED
    BY <1>1, <1>2, <2>1, <2>2, SetErrorEffect
<1>4. CASE ReleaseInner(t, m)
  <2>1. UNCHANGED k
    BY <1>4 DEF ReleaseInner
  <2> QED
    BY <1>1, <1>2, <2>1, WakesNone
<1>5. CASE ReleaseFree(t, m)
  <2>1. k' = Restore(t, m) /\ owner[m] = t
    BY <1>5 DEF ReleaseFree
  <2>2. orig[m] \in Prio
    BY <1>1, <2>1, MutexAssumption DEF MutexInv, OrigKept
  <2>3. CASE orig[m] # k.prio[t]
    <3>1. k' = ChangePriority(k, t, orig[m])
      BY <2>1, <2>3 DEF Restore
    <3>2. Wakes(k, k') /\ Calm(k, k')
      BY <1>1, <2>2, <3>1, ChangePriorityEffect
    <3> QED
      BY <1>2, <3>2 DEF Calm
  <2>4. CASE orig[m] = k.prio[t]
    <3>1. UNCHANGED k
      BY <2>1, <2>4 DEF Restore
    <3> QED
      BY <1>1, <1>2, <3>1, WakesNone
  <2> QED
    BY <2>3, <2>4
<1> QED
  BY <1>3, <1>4, <1>5 DEF Quiet, TakeAgain, TakeFree, TakeRefused, ReleaseRefused

LEMMA QuietKeeps ==
    ASSUME MutexInv, NEW t \in Worker, NEW m \in Object, Quiet(t, m)
    PROVE  MutexInv'
<1>1. /\ At(t, "run") /\ UNCHANGED <<pc, irq, target>>
      /\ \A x \in Object : Range(k'.wait[x]) = Range(k.wait[x])
  BY QuietEffect
<1>2. /\ KernelInv' /\ Calls'
      /\ \A u \in Thread, x \in Object : Granted(u, x)' <=> Granted(u, x)
  BY QuietEffect, QuietKernel
<1>3. /\ t \in Thread /\ t # None /\ ~Granted(t, m)
      /\ HoldMax \in Nat /\ HoldMax > 0
  <2>1. ~Inside(t) /\ t \in Thread
    BY <1>1 DEF At, Inside, Worker
  <2> QED
    BY <2>1, OutsideIs, MutexAssumption
<1>4. /\ FreeAgrees(m)
      /\ \A u \in Thread : Told(u, m) = Count(u, m)
  BY AgreesIs DEF MutexInv
<1>5. /\ value \in [Object -> 0 .. 1] /\ owner \in [Object -> Thread \cup {None}]
      /\ hold \in [Object -> 0 .. HoldMax] /\ orig \in [Object -> Prio \cup {None}]
      /\ target \in [Thread -> Object \cup {None}]
      /\ depth \in [Thread -> [Object -> Nat]]
  BY DEF MutexInv, MutexTypes
<1>6. \A u \in Thread : depth[u][m] \in Nat /\ hold[m] \in Nat
  BY <1>3, <1>5
<1> DEFINE Rest == /\ \A x \in Object \ {m} :
                        /\ owner'[x] = owner[x] /\ hold'[x] = hold[x]
                        /\ value'[x] = value[x] /\ orig'[x] = orig[x]
                   /\ \A u \in Thread, x \in Object :
                        u # t \/ x # m => depth'[u][x] = depth[u][x]
<1>7. SUFFICES /\ MutexTypes' /\ Rest
               /\ owner'[m] # None => orig'[m] \in Prio
               /\ FreeAgrees(m)'
               /\ \A u \in Thread : Told(u, m)' = Count(u, m)'
  <2>1. OrigKept'
    BY <1>7 DEF MutexInv, OrigKept
  <2>2. OwnerAgrees'
    BY <1>1, <1>2, <1>3, <1>7, StepOnOne
  <2> QED
    BY <1>2, <1>7, <2>1, <2>2 DEF MutexInv
<1>8. CASE TakeAgain(t, m) /\ hold[m] < HoldMax
  <2>1. /\ owner[m] = t /\ hold' = [hold EXCEPT ![m] = @ + 1]
        /\ Deepen(t, m, 1) /\ UNCHANGED <<value, owner, orig>>
    BY <1>8 DEF TakeAgain
  <2>2. depth[t][m] = hold[m]
    BY <1>3, <1>4, <1>6, <2>1 DEF Told, Count
  <2>3. /\ depth' \in [Thread -> [Object -> Nat]]
        /\ depth'[t][m] = depth[t][m] + 1
        /\ \A u \in Thread, x \in Object :
              u # t \/ x # m => depth'[u][x] = depth[u][x]
    <3>1. depth[t][m] + 1 \in Nat /\ 1 \in Int
      BY <1>3, <1>6
    <3> QED
      BY <1>3, <1>5, <2>1, <3>1, DeepenIs
  <2>4. /\ hold' \in [Object -> 0 .. HoldMax] /\ hold'[m] = hold[m] + 1
        /\ \A x \in Object \ {m} : hold'[x] = hold[x]
    BY <1>3, <1>5, <1>6, <1>8, <2>1
  <2>5. \A u \in Thread : Told(u, m)' = Count(u, m)'
    BY <1>2, <1>3, <1>4, <1>6, <2>1, <2>2, <2>3, <2>4 DEF Told, Count
  <2>6. FreeAgrees(m)'
    BY <1>3, <1>4, <1>6, <2>1, <2>4 DEF FreeAgrees
  <2>7. orig[m] \in Prio
    BY <1>3, <2>1 DEF MutexInv, OrigKept
  <2>8. MutexTypes'
    BY <1>1, <1>5, <2>1, <2>3, <2>4 DEF MutexTypes
  <2>9. Rest
    BY <2>1, <2>3, <2>4
  <2> QED
    BY <2>1, <2>5, <2>6, <2>7, <2>8, <2>9
<1>9. CASE TakeFree(t, m)
  <2>1. /\ value[m] > 0
        /\ value' = [value EXCEPT ![m] = @ - 1] /\ owner' = [owner EXCEPT ![m] = t]
        /\ orig' = [orig EXCEPT ![m] = k.prio[t]] /\ hold' = [hold EXCEPT ![m] = @ + 1]
        /\ Deepen(t, m, 1)
    BY <1>9 DEF TakeFree
  <2>2. value[m] = 1 /\ owner[m] = None /\ hold[m] = 0
    BY <1>4, <1>5, <2>1 DEF FreeAgrees
  <2>3. \A u \in Thread : depth[u][m] = 0 /\ ~Granted(u, m)
    BY <1>4, <1>6, <2>2, MutexAssumption DEF Told, Count
  <2>4. /\ depth' \in [Thread -> [Object -> Nat]]
        /\ depth'[t][m] = depth[t][m] + 1
        /\ \A u \in Thread, x \in Object :
              u # t \/ x # m => depth'[u][x] = depth[u][x]
    <3>1. depth[t][m] + 1 \in Nat /\ 1 \in Int
      BY <1>3, <1>6
    <3> QED
      BY <1>3, <1>5, <2>1, <3>1, DeepenIs
  <2>5. k.prio[t] \in Prio
    BY <1>3 DEF MutexInv, KernelInv, Sound, Linked, KernelState
  <2>6. /\ hold' \in [Object -> 0 .. HoldMax] /\ hold'[m] = 1
        /\ value' \in [Object -> 0 .. 1] /\ value'[m] = 0
    BY <1>3, <1>5, <2>1, <2>2
  <2>7. /\ owner' \in [Object -> Thread \cup {None}] /\ owner'[m] = t
        /\ orig' \in [Object -> Prio \cup {None}] /\ orig'[m] = k.prio[t]
        /\ \A x \in Object \ {m} :
              /\ owner'[x] = owner[x] /\ hold'[x] = hold[x]
              /\ value'[x] = value[x] /\ orig'[x] = orig[x]
    BY <1>3, <1>5, <2>1, <2>5
  <2>8. \A u \in Thread : Told(u, m)' = Count(u, m)'
    BY <1>2, <2>3, <2>4, <2>6, <2>7 DEF Told, Count
  <2>9. FreeAgrees(m)'
    BY <1>3, <2>6, <2>7 DEF FreeAgrees
  <2>10. MutexTypes'
    BY <1>1, <1>5, <2>4, <2>6, <2>7 DEF MutexTypes
  <2> QED
    BY <2>4, <2>5, <2>7, <2>8, <2>9, <2>10
<1>10. CASE ReleaseInner(t, m)
  <2>1. /\ owner[m] = t /\ hold[m] > 1 /\ hold' = [hold EXCEPT ![m] = @ - 1]
        /\ Deepen(t, m, -1) /\ UNCHANGED <<value, owner, orig>>
    BY <1>10 DEF ReleaseInner
  <2>2. depth[t][m] = hold[m]
    BY <1>3, <1>4, <1>6, <2>1 DEF Told, Count
  <2>3. /\ depth' \in [Thread -> [Object -> Nat]]
        /\ depth'[t][m] = depth[t][m] - 1
        /\ \A u \in Thread, x \in Object :
              u # t \/ x # m => depth'[u][x] = depth[u][x]
    <3>1. depth[t][m] + (-1) \in Nat /\ -1 \in Int
      BY <1>3, <1>6, <2>1, <2>2
    <3>2. /\ depth' \in [Thread -> [Object -> Nat]]
          /\ depth'[t][m] = depth[t][m] + (-1)
          /\ \A u \in Thread, x \in Object :
                u # t \/ x # m => depth'[u][x] = depth[u][x]
      BY <1>3, <1>5, <2>1, <3>1, DeepenIs
    <3> QED
      BY <1>3, <1>6, <3>2
  <2>4. /\ hold' \in [Object -> 0 .. HoldMax] /\ hold'[m] = hold[m] - 1
        /\ \A x \in Object \ {m} : hold'[x] = hold[x]
    BY <1>3, <1>5, <1>6, <2>1
  <2>5. \A u \in Thread : Told(u, m)' = Count(u, m)'
    BY <1>2, <1>3, <1>4, <1>6, <2>1, <2>2, <2>3, <2>4 DEF Told, Count
  <2>6. FreeAgrees(m)'
    BY <1>3, <1>4, <1>6, <2>1, <2>4 DEF FreeAgrees
  <2>7. orig[m] \in Prio
    BY <1>3, <2>1 DEF MutexInv, OrigKept
  <2>8. MutexTypes'
    BY <1>1, <1>5, <2>1, <2>3, <2>4 DEF MutexTypes
  <2>9. Rest
    BY <2>1, <2>3, <2>4
  <2> QED
    BY <2>1, <2>5, <2>6, <2>7, <2>8, <2>9
<1>11. CASE ReleaseFree(t, m)
  <2>1. /\ owner[m] = t /\ hold[m] = 1 /\ k.wait[m] = <<>>
        /\ value' = [value EXCEPT ![m] = @ + 1]
        /\ owner' = [owner EXCEPT ![m] = None]
        /\ orig' = [orig EXCEPT ![m] = None] /\ hold' = [hold EXCEPT ![m] = 0]
        /\ Deepen(t, m, -1)
    BY <1>11 DEF ReleaseFree
  <2>2. depth[t][m] = 1 /\ value[m] = 0
    BY <1>3, <1>4, <1>5, <1>6, <2>1 DEF Told, Count, FreeAgrees
  <2>3. /\ depth' \in [Thread -> [Object -> Nat]]
        /\ depth'[t][m] = 0
        /\ \A u \in Thread, x \in Object :
              u # t \/ x # m => depth'[u][x] = depth[u][x]
    <3>1. depth[t][m] + (-1) \in Nat /\ -1 \in Int
      BY <2>2
    <3>2. /\ depth' \in [Thread -> [Object -> Nat]]
          /\ depth'[t][m] = depth[t][m] + (-1)
          /\ \A u \in Thread, x \in Object :
                u # t \/ x # m => depth'[u][x] = depth[u][x]
      BY <1>3, <1>5, <2>1, <3>1, DeepenIs
    <3> QED
      BY <2>2, <3>2
  <2>4. \A u \in Thread : u # t => depth[u][m] = 0 /\ ~Granted(u, m)
    BY <1>4, <1>6, <2>1 DEF Told, Count
  <2>5. /\ hold' \in [Object -> 0 .. HoldMax] /\ hold'[m] = 0
        /\ value' \in [Object -> 0 .. 1] /\ value'[m] = 1
    BY <1>3, <1>5, <2>1, <2>2
  <2>6. /\ owner' \in [Object -> Thread \cup {None}] /\ owner'[m] = None
        /\ orig' \in [Object -> Prio \cup {None}]
        /\ \A x \in Object \ {m} :
              /\ owner'[x] = owner[x] /\ hold'[x] = hold[x]
              /\ value'[x] = value[x] /\ orig'[x] = orig[x]
    BY <1>5, <2>1
  <2>7. \A u \in Thread : Told(u, m)' = Count(u, m)'
    BY <1>2, <1>3, <2>3, <2>4, <2>5, <2>6 DEF Told, Count
  <2>8. FreeAgrees(m)'
    <3>1. Range(k'.wait[m]) = Range(<<>>)
      BY <1>1, <2>1
    <3>2. Range(<<>>) = {}
      BY DEF Range
    <3> QED
      BY <2>5, <2>6, <3>1, <3>2 DEF FreeAgrees
  <2>9. MutexTypes'
    BY <1>1, <1>5, <2>3, <2>5, <2>6 DEF MutexTypes
  <2> QED
    BY <2>3, <2>6, <2>7, <2>8, <2>9
<1>12. CASE UNCHANGED <<value, owner, hold, orig, depth>>
  <2>1. FreeAgrees(m)'
    BY <1>1, <1>4, <1>12 DEF FreeAgrees
  <2>2. \A u \in Thread : Told(u, m)' = Count(u, m)'
    BY <1>2, <1>4, <1>12 DEF Told, Count
  <2> QED
    BY <1>1, <1>5, <1>12, <2>1, <2>2 DEF MutexTypes, MutexInv, OrigKept
<1> QED
  BY <1>8, <1>9, <1>10, <1>11, <1>12
     DEF Quiet, TakeAgain, TakeRefused, ReleaseRefused, mutexVars

(* A step of the processor: it refuses the calls that time out, whose      *)
(* threads were in a suspend list and so had not been granted the mutex.   *)
LEMMA KernelStepKeeps ==
    ASSUME MutexInv, KernelStep
    PROVE  MutexInv'
<1>1. KernelInv' /\ Shrinks /\ CallsGoOn
  <2>1. KernelInv /\ KernelNext
    BY DEF MutexInv, KernelStep, KernelNext
  <2> QED
    BY <2>1, KernelNextKeeps, KernelNextGoesOn
<1>2. UNCHANGED <<value, owner, hold, orig, target, depth>>
  BY DEF KernelStep, mutexVars
<1>3. MutexTypes' /\ OrigKept'
  BY <1>2 DEF MutexInv, MutexTypes, OrigKept
<1>4. ASSUME NEW t \in Thread
      PROVE  /\ Inside(t)' <=> Inside(t)
             /\ Inside(t) <=> target[t] # None
             /\ Inside(t) => (GoesOn(t) \/ Refused(t)) /\ target[t] \in Object
             /\ \A m \in Object :
                   t \in Range(k.wait[m]) => target[t] = m /\ k.error[t] = "OK"
             /\ Inside(t) /\ k.stat[t] = "SUSPEND" => t \in Range(k.wait[target[t]])
  BY <1>1 DEF CallsGoOn, MutexInv, MutexTypes, Calls
<1>5. Calls'
  <2>1. ASSUME NEW t \in Thread, NEW m \in Object, t \in Range(k'.wait[m])
        PROVE  target[t] = m /\ k'.error[t] = "OK"
    <3>1. t \in Range(k.wait[m])
      BY <1>1, <2>1 DEF Shrinks
    <3>2. target[t] = m /\ k.error[t] = "OK" /\ target[t] # None
      BY <1>4, <3>1, MutexAssumption
    <3>3. GoesOn(t) \/ Refused(t)
      BY <1>4, <3>2
    <3> QED
      BY <2>1, <3>2, <3>3 DEF GoesOn, Refused
  <2>2. ASSUME NEW t \in Thread, Inside(t), k'.stat[t] = "SUSPEND"
        PROVE  t \in Range(k'.wait[target[t]])
    <3>1. GoesOn(t) /\ target[t] \in Object
      BY <1>4, <2>2 DEF Refused
    <3>2. k.stat[t] = "SUSPEND"
      BY <2>2, <3>1 DEF GoesOn
    <3>3. t \in Range(k.wait[target[t]])
      BY <1>4, <2>2, <3>2
    <3> QED
      BY <2>2, <3>1, <3>3 DEF GoesOn
  <2> QED
    BY <1>2, <1>4, <2>1, <2>2 DEF Calls
<1>6. ASSUME NEW t \in Thread, NEW m \in Object
      PROVE  Granted(t, m)' <=> Granted(t, m)
  <2>1. CASE target[t] # m
    BY <1>2, <2>1 DEF Granted
  <2>2. CASE target[t] = m
    <3>1. Inside(t) /\ (GoesOn(t) \/ Refused(t))
      BY <1>4, <2>2, MutexAssumption
    <3>2. CASE /\ k'.error[t] = k.error[t]
               /\ t \in Range(k'.wait[m]) <=> t \in Range(k.wait[m])
      BY <1>2, <3>2 DEF Granted
    <3>3. CASE k.stat[t] = "SUSPEND" /\ k'.error[t] = "TIMEOUT"
      <4>1. t \in Range(k.wait[m])
        BY <1>4, <2>2, <3>1, <3>3
      <4> QED
        BY <3>3, <4>1 DEF Granted
    <3> QED
      BY <3>1, <3>2, <3>3 DEF GoesOn, Refused
  <2> QED
    BY <2>1, <2>2
<1>7. /\ \A m \in Object : FreeAgrees(m)
      /\ \A m \in Object, t \in Thread : Told(t, m) = Count(t, m)
  BY AgreesIs DEF MutexInv
<1>8. \A m \in Object : FreeAgrees(m)'
  <2>1. ASSUME NEW m \in Object
        PROVE  Range(k'.wait[m]) \subseteq Range(k.wait[m])
    BY <1>1, WaitersAreThreads DEF Shrinks
  <2> QED
    BY <1>2, <1>7, <2>1 DEF FreeAgrees
<1>9. \A m \in Object, t \in Thread : Told(t, m)' = Count(t, m)'
  BY <1>2, <1>6, <1>7 DEF Told, Count
<1>10. OwnerAgrees'
  BY <1>1, <1>8, <1>9, AgreesNext
<1> QED
  BY <1>1, <1>3, <1>5, <1>10 DEF MutexInv

(* The return from rt_mutex_take tells the program what the mutex has on   *)
(* record since the ownership was passed to it, or since its timeout.      *)
LEMMA TakeReturnsKeeps ==
    ASSUME MutexInv, NEW t \in Worker, TakeReturns(t)
    PROVE  MutexInv'
<1> DEFINE m == target[t]
<1>1. /\ At(t, "woken") /\ Goto(t, "run") /\ UNCHANGED <<k, irq, mutexVars>>
      /\ target' = [target EXCEPT ![t] = None]
      /\ IF k.error[t] = "OK" THEN Deepen(t, m, 1) ELSE UNCHANGED depth
  BY DEF TakeReturns
<1>2. t \in Thread /\ KernelInv /\ MutexTypes /\ Calls /\ OrigKept
  BY DEF MutexInv, Worker
<1>3. k.cur = t /\ k.stat[t] = "RUNNING"
  BY <1>1, <1>2, AtRuns
<1>4. m \in Object /\ Inside(t)
  BY <1>1, <1>2 DEF At, Inside, Calls, MutexTypes
<1>5. \A x \in Object : t \notin Range(k.wait[x])
  BY <1>2, <1>3 DEF KernelInv, Sound, Linked, WaitersSuspended
<1>6. KernelInv'
  <2>1. Wakes(k, k') /\ "run" \in Location /\ irq' \in {"on", "off", "tick"}
    BY <1>1, <1>2, WakesNone DEF KernelInv, Location
  <2> QED
    BY <1>1, <1>2, <1>3, <2>1, RunningStep
<1>7. /\ target' \in [Thread -> Object \cup {None}] /\ target'[t] = None
      /\ \A u \in Thread \ {t} : target'[u] = target[u] /\ pc'[u] = pc[u]
      /\ pc'[t] = "run"
  BY <1>1, <1>2 DEF MutexTypes, Goto, KernelInv
<1>8. Calls'
  <2>1. \A u \in Thread \ {t} : Inside(u)' <=> Inside(u)
    BY <1>7 DEF Inside
  <2>2. ~Inside(t)'
    BY <1>7 DEF Inside
  <2>3. k' = k
    BY <1>1
  <2> QED
    BY <1>2, <1>5, <1>7, <2>1, <2>2, <2>3 DEF Calls
<1>9. /\ \A x \in Object : FreeAgrees(x)
      /\ \A x \in Object, u \in Thread : Told(u, x) = Count(u, x)
      /\ UNCHANGED <<k, value, owner, hold, orig>>
  BY <1>1, AgreesIs DEF MutexInv, mutexVars
<1>10. /\ \A x \in Object : ~Granted(t, x)'
       /\ Granted(t, m) <=> k.error[t] = "OK"
       /\ \A x \in Object \ {m} : ~Granted(t, x)
       /\ \A u \in Thread \ {t}, x \in Object : Granted(u, x)' <=> Granted(u, x)
  BY <1>4, <1>5, <1>7, <1>9, MutexAssumption DEF Granted
<1>11. /\ depth \in [Thread -> [Object -> Nat]]
       /\ depth' \in [Thread -> [Object -> Nat]]
       /\ depth'[t][m] = depth[t][m] + IF k.error[t] = "OK" THEN 1 ELSE 0
       /\ \A u \in Thread, x \in Object :
             u # t \/ x # m => depth'[u][x] = depth[u][x]
  <2>1. depth \in [Thread -> [Object -> Nat]] /\ depth[t][m] \in Nat
    BY <1>2, <1>4 DEF MutexTypes
  <2> HIDE DEF m
  <2>2. CASE k.error[t] = "OK"
    <3>1. Deepen(t, m, 1) /\ depth[t][m] + 1 \in Nat /\ 1 \in Int
      BY <1>1, <2>1, <2>2
    <3> QED
      BY <1>2, <1>4, <2>1, <2>2, <3>1, DeepenIs
  <2>3. CASE k.error[t] # "OK"
    BY <1>1, <2>1, <2>3
  <2> QED
    BY <2>2, <2>3
<1> HIDE DEF m
<1>12. ASSUME NEW u \in Thread, NEW x \in Object
       PROVE  Told(u, x)' = Count(u, x)'
  <2>1. Told(u, x) = Count(u, x) /\ Count(u, x)' = Count(u, x)
    BY <1>9 DEF Count
  <2>2. depth[u][x] \in Nat
    BY <1>11
  <2>3. CASE u # t \/ x # m
    BY <1>10, <1>11, <2>1, <2>3 DEF Told
  <2>4. CASE u = t /\ x = m
    BY <1>10, <1>11, <2>1, <2>2, <2>4 DEF Told
  <2> QED
    BY <2>3, <2>4
<1>13. OwnerAgrees'
  <2>1. \A x \in Object : FreeAgrees(x)'
    BY <1>9 DEF FreeAgrees
  <2> QED
    BY <1>6, <1>12, <2>1, AgreesNext
<1>14. MutexTypes' /\ OrigKept'
  BY <1>2, <1>7, <1>9, <1>11 DEF MutexTypes, OrigKept
<1> QED
  BY <1>6, <1>8, <1>13, <1>14 DEF MutexInv

(* What a take that blocks does to the kernel state: the caller lends its  *)
(* priority and waits.                                                     *)
LEMMA TakeBlocksEffect ==
    ASSUME MutexInv, NEW t \in Worker, NEW m \in Object, TakeBlocks(t, m)
    PROVE  /\ KernelInv' /\ owner[m] \in Thread
           /\ k'.error[t] = "OK"
           /\ \A u \in Thread \ {t} : k'.error[u] = k.error[u] /\ k'.stat[u] = k.stat[u]
           /\ \A x \in Object : Range(k'.wait[x]) =
                 Range(k.wait[x]) \cup (IF x = m THEN {t} ELSE {})
<1> DEFINE s == Inherit(t, m)
<1>1. PICK time \in WaitTimes \ {0} : k' = Block(s, m, t, MutexFlag, time)
  BY DEF TakeBlocks
<1>2. /\ At(t, "run") /\ k.lock = 0 /\ Goto(t, "wait")
      /\ owner[m] # t /\ value[m] = 0
      /\ UNCHANGED irq
  BY DEF TakeBlocks, MayBlock
<1>3. /\ KernelInv /\ Sound(k) /\ MutexTypes
      /\ t \in Thread /\ t # Idle /\ time \in Int
  BY MutexAssumption DEF MutexInv, KernelInv, Worker
<1>4. k.cur = t /\ k.stat[t] = "RUNNING"
  BY <1>2, <1>3, AtRuns
<1>5. \A x \in Object : FreeAgrees(x)
  BY AgreesIs DEF MutexInv
<1>6. owner[m] \in Thread
  BY <1>2, <1>3, <1>5 DEF FreeAgrees, MutexTypes
<1>7. /\ Wakes(k, s) /\ Calm(k, s)
      /\ s.cur = k.cur /\ s.stat = k.stat /\ s.lock = k.lock
  <2>1. k.prio[t] \in Prio
    BY <1>3 DEF Sound, Linked, KernelState
  <2>2. CASE k.prio[t] < k.prio[owner[m]]
    <3>1. s = ChangePriority(k, owner[m], k.prio[t])
      BY <2>2 DEF Inherit
    <3> QED
      BY <1>3, <1>6, <2>1, <3>1, ChangePriorityEffect
  <2>3. CASE ~(k.prio[t] < k.prio[owner[m]])
    <3>1. s = k
      BY <2>3 DEF Inherit
    <3> QED
      BY <1>3, <3>1, WakesNone DEF Calm
  <2> QED
    BY <2>2, <2>3
<1> HIDE DEF s
<1>8. Sound(s)
  BY <1>7 DEF Wakes
<1>9. /\ Suspends(s, k', t) /\ t \in Range(k'.wait[m])
      /\ k'.error = [s.error EXCEPT ![t] = "OK"]
      /\ \A x \in Object : Range(k'.wait[x]) =
            Range(s.wait[x]) \cup (IF x = m THEN {t} ELSE {})
  <2>1. s.stat[t] = "RUNNING" /\ s.lock = 0
    BY <1>2, <1>4, <1>7
  <2>2. Suspends(s, k', t) /\ t \in Range(k'.wait[m])
    BY <1>1, <1>3, <1>8, <2>1, BlockSuspends
  <2>3. /\ k'.error = [s.error EXCEPT ![t] = "OK"]
        /\ \A x \in Object : Range(k'.wait[x]) =
              Range(s.wait[x]) \cup (IF x = m THEN {t} ELSE {})
    BY <1>1, <1>3, <1>8, <2>1, BlockEffect
  <2> QED
    BY <2>2, <2>3
<1>10. /\ k'.error = [k.error EXCEPT ![t] = "OK"]
       /\ \A x \in Object : Range(k'.wait[x]) =
             Range(k.wait[x]) \cup (IF x = m THEN {t} ELSE {})
       /\ k'.stat = [k.stat EXCEPT ![t] = "SUSPEND"]
  BY <1>7, <1>9 DEF Calm, Suspends
<1>11. \A u \in Thread : u \in Range(s.timers) <=> u \in Range(k.timers)
  BY <1>3, <1>7, <1>8 DEF Wakes, Sound, Timed
<1>12. Suspends(k, k', t)
  BY <1>7, <1>9, <1>10, <1>11 DEF Suspends, Calm
<1>13. KernelInv'
  BY <1>2, <1>3, <1>4, <1>9, <1>12, SuspendingStep
<1>14. k.error \in [Thread -> Error] /\ k.stat \in [Thread -> Stat]
  BY <1>3 DEF Sound, Linked, KernelState
<1>15. /\ k'.error[t] = "OK"
       /\ \A u \in Thread \ {t} : k'.error[u] = k.error[u] /\ k'.stat[u] = k.stat[u]
  BY <1>3, <1>10, <1>14
<1> QED
  BY <1>6, <1>10, <1>13, <1>15

(* The taker that waits is told nothing yet.                               *)
LEMMA TakeBlocksKeeps ==
    ASSUME MutexInv, NEW t \in Worker, NEW m \in Object, TakeBlocks(t, m)
    PROVE  MutexInv'
<1>1. /\ At(t, "run") /\ Goto(t, "wait") /\ owner[m] # t /\ value[m] = 0
      /\ target' = [target EXCEPT ![t] = m]
      /\ UNCHANGED <<value, owner, hold, orig, depth>>
  BY DEF TakeBlocks, mutexVars
<1>2. /\ KernelInv /\ MutexTypes /\ Calls /\ OrigKept
      /\ t \in Thread /\ pc \in [Thread -> Location]
  BY DEF MutexInv, KernelInv, Worker
<1>3. /\ KernelInv' /\ owner[m] \in Thread
      /\ k'.error[t] = "OK"
      /\ \A u \in Thread \ {t} : k'.error[u] = k.error[u] /\ k'.stat[u] = k.stat[u]
      /\ \A x \in Object : Range(k'.wait[x]) =
            Range(k.wait[x]) \cup (IF x = m THEN {t} ELSE {})
  BY TakeBlocksEffect
<1>4. /\ \A x \in Object : FreeAgrees(x)
      /\ \A x \in Object, u \in Thread : Told(u, x) = Count(u, x)
  BY AgreesIs DEF MutexInv
<1>5. t \in Range(k'.wait[m])
  BY <1>3
<1>6. \A u \in Thread \ {t}, x \in Object :
         u \in Range(k'.wait[x]) <=> u \in Range(k.wait[x])
  BY <1>3
<1>7. \A x \in Object \ {m} : Range(k'.wait[x]) \subseteq Range(k.wait[x])
  BY <1>3
<1>8. /\ target' \in [Thread -> Object \cup {None}] /\ target'[t] = m
      /\ \A u \in Thread \ {t} : target'[u] = target[u] /\ pc'[u] = pc[u]
      /\ pc'[t] = "wait"
  BY <1>1, <1>2 DEF MutexTypes, Goto
<1>9. /\ \A x \in Object : t \notin Range(k.wait[x]) /\ ~Granted(t, x)
      /\ ~Inside(t)
  BY <1>1, <1>2, OutsideIs DEF At, Inside
<1>10. Calls'
  <2>1. ASSUME NEW u \in Thread \ {t}
        PROVE  /\ Inside(u)' <=> target'[u] # None
               /\ \A x \in Object :
                     u \in Range(k'.wait[x]) => target'[u] = x /\ k'.error[u] = "OK"
               /\ Inside(u)' /\ k'.stat[u] = "SUSPEND" =>
                     u \in Range(k'.wait[target'[u]])
    <3>1. /\ Inside(u) <=> target[u] # None
          /\ \A x \in Object :
                u \in Range(k.wait[x]) => target[u] = x /\ k.error[u] = "OK"
          /\ Inside(u) /\ k.stat[u] = "SUSPEND" => u \in Range(k.wait[target[u]])
          /\ target[u] \in Object \cup {None}
      BY <1>2 DEF Calls, MutexTypes
    <3>2. /\ Inside(u)' <=> Inside(u)
          /\ target'[u] = target[u]
          /\ k'.error[u] = k.error[u] /\ k'.stat[u] = k.stat[u]
      BY <1>3, <1>8 DEF Inside
    <3> QED
      BY <1>6, <3>1, <3>2
  <2>2. /\ Inside(t)' /\ target'[t] # None
        /\ \A x \in Object : t \in Range(k'.wait[x]) => x = m
    <3>1. Inside(t)' /\ target'[t] # None
      BY <1>8, MutexAssumption DEF Inside
    <3>2. \A x \in Object : t \in Range(k'.wait[x]) => x = m
      BY <1>3, <1>9
    <3> QED
      BY <3>1, <3>2
  <2>3. \A x \in Object :
           t \in Range(k'.wait[x]) => target'[t] = x /\ k'.error[t] = "OK"
    BY <1>3, <1>8, <2>2
  <2>4. t \in Range(k'.wait[target'[t]])
    BY <1>5, <1>8
  <2> QED
    BY <2>1, <2>2, <2>3, <2>4 DEF Calls
<1>11. \A u \in Thread, x \in Object : Granted(u, x)' <=> Granted(u, x)
  <2>1. \A x \in Object : ~Granted(t, x)'
    BY <1>5, <1>8 DEF Granted
  <2>2. \A u \in Thread \ {t}, x \in Object : Granted(u, x)' <=> Granted(u, x)
    BY <1>3, <1>6, <1>8 DEF Granted
  <2> QED
    BY <1>9, <2>1, <2>2
<1>12. MutexTypes' /\ OrigKept'
  BY <1>1, <1>2, <1>8 DEF MutexTypes, OrigKept
<1>13. OwnerAgrees'
  <2>1. FreeAgrees(m)'
    BY <1>1, <1>3, <1>4, MutexAssumption DEF FreeAgrees
  <2>2. \A u \in Thread : Told(u, m)' = Count(u, m)'
    BY <1>1, <1>4, <1>11 DEF Told, Count
  <2> QED
    BY <1>1, <1>2, <1>3, <1>7, <1>11, <2>1, <2>2, StepOnOne
<1> QED
  BY <1>3, <1>10, <1>12, <1>13 DEF MutexInv

(* rt_ipc_get_highest_priority of a list that is not empty.                *)
LEMMA HighestWaitingType ==
    ASSUME NEW s, Sound(s), NEW m \in Object, NEW u \in Range(s.wait[m])
    PROVE  /\ HighestWaiting(s, m) \in Prio
           /\ \A v \in Range(s.wait[m]) : HighestWaiting(s, m) <= s.prio[v]
<1> DEFINE T == {s.prio[v] : v \in Range(s.wait[m])}
<1>1. s.wait[m] \in Seq(Thread) /\ s.prio \in [Thread -> Prio]
  BY DEF Sound, Linked, KernelState
<1>2. Range(s.wait[m]) \subseteq Thread
  BY <1>1, RangeOfSeq DEF Range
<1>3. T \in SUBSET Nat /\ T \subseteq Prio /\ T # {}
  BY <1>1, <1>2, KernelAssumption DEF Prio
<1>4. \E p \in T : \A r \in T : p <= r
  BY <1>3, LeastExists
<1>5. \E p \in T : \A v \in Range(s.wait[m]) : p <= s.prio[v]
  BY <1>4
<1>6. /\ HighestWaiting(s, m) \in T
      /\ \A v \in Range(s.wait[m]) : HighestWaiting(s, m) <= s.prio[v]
  BY <1>5 DEF HighestWaiting
<1> QED
  BY <1>3, <1>6

(* What the last release does to the kernel state when a thread waits:     *)
(* lowers the caller, raises the first waiter and resumes it.              *)
LEMMA HandOverEffect ==
    ASSUME MutexInv, NEW t \in Worker, NEW m \in Object, ReleaseHandOver(t, m)
    PROVE  LET u == Head(k.wait[m])
           IN  /\ u \in Range(k.wait[m]) /\ u \in Thread /\ u # t
               /\ Wakes(k, k') /\ k'.stat[u] # "SUSPEND" /\ k'.error = k.error
               /\ \A x \in Object : Range(k'.wait[x]) = Range(k.wait[x]) \ {u}
               /\ owner' = [owner EXCEPT ![m] = u]
               /\ \E p \in Prio : orig' = [orig EXCEPT ![m] = p]
<1> DEFINE u == Head(k.wait[m])
           s == Restore(t, m)
           q == Promote(s, u, m)
<1>1. /\ At(t, "run") /\ owner[m] = t /\ k.wait[m] # <<>>
      /\ owner' = [owner EXCEPT ![m] = u]
      /\ orig' = [orig EXCEPT ![m] = s.prio[u]]
      /\ k' = IpcListResume(q, m)
  BY DEF ReleaseHandOver
<1>2. /\ KernelInv /\ Sound(k) /\ t \in Thread
      /\ k.wait[m] \in Seq(Thread) /\ k.prio \in [Thread -> Prio]
  BY DEF MutexInv, KernelInv, Worker, Sound, Linked, KernelState
<1>3. k.stat[t] = "RUNNING"
  BY <1>1, <1>2, AtRuns
<1>4. u \in Range(k.wait[m]) /\ u \in Thread
  BY <1>1, <1>2, HeadIn
<1>5. k.stat[u] = "SUSPEND" /\ u # t
  BY <1>2, <1>3, <1>4 DEF Sound, Linked, WaitersSuspended
<1>6. /\ Wakes(k, s) /\ Calm(k, s) /\ s.stat = k.stat /\ s.wait = k.wait
  <2>1. orig[m] \in Prio
    BY <1>1, <1>2, MutexAssumption DEF MutexInv, OrigKept
  <2>2. CASE orig[m] # k.prio[t]
    <3>1. s = ChangePriority(k, t, orig[m])
      BY <2>2 DEF Restore
    <3> QED
      BY <1>2, <1>3, <2>1, <3>1, ChangePriorityEffect
  <2>3. CASE orig[m] = k.prio[t]
    <3>1. s = k
      BY <2>3 DEF Restore
    <3> QED
      BY <1>2, <3>1, WakesNone DEF Calm
  <2> QED
    BY <2>2, <2>3
<1> HIDE DEF s
<1>7. Sound(s) /\ s.prio \in [Thread -> Prio]
  BY <1>6 DEF Wakes, Sound, Linked, KernelState
<1>8. HighestWaiting(s, m) \in Prio
  BY <1>4, <1>6, <1>7, HighestWaitingType
<1>9. /\ Wakes(s, q) /\ Calm(s, q) /\ q.stat = s.stat /\ q.wait = s.wait
  <2>1. CASE MutexFlag = "FIFO" /\ s.prio[u] # HighestWaiting(s, m)
    <3>1. q = ChangePriority(s, u, HighestWaiting(s, m))
      BY <2>1 DEF Promote
    <3>2. s.stat[u] # "READY"
      BY <1>5, <1>6
    <3> QED
      BY <1>4, <1>7, <1>8, <3>1, <3>2, ChangePriorityEffect
  <2>2. CASE ~(MutexFlag = "FIFO" /\ s.prio[u] # HighestWaiting(s, m))
    <3>1. q = s
      BY <2>2 DEF Promote
    <3> QED
      BY <1>7, <3>1, WakesNone DEF Calm
  <2> QED
    BY <2>1, <2>2
<1> HIDE DEF q
<1>10. k' = ThreadResume(q, u)
  BY <1>1, <1>6, <1>9 DEF IpcListResume
<1>11. Sound(q) /\ Linked(q) /\ Distinct(q.timers) /\ q.stat[u] = "SUSPEND"
  BY <1>5, <1>6, <1>9 DEF Wakes, Sound, Timed
<1>12. /\ Wakes(q, k') /\ k'.stat[u] # "SUSPEND"
       /\ k'.error = q.error
       /\ \A x \in Object : Range(k'.wait[x]) = Range(q.wait[x]) \ {u}
  BY <1>4, <1>10, <1>11, ResumeWakes, ResumeEffect
<1>13. Wakes(k, k')
  <2>1. Wakes(s, k')
    BY <1>9, <1>12, WakesTransitive
  <2> QED
    BY <1>6, <2>1, WakesTransitive
<1>14. /\ k'.error = k.error
       /\ \A x \in Object : Range(k'.wait[x]) = Range(k.wait[x]) \ {u}
  BY <1>6, <1>9, <1>12 DEF Calm
<1>15. s.prio[u] \in Prio
  BY <1>4, <1>7
<1> QED
  BY <1>1, <1>4, <1>5, <1>12, <1>13, <1>14, <1>15

(* The ownership passes to the first waiter at once, whatever it does and  *)
(* whatever its timeout when it runs.                                      *)
LEMMA HandOverKeeps ==
    ASSUME MutexInv, NEW t \in Worker, NEW m \in Object, ReleaseHandOver(t, m)
    PROVE  MutexInv'
<1>1. /\ At(t, "run") /\ Goto(t, "sched") /\ owner[m] = t /\ hold[m] = 1
      /\ Deepen(t, m, -1) /\ UNCHANGED <<irq, value, hold, target>>
  BY DEF ReleaseHandOver
<1>2. PICK u \in Thread :
         /\ u \in Range(k.wait[m]) /\ u # t
         /\ Wakes(k, k') /\ k'.stat[u] # "SUSPEND" /\ k'.error = k.error
         /\ \A x \in Object : Range(k'.wait[x]) = Range(k.wait[x]) \ {u}
         /\ owner' = [owner EXCEPT ![m] = u]
         /\ \E p \in Prio : orig' = [orig EXCEPT ![m] = p]
  BY HandOverEffect
<1>3. /\ KernelInv /\ MutexTypes /\ Calls /\ OrigKept /\ t \in Thread
      /\ irq \in {"on", "off", "tick"} /\ pc \in [Thread -> Location]
  BY DEF MutexInv, KernelInv, Worker
<1>4. k.cur = t /\ k.stat[t] = "RUNNING"
  BY <1>1, <1>3, AtRuns
<1>5. KernelInv'
  <2>1. "sched" \in Location /\ irq' \in {"on", "off", "tick"}
    BY <1>1, <1>3 DEF Location
  <2> QED
    BY <1>1, <1>2, <1>3, <1>4, <2>1, RunningStep
<1>6. /\ ~Inside(t) /\ ~Inside(t)'
      /\ \A v \in Thread \ {t} : Inside(v)' <=> Inside(v)
  BY <1>1, <1>3 DEF At, Inside, Goto
<1>7. \A x \in Object : t \notin Range(k.wait[x]) /\ ~Granted(t, x)
  BY <1>3, <1>6, OutsideIs
<1>8. \A v \in Thread : k'.stat[v] = "SUSPEND" => k.stat[v] = "SUSPEND" /\ v # u
  BY <1>2 DEF Wakes
<1>9. Calls'
  <2>1. ASSUME NEW v \in Thread
        PROVE  /\ Inside(v)' <=> target[v] # None
               /\ \A x \in Object :
                     v \in Range(k'.wait[x]) => target[v] = x /\ k.error[v] = "OK"
               /\ Inside(v)' /\ k'.stat[v] = "SUSPEND" =>
                     v \in Range(k'.wait[target[v]])
    <3>1. /\ Inside(v) <=> target[v] # None
          /\ \A x \in Object :
                v \in Range(k.wait[x]) => target[v] = x /\ k.error[v] = "OK"
          /\ Inside(v) /\ k.stat[v] = "SUSPEND" => v \in Range(k.wait[target[v]])
          /\ target[v] \in Object \cup {None}
      BY <1>3 DEF Calls, MutexTypes
    <3>2. Inside(v)' <=> Inside(v)
      BY <1>6
    <3> QED
      BY <1>2, <1>8, <3>1, <3>2
  <2> QED
    BY <1>1, <1>2, <2>1 DEF Calls
<1>10. target[u] = m /\ k.error[u] = "OK"
  BY <1>2, <1>3 DEF Calls
<1>11. /\ Granted(u, m)' /\ ~Granted(u, m)
       /\ \A v \in Thread, x \in Object :
             v # u \/ x # m => (Granted(v, x)' <=> Granted(v, x))
  <2>1. Granted(u, m)' /\ ~Granted(u, m)
    BY <1>1, <1>2, <1>10 DEF Granted
  <2>2. \A v \in Thread \ {u}, x \in Object : Granted(v, x)' <=> Granted(v, x)
    BY <1>1, <1>2 DEF Granted
  <2>3. \A x \in Object \ {m} : ~Granted(u, x)' /\ ~Granted(u, x)
    BY <1>1, <1>10 DEF Granted
  <2> QED
    BY <2>1, <2>2, <2>3
<1>12. /\ \A x \in Object : FreeAgrees(x)
       /\ \A x \in Object, v \in Thread : Told(v, x) = Count(v, x)
  BY AgreesIs DEF MutexInv
<1>13. \A v \in Thread, x \in Object : depth[v][x] \in Nat
  BY <1>3 DEF MutexTypes
<1>14. depth[t][m] = 1 /\ \A v \in Thread \ {t} : depth[v][m] = 0 /\ ~Granted(v, m)
  <2>1. Told(t, m) = 1 /\ \A v \in Thread \ {t} : Told(v, m) = 0
    BY <1>1, <1>3, <1>12 DEF Count
  <2> QED
    BY <1>3, <1>7, <1>13, <2>1 DEF Told
<1>15. /\ depth' \in [Thread -> [Object -> Nat]]
       /\ depth'[t][m] = 0
       /\ \A v \in Thread, x \in Object :
             v # t \/ x # m => depth'[v][x] = depth[v][x]
  <2>1. depth[t][m] + (-1) \in Nat /\ -1 \in Int
    BY <1>14
  <2>2. depth \in [Thread -> [Object -> Nat]]
    BY <1>3 DEF MutexTypes
  <2>3. /\ depth' \in [Thread -> [Object -> Nat]]
        /\ depth'[t][m] = depth[t][m] + (-1)
        /\ \A v \in Thread, x \in Object :
              v # t \/ x # m => depth'[v][x] = depth[v][x]
    BY <1>1, <1>3, <2>1, <2>2, DeepenIs
  <2> QED
    BY <1>14, <2>3
<1>16. PICK p \in Prio : orig' = [orig EXCEPT ![m] = p]
  BY <1>2
<1>17. /\ owner' \in [Object -> Thread \cup {None}] /\ owner'[m] = u
       /\ orig' \in [Object -> Prio \cup {None}] /\ orig'[m] = p
       /\ \A x \in Object \ {m} : owner'[x] = owner[x] /\ orig'[x] = orig[x]
  BY <1>2, <1>3, <1>16 DEF MutexTypes
<1>18. MutexTypes' /\ OrigKept'
  BY <1>1, <1>3, <1>15, <1>17 DEF MutexTypes, OrigKept
<1>19. \A v \in Thread : Told(v, m)' = Count(v, m)'
  <2>1. hold'[m] = 1 /\ owner'[m] = u
    BY <1>1, <1>17
  <2>2. Told(u, m)' = 1
    BY <1>2, <1>11, <1>14, <1>15 DEF Told
  <2>3. Told(t, m)' = 0
    BY <1>2, <1>3, <1>7, <1>11, <1>15 DEF Told
  <2>4. \A v \in Thread \ {t, u} : Told(v, m)' = 0
    BY <1>11, <1>14, <1>15 DEF Told
  <2> QED
    BY <2>1, <2>2, <2>3, <2>4 DEF Count
<1>20. FreeAgrees(m)'
  <2>1. value[m] # 1
    BY <1>1, <1>3, <1>12, MutexAssumption DEF FreeAgrees
  <2> QED
    BY <1>1, <1>2, <1>17, <2>1, MutexAssumption DEF FreeAgrees
<1>21. OwnerAgrees'
  <2>1. \A x \in Object \ {m} : Range(k'.wait[x]) \subseteq Range(k.wait[x])
    BY <1>2
  <2>2. ASSUME NEW v \in Thread, NEW x \in Object \ {m}
        PROVE  /\ Granted(v, x)' <=> Granted(v, x)
               /\ depth'[v][x] = depth[v][x]
               /\ owner'[x] = owner[x] /\ hold'[x] = hold[x] /\ value'[x] = value[x]
    BY <1>1, <1>11, <1>15, <1>17
  <2> QED
    BY <1>3, <1>5, <1>19, <1>20, <2>1, <2>2, StepOnOne
<1> QED
  BY <1>5, <1>9, <1>18, <1>21 DEF MutexInv

LEMMA NextKeeps == MutexInv /\ [Next]_vars => MutexInv'
<1> SUFFICES ASSUME MutexInv, [Next]_vars
             PROVE  MutexInv'
  OBVIOUS
<1>1. CASE UNCHANGED vars
  BY <1>1 DEF vars, kernelVars, mutexVars, MutexInv, KernelInv, PcAgrees,
              NoneStranded, MutexTypes, Calls, Inside, OrigKept, OwnerAgrees, Granted
<1>2. CASE KernelStep
  BY <1>2, KernelStepKeeps
<1>3. CASE \E t \in Worker : TakeReturns(t)
  BY <1>3, TakeReturnsKeeps
<1>4. ASSUME NEW t \in Worker, NEW m \in Object, MutexStep(t, m)
      PROVE  MutexInv'
  <2>1. CASE Quiet(t, m)
    BY <2>1, QuietKeeps
  <2>2. CASE TakeBlocks(t, m)
    BY <2>2, TakeBlocksKeeps
  <2>3. CASE ReleaseHandOver(t, m)
    BY <2>3, HandOverKeeps
  <2> QED
    BY <1>4, <2>1, <2>2, <2>3 DEF MutexStep, Quiet
<1> QED
  BY <1>1, <1>2, <1>3, <1>4 DEF Next

-----------------------------------------------------------------------------
(* The invariant of the kernel state, of the calls in progress and of what *)
(* the mutexes record, in every reachable state (ipc.c, rt_mutex_take and  *)
(* rt_mutex_release).                                                      *)
THEOREM InductiveInvariant == Spec => []MutexInv
<1>1. Init => MutexInv
  BY InitInv
<1>2. MutexInv /\ [Next]_vars => MutexInv'
  BY NextKeeps
<1> QED
  BY <1>1, <1>2, PTL DEF Spec

(* Every variable keeps its type: mutex->value is 0 or 1, mutex->hold and  *)
(* the takes a program has not undone never pass RT_MUTEX_HOLD_MAX.        *)
THEOREM TypeCorrect == Spec => []TypeOK
<1>1. ASSUME MutexInv
      PROVE  TypeOK
  <2>1. KernelTypeOK /\ MutexTypes
    BY <1>1, KernelInvGives DEF MutexInv
  <2>2. \A t \in Thread, m \in Object : Told(t, m) = Count(t, m)
    BY <1>1, AgreesIs DEF MutexInv
  <2>3. ASSUME NEW t \in Thread, NEW m \in Object
        PROVE  depth[t][m] \in 0 .. HoldMax
    <3>1. depth[t][m] \in Nat /\ hold[m] \in 0 .. HoldMax
      BY <2>1 DEF MutexTypes
    <3>2. Told(t, m) <= HoldMax
      BY <2>2, <3>1, MutexAssumption DEF Count
    <3> QED
      BY <3>1, <3>2, MutexAssumption DEF Told
  <2>4. depth \in [Thread -> [Object -> 0 .. HoldMax]]
    <3>1. depth \in [Thread -> [Object -> Nat]]
      BY <2>1 DEF MutexTypes
    <3> QED
      BY <2>3, <3>1
  <2> QED
    BY <2>1, <2>4 DEF MutexTypes, TypeOK
<1> QED
  BY <1>1, InductiveInvariant, PTL

(* The ready lists, their bitmap, the states and the priorities of the     *)
(* threads agree although rt_mutex_take and rt_mutex_release change the    *)
(* priority of threads in every state and in every list.                   *)
THEOREM SchedulerStaysConsistent == Spec => []SchedulerConsistent
<1>1. MutexInv => SchedulerConsistent
  BY KernelInvGives DEF MutexInv
<1> QED
  BY <1>1, InductiveInvariant, PTL

(* A caller of rt_mutex_take that is suspended is in the suspend list or   *)
(* has its timer armed, and an armed timer belongs to a suspended thread.  *)
THEOREM NobodyStranded == Spec => []NoneStranded
<1>1. MutexInv => NoneStranded
  BY DEF MutexInv, KernelInv
<1> QED
  BY <1>1, InductiveInvariant, PTL

(* A thread holds a mutex exactly as often as its takes have returned      *)
(* RT_EOK, or it has been made the owner and has not returned yet: the     *)
(* hand-over of rt_mutex_release excludes every other thread, also across  *)
(* timeouts, re-entry and preemption.                                      *)
THEOREM OwnershipAgrees == Spec => []OwnerAgrees
<1>1. MutexInv => OwnerAgrees
  BY DEF MutexInv
<1> QED
  BY <1>1, InductiveInvariant, PTL

-----------------------------------------------------------------------------
(* The timers of the threads that wait for a mutex.                        *)

SameTimers(b, s) == s.tick = b.tick /\ s.due = b.due /\ s.timers = b.timers

LEMMA ChangePriorityTimers ==
    ASSUME NEW b, Sound(b), NEW t \in Thread, NEW p \in Prio
    PROVE  SameTimers(b, ChangePriority(b, t, p))
<1>1. b \in KernelState /\ Linked(b)
  BY DEF Sound, Linked
<1>2. CASE b.stat[t] # "READY"
  BY <1>1, <1>2 DEF ChangePriority, KernelState, SameTimers
<1>3. CASE b.stat[t] = "READY"
  <2>1. PICK r : r = RemoveThread(b, t)
    OBVIOUS
  <2>2. Steady(b, r) /\ r \in KernelState
    BY <1>1, <2>1, RemoveSteady, RemoveDetaches DEF Detached
  <2>3. PICK d : d = [r EXCEPT !.prio[t] = p, !.mask[t] = p]
    OBVIOUS
  <2>4. d \in KernelState /\ SameTimers(r, d)
    BY <2>2, <2>3 DEF KernelState, SameTimers
  <2>5. ChangePriority(b, t, p) = InsertThread(d, t)
    BY <1>3, <2>1, <2>3 DEF ChangePriority
  <2>6. Steady(d, InsertThread(d, t))
    BY <2>4, InsertSteady
  <2> QED
    BY <2>2, <2>4, <2>5, <2>6 DEF Steady, SameTimers
<1> QED
  BY <1>2, <1>3

LEMMA SameTimersInOrder ==
    ASSUME KernelInv, TimersInOrder, SameTimers(k, k'), irq' = irq
    PROVE  TimersInOrder' /\ InTime
<1>1. k'.timers = k.timers /\ k'.due = k.due /\ k'.tick = k.tick
  BY DEF SameTimers
<1> QED
  BY <1>1, NobodyLeaves DEF TimersInOrder

LEMMA QuietTimely ==
    ASSUME MutexInv, TimersInOrder, NEW t \in Worker, NEW m \in Object, Quiet(t, m)
    PROVE  TimersInOrder' /\ InTime
<1>1. KernelInv /\ Sound(k) /\ k \in KernelState /\ t \in Thread
  BY DEF MutexInv, KernelInv, Sound, Linked, Worker
<1>2. ASSUME NEW e, SetError(t, e)
      PROVE  SameTimers(k, k')
  BY <1>1, <1>2 DEF SetError, KernelState, SameTimers
<1>3. CASE TakeAgain(t, m) \/ TakeFree(t, m) \/ TakeRefused(t, m) \/ ReleaseRefused(t, m)
  <2>1. (\E e : SetError(t, e)) /\ irq' = irq
    BY <1>3 DEF TakeAgain, TakeFree, TakeRefused, ReleaseRefused
  <2> QED
    BY <1>1, <1>2, <2>1, SameTimersInOrder
<1>4. CASE ReleaseInner(t, m)
  <2>1. SameTimers(k, k') /\ irq' = irq
    BY <1>4 DEF ReleaseInner, SameTimers
  <2> QED
    BY <1>1, <2>1, SameTimersInOrder
<1>5. CASE ReleaseFree(t, m)
  <2>1. k' = Restore(t, m) /\ owner[m] = t /\ irq' = irq
    BY <1>5 DEF ReleaseFree
  <2>2. orig[m] \in Prio
    BY <1>1, <2>1, MutexAssumption DEF MutexInv, OrigKept
  <2>3. SameTimers(k, k')
    BY <1>1, <2>1, <2>2, ChangePriorityTimers DEF Restore, SameTimers
  <2> QED
    BY <1>1, <2>1, <2>3, SameTimersInOrder
<1> QED
  BY <1>3, <1>4, <1>5 DEF Quiet

(* The taker sets its timer, or waits for ever.                            *)
LEMMA TakeBlocksTimely ==
    ASSUME MutexInv, TimersInOrder, NEW t \in Worker, NEW m \in Object, TakeBlocks(t, m)
    PROVE  TimersInOrder' /\ InTime
<1>0. PICK s : s = Inherit(t, m)
  OBVIOUS
<1>1. PICK time \in WaitTimes \ {0} : k' = Block(s, m, t, MutexFlag, time)
  BY <1>0 DEF TakeBlocks
<1>2. /\ At(t, "run") /\ k.lock = 0 /\ irq = "on" /\ irq' = "on"
      /\ owner[m] # t /\ value[m] = 0
  BY DEF TakeBlocks, MayBlock, At
<1>3. /\ KernelInv /\ Sound(k) /\ MutexTypes /\ k \in KernelState
      /\ t \in Thread /\ t # Idle /\ time \in Int /\ time < HalfTick
  BY MutexAssumption DEF MutexInv, KernelInv, Worker, Sound, Linked
<1>4. k.cur = t /\ k.stat[t] = "RUNNING"
  BY <1>2, <1>3, AtRuns
<1>5. \A x \in Object : FreeAgrees(x)
  BY AgreesIs DEF MutexInv
<1>6. owner[m] \in Thread /\ k.prio[t] \in Prio
  BY <1>2, <1>3, <1>5 DEF FreeAgrees, MutexTypes, KernelState
<1>7. SameTimers(k, s) /\ Sound(s) /\ s.stat = k.stat /\ s.lock = k.lock
  <2>1. CASE k.prio[t] < k.prio[owner[m]]
    <3>1. s = ChangePriority(k, owner[m], k.prio[t])
      BY <1>0, <2>1 DEF Inherit
    <3> QED
      BY <1>3, <1>6, <3>1, ChangePriorityEffect, ChangePriorityTimers DEF Wakes
  <2>2. CASE ~(k.prio[t] < k.prio[owner[m]])
    BY <1>0, <1>3, <2>2 DEF Inherit, SameTimers
  <2> QED
    BY <2>1, <2>2
<1>8. PICK r : r = Block(s, m, t, MutexFlag, time)
  OBVIOUS
<1>9. IF time > 0 THEN Arms(s, r, t, time) ELSE Fewer(s, r) /\ r.timers = s.timers
  BY <1>2, <1>3, <1>4, <1>7, <1>8, BlockArms
<1>10. CASE time > 0
  <2>1. Arms(k, r, t, time)
    BY <1>7, <1>9, <1>10 DEF Arms, SameTimers, Later
  <2>2. Arms(k, k', t, time)
    BY <1>1, <1>8, <2>1
  <2>3. time \in Nat
    BY <1>3, <1>10
  <2>4. TimersInOrder' /\ Range(k.timers) \subseteq Range(k'.timers)
    BY <1>2, <1>3, <2>2, <2>3, ArmsKept
  <2> QED
    BY <2>4, NobodyLeaves
<1>11. CASE ~(time > 0)
  <2>1. Fewer(k, r)
    BY <1>7, <1>9, <1>11 DEF Fewer, SameTimers
  <2>2. Fewer(k, k')
    BY <1>1, <1>8, <2>1
  <2>3. TimersInOrder'
    BY <1>2, <1>3, <2>2, FewerKept
  <2>4. k'.error[t] = "OK" /\ \A u \in Thread \ {t} : k'.error[u] = k.error[u]
    BY TakeBlocksEffect
  <2>5. r.timers = k.timers
    BY <1>7, <1>9, <1>11 DEF SameTimers
  <2>6. Range(k.timers) \subseteq Range(k'.timers)
    BY <1>1, <1>8, <2>5
  <2> QED
    BY <2>3, <2>6, NobodyLeaves
<1> QED
  BY <1>10, <1>11

(* The new owner is woken with RT_EOK, and its timer with it.              *)
LEMMA HandOverTimely ==
    ASSUME MutexInv, TimersInOrder, NEW t \in Worker, NEW m \in Object, ReleaseHandOver(t, m)
    PROVE  TimersInOrder' /\ InTime
<1>1. PICK u, s, q : /\ u = Head(k.wait[m]) /\ s = Restore(t, m) /\ q = Promote(s, u, m)
                     /\ k' = IpcListResume(q, m)
  BY DEF ReleaseHandOver
<1>2. irq = "on" /\ irq' = "on" /\ owner[m] = t /\ At(t, "run")
  BY DEF ReleaseHandOver, At
<1>3. KernelInv /\ Sound(k) /\ k \in KernelState /\ t \in Thread
  BY DEF MutexInv, KernelInv, Sound, Linked, Worker
<1>4. /\ u \in Range(k.wait[m]) /\ u \in Thread /\ u # t /\ k'.error = k.error
  BY <1>1, HandOverEffect
<1>5. k.error[u] = "OK" /\ k.stat[u] = "SUSPEND"
  BY <1>3, <1>4 DEF MutexInv, Calls, Sound, Linked, WaitersSuspended
<1>6. k.stat[t] = "RUNNING"
  BY <1>2, <1>3, AtRuns
<1>7. SameTimers(k, s) /\ Sound(s) /\ s.stat = k.stat /\ s.wait = k.wait
  <2>1. orig[m] \in Prio
    BY <1>2, <1>3, MutexAssumption DEF MutexInv, OrigKept
  <2>2. CASE orig[m] # k.prio[t]
    <3>1. s = ChangePriority(k, t, orig[m])
      BY <1>1, <2>2 DEF Restore
    <3> QED
      BY <1>3, <1>6, <2>1, <3>1, ChangePriorityEffect, ChangePriorityTimers DEF Wakes
  <2>3. CASE orig[m] = k.prio[t]
    BY <1>1, <1>3, <2>3 DEF Restore, SameTimers
  <2> QED
    BY <2>2, <2>3
<1>8. SameTimers(s, q) /\ Sound(q) /\ q.stat = s.stat /\ q.wait = s.wait
  <2>1. CASE MutexFlag = "FIFO" /\ s.prio[u] # HighestWaiting(s, m)
    <3>1. q = ChangePriority(s, u, HighestWaiting(s, m))
      BY <1>1, <2>1 DEF Promote
    <3>2. HighestWaiting(s, m) \in Prio
      BY <1>4, <1>7, HighestWaitingType
    <3>3. s.stat[u] # "READY"
      BY <1>5, <1>7
    <3> QED
      BY <1>4, <1>7, <3>1, <3>2, <3>3, ChangePriorityEffect, ChangePriorityTimers DEF Wakes
  <2>2. CASE ~(MutexFlag = "FIFO" /\ s.prio[u] # HighestWaiting(s, m))
    BY <1>1, <1>7, <2>2 DEF Promote, SameTimers
  <2> QED
    BY <2>1, <2>2
<1>9. PICK r : r = ThreadResume(q, u)
  OBVIOUS
<1>10. k' = r
  BY <1>1, <1>7, <1>8, <1>9 DEF IpcListResume
<1>11. /\ q \in KernelState /\ q.stat[u] = "SUSPEND" /\ Distinct(q.timers)
       /\ \A p \in Prio : Distinct(q.ready[p])
       /\ \A o \in Object : Distinct(q.wait[o])
  BY <1>5, <1>7, <1>8 DEF Sound, Linked, ReadyAgrees, WaitersSuspended, Timed
<1>12. Stops(q, r, u)
  BY <1>4, <1>9, <1>11, ResumeStops
<1>13. Fewer(q, r)
  BY <1>4, <1>11, <1>12, StopsFewer
<1>14. Fewer(k, k')
  BY <1>7, <1>8, <1>10, <1>13 DEF Fewer, SameTimers
<1>15. TimersInOrder'
  BY <1>2, <1>3, <1>14, FewerKept
<1>16. Range(k'.timers) = Range(k.timers) \ {u}
  <2>1. q.timers \in Seq(Thread) /\ q.timers = k.timers
    BY <1>7, <1>8, <1>11 DEF KernelState, SameTimers
  <2>2. Range(r.timers) = Range(q.timers) \ {u}
    BY <1>11, <1>12, <2>1, WithoutProperties DEF Stops
  <2> QED
    BY <1>10, <2>1, <2>2
<1>17. InTime
  BY <1>4, <1>5, <1>16 DEF InTime
<1> QED
  BY <1>15, <1>17

LEMMA NextTimely ==
    ASSUME MutexInv, TimersInOrder, [Next]_vars
    PROVE  TimersInOrder' /\ InTime
<1>1. KernelInv
  BY DEF MutexInv
<1>2. ASSUME k' = k, irq' = irq
      PROVE  TimersInOrder' /\ InTime
  <2>1. SameTimers(k, k')
    BY <1>2 DEF SameTimers
  <2> QED
    BY <1>1, <1>2, <2>1, SameTimersInOrder
<1>3. CASE UNCHANGED vars
  BY <1>2, <1>3 DEF vars, kernelVars
<1>4. CASE KernelStep
  BY <1>1, <1>4, KernelNextTimely DEF KernelStep
<1>5. CASE \E t \in Worker : TakeReturns(t)
  BY <1>2, <1>5 DEF TakeReturns
<1>6. ASSUME NEW t \in Worker, NEW m \in Object, MutexStep(t, m)
      PROVE  TimersInOrder' /\ InTime
  BY <1>6, QuietTimely, TakeBlocksTimely, HandOverTimely DEF MutexStep, Quiet
<1> QED
  BY <1>3, <1>4, <1>5, <1>6 DEF Next

(* Outside the tick interrupt the timer list is in the order of the ticks  *)
(* left and holds no timer that is overdue (rt_timer_start and             *)
(* rt_timer_check), for every length of a wait that rt_timer_start admits  *)
(* and across the wrap of rt_tick.                                         *)
THEOREM TimersStayAhead == Spec => []TimersAhead
<1>1. Init => TimersInOrder
  BY TimersInOrderInit DEF Init
<1>2. MutexInv /\ TimersInOrder /\ [Next]_vars => TimersInOrder'
  BY NextTimely
<1>3. TimersInOrder => TimersAhead
  BY TimersInOrderGives
<1> QED
  BY <1>1, <1>2, <1>3, InductiveInvariant, PTL DEF Spec

(* No wait or sleep ends with -RT_ETIMEOUT while its timer has ticks left  *)
(* (rt_timer_check): a thread whose timer leaves the list otherwise has    *)
(* been given its mutex.                                                   *)
THEOREM TimeoutsComeInTime == Spec => NoEarlyTimeout
<1>1. Init => TimersInOrder
  BY TimersInOrderInit DEF Init
<1>2. MutexInv /\ TimersInOrder /\ [Next]_vars => TimersInOrder'
  BY NextTimely
<1>3. ASSUME MutexInv, TimersInOrder, [Next]_vars
      PROVE  [\A t \in Range(k.timers) :
                 k'.error[t] = "TIMEOUT" /\ t \notin Range(k'.timers) =>
                     Minus(k.tick, k.due[t]) <= 1]_kernelVars
  BY <1>3, NextTimely DEF InTime
<1> QED
  BY <1>1, <1>2, <1>3, InductiveInvariant, PTL DEF Spec, NoEarlyTimeout

-----------------------------------------------------------------------------
(* Priority inheritance.                                                   *)

(* The threads nest no mutexes: an owner takes no second one and waits for *)
(* none.                                                                   *)
Unnested ==
    /\ \A x, y \in Object : owner[x] # None /\ owner[x] = owner[y] => x = y
    /\ \A x \in Object : \A t \in Range(k.wait[x]) : ~Holds(t)

(* What an owner gives back is the priority it was started with.           *)
OrigInitial ==
    \A m \in Object : owner[m] # None =>
        orig[m] = InitPrio[owner[m]] /\ ~Dormant(k, owner[m])

Lent ==
    /\ PriorityRestored /\ OwnerInherits /\ OrigInitial
    /\ MutexFlag = "PRIO" => ListsInOrder(k)

LEMMA LentInit == Init => Lent
<1> SUFFICES ASSUME Init
             PROVE  Lent
  OBVIOUS
<1>1. k.prio = InitPrio /\ \A m \in Object : k.wait[m] = <<>> /\ owner[m] = None
  BY KernelInitInv DEF Init, KernelInit, Started
<1>2. \A m \in Object : Range(k.wait[m]) = {} /\ InOrder(k.wait[m])
  BY <1>1 DEF Range, InOrder
<1> QED
  BY <1>1, <1>2 DEF Lent, PriorityRestored, OwnerInherits, OrigInitial, ListsInOrder

(* What the parts of the invariant say of the priorities that two threads  *)
(* have.                                                                   *)
LEMMA Priorities ==
    ASSUME MutexInv
    PROVE  /\ Sound(k) /\ k \in KernelState
           /\ k.prio \in [Thread -> Prio] /\ Prio \subseteq Nat
           /\ \A x \in Object : Range(k.wait[x]) \subseteq Thread
           /\ \A x \in Object, t \in Thread : t \in Range(k.wait[x]) =>
                 owner[x] \in Thread /\ k.stat[t] = "SUSPEND"
<1>0. Prio \subseteq Nat
  BY KernelAssumption DEF Prio
<1>1. /\ Sound(k) /\ k \in KernelState /\ MutexTypes
      /\ k.prio \in [Thread -> Prio]
  BY DEF MutexInv, KernelInv, Sound, Linked, KernelState
<1>2. \A x \in Object : k.wait[x] \in Seq(Thread)
  BY <1>1 DEF KernelState
<1>3. \A x \in Object : Range(k.wait[x]) \subseteq Thread
  BY <1>2, RangeOfSeq DEF Range
<1>4. \A x \in Object : FreeAgrees(x)
  BY AgreesIs DEF MutexInv
<1>5. \A x \in Object, t \in Thread : t \in Range(k.wait[x]) =>
         owner[x] \in Thread /\ k.stat[t] = "SUSPEND"
  BY <1>1, <1>4 DEF FreeAgrees, MutexTypes, Sound, Linked, WaitersSuspended
<1> QED
  BY <1>0, <1>1, <1>3, <1>5

(* A step that changes neither an owner nor a priority and adds no waiter. *)
LEMMA MildLent ==
    ASSUME MutexInv, MutexInv', Lent, UNCHANGED <<owner, orig>>, Mild(k, k'), Shrinks
    PROVE  Lent'
<1>1. \A x \in Object : Range(k'.wait[x]) \subseteq Thread
  BY WaitersAreThreads DEF MutexInv
<1>2. k'.prio = k.prio /\ Thins(k, k')
  BY DEF Mild
<1>3. PriorityRestored'
  BY <1>2 DEF Lent, PriorityRestored, Holds
<1>4. OwnerInherits'
  BY <1>1, <1>2 DEF Lent, OwnerInherits, Shrinks
<1>5. OrigInitial'
  <2>1. \A m \in Object : owner[m] # None => owner[m] \in Thread
    BY DEF MutexInv, MutexTypes
  <2> QED
    BY <1>2, <2>1 DEF Lent, OrigInitial, Thins, Settles
<1>6. (MutexFlag = "PRIO" => ListsInOrder(k))'
  BY <1>2 DEF Lent, Thins, Settles
<1> QED
  BY <1>3, <1>4, <1>5, <1>6 DEF Lent

LEMMA KernelStepLent ==
    ASSUME MutexInv, MutexInv', Lent, KernelStep
    PROVE  Lent'
<1>1. KernelInv /\ KernelNext /\ UNCHANGED <<owner, orig>>
  BY DEF MutexInv, KernelStep, mutexVars
<1>2. ASSUME NEW u \in Thread, k.stat[u] = "INIT"
      PROVE  k.prio[u] = InitPrio[u]
  <2>1. ~Holds(u)
    BY <1>2, MutexAssumption DEF Lent, OrigInitial, Holds, Dormant
  <2> QED
    BY <2>1 DEF Lent, PriorityRestored
<1>3. Mild(k, k') /\ Shrinks
  BY <1>1, <1>2, KernelNextMild, KernelNextKeeps
<1> QED
  BY <1>1, <1>3, MildLent

LEMMA SameLent ==
    ASSUME MutexInv, MutexInv', Lent, UNCHANGED <<owner, orig>>,
           k'.prio = k.prio, k'.stat = k.stat, k'.wait = k.wait
    PROVE  Lent'
<1>1. Mild(k, k') /\ Shrinks
  BY MildSame DEF Shrinks
<1> QED
  BY <1>1, MildLent

(* The priority the last release gives back, the loan of a blocking take   *)
(* and the raise of the first waiter, as operations on the kernel state.   *)
LEMMA RestoreIs ==
    ASSUME MutexInv, NEW t \in Thread, NEW m \in Object, owner[m] = t,
           k.stat[t] = "RUNNING", NEW s, s = Restore(t, m)
    PROVE  /\ Sound(s) /\ s.stat = k.stat /\ s.wait = k.wait /\ s.cur = k.cur
           /\ s.prio = [k.prio EXCEPT ![t] = orig[m]]
<1>1. Sound(k) /\ k \in KernelState /\ orig[m] \in Prio
  BY MutexAssumption DEF MutexInv, KernelInv, Sound, Linked, OrigKept
<1>2. CASE orig[m] # k.prio[t]
  <2>1. s = ChangePriority(k, t, orig[m])
    BY <1>2 DEF Restore
  <2> QED
    BY <1>1, <2>1, ChangePriorityEffect, ChangePriorityThins DEF Wakes
<1>3. CASE orig[m] = k.prio[t]
  <2>1. s = k
    BY <1>3 DEF Restore
  <2>2. k.prio = [k.prio EXCEPT ![t] = orig[m]]
    BY <1>1, <1>3 DEF KernelState
  <2> QED
    BY <1>1, <2>1, <2>2
<1> QED
  BY <1>2, <1>3

LEMMA InheritIs ==
    ASSUME MutexInv, NEW t \in Thread, NEW m \in Object, owner[m] \in Thread,
           NEW s, s = Inherit(t, m)
    PROVE  /\ Sound(s) /\ Thins(k, s)
           /\ s.stat = k.stat /\ s.cur = k.cur /\ s.lock = k.lock
           /\ \A x \in Object : Range(s.wait[x]) = Range(k.wait[x])
           /\ s.prio \in [Thread -> Prio]
           /\ s.prio[owner[m]] <= k.prio[t]
           /\ \A u \in Thread : s.prio[u] <= k.prio[u]
           /\ \A u \in Thread \ {owner[m]} : s.prio[u] = k.prio[u]
<1>1. /\ Sound(k) /\ k.prio \in [Thread -> Prio] /\ Prio \subseteq Nat
      /\ k.prio[t] \in Prio
  BY Priorities
<1>2. \A u \in Thread : k.prio[u] \in Nat
  BY <1>1
<1>3. CASE k.prio[t] < k.prio[owner[m]]
  <2>1. s = ChangePriority(k, owner[m], k.prio[t])
    BY <1>3 DEF Inherit
  <2>2. /\ Wakes(k, s) /\ Calm(k, s)
        /\ s.stat = k.stat /\ s.cur = k.cur /\ s.lock = k.lock
    BY <1>1, <2>1, ChangePriorityEffect
  <2>3. Thins(k, s) /\ s.prio = [k.prio EXCEPT ![owner[m]] = k.prio[t]]
    BY <1>1, <2>1, ChangePriorityThins
  <2>4. s.prio[owner[m]] = k.prio[t] /\ k.prio[t] <= k.prio[owner[m]]
    BY <1>1, <1>2, <1>3, <2>3
  <2>5. s.prio \in [Thread -> Prio]
    BY <1>1, <2>3
  <2>6. \A u \in Thread \ {owner[m]} : s.prio[u] = k.prio[u]
    BY <1>1, <2>3
  <2>7. \A u \in Thread : s.prio[u] <= k.prio[u]
    BY <1>2, <2>4, <2>6
  <2> QED
    BY <1>2, <2>2, <2>3, <2>4, <2>5, <2>6, <2>7 DEF Wakes, Calm
<1>4. CASE ~(k.prio[t] < k.prio[owner[m]])
  <2>1. s = k
    BY <1>4 DEF Inherit
  <2>2. Thins(k, k)
    BY ThinsSame
  <2>3. k.prio[owner[m]] <= k.prio[t] /\ \A u \in Thread : k.prio[u] <= k.prio[u]
    BY <1>2, <1>4
  <2> QED
    BY <1>1, <2>1, <2>2, <2>3
<1> QED
  BY <1>3, <1>4

LEMMA PromoteIs ==
    ASSUME NEW s, Sound(s), NEW m \in Object, NEW u \in Thread,
           u \in Range(s.wait[m]),
           MutexFlag = "PRIO" => \A v \in Range(s.wait[m]) : s.prio[u] <= s.prio[v],
           NEW q, q = Promote(s, u, m)
    PROVE  /\ Sound(q) /\ q.stat = s.stat /\ q.wait = s.wait
           /\ \A v \in Range(s.wait[m]) : q.prio[u] <= s.prio[v]
           /\ \A v \in Thread \ {u} : q.prio[v] = s.prio[v]
<1>1. /\ HighestWaiting(s, m) \in Prio
      /\ \A v \in Range(s.wait[m]) : HighestWaiting(s, m) <= s.prio[v]
  BY HighestWaitingType
<1>2. s.stat[u] # "READY" /\ s.prio \in [Thread -> Prio]
  BY DEF Sound, Linked, WaitersSuspended, KernelState
<1>3. CASE MutexFlag = "FIFO" /\ s.prio[u] # HighestWaiting(s, m)
  <2>1. q = ChangePriority(s, u, HighestWaiting(s, m))
    BY <1>3 DEF Promote
  <2>2. Sound(q) /\ q.stat = s.stat /\ q.wait = s.wait /\ q.cur = s.cur
    BY <1>1, <1>2, <2>1, ChangePriorityEffect DEF Wakes
  <2>3. q.prio = [s.prio EXCEPT ![u] = HighestWaiting(s, m)]
    BY <1>1, <2>1, ChangePriorityThins
  <2>4. q.prio[u] = HighestWaiting(s, m) /\ \A v \in Thread \ {u} : q.prio[v] = s.prio[v]
    BY <1>2, <2>3
  <2> QED
    BY <1>1, <2>2, <2>4
<1>4. CASE ~(MutexFlag = "FIFO" /\ s.prio[u] # HighestWaiting(s, m))
  <2>1. q = s
    BY <1>4 DEF Promote
  <2>2. \A v \in Range(s.wait[m]) : s.prio[u] <= s.prio[v]
    BY <1>1, <1>4, MutexAssumption
  <2> QED
    BY <2>1, <2>2
<1> QED
  BY <1>3, <1>4

LEMMA PromoteStays ==
    ASSUME NEW s, Sound(s), NEW m \in Object, NEW u \in Thread,
           u \in Range(s.wait[m]), NEW q, q = Promote(s, u, m)
    PROVE  q \in KernelState /\ q.wait = s.wait /\ q.cur = s.cur
<1>1. HighestWaiting(s, m) \in Prio
  BY HighestWaitingType
<1>2. s.stat[u] # "READY"
  BY DEF Sound, Linked, WaitersSuspended
<1>3. CASE MutexFlag = "FIFO" /\ s.prio[u] # HighestWaiting(s, m)
  <2>1. q = ChangePriority(s, u, HighestWaiting(s, m))
    BY <1>3 DEF Promote
  <2>2. Sound(q) /\ q.wait = s.wait /\ q.cur = s.cur
    BY <1>1, <1>2, <2>1, ChangePriorityEffect DEF Wakes
  <2> QED
    BY <2>2 DEF Sound, Linked
<1>4. CASE ~(MutexFlag = "FIFO" /\ s.prio[u] # HighestWaiting(s, m))
  BY <1>4 DEF Promote, Sound, Linked
<1> QED
  BY <1>3, <1>4

(* The priority that is recorded is the initial one: a taker holds no      *)
(* other mutex.                                                            *)
LEMMA TakeFreeLent ==
    ASSUME MutexInv, MutexInv', Unnested', Lent,
           NEW t \in Worker, NEW m \in Object, TakeFree(t, m)
    PROVE  Lent'
<1>1. /\ At(t, "run") /\ owner[m] # t /\ value[m] > 0 /\ SetError(t, "OK")
      /\ owner' = [owner EXCEPT ![m] = t] /\ orig' = [orig EXCEPT ![m] = k.prio[t]]
  BY DEF TakeFree
<1>2. /\ Sound(k) /\ k \in KernelState /\ MutexTypes /\ KernelInv /\ t \in Thread
      /\ \A x \in Object : FreeAgrees(x)
  BY Priorities, AgreesIs DEF MutexInv, Worker
<1>3. k'.prio = k.prio /\ k'.stat = k.stat /\ k'.wait = k.wait
  BY <1>1, <1>2 DEF SetError, KernelState
<1>4. k.stat[t] = "RUNNING" /\ t # None
  BY <1>1, <1>2, AtRuns, MutexAssumption
<1>5. owner[m] = None /\ Range(k.wait[m]) = {}
  <2>1. value[m] \in 0 .. 1
    BY <1>2 DEF MutexTypes
  <2>2. value[m] = 1
    BY <1>1, <2>1
  <2> QED
    BY <1>2, <2>2 DEF FreeAgrees
<1>6. /\ owner'[m] = t /\ orig'[m] = k.prio[t]
      /\ \A x \in Object \ {m} : owner'[x] = owner[x] /\ orig'[x] = orig[x]
  BY <1>1, <1>2 DEF MutexTypes
<1>7. ~Holds(t)
  <2>1. \A x \in Object \ {m} : owner[x] # t
    BY <1>4, <1>6 DEF Unnested
  <2> QED
    BY <1>1, <2>1 DEF Holds
<1>8. k.prio[t] = InitPrio[t]
  BY <1>2, <1>7 DEF Lent, PriorityRestored
<1>9. PriorityRestored'
  <2>1. ASSUME NEW u \in Thread, ~Holds(u)'
        PROVE  k'.prio[u] = InitPrio[u]
    <3>1. ~Holds(u)
      BY <1>5, <1>6, <2>1, MutexAssumption DEF Holds
    <3> QED
      BY <1>3, <3>1 DEF Lent, PriorityRestored
  <2> QED
    BY <2>1 DEF PriorityRestored
<1>10. OwnerInherits'
  BY <1>3, <1>5, <1>6 DEF Lent, OwnerInherits
<1>11. OrigInitial'
  BY <1>3, <1>4, <1>6, <1>8 DEF Lent, OrigInitial, Dormant
<1>12. (MutexFlag = "PRIO" => ListsInOrder(k))'
  BY <1>3 DEF Lent, ListsInOrder
<1> QED
  BY <1>9, <1>10, <1>11, <1>12 DEF Lent

(* The last release gives the initial priority back, and no other mutex of *)
(* the caller needs the loan.                                              *)
LEMMA ReleaseFreeLent ==
    ASSUME MutexInv, MutexInv', Unnested, Lent,
           NEW t \in Worker, NEW m \in Object, ReleaseFree(t, m)
    PROVE  Lent'
<1>1. /\ At(t, "run") /\ owner[m] = t /\ k.wait[m] = <<>>
      /\ owner' = [owner EXCEPT ![m] = None] /\ orig' = [orig EXCEPT ![m] = None]
      /\ k' = Restore(t, m)
  BY DEF ReleaseFree
<1>2. /\ Sound(k) /\ MutexTypes /\ KernelInv /\ t \in Thread
      /\ k.prio \in [Thread -> Prio]
  BY Priorities DEF MutexInv, Worker
<1>3. k.stat[t] = "RUNNING" /\ t # None
  BY <1>1, <1>2, AtRuns, MutexAssumption
<1>4. k'.prio = [k.prio EXCEPT ![t] = orig[m]] /\ k'.stat = k.stat /\ k'.wait = k.wait
  BY <1>1, <1>2, <1>3, RestoreIs
<1>5. orig[m] = InitPrio[t]
  BY <1>1, <1>3 DEF Lent, OrigInitial
<1>6. /\ owner'[m] = None
      /\ \A x \in Object \ {m} : owner'[x] = owner[x] /\ orig'[x] = orig[x]
  BY <1>1, <1>2 DEF MutexTypes
<1>7. k'.prio[t] = InitPrio[t] /\ \A u \in Thread \ {t} : k'.prio[u] = k.prio[u]
  BY <1>2, <1>4, <1>5
<1>8. PriorityRestored'
  <2>1. ASSUME NEW u \in Thread \ {t}, ~Holds(u)'
        PROVE  k'.prio[u] = InitPrio[u]
    <3>1. ~Holds(u)
      BY <1>1, <1>6, <2>1 DEF Holds
    <3> QED
      BY <1>7, <3>1 DEF Lent, PriorityRestored
  <2> QED
    BY <1>7, <2>1 DEF PriorityRestored
<1>9. OwnerInherits'
  <2>1. ASSUME NEW x \in Object, NEW v \in Range(k.wait[x])
        PROVE  k'.prio[owner'[x]] <= k'.prio[v]
    <3>1. x # m
      BY <1>1, <2>1 DEF Range
    <3>2. v \in Thread /\ owner[x] \in Thread /\ k.stat[v] = "SUSPEND"
      BY Priorities
    <3>3. owner[x] # t /\ v # t
      BY <1>1, <1>3, <3>1, <3>2 DEF Unnested
    <3>4. k.prio[owner[x]] <= k.prio[v]
      BY DEF Lent, OwnerInherits
    <3> QED
      BY <1>6, <1>7, <3>1, <3>2, <3>3, <3>4
  <2> QED
    BY <1>4, <2>1 DEF OwnerInherits
<1>10. OrigInitial'
  BY <1>4, <1>6 DEF Lent, OrigInitial, Dormant
<1>11. (MutexFlag = "PRIO" => ListsInOrder(k))'
  BY <1>4 DEF Lent, ListsInOrder
<1> QED
  BY <1>8, <1>9, <1>10, <1>11 DEF Lent

LEMMA BlockPrio ==
    ASSUME NEW s, Sound(s), NEW t \in Thread, s.stat[t] = "RUNNING", t # Idle,
           s.lock = 0, NEW m \in Object, NEW time \in Int
    PROVE  Block(s, m, t, MutexFlag, time).prio = s.prio
<1> DEFINE b == Block(s, m, t, MutexFlag, time)
<1>1. /\ b.tick = s.tick /\ b.prio = s.prio
      /\ t \notin Range(s.timers)
      /\ IF time > 0
         THEN /\ b.due = [s.due EXCEPT ![t] = Later(s, time)]
              /\ b.timers = InsertAt(s.timers, TimerPlace(s.timers,
                               [s.due EXCEPT ![t] = 0], Later(s, time)), t)
         ELSE /\ b.due = [s.due EXCEPT ![t] = 0]
              /\ b.timers = s.timers
  BY BlockIs
<1> QED
  BY <1>1

(* The owner is raised to the priority of the caller, which owns nothing,  *)
(* and the caller is linked where the scan stops.                          *)
LEMMA TakeBlocksLent ==
    ASSUME MutexInv, MutexInv', Unnested, Unnested', Lent,
           NEW t \in Worker, NEW m \in Object, TakeBlocks(t, m)
    PROVE  Lent'
<1>1. PICK s : s = Inherit(t, m)
  OBVIOUS
<1>2. PICK time \in WaitTimes \ {0} : k' = Block(s, m, t, MutexFlag, time)
  BY <1>1 DEF TakeBlocks
<1>3. /\ At(t, "run") /\ k.lock = 0 /\ owner[m] # t /\ UNCHANGED <<owner, orig>>
  BY DEF TakeBlocks, MayBlock, mutexVars
<1>4. /\ Sound(k) /\ MutexTypes /\ KernelInv /\ t \in Thread /\ t # Idle
      /\ k.prio \in [Thread -> Prio] /\ Prio \subseteq Nat /\ time \in Int
  BY Priorities, MutexAssumption DEF MutexInv, Worker
<1>5. k.stat[t] = "RUNNING"
  BY <1>3, <1>4, AtRuns
<1>6. /\ owner[m] \in Thread
      /\ \A u \in Thread \ {t} : k'.stat[u] = k.stat[u]
      /\ \A x \in Object : Range(k'.wait[x]) =
            Range(k.wait[x]) \cup (IF x = m THEN {t} ELSE {})
  BY TakeBlocksEffect
<1>7. /\ Sound(s) /\ Thins(k, s)
      /\ s.stat = k.stat /\ s.cur = k.cur /\ s.lock = k.lock
      /\ \A x \in Object : Range(s.wait[x]) = Range(k.wait[x])
      /\ s.prio \in [Thread -> Prio]
      /\ s.prio[owner[m]] <= k.prio[t]
      /\ \A u \in Thread : s.prio[u] <= k.prio[u]
      /\ \A u \in Thread \ {owner[m]} : s.prio[u] = k.prio[u]
  BY <1>1, <1>4, <1>6, InheritIs
<1>8. s.stat[t] = "RUNNING" /\ s.lock = 0
  BY <1>3, <1>5, <1>7
<1>9. k'.prio = s.prio
  <2>1. Sound(s)
    BY <1>7
  <2>2. Block(s, m, t, MutexFlag, time).prio = s.prio
    BY <1>4, <1>8, <2>1, BlockPrio
  <2> QED
    BY <1>2, <2>2
<1>10. ~Holds(t)
  BY <1>3, <1>6 DEF Unnested, Holds
<1>11. \A u \in Thread : ~Holds(u) => s.prio[u] = InitPrio[u] /\ k.prio[u] = InitPrio[u]
  <2>1. ASSUME NEW u \in Thread, ~Holds(u)
        PROVE  s.prio[u] = InitPrio[u] /\ k.prio[u] = InitPrio[u]
    <3>1. u # owner[m] /\ k.prio[u] = InitPrio[u]
      BY <2>1 DEF Holds, Lent, PriorityRestored
    <3> QED
      BY <1>7, <3>1
  <2> QED
    BY <2>1
<1>12. PriorityRestored'
  BY <1>3, <1>9, <1>11 DEF PriorityRestored, Holds
<1>13. OwnerInherits'
  <2>1. ASSUME NEW x \in Object, NEW v \in Range(k.wait[x])
        PROVE  s.prio[owner[x]] <= s.prio[v]
    <3>1. v \in Thread /\ owner[x] \in Thread
      BY Priorities
    <3>2. ~Holds(v)
      BY DEF Unnested
    <3>3. s.prio[v] = k.prio[v]
      BY <1>11, <3>1, <3>2
    <3>4. k.prio[owner[x]] <= k.prio[v] /\ s.prio[owner[x]] <= k.prio[owner[x]]
      BY <1>7, <3>1 DEF Lent, OwnerInherits
    <3>5. s.prio[owner[x]] \in Nat /\ k.prio[owner[x]] \in Nat /\ k.prio[v] \in Nat
      BY <1>4, <1>7, <3>1
    <3> QED
      BY <3>3, <3>4, <3>5
  <2>2. s.prio[owner[m]] <= s.prio[t]
    BY <1>3, <1>4, <1>7
  <2>3. \A x \in Object : \A v \in Range(k'.wait[x]) : s.prio[owner[x]] <= s.prio[v]
    BY <1>6, <2>1, <2>2
  <2> QED
    BY <1>3, <1>9, <2>3 DEF OwnerInherits
<1>14. OrigInitial'
  <2>1. ASSUME NEW x \in Object, owner[x] # None
        PROVE  k'.stat[owner[x]] = k.stat[owner[x]]
    <3>1. owner[x] \in Thread /\ owner[x] # t
      BY <1>4, <1>10, <2>1 DEF MutexTypes, Holds
    <3> QED
      BY <1>6, <3>1
  <2> QED
    BY <1>3, <2>1 DEF Lent, OrigInitial, Dormant
<1>15. ASSUME MutexFlag = "PRIO"
       PROVE  ListsInOrder(k')
  <2>1. Plain(s, m, t)
    <3>1. s.prio[t] = InitPrio[t]
      BY <1>4, <1>10, <1>11
    <3>2. ASSUME NEW v \in Range(s.wait[m])
          PROVE  s.prio[v] = InitPrio[v]
      <4>1. v \in Range(k.wait[m])
        BY <1>7
      <4>2. v \in Thread /\ ~Holds(v)
        BY <4>1, Priorities DEF Unnested
      <4> QED
        BY <1>11, <4>2
    <3> QED
      BY <3>1, <3>2 DEF Plain
  <2>2. Settles(s, Block(s, m, t, "PRIO", time))
    BY <1>4, <1>7, <1>8, <2>1, BlockSettles
  <2>3. ListsInOrder(k)
    BY <1>15 DEF Lent
  <2> QED
    BY <1>2, <1>7, <1>15, <2>2, <2>3 DEF Thins, Settles
<1>16. (MutexFlag = "PRIO" => ListsInOrder(k))'
  BY <1>15
<1> QED
  BY <1>12, <1>13, <1>14, <1>16 DEF Lent

(* The caller has its initial priority back, and the new owner, which owns *)
(* nothing yet, is as urgent as every other waiter: under priority order   *)
(* because it is the first in the list, under FIFO because it is raised.   *)
LEMMA HandOverLent ==
    ASSUME MutexInv, MutexInv', Unnested, Lent,
           NEW t \in Worker, NEW m \in Object, ReleaseHandOver(t, m)
    PROVE  Lent'
<1>1. PICK u : u = Head(k.wait[m])
  OBVIOUS
<1>2. PICK s : s = Restore(t, m)
  OBVIOUS
<1>3. PICK q : q = Promote(s, u, m)
  OBVIOUS
<1>4. /\ At(t, "run") /\ owner[m] = t /\ k.wait[m] # <<>>
      /\ owner' = [owner EXCEPT ![m] = u] /\ orig' = [orig EXCEPT ![m] = s.prio[u]]
      /\ k' = IpcListResume(q, m)
  BY <1>1, <1>2, <1>3 DEF ReleaseHandOver
<1>5. /\ Sound(k) /\ k \in KernelState /\ MutexTypes /\ KernelInv /\ t \in Thread
      /\ k.prio \in [Thread -> Prio] /\ Prio \subseteq Nat
      /\ k.wait[m] \in Seq(Thread)
  BY Priorities DEF MutexInv, Worker, KernelState
<1>6. k.stat[t] = "RUNNING" /\ t # None
  BY <1>4, <1>5, AtRuns, MutexAssumption
<1>7. u \in Range(k.wait[m]) /\ u \in Thread
  BY <1>1, <1>4, <1>5, HeadIn
<1>8. k.stat[u] = "SUSPEND" /\ u # t /\ ~Holds(u)
  <2>1. k.stat[u] = "SUSPEND" /\ ~Holds(u)
    BY <1>7, Priorities DEF Unnested
  <2> QED
    BY <1>6, <2>1
<1>9. Sound(s) /\ s.stat = k.stat /\ s.wait = k.wait /\ s.prio = [k.prio EXCEPT ![t] = orig[m]]
  <2>1. owner[m] = t /\ t \in Thread
    BY <1>4, <1>5
  <2>2. /\ Sound(s) /\ s.stat = k.stat /\ s.wait = k.wait /\ s.cur = k.cur
        /\ s.prio = [k.prio EXCEPT ![t] = orig[m]]
    BY <1>2, <1>6, <2>1, RestoreIs
  <2> QED
    BY <2>2
<1>10. orig[m] = InitPrio[t]
  BY <1>4, <1>6 DEF Lent, OrigInitial
<1>11. s.prio[t] = InitPrio[t] /\ \A v \in Thread \ {t} : s.prio[v] = k.prio[v]
  BY <1>5, <1>9, <1>10
<1>12. \A x \in Object : \A v \in Range(k.wait[x]) :
          v \in Thread /\ v # t /\ s.prio[v] = InitPrio[v]
  <2>1. ASSUME NEW x \in Object, NEW v \in Range(k.wait[x])
        PROVE  v \in Thread /\ v # t /\ s.prio[v] = InitPrio[v]
    <3>1. v \in Thread /\ k.stat[v] = "SUSPEND"
      BY Priorities
    <3>2. v # t /\ ~Holds(v)
      BY <1>6, <3>1 DEF Unnested
    <3>3. k.prio[v] = InitPrio[v]
      BY <3>1, <3>2 DEF Lent, PriorityRestored
    <3> QED
      BY <1>11, <3>1, <3>2, <3>3
  <2> QED
    BY <2>1
<1>13. MutexFlag = "PRIO" => \A v \in Range(s.wait[m]) : s.prio[u] <= s.prio[v]
  <2> SUFFICES ASSUME MutexFlag = "PRIO"
               PROVE  \A v \in Range(s.wait[m]) : s.prio[u] <= s.prio[v]
    OBVIOUS
  <2>1. InOrder(k.wait[m])
    BY DEF Lent, ListsInOrder
  <2>2. Len(k.wait[m]) \in Nat /\ Len(k.wait[m]) # 0 /\ u = k.wait[m][1]
    BY <1>1, <1>4, <1>5, LenProperties, EmptySeq, HeadTailProperties
  <2>3. ASSUME NEW v \in Range(k.wait[m])
        PROVE  s.prio[u] <= s.prio[v]
    <3>1. PICK j \in 1 .. Len(k.wait[m]) : v = k.wait[m][j]
      BY <1>5, RangeIs
    <3>2. 1 \in 1 .. Len(k.wait[m]) /\ 1 <= j
      BY <2>2
    <3>3. InitPrio[u] <= InitPrio[v]
      BY <2>1, <2>2, <3>1, <3>2 DEF InOrder
    <3> QED
      BY <1>7, <1>12, <3>3
  <2> QED
    BY <1>9, <2>3
<1>14. /\ Sound(q) /\ q.stat = s.stat /\ q.wait = s.wait
       /\ \A v \in Range(s.wait[m]) : q.prio[u] <= s.prio[v]
       /\ \A v \in Thread \ {u} : q.prio[v] = s.prio[v]
  <2>1. Sound(s) /\ u \in Range(s.wait[m])
    BY <1>7, <1>9
  <2> QED
    BY <1>3, <1>7, <1>13, <2>1, PromoteIs
<1>15. k' = ThreadResume(q, u)
  BY <1>1, <1>4, <1>9, <1>14 DEF IpcListResume
<1>16. /\ q \in KernelState /\ Linked(q) /\ Distinct(q.timers) /\ q.stat[u] = "SUSPEND"
       /\ \A p \in Prio : Distinct(q.ready[p])
       /\ \A o \in Object : Distinct(q.wait[o])
  <2>1. Sound(q) /\ q.stat[u] = "SUSPEND"
    BY <1>8, <1>9, <1>14
  <2> QED
    BY <2>1 DEF Sound, Linked, Timed, ReadyAgrees, WaitersSuspended
<1>17. k'.prio = q.prio
  <2>1. Stops(q, ThreadResume(q, u), u)
    BY <1>7, <1>16, ResumeStops
  <2> QED
    BY <1>15, <2>1 DEF Stops
<1>18. \A x \in Object : Range(k'.wait[x]) = Range(k.wait[x]) \ {u}
  BY <1>7, <1>9, <1>14, <1>15, <1>16, ResumeEffect
<1>19. Thins(k, k')
  <2>1. Thins(q, k')
    BY <1>7, <1>15, <1>16, ResumeThins
  <2> QED
    BY <1>9, <1>14, <2>1 DEF Thins, Settles, Dormant, ListsInOrder
<1>20. /\ owner'[m] = u /\ orig'[m] = s.prio[u]
       /\ \A x \in Object \ {m} : owner'[x] = owner[x] /\ orig'[x] = orig[x]
  BY <1>4, <1>5 DEF MutexTypes
<1>21. PriorityRestored'
  <2>1. ASSUME NEW v \in Thread, ~Holds(v)'
        PROVE  k'.prio[v] = InitPrio[v]
    <3>1. v # u
      BY <1>20, <2>1 DEF Holds
    <3>2. k'.prio[v] = s.prio[v]
      BY <1>14, <1>17, <3>1
    <3>3. ASSUME v # t
          PROVE  k.prio[v] = InitPrio[v]
      <4>1. ~Holds(v)
        BY <1>4, <1>20, <2>1, <3>3 DEF Holds
      <4> QED
        BY <4>1 DEF Lent, PriorityRestored
    <3> QED
      BY <1>11, <3>2, <3>3
  <2> QED
    BY <2>1 DEF PriorityRestored
<1>22. OwnerInherits'
  <2>1. ASSUME NEW x \in Object, NEW v \in Range(k'.wait[x])
        PROVE  k'.prio[owner'[x]] <= k'.prio[v]
    <3>1. v \in Range(k.wait[x]) /\ v # u
      BY <1>18
    <3>2. v \in Thread /\ v # t /\ k'.prio[v] = s.prio[v]
      BY <1>12, <1>14, <1>17, <3>1
    <3>3. CASE x = m
      BY <1>9, <1>14, <1>17, <1>20, <3>1, <3>2, <3>3
    <3>4. CASE x # m
      <4>1. owner[x] \in Thread /\ k.prio[owner[x]] <= k.prio[v]
        BY <3>1, Priorities DEF Lent, OwnerInherits
      <4>2. owner[x] # u
        BY <1>8 DEF Holds
      <4>3. owner[x] # t
        BY <1>4, <1>6, <3>4 DEF Unnested
      <4>4. k'.prio[owner'[x]] = k.prio[owner[x]]
        BY <1>11, <1>14, <1>17, <1>20, <3>4, <4>1, <4>2, <4>3
      <4>5. k'.prio[v] = k.prio[v]
        BY <1>11, <3>2
      <4> QED
        BY <4>1, <4>4, <4>5
    <3> QED
      BY <3>3, <3>4
  <2> QED
    BY <2>1 DEF OwnerInherits
<1>23. OrigInitial'
  <2>1. ASSUME NEW x \in Object, owner'[x] # None
        PROVE  orig'[x] = InitPrio[owner'[x]] /\ ~Dormant(k', owner'[x])
    <3>1. CASE x = m
      <4>1. orig'[x] = InitPrio[u] /\ owner'[x] = u
        BY <1>7, <1>12, <1>20, <3>1
      <4>2. ~Dormant(k, u)
        BY <1>8 DEF Dormant
      <4> QED
        BY <1>7, <1>19, <4>1, <4>2 DEF Thins, Settles
    <3>2. CASE x # m
      <4>1. owner'[x] = owner[x] /\ orig'[x] = orig[x] /\ owner[x] \in Thread
        BY <1>5, <1>20, <2>1, <3>2 DEF MutexTypes
      <4>2. orig[x] = InitPrio[owner[x]] /\ ~Dormant(k, owner[x])
        BY <2>1, <4>1 DEF Lent, OrigInitial
      <4> QED
        BY <1>19, <4>1, <4>2 DEF Thins, Settles
    <3> QED
      BY <3>1, <3>2
  <2> QED
    BY <2>1 DEF OrigInitial
<1>24. (MutexFlag = "PRIO" => ListsInOrder(k))'
  BY <1>19 DEF Lent, Thins, Settles
<1> QED
  BY <1>21, <1>22, <1>23, <1>24 DEF Lent

(* The caller keeps the processor until it calls rt_schedule.              *)
LEMMA HandOverStays ==
    ASSUME MutexInv, NEW t \in Worker, NEW m \in Object, ReleaseHandOver(t, m)
    PROVE  k'.cur = k.cur
<1>1. PICK u : u = Head(k.wait[m])
  OBVIOUS
<1>2. PICK s : s = Restore(t, m)
  OBVIOUS
<1>3. PICK q : q = Promote(s, u, m)
  OBVIOUS
<1>4. /\ At(t, "run") /\ owner[m] = t /\ k.wait[m] # <<>>
      /\ k' = IpcListResume(q, m)
  BY <1>1, <1>2, <1>3 DEF ReleaseHandOver
<1>5. KernelInv /\ t \in Thread /\ k.wait[m] \in Seq(Thread)
  BY Priorities DEF MutexInv, Worker, KernelState
<1>6. k.stat[t] = "RUNNING"
  BY <1>4, <1>5, AtRuns
<1>7. u \in Range(k.wait[m]) /\ u \in Thread
  BY <1>1, <1>4, <1>5, HeadIn
<1>8. Sound(s) /\ s.stat = k.stat /\ s.wait = k.wait /\ s.cur = k.cur
  <2>1. owner[m] = t /\ t \in Thread
    BY <1>4, <1>5
  <2>2. /\ Sound(s) /\ s.stat = k.stat /\ s.wait = k.wait /\ s.cur = k.cur
        /\ s.prio = [k.prio EXCEPT ![t] = orig[m]]
    BY <1>2, <1>6, <2>1, RestoreIs
  <2> QED
    BY <2>2
<1>9. k.stat[u] = "SUSPEND"
  BY <1>7, Priorities
<1>10. q \in KernelState /\ q.wait = s.wait /\ q.cur = s.cur
  <2>1. Sound(s) /\ s.stat[u] # "READY" /\ u \in Range(s.wait[m])
    BY <1>7, <1>8, <1>9
  <2> QED
    BY <1>3, <1>7, <2>1, PromoteStays
<1>11. k' = ThreadResume(q, u)
  BY <1>1, <1>4, <1>8, <1>10 DEF IpcListResume
<1> QED
  BY <1>7, <1>8, <1>10, <1>11, ResumeStates

LEMMA NextLent ==
    ASSUME MutexInv, MutexInv', Unnested, Unnested', Lent, [Next]_vars
    PROVE  Lent'
<1>1. k \in KernelState
  BY DEF MutexInv, KernelInv, Sound, Linked
<1>2. ASSUME UNCHANGED <<k, owner, orig>>
      PROVE  Lent'
  BY <1>2, SameLent
<1>3. CASE UNCHANGED vars
  BY <1>2, <1>3 DEF vars, kernelVars, mutexVars
<1>4. CASE KernelStep
  BY <1>4, KernelStepLent
<1>5. CASE \E t \in Worker : TakeReturns(t)
  BY <1>2, <1>5 DEF TakeReturns, mutexVars
<1>6. ASSUME NEW t \in Worker, NEW m \in Object, MutexStep(t, m)
      PROVE  Lent'
  <2>1. CASE TakeFree(t, m)
    BY <2>1, TakeFreeLent
  <2>2. CASE TakeBlocks(t, m)
    BY <2>2, TakeBlocksLent
  <2>3. CASE ReleaseFree(t, m)
    BY <2>3, ReleaseFreeLent
  <2>4. CASE ReleaseHandOver(t, m)
    BY <2>4, HandOverLent
  <2>5. CASE TakeAgain(t, m) \/ TakeRefused(t, m) \/ ReleaseRefused(t, m)
    <3>1. UNCHANGED <<owner, orig>> /\ \E e \in {"OK", "TIMEOUT", "ERROR"} : SetError(t, e)
      BY <2>5 DEF TakeAgain, TakeRefused, ReleaseRefused, mutexVars
    <3>2. k'.prio = k.prio /\ k'.stat = k.stat /\ k'.wait = k.wait
      BY <1>1, <3>1 DEF SetError, KernelState
    <3> QED
      BY <3>1, <3>2, SameLent
  <2>6. CASE ReleaseInner(t, m)
    BY <1>2, <2>6 DEF ReleaseInner
  <2> QED
    BY <1>6, <2>1, <2>2, <2>3, <2>4, <2>5, <2>6 DEF MutexStep
<1> QED
  BY <1>3, <1>4, <1>5, <1>6 DEF Next

LEMMA LentAlways == Spec /\ []Unnested => []Lent
<1>1. Init => Lent
  BY LentInit
<1>2. /\ MutexInv /\ MutexInv' /\ Unnested /\ Unnested'
      /\ Lent /\ [Next]_vars
      => Lent'
  BY NextLent
<1> QED
  BY <1>1, <1>2, InductiveInvariant, PTL DEF Spec

(* rt_mutex_take and rt_mutex_release, for any number of threads and of    *)
(* mutexes that no thread nests: the owner is never of a lower priority    *)
(* than a thread that waits for the mutex.                                 *)
THEOREM OwnerInheritsUnnested == Spec /\ []Unnested => []OwnerInherits
<1>1. Lent => OwnerInherits
  BY DEF Lent
<1> QED
  BY <1>1, LentAlways, PTL

(* rt_mutex_release under the same condition: a loan ends with the last    *)
(* release.                                                                *)
THEOREM PriorityRestoredUnnested == Spec /\ []Unnested => []PriorityRestored
<1>1. Lent => PriorityRestored
  BY DEF Lent
<1> QED
  BY <1>1, LentAlways, PTL

-----------------------------------------------------------------------------
(* One mutex.                                                              *)
Sole == \A m, n \in Object : m = n

(* The owner of a mutex is not linked in its suspend list: a thread that   *)
(* is given a mutex is taken from the list first, and rt_mutex_take by the *)
(* owner does not block.                                                   *)
OwnerOutside ==
    \A m \in Object, t \in Thread : owner[m] = t => t \notin Range(k.wait[m])

LEMMA NextOwnerOutside ==
    ASSUME MutexInv, MutexInv', OwnerOutside, [Next]_vars
    PROVE  OwnerOutside'
<1>1. /\ KernelInv /\ MutexTypes /\ k \in KernelState
      /\ \A x \in Object, t \in Thread : t \in Range(k.wait[x]) => k.stat[t] = "SUSPEND"
  BY Priorities DEF MutexInv
<1>2. ASSUME UNCHANGED owner, \A x \in Object : Range(k'.wait[x]) \subseteq Range(k.wait[x])
      PROVE  OwnerOutside'
  BY <1>2 DEF OwnerOutside
<1>3. CASE UNCHANGED vars
  BY <1>2, <1>3 DEF vars, kernelVars, mutexVars
<1>4. CASE KernelStep
  <2>1. UNCHANGED owner /\ Shrinks
    BY <1>1, <1>4, KernelNextKeeps DEF KernelStep, mutexVars
  <2>2. \A x \in Object : Range(k.wait[x]) \subseteq Thread /\ Range(k'.wait[x]) \subseteq Thread
    BY Priorities, WaitersAreThreads DEF MutexInv
  <2> QED
    BY <1>2, <2>1, <2>2 DEF Shrinks
<1>5. CASE \E t \in Worker : TakeReturns(t)
  BY <1>2, <1>5 DEF TakeReturns, mutexVars
<1>6. ASSUME NEW t \in Worker, NEW m \in Object, MutexStep(t, m)
      PROVE  OwnerOutside'
  <2>1. ASSUME At(t, "run")
        PROVE  \A x \in Object : t \notin Range(k.wait[x])
    BY <1>1, <2>1, AtRuns DEF Worker
  <2>2. CASE TakeFree(t, m)
    <3>1. At(t, "run") /\ SetError(t, "OK") /\ owner' = [owner EXCEPT ![m] = t]
      BY <2>2 DEF TakeFree
    <3>2. k'.wait = k.wait
      BY <1>1, <3>1 DEF SetError, KernelState
    <3> QED
      BY <1>1, <2>1, <3>1, <3>2 DEF OwnerOutside, MutexTypes
  <2>3. CASE TakeBlocks(t, m)
    <3>1. /\ owner[m] # t /\ UNCHANGED owner
          /\ \A x \in Object : Range(k'.wait[x]) =
                Range(k.wait[x]) \cup (IF x = m THEN {t} ELSE {})
      BY <2>3, TakeBlocksEffect DEF TakeBlocks, mutexVars
    <3> QED
      BY <3>1 DEF OwnerOutside
  <2>4. CASE ReleaseFree(t, m)
    <3>1. /\ At(t, "run") /\ owner[m] = t /\ owner' = [owner EXCEPT ![m] = None]
          /\ k' = Restore(t, m)
      BY <2>4 DEF ReleaseFree
    <3>2. k.stat[t] = "RUNNING" /\ t \in Thread
      BY <1>1, <3>1, AtRuns DEF Worker
    <3>3. k'.wait = k.wait
      BY <3>1, <3>2, RestoreIs
    <3> QED
      BY <1>1, <3>1, <3>3, MutexAssumption DEF OwnerOutside, MutexTypes
  <2>5. CASE ReleaseHandOver(t, m)
    <3>1. PICK u \in Thread :
             /\ \A x \in Object : Range(k'.wait[x]) = Range(k.wait[x]) \ {u}
             /\ owner' = [owner EXCEPT ![m] = u]
      BY <2>5, HandOverEffect
    <3> QED
      BY <1>1, <3>1 DEF OwnerOutside, MutexTypes
  <2>6. CASE \/ TakeAgain(t, m) \/ TakeRefused(t, m)
             \/ ReleaseRefused(t, m) \/ ReleaseInner(t, m)
    <3>1. UNCHANGED owner /\ (k' = k \/ \E e \in {"OK", "TIMEOUT", "ERROR"} : SetError(t, e))
      BY <2>6 DEF TakeAgain, TakeRefused, ReleaseRefused, ReleaseInner, mutexVars
    <3>2. k'.wait = k.wait
      BY <1>1, <3>1 DEF SetError, KernelState
    <3> QED
      BY <1>2, <3>1, <3>2
  <2> QED
    BY <1>6, <2>2, <2>3, <2>4, <2>5, <2>6 DEF MutexStep
<1> QED
  BY <1>3, <1>4, <1>5, <1>6 DEF Next

LEMMA SoleUnnested ==
    ASSUME Sole, MutexInv, OwnerOutside
    PROVE  Unnested
<1>1. \A x, y \in Object : owner[x] # None /\ owner[x] = owner[y] => x = y
  BY DEF Sole
<1>2. ASSUME NEW x \in Object, NEW t \in Range(k.wait[x])
      PROVE  ~Holds(t)
  <2>1. t \in Thread
    BY Priorities
  <2>2. owner[x] # t
    BY <2>1 DEF OwnerOutside
  <2> QED
    BY <2>2 DEF Sole, Holds
<1> QED
  BY <1>1, <1>2 DEF Unnested

LEMMA SoleAlways == ASSUME Sole PROVE Spec => []Unnested
<1>1. Init => OwnerOutside
  BY MutexAssumption DEF Init, OwnerOutside
<1>2. MutexInv /\ MutexInv' /\ OwnerOutside /\ [Next]_vars => OwnerOutside'
  BY NextOwnerOutside
<1>3. MutexInv /\ OwnerOutside => Unnested
  BY SoleUnnested
<1> QED
  BY <1>1, <1>2, <1>3, InductiveInvariant, PTL DEF Spec

(* The owner is not ready behind a thread of a lower priority.             *)
OwnersBehind == \A m \in Object, t \in Thread : owner[m] = t => Behind(t)

LEMMA NextOwnersBehind ==
    ASSUME Sole, MutexInv, MutexInv', OwnersBehind, [Next]_vars
    PROVE  OwnersBehind'
<1>1. /\ KernelInv /\ MutexTypes /\ Sound(k) /\ k \in KernelState /\ k.cur \in Thread
      /\ pc \in [Thread -> Location]
  BY Priorities DEF MutexInv, KernelInv, KernelState
<1>2. ASSUME UNCHANGED owner, \A t \in Thread : StaysBehind(t)
      PROVE  OwnersBehind'
  BY <1>2 DEF OwnersBehind, StaysBehind
<1>3. ASSUME UNCHANGED <<k, pc, irq, owner>>
      PROVE  OwnersBehind'
  BY <1>3 DEF OwnersBehind, Behind
<1>4. CASE UNCHANGED vars
  BY <1>3, <1>4 DEF vars, kernelVars, mutexVars
<1>5. CASE KernelStep
  <2>1. KernelNext /\ UNCHANGED owner
    BY <1>5 DEF KernelStep, mutexVars
  <2> QED
    BY <1>1, <1>2, <2>1, KernelNextBehind
<1>6. ASSUME NEW t \in Worker, TakeReturns(t)
      PROVE  OwnersBehind'
  <2>1. /\ k' = k /\ irq' = irq /\ UNCHANGED owner /\ k.cur = t /\ pc[t] = "woken"
        /\ Goto(t, "run") /\ t \in Thread
    BY <1>6 DEF TakeReturns, At, mutexVars, Worker
  <2>2. pc[t] \notin Away
    BY <2>1 DEF Away
  <2>3. \A u \in Thread \ {t} : k'.error[u] = k.error[u] /\ pc'[u] = pc[u]
    BY <1>1, <2>1 DEF Goto
  <2>4. \A u \in Thread : StaysBehind(u)
    BY <1>1, <2>1, <2>2, <2>3, StillBehind
  <2> QED
    BY <1>2, <2>1, <2>4
<1>7. ASSUME NEW t \in Worker, NEW m \in Object, MutexStep(t, m)
      PROVE  OwnersBehind'
  <2>1. t \in Thread /\ t # Idle
    BY DEF Worker
  <2>2. CASE TakeBlocks(t, m)
    <3>1. PICK s : s = Inherit(t, m)
      OBVIOUS
    <3>2. PICK time \in WaitTimes \ {0} : k' = Block(s, m, t, MutexFlag, time)
      BY <2>2, <3>1 DEF TakeBlocks
    <3>3. At(t, "run") /\ k.lock = 0 /\ Goto(t, "wait") /\ time \in Int
      BY <2>2, MutexAssumption DEF TakeBlocks, MayBlock
    <3>4. owner[m] \in Thread
      BY <2>2, TakeBlocksEffect
    <3>5. k.cur = t /\ k.stat[t] = "RUNNING"
      BY <1>1, <2>1, <3>3, AtRuns
    <3>6. Sound(s) /\ s.stat = k.stat /\ s.cur = k.cur /\ s.lock = k.lock
      BY <2>1, <3>1, <3>4, InheritIs
    <3>7. Sound(s) /\ s.stat[t] = "RUNNING" /\ s.lock = 0
      BY <3>3, <3>5, <3>6
    <3>8. Suspends(s, Block(s, m, t, MutexFlag, time), t)
      BY <2>1, <3>3, <3>7, BlockSuspends
    <3>9. k'.cur = t
      BY <3>2, <3>5, <3>6, <3>8 DEF Suspends
    <3>10. pc'[k'.cur] \in Away
      BY <1>1, <2>1, <3>3, <3>9 DEF Goto, Away
    <3>11. \A u \in Thread : Behind(u)'
      BY <3>10, AwayBehind
    <3> QED
      BY <3>11 DEF OwnersBehind
  <2>3. CASE ReleaseHandOver(t, m)
    <3>1. /\ At(t, "run") /\ owner[m] = t /\ Goto(t, "sched")
          /\ k.wait[m] # <<>> /\ k.wait[m] \in Seq(Thread)
      BY <1>1, <2>3 DEF ReleaseHandOver, KernelState
    <3>2. k.cur = t /\ k.stat[t] = "RUNNING"
      BY <1>1, <2>1, <3>1, AtRuns
    <3>3. k'.cur = k.cur
      BY <2>3, HandOverStays
    <3>4. pc'[k'.cur] \in Away
      BY <1>1, <2>1, <3>1, <3>2, <3>3 DEF Goto, Away
    <3>5. \A u \in Thread : Behind(u)'
      BY <3>4, AwayBehind
    <3> QED
      BY <3>5 DEF OwnersBehind
  <2>4. CASE ReleaseFree(t, m)
    <3>1. owner' = [owner EXCEPT ![m] = None]
      BY <2>4 DEF ReleaseFree
    <3>2. \A x \in Object : owner'[x] = None
      BY <1>1, <3>1 DEF Sole, MutexTypes
    <3> QED
      BY <3>2, MutexAssumption DEF OwnersBehind
  <2>5. CASE TakeFree(t, m) \/ TakeAgain(t, m) \/ TakeRefused(t, m) \/ ReleaseRefused(t, m)
    <3>1. /\ At(t, "run") /\ UNCHANGED <<pc, irq>>
          /\ owner' \in {owner, [owner EXCEPT ![m] = t]}
          /\ \E e \in {"OK", "TIMEOUT", "ERROR"} : SetError(t, e)
      BY <2>5 DEF TakeFree, TakeAgain, TakeRefused, ReleaseRefused, mutexVars
    <3>2. /\ k'.cur = k.cur /\ k'.prio = k.prio /\ k'.stat = k.stat /\ k'.lock = k.lock
          /\ \A u \in Thread \ {t} : k'.error[u] = k.error[u]
      BY <1>1, <2>1, <3>1 DEF SetError, KernelState
    <3>3. t = k.cur /\ pc[t] \notin Away /\ k.stat[t] = "RUNNING"
      BY <1>1, <2>1, <3>1, AtRuns DEF At, Away
    <3>4. \A u \in Thread : StaysBehind(u)
      BY <1>1, <2>1, <3>1, <3>2, <3>3, StillBehind
    <3>5. Behind(t)'
      BY <3>2, <3>3 DEF Behind
    <3>6. \A x \in Object : owner'[x] = owner[x] \/ owner'[x] = t
      BY <1>1, <3>1 DEF MutexTypes
    <3> QED
      BY <3>4, <3>5, <3>6 DEF OwnersBehind, StaysBehind
  <2>6. CASE ReleaseInner(t, m)
    BY <1>3, <2>6 DEF ReleaseInner
  <2> QED
    BY <1>7, <2>2, <2>3, <2>4, <2>5, <2>6 DEF MutexStep
<1> QED
  BY <1>4, <1>5, <1>6, <1>7 DEF Next

LEMMA InversionFree ==
    ASSUME MutexInv, Lent, OwnersBehind
    PROVE  NoInversion
<1> SUFFICES ASSUME irq = "on", k.lock = 0, pc[k.cur] \notin Away,
                    NEW m \in Object, NEW t \in Range(k.wait[m]),
                    k.stat[owner[m]] # "SUSPEND"
             PROVE  k.prio[k.cur] <= k.prio[t]
  BY DEF NoInversion, Away
<1>1. /\ Sound(k) /\ t \in Thread /\ owner[m] \in Thread /\ k.cur \in Thread
      /\ k.prio \in [Thread -> Prio] /\ Prio \subseteq Nat
      /\ k.stat \in [Thread -> Stat]
  BY Priorities DEF KernelState
<1>2. k.prio[owner[m]] <= k.prio[t]
  BY DEF Lent, OwnerInherits
<1>3. k.stat[owner[m]] \in {"READY", "RUNNING"}
  <2>1. owner[m] # None
    BY <1>1, MutexAssumption
  <2> QED
    BY <1>1, <2>1 DEF Lent, OrigInitial, Dormant, Stat
<1>4. CASE k.stat[owner[m]] = "READY"
  <2>1. k.prio[k.cur] <= k.prio[owner[m]]
    BY <1>1, <1>4 DEF OwnersBehind, Behind
  <2>2. k.prio[k.cur] \in Nat /\ k.prio[owner[m]] \in Nat /\ k.prio[t] \in Nat
    BY <1>1
  <2> QED
    BY <1>2, <2>1, <2>2
<1>5. CASE k.stat[owner[m]] = "RUNNING"
  BY <1>1, <1>2, <1>5 DEF Sound, OneRuns
<1> QED
  BY <1>3, <1>4, <1>5

(* rt_mutex_take and rt_mutex_release on a single mutex: the owner is      *)
(* never of a lower priority than a thread that waits for it, whatever the *)
(* suspend-list order, the timeouts and the number of threads.             *)
THEOREM OwnerInheritsAlone == ASSUME Sole PROVE Spec => []OwnerInherits
<1>1. Spec => []Unnested
  BY SoleAlways
<1> QED
  BY <1>1, OwnerInheritsUnnested, PTL

(* rt_mutex_release on a single mutex: a thread that owns nothing has the  *)
(* priority it was started with.                                           *)
THEOREM PriorityRestoredAlone == ASSUME Sole PROVE Spec => []PriorityRestored
<1>1. Spec => []Unnested
  BY SoleAlways
<1> QED
  BY <1>1, PriorityRestoredUnnested, PTL

(* Priority inheritance and rt_schedule together: while a thread waits for *)
(* the only mutex and its owner could run, no thread of a lower priority   *)
(* than the waiter has the processor in its own code.                      *)
THEOREM NoInversionAlone == ASSUME Sole PROVE Spec => []NoInversion
<1>1. Spec => []Lent
  BY SoleAlways, LentAlways, PTL
<1>2. Init => OwnersBehind
  BY PreemptsInit DEF Init, OwnersBehind
<1>3. MutexInv /\ MutexInv' /\ OwnersBehind /\ [Next]_vars => OwnersBehind'
  BY NextOwnersBehind
<1>4. MutexInv /\ Lent /\ OwnersBehind => NoInversion
  BY InversionFree
<1> QED
  BY <1>1, <1>2, <1>3, <1>4, InductiveInvariant, PTL DEF Spec

-----------------------------------------------------------------------------
(* The promise of a mutex.                                                 *)

(* The mutex as the promise sees it, and what a step does to it.           *)
Phase(t) == PhaseOf(t, OneMutex)
Taken(t) == depth[t][OneMutex]

PhasesStay == \A t \in Thread : Phase(t)' = Phase(t)
DepthsStay == \A t \in Thread : Taken(t)' = Taken(t)

Moves(t, from, to) ==
    /\ Phase(t) = from /\ Phase(t)' = to
    /\ \A u \in Thread \ {t} : Phase(u)' = Phase(u)

Deepens(t, n) ==
    /\ Taken(t)' = Taken(t) + n
    /\ \A u \in Thread \ {t} : Taken(u)' = Taken(u)

Promised == [Abstract!Next]_<<[t \in Thread |-> PhaseOf(t, OneMutex)],
                              [t \in Thread |-> depth[t][OneMutex]]>>

LEMMA PhasesStayMaps ==
    ASSUME PhasesStay
    PROVE  UNCHANGED [t \in Thread |-> PhaseOf(t, OneMutex)]
BY DEF PhasesStay, Phase

LEMMA DepthsStayMaps ==
    ASSUME DepthsStay
    PROVE  UNCHANGED [t \in Thread |-> depth[t][OneMutex]]
BY DEF DepthsStay, Taken

LEMMA StutterMaps == ASSUME PhasesStay, DepthsStay PROVE Promised
BY PhasesStayMaps, DepthsStayMaps DEF Promised

LEMMA MoveMaps ==
    ASSUME NEW t \in Thread, NEW from, NEW to, Moves(t, from, to)
    PROVE  Abstract!Move(t, from, to)
BY DEF Moves, Phase, Abstract!Move

LEMMA DeepenMaps ==
    ASSUME NEW t \in Thread, NEW n, Deepens(t, n)
    PROVE  Abstract!Deepen(t, n)
BY DEF Deepens, Taken, Abstract!Deepen

(* One mutex is watched.                                                   *)
LEMMA OneMutexIs ==
    ASSUME Object # {}
    PROVE  OneMutex \in Object
BY DEF OneMutex

(* What the four phases of the promise are in the code.                    *)
LEMMA PhaseIs ==
    ASSUME NEW t \in Thread
    PROVE  /\ Phase(t) = "want" <=> t \in Range(k.wait[OneMutex])
           /\ Phase(t) = "granted" <=> Granted(t, OneMutex)
           /\ Phase(t) = "out" <=> t \notin Range(k.wait[OneMutex])
                                   /\ target[t] # OneMutex
           /\ Phase(t) = "refused" <=> t \notin Range(k.wait[OneMutex])
                                       /\ target[t] = OneMutex /\ k.error[t] # "OK"
BY DEF Phase, PhaseOf, Granted

LEMMA SamePhase ==
    ASSUME NEW t \in Thread, target'[t] = target[t],
           t \in Range(k'.wait[OneMutex]) <=> t \in Range(k.wait[OneMutex]),
           target[t] = OneMutex => k'.error[t] = k.error[t]
    PROVE  Phase(t)' = Phase(t)
BY DEF Phase, PhaseOf

(* The promise calls a mutex free when no thread is recorded as its owner. *)
LEMMA FreeIs ==
    ASSUME MutexInv, OneMutex \in Object
    PROVE  /\ \A t \in Thread : Abstract!Holding(t) <=> owner[OneMutex] = t
           /\ Abstract!Free <=> owner[OneMutex] = None
<1>1. ASSUME NEW t \in Thread
      PROVE  Abstract!Holding(t) <=> owner[OneMutex] = t
  <2>1. /\ Told(t, OneMutex) = Count(t, OneMutex)
        /\ owner[OneMutex] = None <=> hold[OneMutex] = 0
    BY AgreesIs DEF MutexInv, FreeAgrees
  <2>2. depth[t][OneMutex] \in Nat /\ hold[OneMutex] \in Nat /\ t # None
    BY MutexAssumption DEF MutexInv, MutexTypes
  <2>3. Abstract!Holding(t) <=> depth[t][OneMutex] > 0 \/ Granted(t, OneMutex)
    BY PhaseIs DEF Abstract!Holding, Phase
  <2>4. Told(t, OneMutex) > 0 <=> depth[t][OneMutex] > 0 \/ Granted(t, OneMutex)
    BY <2>2 DEF Told
  <2>5. Count(t, OneMutex) > 0 <=> owner[OneMutex] = t
    BY <2>1, <2>2 DEF Count
  <2> QED
    BY <2>1, <2>3, <2>4, <2>5
<1>2. owner[OneMutex] \in Thread \cup {None} /\ None \notin Thread
  BY MutexAssumption DEF MutexInv, MutexTypes
<1> QED
  BY <1>1, <1>2 DEF Abstract!Free

(* depth changes at one mutex only.                                        *)
LEMMA DeepenSeen ==
    ASSUME MutexInv, OneMutex \in Object, NEW t \in Thread, NEW m \in Object,
           NEW n \in Int, depth[t][m] + n \in Nat, Deepen(t, m, n)
    PROVE  IF m = OneMutex THEN Deepens(t, n) ELSE DepthsStay
<1>1. depth \in [Thread -> [Object -> Nat]]
  BY DEF MutexInv, MutexTypes
<1>2. /\ depth'[t][m] = depth[t][m] + n
      /\ \A u \in Thread, x \in Object :
            u # t \/ x # m => depth'[u][x] = depth[u][x]
  BY <1>1, DeepenIs
<1> QED
  BY <1>2 DEF Deepens, DepthsStay, Taken

(* A call that neither waits nor wakes a thread is a take, a release that  *)
(* hands the mutex to nobody, or no step.                                  *)
LEMMA QuietMaps ==
    ASSUME MutexInv, OneMutex \in Object,
           NEW t \in Worker, NEW m \in Object, Quiet(t, m)
    PROVE  Promised
<1>1. /\ At(t, "run") /\ UNCHANGED target
      /\ \A u \in Thread \ {t} : k'.error[u] = k.error[u]
      /\ \A x \in Object : Range(k'.wait[x]) = Range(k.wait[x])
  BY QuietEffect
<1>2. /\ t \in Thread /\ target[t] = None /\ OneMutex # None
      /\ \A x \in Object : t \notin Range(k.wait[x]) /\ ~Granted(t, x)
  <2>1. t \in Thread /\ ~Inside(t)
    BY <1>1 DEF At, Inside, Worker
  <2> QED
    BY <2>1, OutsideIs, MutexAssumption
<1>3. PhasesStay
  BY <1>1, <1>2, SamePhase DEF PhasesStay
<1>4. Phase(t) = "out"
  BY <1>2, PhaseIs
<1>5. /\ depth[t][m] = Count(t, m) /\ depth[t][m] \in Nat
      /\ HoldMax \in Nat /\ HoldMax > 0
  <2>1. Told(t, m) = Count(t, m) /\ depth[t][m] \in Nat
    BY <1>2, AgreesIs DEF MutexInv, MutexTypes
  <2> QED
    BY <1>2, <2>1, MutexAssumption DEF Told
<1>6. ASSUME DepthsStay
      PROVE  Promised
  BY <1>3, <1>6, StutterMaps
<1>7. CASE UNCHANGED depth
  BY <1>6, <1>7 DEF DepthsStay, Taken
<1>8. ASSUME NEW n \in {-1, 1}, Deepen(t, m, n), depth[t][m] + n \in Nat,
             m = OneMutex => Abstract!Take(t) \/ Abstract!Release(t)
      PROVE  Promised
  <2>1. CASE m = OneMutex
    BY <1>2, <1>8, <2>1 DEF Promised, Abstract!Next
  <2>2. CASE m # OneMutex
    <3>1. DepthsStay
      BY <1>2, <1>8, <2>2, DeepenSeen
    <3> QED
      BY <1>6, <3>1
  <2> QED
    BY <2>1, <2>2
<1>9. ASSUME m = OneMutex, NEW n \in {-1, 1}, Deepen(t, m, n), depth[t][m] + n \in Nat
      PROVE  /\ Abstract!Deepen(t, n)
             /\ UNCHANGED [u \in Thread |-> PhaseOf(u, OneMutex)]
  <2>1. Deepens(t, n)
    BY <1>2, <1>9, DeepenSeen
  <2> QED
    BY <1>2, <1>3, <2>1, DeepenMaps, PhasesStayMaps
<1>10. CASE TakeAgain(t, m) \/ TakeFree(t, m)
  <2>1. CASE UNCHANGED depth
    BY <1>7, <2>1
  <2>2. CASE Deepen(t, m, 1) /\ (owner[m] = t => hold[m] < HoldMax)
                             /\ (owner[m] # t => value[m] > 0)
    <3>1. depth[t][m] + 1 \in Nat
      BY <1>5
    <3>2. ASSUME m = OneMutex
          PROVE  Abstract!Take(t)
      <4>1. /\ Abstract!Deepen(t, 1)
            /\ UNCHANGED [u \in Thread |-> PhaseOf(u, OneMutex)]
        BY <1>9, <2>2, <3>1, <3>2
      <4>2. depth[t][m] < HoldMax
        BY <1>5, <2>2 DEF Count
      <4>3. depth[t][m] > 0 \/ Abstract!Free
        <5>1. CASE owner[m] = t
          <6>1. Abstract!Holding(t)
            BY <1>2, <3>2, <5>1, FreeIs
          <6> QED
            BY <1>2, <1>4, <3>2, <6>1 DEF Abstract!Holding, Phase
        <5>2. CASE owner[m] # t
          <6>1. value[m] = 1
            BY <2>2, <5>2 DEF MutexInv, MutexTypes
          <6>2. owner[m] = None
            BY <6>1, AgreesIs DEF MutexInv, FreeAgrees
          <6> QED
            BY <3>2, <6>2, FreeIs
        <5> QED
          BY <5>1, <5>2
      <4> QED
        BY <1>2, <1>4, <3>2, <4>1, <4>2, <4>3 DEF Abstract!Take, Phase
    <3> QED
      BY <1>8, <2>2, <3>1, <3>2
  <2> QED
    BY <1>10, <2>1, <2>2 DEF TakeAgain, TakeFree
<1>11. CASE ReleaseInner(t, m) \/ ReleaseFree(t, m)
  <2>1. /\ owner[m] = t /\ hold[m] > 0 /\ Deepen(t, m, -1)
        /\ hold[m] > 1 \/ k.wait[m] = <<>>
    <3>1. hold[m] \in Nat
      BY <1>5 DEF MutexInv, MutexTypes
    <3> QED
      BY <1>11, <3>1 DEF ReleaseInner, ReleaseFree
  <2>2. depth[t][m] = hold[m] /\ depth[t][m] + (-1) \in Nat
    BY <1>5, <2>1 DEF Count
  <2>3. ASSUME m = OneMutex
        PROVE  Abstract!Release(t)
    <3>1. /\ Abstract!Deepen(t, -1)
          /\ UNCHANGED [u \in Thread |-> PhaseOf(u, OneMutex)]
      BY <1>9, <2>1, <2>2, <2>3
    <3>2. depth[t][m] > 1 \/ Abstract!Nobody("want")
      <4>1. CASE hold[m] > 1
        BY <2>2, <4>1
      <4>2. CASE k.wait[m] = <<>>
        <5>1. Range(<<>>) = {}
          BY DEF Range
        <5>2. \A u \in Thread : Phase(u) # "want"
          BY <2>3, <4>2, <5>1, PhaseIs
        <5> QED
          BY <5>2 DEF Abstract!Nobody, Phase
      <4> QED
        BY <2>1, <4>1, <4>2
    <3> QED
      BY <1>2, <2>1, <2>2, <2>3, <3>1, <3>2 DEF Abstract!Release
  <2> QED
    BY <1>8, <2>1, <2>2, <2>3
<1>12. CASE TakeRefused(t, m) \/ ReleaseRefused(t, m)
  BY <1>7, <1>12 DEF TakeRefused, ReleaseRefused
<1> QED
  BY <1>10, <1>11, <1>12 DEF Quiet

(* A step of the processor refuses one waiter, or is none of the promise.  *)
LEMMA KernelStepMaps ==
    ASSUME MutexInv, OneMutex \in Object, KernelStep
    PROVE  Promised
<1>1. KernelInv' /\ Shrinks /\ CallsGoOn
  <2>1. KernelInv /\ KernelNext
    BY DEF MutexInv, KernelStep, KernelNext
  <2> QED
    BY <2>1, KernelNextKeeps, KernelNextGoesOn
<1>2. UNCHANGED <<target, depth>>
  BY DEF KernelStep
<1>3. DepthsStay
  BY <1>2 DEF DepthsStay, Taken
<1>4. ASSUME NEW t \in Thread, Inside(t) => GoesOn(t)
      PROVE  Phase(t)' = Phase(t)
  <2>1. CASE Inside(t)
    <3>1. GoesOn(t)
      BY <1>4, <2>1
    <3> QED
      BY <1>2, <3>1, SamePhase DEF GoesOn
  <2>2. CASE ~Inside(t)
    <3>1. target[t] # OneMutex /\ t \notin Range(k.wait[OneMutex])
      BY <2>2, OutsideIs, MutexAssumption
    <3>2. t \notin Range(k'.wait[OneMutex])
      BY <1>1, <3>1 DEF Shrinks
    <3> QED
      BY <1>2, <3>1, <3>2, SamePhase
  <2> QED
    BY <2>1, <2>2
<1>5. PICK h \in Thread :
         /\ Inside(h) => GoesOn(h) \/ Refused(h)
         /\ \A t \in Thread \ {h} : Inside(t) => GoesOn(t)
  BY <1>1 DEF CallsGoOn
<1>6. \A t \in Thread \ {h} : Phase(t)' = Phase(t)
  BY <1>4, <1>5
<1>7. CASE Inside(h) => GoesOn(h)
  <2>1. PhasesStay
    BY <1>4, <1>6, <1>7 DEF PhasesStay
  <2> QED
    BY <1>3, <2>1, StutterMaps
<1>8. CASE Inside(h) /\ Refused(h)
  <2>1. h \in Range(k.wait[target[h]])
    BY <1>8 DEF MutexInv, Calls, Refused
  <2>2. CASE target[h] = OneMutex
    <3>1. Phase(h) = "want"
      BY <2>1, <2>2, PhaseIs
    <3>2. Phase(h)' = "refused"
      BY <1>2, <1>8, <2>2 DEF Phase, PhaseOf, Refused
    <3>3. Moves(h, "want", "refused")
      BY <1>6, <3>1, <3>2 DEF Moves
    <3> QED
      BY <1>3, <3>3, MoveMaps, DepthsStayMaps
         DEF Promised, Abstract!Next, Abstract!GiveUp
  <2>3. CASE target[h] # OneMutex
    <3>1. h \notin Range(k.wait[OneMutex])
      BY <2>3 DEF MutexInv, Calls
    <3>2. h \notin Range(k'.wait[OneMutex])
      BY <1>1, <3>1 DEF Shrinks
    <3>3. PhasesStay
      BY <1>2, <1>6, <2>3, <3>1, <3>2, SamePhase DEF PhasesStay
    <3> QED
      BY <1>3, <3>3, StutterMaps
  <2> QED
    BY <2>2, <2>3
<1> QED
  BY <1>5, <1>7, <1>8

(* A take that blocks asks; one for another mutex is no step.              *)
LEMMA TakeBlocksMaps ==
    ASSUME MutexInv, OneMutex \in Object,
           NEW t \in Worker, NEW m \in Object, TakeBlocks(t, m)
    PROVE  Promised
<1>1. /\ At(t, "run") /\ owner[m] # t /\ UNCHANGED depth
      /\ target' = [target EXCEPT ![t] = m]
  BY DEF TakeBlocks
<1>2. /\ owner[m] \in Thread
      /\ \A u \in Thread \ {t} : k'.error[u] = k.error[u]
      /\ \A x \in Object : Range(k'.wait[x]) =
            Range(k.wait[x]) \cup (IF x = m THEN {t} ELSE {})
  BY TakeBlocksEffect
<1>3. /\ t \in Thread /\ target \in [Thread -> Object \cup {None}]
      /\ target[t] # OneMutex /\ t \notin Range(k.wait[OneMutex])
  <2>1. t \in Thread /\ ~Inside(t)
    BY <1>1 DEF At, Inside, Worker
  <2> QED
    BY <2>1, OutsideIs, MutexAssumption DEF MutexInv, MutexTypes
<1>4. DepthsStay
  BY <1>1 DEF DepthsStay, Taken
<1>5. target'[t] = m /\ \A u \in Thread \ {t} : target'[u] = target[u]
  BY <1>1, <1>3
<1>6. \A u \in Thread \ {t} : Phase(u)' = Phase(u)
  <2>1. ASSUME NEW u \in Thread \ {t}
        PROVE  u \in Range(k'.wait[OneMutex]) <=> u \in Range(k.wait[OneMutex])
    BY <1>2
  <2> QED
    BY <1>2, <1>5, <2>1, SamePhase
<1>7. CASE m = OneMutex
  <2>1. t \in Range(k'.wait[OneMutex])
    BY <1>2, <1>7
  <2>2. Phase(t) = "out" /\ Phase(t)' = "want"
    BY <1>3, <2>1, PhaseIs DEF Phase, PhaseOf
  <2>3. Moves(t, "out", "want")
    BY <1>6, <2>2 DEF Moves
  <2>4. ~Abstract!Free /\ ~Abstract!Holding(t)
    BY <1>1, <1>2, <1>3, <1>7, FreeIs, MutexAssumption
  <2> QED
    BY <1>3, <1>4, <2>3, <2>4, MoveMaps, DepthsStayMaps
       DEF Promised, Abstract!Next, Abstract!Ask
<1>8. CASE m # OneMutex
  <2>1. t \notin Range(k'.wait[OneMutex]) /\ target'[t] # OneMutex
    BY <1>2, <1>3, <1>5, <1>8
  <2>2. Phase(t)' = "out" /\ Phase(t) = "out"
    BY <1>3, <2>1, PhaseIs DEF Phase, PhaseOf
  <2>3. PhasesStay
    BY <1>6, <2>2 DEF PhasesStay
  <2> QED
    BY <1>4, <2>3, StutterMaps
<1> QED
  BY <1>7, <1>8

(* The return of rt_mutex_take is the return of the promise.               *)
LEMMA TakeReturnsMaps ==
    ASSUME MutexInv, OneMutex \in Object, NEW t \in Worker, TakeReturns(t)
    PROVE  Promised
<1>1. /\ At(t, "woken") /\ UNCHANGED k
      /\ target' = [target EXCEPT ![t] = None]
      /\ IF k.error[t] = "OK" THEN Deepen(t, target[t], 1) ELSE UNCHANGED depth
  BY DEF TakeReturns
<1>2. /\ t \in Thread /\ target \in [Thread -> Object \cup {None}]
      /\ depth \in [Thread -> [Object -> Nat]] /\ OneMutex # None
  BY MutexAssumption DEF MutexInv, MutexTypes, Worker
<1>3. target[t] \in Object
  BY <1>1, <1>2 DEF MutexInv, Calls, Inside, At
<1>4. \A x \in Object : t \notin Range(k.wait[x])
  <2>1. k.stat[t] = "RUNNING"
    BY <1>1, <1>2, AtRuns DEF MutexInv
  <2> QED
    BY <1>2, <2>1 DEF MutexInv, KernelInv, Sound, Linked, WaitersSuspended
<1>5. target'[t] = None /\ \A u \in Thread \ {t} : target'[u] = target[u]
  BY <1>1, <1>2
<1>6. \A u \in Thread \ {t} : Phase(u)' = Phase(u)
  BY <1>1, <1>5, SamePhase
<1>7. Phase(t)' = "out"
  BY <1>1, <1>2, <1>4, <1>5 DEF Phase, PhaseOf
<1>8. k.error[t] = "OK" =>
         IF target[t] = OneMutex THEN Deepens(t, 1) ELSE DepthsStay
  <2>1. SUFFICES ASSUME k.error[t] = "OK"
                 PROVE  IF target[t] = OneMutex THEN Deepens(t, 1) ELSE DepthsStay
    OBVIOUS
  <2>2. Deepen(t, target[t], 1) /\ depth[t][target[t]] + 1 \in Nat /\ 1 \in Int
    BY <1>1, <1>2, <1>3, <2>1
  <2> QED
    BY <1>2, <1>3, <2>2, DeepenSeen
<1>9. k.error[t] # "OK" => DepthsStay
  BY <1>1 DEF DepthsStay, Taken
<1>10. CASE target[t] # OneMutex
  <2>1. Phase(t) = "out"
    BY <1>2, <1>4, <1>10, PhaseIs
  <2>2. PhasesStay
    BY <1>6, <1>7, <2>1 DEF PhasesStay
  <2> QED
    BY <1>8, <1>9, <1>10, <2>2, StutterMaps
<1>11. CASE target[t] = OneMutex /\ k.error[t] = "OK"
  <2>1. Phase(t) = "granted"
    BY <1>2, <1>4, <1>11, PhaseIs DEF Granted
  <2>2. Moves(t, "granted", "out") /\ Deepens(t, 1)
    BY <1>6, <1>7, <1>8, <1>11, <2>1 DEF Moves
  <2> QED
    BY <1>2, <2>2, MoveMaps, DeepenMaps DEF Promised, Abstract!Next, Abstract!Return
<1>12. CASE target[t] = OneMutex /\ k.error[t] # "OK"
  <2>1. Phase(t) = "refused"
    BY <1>2, <1>4, <1>12, PhaseIs
  <2>2. Moves(t, "refused", "out") /\ DepthsStay
    BY <1>6, <1>7, <1>9, <1>12, <2>1 DEF Moves
  <2> QED
    BY <1>2, <2>2, MoveMaps, DepthsStayMaps DEF Promised, Abstract!Next, Abstract!Return
<1> QED
  BY <1>10, <1>11, <1>12

(* The hand-over is a release to one of those who want the mutex.          *)
LEMMA HandOverMaps ==
    ASSUME MutexInv, OneMutex \in Object,
           NEW t \in Worker, NEW m \in Object, ReleaseHandOver(t, m)
    PROVE  Promised
<1>1. /\ At(t, "run") /\ owner[m] = t /\ hold[m] = 1
      /\ Deepen(t, m, -1) /\ UNCHANGED target
  BY DEF ReleaseHandOver
<1>2. PICK u \in Thread :
         /\ u \in Range(k.wait[m]) /\ u # t /\ k'.error = k.error
         /\ \A x \in Object : Range(k'.wait[x]) = Range(k.wait[x]) \ {u}
  BY HandOverEffect
<1>3. /\ t \in Thread /\ target[u] = m /\ k.error[u] = "OK"
      /\ depth[t][m] = 1
  <2>1. t \in Thread /\ target[u] = m /\ k.error[u] = "OK"
    BY <1>2 DEF MutexInv, Calls, Worker
  <2>2. ~Inside(t)
    BY <1>1 DEF At, Inside
  <2>3. ~Granted(t, m) /\ Told(t, m) = Count(t, m) /\ depth[t][m] \in Nat
    BY <2>1, <2>2, OutsideIs, AgreesIs DEF MutexInv, MutexTypes
  <2> QED
    BY <1>1, <2>1, <2>3 DEF Told, Count
<1>4. \A v \in Thread \ {u} : Phase(v)' = Phase(v)
  <2>1. \A v \in Thread \ {u} :
           v \in Range(k'.wait[OneMutex]) <=> v \in Range(k.wait[OneMutex])
    BY <1>2
  <2> QED
    BY <1>1, <1>2, <2>1, SamePhase
<1>5. IF m = OneMutex THEN Deepens(t, -1) ELSE DepthsStay
  <2>1. depth[t][m] + (-1) \in Nat /\ -1 \in Int
    BY <1>3
  <2> QED
    BY <1>1, <1>3, <2>1, DeepenSeen
<1>6. CASE m = OneMutex
  <2>1. Phase(u) = "want" /\ Phase(u)' = "granted"
    BY <1>1, <1>2, <1>3, <1>6 DEF Phase, PhaseOf
  <2>2. Moves(u, "want", "granted")
    BY <1>4, <2>1 DEF Moves
  <2>3. Abstract!Move(u, "want", "granted") /\ Abstract!Deepen(t, -1)
    BY <1>3, <1>5, <1>6, <2>2, MoveMaps, DeepenMaps
  <2>4. ~Abstract!Nobody("want")
    BY <2>1 DEF Abstract!Nobody, Phase
  <2>5. Abstract!Release(t)
    BY <1>2, <1>3, <1>6, <2>3, <2>4 DEF Abstract!Release
  <2> QED
    BY <1>3, <2>5 DEF Promised, Abstract!Next
<1>7. CASE m # OneMutex
  <2>1. u \notin Range(k.wait[OneMutex])
    BY <1>3, <1>7 DEF MutexInv, Calls
  <2>2. u \notin Range(k'.wait[OneMutex])
    BY <1>2
  <2>3. Phase(u)' = Phase(u)
    BY <1>1, <1>2, <2>1, <2>2, SamePhase
  <2>4. PhasesStay
    BY <1>4, <2>3 DEF PhasesStay
  <2> QED
    BY <1>5, <1>7, <2>4, StutterMaps
<1> QED
  BY <1>6, <1>7

LEMMA StepMaps ==
    ASSUME MutexInv, OneMutex \in Object, [Next]_vars
    PROVE  Promised
<1>1. CASE UNCHANGED vars
  <2>1. UNCHANGED <<k, target, depth>>
    BY <1>1 DEF vars, kernelVars
  <2>2. PhasesStay /\ DepthsStay
    BY <2>1 DEF PhasesStay, DepthsStay, Phase, PhaseOf, Taken
  <2> QED
    BY <2>2, StutterMaps
<1>2. CASE KernelStep
  BY <1>2, KernelStepMaps
<1>3. CASE \E t \in Worker : TakeReturns(t)
  BY <1>3, TakeReturnsMaps
<1>4. ASSUME NEW t \in Worker, NEW m \in Object, MutexStep(t, m)
      PROVE  Promised
  <2>1. CASE Quiet(t, m)
    BY <2>1, QuietMaps
  <2>2. CASE TakeBlocks(t, m)
    BY <2>2, TakeBlocksMaps
  <2>3. CASE ReleaseHandOver(t, m)
    BY <2>3, HandOverMaps
  <2> QED
    BY <1>4, <2>1, <2>2, <2>3 DEF MutexStep, Quiet
<1> QED
  BY <1>1, <1>2, <1>3, <1>4 DEF Next

LEMMA InitMaps ==
    ASSUME OneMutex \in Object, Init
    PROVE  Abstract!Init
<1>1. k.wait[OneMutex] = <<>>
  BY KernelInitInv DEF Init
<1>2. Range(<<>>) = {}
  BY DEF Range
<1>3. \A t \in Thread : target[t] # OneMutex /\ depth[t][OneMutex] = 0
  BY MutexAssumption DEF Init
<1>4. \A t \in Thread : PhaseOf(t, OneMutex) = "out"
  BY <1>1, <1>2, <1>3 DEF PhaseOf
<1> QED
  BY <1>3, <1>4 DEF Abstract!Init

-----------------------------------------------------------------------------
(* rt_mutex_take and rt_mutex_release implement the promise of a mutex:    *)
(* one holder at a time, re-entry, and a direct hand-over that neither a   *)
(* timeout nor a newcomer can intercept.                                   *)
THEOREM MutexRefines ==
    ASSUME Object # {}
    PROVE  Spec => ImplementsMutex
<1>1. OneMutex \in Object
  BY OneMutexIs
<1>2. Init => Abstract!Init
  BY <1>1, InitMaps
<1>3. MutexInv /\ [Next]_vars => Promised
  BY <1>1, StepMaps
<1> QED
  BY <1>2, <1>3, InductiveInvariant, PTL
     DEF Spec, ImplementsMutex, Abstract!Spec, Promised
=============================================================================
