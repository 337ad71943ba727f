-------------------------- MODULE SemaphoreProofs --------------------------
(***************************************************************************)
(* The semaphore of module Semaphore, for every set of threads, every      *)
(* assignment of priorities and time slices, both kinds of suspend list    *)
(* and every tick width: the safety invariants that its runs check, the    *)
(* promise of AbstractSemaphore, the rule of preemption and the order of   *)
(* service.                                                                *)
(*                                                                         *)
(* Then the life of the threads that use it (module Threads).  The         *)
(* constants of that module, and ThreadsAssumption, serve this second part *)
(* only.                                                                   *)
(***************************************************************************)
EXTENDS Threads, ProcessorProofs

(* The invariant.  That a semaphore which is gone has no waiter is what    *)
(* lets rt_sem_init give it a value.                                       *)
SemInv ==
    /\ KernelInv
    /\ value \in 0 .. SemValueMax
    /\ life \in {"live", "closing", "gone"}
    /\ asked \in Seq(Thread)
    /\ NoTokenWhileWaiting
    /\ life = "gone" => Waiters = {}

LEMMA InitInv == Init => SemInv
<1> SUFFICES ASSUME Init
             PROVE  SemInv
  OBVIOUS
<1>1. KernelInv /\ \A o \in Object : k.wait[o] = <<>>
  BY KernelInitInv DEF Init
<1>2. Waiters = {}
  BY <1>1, SemaphoreAssumption DEF Waiters, Range
<1>3. asked \in Seq(Thread)
  BY DEF Init
<1> QED
  BY <1>1, <1>2, <1>3 DEF Init, SemInv, NoTokenWhileWaiting

(* Waiters are threads, and an empty list has none.                        *)
LEMMA WaitersAre ==
    ASSUME KernelInv
    PROVE  /\ k.wait[Sem] \in Seq(Thread) /\ Sem \in Object
           /\ Waiters \subseteq Thread
           /\ k.wait[Sem] = <<>> <=> Waiters = {}
<1>1. Sem \in Object /\ k \in KernelState
  BY SemaphoreAssumption DEF KernelInv, Sound, Linked
<1>2. k.wait[Sem] \in Seq(Thread)
  BY <1>1 DEF KernelState
<1>3. k.wait[Sem] = <<>> <=> Waiters = {}
  BY <1>2, EmptyRange DEF Waiters
<1>4. Waiters \subseteq Thread
  BY <1>2, RangeOfSeq DEF Waiters, Range
<1> QED
  BY <1>1, <1>2, <1>3, <1>4

(* No thread starts to wait in a step in which the lists shrink.           *)
LEMMA ShrinksWaiters ==
    ASSUME KernelInv, KernelInv', Shrinks
    PROVE  Waiters' \subseteq Waiters
<1>1. Sem \in Object /\ Waiters' \subseteq Thread
  <2>1. Sem \in Object /\ k' \in KernelState
    BY SemaphoreAssumption DEF KernelInv, Sound, Linked
  <2>2. k'.wait[Sem] \in Seq(Thread)
    BY <2>1 DEF KernelState
  <2> QED
    BY <2>1, <2>2, RangeOfSeq DEF Waiters, Range
<1> QED
  BY <1>1 DEF Shrinks, Waiters

(* The history variable keeps its type.                                    *)
LEMMA RememberType ==
    ASSUME asked \in Seq(Thread), Remember
    PROVE  asked' \in Seq(Thread)
<1> DEFINE t == CHOOSE t \in Range(asked) \ Range(k'.wait[Sem]) : TRUE
<1>1. asked' = asked \/ asked' = Without(asked, t)
  BY DEF Remember
<1> HIDE DEF t
<1>2. Without(asked, t) \in Seq(Thread)
  BY WithoutType
<1> QED
  BY <1>1, <1>2

(* A step in which nobody starts to wait, with what it may do to value.    *)
LEMMA NoNewWaiter ==
    ASSUME SemInv, KernelInv', Shrinks,
           asked' \in Seq(Thread),
           value' \in 0 .. SemValueMax,
           life' \in {"live", "closing", "gone"},
           value' = 0 \/ value' <= value \/ Waiters' = {},
           life' = "gone" => life = "gone" \/ Waiters' = {}
    PROVE  SemInv'
<1>1. Waiters' \subseteq Waiters
  BY ShrinksWaiters DEF SemInv
<1>2. Waiters' # {} => value' = 0
  BY <1>1, SemaphoreAssumption DEF SemInv, NoTokenWhileWaiting
<1>3. life' = "gone" => Waiters' = {}
  BY <1>1 DEF SemInv
<1> QED
  BY <1>2, <1>3 DEF SemInv, NoTokenWhileWaiting

(* A step of the semaphore that leaves the kernel state alone.             *)
LEMMA StillStep ==
    ASSUME KernelInv, NEW t \in Thread, k.cur = t, k.stat[t] = "RUNNING",
           UNCHANGED k, NEW loc \in Location, Goto(t, loc) \/ UNCHANGED pc,
           irq' \in {"on", "off", "tick"}
    PROVE  KernelInv' /\ Shrinks /\ Waiters' = Waiters
<1>1. Wakes(k, k')
  BY WakesNone DEF KernelInv
<1>2. KernelInv' /\ Shrinks
  <2>1. CASE Goto(t, loc)
    BY <1>1, <2>1, RunningStep
  <2>2. CASE UNCHANGED pc
    BY <1>1, <2>2, WakeStep
  <2> QED
    BY <2>1, <2>2
<1>3. Waiters' = Waiters
  BY DEF Waiters
<1> QED
  BY <1>2, <1>3

(* rt_ipc_list_resume and a turn of rt_ipc_list_resume_all wake a waiter.  *)
LEMMA ResumeHeadWakes ==
    ASSUME KernelInv, k.wait[Sem] # <<>>
    PROVE  Wakes(k, IpcListResume(k, Sem)) /\ Wakes(k, IpcListAbort(k, Sem))
<1> DEFINE t == Head(k.wait[Sem])
           e == [k EXCEPT !.error[t] = "ERROR"]
<1>1. t \in Thread
  BY WaitersAre, HeadIn
<1>2. Sound(k) /\ k \in KernelState
  BY DEF KernelInv, Sound, Linked
<1>3. /\ IpcListResume(k, Sem) = ThreadResume(k, t)
      /\ IpcListAbort(k, Sem) = ThreadResume(e, t)
  BY DEF IpcListResume, IpcListAbort
<1> HIDE DEF t
<1>4. /\ e \in KernelState
      /\ e.cur = k.cur /\ e.stat = k.stat /\ e.prio = k.prio
      /\ e.mask = k.mask /\ e.ready = k.ready /\ e.group = k.group
      /\ e.wait = k.wait /\ e.timers = k.timers /\ e.lock = k.lock
  BY <1>1, <1>2 DEF KernelState, Error
<1> HIDE DEF e
<1>5. Sound(e) /\ Wakes(k, e)
  BY <1>2, <1>4, PlainUpdate
<1>6. Wakes(k, ThreadResume(k, t)) /\ Wakes(e, ThreadResume(e, t))
  BY <1>1, <1>2, <1>5, ResumeWakes
<1>7. Wakes(k, ThreadResume(e, t))
  BY <1>5, <1>6, WakesTransitive
<1> QED
  BY <1>3, <1>6, <1>7

-----------------------------------------------------------------------------
(* The calls of module Semaphore.                                          *)

LEMMA KernelStepKeeps ==
    ASSUME SemInv, KernelStep
    PROVE  SemInv'
<1>1. KernelInv' /\ Shrinks
  BY KernelNextKeeps DEF SemInv, KernelStep
<1>2. asked' \in Seq(Thread)
  BY RememberType DEF SemInv, KernelStep
<1>3. value' \in 0 .. SemValueMax /\ value' = value /\ life' = life
  BY DEF SemInv, KernelStep
<1>4. value' <= value
  BY <1>3, SemaphoreAssumption
<1> QED
  BY <1>1, <1>2, <1>3, <1>4, NoNewWaiter DEF SemInv

(* The calls that neither suspend nor wake a thread.                       *)
LEMMA QuietKeeps ==
    ASSUME SemInv, NEW t \in Worker,
           \/ TakeAvailable(t) \/ TakeReturns(t)
           \/ ResetBegin(t) \/ ResetEnd(t)
           \/ DetachBegin(t) \/ DetachTest(t) \/ DetachHalt(t)
           \/ DetachEnd(t) \/ SemInit(t)
    PROVE  SemInv'
<1>1. KernelInv /\ t \in Thread /\ value \in 0 .. SemValueMax
      /\ SemValueMax \in Nat /\ irq \in {"on", "off", "tick"}
  BY SemaphoreAssumption DEF SemInv, Worker, KernelInv
<1>2. k.cur = t /\ k.stat[t] = "RUNNING"
  <2>1. CASE ResetEnd(t)
    BY <1>1, <2>1 DEF ResetEnd, KernelInv, PcAgrees, Sound, OneRuns
  <2>2. CASE ~ResetEnd(t)
    <3>1. PICK loc \in {"run", "woken", "detach", "dequeue"} : At(t, loc)
      BY <2>2 DEF TakeAvailable, TakeReturns, ResetBegin,
                  DetachBegin, DetachTest, DetachHalt, DetachEnd, SemInit
    <3> QED
      BY <1>1, <3>1, AtRuns
  <2> QED
    BY <2>1, <2>2
<1>3. /\ UNCHANGED <<k, asked>>
      /\ irq' \in {"on", "off", "tick"}
      /\ \E loc \in Location : Goto(t, loc) \/ UNCHANGED pc
  BY <1>1 DEF TakeAvailable, TakeReturns, ResetBegin, ResetEnd, DetachBegin,
              DetachTest, DetachHalt, DetachEnd, SemInit, kernelVars, semVars, Location
<1>4. KernelInv' /\ Shrinks /\ Waiters' = Waiters
  <2>1. PICK loc \in Location : Goto(t, loc) \/ UNCHANGED pc
    BY <1>3
  <2>2. UNCHANGED k
    BY <1>3
  <2> QED
    BY <1>1, <1>2, <1>3, <2>1, <2>2, StillStep
<1>5. k.wait[Sem] = <<>> => Waiters' = {}
  BY <1>1, <1>4, WaitersAre
<1>6. asked' \in Seq(Thread)
  BY <1>3 DEF SemInv
<1>7. /\ value' \in 0 .. SemValueMax
      /\ value' <= value \/ Waiters' = {}
  <2>1. CASE TakeAvailable(t)
    BY <1>1, <2>1 DEF TakeAvailable
  <2>2. CASE ResetEnd(t)
    BY <1>5, <2>2 DEF ResetEnd
  <2>3. CASE SemInit(t)
    BY <1>4, <2>3 DEF SemInit, SemInv
  <2>4. CASE UNCHANGED value
    BY <1>1, <2>4
  <2> QED
    BY <2>1, <2>2, <2>3, <2>4 DEF TakeReturns, ResetBegin, DetachBegin,
                                  DetachTest, DetachHalt, DetachEnd, semVars
<1>8. /\ life' \in {"live", "closing", "gone"}
      /\ life' = "gone" => life = "gone" \/ Waiters' = {}
  <2>1. CASE DetachEnd(t)
    BY <1>5, <2>1 DEF DetachEnd
  <2>2. CASE ~DetachEnd(t)
    BY <2>2 DEF SemInv, TakeAvailable, TakeReturns, ResetBegin, ResetEnd,
                DetachBegin, DetachTest, DetachHalt, SemInit, semVars
  <2> QED
    BY <2>1, <2>2
<1> QED
  BY <1>4, <1>6, <1>7, <1>8, NoNewWaiter

(* The taker that blocks found no token.                                   *)
LEMMA TakeBlocksKeeps ==
    ASSUME SemInv, NEW t \in Worker, TakeBlocks(t)
    PROVE  SemInv'
<1>1. PICK time \in WaitTimes \ {0} : k' = Block(k, Sem, t, SemFlag, time)
  BY DEF TakeBlocks
<1>2. /\ At(t, "run") /\ k.lock = 0 /\ Goto(t, "wait")
      /\ value = 0 /\ life = "live"
      /\ asked' = Append(asked, t)
      /\ UNCHANGED irq /\ UNCHANGED value /\ UNCHANGED life
  BY DEF TakeBlocks, MayBlock
<1>3. /\ KernelInv /\ Sound(k)
      /\ t \in Thread /\ t # Idle /\ time \in Int /\ Sem \in Object
  BY SemaphoreAssumption DEF SemInv, KernelInv, Worker
<1>4. k.cur = t /\ k.stat[t] = "RUNNING"
  BY <1>2, <1>3, AtRuns
<1>5. Suspends(k, k', t) /\ t \in Range(k'.wait[Sem])
  BY <1>1, <1>2, <1>3, <1>4, BlockSuspends
<1>6. KernelInv'
  BY <1>2, <1>3, <1>4, <1>5, SuspendingStep
<1>7. asked' \in Seq(Thread)
  BY <1>2, <1>3, AppendProperties DEF SemInv
<1> QED
  BY <1>2, <1>6, <1>7 DEF SemInv, NoTokenWhileWaiting

(* A release that finds a waiter wakes it; only one that finds none makes  *)
(* a token.                                                                *)
LEMMA ReleaseKeeps ==
    ASSUME SemInv, NEW t \in Worker, Release(t)
    PROVE  SemInv'
<1>1. KernelInv /\ t \in Thread /\ value \in 0 .. SemValueMax
      /\ SemValueMax \in Nat /\ irq \in {"on", "off", "tick"}
  BY SemaphoreAssumption DEF SemInv, Worker, KernelInv
<1>2. k.cur = t /\ k.stat[t] = "RUNNING"
  BY <1>1, AtRuns DEF Release
<1>3. /\ irq' \in {"on", "off", "tick"} /\ asked' \in Seq(Thread)
      /\ life' = life
  BY <1>1, RememberType DEF Release, SemInv
<1>4. CASE k.wait[Sem] # <<>>
  <2>1. k' = IpcListResume(k, Sem) /\ Goto(t, "sched") /\ UNCHANGED value
    BY <1>4 DEF Release
  <2>2. Wakes(k, k') /\ "sched" \in Location
    BY <1>1, <1>4, <2>1, ResumeHeadWakes DEF Location
  <2>3. KernelInv' /\ Shrinks
    BY <1>1, <1>2, <1>3, <2>1, <2>2, RunningStep
  <2>4. value' \in 0 .. SemValueMax /\ value' <= value
    BY <1>1, <2>1
  <2> QED
    BY <1>3, <2>3, <2>4, NoNewWaiter DEF SemInv
<1>5. CASE k.wait[Sem] = <<>>
  <2>1. /\ UNCHANGED k /\ UNCHANGED pc
        /\ value' = IF value < SemValueMax THEN value + 1 ELSE value
    BY <1>5 DEF Release
  <2>2. "run" \in Location
    BY DEF Location
  <2>3. KernelInv' /\ Shrinks /\ Waiters' = Waiters
    BY <1>1, <1>2, <1>3, <2>1, <2>2, StillStep
  <2>4. Waiters' = {}
    BY <1>1, <1>5, <2>3, WaitersAre
  <2>5. value' \in 0 .. SemValueMax
    BY <1>1, <2>1
  <2> QED
    BY <1>3, <2>3, <2>4, <2>5, NoNewWaiter DEF SemInv
<1> QED
  BY <1>4, <1>5

LEMMA IsrReleaseKeeps ==
    ASSUME SemInv, IsrRelease
    PROVE  SemInv'
<1>1. KernelInv /\ Sound(k) /\ value \in 0 .. SemValueMax
      /\ SemValueMax \in Nat /\ irq \in {"on", "off", "tick"}
  BY SemaphoreAssumption DEF SemInv, KernelInv
<1>2. /\ irq' \in {"on", "off", "tick"} /\ asked' \in Seq(Thread)
      /\ life' = life /\ UNCHANGED pc
  BY <1>1, RememberType DEF IsrRelease, SemInv
<1>3. CASE k.wait[Sem] # <<>>
  <2> DEFINE r == IpcListResume(k, Sem)
  <2>1. k' = Schedule(r) /\ UNCHANGED value
    BY <1>3 DEF IsrRelease
  <2>2. Wakes(k, r)
    BY <1>1, <1>3, ResumeHeadWakes
  <2> HIDE DEF r
  <2>3. Sound(r)
    BY <2>2 DEF Wakes
  <2>4. Wakes(r, k')
    BY <2>1, <2>3, ScheduleWakes
  <2>5. Wakes(k, k')
    BY <2>2, <2>4, WakesTransitive
  <2>6. KernelInv' /\ Shrinks
    BY <1>1, <1>2, <2>5, WakeStep
  <2>7. value' \in 0 .. SemValueMax /\ value' <= value
    BY <1>1, <2>1
  <2> QED
    BY <1>2, <2>6, <2>7, NoNewWaiter DEF SemInv
<1>4. CASE k.wait[Sem] = <<>>
  <2>1. /\ UNCHANGED k
        /\ value' = IF value < SemValueMax THEN value + 1 ELSE value
    BY <1>4 DEF IsrRelease
  <2>2. Wakes(k, k')
    BY <1>1, <2>1, WakesNone
  <2>3. KernelInv' /\ Shrinks
    BY <1>1, <1>2, <2>2, WakeStep
  <2>4. Waiters' = {}
    BY <1>1, <1>4, <2>1, WaitersAre DEF Waiters
  <2>5. value' \in 0 .. SemValueMax
    BY <1>1, <2>1
  <2> QED
    BY <1>2, <2>3, <2>4, <2>5, NoNewWaiter DEF SemInv
<1> QED
  BY <1>3, <1>4

(* A turn of the loop of rt_ipc_list_resume_all.                           *)
LEMMA AbortKeeps ==
    ASSUME SemInv, NEW t \in Worker, ResetWake(t) \/ DetachWake(t)
    PROVE  SemInv'
<1>1. KernelInv /\ t \in Thread /\ value \in 0 .. SemValueMax
      /\ SemValueMax \in Nat /\ irq \in {"on", "off", "tick"}
  BY SemaphoreAssumption DEF SemInv, Worker, KernelInv
<1>2. /\ k.wait[Sem] # <<>> /\ k' = IpcListAbort(k, Sem) /\ Remember
      /\ irq' \in {"on", "off", "tick"} /\ UNCHANGED value /\ UNCHANGED life
  BY <1>1 DEF ResetWake, DetachWake
<1>3. Wakes(k, k')
  BY <1>1, <1>2, ResumeHeadWakes
<1>4. KernelInv' /\ Shrinks
  <2>1. CASE ResetWake(t)
    <3>1. UNCHANGED pc
      BY <2>1 DEF ResetWake
    <3> QED
      BY <1>1, <1>2, <1>3, <3>1, WakeStep
  <2>2. CASE DetachWake(t)
    <3>1. At(t, "dequeue") /\ Goto(t, "detach") /\ "detach" \in Location
      BY <2>2 DEF DetachWake, Location
    <3>2. k.cur = t /\ k.stat[t] = "RUNNING"
      BY <1>1, <3>1, AtRuns
    <3> QED
      BY <1>1, <1>2, <1>3, <3>1, <3>2, RunningStep
  <2> QED
    BY <2>1, <2>2
<1>5. asked' \in Seq(Thread)
  BY <1>2, RememberType DEF SemInv
<1>6. value' \in 0 .. SemValueMax /\ value' <= value /\ life' = life
  BY <1>1, <1>2
<1> QED
  BY <1>4, <1>5, <1>6, NoNewWaiter DEF SemInv

LEMMA NextKeeps == SemInv /\ [Next]_vars => SemInv'
<1> SUFFICES ASSUME SemInv, [Next]_vars
             PROVE  SemInv'
  OBVIOUS
<1>1. ASSUME UNCHANGED vars
      PROVE  SemInv'
  BY <1>1 DEF vars, kernelVars, semVars, SemInv, KernelInv, PcAgrees,
              NoneStranded, NoTokenWhileWaiting, Waiters
<1>2. CASE KernelStep
  BY <1>2, KernelStepKeeps
<1>3. CASE IsrRelease
  BY <1>3, IsrReleaseKeeps
<1>4. ASSUME NEW t \in Worker, SemStep(t)
      PROVE  SemInv'
  <2>1. CASE TakeBlocks(t)
    BY <2>1, TakeBlocksKeeps
  <2>2. CASE Release(t)
    BY <2>2, ReleaseKeeps
  <2>3. CASE ResetWake(t) \/ DetachWake(t)
    BY <2>3, AbortKeeps
  <2>4. CASE \/ TakeAvailable(t) \/ TakeReturns(t)
             \/ ResetBegin(t) \/ ResetEnd(t)
             \/ DetachBegin(t) \/ DetachTest(t) \/ DetachHalt(t)
             \/ DetachEnd(t) \/ SemInit(t)
    BY <2>4, QuietKeeps
  <2>5. CASE Halted(t)
    BY <1>1, <2>5 DEF Halted
  <2> QED
    BY <1>4, <2>1, <2>2, <2>3, <2>4, <2>5 DEF SemStep
<1> QED
  BY <1>2, <1>3, <1>4, <1>1 DEF Next

-----------------------------------------------------------------------------
(* The invariant holds in every reachable state: of the kernel operations  *)
(* that blocking, waking, timing out and switching are made of, and of the *)
(* calls of ipc.c on the semaphore.                                        *)
THEOREM InductiveInvariant == Spec => []SemInv
<1>1. Init => SemInv
  BY InitInv
<1>2. SemInv /\ [Next]_vars => SemInv'
  BY NextKeeps
<1> QED
  BY <1>1, <1>2, PTL DEF Spec

(* Every variable keeps its type: the lists hold threads, rt_tick stays in *)
(* its width, and sem->value between 0 and RT_SEM_VALUE_MAX.               *)
THEOREM TypeCorrect == Spec => []TypeOK
<1>1. SemInv => TypeOK
  BY KernelInvGives DEF SemInv, TypeOK
<1> QED
  BY <1>1, InductiveInvariant, PTL

(* The ready lists, their bitmap, the states and priorities of the threads *)
(* and the suspend lists agree wherever interrupts are enabled and inside  *)
(* the handlers (scheduler.c, thread.c, timer.c, ipc.c).                   *)
THEOREM SchedulerStaysConsistent == Spec => []SchedulerConsistent
<1>1. SemInv => SchedulerConsistent
  BY KernelInvGives DEF SemInv
<1> QED
  BY <1>1, InductiveInvariant, PTL

(* No wakeup is lost: a thread waits on the semaphore only while it has no *)
(* token (rt_sem_take, rt_sem_release, rt_sem_control).                    *)
THEOREM NoLostWakeup == Spec => []NoTokenWhileWaiting
<1>1. SemInv => NoTokenWhileWaiting
  BY DEF SemInv
<1> QED
  BY <1>1, InductiveInvariant, PTL

(* A suspended thread can be found by a wakeup, and only suspended threads *)
(* have a timer armed, as rt_thread_timeout asserts.                       *)
THEOREM NobodyStranded == Spec => []NoneStranded
<1>1. SemInv => NoneStranded
  BY DEF SemInv, KernelInv
<1> QED
  BY <1>1, InductiveInvariant, PTL

-----------------------------------------------------------------------------
(* The promise of a semaphore.                                             *)

(* Who waits is inside rt_sem_take and has not been told of an error yet,  *)
(* and who is suspended there still waits.                                 *)
Calls ==
    \A t \in Thread :
        /\ t \in Waiters => Inside(t) /\ k.error[t] = "OK"
        /\ Inside(t) /\ k.stat[t] = "SUSPEND" => t \in Waiters

RefInv == SemInv /\ Calls

-----------------------------------------------------------------------------
(* The semaphore as the promise sees it, and what a step does to it.       *)
PhasesStay == \A t \in Thread : PhaseOf(t)' = PhaseOf(t)

Moves(t, from, to) ==
    /\ PhaseOf(t) = from /\ PhaseOf(t)' = to
    /\ \A u \in Thread \ {t} : PhaseOf(u)' = PhaseOf(u)

Promised == [Abstract!Next]_<<value, [t \in Thread |-> PhaseOf(t)]>>

LEMMA PhasesStayMaps ==
    ASSUME PhasesStay
    PROVE  UNCHANGED [t \in Thread |-> PhaseOf(t)]
BY DEF PhasesStay

LEMMA StutterMaps == ASSUME PhasesStay, UNCHANGED value PROVE Promised
BY PhasesStayMaps DEF Promised

LEMMA MoveMaps ==
    ASSUME NEW t \in Thread, NEW from, NEW to, Moves(t, from, to)
    PROVE  Abstract!Move(t, from, to)
BY DEF Moves, Abstract!Move

LEMMA NobodyWants ==
    ASSUME k.wait[Sem] = <<>>
    PROVE  Abstract!Nobody("want")
<1>1. Waiters = {}
  BY DEF Waiters, Range
<1> QED
  BY <1>1 DEF Abstract!Nobody, PhaseOf

LEMMA PhaseIs ==
    ASSUME NEW t \in Thread
    PROVE  /\ PhaseOf(t) = "want" <=> t \in Waiters
           /\ t \notin Waiters /\ ~Inside(t) => PhaseOf(t) = "out"
           /\ t \notin Waiters /\ Inside(t) =>
                 PhaseOf(t) = IF k.error[t] = "OK" THEN "granted" ELSE "refused"
BY DEF PhaseOf, Inside

(* A step that leaves the calls as they are.                               *)
LEMMA CallStays ==
    ASSUME RefInv, KernelInv', Shrinks, NEW t \in Thread,
           Inside(t)' <=> Inside(t), Inside(t) => GoesOn(t)
    PROVE  /\ PhaseOf(t)' = PhaseOf(t)
           /\ t \in Waiters' => Inside(t)' /\ k'.error[t] = "OK"
           /\ Inside(t)' /\ k'.stat[t] = "SUSPEND" => t \in Waiters'
<1>1. Sem \in Object /\ Waiters' \subseteq Waiters
  BY WaitersAre, ShrinksWaiters DEF RefInv, SemInv
<1>2. CASE Inside(t)
  <2>1. /\ t \in Waiters' <=> t \in Waiters
        /\ k'.error[t] = k.error[t]
        /\ k'.stat[t] = "SUSPEND" => k.stat[t] = "SUSPEND"
    BY <1>1, <1>2 DEF GoesOn, Waiters
  <2> QED
    BY <1>2, <2>1 DEF PhaseOf, Inside, RefInv, Calls
<1>3. CASE ~Inside(t)
  <2>1. t \notin Waiters /\ t \notin Waiters'
    BY <1>1, <1>3 DEF RefInv, Calls
  <2> QED
    BY <1>3, <2>1 DEF PhaseOf, Inside
<1> QED
  BY <1>2, <1>3

LEMMA CallsStay ==
    ASSUME RefInv, KernelInv', Shrinks,
           \A t \in Thread : Inside(t)' <=> Inside(t),
           \A t \in Thread : Inside(t) => GoesOn(t)
    PROVE  Calls' /\ PhasesStay
BY CallStays DEF Calls, PhasesStay

(* A step that ends the wait of one thread, by a grant or a refusal.       *)
Ends(h, e) ==
    /\ h \in Waiters /\ h \notin Waiters'
    /\ k'.stat[h] # "SUSPEND" /\ k'.error[h] = e

LEMMA WaitEnds ==
    ASSUME RefInv, KernelInv', Shrinks, NEW h \in Thread, NEW e, Ends(h, e),
           \A t \in Thread : Inside(t)' <=> Inside(t),
           \A t \in Thread \ {h} : Inside(t) => GoesOn(t)
    PROVE  /\ Calls'
           /\ Moves(h, "want", IF e = "OK" THEN "granted" ELSE "refused")
<1>1. Inside(h) /\ Inside(h)'
  BY DEF Ends, RefInv, Calls
<1>2. Calls'
  BY <1>1, CallStays DEF Calls, Ends
<1>3. PhaseOf(h) = "want"
  BY PhaseIs DEF Ends
<1>4. PhaseOf(h)' = IF e = "OK" THEN "granted" ELSE "refused"
  BY <1>1 DEF Ends, PhaseOf, Inside
<1>5. \A t \in Thread \ {h} : PhaseOf(t)' = PhaseOf(t)
  BY CallStays
<1> QED
  BY <1>2, <1>3, <1>4, <1>5 DEF Moves

-----------------------------------------------------------------------------
(* The steps.                                                              *)

(* A step of the processor refuses one waiter, or is none of the promise.  *)
LEMMA KernelStepMaps ==
    ASSUME RefInv, KernelStep
    PROVE  Calls' /\ Promised
<1>1. KernelInv' /\ Shrinks /\ CallsGoOn
  BY KernelNextKeeps, KernelNextGoesOn DEF RefInv, SemInv, KernelStep
<1>2. UNCHANGED value
  BY DEF KernelStep
<1>3. PICK h \in Thread :
         /\ Inside(h) => GoesOn(h) \/ Refused(h)
         /\ \A t \in Thread \ {h} : Inside(t) => GoesOn(t)
  BY <1>1 DEF CallsGoOn
<1>4. \A t \in Thread : Inside(t)' <=> Inside(t)
  BY <1>1 DEF CallsGoOn
<1>5. CASE Inside(h) => GoesOn(h)
  <2>1. \A t \in Thread : Inside(t) => GoesOn(t)
    BY <1>3, <1>5
  <2>2. Calls' /\ PhasesStay
    BY <1>1, <1>4, <2>1, CallsStay
  <2> QED
    BY <1>2, <2>2, StutterMaps
<1>6. CASE Inside(h) /\ Refused(h)
  <2>1. Sem \in Object
    BY SemaphoreAssumption
  <2>2. Ends(h, "TIMEOUT")
    BY <1>6, <2>1 DEF Refused, Ends, RefInv, Calls, Waiters
  <2>3. Calls' /\ Moves(h, "want", "refused")
    BY <1>1, <1>3, <1>4, <2>2, WaitEnds
  <2> QED
    BY <1>2, <2>3, MoveMaps DEF Promised, Abstract!Next, Abstract!GiveUp
<1> QED
  BY <1>3, <1>5, <1>6

(* A wakeup of one waiter, as the two loops of ipc.c make it: s is the     *)
(* kernel state in which h has left the list with e in thread->error.      *)
Wakens(s, h, e) ==
    /\ h \in Waiters /\ h \in Thread
    /\ Wakes(k, s) /\ s.stat[h] # "SUSPEND" /\ s.error[h] = e
    /\ \A t \in Thread \ {h} : s.error[t] = k.error[t]
    /\ \A o \in Object : Range(s.wait[o]) = Range(k.wait[o]) \ {h}

LEMMA HeadWaits ==
    ASSUME RefInv, k.wait[Sem] # <<>>
    PROVE  LET h == Head(k.wait[Sem])
           IN  /\ h \in Waiters /\ h \in Thread
               /\ k.stat[h] = "SUSPEND" /\ k.error[h] = "OK"
<1> DEFINE h == Head(k.wait[Sem])
<1>1. h \in Waiters /\ h \in Thread /\ Sem \in Object
  BY WaitersAre, HeadIn DEF RefInv, SemInv, Waiters
<1> HIDE DEF h
<1>2. k.stat[h] = "SUSPEND"
  BY <1>1 DEF RefInv, SemInv, KernelInv, Sound, Linked, WaitersSuspended, Waiters
<1>3. k.error[h] = "OK"
  BY <1>1 DEF RefInv, Calls
<1> QED
  BY <1>1, <1>2, <1>3 DEF h

(* rt_ipc_list_resume.                                                     *)
LEMMA ResumeWakens ==
    ASSUME RefInv, k.wait[Sem] # <<>>
    PROVE  Wakens(IpcListResume(k, Sem), Head(k.wait[Sem]), "OK")
<1> DEFINE h == Head(k.wait[Sem])
<1>1. /\ h \in Waiters /\ h \in Thread
      /\ k.stat[h] = "SUSPEND" /\ k.error[h] = "OK"
  BY HeadWaits
<1>2. Sound(k) /\ Linked(k) /\ Distinct(k.timers)
  BY DEF RefInv, SemInv, KernelInv, Sound, Timed
<1>3. IpcListResume(k, Sem) = ThreadResume(k, h)
  BY DEF IpcListResume
<1> HIDE DEF h
<1>4. /\ ThreadResume(k, h).error = k.error
      /\ \A o \in Object :
            Range(ThreadResume(k, h).wait[o]) = Range(k.wait[o]) \ {h}
  BY <1>1, <1>2, ResumeEffect
<1>5. Wakes(k, ThreadResume(k, h)) /\ ThreadResume(k, h).stat[h] # "SUSPEND"
  BY <1>1, <1>2, ResumeWakes
<1>6. Wakens(IpcListResume(k, Sem), h, "OK")
  BY <1>1, <1>3, <1>4, <1>5 DEF Wakens
<1> QED
  BY <1>6 DEF h

(* A turn of rt_ipc_list_resume_all.                                       *)
LEMMA AbortWakens ==
    ASSUME RefInv, k.wait[Sem] # <<>>
    PROVE  Wakens(IpcListAbort(k, Sem), Head(k.wait[Sem]), "ERROR")
<1> DEFINE h == Head(k.wait[Sem])
           e == [k EXCEPT !.error[h] = "ERROR"]
<1>1. /\ h \in Waiters /\ h \in Thread /\ k.stat[h] = "SUSPEND"
  BY HeadWaits
<1>2. Sound(k) /\ k \in KernelState
  BY DEF RefInv, SemInv, KernelInv, Sound, Linked
<1>3. IpcListAbort(k, Sem) = ThreadResume(e, h)
  BY DEF IpcListAbort
<1>4. Wakes(k, IpcListAbort(k, Sem))
  BY ResumeHeadWakes DEF RefInv, SemInv
<1> HIDE DEF h
<1>5. /\ e \in KernelState
      /\ e.cur = k.cur /\ e.stat = k.stat /\ e.prio = k.prio
      /\ e.mask = k.mask /\ e.ready = k.ready /\ e.group = k.group
      /\ e.wait = k.wait /\ e.timers = k.timers /\ e.lock = k.lock
      /\ e.error[h] = "ERROR"
      /\ \A t \in Thread \ {h} : e.error[t] = k.error[t]
  BY <1>1, <1>2 DEF KernelState, Error
<1> HIDE DEF e
<1>6. Sound(e) /\ Linked(e) /\ Distinct(e.timers)
  <2>1. Sound(e)
    BY <1>2, <1>5, PlainUpdate
  <2> QED
    BY <2>1 DEF Sound, Timed
<1>7. /\ ThreadResume(e, h).error = e.error
      /\ \A o \in Object :
            Range(ThreadResume(e, h).wait[o]) = Range(e.wait[o]) \ {h}
  BY <1>1, <1>5, <1>6, ResumeEffect
<1>8. ThreadResume(e, h).stat[h] # "SUSPEND"
  BY <1>1, <1>6, ResumeWakes
<1>9. Wakens(IpcListAbort(k, Sem), h, "ERROR")
  BY <1>1, <1>3, <1>4, <1>5, <1>7, <1>8 DEF Wakens
<1> QED
  BY <1>9 DEF h

(* The rt_schedule of a handler that follows changes nothing in that.      *)
LEMMA ScheduleWakens ==
    ASSUME NEW s, NEW h, NEW e, Wakens(s, h, e)
    PROVE  Wakens(Schedule(s), h, e)
<1>1. Wakes(s, Schedule(s)) /\ Calm(s, Schedule(s))
  BY ScheduleWakes, ScheduleCalm DEF Wakens, Wakes
<1>2. Wakes(k, Schedule(s))
  BY <1>1, WakesTransitive DEF Wakens
<1>3. Schedule(s).stat[h] # "SUSPEND"
  BY <1>1 DEF Wakens, Wakes
<1> QED
  BY <1>1, <1>2, <1>3 DEF Wakens, Calm

LEMMA WakensEnds ==
    ASSUME RefInv, KernelInv', Shrinks, NEW h, NEW e, Wakens(k', h, e),
           \A t \in Thread : Inside(t)' <=> Inside(t)
    PROVE  /\ Calls'
           /\ Moves(h, "want", IF e = "OK" THEN "granted" ELSE "refused")
<1>1. h \in Thread /\ Sem \in Object
  BY SemaphoreAssumption DEF Wakens
<1>2. Ends(h, e)
  BY <1>1 DEF Wakens, Ends, Waiters
<1>3. \A t \in Thread \ {h} : GoesOn(t)
  BY DEF Wakens, Wakes, GoesOn
<1> QED
  BY <1>1, <1>2, <1>3, WaitEnds

-----------------------------------------------------------------------------
(* A step of a thread outside rt_sem_take moves nobody in or out of it.    *)
LEMMA OutsideGoto ==
    ASSUME KernelInv, NEW t \in Thread, pc[t] \notin {"wait", "woken"},
           NEW loc \in Location \ {"wait", "woken"}, Goto(t, loc) \/ UNCHANGED pc
    PROVE  \A u \in Thread : Inside(u)' <=> Inside(u)
<1>1. CASE Goto(t, loc)
  BY <1>1, GotoInside DEF KernelInv, Inside
<1>2. CASE UNCHANGED pc
  BY <1>2 DEF Inside
<1> QED
  BY <1>1, <1>2

(* The calls that neither wait nor wake a thread, except the return of a   *)
(* take that has waited.                                                   *)
LEMMA QuietMaps ==
    ASSUME RefInv, SemInv', NEW t \in Worker,
           \/ TakeAvailable(t)
           \/ ResetBegin(t) \/ ResetEnd(t)
           \/ DetachBegin(t) \/ DetachTest(t) \/ DetachHalt(t)
           \/ DetachEnd(t) \/ SemInit(t)
    PROVE  Calls' /\ Promised
<1>1. /\ KernelInv /\ KernelInv' /\ t \in Thread
      /\ value \in 0 .. SemValueMax /\ SemValueMax \in Nat
  BY SemaphoreAssumption DEF RefInv, SemInv, Worker
<1>2. /\ UNCHANGED k /\ pc[t] \notin {"wait", "woken"}
      /\ \E loc \in Location \ {"wait", "woken"} : Goto(t, loc) \/ UNCHANGED pc
  BY DEF TakeAvailable, ResetBegin, ResetEnd, DetachBegin, DetachTest,
         DetachHalt, DetachEnd, SemInit, At, kernelVars, Location
<1>3. \A u \in Thread : Inside(u)' <=> Inside(u)
  <2>1. PICK loc \in Location \ {"wait", "woken"} : Goto(t, loc) \/ UNCHANGED pc
    BY <1>2
  <2> QED
    BY <1>1, <1>2, <2>1, OutsideGoto
<1>4. Shrinks /\ \A u \in Thread : GoesOn(u)
  BY <1>2 DEF Shrinks, GoesOn
<1>5. Calls' /\ PhasesStay
  BY <1>1, <1>3, <1>4, CallsStay
<1>6. UNCHANGED [u \in Thread |-> PhaseOf(u)]
  BY <1>5, PhasesStayMaps
<1>7. Promised
  <2>1. CASE TakeAvailable(t)
    BY <1>1, <1>6, <2>1 DEF TakeAvailable, Promised, Abstract!Next, Abstract!Take
  <2>2. CASE ResetEnd(t)
    <3>1. Abstract!Nobody("want") /\ value' \in 0 .. SemValueMax
      BY <2>2, NobodyWants DEF ResetEnd
    <3> QED
      BY <1>6, <3>1 DEF Promised, Abstract!Next, Abstract!Reset
  <2>3. CASE SemInit(t)
    <3>1. Waiters = {} /\ value' \in 0 .. SemValueMax
      BY <2>3 DEF SemInit, RefInv, SemInv
    <3>2. Abstract!Nobody("want")
      BY <1>1, <3>1, WaitersAre, NobodyWants
    <3> QED
      BY <1>6, <3>1, <3>2 DEF Promised, Abstract!Next, Abstract!Reset
  <2>4. CASE UNCHANGED value
    BY <1>5, <2>4, StutterMaps
  <2> QED
    BY <2>1, <2>2, <2>3, <2>4 DEF ResetBegin, DetachBegin, DetachTest,
                                  DetachHalt, DetachEnd, semVars
<1> QED
  BY <1>5, <1>7

(* A take that blocks asks.                                                *)
LEMMA TakeBlocksMaps ==
    ASSUME RefInv, SemInv', NEW t \in Worker, TakeBlocks(t)
    PROVE  Calls' /\ Promised
<1>1. PICK time \in WaitTimes \ {0} : k' = Block(k, Sem, t, SemFlag, time)
  BY DEF TakeBlocks
<1>2. /\ At(t, "run") /\ k.lock = 0 /\ Goto(t, "wait")
      /\ value = 0 /\ UNCHANGED value
  BY DEF TakeBlocks, MayBlock
<1>3. /\ KernelInv /\ Sound(k) /\ k.error \in [Thread -> Error]
      /\ k.stat \in [Thread -> Stat] /\ pc \in [Thread -> Location]
      /\ t \in Thread /\ t # Idle /\ time \in Int /\ Sem \in Object
  BY SemaphoreAssumption
     DEF RefInv, SemInv, KernelInv, Worker, Sound, Linked, KernelState
<1>4. k.stat[t] = "RUNNING"
  BY <1>2, <1>3, AtRuns
<1>5. /\ k'.stat = [k.stat EXCEPT ![t] = "SUSPEND"]
      /\ k'.error = [k.error EXCEPT ![t] = "OK"]
      /\ Range(k'.wait[Sem]) = Range(k.wait[Sem]) \cup {t}
  <2>1. Suspends(k, k', t)
    BY <1>1, <1>2, <1>3, <1>4, BlockSuspends
  <2>2. /\ k'.error = [k.error EXCEPT ![t] = "OK"]
        /\ \A x \in Object : Range(k'.wait[x]) =
              Range(k.wait[x]) \cup (IF x = Sem THEN {t} ELSE {})
    BY <1>1, <1>2, <1>3, <1>4, BlockEffect
  <2>3. Range(k'.wait[Sem]) = Range(k.wait[Sem]) \cup {t}
    BY <1>3, <2>2
  <2> QED
    BY <2>1, <2>2, <2>3 DEF Suspends
<1>6. /\ t \in Waiters' /\ k'.error[t] = "OK" /\ Inside(t)' /\ pc[t] = "run"
      /\ \A u \in Thread \ {t} :
            /\ u \in Waiters' <=> u \in Waiters
            /\ k'.error[u] = k.error[u] /\ k'.stat[u] = k.stat[u]
            /\ pc'[u] = pc[u]
  BY <1>2, <1>3, <1>5 DEF Waiters, Goto, Inside, At
<1>7. Calls'
  BY <1>6 DEF RefInv, Calls, Inside
<1>8. \A u \in Thread \ {t} : PhaseOf(u)' = PhaseOf(u)
  BY <1>6 DEF PhaseOf
<1>9. PhaseOf(t) = "out" /\ PhaseOf(t)' = "want"
  <2>1. t \notin Waiters
    BY <1>3, <1>6 DEF RefInv, Calls, Inside
  <2> QED
    BY <1>6, <2>1 DEF PhaseOf
<1>10. Abstract!Ask(t)
  <2>1. Moves(t, "out", "want")
    BY <1>8, <1>9 DEF Moves
  <2> QED
    BY <1>2, <1>3, <2>1, MoveMaps DEF Abstract!Ask
<1> QED
  BY <1>3, <1>7, <1>10 DEF Promised, Abstract!Next

(* The return of rt_sem_take is the return of the promise.                 *)
LEMMA TakeReturnsMaps ==
    ASSUME RefInv, SemInv', NEW t \in Worker, TakeReturns(t)
    PROVE  Calls' /\ Promised
<1>1. At(t, "woken") /\ Goto(t, "run") /\ UNCHANGED <<k, value>>
  BY DEF TakeReturns, semVars
<1>2. /\ t \in Thread /\ KernelInv /\ pc \in [Thread -> Location]
      /\ Sem \in Object
  BY SemaphoreAssumption DEF RefInv, SemInv, KernelInv, Worker
<1>3. k.stat[t] = "RUNNING"
  BY <1>1, <1>2, AtRuns
<1>4. t \notin Waiters /\ Inside(t)
  BY <1>1, <1>2, <1>3
     DEF KernelInv, Sound, Linked, WaitersSuspended, Waiters, At, Inside
<1>5. /\ Waiters' = Waiters /\ pc'[t] = "run"
      /\ \A u \in Thread \ {t} : pc'[u] = pc[u]
  BY <1>1, <1>2 DEF Waiters, Goto
<1>6. Calls'
  BY <1>1, <1>4, <1>5 DEF RefInv, Calls, Inside
<1>7. PhaseOf(t) \in {"granted", "refused"} /\ PhaseOf(t)' = "out"
  BY <1>4, <1>5 DEF PhaseOf, Inside
<1>8. \A u \in Thread \ {t} : PhaseOf(u)' = PhaseOf(u)
  BY <1>1, <1>5 DEF PhaseOf
<1>9. Moves(t, "granted", "out") \/ Moves(t, "refused", "out")
  BY <1>7, <1>8 DEF Moves
<1>10. Abstract!Return(t)
  BY <1>1, <1>2, <1>9, MoveMaps DEF Abstract!Return
<1> QED
  BY <1>2, <1>6, <1>10 DEF Promised, Abstract!Next

(* A release, by a thread or by a handler, grants a token to a waiter or   *)
(* lays it down where nobody waits.                                        *)
LEMMA ReleaseMaps ==
    ASSUME RefInv, SemInv', (\E t \in Worker : Release(t)) \/ IsrRelease
    PROVE  Calls' /\ Promised
<1>1. /\ KernelInv /\ KernelInv'
      /\ value \in 0 .. SemValueMax /\ SemValueMax \in Nat
  BY SemaphoreAssumption DEF RefInv, SemInv
<1>2. \A u \in Thread : Inside(u)' <=> Inside(u)
  <2>1. CASE IsrRelease
    BY <2>1 DEF IsrRelease, Inside
  <2>2. ASSUME NEW t \in Worker, Release(t)
        PROVE  \A u \in Thread : Inside(u)' <=> Inside(u)
    <3>1. /\ t \in Thread /\ pc[t] \notin {"wait", "woken"}
          /\ "sched" \in Location \ {"wait", "woken"}
          /\ Goto(t, "sched") \/ UNCHANGED pc
      BY <2>2 DEF Release, At, Worker, Location
    <3> QED
      BY <1>1, <3>1, OutsideGoto
  <2> QED
    BY <2>1, <2>2
<1>3. CASE k.wait[Sem] # <<>>
  <2> DEFINE h == Head(k.wait[Sem])
             s == IpcListResume(k, Sem)
  <2>1. UNCHANGED value /\ (k' = s \/ k' = Schedule(s))
    BY <1>3 DEF Release, IsrRelease
  <2>2. Wakens(s, h, "OK")
    BY <1>3, ResumeWakens
  <2>3. PICK g : g = h
    OBVIOUS
  <2>4. Wakens(s, g, "OK")
    BY <2>2, <2>3
  <2> HIDE DEF h, s
  <2>5. Wakens(k', g, "OK")
    <3>1. Wakens(Schedule(s), g, "OK")
      BY <2>4, ScheduleWakens
    <3> QED
      BY <2>1, <2>4, <3>1
  <2>6. Shrinks /\ g \in Thread
    BY <2>5 DEF Wakens, Shrinks
  <2>7. Calls' /\ Moves(g, "want", "granted")
    BY <1>1, <1>2, <2>5, <2>6, WakensEnds
  <2>8. Abstract!Release
    BY <2>1, <2>6, <2>7, MoveMaps DEF Abstract!Release
  <2> QED
    BY <2>7, <2>8 DEF Promised, Abstract!Next
<1>4. CASE k.wait[Sem] = <<>>
  <2>1. /\ UNCHANGED k
        /\ value' = IF value < SemValueMax THEN value + 1 ELSE value
    BY <1>4 DEF Release, IsrRelease
  <2>2. Shrinks /\ \A u \in Thread : GoesOn(u)
    BY <2>1 DEF Shrinks, GoesOn
  <2>3. Calls' /\ PhasesStay
    BY <1>1, <1>2, <2>2, CallsStay
  <2>4. CASE value < SemValueMax
    <3>1. Abstract!Nobody("want") /\ UNCHANGED [u \in Thread |-> PhaseOf(u)]
      BY <1>4, <2>3, NobodyWants, PhasesStayMaps
    <3>2. Abstract!Release
      BY <2>1, <2>4, <3>1 DEF Abstract!Release
    <3> QED
      BY <2>3, <3>2 DEF Promised, Abstract!Next
  <2>5. CASE ~(value < SemValueMax)
    BY <2>1, <2>3, <2>5, StutterMaps
  <2> QED
    BY <2>4, <2>5
<1> QED
  BY <1>3, <1>4

(* A turn of rt_ipc_list_resume_all refuses the first waiter.              *)
LEMMA AbortMaps ==
    ASSUME RefInv, SemInv', NEW t \in Worker, ResetWake(t) \/ DetachWake(t)
    PROVE  Calls' /\ Promised
<1>1. /\ KernelInv /\ KernelInv' /\ t \in Thread
      /\ UNCHANGED value /\ k.wait[Sem] # <<>> /\ k' = IpcListAbort(k, Sem)
  BY DEF RefInv, SemInv, Worker, ResetWake, DetachWake
<1>2. \A u \in Thread : Inside(u)' <=> Inside(u)
  <2>1. /\ pc[t] \notin {"wait", "woken"}
        /\ "detach" \in Location \ {"wait", "woken"}
        /\ Goto(t, "detach") \/ UNCHANGED pc
    BY DEF ResetWake, DetachWake, At, Location
  <2> QED
    BY <1>1, <2>1, OutsideGoto
<1>3. PICK h : h = Head(k.wait[Sem])
  OBVIOUS
<1>4. Wakens(k', h, "ERROR")
  BY <1>1, <1>3, AbortWakens
<1>5. Shrinks /\ h \in Thread
  BY <1>4 DEF Wakens, Shrinks
<1>6. Calls' /\ Moves(h, "want", "refused")
  BY <1>1, <1>2, <1>4, <1>5, WakensEnds
<1> QED
  BY <1>1, <1>5, <1>6, MoveMaps DEF Promised, Abstract!Next, Abstract!GiveUp

LEMMA StepMaps ==
    ASSUME RefInv, [Next]_vars
    PROVE  RefInv' /\ Promised
<1>1. SemInv'
  BY NextKeeps DEF RefInv
<1>2. ASSUME UNCHANGED vars
      PROVE  Calls' /\ Promised
  <2>1. UNCHANGED <<k, pc, value>>
    BY <1>2 DEF vars, kernelVars, semVars
  <2>2. Calls' /\ PhasesStay
    BY <2>1 DEF RefInv, Calls, Waiters, Inside, PhasesStay, PhaseOf
  <2> QED
    BY <2>1, <2>2, StutterMaps
<1>3. CASE KernelStep
  BY <1>1, <1>3, KernelStepMaps DEF RefInv
<1>4. CASE IsrRelease
  BY <1>1, <1>4, ReleaseMaps DEF RefInv
<1>5. ASSUME NEW t \in Worker, SemStep(t)
      PROVE  Calls' /\ Promised
  <2>1. CASE TakeBlocks(t)
    BY <1>1, <2>1, TakeBlocksMaps
  <2>2. CASE TakeReturns(t)
    BY <1>1, <2>2, TakeReturnsMaps
  <2>3. CASE Release(t)
    BY <1>1, <2>3, ReleaseMaps
  <2>4. CASE ResetWake(t) \/ DetachWake(t)
    BY <1>1, <2>4, AbortMaps
  <2>5. CASE Halted(t)
    BY <1>2, <2>5 DEF Halted
  <2>6. CASE \/ TakeAvailable(t)
             \/ ResetBegin(t) \/ ResetEnd(t)
             \/ DetachBegin(t) \/ DetachTest(t) \/ DetachHalt(t)
             \/ DetachEnd(t) \/ SemInit(t)
    BY <1>1, <2>6, QuietMaps
  <2> QED
    BY <1>5, <2>1, <2>2, <2>3, <2>4, <2>5, <2>6 DEF SemStep
<1> QED
  BY <1>1, <1>2, <1>3, <1>4, <1>5 DEF Next, RefInv

LEMMA InitMaps ==
    ASSUME Init
    PROVE  RefInv /\ Abstract!Init
<1>1. SemInv /\ Waiters = {}
  <2>1. k.wait[Sem] = <<>>
    BY KernelInitInv, SemaphoreAssumption DEF Init
  <2> QED
    BY <2>1, InitInv DEF Waiters, Range
<1>2. \A t \in Thread : ~Inside(t)
  BY DEF Init, KernelInit, Inside
<1>3. Calls
  BY <1>1, <1>2 DEF Calls
<1>4. \A t \in Thread : PhaseOf(t) = "out"
  BY <1>1, <1>2 DEF PhaseOf, Inside
<1> QED
  BY <1>1, <1>3, <1>4 DEF RefInv, Init, Abstract!Init

-----------------------------------------------------------------------------
(* rt_sem_take, rt_sem_release, the reset and the detach implement the     *)
(* promise of a counting semaphore: no token is lost on its way to a       *)
(* waiter or handed out twice, and only a thread that still waits is       *)
(* refused, by its timer or by rt_ipc_list_resume_all.                     *)
THEOREM SemaphoreRefines == Spec => ImplementsSemaphore
<1>1. Init => RefInv /\ Abstract!Init
  BY InitMaps
<1>2. RefInv /\ [Next]_vars => RefInv' /\ Promised
  BY StepMaps
<1> QED
  BY <1>1, <1>2, PTL DEF Spec, ImplementsSemaphore, Abstract!Spec, Promised

-----------------------------------------------------------------------------
(* Preemption.                                                             *)

(* A turn of the loop of rt_sem_detach: whom it makes ready, it has told   *)
(* of an error.                                                            *)
LEMMA DetachWakePreempts ==
    ASSUME RefInv, Preempts, NEW t \in Worker, DetachWake(t)
    PROVE  Preempts'
<1>1. /\ t \in Thread /\ pc \in [Thread -> Location]
      /\ irq = "on" /\ k.cur = t /\ pc[t] = "dequeue"
      /\ k.wait[Sem] # <<>> /\ k' = IpcListAbort(k, Sem)
      /\ Goto(t, "detach") /\ irq' = irq
  BY DEF RefInv, SemInv, KernelInv, Worker, DetachWake, At
<1>2. k \in KernelState
  BY DEF RefInv, SemInv, KernelInv, Sound, Linked
<1>3. PICK h : h = Head(k.wait[Sem])
  OBVIOUS
<1> DEFINE e == [k EXCEPT !.error[h] = "ERROR"]
<1>4. k' = ThreadResume(e, h)
  BY <1>1, <1>3 DEF IpcListAbort
<1>5. h \in Thread /\ h \in Waiters
  BY <1>1, <1>3, HeadWaits
<1>6. Wakens(k', h, "ERROR")
  BY <1>1, <1>3, AbortWakens
<1>7. /\ e \in KernelState /\ e.cur = k.cur /\ e.prio = k.prio
      /\ e.lock = k.lock /\ e.stat = k.stat
  BY <1>2, <1>5 DEF KernelState, Error
<1> HIDE DEF e
<1>8. /\ k'.cur = k.cur /\ k'.prio = k.prio /\ k'.lock = k.lock
      /\ \A u \in Thread \ {h} : k'.stat[u] = k.stat[u]
  BY <1>4, <1>5, <1>7, ResumeStates
<1>9. /\ k'.error[h] = "ERROR"
      /\ \A u \in Thread \ {h} : k'.error[u] = k.error[u]
  BY <1>6 DEF Wakens
<1>10. Inside(h) /\ h # t
  BY <1>1, <1>5 DEF RefInv, Calls, Inside
<1>11. /\ pc'[t] = "detach"
       /\ \A u \in Thread \ {t} : pc'[u] = pc[u]
  BY <1>1 DEF Goto
<1>12. Aborted(h)'
  BY <1>5, <1>9, <1>10, <1>11 DEF Inside, Aborted
<1>13. \A u \in Thread \ {h} : Aborted(u) => Aborted(u)'
  BY <1>1, <1>9, <1>11 DEF Aborted
<1>14. \A u \in Thread \ {h} : StaysBehind(u)
  BY <1>1, <1>8, <1>11, <1>13, SameBehind DEF Away
<1> QED
  BY <1>12, <1>14 DEF Preempts, StaysBehind

(* A release readies one waiter: a thread calls rt_schedule next, and in a *)
(* handler rt_schedule has been called when the step ends.                 *)
LEMMA ReleasePreempts ==
    ASSUME RefInv, Preempts, (\E t \in Worker : Release(t)) \/ IsrRelease
    PROVE  Preempts'
<1>1. /\ KernelInv /\ k \in KernelState /\ pc \in [Thread -> Location]
      /\ k.cur \in Thread
  BY DEF RefInv, SemInv, KernelInv, Sound, Linked, KernelState
<1>2. CASE k.wait[Sem] # <<>> /\ IsrRelease
  <2>1. Sound(IpcListResume(k, Sem)) /\ k' = Schedule(IpcListResume(k, Sem))
    BY <1>1, <1>2, ResumeHeadWakes DEF IsrRelease, Wakes
  <2> QED
    BY <2>1, ScheduleBehind DEF Preempts
<1>3. ASSUME NEW t \in Worker, Release(t), k.wait[Sem] # <<>>
      PROVE  Preempts'
  <2>1. /\ k.cur = t /\ t \in Thread /\ Goto(t, "sched")
        /\ k' = ThreadResume(k, Head(k.wait[Sem]))
    BY <1>3 DEF Release, At, IpcListResume, Worker
  <2>2. Head(k.wait[Sem]) \in Thread
    BY <1>3, HeadWaits
  <2>3. k'.cur = t
    BY <1>1, <2>1, <2>2, ResumeStates
  <2>4. pc'[k'.cur] = "sched"
    BY <1>1, <2>1, <2>3 DEF Goto
  <2> QED
    BY <2>4, AwayBehind DEF Away, Preempts
<1>4. CASE k.wait[Sem] = <<>>
  <2>1. UNCHANGED <<k, pc, irq>>
    BY <1>4 DEF Release, IsrRelease
  <2> QED
    BY <2>1 DEF Preempts, Behind, Aborted
<1> QED
  BY <1>2, <1>3, <1>4

LEMMA NextPreempts ==
    ASSUME RefInv, Preempts, [Next]_vars
    PROVE  Preempts'
<1>1. /\ KernelInv /\ k \in KernelState /\ pc \in [Thread -> Location]
  BY DEF RefInv, SemInv, KernelInv, Sound, Linked
<1>2. CASE UNCHANGED <<k, pc, irq>>
  BY <1>2 DEF Preempts, Behind, Aborted
<1>3. CASE KernelStep
  BY <1>1, <1>3, KernelNextBehind, PreemptsStays DEF KernelStep
<1>4. CASE IsrRelease
  BY <1>4, ReleasePreempts
<1>5. ASSUME NEW t \in Worker, SemStep(t)
      PROVE  Preempts'
  <2>0. t \in Thread
    BY DEF Worker
  <2>1. CASE TakeBlocks(t)
    <3>1. PICK time \in WaitTimes \ {0} : k' = Block(k, Sem, t, SemFlag, time)
      BY <2>1 DEF TakeBlocks
    <3>2. At(t, "run") /\ k.lock = 0 /\ Goto(t, "wait")
      BY <2>1 DEF TakeBlocks, MayBlock
    <3>3. /\ Sound(k) /\ t # Idle /\ time \in Int /\ Sem \in Object
          /\ k.cur = t /\ k.stat[t] = "RUNNING"
      BY <1>1, <2>0, <3>2, AtRuns, SemaphoreAssumption DEF KernelInv, Worker
    <3>4. k'.cur = t
      <4>1. Suspends(k, k', t)
        BY <2>0, <3>1, <3>2, <3>3, BlockSuspends
      <4> QED
        BY <3>3, <4>1 DEF Suspends
    <3>5. pc'[k'.cur] = "wait"
      BY <1>1, <2>0, <3>2, <3>4 DEF Goto
    <3> QED
      BY <3>5, AwayBehind DEF Away, Preempts
  <2>2. CASE Release(t)
    BY <2>2, ReleasePreempts
  <2>3. CASE DetachWake(t)
    BY <2>3, DetachWakePreempts
  <2>4. CASE ResetBegin(t) \/ ResetWake(t) \/ DetachHalt(t)
    <3>1. irq' = "off"
      BY <2>4 DEF ResetBegin, ResetWake, DetachHalt
    <3> QED
      BY <3>1 DEF Preempts, Behind
  <2>5. CASE ResetEnd(t)
    <3>1. k' = k /\ k.cur = t /\ Goto(t, "sched")
      BY <2>5 DEF ResetEnd
    <3>2. pc'[k'.cur] = "sched"
      BY <1>1, <2>0, <3>1 DEF Goto
    <3> QED
      BY <3>2, AwayBehind DEF Away, Preempts
  <2>6. CASE \/ TakeReturns(t) \/ DetachBegin(t) \/ DetachTest(t)
             \/ DetachEnd(t)
    <3>1. /\ k' = k /\ k.cur = t /\ irq' = irq /\ pc[t] \notin Away
          /\ \E loc \in Location : Goto(t, loc)
      BY <2>6 DEF TakeReturns, DetachBegin, DetachTest, DetachEnd, At, Away,
                  Location
    <3>2. \A u \in Thread \ {t} : k'.error[u] = k.error[u] /\ pc'[u] = pc[u]
      BY <1>1, <3>1 DEF Goto
    <3> QED
      BY <1>1, <2>0, <3>1, <3>2, StillBehind, PreemptsStays
  <2>7. CASE TakeAvailable(t) \/ SemInit(t) \/ Halted(t)
    BY <1>2, <2>7 DEF TakeAvailable, SemInit, Halted, vars, kernelVars
  <2> QED
    BY <1>5, <2>1, <2>2, <2>3, <2>4, <2>5, <2>6, <2>7 DEF SemStep
<1> QED
  BY <1>2, <1>3, <1>4, <1>5 DEF Next, vars, kernelVars

(* rt_schedule after every wakeup: with interrupts enabled and the         *)
(* scheduler unlocked, the current thread, when it is not about to call    *)
(* rt_schedule itself, has at least the priority of every ready thread,    *)
(* the ones that rt_sem_detach has woken with an error excepted.           *)
THEOREM HighestThreadRuns == Spec => []HighestRuns
<1>1. Init => RefInv /\ Preempts
  BY InitMaps, PreemptsInit DEF Init, Preempts
<1>2. RefInv /\ Preempts /\ [Next]_vars => (RefInv /\ Preempts)'
  BY StepMaps, NextPreempts
<1>3. Preempts => HighestRuns
  BY PreemptsGives
<1> QED
  BY <1>1, <1>2, <1>3, PTL DEF Spec
-----------------------------------------------------------------------------
(* The order of service.  The list agrees with the order in which its      *)
(* threads have blocked and with their priorities, which no call of this   *)
(* module changes.                                                         *)
Precedes(t, u) ==
    \/ SemFlag = "PRIO" /\ InitPrio[t] < InitPrio[u]
    \/ (SemFlag = "FIFO" \/ InitPrio[t] = InitPrio[u]) /\ Before(asked, t, u)

Ranked ==
    /\ k.prio = InitPrio
    /\ Distinct(asked) /\ Range(asked) = Waiters
    /\ \A t, u \in Thread : Before(k.wait[Sem], t, u) => Precedes(t, u)

LEMMA RankedInit ==
    ASSUME Init
    PROVE  Ranked
<1>1. k.wait[Sem] = <<>> /\ k.prio = InitPrio /\ asked = <<>>
  BY KernelInitInv, SemaphoreAssumption DEF Init, KernelInit, Started
<1>2. Waiters = {} /\ Range(asked) = {} /\ Distinct(asked)
  BY <1>1 DEF Waiters, Range, Distinct
<1>3. \A t, u \in Thread : ~Before(k.wait[Sem], t, u)
  BY <1>1 DEF Before
<1> QED
  BY <1>1, <1>2, <1>3 DEF Ranked

(* A step that leaves the list and the history variable alone.             *)
LEMMA RankedStill ==
    ASSUME Ranked, UNCHANGED <<k, asked>>
    PROVE  Ranked'
BY DEF Ranked, Precedes, Waiters

(* A step in which at most one thread leaves the list, and none joins it.  *)
LEMMA LeaveRanks ==
    ASSUME RefInv, KernelInv', Ranked, Mild(k, k'), Shrinks, Remember,
           NEW h \in Thread,
           \A t \in Thread \ {h} : t \in Waiters => t \in Waiters'
    PROVE  Ranked'
<1>1. /\ asked \in Seq(Thread) /\ Sem \in Object
      /\ Waiters \subseteq Thread /\ Waiters' \subseteq Waiters
  BY WaitersAre, ShrinksWaiters DEF RefInv, SemInv
<1>2. /\ k'.prio = InitPrio
      /\ \A t, u \in Thread :
            Before(k'.wait[Sem], t, u) => Before(k.wait[Sem], t, u)
  BY <1>1 DEF Mild, Thins, Ranked
<1>3. k'.wait[Sem] \in Seq(Thread)
  BY <1>1 DEF KernelInv, Sound, Linked, KernelState
<1>4. Range(asked) \ Range(k'.wait[Sem]) = Waiters \ Waiters'
  BY DEF Ranked, Waiters
<1>5. CASE Waiters \ Waiters' = {}
  <2>1. asked' = asked /\ Waiters' = Waiters
    BY <1>1, <1>4, <1>5 DEF Remember
  <2> QED
    BY <1>2, <2>1 DEF Ranked, Precedes
<1>6. CASE Waiters \ Waiters' # {}
  <2>1. Waiters \ Waiters' = {h}
    BY <1>1, <1>6
  <2>2. asked' = Without(asked, h)
    BY <1>4, <1>6, <2>1 DEF Remember
  <2>3. /\ Distinct(Without(asked, h))
        /\ Range(Without(asked, h)) = Range(asked) \ {h}
    BY <1>1, WithoutProperties DEF Ranked
  <2>4. Range(asked) \ {h} = Waiters'
    BY <1>1, <2>1 DEF Ranked
  <2>5. ASSUME NEW t \in Thread, NEW u \in Thread, Before(k'.wait[Sem], t, u)
        PROVE  \/ SemFlag = "PRIO" /\ InitPrio[t] < InitPrio[u]
               \/ /\ SemFlag = "FIFO" \/ InitPrio[t] = InitPrio[u]
                  /\ Before(Without(asked, h), t, u)
    <3>1. t \in Waiters' /\ u \in Waiters'
      BY <1>3, <2>5, BeforeInRange DEF Waiters
    <3>2. t # h /\ u # h
      BY <2>1, <3>1
    <3>3. Precedes(t, u)
      BY <1>2, <2>5 DEF Ranked
    <3>4. Before(asked, t, u) => Before(Without(asked, h), t, u)
      BY <1>1, <3>2, BeforeWithout
    <3> QED
      BY <3>3, <3>4 DEF Precedes
  <2>6. \A t, u \in Thread : Before(k'.wait[Sem], t, u) => Precedes(t, u)'
    BY <2>2, <2>5 DEF Precedes
  <2> QED
    BY <1>2, <2>2, <2>3, <2>4, <2>6 DEF Ranked
<1> QED
  BY <1>5, <1>6

(* Under RT_IPC_FLAG_PRIO the list is sorted.                              *)
LEMMA RankedSorted ==
    ASSUME RefInv, Ranked
    PROVE  SemFlag = "PRIO" => ListsInOrder(k)
<1> SUFFICES ASSUME SemFlag = "PRIO", NEW o \in Object,
                    NEW i \in 1 .. Len(k.wait[o]), NEW j \in 1 .. Len(k.wait[o]),
                    i <= j
             PROVE  InitPrio[k.wait[o][i]] <= InitPrio[k.wait[o][j]]
  BY DEF ListsInOrder, InOrder
<1>1. o = Sem
  BY SemaphoreAssumption
<1>2. k.wait[o] \in Seq(Thread)
  BY <1>1, WaitersAre DEF RefInv, SemInv
<1>3. \A t \in Thread : InitPrio[t] \in Nat
  BY KernelAssumption DEF Prio
<1>4. PICK t, u : t = k.wait[o][i] /\ u = k.wait[o][j]
  OBVIOUS
<1>5. t \in Thread /\ u \in Thread
  BY <1>2, <1>4, ElementOfSeq
<1>6. CASE i = j
  BY <1>3, <1>4, <1>5, <1>6
<1>7. CASE i # j
  <2>1. i < j
    BY <1>2, <1>7, LenProperties
  <2>2. Before(k.wait[Sem], t, u)
    BY <1>1, <1>4, <2>1 DEF Before
  <2>3. Precedes(t, u)
    BY <1>5, <2>2 DEF Ranked
  <2>4. InitPrio[t] <= InitPrio[u]
    BY <1>3, <1>5, <2>3 DEF Precedes
  <2> QED
    BY <1>4, <2>4
<1> QED
  BY <1>6, <1>7

(* A take that blocks puts the caller behind those it has to wait for.     *)
LEMMA TakeBlocksRanks ==
    ASSUME RefInv, Ranked, NEW t \in Worker, TakeBlocks(t)
    PROVE  Ranked'
<1>1. PICK time \in WaitTimes \ {0} : k' = Block(k, Sem, t, SemFlag, time)
  BY DEF TakeBlocks
<1>2. At(t, "run") /\ k.lock = 0 /\ asked' = Append(asked, t)
  BY DEF TakeBlocks, MayBlock
<1>3. /\ KernelInv /\ Sound(k) /\ asked \in Seq(Thread)
      /\ t \in Thread /\ t # Idle /\ time \in Int /\ Sem \in Object
      /\ SemFlag \in {"FIFO", "PRIO"}
  BY SemaphoreAssumption DEF RefInv, SemInv, KernelInv, Worker
<1>4. k.stat[t] = "RUNNING"
  BY <1>2, <1>3, AtRuns
<1>5. t \notin Waiters /\ k.wait[Sem] \in Seq(Thread)
  BY <1>3, <1>4, WaitersAre DEF Sound, Linked, WaitersSuspended, Waiters
<1>6. Plain(k, Sem, t)
  BY DEF Ranked, Plain
<1>7. SemFlag = "PRIO" => ListsInOrder(k)
  BY RankedSorted
<1>8. /\ k'.prio = k.prio
      /\ \A x, y \in Thread : Before(k'.wait[Sem], x, y) =>
            Before(k.wait[Sem], x, y) \/ Placed(k, Sem, t, SemFlag, x, y)
  BY <1>1, <1>2, <1>3, <1>4, <1>6, <1>7, BlockPlaces
<1>9. Range(k'.wait[Sem]) = Range(k.wait[Sem]) \cup {t}
  <2>1. Blocked(k, k', t, Sem)
    BY <1>1, <1>2, <1>3, <1>4, BlockGives
  <2> QED
    BY <1>3, <2>1 DEF Blocked
<1>10. PICK a : a = Append(asked, t)
  OBVIOUS
<1>11. /\ Range(a) = Range(asked) \cup {t} /\ Distinct(a)
       /\ Len(asked) \in Nat /\ Len(a) = Len(asked) + 1
       /\ \A i \in 1 .. Len(asked) : a[i] = asked[i]
       /\ a[Len(asked) + 1] = t
  BY <1>3, <1>5, <1>10, AppendLast, AppendProperties, LenProperties DEF Ranked
<1>12. ASSUME NEW x \in Thread, NEW y \in Thread, Before(k'.wait[Sem], x, y)
       PROVE  \/ SemFlag = "PRIO" /\ InitPrio[x] < InitPrio[y]
              \/ (SemFlag = "FIFO" \/ InitPrio[x] = InitPrio[y]) /\ Before(a, x, y)
  <2>1. CASE Before(k.wait[Sem], x, y)
    <3>1. Precedes(x, y)
      BY <2>1 DEF Ranked
    <3>2. Before(asked, x, y) => Before(a, x, y)
      BY <1>11 DEF Before
    <3> QED
      BY <3>1, <3>2 DEF Precedes
  <2>2. CASE y = t /\ x \in Waiters /\ (SemFlag = "FIFO" \/ InitPrio[x] <= InitPrio[t])
    <3>1. PICK i \in 1 .. Len(asked) : asked[i] = x
      BY <1>3, <2>2, RangeIs DEF Ranked
    <3>2. Before(a, x, y)
      BY <1>11, <2>2, <3>1 DEF Before
    <3>3. InitPrio[x] \in Nat /\ InitPrio[t] \in Nat
      BY <1>3, KernelAssumption DEF Prio
    <3> QED
      BY <1>3, <2>2, <3>2, <3>3
  <2>3. CASE x = t /\ SemFlag = "PRIO" /\ InitPrio[t] < InitPrio[y]
    BY <2>3
  <2> QED
    BY <1>8, <1>12, <2>1, <2>2, <2>3 DEF Placed, Waiters
<1>13. \A x, y \in Thread : Before(k'.wait[Sem], x, y) => Precedes(x, y)'
  BY <1>2, <1>10, <1>12 DEF Precedes
<1>14. Range(asked)' = Waiters'
  BY <1>2, <1>9, <1>10, <1>11 DEF Ranked, Waiters
<1> QED
  BY <1>2, <1>8, <1>10, <1>11, <1>13, <1>14 DEF Ranked

(* The first of the list is the next in line.                              *)
LEMMA HeadNext ==
    ASSUME RefInv, Ranked, k.wait[Sem] # <<>>, NEW h, h = Head(k.wait[Sem])
    PROVE  NextInLine(h)
<1>1. /\ k.wait[Sem] \in Seq(Thread) /\ asked \in Seq(Thread)
      /\ Waiters \subseteq Thread
  BY WaitersAre DEF RefInv, SemInv
<1>2. h \in Waiters /\ h \in Thread
  BY <1>1, HeadIn DEF Waiters
<1>3. Len(asked) \in Nat /\ Range(asked) = Waiters /\ Distinct(asked)
  BY <1>1, LenProperties DEF Ranked
<1>4. \A t \in Thread : k.prio[t] = InitPrio[t] /\ InitPrio[t] \in Nat
  BY KernelAssumption DEF Ranked, Prio
<1>5. ASSUME NEW u \in Waiters, u # h
      PROVE  Precedes(h, u)
  <2>1. Len(k.wait[Sem]) \in Nat /\ Len(k.wait[Sem]) # 0 /\ h = k.wait[Sem][1]
    BY <1>1, LenProperties, EmptySeq, HeadTailProperties
  <2>2. PICK j \in 1 .. Len(k.wait[Sem]) : k.wait[Sem][j] = u
    BY <1>1, RangeIs DEF Waiters
  <2>3. 1 \in 1 .. Len(k.wait[Sem]) /\ 1 < j
    BY <1>5, <2>1, <2>2
  <2>4. Before(k.wait[Sem], h, u)
    BY <2>1, <2>2, <2>3 DEF Before
  <2> QED
    BY <1>1, <1>2, <2>4 DEF Ranked
<1> DEFINE rivals == {i \in 1 .. Len(asked) :
                        SemFlag = "FIFO" \/ \A u \in Range(asked) :
                                              k.prio[asked[i]] <= k.prio[u]}
<1>6. PICK i \in 1 .. Len(asked) : asked[i] = h
  BY <1>1, <1>2, <1>3, RangeIs
<1>7. i \in rivals
  <2>1. ASSUME NEW u \in Waiters, SemFlag # "FIFO"
        PROVE  k.prio[h] <= k.prio[u]
    <3>1. CASE u = h
      BY <1>2, <1>4, <3>1
    <3>2. CASE u # h
      BY <1>1, <1>2, <1>4, <1>5, <2>1, <3>2 DEF Precedes
    <3> QED
      BY <3>1, <3>2
  <2> QED
    BY <1>3, <1>6, <2>1
<1>8. ASSUME NEW j \in rivals
      PROVE  i <= j
  <2>1. j \in 1 .. Len(asked)
    OBVIOUS
  <2>2. PICK u : u = asked[j]
    OBVIOUS
  <2>3. u \in Waiters
    BY <1>1, <1>3, <2>1, <2>2, RangeIs
  <2>4. CASE u = h
    <3>1. i = j
      BY <1>3, <1>6, <2>1, <2>2, <2>4 DEF Distinct
    <3> QED
      BY <1>3, <2>1, <3>1
  <2>5. CASE u # h
    <3>1. SemFlag = "PRIO" => ~(InitPrio[h] < InitPrio[u])
      BY <1>1, <1>2, <1>3, <1>4, <2>2, <2>3
    <3>2. Before(asked, h, u)
      BY <1>5, <2>3, <2>5, <3>1 DEF Precedes
    <3>3. PICK a, b \in 1 .. Len(asked) : a < b /\ asked[a] = h /\ asked[b] = u
      BY <3>2 DEF Before
    <3>4. a = i /\ b = j
      BY <1>3, <1>6, <2>1, <2>2, <3>3 DEF Distinct
    <3> QED
      BY <3>3, <3>4
  <2> QED
    BY <2>4, <2>5
<1> QED
  BY <1>6, <1>7, <1>8 DEF NextInLine

(* Who leaves the list with RT_EOK is the next in line.                    *)
ServesNext ==
    \A t \in Waiters :
        t \notin Range(k'.wait[Sem]) /\ k'.error[t] = "OK" => NextInLine(t)

LEMMA KernelStepRanks ==
    ASSUME RefInv, Ranked, KernelStep
    PROVE  Ranked' /\ ServesNext
<1>1. KernelInv' /\ Shrinks /\ CallsGoOn /\ Remember
  BY KernelNextKeeps, KernelNextGoesOn DEF RefInv, SemInv, KernelStep
<1>2. Mild(k, k')
  BY KernelNextMild DEF RefInv, SemInv, KernelStep, Ranked
<1>3. PICK h \in Thread :
         /\ Inside(h) => GoesOn(h) \/ Refused(h)
         /\ \A t \in Thread \ {h} : Inside(t) => GoesOn(t)
  BY <1>1 DEF CallsGoOn
<1>4. Sem \in Object /\ Waiters \subseteq Thread
  BY WaitersAre DEF RefInv, SemInv
<1>5. ASSUME NEW t \in Waiters, Inside(t) => GoesOn(t)
      PROVE  t \in Waiters'
  BY <1>4, <1>5 DEF RefInv, Calls, GoesOn, Waiters
<1>6. \A t \in Thread \ {h} : t \in Waiters => t \in Waiters'
  BY <1>3, <1>5
<1>7. Ranked'
  BY <1>1, <1>2, <1>6, LeaveRanks
<1>8. ASSUME NEW t \in Waiters, t \notin Range(k'.wait[Sem])
      PROVE  k'.error[t] # "OK"
  <2>1. t = h /\ ~GoesOn(h) /\ Inside(h)
    BY <1>4, <1>5, <1>6, <1>8 DEF Waiters
  <2>2. k'.error[h] = "TIMEOUT"
    BY <1>3, <2>1 DEF Refused
  <2> QED
    BY <2>1, <2>2
<1> QED
  BY <1>7, <1>8 DEF ServesNext

(* A wakeup of one waiter by a loop or a call of ipc.c.                    *)
LEMMA WakensRanks ==
    ASSUME RefInv, KernelInv', Ranked, Mild(k, k'), Remember,
           NEW h, NEW e, Wakens(k', h, e), e = "OK" => NextInLine(h)
    PROVE  Ranked' /\ ServesNext
<1>1. Shrinks /\ h \in Thread /\ Sem \in Object
  BY SemaphoreAssumption DEF Wakens, Shrinks
<1>2. Range(k'.wait[Sem]) = Waiters \ {h} /\ k'.error[h] = e
  BY <1>1 DEF Wakens, Waiters
<1>3. \A t \in Thread \ {h} : t \in Waiters => t \in Waiters'
  BY <1>2 DEF Waiters
<1>4. Ranked'
  BY <1>1, <1>3, LeaveRanks
<1> QED
  BY <1>2, <1>4 DEF ServesNext

LEMMA ReleaseRanks ==
    ASSUME RefInv, SemInv', Ranked, (\E t \in Worker : Release(t)) \/ IsrRelease
    PROVE  Ranked' /\ ServesNext
<1>1. KernelInv /\ KernelInv' /\ k \in KernelState
  BY DEF RefInv, SemInv, KernelInv, Sound, Linked
<1>2. CASE k.wait[Sem] # <<>>
  <2>1. PICK h, s : h = Head(k.wait[Sem]) /\ s = ThreadResume(k, h)
    OBVIOUS
  <2>2. Remember /\ (k' = s \/ k' = Schedule(s)) /\ s = IpcListResume(k, Sem)
    BY <1>2, <2>1 DEF Release, IsrRelease, IpcListResume
  <2>3. Wakens(s, h, "OK")
    BY <1>2, <2>1, <2>2, ResumeWakens
  <2>4. Wakens(k', h, "OK")
    <3>1. Wakens(Schedule(s), h, "OK")
      BY <2>3, ScheduleWakens
    <3> QED
      BY <2>2, <2>3, <3>1
  <2>5. Mild(k, s)
    <3>1. Thins(k, s)
      BY <1>1, <2>1, <2>3, ResumeThins
         DEF Wakens, KernelInv, Sound, Linked, ReadyAgrees, WaitersSuspended, Timed
    <3>2. s.prio = k.prio
      BY <1>1, <2>1, <2>3, ResumeStates DEF Wakens
    <3> QED
      BY <3>1, <3>2 DEF Mild
  <2>6. Mild(k, k')
    <3>1. Mild(s, Schedule(s))
      BY <2>3, ScheduleMild DEF Wakens, Wakes
    <3>2. Mild(k, Schedule(s))
      BY <2>5, <3>1, ThinsTransitive DEF Mild
    <3> QED
      BY <2>2, <2>5, <3>2
  <2>7. NextInLine(h)
    BY <1>2, <2>1, HeadNext
  <2> QED
    BY <1>1, <2>2, <2>4, <2>6, <2>7, WakensRanks
<1>3. CASE k.wait[Sem] = <<>>
  <2>1. UNCHANGED k /\ Remember
    BY <1>3 DEF Release, IsrRelease
  <2>2. Range(asked) \ Range(k'.wait[Sem]) = {}
    BY <2>1 DEF Ranked, Waiters
  <2>3. asked' = asked
    BY <2>1, <2>2 DEF Remember
  <2> QED
    BY <2>1, <2>3, RankedStill DEF ServesNext, Waiters
<1> QED
  BY <1>2, <1>3

LEMMA AbortRanks ==
    ASSUME RefInv, SemInv', Ranked, NEW t \in Worker, ResetWake(t) \/ DetachWake(t)
    PROVE  Ranked' /\ ServesNext
<1>1. KernelInv /\ KernelInv' /\ k \in KernelState
  BY DEF RefInv, SemInv, KernelInv, Sound, Linked
<1>2. k.wait[Sem] # <<>> /\ k' = IpcListAbort(k, Sem) /\ Remember
  BY DEF ResetWake, DetachWake
<1>3. PICK h : h = Head(k.wait[Sem])
  OBVIOUS
<1>4. PICK e : e = [k EXCEPT !.error[h] = "ERROR"]
  OBVIOUS
<1>5. k' = ThreadResume(e, h)
  BY <1>2, <1>3, <1>4 DEF IpcListAbort
<1>6. Wakens(k', h, "ERROR") /\ h \in Thread
  BY <1>2, <1>3, AbortWakens DEF Wakens
<1>7. /\ e \in KernelState /\ e.stat = k.stat /\ e.wait = k.wait
      /\ e.ready = k.ready /\ e.timers = k.timers /\ e.prio = k.prio
  BY <1>1, <1>4, <1>6 DEF KernelState, Error
<1>8. Thins(k, e)
  BY <1>7, ThinsSame DEF Dormant
<1>9. Thins(e, k') /\ k'.prio = e.prio
  <2>1. /\ \A p \in Prio : Distinct(e.ready[p])
        /\ \A o \in Object : Distinct(e.wait[o])
        /\ Distinct(e.timers)
    BY <1>1, <1>7 DEF KernelInv, Sound, Linked, ReadyAgrees, WaitersSuspended, Timed
  <2>2. Thins(e, ThreadResume(e, h))
    BY <1>6, <1>7, <2>1, ResumeThins
  <2>3. ThreadResume(e, h).prio = e.prio
    BY <1>6, <1>7, ResumeStates
  <2> QED
    BY <1>5, <2>2, <2>3
<1>10. Mild(k, k')
  BY <1>7, <1>8, <1>9, ThinsTransitive DEF Mild
<1> QED
  BY <1>1, <1>2, <1>6, <1>10, WakensRanks

LEMMA NextRanks ==
    ASSUME RefInv, Ranked, [Next]_vars
    PROVE  Ranked' /\ [ServesNext]_vars
<1>1. SemInv'
  BY NextKeeps DEF RefInv
<1>2. ASSUME UNCHANGED <<k, asked>>
      PROVE  Ranked' /\ ServesNext
  BY <1>2, RankedStill DEF ServesNext, Waiters
<1>3. CASE KernelStep
  BY <1>3, KernelStepRanks
<1>4. CASE IsrRelease
  BY <1>1, <1>4, ReleaseRanks
<1>5. ASSUME NEW t \in Worker, SemStep(t)
      PROVE  Ranked' /\ ServesNext
  <2>1. CASE TakeBlocks(t)
    <3>1. Sem \in Object /\ Waiters \subseteq Range(k'.wait[Sem])
      <4>1. PICK time \in WaitTimes \ {0} : k' = Block(k, Sem, t, SemFlag, time)
        BY <2>1 DEF TakeBlocks
      <4>2. /\ Sound(k) /\ t \in Thread /\ t # Idle /\ time \in Int
            /\ Sem \in Object /\ k.lock = 0 /\ k.stat[t] = "RUNNING"
        BY <2>1, AtRuns, SemaphoreAssumption
           DEF RefInv, SemInv, KernelInv, Worker, TakeBlocks, MayBlock
      <4>3. Blocked(k, k', t, Sem)
        BY <4>1, <4>2, BlockGives
      <4> QED
        BY <4>2, <4>3 DEF Blocked, Waiters
    <3>2. ServesNext
      BY <3>1 DEF ServesNext
    <3> QED
      BY <2>1, <3>2, TakeBlocksRanks
  <2>2. CASE Release(t)
    BY <1>1, <2>2, ReleaseRanks
  <2>3. CASE ResetWake(t) \/ DetachWake(t)
    BY <1>1, <2>3, AbortRanks
  <2>4. CASE \/ TakeAvailable(t) \/ TakeReturns(t)
             \/ ResetBegin(t) \/ ResetEnd(t)
             \/ DetachBegin(t) \/ DetachTest(t) \/ DetachHalt(t)
             \/ DetachEnd(t) \/ SemInit(t) \/ Halted(t)
    BY <1>2, <2>4 DEF TakeAvailable, TakeReturns, ResetBegin, ResetEnd,
                      DetachBegin, DetachTest, DetachHalt, DetachEnd, SemInit,
                      Halted, vars, kernelVars, semVars
  <2> QED
    BY <1>5, <2>1, <2>2, <2>3, <2>4 DEF SemStep
<1> QED
  BY <1>2, <1>3, <1>4, <1>5 DEF Next, vars, kernelVars, semVars

-----------------------------------------------------------------------------
(* rt_ipc_list_suspend and rt_ipc_list_resume: whoever is given a token by *)
(* a release has blocked first, under RT_IPC_FLAG_PRIO first among the     *)
(* waiters of the highest priority, whatever timeouts, resets and other    *)
(* releases have taken out of the list since.                              *)
THEOREM ServiceInOrder == Spec => ServedInOrder
<1>1. Init => RefInv /\ Ranked
  BY InitMaps, RankedInit
<1>2. RefInv /\ Ranked /\ [Next]_vars => (RefInv /\ Ranked)'
  BY StepMaps, NextRanks
<1>3. ASSUME RefInv, Ranked, [Next]_vars
      PROVE  [\A t \in Waiters :
                 t \notin Range(k'.wait[Sem]) /\ k'.error[t] = "OK" =>
                     NextInLine(t)]_vars
  BY <1>3, NextRanks DEF ServesNext
<1> QED
  BY <1>1, <1>2, <1>3, PTL DEF Spec, ServedInOrder

-----------------------------------------------------------------------------
(* The life of a thread.  First, what the operations on the kernel state   *)
(* make of a thread whose state they do not read.                          *)

(* b with another state for t.                                             *)
Marked(b, t, x) == [b EXCEPT !.stat[t] = x]

(* A thread that no list of the scheduler links and that does not run: its *)
(* state is nothing rt_schedule reads.                                     *)
Unread(b, v) ==
    /\ b \in KernelState
    /\ b.group = {p \in Prio : b.ready[p] # <<>>}
    /\ v \in Thread /\ b.stat[v] # "RUNNING"
    /\ \A p \in Prio : v \notin Range(b.ready[p])

LEMMA MarkedIs ==
    ASSUME NEW b \in KernelState, NEW v \in Thread, NEW x \in Stat,
           NEW m, m = Marked(b, v, x)
    PROVE  /\ m \in KernelState
           /\ m.stat = [b.stat EXCEPT ![v] = x]
           /\ m.cur = b.cur /\ m.yield = b.yield /\ m.prio = b.prio
           /\ m.mask = b.mask /\ m.remaining = b.remaining
           /\ m.error = b.error /\ m.ready = b.ready /\ m.group = b.group
           /\ m.wait = b.wait /\ m.tick = b.tick /\ m.due = b.due
           /\ m.timers = b.timers /\ m.lock = b.lock
BY DEF Marked, KernelState

LEMMA MarkedTwice ==
    ASSUME NEW b \in KernelState, NEW v \in Thread, NEW x \in Stat, NEW y \in Stat
    PROVE  /\ Marked(Marked(b, v, x), v, y) = Marked(b, v, y)
           /\ Marked(b, v, b.stat[v]) = b
           /\ \A u \in Thread \ {v} :
                 Marked(Marked(b, v, x), u, y) = Marked(Marked(b, u, y), v, x)
<1>1. PICK f : f = b.stat
  OBVIOUS
<1>2. f \in [Thread -> Stat]
  BY <1>1 DEF KernelState
<1>3. /\ [[f EXCEPT ![v] = x] EXCEPT ![v] = y] = [f EXCEPT ![v] = y]
      /\ [f EXCEPT ![v] = f[v]] = f
      /\ \A u \in Thread \ {v} :
            [[f EXCEPT ![v] = x] EXCEPT ![u] = y] = [[f EXCEPT ![u] = y] EXCEPT ![v] = x]
  BY <1>2
<1>4. \A g : [[b EXCEPT !.stat = g] EXCEPT !.stat = f] = b
  BY <1>1 DEF KernelState
<1>5. \A g : [b EXCEPT !.stat = g].stat = g
  BY DEF KernelState
<1>6. \A g, h : [[b EXCEPT !.stat = g] EXCEPT !.stat = h] = [b EXCEPT !.stat = h]
  BY DEF KernelState
<1>7. [b EXCEPT !.stat = f] = b
  BY <1>1 DEF KernelState
<1>8. \A u, z : Marked(b, u, z) = [b EXCEPT !.stat = [f EXCEPT ![u] = z]]
  BY <1>1 DEF Marked
<1>9. \A g, u, z : Marked([b EXCEPT !.stat = g], u, z) =
                      [b EXCEPT !.stat = [g EXCEPT ![u] = z]]
  BY <1>5, <1>6 DEF Marked
<1>10. \A u, z, w, q : Marked(Marked(b, u, z), w, q) =
                      [b EXCEPT !.stat = [[f EXCEPT ![u] = z] EXCEPT ![w] = q]]
  <2> TAKE u, z, w, q
  <2>1. PICK g : g = [f EXCEPT ![u] = z]
    OBVIOUS
  <2>2. Marked(b, u, z) = [b EXCEPT !.stat = g]
    BY <1>8, <2>1
  <2> QED
    BY <1>9, <2>1, <2>2
<1>11. Marked(b, v, f[v]) = b
  BY <1>3, <1>7, <1>8
<1>12. Marked(Marked(b, v, x), v, y) = Marked(b, v, y)
  BY <1>3, <1>8, <1>10
<1>13. ASSUME NEW u \in Thread \ {v}
       PROVE  Marked(Marked(b, v, x), u, y) = Marked(Marked(b, u, y), v, x)
  BY <1>3, <1>10
<1> QED
  BY <1>1, <1>11, <1>12, <1>13

LEMMA MarkUnlink ==
    ASSUME NEW b \in KernelState, NEW v \in Thread, NEW x \in Stat, NEW t \in Thread
    PROVE  Unlink(Marked(b, v, x), t) = Marked(Unlink(b, t), v, x)
BY DEF Marked, KernelState, Unlink

LEMMA MarkInsert ==
    ASSUME NEW b \in KernelState, NEW v \in Thread, NEW x \in Stat,
           NEW t \in Thread \ {v}
    PROVE  InsertThread(Marked(b, v, x), t) = Marked(InsertThread(b, t), v, x)
<1>1. PICK m : m = Marked(b, v, x)
  OBVIOUS
<1>2. /\ m.stat = [b.stat EXCEPT ![v] = x] /\ m.cur = b.cur
      /\ m.prio = b.prio /\ m.mask = b.mask
      /\ m.ready = b.ready /\ m.group = b.group
  BY <1>1, MarkedIs
<1>3. PICK g : g = [b.ready EXCEPT ![b.prio[t]] = Append(@, t)]
  OBVIOUS
<1>4. PICK h : h = b.group \cup {b.mask[t]}
  OBVIOUS
<1>5. \A y : Marked(m, t, y) = Marked(Marked(b, t, y), v, x)
  <2>1. PICK f : f = b.stat
    OBVIOUS
  <2>2. f \in [Thread -> Stat]
    BY <2>1 DEF KernelState
  <2>3. \A y : [[f EXCEPT ![v] = x] EXCEPT ![t] = y] = [[f EXCEPT ![t] = y] EXCEPT ![v] = x]
    BY <2>2
  <2>4. \A q, r : /\ [[b EXCEPT !.stat = q] EXCEPT !.stat = r] = [b EXCEPT !.stat = r]
                  /\ [b EXCEPT !.stat = q].stat = q
    BY DEF KernelState
  <2> QED
    BY <1>1, <2>1, <2>3, <2>4 DEF Marked
<1>6. CASE t = b.cur
  BY <1>1, <1>2, <1>5, <1>6 DEF InsertThread, Marked
<1>7. CASE t # b.cur
  <2>1. InsertThread(m, t) =
           [Marked(m, t, "READY") EXCEPT !.ready = g, !.group = h]
    BY <1>2, <1>3, <1>4, <1>7, <1>1 DEF InsertThread, Marked, KernelState
  <2>2. InsertThread(b, t) =
           [Marked(b, t, "READY") EXCEPT !.ready = g, !.group = h]
    BY <1>3, <1>4, <1>7 DEF InsertThread, Marked, KernelState
  <2>3. PICK c : c = Marked(b, t, "READY")
    OBVIOUS
  <2>4. c \in KernelState
    BY <2>3, MarkedIs DEF Stat
  <2>5. [Marked(c, v, x) EXCEPT !.ready = g, !.group = h] =
           Marked([c EXCEPT !.ready = g, !.group = h], v, x)
    BY <2>4 DEF Marked, KernelState
  <2> QED
    BY <1>1, <1>5, <2>1, <2>2, <2>3, <2>5
<1> QED
  BY <1>6, <1>7

LEMMA MarkTimerStop ==
    ASSUME NEW b \in KernelState, NEW v \in Thread, NEW x \in Stat, NEW t \in Thread
    PROVE  TimerStop(Marked(b, v, x), t) = Marked(TimerStop(b, t), v, x)
BY DEF Marked, KernelState, TimerStop

LEMMA UnlinkType ==
    ASSUME NEW b \in KernelState, NEW t \in Thread
    PROVE  Unlink(b, t) \in KernelState
<1>1. \A p \in Prio : Without(b.ready[p], t) \in Seq(Thread)
  BY WithoutType DEF KernelState
<1>2. \A o \in Object : Without(b.wait[o], t) \in Seq(Thread)
  BY WithoutType DEF KernelState
<1> QED
  BY <1>1, <1>2 DEF Unlink, KernelState

LEMMA TimerStopType ==
    ASSUME NEW b \in KernelState, NEW t \in Thread
    PROVE  TimerStop(b, t) \in KernelState
<1>1. Without(b.timers, t) \in Seq(Thread)
  BY WithoutType DEF KernelState
<1>2. 0 \in Tick
  BY KernelAssumption DEF Tick
<1> QED
  BY <1>1, <1>2 DEF TimerStop, KernelState

LEMMA MarkRemove ==
    ASSUME NEW b \in KernelState, NEW v \in Thread, NEW x \in Stat, NEW t \in Thread
    PROVE  RemoveThread(Marked(b, v, x), t) = Marked(RemoveThread(b, t), v, x)
<1>1. PICK m, u, w : m = Marked(b, v, x) /\ u = Unlink(b, t) /\ w = Unlink(m, t)
  OBVIOUS
<1>2. w = Marked(u, v, x)
  BY <1>1, MarkUnlink
<1>3. u \in KernelState
  BY <1>1, UnlinkType
<1>4. /\ m.prio = b.prio /\ m.mask = b.mask
      /\ w.ready = u.ready /\ w.group = u.group
  <2>1. m.prio = b.prio /\ m.mask = b.mask
    BY <1>1 DEF Marked, KernelState
  <2>2. w.ready = u.ready /\ w.group = u.group
    BY <1>2, <1>3 DEF Marked, KernelState
  <2> QED
    BY <2>1, <2>2
<1>5. \A g : [Marked(u, v, x) EXCEPT !.group = g] = Marked([u EXCEPT !.group = g], v, x)
  BY <1>3 DEF Marked, KernelState
<1> QED
  BY <1>1, <1>2, <1>4, <1>5 DEF RemoveThread

LEMMA HeadOfHighest ==
    ASSUME NEW b, NEW v, Unread(b, v), b.group # {}
    PROVE  LET to == Head(b.ready[HighestReady(b)])
           IN  to \in Thread \ {v}
<1> DEFINE h == HighestReady(b)
<1>1. h \in b.group
  <2>1. b.group \in SUBSET Nat
    BY KernelAssumption DEF Unread, KernelState, Prio
  <2> QED
    BY <2>1, LeastIn DEF HighestReady
<1>2. h \in Prio /\ b.ready[h] # <<>> /\ b.ready[h] \in Seq(Thread)
  BY <1>1 DEF Unread, KernelState
<1>3. Head(b.ready[h]) \in Range(b.ready[h]) /\ Head(b.ready[h]) \in Thread
  BY <1>2, HeadIn
<1> QED
  BY <1>2, <1>3 DEF Unread

LEMMA RemoveType ==
    ASSUME NEW b \in KernelState, NEW t \in Thread
    PROVE  /\ RemoveThread(b, t) \in KernelState
           /\ RemoveThread(b, t).stat = b.stat /\ RemoveThread(b, t).cur = b.cur
<1>1. PICK u : u = Unlink(b, t)
  OBVIOUS
<1>2. u \in KernelState
  BY <1>1, UnlinkType
<1>3. u.stat = b.stat /\ u.cur = b.cur
  BY <1>1 DEF Unlink, KernelState
<1> QED
  BY <1>1, <1>2, <1>3 DEF RemoveThread, KernelState

LEMMA InsertType ==
    ASSUME NEW b \in KernelState, NEW t \in Thread
    PROVE  InsertThread(b, t) \in KernelState
<1>1. Append(b.ready[b.prio[t]], t) \in Seq(Thread)
  BY AppendProperties DEF KernelState
<1> QED
  BY <1>1 DEF InsertThread, KernelState, Stat

LEMMA RequeueType ==
    ASSUME NEW b \in KernelState, NEW to \in Thread
    PROVE  Requeue(b, to) \in KernelState
<1>1. PICK h : h = [b EXCEPT !.cur = to]
  OBVIOUS
<1>2. h \in KernelState
  BY <1>1 DEF KernelState
<1>3. PICK g : g = [h EXCEPT !.yield[b.cur] = FALSE]
  OBVIOUS
<1>4. g \in KernelState /\ b.cur \in Thread
  BY <1>2, <1>3 DEF KernelState
<1>5. InsertThread(g, b.cur) \in KernelState
  BY <1>4, InsertType
<1> QED
  BY <1>1, <1>2, <1>3, <1>5 DEF Requeue

LEMMA MarkRequeue ==
    ASSUME NEW b, NEW v, Unread(b, v), NEW x \in Stat \ {"RUNNING"},
           NEW to \in Thread \ {v}
    PROVE  Requeue(Marked(b, v, x), to) = Marked(Requeue(b, to), v, x)
<1>1. PICK m, c : m = Marked(b, v, x) /\ c = b.cur
  OBVIOUS
<1>2. v \in Thread /\ b \in KernelState /\ c \in Thread
  BY <1>1 DEF Unread, KernelState
<1>3. m.cur = c /\ (m.stat[c] = "RUNNING" <=> b.stat[c] = "RUNNING")
  BY <1>1, <1>2 DEF Marked, KernelState, Unread
<1>4. PICK h : h = [b EXCEPT !.cur = to]
  OBVIOUS
<1>5. [m EXCEPT !.cur = to] = Marked(h, v, x) /\ h \in KernelState
  BY <1>1, <1>2, <1>4 DEF Marked, KernelState
<1>6. PICK g : g = [h EXCEPT !.yield[c] = FALSE]
  OBVIOUS
<1>7. [[m EXCEPT !.cur = to] EXCEPT !.yield[c] = FALSE] = Marked(g, v, x)
      /\ g \in KernelState
  BY <1>2, <1>5, <1>6 DEF Marked, KernelState
<1>8. CASE b.stat[c] = "RUNNING"
  <2>1. c # v
    BY <1>8 DEF Unread
  <2>2. InsertThread(Marked(g, v, x), c) = Marked(InsertThread(g, c), v, x)
    BY <1>2, <1>7, <2>1, MarkInsert
  <2>3. Requeue(b, to) = InsertThread(g, c)
    BY <1>1, <1>4, <1>6, <1>8 DEF Requeue
  <2>4. Requeue(m, to) = InsertThread(Marked(g, v, x), c)
    BY <1>3, <1>7, <1>8 DEF Requeue
  <2> QED
    BY <1>1, <2>2, <2>3, <2>4
<1>9. CASE b.stat[c] # "RUNNING"
  <2>1. Requeue(m, to) = [m EXCEPT !.cur = to]
    BY <1>3, <1>9 DEF Requeue
  <2>2. Requeue(b, to) = h
    BY <1>1, <1>4, <1>9 DEF Requeue
  <2> QED
    BY <1>1, <1>5, <2>1, <2>2
<1> QED
  BY <1>8, <1>9

(* rt_schedule does not read the state of a thread that is in no list and  *)
(* does not run, and does not change it.                                   *)
LEMMA MarkSchedule ==
    ASSUME NEW b, NEW v, Unread(b, v), NEW x \in Stat \ {"RUNNING"}
    PROVE  Schedule(Marked(b, v, x)) = Marked(Schedule(b), v, x)
<1>1. PICK m, c, to : /\ m = Marked(b, v, x) /\ c = b.cur
                      /\ to = Head(b.ready[HighestReady(b)])
  OBVIOUS
<1>2. v \in Thread /\ b \in KernelState /\ c \in Thread
  BY <1>1 DEF Unread, KernelState
<1>3. /\ m.cur = c /\ (m.stat[c] = "RUNNING" <=> b.stat[c] = "RUNNING")
      /\ m.lock = b.lock /\ m.group = b.group /\ m.ready = b.ready
      /\ m.prio = b.prio /\ m.yield = b.yield
  BY <1>1, <1>2 DEF Marked, KernelState, Unread
<1>4. HighestReady(m) = HighestReady(b) /\ (KeepsCpu(m) <=> KeepsCpu(b))
  <2>1. HighestReady(m) = HighestReady(b)
    BY <1>3 DEF HighestReady
  <2> QED
    BY <1>1, <1>3, <2>1 DEF KeepsCpu
<1>5. CASE b.lock # 0 \/ b.group = {}
  BY <1>1, <1>3, <1>5 DEF Schedule
<1>6. CASE ~(b.lock # 0 \/ b.group = {}) /\ KeepsCpu(b)
  <2>1. PICK r : r = RemoveThread(b, c)
    OBVIOUS
  <2>2. RemoveThread(m, c) = Marked(r, v, x) /\ r \in KernelState
    BY <1>1, <1>2, <2>1, MarkRemove, RemoveType
  <2>3. [Marked(r, v, x) EXCEPT !.yield[c] = FALSE] =
           Marked([r EXCEPT !.yield[c] = FALSE], v, x)
    BY <1>2, <2>2 DEF Marked, KernelState
  <2>4. Schedule(m) = [RemoveThread(m, c) EXCEPT !.yield[c] = FALSE]
    BY <1>3, <1>4, <1>6 DEF Schedule
  <2>5. Schedule(b) = [RemoveThread(b, c) EXCEPT !.yield[c] = FALSE]
    BY <1>1, <1>6 DEF Schedule
  <2> QED
    BY <1>1, <2>1, <2>2, <2>3, <2>4, <2>5
<1>7. CASE ~(b.lock # 0 \/ b.group = {}) /\ ~KeepsCpu(b)
  <2>1. to \in Thread \ {v}
    BY <1>1, <1>7, HeadOfHighest
  <2>2. PICK q : q = Requeue(b, to)
    OBVIOUS
  <2>3. Requeue(m, to) = Marked(q, v, x) /\ q \in KernelState
    BY <1>1, <1>2, <2>1, <2>2, MarkRequeue, RequeueType
  <2>4. PICK r : r = RemoveThread(q, to)
    OBVIOUS
  <2>5. RemoveThread(Marked(q, v, x), to) = Marked(r, v, x) /\ r \in KernelState
    BY <1>2, <2>1, <2>3, <2>4, MarkRemove, RemoveType
  <2>6. Marked(Marked(r, v, x), to, "RUNNING") = Marked(Marked(r, to, "RUNNING"), v, x)
    BY <1>2, <2>1, <2>5, MarkedTwice DEF Stat
  <2>7. Schedule(m) = Marked(RemoveThread(Requeue(m, to), to), to, "RUNNING")
    BY <1>1, <1>3, <1>4, <1>7 DEF Schedule, SwitchTo, Marked
  <2>8. Schedule(b) = Marked(RemoveThread(Requeue(b, to), to), to, "RUNNING")
    BY <1>1, <1>7 DEF Schedule, SwitchTo, Marked
  <2> QED
    BY <1>1, <2>2, <2>3, <2>4, <2>5, <2>6, <2>7, <2>8
<1> QED
  BY <1>5, <1>6, <1>7

-----------------------------------------------------------------------------
(* The same of the other operations on the kernel state.                   *)

LEMMA SoundUnread ==
    ASSUME NEW b, Sound(b), NEW v \in Thread,
           b.stat[v] \in {"INIT", "SUSPEND", "CLOSE"}
    PROVE  Unread(b, v)
BY DEF Sound, Linked, ReadyAgrees, Unread

LEMMA MarkYield ==
    ASSUME NEW b, NEW v, Unread(b, v), NEW x \in Stat \ {"RUNNING"},
           NEW t \in Thread
    PROVE  ThreadYield(Marked(b, v, x), t) = Marked(ThreadYield(b, t), v, x)
<1>1. PICK e : e = [b EXCEPT !.remaining[t] = InitTick[t], !.yield[t] = TRUE]
  OBVIOUS
<1>2. b \in KernelState /\ v \in Thread
  BY DEF Unread
<1>3. /\ e \in KernelState /\ e.stat = b.stat /\ e.ready = b.ready
      /\ e.group = b.group
  BY <1>1, <1>2, KernelAssumption DEF KernelState
<1>4. Unread(e, v)
  BY <1>3 DEF Unread
<1>5. [Marked(b, v, x) EXCEPT !.remaining[t] = InitTick[t], !.yield[t] = TRUE] =
         Marked(e, v, x)
  BY <1>1, <1>2 DEF Marked, KernelState
<1> QED
  BY <1>1, <1>4, <1>5, MarkSchedule DEF ThreadYield

LEMMA MarkTick ==
    ASSUME NEW b, NEW v, Unread(b, v), NEW x \in Stat \ {"RUNNING"}
    PROVE  TickIncrease(Marked(b, v, x)) = Marked(TickIncrease(b), v, x)
<1>1. PICK m, c, n : /\ m = Marked(b, v, x) /\ c = b.cur
                     /\ n = [b EXCEPT !.tick = Later(b, 1)]
  OBVIOUS
<1>2. b \in KernelState /\ v \in Thread /\ c \in Thread
  BY <1>1 DEF Unread, KernelState
<1>3. Later(b, 1) \in Tick
  BY <1>2, NextTick
<1>4. /\ n \in KernelState /\ n.stat = b.stat /\ n.ready = b.ready
      /\ n.group = b.group
  BY <1>1, <1>2, <1>3 DEF KernelState
<1>5. Unread(n, v)
  BY <1>4 DEF Unread
<1>6. m.cur = c /\ m.remaining = b.remaining /\ m.tick = b.tick
  BY <1>1, <1>2 DEF Marked, KernelState
<1>7. [m EXCEPT !.tick = Later(m, 1)] = Marked(n, v, x)
  <2>1. Later(m, 1) = Later(b, 1)
    BY <1>6 DEF Later
  <2>2. \A d : [Marked(b, v, x) EXCEPT !.tick = d] = Marked([b EXCEPT !.tick = d], v, x)
    BY <1>2 DEF Marked, KernelState
  <2> QED
    BY <1>1, <2>1, <2>2
<1>8. CASE b.remaining[c] = 1
  <2>1. TickIncrease(m) = ThreadYield(Marked(n, v, x), c)
    BY <1>6, <1>7, <1>8 DEF TickIncrease
  <2>2. TickIncrease(b) = ThreadYield(n, c)
    BY <1>1, <1>8 DEF TickIncrease
  <2> QED
    BY <1>1, <1>2, <1>5, <2>1, <2>2, MarkYield
<1>9. CASE b.remaining[c] # 1
  <2>1. TickIncrease(m) = [Marked(n, v, x) EXCEPT !.remaining[c] = @ - 1]
    BY <1>6, <1>7, <1>9 DEF TickIncrease
  <2>2. TickIncrease(b) = [n EXCEPT !.remaining[c] = @ - 1]
    BY <1>1, <1>9 DEF TickIncrease
  <2>3. [Marked(n, v, x) EXCEPT !.remaining[c] = @ - 1] =
           Marked([n EXCEPT !.remaining[c] = @ - 1], v, x)
    BY <1>4 DEF Marked, KernelState
  <2> QED
    BY <1>1, <2>1, <2>2, <2>3
<1> QED
  BY <1>8, <1>9

LEMMA MarkResume ==
    ASSUME NEW b \in KernelState, NEW v \in Thread, NEW x \in Stat,
           NEW t \in Thread \ {v}
    PROVE  ThreadResume(Marked(b, v, x), t) = Marked(ThreadResume(b, t), v, x)
<1>1. PICK m, u, s : /\ m = Marked(b, v, x) /\ u = Unlink(b, t)
                     /\ s = TimerStop(u, t)
  OBVIOUS
<1>2. m.stat[t] = b.stat[t]
  BY <1>1 DEF Marked, KernelState
<1>3. u \in KernelState /\ Unlink(m, t) = Marked(u, v, x)
  BY <1>1, UnlinkType, MarkUnlink
<1>4. s \in KernelState /\ TimerStop(Marked(u, v, x), t) = Marked(s, v, x)
  BY <1>1, <1>3, MarkTimerStop, TimerStopType
<1>5. InsertThread(Marked(s, v, x), t) = Marked(InsertThread(s, t), v, x)
  BY <1>4, MarkInsert
<1>6. CASE b.stat[t] = "SUSPEND"
  <2>1. ThreadResume(m, t) = InsertThread(TimerStop(Unlink(m, t), t), t)
    BY <1>2, <1>6 DEF ThreadResume
  <2>2. ThreadResume(b, t) = InsertThread(s, t)
    BY <1>1, <1>6 DEF ThreadResume
  <2> QED
    BY <1>1, <1>3, <1>4, <1>5, <2>1, <2>2
<1>7. CASE b.stat[t] # "SUSPEND"
  BY <1>1, <1>2, <1>7 DEF ThreadResume
<1> QED
  BY <1>6, <1>7

LEMMA MarkClosed ==
    ASSUME NEW b \in KernelState, NEW v \in Thread, NEW x \in Stat,
           NEW t \in Thread \ {v}
    PROVE  Closed(Marked(b, v, x), t) = Marked(Closed(b, t), v, x)
<1>1. PICK r, c : r = RemoveThread(b, t) /\ c = Marked(r, t, "CLOSE")
  OBVIOUS
<1>2. r \in KernelState /\ RemoveThread(Marked(b, v, x), t) = Marked(r, v, x)
  BY <1>1, RemoveType, MarkRemove
<1>3. Marked(Marked(r, v, x), t, "CLOSE") = Marked(c, v, x)
  BY <1>1, <1>2, MarkedTwice DEF Stat
<1>4. c \in KernelState
  BY <1>1, <1>2, MarkedIs DEF Stat
<1>5. TimerStop(Marked(c, v, x), t) = Marked(TimerStop(c, t), v, x)
  BY <1>4, MarkTimerStop
<1>6. Closed(Marked(b, v, x), t) =
         TimerStop(Marked(RemoveThread(Marked(b, v, x), t), t, "CLOSE"), t)
  BY DEF Closed, Marked
<1>7. Closed(b, t) = TimerStop(c, t)
  BY <1>1 DEF Closed, Marked
<1> QED
  BY <1>2, <1>3, <1>5, <1>6, <1>7

LEMMA MarkSuspend ==
    ASSUME NEW b \in KernelState, NEW v \in Thread, NEW x \in Stat,
           NEW t \in Thread \ {v}
    PROVE  /\ ThreadSuspend(b, t) \in KernelState
           /\ ThreadSuspend(Marked(b, v, x), t) = Marked(ThreadSuspend(b, t), v, x)
<1>1. PICK m, r, c : /\ m = Marked(b, v, x) /\ r = RemoveThread(b, t)
                     /\ c = Marked(r, t, "SUSPEND")
  OBVIOUS
<1>2. r \in KernelState /\ RemoveThread(m, t) = Marked(r, v, x)
  BY <1>1, RemoveType, MarkRemove
<1>3. Marked(Marked(r, v, x), t, "SUSPEND") = Marked(c, v, x)
  BY <1>1, <1>2, MarkedTwice DEF Stat
<1>4. c \in KernelState
  BY <1>1, <1>2, MarkedIs DEF Stat
<1>5. /\ TimerStop(Marked(c, v, x), t) = Marked(TimerStop(c, t), v, x)
      /\ TimerStop(c, t) \in KernelState
  BY <1>4, MarkTimerStop, TimerStopType
<1>6. m.stat[t] = b.stat[t]
  BY <1>1 DEF Marked, KernelState
<1>7. CASE b.stat[t] \in {"READY", "RUNNING"}
  <2>1. ThreadSuspend(m, t) = TimerStop(Marked(RemoveThread(m, t), t, "SUSPEND"), t)
    BY <1>6, <1>7 DEF ThreadSuspend, Marked
  <2>2. ThreadSuspend(b, t) = TimerStop(c, t)
    BY <1>1, <1>7 DEF ThreadSuspend, Marked
  <2> QED
    BY <1>1, <1>2, <1>3, <1>5, <2>1, <2>2
<1>8. CASE b.stat[t] \notin {"READY", "RUNNING"}
  BY <1>1, <1>6, <1>8 DEF ThreadSuspend
<1> QED
  BY <1>7, <1>8

LEMMA MarkBlock ==
    ASSUME NEW b \in KernelState, NEW v \in Thread, NEW x \in Stat,
           NEW t \in Thread \ {v}, NEW o \in Object, NEW flag,
           NEW time \in Int, time <= 0
    PROVE  Block(Marked(b, v, x), o, t, flag, time) =
               Marked(Block(b, o, t, flag, time), v, x)
<1>1. PICK e, s : e = [b EXCEPT !.error[t] = "OK"] /\ s = ThreadSuspend(e, t)
  OBVIOUS
<1>2. e \in KernelState /\ [Marked(b, v, x) EXCEPT !.error[t] = "OK"] = Marked(e, v, x)
  BY <1>1 DEF Marked, KernelState, Error
<1>3. s \in KernelState /\ ThreadSuspend(Marked(e, v, x), t) = Marked(s, v, x)
  BY <1>1, <1>2, MarkSuspend
<1>4. Join(Marked(s, v, x), o, t, flag) = Marked(Join(s, o, t, flag), v, x)
  <2>1. PICK m : m = Marked(s, v, x)
    OBVIOUS
  <2>2. m.wait = s.wait /\ m.prio = s.prio
    BY <1>3, <2>1 DEF Marked, KernelState
  <2>3. WaitPlace(m, o, t, flag) = WaitPlace(s, o, t, flag)
    BY <2>2 DEF WaitPlace
  <2>4. PICK i : i = WaitPlace(s, o, t, flag)
    OBVIOUS
  <2>5. PICK w : w = [s.wait EXCEPT ![o] = InsertAt(@, i, t)]
    OBVIOUS
  <2>6. Join(m, o, t, flag) = [m EXCEPT !.wait = w]
    BY <2>2, <2>3, <2>4, <2>5 DEF Join
  <2>7. Join(s, o, t, flag) = [s EXCEPT !.wait = w]
    BY <2>4, <2>5 DEF Join
  <2>8. [Marked(s, v, x) EXCEPT !.wait = w] = Marked([s EXCEPT !.wait = w], v, x)
    BY <1>3 DEF Marked, KernelState
  <2> QED
    BY <2>1, <2>6, <2>7, <2>8
<1>5. \A z : Block(z, o, t, flag, time) =
                Join(ThreadSuspend([z EXCEPT !.error[t] = "OK"], t), o, t, flag)
  BY DEF Block, IpcListSuspend
<1> QED
  BY <1>1, <1>2, <1>3, <1>4, <1>5

-----------------------------------------------------------------------------
(* What the operations leave alone.  A thread that is put away is          *)
(* suspended, in no suspend list, and not the current one.                 *)
PutAway(b, t) ==
    b.stat[t] = "SUSPEND" /\ b.cur # t /\ \A o \in Object : t \notin Range(b.wait[o])

(* From b to s no thread is created or closed, and none that is put away   *)
(* is woken.                                                               *)
LeavesAlone(b, s) ==
    \A t \in Thread :
        /\ b.stat[t] \in {"INIT", "CLOSE"} \/ s.stat[t] \in {"INIT", "CLOSE"} =>
              s.stat[t] = b.stat[t]
        /\ PutAway(b, t) => s.stat[t] = "SUSPEND"

LEMMA WakesPutAway ==
    ASSUME NEW b, NEW s, Wakes(b, s), LeavesAlone(b, s), NEW t \in Thread,
           PutAway(b, t)
    PROVE  PutAway(s, t)
BY DEF Wakes, LeavesAlone, PutAway

LEMMA ScheduleAlone ==
    ASSUME NEW b, Sound(b)
    PROVE  /\ LeavesAlone(b, Schedule(b))
           /\ \A t \in Thread : b.stat[t] = "SUSPEND" => Schedule(b).stat[t] = "SUSPEND"
<1> SUFFICES \A t \in Thread :
                /\ b.stat[t] \in {"INIT", "CLOSE"} \/ Schedule(b).stat[t] \in {"INIT", "CLOSE"} =>
                      Schedule(b).stat[t] = b.stat[t]
                /\ b.stat[t] = "SUSPEND" => Schedule(b).stat[t] = "SUSPEND"
  BY DEF LeavesAlone, PutAway
<1>1. b \in KernelState /\ b.cur \in Thread
  BY DEF Sound, Linked, KernelState
<1>2. CASE b.lock # 0 \/ b.group = {}
  BY <1>2 DEF Schedule
<1>3. CASE ~(b.lock # 0 \/ b.group = {}) /\ KeepsCpu(b)
  <2>1. Schedule(b) = [RemoveThread(b, b.cur) EXCEPT !.yield[b.cur] = FALSE]
    BY <1>3 DEF Schedule
  <2>2. PICK r : r = RemoveThread(b, b.cur)
    OBVIOUS
  <2>3. r \in KernelState /\ r.stat = b.stat
    BY <1>1, <2>2, RemoveType
  <2>4. Schedule(b).stat = b.stat
    BY <2>1, <2>2, <2>3 DEF KernelState
  <2> QED
    BY <2>4
<1>4. CASE ~(b.lock # 0 \/ b.group = {}) /\ ~KeepsCpu(b)
  <2>1. PICK to : to = Head(b.ready[HighestReady(b)])
    OBVIOUS
  <2>2. to \in Thread /\ b.stat[to] = "READY"
    BY <1>4, <2>1, HighestIsReady
  <2>3. PICK q : q = Requeue(b, to)
    OBVIOUS
  <2>4. PICK r : r = RemoveThread(q, to)
    OBVIOUS
  <2>5. q \in KernelState
    BY <1>1, <2>2, <2>3, RequeueType
  <2>6. r \in KernelState /\ r.stat = q.stat
    BY <2>2, <2>4, <2>5, RemoveType
  <2>7. Schedule(b) = [r EXCEPT !.stat[to] = "RUNNING"]
    BY <1>4, <2>1, <2>3, <2>4 DEF Schedule, SwitchTo
  <2>8. Schedule(b).stat = [q.stat EXCEPT ![to] = "RUNNING"]
    BY <2>6, <2>7 DEF KernelState
  <2>9. q.stat \in [Thread -> Stat]
    BY <2>5 DEF KernelState
  <2>10. \A u \in Thread :
            /\ q.stat[u] = "SUSPEND" <=> b.stat[u] = "SUSPEND"
            /\ q.stat[u] = "INIT" <=> b.stat[u] = "INIT"
            /\ q.stat[u] = "CLOSE" <=> b.stat[u] = "CLOSE"
    BY <2>2, <2>3, RequeueLinks
  <2> QED
    BY <2>2, <2>8, <2>9, <2>10
<1> QED
  BY <1>2, <1>3, <1>4

LEMMA TickAlone ==
    ASSUME NEW b, Sound(b)
    PROVE  LeavesAlone(b, TickIncrease(b))
<1>1. PICK y : /\ Wakes(b, y)
               /\ y.cur = b.cur /\ y.stat = b.stat /\ y.wait = b.wait
               /\ TickIncrease(b) \in {y, Schedule(y)}
  BY TickIncreaseSchedules
<1>2. CASE TickIncrease(b) = y
  BY <1>1, <1>2 DEF LeavesAlone, PutAway
<1>3. CASE TickIncrease(b) = Schedule(y)
  <2>1. LeavesAlone(y, Schedule(y))
    BY <1>1, ScheduleAlone DEF Wakes
  <2> QED
    BY <1>1, <1>3, <2>1 DEF LeavesAlone, PutAway
<1> QED
  BY <1>1, <1>2, <1>3

LEMMA YieldWakes ==
    ASSUME NEW b, Sound(b), NEW t \in Thread
    PROVE  /\ Wakes(b, ThreadYield(b, t)) /\ LeavesAlone(b, ThreadYield(b, t))
           /\ ThreadYield(b, t).timers = b.timers
           /\ LET s == ThreadYield(b, t)
              IN  b.lock = 0 => s.stat[s.cur] = "RUNNING"
<1>1. PICK e : e = [b EXCEPT !.remaining[t] = InitTick[t], !.yield[t] = TRUE]
  OBVIOUS
<1>2. b \in KernelState
  BY DEF Sound, Linked
<1>3. /\ e \in KernelState
      /\ e.cur = b.cur /\ e.stat = b.stat /\ e.prio = b.prio
      /\ e.mask = b.mask /\ e.ready = b.ready /\ e.group = b.group
      /\ e.wait = b.wait /\ e.timers = b.timers /\ e.lock = b.lock
  BY <1>1, <1>2, KernelAssumption DEF KernelState
<1>4. Sound(e) /\ Wakes(b, e)
  BY <1>3, PlainUpdate
<1>5. /\ Wakes(e, Schedule(e)) /\ LeavesAlone(e, Schedule(e))
      /\ e.lock = 0 => Schedule(e).stat[Schedule(e).cur] = "RUNNING"
      /\ Steady(e, Schedule(e))
  BY <1>4, ScheduleWakes, ScheduleAlone, ScheduleSteady
<1>6. ThreadYield(b, t) = Schedule(e)
  BY <1>1 DEF ThreadYield
<1>7. Wakes(b, Schedule(e))
  BY <1>4, <1>5, WakesTransitive
<1>8. LeavesAlone(b, Schedule(e))
  BY <1>3, <1>5 DEF LeavesAlone, PutAway
<1> QED
  BY <1>3, <1>5, <1>6, <1>7, <1>8 DEF Steady

LEMMA ResumeStat ==
    ASSUME NEW b \in KernelState, NEW t \in Thread
    PROVE  /\ ThreadResume(b, t).cur = b.cur
           /\ ThreadResume(b, t).stat =
                 IF b.stat[t] = "SUSPEND"
                 THEN [b.stat EXCEPT ![t] = IF t = b.cur THEN "RUNNING" ELSE "READY"]
                 ELSE b.stat
<1>1. PICK u, s : u = Unlink(b, t) /\ s = TimerStop(u, t)
  OBVIOUS
<1>2. u \in KernelState /\ u.stat = b.stat /\ u.cur = b.cur
  <2>1. u \in KernelState
    BY <1>1, UnlinkType
  <2> QED
    BY <1>1, <2>1 DEF Unlink, KernelState
<1>3. s \in KernelState /\ s.stat = b.stat /\ s.cur = b.cur
  <2>1. s \in KernelState
    BY <1>1, <1>2, TimerStopType
  <2> QED
    BY <1>1, <1>2, <2>1 DEF TimerStop, KernelState
<1>4. CASE b.stat[t] = "SUSPEND"
  <2>1. ThreadResume(b, t) = InsertThread(s, t)
    BY <1>1, <1>4 DEF ThreadResume
  <2>2. InsertThread(s, t).cur = s.cur
    BY <1>3 DEF InsertThread, KernelState
  <2>3. InsertThread(s, t).stat = [s.stat EXCEPT ![t] = IF t = s.cur THEN "RUNNING" ELSE "READY"]
    BY <1>3 DEF InsertThread, KernelState
  <2> QED
    BY <1>3, <1>4, <2>1, <2>2, <2>3
<1>5. CASE b.stat[t] # "SUSPEND"
  BY <1>5 DEF ThreadResume
<1> QED
  BY <1>4, <1>5

LEMMA ResumeAlone ==
    ASSUME NEW b, b \in KernelState, NEW t \in Thread, ~PutAway(b, t)
    PROVE  LeavesAlone(b, ThreadResume(b, t))
<1>1. PICK s : s = ThreadResume(b, t)
  OBVIOUS
<1>2. s.stat = IF b.stat[t] = "SUSPEND"
               THEN [b.stat EXCEPT ![t] = IF t = b.cur THEN "RUNNING" ELSE "READY"]
               ELSE b.stat
  BY <1>1, ResumeStat
<1>3. b.stat \in [Thread -> Stat]
  BY DEF KernelState
<1>4. \A u \in Thread \ {t} : s.stat[u] = b.stat[u]
  BY <1>2, <1>3
<1>5. b.stat[t] # "SUSPEND" => s.stat[t] = b.stat[t]
  BY <1>2
<1>6. b.stat[t] = "SUSPEND" => s.stat[t] \in {"READY", "RUNNING"}
  BY <1>2, <1>3
<1> QED
  BY <1>1, <1>4, <1>5, <1>6 DEF LeavesAlone, PutAway

-----------------------------------------------------------------------------
(* The invariant.  Between the parts of a deletion the thread that is      *)
(* deleted is in no list, whatever its state says: with INIT in the place  *)
(* of that state the kernel state is sound.                                *)
Hidden == phase \in {"timer", "close"}

Veiled == IF Hidden THEN Marked(k, victim, "INIT") ELSE k

(* The processor.  No timer is ever armed.                                 *)
ProcessorPart ==
    /\ Sound(Veiled)
    /\ k \in KernelState /\ k.timers = <<>> /\ k.lock = 0
    /\ pc \in [Thread -> Location]
    /\ irq \in {"on", "off", "tick"}
    /\ k.stat[k.cur] = "SUSPEND" => pc[k.cur] = "wait"

(* The semaphore.                                                          *)
SemPart ==
    /\ value \in 0 .. SemValueMax
    /\ life \in {"live", "closing", "gone"}
    /\ asked \in Seq(Thread)

(* Where the manager's call is, and what it relies on.                     *)
CallPart ==
    /\ phase \in {"none", "unlink", "timer", "close", "park", "insert"}
    /\ victim \in Worker
    /\ phase # "none" => pc[Manager] \in {"call", "halt"} /\ victim # Manager
    /\ Hidden => k.stat[victim] # "RUNNING"
    /\ phase = "close" => k.stat[victim] # "CLOSE"
    /\ phase = "insert" => PutAway(k, victim) /\ victim \notin parked

(* The threads that are suspended by the manager, closed or freed.         *)
ListPart ==
    /\ parked \subseteq Worker
    /\ free \subseteq Worker
    /\ defunct \in Seq(Worker \ Static)
    /\ \A t \in parked : PutAway(k, t)
    /\ ClosedOnce

LifeInv == ProcessorPart /\ SemPart /\ CallPart /\ ListPart

LEMMA VeiledIs ==
    ASSUME LifeInv
    PROVE  /\ Veiled \in KernelState
           /\ victim \in Thread /\ victim # Idle
           /\ k.stat[victim] \in Stat
           /\ k = Marked(Veiled, victim, k.stat[victim])
           /\ Veiled.cur = k.cur /\ Veiled.wait = k.wait /\ Veiled.ready = k.ready
           /\ Veiled.lock = 0 /\ Veiled.timers = <<>> /\ Veiled.prio = k.prio
           /\ Veiled.group = k.group
           /\ \A t \in Thread : ~(Hidden /\ t = victim) => Veiled.stat[t] = k.stat[t]
           /\ Hidden => Veiled.stat[victim] = "INIT"
<1>1. /\ k \in KernelState /\ victim \in Worker /\ k.timers = <<>> /\ k.lock = 0
      /\ victim \in Thread /\ victim # Idle
  BY DEF LifeInv, ProcessorPart, CallPart, Worker
<1>2. k.stat[victim] \in Stat /\ "INIT" \in Stat
  BY <1>1 DEF KernelState, Stat
<1>3. Marked(k, victim, k.stat[victim]) = k
  BY <1>1, MarkedTwice DEF Stat
<1>4. CASE ~Hidden
  <2>1. Veiled = k
    BY <1>4 DEF Veiled
  <2> QED
    BY <1>1, <1>2, <1>3, <1>4, <2>1
<1>5. CASE Hidden
  <2>1. PICK m : m = Marked(k, victim, "INIT")
    OBVIOUS
  <2>2. Veiled = m
    BY <1>5, <2>1 DEF Veiled
  <2>3. /\ m \in KernelState
        /\ m.stat = [k.stat EXCEPT ![victim] = "INIT"]
        /\ m.cur = k.cur /\ m.wait = k.wait /\ m.ready = k.ready
        /\ m.lock = k.lock /\ m.timers = k.timers /\ m.prio = k.prio
        /\ m.group = k.group
    BY <1>1, <1>2, <2>1, MarkedIs
  <2>4. k.stat \in [Thread -> Stat]
    BY <1>1 DEF KernelState
  <2>5. Marked(m, victim, k.stat[victim]) = Marked(k, victim, k.stat[victim])
    BY <1>1, <1>2, <2>1, MarkedTwice
  <2> QED
    BY <1>1, <1>2, <1>3, <1>5, <2>2, <2>3, <2>4, <2>5
<1> QED
  BY <1>4, <1>5

(* The state of the processor after a step of a program, as it was veiled  *)
(* before and after; ended are the threads that return in it.              *)
Passes(s, ended) ==
    /\ s \in KernelState /\ Sound(s) /\ s.lock = 0 /\ s.timers = <<>>
    /\ k' = IF Hidden THEN Marked(s, victim, k.stat[victim]) ELSE s
    /\ \A t \in Thread :
          s.stat[t] = "CLOSE" <=> Veiled.stat[t] = "CLOSE" \/ t \in ended
    /\ \A t \in Thread : PutAway(Veiled, t) => PutAway(s, t)
    /\ Hidden => s.stat[victim] = "INIT"
    /\ s.stat[s.cur] = "SUSPEND" => pc'[s.cur] = "wait"

(* The manager stays where it is in a call while others run.               *)
Turns ==
    /\ pc' \in [Thread -> Location]
    /\ phase # "none" => pc'[Manager] = pc[Manager]
    /\ irq' \in {"on", "off", "tick"}

LEMMA PassesParts ==
    ASSUME LifeInv, NEW s, NEW ended, Passes(s, ended), Turns,
           UNCHANGED <<phase, victim, parked>>
    PROVE  /\ ProcessorPart' /\ CallPart'
           /\ \A t \in parked : PutAway(k, t)'
           /\ \A t \in Thread :
                 k'.stat[t] = "CLOSE" <=> k.stat[t] = "CLOSE" \/ t \in ended
<1>1. /\ victim \in Thread /\ k.stat[victim] \in Stat
      /\ \A t \in Thread : ~(Hidden /\ t = victim) => Veiled.stat[t] = k.stat[t]
      /\ Hidden => Veiled.stat[victim] = "INIT"
      /\ Veiled.cur = k.cur /\ Veiled.wait = k.wait
  BY VeiledIs
<1>2. s \in KernelState /\ s.cur \in Thread
  BY DEF Passes, KernelState
<1>3. /\ phase' = phase /\ victim' = victim /\ parked' = parked
  OBVIOUS
<1>4. Hidden' <=> Hidden
  BY <1>3 DEF Hidden
<1>5. /\ Veiled' = s /\ k' \in KernelState
      /\ k'.timers = <<>> /\ k'.lock = 0 /\ k'.cur = s.cur /\ k'.wait = s.wait
      /\ \A t \in Thread : ~(Hidden /\ t = victim) => k'.stat[t] = s.stat[t]
      /\ Hidden => k'.stat[victim] = k.stat[victim]
  <2>1. CASE ~Hidden
    BY <1>2, <1>4, <2>1 DEF Passes, Veiled
  <2>2. CASE Hidden
    <3>1. PICK x : x = k.stat[victim]
      OBVIOUS
    <3>2. PICK m : m = Marked(s, victim, x)
      OBVIOUS
    <3>3. k' = m
      BY <2>2, <3>1, <3>2 DEF Passes
    <3>4. /\ m \in KernelState
          /\ m.stat = [s.stat EXCEPT ![victim] = x]
          /\ m.cur = s.cur /\ m.wait = s.wait
          /\ m.lock = s.lock /\ m.timers = s.timers
      BY <1>1, <1>2, <3>1, <3>2, MarkedIs
    <3>5. s.stat \in [Thread -> Stat] /\ s.stat[victim] = "INIT"
      BY <1>2, <2>2 DEF KernelState, Passes
    <3>6. Marked(m, victim, "INIT") = s
      <4>1. Marked(m, victim, "INIT") = Marked(s, victim, "INIT")
        BY <1>1, <1>2, <3>1, <3>2, MarkedTwice DEF Stat
      <4>2. Marked(s, victim, s.stat[victim]) = s
        BY <1>1, <1>2, MarkedTwice DEF Stat
      <4> QED
        BY <3>5, <4>1, <4>2
    <3>7. Veiled' = Marked(m, victim, "INIT")
      BY <1>3, <1>4, <2>2, <3>3 DEF Veiled
    <3> QED
      BY <1>1, <3>1, <3>3, <3>4, <3>5, <3>6, <3>7 DEF Passes
  <2> QED
    BY <2>1, <2>2
<1>6. Hidden => s.cur # victim /\ \A o \in Object : victim \notin Range(s.wait[o])
  <2>1. ASSUME Hidden
        PROVE  s.stat[victim] = "INIT" /\ Sound(s)
    BY <2>1 DEF Passes
  <2> QED
    BY <1>1, <2>1 DEF Sound, OneRuns, Linked, WaitersSuspended
<1>7. ASSUME NEW t \in Thread, PutAway(k, t)
      PROVE  PutAway(k, t)'
  <2>1. CASE Hidden /\ t = victim
    BY <1>5, <1>6, <1>7, <2>1 DEF PutAway
  <2>2. CASE ~(Hidden /\ t = victim)
    <3>1. PutAway(Veiled, t)
      BY <1>1, <1>7, <2>2 DEF PutAway
    <3>2. PutAway(s, t)
      BY <3>1 DEF Passes
    <3> QED
      BY <1>5, <2>2, <3>2 DEF PutAway
  <2> QED
    BY <2>1, <2>2
<1>8. ASSUME NEW t \in Thread
      PROVE  k'.stat[t] = "CLOSE" <=> k.stat[t] = "CLOSE" \/ t \in ended
  <2>1. CASE Hidden /\ t = victim
    <3>1. t \notin ended
      BY <2>1 DEF Passes
    <3> QED
      BY <1>5, <2>1, <3>1
  <2>2. CASE ~(Hidden /\ t = victim)
    BY <1>1, <1>5, <2>2 DEF Passes
  <2> QED
    BY <2>1, <2>2
<1>9. ProcessorPart'
  <2>1. k'.stat[k'.cur] = "SUSPEND" => pc'[k'.cur] = "wait"
    BY <1>2, <1>5, <1>6 DEF Passes
  <2> QED
    BY <1>5, <2>1 DEF Passes, Turns, ProcessorPart
<1>10. CallPart'
  <2>1. CallPart
    BY DEF LifeInv
  <2> QED
    <3>1. phase = "close" => k'.stat[victim] # "CLOSE"
      BY <1>5, <2>1 DEF Hidden, CallPart
    <3> QED
      BY <1>1, <1>3, <1>4, <1>5, <1>7, <2>1, <3>1 DEF CallPart, Turns
<1>11. parked \subseteq Thread /\ \A t \in parked : PutAway(k, t)
  BY DEF LifeInv, ListPart, Worker
<1> QED
  BY <1>7, <1>8, <1>9, <1>10, <1>11

LEMMA PassesKeeps ==
    ASSUME LifeInv, NEW s, Passes(s, {}), Turns, UNCHANGED lifeVars, SemPart'
    PROVE  LifeInv'
<1>1. UNCHANGED <<phase, victim, parked>> /\ UNCHANGED <<defunct, free>>
  BY DEF lifeVars
<1>2. /\ ProcessorPart' /\ CallPart'
      /\ \A t \in parked : PutAway(k, t)'
      /\ \A t \in Thread : k'.stat[t] = "CLOSE" <=> k.stat[t] = "CLOSE"
  BY <1>1, PassesParts
<1>3. ListPart
  BY DEF LifeInv
<1>4. Worker \subseteq Thread
  BY DEF Worker
<1>5. ClosedOnce'
  BY <1>1, <1>2, <1>3, <1>4 DEF ListPart, ClosedOnce
<1>6. ListPart'
  BY <1>1, <1>2, <1>3, <1>5 DEF ListPart
<1> QED
  BY <1>2, <1>6 DEF LifeInv

-----------------------------------------------------------------------------
(* The steps of the programs.                                              *)

LEMMA LifeRuns ==
    ASSUME LifeInv, NEW t \in Thread, NEW loc, At(t, loc), loc # "wait"
    PROVE  /\ k.cur = t /\ k.stat[t] = "RUNNING" /\ Veiled.stat[t] = "RUNNING"
           /\ Veiled.cur = t /\ ~(Hidden /\ victim = t)
<1>1. k.cur = t /\ pc[t] # "wait" /\ k.stat[t] # "SUSPEND"
  BY DEF At, LifeInv, ProcessorPart
<1>2. Veiled.cur = t /\ Veiled.stat[t] \in {"RUNNING", "SUSPEND"}
  BY <1>1, VeiledIs DEF LifeInv, ProcessorPart, Sound, OneRuns
<1>3. ~(Hidden /\ victim = t)
  BY <1>2, VeiledIs
<1> QED
  BY <1>1, <1>2, <1>3, VeiledIs

LEMMA GotoTurns ==
    ASSUME LifeInv, NEW t \in Thread, pc[t] \notin {"call", "halt"},
           NEW loc \in Location, Goto(t, loc) \/ UNCHANGED pc,
           irq' \in {"on", "off", "tick"}
    PROVE  Turns
<1>1. pc \in [Thread -> Location] /\ Manager \in Thread
  BY ThreadsAssumption DEF LifeInv, ProcessorPart, Worker
<1>2. phase # "none" => t # Manager
  BY DEF LifeInv, CallPart
<1> QED
  BY <1>1, <1>2 DEF Goto, Turns

LEMMA WakesPasses ==
    ASSUME LifeInv, NEW s, Wakes(Veiled, s), LeavesAlone(Veiled, s), s.timers = <<>>,
           k' = IF Hidden THEN Marked(s, victim, k.stat[victim]) ELSE s,
           s.stat[s.cur] = "SUSPEND" => pc'[s.cur] = "wait"
    PROVE  Passes(s, {})
<1>1. /\ Veiled.lock = 0 /\ victim \in Thread
      /\ Hidden => Veiled.stat[victim] = "INIT"
  BY VeiledIs
<1>2. s \in KernelState /\ Sound(s) /\ s.lock = 0
  BY <1>1 DEF Wakes, Sound, Linked
<1>3. \A t \in Thread : PutAway(Veiled, t) => PutAway(s, t)
  BY WakesPutAway
<1>4. Hidden => s.stat[victim] = "INIT"
  BY <1>1 DEF LeavesAlone
<1>5. \A t \in Thread : s.stat[t] = "CLOSE" <=> Veiled.stat[t] = "CLOSE"
  BY DEF LeavesAlone
<1> QED
  BY <1>2, <1>3, <1>4, <1>5 DEF Passes

(* A step that leaves the kernel state alone.                              *)
LEMMA StillPasses ==
    ASSUME LifeInv, UNCHANGED k, k.stat[k.cur] = "SUSPEND" => pc'[k.cur] = "wait"
    PROVE  Passes(Veiled, {})
<1>1. /\ Sound(Veiled) /\ Veiled \in KernelState
      /\ Veiled.lock = 0 /\ Veiled.timers = <<>> /\ Veiled.cur = k.cur
      /\ k = Marked(Veiled, victim, k.stat[victim])
      /\ Hidden => Veiled.stat[victim] = "INIT"
      /\ \A t \in Thread : ~(Hidden /\ t = victim) => Veiled.stat[t] = k.stat[t]
      /\ k.cur \in Thread
  BY VeiledIs DEF LifeInv, ProcessorPart, KernelState
<1>2. ~Hidden => Veiled = k
  BY DEF Veiled
<1>3. Veiled.stat[Veiled.cur] = "SUSPEND" => pc'[Veiled.cur] = "wait"
  BY <1>1
<1> QED
  BY <1>1, <1>2, <1>3 DEF Passes

LEMMA VeilReads ==
    ASSUME LifeInv, Hidden
    PROVE  /\ Unread(Veiled, victim) /\ Veiled \in KernelState
           /\ k.stat[victim] \in Stat \ {"RUNNING"} /\ victim \in Thread
           /\ k = Marked(Veiled, victim, k.stat[victim])
<1>1. /\ Sound(Veiled) /\ Veiled.stat[victim] = "INIT"
      /\ k.stat[victim] # "RUNNING"
  BY VeiledIs DEF LifeInv, ProcessorPart, CallPart
<1>2. Unread(Veiled, victim)
  BY <1>1, VeiledIs, SoundUnread
<1> QED
  BY <1>1, <1>2, VeiledIs

LEMMA VeilSchedule ==
    ASSUME LifeInv
    PROVE  Schedule(k) = IF Hidden THEN Marked(Schedule(Veiled), victim, k.stat[victim])
                         ELSE Schedule(Veiled)
<1>1. CASE Hidden
  <2>1. PICK b, v, x : b = Veiled /\ v = victim /\ x = k.stat[victim]
    OBVIOUS
  <2>2. Unread(b, v) /\ x \in Stat \ {"RUNNING"} /\ k = Marked(b, v, x)
    BY <1>1, <2>1, VeilReads
  <2>3. Schedule(Marked(b, v, x)) = Marked(Schedule(b), v, x)
    BY <2>2, MarkSchedule
  <2> QED
    BY <1>1, <2>1, <2>2, <2>3
<1>2. CASE ~Hidden
  BY <1>2 DEF Veiled
<1> QED
  BY <1>1, <1>2

LEMMA VeilYield ==
    ASSUME LifeInv, NEW t \in Thread
    PROVE  ThreadYield(k, t) =
              IF Hidden THEN Marked(ThreadYield(Veiled, t), victim, k.stat[victim])
              ELSE ThreadYield(Veiled, t)
<1>1. CASE Hidden
  <2>1. PICK b, v, x : b = Veiled /\ v = victim /\ x = k.stat[victim]
    OBVIOUS
  <2>2. Unread(b, v) /\ x \in Stat \ {"RUNNING"} /\ k = Marked(b, v, x)
    BY <1>1, <2>1, VeilReads
  <2>3. ThreadYield(Marked(b, v, x), t) = Marked(ThreadYield(b, t), v, x)
    BY <2>2, MarkYield
  <2> QED
    BY <1>1, <2>1, <2>2, <2>3
<1>2. CASE ~Hidden
  BY <1>2 DEF Veiled
<1> QED
  BY <1>1, <1>2

LEMMA VeilTick ==
    ASSUME LifeInv
    PROVE  TickIncrease(k) =
              IF Hidden THEN Marked(TickIncrease(Veiled), victim, k.stat[victim])
              ELSE TickIncrease(Veiled)
<1>1. CASE Hidden
  <2>1. PICK b, v, x : b = Veiled /\ v = victim /\ x = k.stat[victim]
    OBVIOUS
  <2>2. Unread(b, v) /\ x \in Stat \ {"RUNNING"} /\ k = Marked(b, v, x)
    BY <1>1, <2>1, VeilReads
  <2>3. TickIncrease(Marked(b, v, x)) = Marked(TickIncrease(b), v, x)
    BY <2>2, MarkTick
  <2> QED
    BY <1>1, <2>1, <2>2, <2>3
<1>2. CASE ~Hidden
  BY <1>2 DEF Veiled
<1> QED
  BY <1>1, <1>2

LEMMA VeilResume ==
    ASSUME LifeInv, NEW t \in Thread, ~(Hidden /\ t = victim)
    PROVE  ThreadResume(k, t) =
              IF Hidden THEN Marked(ThreadResume(Veiled, t), victim, k.stat[victim])
              ELSE ThreadResume(Veiled, t)
<1>1. CASE Hidden
  <2>1. PICK b, v, x : b = Veiled /\ v = victim /\ x = k.stat[victim]
    OBVIOUS
  <2>2. /\ b \in KernelState /\ x \in Stat /\ v \in Thread /\ k = Marked(b, v, x)
        /\ t \in Thread \ {v}
    BY <1>1, <2>1, VeilReads
  <2>3. ThreadResume(Marked(b, v, x), t) = Marked(ThreadResume(b, t), v, x)
    BY <2>2, MarkResume
  <2> QED
    BY <1>1, <2>1, <2>2, <2>3
<1>2. CASE ~Hidden
  BY <1>2 DEF Veiled
<1> QED
  BY <1>1, <1>2

LEMMA RtScheduleLives ==
    ASSUME LifeInv, NEW t \in Worker, RtSchedule(t), UNCHANGED lifeVars, SemPart'
    PROVE  LifeInv'
<1>1. PICK loc \in {"sched", "nap", "wait"} :
         /\ At(t, loc)
         /\ k' = Schedule(k)
         /\ Goto(t, CASE loc = "sched" -> "run"
                      [] loc = "nap"   -> "napped"
                      [] loc = "wait"  -> "woken")
         /\ UNCHANGED irq
  BY DEF RtSchedule
<1>2. Sound(Veiled) /\ Veiled.lock = 0 /\ Veiled.timers = <<>>
  BY VeiledIs DEF LifeInv, ProcessorPart
<1>3. PICK s : s = Schedule(Veiled)
  OBVIOUS
<1>4. /\ Wakes(Veiled, s) /\ LeavesAlone(Veiled, s) /\ s.timers = <<>>
      /\ s.stat[s.cur] = "RUNNING"
  BY <1>2, <1>3, ScheduleWakes, ScheduleAlone, ScheduleSteady DEF Steady
<1>5. k' = IF Hidden THEN Marked(s, victim, k.stat[victim]) ELSE s
  BY <1>1, <1>3, VeilSchedule
<1>6. Passes(s, {})
  BY <1>4, <1>5, WakesPasses
<1>7. PICK to \in Location : Goto(t, to)
  BY <1>1 DEF Location
<1>8. t \in Thread /\ pc[t] \notin {"call", "halt"} /\ irq' \in {"on", "off", "tick"}
  BY <1>1 DEF At, Worker, LifeInv, ProcessorPart
<1>9. Turns
  BY <1>7, <1>8, GotoTurns
<1> QED
  BY <1>6, <1>9, PassesKeeps

LEMMA YieldLives ==
    ASSUME LifeInv, NEW t \in Worker, Yield(t), UNCHANGED lifeVars, SemPart'
    PROVE  LifeInv'
<1>1. At(t, "run") /\ k' = ThreadYield(k, t) /\ UNCHANGED pc /\ UNCHANGED irq /\ t \in Thread
  BY DEF Yield, Worker
<1>2. Sound(Veiled) /\ Veiled.lock = 0 /\ Veiled.timers = <<>>
  BY VeiledIs DEF LifeInv, ProcessorPart
<1>3. PICK s : s = ThreadYield(Veiled, t)
  OBVIOUS
<1>4. /\ Wakes(Veiled, s) /\ LeavesAlone(Veiled, s) /\ s.timers = <<>>
      /\ s.stat[s.cur] = "RUNNING"
  BY <1>1, <1>2, <1>3, YieldWakes
<1>5. k' = IF Hidden THEN Marked(s, victim, k.stat[victim]) ELSE s
  BY <1>1, <1>3, VeilYield
<1>6. Passes(s, {})
  BY <1>4, <1>5, WakesPasses
<1>7. "run" \in Location /\ pc[t] \notin {"call", "halt"} /\ irq' \in {"on", "off", "tick"}
  BY <1>1 DEF At, Location, LifeInv, ProcessorPart
<1>8. Turns
  BY <1>1, <1>7, GotoTurns
<1> QED
  BY <1>6, <1>8, PassesKeeps

LEMMA TickLives ==
    ASSUME LifeInv, TickIsr, UNCHANGED lifeVars, SemPart'
    PROVE  LifeInv'
<1>1. UNCHANGED pc /\ irq' \in {"on", "off", "tick"}
  BY DEF TickIsr, TickInterrupt, TimerCheck, TickReturn, LifeInv, ProcessorPart
<1>2. Turns
  BY <1>1 DEF Turns, LifeInv, ProcessorPart
<1>3. /\ Sound(Veiled) /\ Veiled.lock = 0 /\ Veiled.timers = <<>> /\ k.timers = <<>>
      /\ Veiled.cur = k.cur /\ k.cur \in Thread
      /\ k.stat[k.cur] = "SUSPEND" => pc[k.cur] = "wait"
  BY VeiledIs DEF LifeInv, ProcessorPart, KernelState
<1>4. CASE TickInterrupt
  <2>1. PICK s : s = TickIncrease(Veiled)
    OBVIOUS
  <2>2. /\ Wakes(Veiled, s) /\ LeavesAlone(Veiled, s) /\ s.timers = <<>>
    BY <1>3, <2>1, TickIncreaseWakes, TickAlone, TickIncreaseIs
  <2>3. k' = IF Hidden THEN Marked(s, victim, k.stat[victim]) ELSE s
    BY <1>4, <2>1, VeilTick DEF TickInterrupt
  <2>4. s.stat[s.cur] = "SUSPEND" => pc'[s.cur] = "wait"
    <3>1. ASSUME s.stat[s.cur] = "SUSPEND"
          PROVE  s.cur = k.cur /\ k.stat[k.cur] = "SUSPEND"
      <4>1. s.cur = k.cur /\ Veiled.stat[k.cur] = "SUSPEND"
        BY <1>3, <2>2, <3>1 DEF Wakes
      <4> QED
        BY <1>3, <4>1, VeiledIs
    <3> QED
      BY <1>1, <1>3, <3>1
  <2>5. Passes(s, {})
    BY <2>2, <2>3, <2>4, WakesPasses
  <2> QED
    BY <1>2, <2>5, PassesKeeps
<1>5. CASE TimerCheck
  BY <1>3, <1>5 DEF TimerCheck, TimerExpired
<1>6. CASE TickReturn
  <2>1. Passes(Veiled, {})
    BY <1>1, <1>3, <1>6, StillPasses DEF TickReturn
  <2> QED
    BY <1>2, <2>1, PassesKeeps
<1> QED
  BY <1>4, <1>5, <1>6 DEF TickIsr

LEMMA StartupLives ==
    ASSUME LifeInv, NEW u \in Worker, Startup(Manager, u), UNCHANGED lifeVars, SemPart'
    PROVE  LifeInv'
<1>1. /\ At(Manager, "run") /\ k.stat[u] = "INIT" /\ k' = ThreadStartup(k, u)
      /\ Goto(Manager, "sched") /\ UNCHANGED irq
      /\ Manager \in Thread /\ u \in Thread
  BY ThreadsAssumption DEF Startup, Worker
<1>2. phase = "none" /\ ~Hidden /\ Veiled = k
  BY <1>1 DEF At, LifeInv, CallPart, Hidden, Veiled
<1>3. /\ Sound(k) /\ k \in KernelState /\ k.lock = 0 /\ k.timers = <<>>
      /\ k.cur = Manager /\ k.stat[Manager] = "RUNNING"
  BY <1>1, <1>2, LifeRuns DEF LifeInv, ProcessorPart
<1>4. PICK e : e = [k EXCEPT !.prio[u] = InitPrio[u], !.mask[u] = InitPrio[u],
                             !.stat[u] = "SUSPEND"]
  OBVIOUS
<1>5. /\ e \in KernelState /\ e.cur = k.cur
      /\ e.stat = [k.stat EXCEPT ![u] = "SUSPEND"]
  BY <1>1, <1>3, <1>4, KernelAssumption DEF KernelState, Stat
<1>6. PICK s : s = ThreadStartup(k, u)
  OBVIOUS
<1>7. s = ThreadResume(e, u)
  BY <1>4, <1>6 DEF ThreadStartup
<1>8. k.stat \in [Thread -> Stat]
  BY <1>3 DEF KernelState
<1>9. /\ s.cur = k.cur /\ s.stat[u] \in {"READY", "RUNNING"}
      /\ \A t \in Thread \ {u} : s.stat[t] = k.stat[t]
  BY <1>1, <1>5, <1>7, <1>8, ResumeStat
<1>10. Wakes(k, s) /\ s.timers = <<>>
  <2>1. Wakes(k, s)
    BY <1>1, <1>3, <1>6, StartupWakes
  <2>2. u \notin Range(k.timers)
    BY <1>1, <1>3 DEF Sound, Timed
  <2>3. s.timers = k.timers
    BY <1>1, <1>3, <1>6, <2>2, StartupFewer
  <2> QED
    BY <1>3, <2>1, <2>3
<1>11. Passes(s, {})
  <2>1. s \in KernelState /\ Sound(s) /\ s.lock = 0
    BY <1>3, <1>10 DEF Wakes, Sound, Linked
  <2>2. ASSUME NEW t \in Thread, PutAway(k, t)
        PROVE  PutAway(s, t)
    BY <1>1, <1>9, <1>10, <2>2 DEF PutAway, Wakes
  <2>3. \A t \in Thread : s.stat[t] = "CLOSE" <=> k.stat[t] = "CLOSE"
    BY <1>1, <1>9
  <2>4. s.stat[s.cur] # "SUSPEND"
    BY <1>1, <1>3, <1>9
  <2> QED
    BY <1>1, <1>2, <1>6, <1>10, <2>1, <2>2, <2>3, <2>4 DEF Passes
<1>12. /\ "sched" \in Location /\ pc[Manager] \notin {"call", "halt"}
       /\ irq' \in {"on", "off", "tick"}
  BY <1>1 DEF At, Location, LifeInv, ProcessorPart
<1>13. Turns
  BY <1>1, <1>12, GotoTurns
<1> QED
  BY <1>11, <1>13, PassesKeeps

(* The thread that rt_sem_release wakes: it waits, so it is not the one    *)
(* that is being deleted, nor one that is put away.                        *)
LEMMA WaiterVeiled ==
    ASSUME LifeInv, k.wait[Sem] # <<>>, NEW h, h = Head(k.wait[Sem])
    PROVE  /\ h \in Thread /\ Veiled.stat[h] = "SUSPEND" /\ ~(Hidden /\ h = victim)
           /\ h # k.cur \/ k.stat[k.cur] = "SUSPEND"
           /\ ~PutAway(Veiled, h)
           /\ Sem \in Object /\ Veiled.wait[Sem] = k.wait[Sem]
           /\ LET r == ThreadResume(Veiled, h)
              IN  /\ Wakes(Veiled, r) /\ LeavesAlone(Veiled, r) /\ r.timers = <<>>
                  /\ r.cur = k.cur
                  /\ \A t \in Thread \ {h} : r.stat[t] = Veiled.stat[t]
                  /\ k.cur \in Thread
                  /\ IpcListResume(k, Sem) =
                        IF Hidden THEN Marked(r, victim, k.stat[victim]) ELSE r
<1>1. Sem \in Object /\ Sound(Veiled) /\ Veiled.wait[Sem] = k.wait[Sem]
      /\ Veiled \in KernelState /\ Veiled.timers = <<>> /\ Veiled.cur = k.cur
  BY SemaphoreAssumption, VeiledIs DEF LifeInv, ProcessorPart
<1>2. /\ h \in Thread /\ h \in Range(Veiled.wait[Sem])
      /\ Veiled.stat[h] = "SUSPEND"
  BY <1>1, HeadIsWaiting
<1>3. ~(Hidden /\ h = victim) /\ ~PutAway(Veiled, h)
  BY <1>1, <1>2, VeiledIs DEF PutAway
<1>4. k.stat[h] = "SUSPEND" /\ k.cur \in Thread
  BY <1>1, <1>2, <1>3, VeiledIs DEF KernelState
<1>5. PICK r : r = ThreadResume(Veiled, h)
  OBVIOUS
<1>6. Wakes(Veiled, r) /\ LeavesAlone(Veiled, r)
  BY <1>1, <1>2, <1>3, <1>5, ResumeWakes, ResumeAlone
<1>7. r.timers = <<>>
  <2>1. /\ \A p \in Prio : Distinct(Veiled.ready[p])
        /\ \A o \in Object : Distinct(Veiled.wait[o])
        /\ Distinct(Veiled.timers)
    BY <1>1 DEF Sound, Linked, ReadyAgrees, WaitersSuspended, Timed
  <2>2. Stops(Veiled, r, h)
    BY <1>1, <1>2, <1>5, <2>1, ResumeStops
  <2>3. h \notin Range(Veiled.timers)
    BY <1>1 DEF Range
  <2>4. Without(Veiled.timers, h) = Veiled.timers
    BY <2>3, WithoutAbsent
  <2> QED
    BY <1>1, <2>2, <2>4 DEF Stops
<1>8. r.cur = k.cur /\ \A t \in Thread \ {h} : r.stat[t] = Veiled.stat[t]
  BY <1>1, <1>2, <1>5, ResumeStates
<1>9. IpcListResume(k, Sem) = IF Hidden THEN Marked(r, victim, k.stat[victim]) ELSE r
  BY <1>2, <1>3, <1>5, VeilResume DEF IpcListResume
<1> QED
  BY <1>1, <1>2, <1>3, <1>4, <1>5, <1>6, <1>7, <1>8, <1>9

LEMMA ReleaseLives ==
    ASSUME LifeInv, NEW t \in Worker, Release(t), UNCHANGED lifeVars, SemPart'
    PROVE  LifeInv'
<1>1. At(t, "run") /\ UNCHANGED irq /\ t \in Thread
  BY DEF Release, Worker
<1>2. k.cur = t /\ k.stat[t] = "RUNNING" /\ Veiled.stat[t] = "RUNNING"
  BY <1>1, LifeRuns
<1>3. pc[t] \notin {"call", "halt"} /\ irq' \in {"on", "off", "tick"}
  BY <1>1 DEF At, LifeInv, ProcessorPart
<1>4. "sched" \in Location
  BY DEF Location
<1>5. Goto(t, "sched") \/ UNCHANGED pc
  BY DEF Release
<1>6. Turns
  BY <1>1, <1>3, <1>4, <1>5, GotoTurns
<1>7. CASE k.wait[Sem] # <<>>
  <2>1. k' = IpcListResume(k, Sem)
    BY <1>7 DEF Release
  <2>2. PICK h, s : h = Head(k.wait[Sem]) /\ s = ThreadResume(Veiled, h)
    OBVIOUS
  <2>3. /\ Wakes(Veiled, s) /\ LeavesAlone(Veiled, s) /\ s.timers = <<>>
        /\ s.cur = k.cur /\ h # k.cur
        /\ \A u \in Thread \ {h} : s.stat[u] = Veiled.stat[u]
        /\ k' = IF Hidden THEN Marked(s, victim, k.stat[victim]) ELSE s
    BY <1>2, <1>7, <2>1, <2>2, WaiterVeiled
  <2>4. s.stat[s.cur] # "SUSPEND"
    BY <1>1, <1>2, <2>3
  <2>5. Passes(s, {})
    BY <2>3, <2>4, WakesPasses
  <2> QED
    BY <1>6, <2>5, PassesKeeps
<1>8. CASE k.wait[Sem] = <<>>
  <2>1. Passes(Veiled, {})
    BY <1>2, <1>8, StillPasses DEF Release
  <2> QED
    BY <1>6, <2>1, PassesKeeps
<1> QED
  BY <1>7, <1>8

LEMMA IsrReleaseLives ==
    ASSUME LifeInv, IsrRelease, UNCHANGED lifeVars, SemPart'
    PROVE  LifeInv'
<1>1. UNCHANGED pc /\ UNCHANGED irq
  BY DEF IsrRelease
<1>2. Turns
  BY <1>1 DEF Turns, LifeInv, ProcessorPart
<1>3. CASE k.wait[Sem] # <<>>
  <2>1. k' = Schedule(IpcListResume(k, Sem))
    BY <1>3 DEF IsrRelease
  <2>2. PICK h, r, s : /\ h = Head(k.wait[Sem]) /\ r = ThreadResume(Veiled, h)
                       /\ s = Schedule(r)
    OBVIOUS
  <2>3. /\ Wakes(Veiled, r) /\ LeavesAlone(Veiled, r) /\ r.timers = <<>>
        /\ h \in Thread /\ ~(Hidden /\ h = victim) /\ ~PutAway(Veiled, h)
        /\ \A u \in Thread \ {h} : r.stat[u] = Veiled.stat[u]
        /\ IpcListResume(k, Sem) =
              IF Hidden THEN Marked(r, victim, k.stat[victim]) ELSE r
    BY <1>3, <2>2, WaiterVeiled
  <2>4. Sound(r) /\ r.lock = 0
    BY <2>3, VeiledIs DEF Wakes
  <2>5. /\ Wakes(r, s) /\ LeavesAlone(r, s) /\ s.timers = <<>>
        /\ s.stat[s.cur] = "RUNNING"
        /\ \A t \in Thread : r.stat[t] = "SUSPEND" => s.stat[t] = "SUSPEND"
    BY <2>2, <2>3, <2>4, ScheduleWakes, ScheduleAlone, ScheduleSteady DEF Steady
  <2>6. Wakes(Veiled, s)
    BY <2>3, <2>5, WakesTransitive
  <2>7. LeavesAlone(Veiled, s)
    BY <2>3, <2>5 DEF LeavesAlone
  <2>8. k' = IF Hidden THEN Marked(s, victim, k.stat[victim]) ELSE s
    <3>1. CASE Hidden
      <4>1. PICK v, x : v = victim /\ x = k.stat[victim]
        OBVIOUS
      <4>2. x \in Stat \ {"RUNNING"} /\ v \in Thread /\ Veiled.stat[v] = "INIT"
        BY <3>1, <4>1, VeilReads, VeiledIs
      <4>3. r.stat[v] = "INIT"
        BY <2>3, <4>2 DEF LeavesAlone
      <4>4. Unread(r, v)
        BY <2>4, <4>2, <4>3, SoundUnread
      <4>5. Schedule(Marked(r, v, x)) = Marked(Schedule(r), v, x)
        BY <4>2, <4>4, MarkSchedule
      <4> QED
        BY <2>1, <2>2, <2>3, <3>1, <4>1, <4>5
    <3>2. CASE ~Hidden
      BY <2>1, <2>2, <2>3, <3>2
    <3> QED
      BY <3>1, <3>2
  <2>9. Passes(s, {})
    BY <2>5, <2>6, <2>7, <2>8, WakesPasses
  <2> QED
    BY <1>2, <2>9, PassesKeeps
<1>4. CASE k.wait[Sem] = <<>>
  <2>1. UNCHANGED k /\ (k.stat[k.cur] = "SUSPEND" => pc'[k.cur] = "wait")
    BY <1>1, <1>4 DEF IsrRelease, LifeInv, ProcessorPart
  <2>2. Passes(Veiled, {})
    BY <2>1, StillPasses
  <2> QED
    BY <1>2, <2>2, PassesKeeps
<1> QED
  BY <1>3, <1>4

(* Every wait is without a time limit.  With one a thread can be deleted   *)
(* while its timer is armed (run threads_timed), and it is then not true   *)
(* that nothing is left of a closed thread.                                *)
NoTimedWaits == \A n \in WaitTimes : n <= 0

LEMMA TakeBlocksLives ==
    ASSUME NoTimedWaits, LifeInv, NEW t \in Worker, TakeBlocks(t), UNCHANGED lifeVars,
           SemPart'
    PROVE  LifeInv'
<1>1. PICK time \in WaitTimes \ {0} : k' = Block(k, Sem, t, SemFlag, time)
  BY DEF TakeBlocks
<1>2. /\ At(t, "run") /\ Goto(t, "wait") /\ UNCHANGED irq
      /\ t \in Thread /\ t # Idle /\ Sem \in Object /\ time \in Int /\ time <= 0
  BY SemaphoreAssumption DEF TakeBlocks, Worker, NoTimedWaits
<1>3. /\ Veiled.cur = t /\ Veiled.stat[t] = "RUNNING" /\ ~(Hidden /\ victim = t)
      /\ k.cur = t
  BY <1>2, LifeRuns
<1>4. /\ Sound(Veiled) /\ Veiled.lock = 0 /\ Veiled.timers = <<>>
      /\ Veiled \in KernelState
  BY VeiledIs DEF LifeInv, ProcessorPart
<1>5. PICK s : s = Block(Veiled, Sem, t, SemFlag, time)
  OBVIOUS
<1>6. Suspends(Veiled, s, t) /\ s.timers = <<>>
  <2>1. Suspends(Veiled, s, t)
    BY <1>2, <1>3, <1>4, <1>5, BlockSuspends
  <2>2. ~(time > 0)
    BY <1>2
  <2>3. PICK b, o, flag : b = Veiled /\ o = Sem /\ flag = SemFlag
    OBVIOUS
  <2>4. /\ Sound(b) /\ t \in Thread /\ b.stat[t] = "RUNNING" /\ t # Idle
        /\ b.lock = 0 /\ o \in Object /\ time \in Int
    BY <1>2, <1>3, <1>4, <2>3
  <2>5. IF time > 0 THEN TRUE ELSE Block(b, o, t, flag, time).timers = b.timers
    BY <2>4, BlockArms
  <2> QED
    BY <1>4, <1>5, <2>1, <2>2, <2>3, <2>5
<1>7. k' = IF Hidden THEN Marked(s, victim, k.stat[victim]) ELSE s
  <2>1. CASE Hidden
    <3>1. PICK b, v, x : b = Veiled /\ v = victim /\ x = k.stat[victim]
      OBVIOUS
    <3>2. /\ b \in KernelState /\ x \in Stat /\ v \in Thread /\ k = Marked(b, v, x)
          /\ t \in Thread \ {v}
      BY <1>2, <1>3, <2>1, <3>1, VeilReads
    <3>3. Block(Marked(b, v, x), Sem, t, SemFlag, time) =
             Marked(Block(b, Sem, t, SemFlag, time), v, x)
      BY <1>2, <3>2, MarkBlock
    <3> QED
      BY <1>1, <1>5, <2>1, <3>1, <3>2, <3>3
  <2>2. CASE ~Hidden
    BY <1>1, <1>5, <2>2 DEF Veiled
  <2> QED
    BY <2>1, <2>2
<1>8. Passes(s, {})
  <2>1. /\ s \in KernelState /\ Sound(s) /\ s.lock = 0
        /\ s.cur = Veiled.cur /\ s.stat = [Veiled.stat EXCEPT ![t] = "SUSPEND"]
        /\ \A u \in Thread \ {t} : \A o \in Object :
              u \in Range(s.wait[o]) <=> u \in Range(Veiled.wait[o])
    BY <1>6 DEF Suspends, Sound, Linked
  <2>2. Veiled.stat \in [Thread -> Stat]
    BY <1>4 DEF KernelState
  <2>3. pc'[s.cur] = "wait"
    BY <1>2, <1>3, <2>1 DEF Goto, LifeInv, ProcessorPart
  <2>4. ASSUME NEW u \in Thread, PutAway(Veiled, u)
        PROVE  PutAway(s, u)
    BY <1>2, <1>3, <2>1, <2>2, <2>4 DEF PutAway
  <2>5. \A u \in Thread : s.stat[u] = "CLOSE" <=> Veiled.stat[u] = "CLOSE"
    BY <1>2, <1>3, <2>1, <2>2
  <2>6. Hidden => s.stat[victim] = "INIT"
    BY <1>2, <1>3, <2>1, <2>2, VeiledIs
  <2> QED
    BY <1>6, <1>7, <2>1, <2>3, <2>4, <2>5, <2>6 DEF Passes
<1>9. /\ "wait" \in Location /\ pc[t] \notin {"call", "halt"}
      /\ irq' \in {"on", "off", "tick"}
  BY <1>2 DEF At, Location, LifeInv, ProcessorPart
<1>10. Turns
  BY <1>2, <1>9, GotoTurns
<1> QED
  BY <1>8, <1>10, PassesKeeps

LEMMA PlainLives ==
    ASSUME LifeInv, NEW t \in Worker, TakeAvailable(t) \/ TakeReturns(t),
           UNCHANGED lifeVars, SemPart'
    PROVE  LifeInv'
<1>1. PICK loc \in {"run", "woken"} : At(t, loc)
  BY DEF TakeAvailable, TakeReturns
<1>2. UNCHANGED k /\ (Goto(t, "run") \/ UNCHANGED pc) /\ UNCHANGED irq /\ t \in Thread
  BY DEF TakeAvailable, TakeReturns, kernelVars, Worker
<1>3. k.cur = t /\ k.stat[t] = "RUNNING"
  BY <1>1, <1>2, LifeRuns
<1>4. /\ "run" \in Location /\ pc[t] \notin {"call", "halt"}
      /\ irq' \in {"on", "off", "tick"}
  BY <1>1, <1>2 DEF At, Location, LifeInv, ProcessorPart
<1>5. Turns
  BY <1>2, <1>4, GotoTurns
<1>6. Passes(Veiled, {})
  BY <1>2, <1>3, StillPasses
<1> QED
  BY <1>5, <1>6, PassesKeeps

-----------------------------------------------------------------------------
(* The steps of the manager's calls.                                       *)

(* The kernel state in which a thread that is in no list, and is neither   *)
(* ready nor running, has been given another state.                        *)
LEMMA PlaceSound ==
    ASSUME NEW b, NEW t \in Thread, Detached(b, t), t # b.cur, t # Idle,
           b.stat[b.cur] \in {"RUNNING", "SUSPEND"},
           \A u \in Thread \ {t} : b.stat[u] = "RUNNING" => u = b.cur,
           b.stat[Idle] \in {"READY", "RUNNING"},
           NEW s \in KernelState,
           s.cur = b.cur, s.ready = b.ready, s.wait = b.wait, s.group = b.group,
           s.mask = s.prio, s.timers = <<>>, s.lock = 0,
           \A u \in Thread \ {t} : s.stat[u] = b.stat[u] /\ s.prio[u] = b.prio[u],
           s.stat[t] \in {"INIT", "SUSPEND", "CLOSE"}
    PROVE  /\ Sound(s)
           /\ \A o \in Object : t \notin Range(s.wait[o])
<1>1. Detached(s, t)
  BY DetachedUpdate
<1>2. Linked(s)
  BY <1>1, DetachedLinked
<1>3. s.cur \in Thread /\ Idle \in Thread
  BY KernelAssumption DEF KernelState
<1>4. OneRuns(s)
  BY <1>3 DEF OneRuns
<1>5. Timed(s)
  <2>1. Len(s.timers) = 0 /\ Range(s.timers) = {}
    BY DEF Range
  <2> QED
    BY <2>1 DEF Timed, Distinct
<1>6. Alive(s)
  BY <1>3 DEF Alive
<1>7. \A o \in Object : t \notin Range(s.wait[o])
  BY <1>1 DEF Detached
<1> QED
  BY <1>2, <1>4, <1>5, <1>6, <1>7 DEF Sound

(* The states a sound kernel state with no timer gives to PlaceSound.      *)
LEMMA SoundPlaces ==
    ASSUME NEW b, Sound(b), NEW t \in Thread
    PROVE  /\ b \in KernelState /\ b.cur \in Thread
           /\ b.stat[b.cur] \in {"RUNNING", "SUSPEND"}
           /\ \A u \in Thread \ {t} : b.stat[u] = "RUNNING" => u = b.cur
           /\ b.stat[Idle] \in {"READY", "RUNNING"}
           /\ b.mask = b.prio
BY DEF Sound, Linked, OneRuns, Alive, ReadyAgrees, KernelState

LEMMA UnlinkedDetached ==
    ASSUME NEW b, Sound(b), NEW t \in Thread, b.stat[t] # "READY",
           \A o \in Object : t \notin Range(b.wait[o])
    PROVE  Detached(b, t)
BY DEF Sound, Linked, ReadyAgrees, WaitersSuspended, Detached

LEMMA RestateSound ==
    ASSUME NEW b, Sound(b), b.timers = <<>>, b.lock = 0,
           NEW t \in Thread, t # b.cur, t # Idle, b.stat[t] # "READY",
           \A o \in Object : t \notin Range(b.wait[o]),
           NEW x \in {"INIT", "SUSPEND", "CLOSE"}
    PROVE  Sound(Marked(b, t, x))
<1>1. Detached(b, t)
  BY UnlinkedDetached
<1>2. /\ b \in KernelState /\ b.cur \in Thread
      /\ b.stat[b.cur] \in {"RUNNING", "SUSPEND"}
      /\ \A u \in Thread \ {t} : b.stat[u] = "RUNNING" => u = b.cur
      /\ b.stat[Idle] \in {"READY", "RUNNING"}
      /\ b.mask = b.prio
  BY SoundPlaces
<1>3. PICK s : s = Marked(b, t, x)
  OBVIOUS
<1>4. x \in Stat
  BY DEF Stat
<1>5. /\ s \in KernelState /\ s.stat = [b.stat EXCEPT ![t] = x]
      /\ s.cur = b.cur /\ s.ready = b.ready /\ s.wait = b.wait
      /\ s.group = b.group /\ s.mask = b.mask /\ s.prio = b.prio
      /\ s.timers = b.timers /\ s.lock = b.lock
  BY <1>2, <1>3, <1>4, MarkedIs
<1>6. b.stat \in [Thread -> Stat]
  BY <1>2 DEF KernelState
<1>7. /\ \A u \in Thread \ {t} : s.stat[u] = b.stat[u] /\ s.prio[u] = b.prio[u]
      /\ s.stat[t] \in {"INIT", "SUSPEND", "CLOSE"}
      /\ s.mask = s.prio /\ s.timers = <<>> /\ s.lock = 0
  BY <1>2, <1>5, <1>6
<1>8. Sound(s)
  BY <1>1, <1>2, <1>5, <1>7, PlaceSound
<1> QED
  BY <1>3, <1>8

(* rt_schedule_remove_thread of a thread that does not run.                *)
(* r is b without t in its lists, s has t in the state x as well.          *)
Takes(b, t, x, r, s) == r = RemoveThread(b, t) /\ s = Marked(r, t, x)

Taken(b, t, x, r, s) ==
    /\ Sound(s) /\ r \in KernelState /\ s \in KernelState
    /\ r.stat = b.stat /\ r.cur = b.cur /\ r.timers = <<>> /\ r.lock = 0
    /\ s.cur = b.cur /\ s.timers = <<>> /\ s.lock = 0
    /\ s.stat = [b.stat EXCEPT ![t] = x]
    /\ \A o \in Object : Range(r.wait[o]) = Range(b.wait[o]) \ {t}
    /\ s.wait = r.wait

LEMMA RemovePlaces ==
    ASSUME NEW b, Sound(b), b.timers = <<>>, b.lock = 0,
           NEW t \in Thread, t # b.cur, t # Idle,
           NEW x \in {"INIT", "SUSPEND", "CLOSE"},
           NEW r, NEW s, Takes(b, t, x, r, s)
    PROVE  Taken(b, t, x, r, s)
<1>0. r = RemoveThread(b, t) /\ s = Marked(r, t, x)
  BY DEF Takes
<1>1. Detached(r, t)
  BY <1>0, RemoveDetaches DEF Sound
<1>2. /\ b \in KernelState /\ b.cur \in Thread
      /\ b.stat[b.cur] \in {"RUNNING", "SUSPEND"}
      /\ \A u \in Thread \ {t} : b.stat[u] = "RUNNING" => u = b.cur
      /\ b.stat[Idle] \in {"READY", "RUNNING"}
      /\ b.mask = b.prio
  BY SoundPlaces
<1>3. r \in KernelState
  BY <1>1 DEF Detached
<1>4. /\ r.stat = b.stat /\ r.cur = b.cur /\ r.timers = <<>> /\ r.lock = 0
      /\ r.mask = b.mask /\ r.prio = b.prio
  <2>1. r = [b EXCEPT !.ready = r.ready, !.wait = r.wait, !.group = r.group]
    BY <1>0, RemoveDetaches DEF Sound
  <2> QED
    BY <1>2, <2>1 DEF KernelState
<1>5. \A o \in Object : Range(r.wait[o]) = Range(b.wait[o]) \ {t}
  BY <1>0, RemoveDetaches DEF Sound
<1>6. x \in Stat
  BY DEF Stat
<1>7. /\ s \in KernelState /\ s.stat = [b.stat EXCEPT ![t] = x]
      /\ s.cur = b.cur /\ s.ready = r.ready /\ s.wait = r.wait
      /\ s.group = r.group /\ s.mask = b.mask /\ s.prio = b.prio
      /\ s.timers = <<>> /\ s.lock = 0
  BY <1>0, <1>3, <1>4, <1>6, MarkedIs
<1>8. b.stat \in [Thread -> Stat]
  BY <1>2 DEF KernelState
<1>9. Sound(s)
  <2>1. PICK w : w = r
    OBVIOUS
  <2>2. /\ Detached(w, t) /\ t # w.cur
        /\ s.cur = w.cur /\ s.ready = w.ready /\ s.wait = w.wait /\ s.group = w.group
    BY <1>1, <1>4, <1>7, <2>1
  <2>3. /\ w.stat[w.cur] \in {"RUNNING", "SUSPEND"}
        /\ \A u \in Thread \ {t} : w.stat[u] = "RUNNING" => u = w.cur
        /\ w.stat[Idle] \in {"READY", "RUNNING"}
    BY <1>2, <1>4, <2>1
  <2>4. \A u \in Thread \ {t} : s.stat[u] = w.stat[u] /\ s.prio[u] = w.prio[u]
    BY <1>4, <1>7, <1>8, <2>1
  <2>5. /\ s \in KernelState /\ s.stat[t] \in {"INIT", "SUSPEND", "CLOSE"}
        /\ s.mask = s.prio /\ s.timers = <<>> /\ s.lock = 0
    BY <1>2, <1>7, <1>8
  <2> QED
    BY <2>2, <2>3, <2>4, <2>5, PlaceSound
<1> QED
  BY <1>3, <1>4, <1>5, <1>7, <1>9 DEF Taken

(* rt_timer_stop of a timer that is not armed.                             *)
LEMMA StopPlaces ==
    ASSUME NEW b \in KernelState, b.timers = <<>>, NEW t \in Thread,
           NEW s, s = TimerStop(b, t)
    PROVE  /\ s \in KernelState /\ s.timers = <<>>
           /\ s.cur = b.cur /\ s.stat = b.stat /\ s.prio = b.prio
           /\ s.mask = b.mask /\ s.ready = b.ready /\ s.group = b.group
           /\ s.wait = b.wait /\ s.lock = b.lock
           /\ Sound(b) => Sound(s)
<1>1. s \in KernelState
  BY TimerStopType
<1>2. Without(b.timers, t) = <<>>
  <2>1. t \notin Range(b.timers)
    BY DEF Range
  <2> QED
    BY <2>1, WithoutAbsent
<1>3. /\ s.timers = <<>>
      /\ s.cur = b.cur /\ s.stat = b.stat /\ s.prio = b.prio
      /\ s.mask = b.mask /\ s.ready = b.ready /\ s.group = b.group
      /\ s.wait = b.wait /\ s.lock = b.lock
  BY <1>2 DEF TimerStop, KernelState
<1>4. Sound(b) => Sound(s)
  BY <1>1, <1>3, PlainUpdate
<1> QED
  BY <1>1, <1>3, <1>4

(* u is s with e at its front.                                             *)
OnTop(e, s, u) == u = <<e>> \o s

LEMMA ConsProperties ==
    ASSUME NEW S, NEW s \in Seq(S), NEW e \in S, NEW u, OnTop(e, s, u)
    PROVE  /\ u \in Seq(S)
           /\ Range(u) = Range(s) \cup {e}
           /\ Distinct(s) /\ e \notin Range(s) => Distinct(u)
<1>1. /\ u \in Seq(S) /\ Len(s) \in Nat /\ Len(u) = Len(s) + 1
      /\ \A i \in 1 .. Len(s) + 1 : u[i] = IF i = 1 THEN e ELSE s[i - 1]
  <2>1. <<e>> \in Seq(S) /\ Len(<<e>>) = 1 /\ <<e>>[1] = e
    OBVIOUS
  <2>2. u \in Seq(S)
    BY <2>1, ConcatProperties DEF OnTop
  <2>3. Len(s) \in Nat
    BY LenProperties
  <2>4. Len(u) = 1 + Len(s)
    BY <2>1, ConcatProperties DEF OnTop
  <2>5. \A i \in 1 .. Len(s) + 1 : u[i] = IF i = 1 THEN e ELSE s[i - 1]
    BY <2>1, <2>3, <2>4, ConcatProperties DEF OnTop
  <2> QED
    BY <2>2, <2>3, <2>4, <2>5
<1>2. \A x : x \in Range(u) <=> \E i \in 1 .. Len(s) + 1 : u[i] = x
  <2>1. u \in Seq(S)
    BY <1>1
  <2>2. \A x : x \in Range(u) <=> \E i \in 1 .. Len(u) : u[i] = x
    BY <2>1, RangeIs
  <2> QED
    BY <1>1, <2>2
<1>3. \A x : x \in Range(s) <=> \E i \in 1 .. Len(s) : s[i] = x
  BY RangeIs
<1>4. ASSUME NEW x
      PROVE  x \in Range(u) <=> x \in Range(s) \cup {e}
  <2>1. ASSUME x \in Range(u)
        PROVE  x \in Range(s) \cup {e}
    <3>1. PICK i \in 1 .. Len(s) + 1 : u[i] = x
      BY <1>2, <2>1
    <3>2. i # 1 => i - 1 \in 1 .. Len(s)
      BY <1>1
    <3> QED
      BY <1>1, <1>3, <3>1, <3>2
  <2>2. ASSUME x = e
        PROVE  x \in Range(u)
    <3>1. 1 \in 1 .. Len(s) + 1
      BY <1>1
    <3> QED
      BY <1>1, <1>2, <2>2, <3>1
  <2>3. ASSUME x \in Range(s)
        PROVE  x \in Range(u)
    <3>1. PICK i \in 1 .. Len(s) : s[i] = x
      BY <1>3, <2>3
    <3>2. i + 1 \in 1 .. Len(s) + 1 /\ i + 1 # 1 /\ (i + 1) - 1 = i
      BY <1>1
    <3>3. u[i + 1] = x
      BY <1>1, <3>1, <3>2
    <3> QED
      BY <1>2, <3>2, <3>3
  <2> QED
    BY <2>1, <2>2, <2>3
<1>5. ASSUME Distinct(s), e \notin Range(s), NEW i \in 1 .. Len(u), NEW j \in 1 .. Len(u),
             u[i] = u[j]
      PROVE  i = j
  <2>1. \A n \in 1 .. Len(u) : n # 1 => n - 1 \in 1 .. Len(s) /\ u[n] = s[n - 1]
    BY <1>1
  <2>2. \A n \in 1 .. Len(u) : n # 1 => u[n] # e
    BY <1>3, <1>5, <2>1
  <2>3. 1 \in 1 .. Len(u) /\ u[1] = e
    BY <1>1
  <2>4. CASE i = 1 \/ j = 1
    BY <1>5, <2>2, <2>3, <2>4
  <2>5. CASE i # 1 /\ j # 1
    <3>1. i - 1 = j - 1
      BY <1>5, <2>1, <2>5 DEF Distinct
    <3> QED
      BY <1>1, <3>1
  <2> QED
    BY <2>4, <2>5
<1> QED
  BY <1>1, <1>4, <1>5 DEF Distinct

LEMMA ManagerRuns ==
    ASSUME LifeInv, NEW loc \in {"run", "call"}, At(Manager, loc)
    PROVE  /\ Manager \in Thread /\ Manager # Idle
           /\ k.cur = Manager /\ k.stat[Manager] = "RUNNING"
           /\ pc[Manager] = loc
           /\ loc = "run" => phase = "none"
           /\ pc \in [Thread -> Location] /\ irq \in {"on", "off", "tick"}
           /\ k \in KernelState /\ k.timers = <<>> /\ k.lock = 0
           /\ Sound(Veiled)
           /\ ~Hidden => Sound(k)
<1>1. Manager \in Thread /\ Manager # Idle
  BY ThreadsAssumption DEF Worker
<1>2. k.cur = Manager /\ k.stat[Manager] = "RUNNING"
  BY <1>1, LifeRuns
<1>3. pc[Manager] = loc
  BY DEF At
<1>4. loc = "run" => phase = "none"
  BY <1>3 DEF LifeInv, CallPart
<1>5. ProcessorPart
  BY DEF LifeInv
<1>6. ~Hidden => Sound(k)
  BY <1>5 DEF ProcessorPart, Veiled
<1> QED
  BY <1>1, <1>2, <1>3, <1>4, <1>5, <1>6 DEF ProcessorPart

(* The processor after a step of a call: the manager goes on.              *)
LEMMA ManagerGoesOn ==
    ASSUME LifeInv, NEW loc \in {"run", "call"}, At(Manager, loc),
           NEW to \in {"run", "call", "halt"}, Goto(Manager, to),
           irq' \in {"on", "off", "tick"},
           NEW s, Sound(s), Veiled' = s,
           k' \in KernelState, k'.timers = <<>>, k'.lock = 0,
           k'.cur = Manager, k'.stat[Manager] = "RUNNING"
    PROVE  ProcessorPart' /\ pc'[Manager] = to
<1>1. Manager \in Thread /\ pc \in [Thread -> Location]
  BY ManagerRuns
<1>2. to \in Location
  BY DEF Location
<1>3. pc' \in [Thread -> Location] /\ pc'[Manager] = to
  BY <1>1, <1>2 DEF Goto
<1> QED
  BY <1>3 DEF ProcessorPart

LEMMA SemStays ==
    ASSUME LifeInv, UNCHANGED semVars \/ (Remember /\ UNCHANGED <<value, life>>)
    PROVE  SemPart'
<1>1. SemPart
  BY DEF LifeInv
<1>2. asked' \in Seq(Thread)
  BY <1>1, RememberType DEF SemPart, semVars
<1> QED
  BY <1>1, <1>2 DEF SemPart, semVars

(* The list of the defunct threads after the end of one.                   *)
LEMMA DisposeKeeps ==
    ASSUME LifeInv, NEW t \in Worker, Dispose(t, defunct), k.stat[t] # "CLOSE",
           \A u \in Worker : k'.stat[u] = "CLOSE" <=> (k.stat[u] = "CLOSE" \/ u = t),
           phase = "timer" => UNCHANGED <<phase, victim>>
    PROVE  /\ ClosedOnce' /\ free' \subseteq Worker
           /\ defunct' \in Seq(Worker \ Static)
<1>1. /\ Distinct(defunct) /\ free \subseteq Worker /\ defunct \in Seq(Worker \ Static)
      /\ \A u \in Worker :
          /\ u \in Range(defunct) \cup free => k.stat[u] = "CLOSE"
          /\ ~(u \in Range(defunct) /\ u \in free)
          /\ k.stat[u] = "CLOSE" /\ ~(phase = "timer" /\ victim = u) =>
                u \in Range(defunct) \cup free
  BY DEF LifeInv, ListPart, ClosedOnce
<1>2. t \notin Range(defunct) /\ t \notin free
  BY <1>1
<1>3. CASE t \in Static
  <2>1. free' = free \cup {t} /\ defunct' = defunct
    BY <1>3 DEF Dispose
  <2>2. ClosedOnce'
    BY <1>1, <1>2, <2>1 DEF ClosedOnce
  <2> QED
    BY <1>1, <2>1, <2>2
<1>4. CASE t \notin Static
  <2>1. free' = free /\ defunct' = <<t>> \o defunct
    BY <1>4 DEF Dispose
  <2>2. PICK S : S = Worker \ Static
    OBVIOUS
  <2>3. PICK d : d = defunct
    OBVIOUS
  <2>4. PICK e : e = <<t>> \o d
    OBVIOUS
  <2>5. /\ e \in Seq(Worker \ Static) /\ Range(e) = Range(d) \cup {t}
        /\ Distinct(d) /\ t \notin Range(d) => Distinct(e)
    <3>1. d \in Seq(S) /\ t \in S
      BY <1>1, <1>4, <2>2, <2>3
    <3>2. OnTop(t, d, e)
      BY <2>4 DEF OnTop
    <3>3. /\ e \in Seq(S) /\ Range(e) = Range(d) \cup {t}
          /\ Distinct(d) /\ t \notin Range(d) => Distinct(e)
      BY <3>1, <3>2, ConsProperties
    <3> QED
      BY <2>2, <3>3
  <2>6. /\ defunct' \in Seq(Worker \ Static) /\ Range(defunct') = Range(defunct) \cup {t}
        /\ Distinct(defunct')
    BY <1>1, <1>2, <2>1, <2>3, <2>4, <2>5
  <2>7. ClosedOnce'
    BY <1>1, <1>2, <2>1, <2>6 DEF ClosedOnce
  <2> QED
    BY <1>1, <2>1, <2>6, <2>7
<1> QED
  BY <1>3, <1>4

LEMMA DeleteBeginsLives ==
    ASSUME LifeInv, NEW u \in Worker, DeleteBegins(u)
    PROVE  LifeInv'
<1>1. /\ At(Manager, "run") /\ u # Manager /\ u \in Thread
      /\ victim' = u /\ phase' = IF k.stat[u] = "INIT" THEN "timer" ELSE "unlink"
      /\ Goto(Manager, "call") /\ k' = k /\ irq' = irq
      /\ UNCHANGED semVars /\ parked' = parked /\ defunct' = defunct /\ free' = free
  BY DEF DeleteBegins, Worker
<1>2. /\ k.cur = Manager /\ k.stat[Manager] = "RUNNING" /\ phase = "none"
      /\ irq \in {"on", "off", "tick"}
      /\ k \in KernelState /\ k.timers = <<>> /\ k.lock = 0
  BY <1>1, ManagerRuns
<1>3. Sound(k)
  BY <1>1, <1>2, ManagerRuns DEF Hidden
<1>4. Veiled' = k
  <2>1. CASE k.stat[u] = "INIT"
    <3>1. Marked(k, u, k.stat[u]) = k
      BY <1>1, <1>2, MarkedTwice DEF Stat
    <3> QED
      BY <1>1, <2>1, <3>1 DEF Veiled, Hidden
  <2>2. CASE k.stat[u] # "INIT"
    BY <1>1, <2>2 DEF Veiled, Hidden
  <2> QED
    BY <2>1, <2>2
<1>5. ProcessorPart' /\ pc'[Manager] = "call"
  BY <1>1, <1>2, <1>3, <1>4, ManagerGoesOn
<1>6. CallPart'
  BY <1>1, <1>5 DEF CallPart, Hidden
<1>7. ListPart'
  <2>1. ListPart
    BY DEF LifeInv
  <2>2. ClosedOnce'
    BY <1>1, <1>2, <2>1 DEF ListPart, ClosedOnce
  <2>3. \A t \in parked : PutAway(k, t)'
    BY <1>1, <2>1 DEF ListPart, PutAway
  <2> QED
    BY <1>1, <2>1, <2>2, <2>3 DEF ListPart
<1>8. SemPart'
  BY <1>1, SemStays
<1> QED
  BY <1>5, <1>6, <1>7, <1>8 DEF LifeInv

LEMMA SuspendBeginsLives ==
    ASSUME LifeInv, NEW u \in Worker, SuspendBegins(u)
    PROVE  LifeInv'
<1>1. /\ At(Manager, "run") /\ u # Manager
      /\ victim' = u /\ phase' = "park"
      /\ Goto(Manager, "call") /\ k' = k /\ irq' = irq
      /\ UNCHANGED semVars /\ parked' = parked /\ defunct' = defunct /\ free' = free
  BY DEF SuspendBegins
<1>2. /\ k.cur = Manager /\ k.stat[Manager] = "RUNNING" /\ phase = "none"
      /\ irq \in {"on", "off", "tick"}
      /\ k \in KernelState /\ k.timers = <<>> /\ k.lock = 0
  BY <1>1, ManagerRuns
<1>3. Sound(k) /\ Veiled' = k
  BY <1>1, <1>2, ManagerRuns DEF Hidden, Veiled
<1>4. ProcessorPart' /\ pc'[Manager] = "call"
  BY <1>1, <1>2, <1>3, ManagerGoesOn
<1>5. CallPart'
  BY <1>1, <1>4 DEF CallPart, Hidden
<1>6. ListPart'
  <2>1. ListPart
    BY DEF LifeInv
  <2>2. ClosedOnce'
    BY <1>1, <1>2, <2>1 DEF ListPart, ClosedOnce
  <2>3. \A t \in parked : PutAway(k, t)'
    BY <1>1, <2>1 DEF ListPart, PutAway
  <2> QED
    BY <1>1, <2>1, <2>2, <2>3 DEF ListPart
<1>7. SemPart'
  BY <1>1, SemStays
<1> QED
  BY <1>4, <1>5, <1>6, <1>7 DEF LifeInv

LEMMA CallHaltsLives ==
    ASSUME LifeInv, CallHalts
    PROVE  LifeInv'
<1>1. /\ At(Manager, "call") /\ irq' \in {"on", "off", "tick"}
      /\ Goto(Manager, "halt") /\ k' = k
      /\ UNCHANGED semVars /\ victim' = victim /\ phase' = phase
      /\ parked' = parked /\ defunct' = defunct /\ free' = free
  BY DEF CallHalts, lifeVars
<1>2. /\ k.cur = Manager /\ k.stat[Manager] = "RUNNING"
      /\ k \in KernelState /\ k.timers = <<>> /\ k.lock = 0 /\ Sound(Veiled)
  BY <1>1, ManagerRuns
<1>3. Veiled' = Veiled /\ (Hidden' <=> Hidden)
  BY <1>1 DEF Hidden, Veiled
<1>4. ProcessorPart' /\ pc'[Manager] = "halt"
  BY <1>1, <1>2, <1>3, ManagerGoesOn
<1>5. CallPart /\ ListPart
  BY DEF LifeInv
<1>6. CallPart'
  BY <1>1, <1>3, <1>4, <1>5 DEF CallPart, PutAway
<1>7. ListPart'
  <2>1. ClosedOnce'
    BY <1>1, <1>5 DEF ListPart, ClosedOnce
  <2>2. \A t \in parked : PutAway(k, t)'
    BY <1>1, <1>5 DEF ListPart, PutAway
  <2> QED
    BY <1>1, <1>5, <2>1, <2>2 DEF ListPart
<1>8. SemPart'
  BY <1>1, SemStays
<1> QED
  BY <1>4, <1>6, <1>7, <1>8 DEF LifeInv

LEMMA DeleteUnlinksLives ==
    ASSUME LifeInv, DeleteUnlinks
    PROVE  LifeInv'
<1>1. /\ At(Manager, "call") /\ phase = "unlink" /\ k' = RemoveThread(k, victim)
      /\ Remember /\ defunct' = Without(defunct, victim) /\ phase' = "timer"
      /\ pc' = pc /\ irq' = irq /\ value' = value /\ life' = life
      /\ victim' = victim /\ parked' = parked /\ free' = free
  BY DEF DeleteUnlinks
<1>2. /\ k.cur = Manager /\ k.stat[Manager] = "RUNNING" /\ pc[Manager] = "call"
      /\ pc \in [Thread -> Location]
      /\ k \in KernelState /\ k.timers = <<>> /\ k.lock = 0
      /\ irq \in {"on", "off", "tick"}
  BY <1>1, ManagerRuns
<1>3. Sound(k)
  BY <1>1, ManagerRuns DEF Hidden
<1>4. victim \in Worker /\ victim \in Thread /\ victim # Manager /\ victim # Idle
  BY <1>1 DEF LifeInv, CallPart, Worker
<1>5. PICK b, v, r, s : /\ b = k /\ v = victim /\ r = RemoveThread(b, v)
                        /\ s = Marked(r, v, "INIT")
  OBVIOUS
<1>6. /\ Sound(s) /\ r \in KernelState
      /\ r.stat = b.stat /\ r.cur = b.cur /\ r.timers = <<>> /\ r.lock = 0
      /\ \A o \in Object : Range(r.wait[o]) = Range(b.wait[o]) \ {v}
  <2>1. Sound(b) /\ b.timers = <<>> /\ b.lock = 0 /\ v \in Thread /\ v # b.cur /\ v # Idle
    BY <1>2, <1>3, <1>4, <1>5
  <2>2. Takes(b, v, "INIT", r, s)
    BY <1>5 DEF Takes
  <2>3. Taken(b, v, "INIT", r, s)
    BY <2>1, <2>2, RemovePlaces
  <2> QED
    BY <2>3 DEF Taken
<1>7. k' = r /\ Veiled' = s
  BY <1>1, <1>5 DEF Veiled, Hidden
<1>8. ProcessorPart'
  BY <1>1, <1>2, <1>5, <1>6, <1>7 DEF ProcessorPart
<1>9. CallPart'
  <2>1. k.stat[victim] # "RUNNING"
    BY <1>2, <1>3, <1>4 DEF Sound, OneRuns
  <2> QED
    BY <1>1, <1>2, <1>4, <1>5, <1>6, <1>7, <2>1 DEF CallPart
<1>10. ListPart'
  <2>1. ListPart
    BY DEF LifeInv
  <2>2. /\ defunct' \in Seq(Worker \ Static) /\ Distinct(defunct')
        /\ Range(defunct') = Range(defunct) \ {victim}
    <3>1. PICK S, d : S = Worker \ Static /\ d = defunct
      OBVIOUS
    <3>2. d \in Seq(S) /\ Distinct(d)
      BY <2>1, <3>1 DEF ListPart, ClosedOnce
    <3>3. /\ Without(d, v) \in Seq(S) /\ Distinct(Without(d, v))
          /\ Range(Without(d, v)) = Range(d) \ {v}
      BY <3>2, WithoutProperties
    <3> QED
      BY <1>1, <1>5, <3>1, <3>3
  <2>3. k'.stat = k.stat /\ k'.cur = k.cur
    BY <1>5, <1>6, <1>7
  <2>4. ClosedOnce'
    BY <1>1, <2>1, <2>2, <2>3 DEF ListPart, ClosedOnce
  <2>5. ASSUME NEW t \in parked
        PROVE  PutAway(k, t)'
    <3>1. PutAway(k, t)
      BY <2>1 DEF ListPart
    <3>2. \A o \in Object : t \notin Range(k'.wait[o])
      BY <1>5, <1>6, <1>7, <3>1 DEF PutAway
    <3> QED
      BY <2>3, <3>1, <3>2 DEF PutAway
  <2> QED
    BY <1>1, <2>1, <2>2, <2>4, <2>5 DEF ListPart
<1>11. SemPart'
  BY <1>1, SemStays
<1> QED
  BY <1>8, <1>9, <1>10, <1>11 DEF LifeInv

LEMMA DeleteStopsTimerLives ==
    ASSUME LifeInv, DeleteStopsTimer
    PROVE  LifeInv'
<1>1. /\ At(Manager, "call") /\ phase = "timer" /\ k.stat[victim] # "CLOSE"
      /\ k' = TimerStop(k, victim) /\ phase' = "close"
      /\ pc' = pc /\ irq' = irq /\ UNCHANGED semVars
      /\ victim' = victim /\ parked' = parked /\ defunct' = defunct /\ free' = free
  BY DEF DeleteStopsTimer
<1>2. /\ k.cur = Manager /\ k.stat[Manager] = "RUNNING" /\ pc[Manager] = "call"
      /\ pc \in [Thread -> Location]
      /\ k \in KernelState /\ k.timers = <<>> /\ k.lock = 0
      /\ irq \in {"on", "off", "tick"} /\ Sound(Veiled)
  BY <1>1, ManagerRuns
<1>3. /\ victim \in Worker /\ victim \in Thread /\ victim # Manager
      /\ k.stat[victim] # "RUNNING" /\ Hidden
  BY <1>1 DEF LifeInv, CallPart, Worker, Hidden
<1>4. PICK b, v, s, a, w : /\ b = k /\ v = victim /\ s = TimerStop(b, v)
                           /\ a = Veiled /\ w = TimerStop(a, v)
  OBVIOUS
<1>5. /\ s \in KernelState /\ s.timers = <<>> /\ s.cur = b.cur /\ s.stat = b.stat
      /\ s.wait = b.wait /\ s.lock = b.lock
  BY <1>2, <1>3, <1>4, StopPlaces
<1>6. Sound(w)
  <2>1. a \in KernelState /\ a.timers = <<>> /\ Sound(a) /\ v \in Thread
    BY <1>2, <1>3, <1>4, VeiledIs
  <2> QED
    BY <1>4, <2>1, StopPlaces
<1>7. k' = s /\ Veiled' = w
  <2>1. TimerStop(Marked(b, v, "INIT"), v) = Marked(s, v, "INIT")
    BY <1>2, <1>3, <1>4, MarkTimerStop DEF Stat
  <2>2. a = Marked(b, v, "INIT")
    BY <1>3, <1>4 DEF Veiled
  <2>3. Veiled' = Marked(s, v, "INIT")
    BY <1>1, <1>4 DEF Veiled, Hidden
  <2> QED
    BY <1>1, <1>4, <2>1, <2>2, <2>3
<1>8. ProcessorPart'
  BY <1>1, <1>2, <1>4, <1>5, <1>6, <1>7 DEF ProcessorPart
<1>9. CallPart'
  BY <1>1, <1>2, <1>3, <1>4, <1>5, <1>7 DEF CallPart
<1>10. ListPart'
  <2>1. ListPart
    BY DEF LifeInv
  <2>2. k'.stat = k.stat /\ k'.cur = k.cur /\ k'.wait = k.wait
    BY <1>4, <1>5, <1>7
  <2>3. ClosedOnce'
    BY <1>1, <2>1, <2>2 DEF ListPart, ClosedOnce
  <2>4. \A t \in parked : PutAway(k, t)'
    BY <2>1, <2>2 DEF ListPart, PutAway
  <2> QED
    BY <1>1, <2>1, <2>3, <2>4 DEF ListPart
<1>11. SemPart'
  BY <1>1, SemStays
<1> QED
  BY <1>8, <1>9, <1>10, <1>11 DEF LifeInv

LEMMA DeleteClosesLives ==
    ASSUME LifeInv, DeleteCloses
    PROVE  LifeInv'
<1>1. /\ At(Manager, "call") /\ phase = "close"
      /\ k' = Marked(k, victim, "CLOSE") /\ Dispose(victim, defunct)
      /\ parked' = parked \ {victim} /\ phase' = "none" /\ Goto(Manager, "run")
      /\ irq' = irq /\ UNCHANGED semVars /\ victim' = victim
  BY DEF DeleteCloses, Marked
<1>2. /\ k.cur = Manager /\ k.stat[Manager] = "RUNNING" /\ pc[Manager] = "call"
      /\ k \in KernelState /\ k.timers = <<>> /\ k.lock = 0
      /\ irq \in {"on", "off", "tick"} /\ Sound(Veiled)
  BY <1>1, ManagerRuns
<1>3. /\ victim \in Worker /\ victim \in Thread /\ victim # Manager /\ victim # Idle
      /\ k.stat[victim] # "CLOSE" /\ Hidden
  BY <1>1 DEF LifeInv, CallPart, Worker, Hidden
<1>4. PICK a, v, s, x : /\ a = Veiled /\ v = victim /\ s = Marked(a, v, "CLOSE")
                        /\ x = k.stat[v]
  OBVIOUS
<1>5. /\ a \in KernelState /\ a.timers = <<>> /\ a.lock = 0 /\ Sound(a)
      /\ a.cur = k.cur /\ a.stat[v] = "INIT" /\ k = Marked(a, v, x)
      /\ v \in Thread /\ x \in Stat
  BY <1>2, <1>3, <1>4, VeiledIs
<1>6. Sound(s)
  <2>1. \A o \in Object : v \notin Range(a.wait[o])
    BY <1>5 DEF Sound, Linked, WaitersSuspended
  <2>2. v # a.cur /\ v # Idle /\ a.stat[v] # "READY"
    BY <1>2, <1>3, <1>4, <1>5
  <2> QED
    BY <1>4, <1>5, <2>1, <2>2, RestateSound
<1>7. k' = s
  <2>1. Marked(Marked(a, v, x), v, "CLOSE") = Marked(a, v, "CLOSE")
    BY <1>5, MarkedTwice DEF Stat
  <2> QED
    BY <1>1, <1>4, <1>5, <2>1
<1>8. /\ k' \in KernelState /\ k'.stat = [k.stat EXCEPT ![victim] = "CLOSE"]
      /\ k'.cur = k.cur /\ k'.wait = k.wait /\ k'.timers = k.timers /\ k'.lock = k.lock
  BY <1>1, <1>2, <1>3 DEF Marked, KernelState, Stat
<1>9. k.stat \in [Thread -> Stat] /\ Worker \subseteq Thread
  BY <1>2 DEF KernelState, Worker
<1>10. ProcessorPart'
  <2>1. Veiled' = s
    BY <1>1, <1>7 DEF Veiled, Hidden
  <2>2. k'.stat[Manager] = "RUNNING"
    BY <1>2, <1>3, <1>8, <1>9
  <2> QED
    BY <1>1, <1>2, <1>6, <1>8, <2>1, <2>2, ManagerGoesOn
<1>11. CallPart'
  BY <1>1, <1>3 DEF CallPart, Hidden
<1>12. ListPart'
  <2>1. ListPart
    BY DEF LifeInv
  <2>2. /\ ClosedOnce' /\ free' \subseteq Worker /\ defunct' \in Seq(Worker \ Static)
    <3>1. \A u \in Worker :
             k'.stat[u] = "CLOSE" <=> (k.stat[u] = "CLOSE" \/ u = victim)
      BY <1>3, <1>8, <1>9
    <3>2. phase # "timer"
      BY <1>1
    <3> QED
      BY <1>1, <1>3, <3>1, <3>2, DisposeKeeps
  <2>3. \A t \in parked' : PutAway(k, t)'
    BY <1>1, <1>3, <1>8, <1>9, <2>1 DEF ListPart, PutAway
  <2> QED
    BY <1>1, <2>1, <2>2, <2>3 DEF ListPart
<1>13. SemPart'
  BY <1>1, SemStays
<1> QED
  BY <1>10, <1>11, <1>12, <1>13 DEF LifeInv

LEMMA IdleFreesLives ==
    ASSUME LifeInv, IdleFrees
    PROVE  LifeInv'
<1>1. /\ defunct # <<>> /\ free' = free \cup {Head(defunct)}
      /\ defunct' = Tail(defunct)
      /\ k' = k /\ pc' = pc /\ irq' = irq /\ UNCHANGED semVars
      /\ phase' = phase /\ victim' = victim /\ parked' = parked
  BY DEF IdleFrees, vars, kernelVars
<1>2. Veiled' = Veiled /\ (Hidden' <=> Hidden)
  BY <1>1 DEF Veiled, Hidden
<1>3. ProcessorPart /\ CallPart /\ ListPart
  BY DEF LifeInv
<1>4. ProcessorPart'
  BY <1>1, <1>2, <1>3 DEF ProcessorPart
<1>5. CallPart'
  BY <1>1, <1>2, <1>3 DEF CallPart, PutAway
<1>6. /\ Distinct(defunct) /\ free \subseteq Worker /\ defunct \in Seq(Worker \ Static)
      /\ \A u \in Worker :
          /\ u \in Range(defunct) \cup free => k.stat[u] = "CLOSE"
          /\ ~(u \in Range(defunct) /\ u \in free)
          /\ k.stat[u] = "CLOSE" /\ ~(phase = "timer" /\ victim = u) =>
                u \in Range(defunct) \cup free
  BY <1>3 DEF ListPart, ClosedOnce
<1>7. /\ Head(defunct) \in Range(defunct) /\ Head(defunct) \in Worker \ Static
      /\ defunct' \in Seq(Worker \ Static) /\ Distinct(defunct')
      /\ Range(defunct') = Range(defunct) \ {Head(defunct)}
  <2>1. PICK S, d : S = Worker \ Static /\ d = defunct
    OBVIOUS
  <2>2. d \in Seq(S) /\ Distinct(d) /\ d # <<>>
    BY <1>1, <1>6, <2>1
  <2>3. /\ Head(d) \in Range(d) /\ Head(d) \in S
        /\ Tail(d) \in Seq(S) /\ Distinct(Tail(d))
        /\ Range(Tail(d)) = Range(d) \ {Head(d)}
    BY <2>2, HeadIn, TailProperties
  <2> QED
    BY <1>1, <2>1, <2>3
<1>8. ClosedOnce'
  BY <1>1, <1>6, <1>7 DEF ClosedOnce
<1>9. ListPart'
  <2>1. \A t \in parked : PutAway(k, t)'
    BY <1>1, <1>3 DEF ListPart, PutAway
  <2> QED
    BY <1>1, <1>3, <1>6, <1>7, <1>8, <2>1 DEF ListPart
<1>10. SemPart'
  BY <1>1, SemStays
<1> QED
  BY <1>4, <1>5, <1>9, <1>10 DEF LifeInv

LEMMA SuspendTakesLives ==
    ASSUME LifeInv, SuspendTakes
    PROVE  LifeInv'
<1>1. /\ At(Manager, "call") /\ phase = "park" /\ k.stat[victim] # "CLOSE"
      /\ k' = TimerStop(Marked(RemoveThread(k, victim), victim, "SUSPEND"), victim)
      /\ Remember /\ parked' = parked \cup {victim} /\ phase' = "none"
      /\ Goto(Manager, "run") /\ irq' = irq /\ value' = value /\ life' = life
      /\ victim' = victim /\ defunct' = defunct /\ free' = free
  BY DEF SuspendTakes, Marked
<1>2. /\ k.cur = Manager /\ k.stat[Manager] = "RUNNING"
      /\ k \in KernelState /\ k.timers = <<>> /\ k.lock = 0
      /\ irq \in {"on", "off", "tick"}
  BY <1>1, ManagerRuns
<1>3. Sound(k)
  BY <1>1, ManagerRuns DEF Hidden
<1>4. victim \in Worker /\ victim \in Thread /\ victim # Manager /\ victim # Idle
  BY <1>1 DEF LifeInv, CallPart, Worker
<1>5. PICK b, v, r, s, w : /\ b = k /\ v = victim /\ r = RemoveThread(b, v)
                           /\ s = Marked(r, v, "SUSPEND") /\ w = TimerStop(s, v)
  OBVIOUS
<1>6. Taken(b, v, "SUSPEND", r, s)
  <2>1. Sound(b) /\ b.timers = <<>> /\ b.lock = 0 /\ v \in Thread /\ v # b.cur /\ v # Idle
    BY <1>2, <1>3, <1>4, <1>5
  <2>2. Takes(b, v, "SUSPEND", r, s)
    BY <1>5 DEF Takes
  <2> QED
    BY <2>1, <2>2, RemovePlaces
<1>7. /\ s \in KernelState /\ s.timers = <<>> /\ Sound(s)
      /\ s.cur = b.cur /\ s.lock = 0 /\ s.stat = [b.stat EXCEPT ![v] = "SUSPEND"]
      /\ \A o \in Object : Range(s.wait[o]) = Range(b.wait[o]) \ {v}
  BY <1>6 DEF Taken
<1>8. /\ w \in KernelState /\ w.timers = <<>> /\ w.cur = s.cur /\ w.stat = s.stat
      /\ w.wait = s.wait /\ w.lock = s.lock /\ Sound(w)
  <2>1. s \in KernelState /\ s.timers = <<>> /\ v \in Thread /\ w = TimerStop(s, v)
    BY <1>4, <1>5, <1>7
  <2> QED
    BY <1>7, <2>1, StopPlaces
<1>9. k' = w /\ Veiled' = w
  BY <1>1, <1>5 DEF Veiled, Hidden
<1>10. /\ k'.stat = [k.stat EXCEPT ![victim] = "SUSPEND"] /\ k'.cur = k.cur
       /\ \A o \in Object : Range(k'.wait[o]) = Range(k.wait[o]) \ {victim}
       /\ k' \in KernelState /\ k'.timers = <<>> /\ k'.lock = 0
  BY <1>5, <1>7, <1>8, <1>9
<1>11. k.stat \in [Thread -> Stat] /\ Worker \subseteq Thread
  BY <1>2 DEF KernelState, Worker
<1>12. ProcessorPart'
  <2>1. k'.stat[Manager] = "RUNNING"
    BY <1>2, <1>4, <1>10, <1>11
  <2> QED
    BY <1>1, <1>2, <1>8, <1>9, <1>10, <2>1, ManagerGoesOn
<1>13. CallPart'
  BY <1>1, <1>4 DEF CallPart, Hidden
<1>14. ListPart'
  <2>1. ListPart
    BY DEF LifeInv
  <2>2. ClosedOnce'
    BY <1>1, <1>4, <1>10, <1>11, <2>1 DEF ListPart, ClosedOnce
  <2>3. \A t \in parked' : PutAway(k, t)'
    <3>1. ASSUME NEW t \in parked, t # victim
          PROVE  PutAway(k, t)'
      <4>1. t \in Thread /\ PutAway(k, t)
        BY <1>11, <2>1 DEF ListPart
      <4>2. k'.stat[t] = "SUSPEND" /\ k'.cur # t
        BY <1>4, <1>10, <1>11, <3>1, <4>1 DEF PutAway
      <4>3. \A o \in Object : t \notin Range(k'.wait[o])
        BY <1>10, <4>1 DEF PutAway
      <4> QED
        BY <4>2, <4>3 DEF PutAway
    <3>2. PutAway(k, victim)'
      <4>1. k'.stat[victim] = "SUSPEND" /\ k'.cur # victim /\ victim' = victim
        BY <1>1, <1>2, <1>4, <1>10, <1>11
      <4>2. \A o \in Object : victim \notin Range(k'.wait[o])
        BY <1>10
      <4> QED
        BY <4>1, <4>2 DEF PutAway
    <3> QED
      BY <1>1, <3>1, <3>2
  <2> QED
    BY <1>1, <1>4, <2>1, <2>2, <2>3 DEF ListPart
<1>15. SemPart'
  BY <1>1, SemStays
<1> QED
  BY <1>12, <1>13, <1>14, <1>15 DEF LifeInv

LEMMA ResumeUnlinksLives ==
    ASSUME LifeInv, NEW u \in Worker, ResumeUnlinks(u)
    PROVE  LifeInv'
<1>1. /\ At(Manager, "run") /\ u \in parked /\ k' = TimerStop(Unlink(k, u), u)
      /\ parked' = parked \ {u} /\ victim' = u /\ phase' = "insert"
      /\ Goto(Manager, "call") /\ irq' = irq /\ UNCHANGED semVars
      /\ defunct' = defunct /\ free' = free
  BY DEF ResumeUnlinks
<1>2. /\ k.cur = Manager /\ k.stat[Manager] = "RUNNING" /\ phase = "none"
      /\ k \in KernelState /\ k.timers = <<>> /\ k.lock = 0
      /\ irq \in {"on", "off", "tick"}
  BY <1>1, ManagerRuns
<1>3. Sound(k)
  BY <1>1, <1>2, ManagerRuns DEF Hidden
<1>4. /\ ListPart /\ PutAway(k, u) /\ u \in Thread /\ u # Manager /\ u # Idle
  BY <1>1, <1>2 DEF LifeInv, ListPart, PutAway, Worker
<1>5. PICK b, w, s : b = k /\ w = Unlink(b, u) /\ s = TimerStop(w, u)
  OBVIOUS
<1>6. /\ w \in KernelState /\ w.stat = b.stat /\ w.cur = b.cur /\ w.timers = <<>>
      /\ w.lock = 0 /\ w.prio = b.prio /\ w.mask = b.mask
  <2>1. w \in KernelState
    BY <1>2, <1>4, <1>5, UnlinkType
  <2> QED
    BY <1>2, <1>5, <2>1 DEF Unlink, KernelState
<1>7. /\ Detached(w, u)
      /\ \A o \in Object : Range(w.wait[o]) = Range(b.wait[o]) \ {u}
  BY <1>3, <1>4, <1>5, UnlinkDetaches DEF Sound, PutAway
<1>8. Sound(w)
  <2>1. /\ b.cur \in Thread /\ b.stat[b.cur] \in {"RUNNING", "SUSPEND"}
        /\ \A t \in Thread \ {u} : b.stat[t] = "RUNNING" => t = b.cur
        /\ b.stat[Idle] \in {"READY", "RUNNING"}
        /\ b.mask = b.prio
    BY <1>3, <1>4, <1>5, SoundPlaces
  <2>2. /\ u # w.cur /\ w.stat[w.cur] \in {"RUNNING", "SUSPEND"}
        /\ \A t \in Thread \ {u} : w.stat[t] = "RUNNING" => t = w.cur
        /\ w.stat[Idle] \in {"READY", "RUNNING"}
        /\ w.mask = w.prio
        /\ w.stat[u] \in {"INIT", "SUSPEND", "CLOSE"}
    BY <1>2, <1>4, <1>5, <1>6, <2>1 DEF PutAway
  <2> QED
    BY <1>4, <1>6, <1>7, <2>2, PlaceSound
<1>9. /\ s \in KernelState /\ s.timers = <<>> /\ s.cur = w.cur /\ s.stat = w.stat
      /\ s.wait = w.wait /\ s.lock = w.lock /\ Sound(s)
  BY <1>4, <1>5, <1>6, <1>8, StopPlaces
<1>10. k' = s /\ Veiled' = s
  BY <1>1, <1>5 DEF Veiled, Hidden
<1>11. /\ k'.stat = k.stat /\ k'.cur = k.cur
       /\ \A o \in Object : Range(k'.wait[o]) = Range(k.wait[o]) \ {u}
       /\ k' \in KernelState /\ k'.timers = <<>> /\ k'.lock = 0
  BY <1>5, <1>6, <1>7, <1>9, <1>10
<1>12. ProcessorPart' /\ pc'[Manager] = "call"
  BY <1>1, <1>2, <1>9, <1>10, <1>11, ManagerGoesOn
<1>13. CallPart'
  <2>1. PutAway(k, u)'
    BY <1>4, <1>11 DEF PutAway
  <2> QED
    BY <1>1, <1>4, <1>12, <2>1 DEF CallPart, Hidden
<1>14. ListPart'
  <2>1. ClosedOnce'
    BY <1>1, <1>2, <1>4, <1>11 DEF ListPart, ClosedOnce
  <2>2. \A t \in parked' : PutAway(k, t)'
    BY <1>1, <1>4, <1>11 DEF ListPart, PutAway
  <2> QED
    BY <1>1, <1>4, <2>1, <2>2 DEF ListPart
<1>15. SemPart'
  BY <1>1, SemStays
<1> QED
  BY <1>12, <1>13, <1>14, <1>15 DEF LifeInv

LEMMA ResumeInsertsLives ==
    ASSUME LifeInv, ResumeInserts
    PROVE  LifeInv'
<1>1. /\ At(Manager, "call") /\ phase = "insert" /\ k' = InsertThread(k, victim)
      /\ phase' = "none" /\ Goto(Manager, "run") /\ irq' = irq
      /\ UNCHANGED semVars /\ victim' = victim /\ parked' = parked
      /\ defunct' = defunct /\ free' = free
  BY DEF ResumeInserts
<1>2. /\ k.cur = Manager /\ k.stat[Manager] = "RUNNING"
      /\ k \in KernelState /\ k.timers = <<>> /\ k.lock = 0
      /\ irq \in {"on", "off", "tick"}
  BY <1>1, ManagerRuns
<1>3. Sound(k)
  BY <1>1, ManagerRuns DEF Hidden
<1>4. /\ victim \in Worker /\ victim \in Thread /\ victim # Manager
      /\ PutAway(k, victim) /\ victim \notin parked
  BY <1>1 DEF LifeInv, CallPart, Worker
<1>5. PICK b, v, s : b = k /\ v = victim /\ s = InsertThread(b, v)
  OBVIOUS
<1>6. Sound(b) /\ v \in Thread /\ b.stat[v] = "SUSPEND" /\ b.cur # v
      /\ \A o \in Object : v \notin Range(b.wait[o])
  BY <1>3, <1>4, <1>5 DEF PutAway
<1>7. Detached(b, v)
  BY <1>6, UnlinkedDetached
<1>8. Wakes(b, s)
  <2>1. Distinct(b.timers) /\ Range(b.timers) = Range(b.timers) \ {v}
    BY <1>2, <1>5 DEF Distinct, Range
  <2>2. \A o \in Object : Range(b.wait[o]) = Range(b.wait[o]) \ {v}
    BY <1>6
  <2> QED
    BY <1>5, <1>6, <1>7, <2>1, <2>2, InsertWakes
<1>9. /\ s.stat = [b.stat EXCEPT ![v] = "READY"] /\ s.cur = b.cur
      /\ s.wait = b.wait /\ s.timers = b.timers /\ s.lock = b.lock
  BY <1>5, <1>6, <1>7, InsertLinks
<1>10. s \in KernelState /\ Sound(s)
  BY <1>8 DEF Wakes, Sound, Linked
<1>11. k' = s /\ Veiled' = s
  BY <1>1, <1>5 DEF Veiled, Hidden
<1>12. k.stat \in [Thread -> Stat] /\ Worker \subseteq Thread
  BY <1>2 DEF KernelState, Worker
<1>13. /\ k'.stat = [k.stat EXCEPT ![victim] = "READY"] /\ k'.cur = k.cur
       /\ k'.wait = k.wait /\ k'.timers = <<>> /\ k'.lock = 0 /\ k' \in KernelState
  BY <1>2, <1>5, <1>9, <1>10, <1>11
<1>14. ProcessorPart'
  <2>1. k'.stat[Manager] = "RUNNING"
    BY <1>2, <1>4, <1>12, <1>13
  <2> QED
    BY <1>1, <1>2, <1>10, <1>11, <1>13, <2>1, ManagerGoesOn
<1>15. CallPart'
  BY <1>1, <1>4 DEF CallPart, Hidden
<1>16. ListPart'
  <2>1. ListPart
    BY DEF LifeInv
  <2>2. k.stat[victim] = "SUSPEND"
    BY <1>4 DEF PutAway
  <2>3. ClosedOnce'
    BY <1>1, <1>4, <1>12, <1>13, <2>1, <2>2 DEF ListPart, ClosedOnce
  <2>4. \A t \in parked : PutAway(k, t)'
    BY <1>4, <1>12, <1>13, <2>1 DEF ListPart, PutAway
  <2> QED
    BY <1>1, <2>1, <2>3, <2>4 DEF ListPart
<1>17. SemPart'
  BY <1>1, SemStays
<1> QED
  BY <1>14, <1>15, <1>16, <1>17 DEF LifeInv

LEMMA CreateLives ==
    ASSUME LifeInv, NEW u \in Worker, Create(u)
    PROVE  LifeInv'
<1>1. /\ At(Manager, "run") /\ u \in free
      /\ k' = [k EXCEPT !.stat[u] = "INIT", !.yield[u] = FALSE,
                        !.prio[u] = InitPrio[u], !.mask[u] = InitPrio[u],
                        !.remaining[u] = InitTick[u], !.error[u] = "OK"]
      /\ pc' = [pc EXCEPT ![u] = "run"] /\ free' = free \ {u}
      /\ irq' = irq /\ UNCHANGED semVars /\ phase' = phase /\ victim' = victim
      /\ parked' = parked /\ defunct' = defunct
  BY DEF Create
<1>2. /\ k.cur = Manager /\ k.stat[Manager] = "RUNNING" /\ phase = "none"
      /\ pc \in [Thread -> Location]
      /\ k \in KernelState /\ k.timers = <<>> /\ k.lock = 0
      /\ irq \in {"on", "off", "tick"}
  BY <1>1, ManagerRuns
<1>3. Sound(k)
  BY <1>1, <1>2, ManagerRuns DEF Hidden
<1>4. /\ ListPart /\ u \in Thread /\ u # Idle /\ k.stat[u] = "CLOSE"
      /\ u \notin Range(defunct) /\ u # Manager
  BY <1>1, <1>2 DEF LifeInv, ListPart, ClosedOnce, Worker
<1>5. PICK b, s : b = k /\ s = k'
  OBVIOUS
<1>6. /\ s \in KernelState /\ s.stat = [b.stat EXCEPT ![u] = "INIT"]
      /\ s.prio = [b.prio EXCEPT ![u] = InitPrio[u]]
      /\ s.mask = [b.mask EXCEPT ![u] = InitPrio[u]]
      /\ s.cur = b.cur /\ s.ready = b.ready /\ s.wait = b.wait /\ s.group = b.group
      /\ s.timers = b.timers /\ s.lock = b.lock
  <2>1. PICK p, n : p = InitPrio[u] /\ n = InitTick[u]
    OBVIOUS
  <2>2. p \in Prio /\ n \in Nat \ {0} /\ "INIT" \in Stat /\ "OK" \in Error
    BY <1>4, <2>1, KernelAssumption DEF Stat, Error
  <2>3. s = [b EXCEPT !.stat[u] = "INIT", !.yield[u] = FALSE, !.prio[u] = p,
                      !.mask[u] = p, !.remaining[u] = n, !.error[u] = "OK"]
    BY <1>1, <1>5, <2>1
  <2>4. b \in KernelState /\ u \in Thread
    BY <1>2, <1>4, <1>5
  <2>5. s \in KernelState
    BY <2>2, <2>3, <2>4 DEF KernelState
  <2>6. /\ s.stat = [b.stat EXCEPT ![u] = "INIT"]
        /\ s.prio = [b.prio EXCEPT ![u] = p] /\ s.mask = [b.mask EXCEPT ![u] = p]
        /\ s.cur = b.cur /\ s.ready = b.ready /\ s.wait = b.wait
        /\ s.group = b.group /\ s.timers = b.timers /\ s.lock = b.lock
    BY <2>3, <2>4 DEF KernelState
  <2> QED
    BY <2>1, <2>5, <2>6
<1>7. /\ b.stat \in [Thread -> Stat] /\ b.prio \in [Thread -> Prio]
      /\ b.mask \in [Thread -> Prio] /\ Worker \subseteq Thread
  BY <1>2, <1>5 DEF KernelState, Worker
<1>8. Sound(s)
  <2>1. \A o \in Object : u \notin Range(b.wait[o])
    BY <1>3, <1>4, <1>5 DEF Sound, Linked, WaitersSuspended
  <2>2. Detached(b, u)
    BY <1>3, <1>4, <1>5, <2>1, UnlinkedDetached
  <2>3. /\ b.cur \in Thread /\ b.stat[b.cur] \in {"RUNNING", "SUSPEND"}
        /\ \A t \in Thread \ {u} : b.stat[t] = "RUNNING" => t = b.cur
        /\ b.stat[Idle] \in {"READY", "RUNNING"}
        /\ b.mask = b.prio
    BY <1>3, <1>4, <1>5, SoundPlaces
  <2>4. /\ s.mask = s.prio /\ s.timers = <<>> /\ s.lock = 0 /\ u # b.cur
        /\ \A t \in Thread \ {u} : s.stat[t] = b.stat[t] /\ s.prio[t] = b.prio[t]
        /\ s.stat[u] \in {"INIT", "SUSPEND", "CLOSE"}
    BY <1>2, <1>4, <1>5, <1>6, <1>7, <2>3
  <2> QED
    BY <1>4, <1>6, <2>2, <2>3, <2>4, PlaceSound
<1>9. Veiled' = s
  BY <1>1, <1>2, <1>5 DEF Veiled, Hidden
<1>10. /\ k'.stat = [k.stat EXCEPT ![u] = "INIT"] /\ k'.cur = k.cur
       /\ k'.wait = k.wait /\ k'.timers = <<>> /\ k'.lock = 0 /\ k' \in KernelState
  BY <1>2, <1>5, <1>6
<1>11. ProcessorPart'
  <2>1. k'.stat[k'.cur] = "RUNNING"
    BY <1>2, <1>4, <1>5, <1>7, <1>10
  <2>2. pc' \in [Thread -> Location]
    BY <1>1, <1>2 DEF Location
  <2> QED
    BY <1>1, <1>2, <1>8, <1>9, <1>10, <2>1, <2>2 DEF ProcessorPart
<1>12. CallPart'
  <2>1. CallPart
    BY DEF LifeInv
  <2> QED
    BY <1>1, <1>2, <2>1 DEF CallPart, Hidden
<1>13. ListPart'
  <2>1. ClosedOnce'
    BY <1>1, <1>2, <1>4, <1>5, <1>7, <1>10 DEF ListPart, ClosedOnce
  <2>2. \A t \in parked : PutAway(k, t)'
    BY <1>4, <1>5, <1>7, <1>10 DEF ListPart, PutAway
  <2> QED
    BY <1>1, <1>4, <2>1, <2>2 DEF ListPart
<1>14. SemPart'
  BY <1>1, SemStays
<1> QED
  BY <1>11, <1>12, <1>13, <1>14 DEF LifeInv

(* The return of the thread that runs, in a kernel state without timers:   *)
(* what rt_schedule makes of the state in which it is closed is what it    *)
(* makes of the one in which it is suspended, but for that.                *)
LEMMA ClosedIs ==
    ASSUME NEW b, Sound(b), b.lock = 0, b.timers = <<>>,
           NEW t \in Thread, b.stat[t] = "RUNNING", t # Idle,
           NEW s, s = ThreadSuspend(b, t), NEW q, q = Schedule(s)
    PROVE  /\ Sound(s) /\ s \in KernelState
           /\ s.cur = b.cur /\ s.stat = [b.stat EXCEPT ![t] = "SUSPEND"]
           /\ \A u \in Thread \ {t}, o \in Object :
                 u \in Range(s.wait[o]) <=> u \in Range(b.wait[o])
           /\ Wakes(s, q) /\ LeavesAlone(s, q)
           /\ q.timers = <<>> /\ q.lock = 0 /\ q.stat[q.cur] = "RUNNING"
           /\ q.stat[t] = "SUSPEND"
           /\ \A o \in Object : t \notin Range(q.wait[o])
           /\ Closed(b, t) = Marked(s, t, "CLOSE")
           /\ Schedule(Closed(b, t)) = Marked(q, t, "CLOSE")
           /\ Sound(Marked(q, t, "CLOSE"))
<1>1. Suspends(b, s, t) /\ s.timers = <<>> /\ \A o \in Object : t \notin Range(s.wait[o])
  <2>1. s.timers = <<>>
    BY SuspendStops
  <2> QED
    BY <2>1, SuspendRunning
<1>2. /\ Sound(s) /\ s.cur = b.cur /\ s.lock = 0
      /\ s.stat = [b.stat EXCEPT ![t] = "SUSPEND"]
      /\ \A u \in Thread \ {t}, o \in Object :
            u \in Range(s.wait[o]) <=> u \in Range(b.wait[o])
  BY <1>1 DEF Suspends
<1>3. s \in KernelState /\ b \in KernelState
  BY <1>2 DEF Sound, Linked
<1>4. s.stat[t] = "SUSPEND"
  BY <1>2, <1>3 DEF KernelState
<1>5. /\ Wakes(s, q) /\ LeavesAlone(s, q)
      /\ q.stat[q.cur] = "RUNNING" /\ Steady(s, q) /\ q.stat[t] = "SUSPEND"
  BY <1>2, <1>4, ScheduleWakes, ScheduleAlone, ScheduleSteady
<1>6. q.timers = <<>> /\ q.lock = 0
  BY <1>1, <1>2, <1>5 DEF Steady, Wakes
<1>7. \A o \in Object : t \notin Range(q.wait[o])
  BY <1>1, <1>5 DEF Wakes
<1>8. Closed(b, t) = Marked(s, t, "CLOSE")
  <2>1. PICK r, m, c : /\ r = RemoveThread(b, t) /\ m = Marked(r, t, "SUSPEND")
                       /\ c = Marked(r, t, "CLOSE")
    OBVIOUS
  <2>2. r \in KernelState
    BY <1>3, <2>1, RemoveType
  <2>3. m \in KernelState /\ Marked(m, t, "CLOSE") = c
    BY <2>1, <2>2, MarkedIs, MarkedTwice DEF Stat
  <2>4. s = TimerStop(m, t)
    BY <2>1 DEF ThreadSuspend, Marked
  <2>5. Closed(b, t) = TimerStop(c, t)
    BY <2>1 DEF Closed, Marked
  <2>6. TimerStop(Marked(m, t, "CLOSE"), t) = Marked(TimerStop(m, t), t, "CLOSE")
    BY <2>3, MarkTimerStop DEF Stat
  <2> QED
    BY <2>3, <2>4, <2>5, <2>6
<1>9. Schedule(Closed(b, t)) = Marked(q, t, "CLOSE")
  <2>1. Unread(s, t)
    BY <1>2, <1>4, SoundUnread
  <2>2. "CLOSE" \in Stat \ {"RUNNING"}
    BY DEF Stat
  <2>3. Schedule(Marked(s, t, "CLOSE")) = Marked(Schedule(s), t, "CLOSE")
    BY <2>1, <2>2, MarkSchedule
  <2> QED
    BY <1>8, <2>3
<1>10. Sound(Marked(q, t, "CLOSE"))
  <2>1. PICK x : x = "CLOSE"
    OBVIOUS
  <2>2. Sound(q) /\ t # q.cur /\ q.stat[t] # "READY" /\ x \in {"INIT", "SUSPEND", "CLOSE"}
    BY <1>5, <2>1 DEF Wakes
  <2>3. Sound(Marked(q, t, x))
    BY <1>6, <1>7, <2>2, RestateSound
  <2> QED
    BY <2>1, <2>3
<1> QED
  BY <1>2, <1>3, <1>5, <1>6, <1>7, <1>8, <1>9, <1>10

LEMMA ExitLives ==
    ASSUME LifeInv, NEW t \in Worker, Exit(t)
    PROVE  LifeInv'
<1>1. /\ At(t, "run") /\ k' = Schedule(Closed(k, t)) /\ Dispose(t, defunct)
      /\ pc' = pc /\ irq' = irq /\ UNCHANGED semVars
      /\ phase' = phase /\ victim' = victim /\ parked' = parked
      /\ t \in Thread /\ t # Idle
  BY DEF Exit, Worker
<1>2. /\ k.cur = t /\ k.stat[t] = "RUNNING" /\ Veiled.stat[t] = "RUNNING"
      /\ Veiled.cur = t /\ ~(Hidden /\ victim = t)
  BY <1>1, LifeRuns
<1>3. /\ Sound(Veiled) /\ Veiled \in KernelState /\ Veiled.lock = 0 /\ Veiled.timers = <<>>
  BY VeiledIs DEF LifeInv, ProcessorPart
<1>4. PICK b, s, q, y : /\ b = Veiled /\ s = ThreadSuspend(b, t) /\ q = Schedule(s)
                        /\ y = Marked(q, t, "CLOSE")
  OBVIOUS
<1>5. /\ Sound(b) /\ b.lock = 0 /\ b.timers = <<>> /\ b.stat[t] = "RUNNING"
      /\ b.cur = t /\ b \in KernelState
  BY <1>2, <1>3, <1>4
<1>6. /\ Sound(s) /\ s \in KernelState
      /\ s.cur = b.cur /\ s.stat = [b.stat EXCEPT ![t] = "SUSPEND"]
      /\ \A u \in Thread \ {t}, o \in Object :
            u \in Range(s.wait[o]) <=> u \in Range(b.wait[o])
      /\ Wakes(s, q) /\ LeavesAlone(s, q)
      /\ q.timers = <<>> /\ q.lock = 0 /\ q.stat[q.cur] = "RUNNING"
      /\ q.stat[t] = "SUSPEND"
      /\ Closed(b, t) = Marked(s, t, "CLOSE")
      /\ Schedule(Closed(b, t)) = y
      /\ Sound(y)
  BY <1>1, <1>4, <1>5, ClosedIs
<1>7. q \in KernelState
  BY <1>6 DEF Wakes, Sound, Linked
<1>8. /\ y \in KernelState /\ y.stat = [q.stat EXCEPT ![t] = "CLOSE"]
      /\ y.cur = q.cur /\ y.wait = q.wait /\ y.timers = <<>> /\ y.lock = 0
  <2>1. y = Marked(q, t, "CLOSE") /\ t \in Thread /\ q.timers = <<>> /\ q.lock = 0
    BY <1>1, <1>4, <1>6
  <2>2. /\ y \in KernelState /\ y.stat = [q.stat EXCEPT ![t] = "CLOSE"]
        /\ y.cur = q.cur /\ y.wait = q.wait /\ y.timers = q.timers /\ y.lock = q.lock
    BY <1>7, <2>1 DEF Marked, KernelState, Stat
  <2> QED
    BY <2>1, <2>2
<1>9. b.stat \in [Thread -> Stat] /\ q.stat \in [Thread -> Stat] /\ Worker \subseteq Thread
  BY <1>5, <1>7 DEF KernelState, Worker
<1>10. k' = IF Hidden THEN Marked(y, victim, k.stat[victim]) ELSE y
  <2>1. CASE Hidden
    <3>1. PICK v, x, c : v = victim /\ x = k.stat[victim] /\ c = Closed(b, t)
      OBVIOUS
    <3>2. /\ x \in Stat \ {"RUNNING"} /\ v \in Thread /\ k = Marked(b, v, x)
          /\ t \in Thread \ {v} /\ b.stat[v] = "INIT"
      BY <1>1, <1>2, <1>4, <2>1, <3>1, VeilReads, VeiledIs
    <3>3. Closed(Marked(b, v, x), t) = Marked(c, v, x)
      BY <1>5, <3>1, <3>2, MarkClosed
    <3>4. Unread(c, v)
      <4>1. Unread(s, v)
        <5>1. s.stat[v] = "INIT"
          BY <1>6, <1>9, <3>2
        <5> QED
          BY <1>6, <3>2, <5>1, SoundUnread
      <4>2. /\ c \in KernelState /\ c.stat = [s.stat EXCEPT ![t] = "CLOSE"]
            /\ c.ready = s.ready /\ c.group = s.group
        BY <1>1, <1>6, <3>1 DEF Marked, KernelState, Stat
      <4>3. c.stat[v] = s.stat[v]
        BY <1>6, <3>2, <4>2 DEF KernelState
      <4> QED
        BY <4>1, <4>2, <4>3 DEF Unread
    <3>5. Schedule(Marked(c, v, x)) = Marked(Schedule(c), v, x)
      BY <3>2, <3>4, MarkSchedule
    <3> QED
      BY <1>1, <1>6, <2>1, <3>1, <3>2, <3>3, <3>5
  <2>2. CASE ~Hidden
    BY <1>1, <1>4, <1>6, <2>2 DEF Veiled
  <2> QED
    BY <2>1, <2>2
<1>11. Passes(y, {t})
  <2>1. \A u \in Thread : y.stat[u] = "CLOSE" <=> (b.stat[u] = "CLOSE" \/ u = t)
    BY <1>5, <1>6, <1>8, <1>9 DEF LeavesAlone
  <2>2. ASSUME NEW u \in Thread, PutAway(b, u)
        PROVE  PutAway(y, u)
    <3>1. u # t
      BY <1>5, <2>2 DEF PutAway
    <3>2. PutAway(s, u)
      BY <1>6, <1>9, <2>2, <3>1 DEF PutAway
    <3>3. PutAway(q, u)
      BY <1>6, <3>2, WakesPutAway
    <3> QED
      BY <1>8, <1>9, <3>1, <3>3 DEF PutAway
  <2>3. Hidden => y.stat[victim] = "INIT"
    <3>1. ASSUME Hidden
          PROVE  y.stat[victim] = "INIT"
      <4>1. victim \in Thread /\ victim # t /\ b.stat[victim] = "INIT"
        BY <1>2, <1>4, <3>1, VeiledIs
      <4>2. s.stat[victim] = "INIT"
        BY <1>6, <1>9, <4>1
      <4>3. q.stat[victim] = "INIT"
        BY <1>6, <4>1, <4>2 DEF LeavesAlone
      <4> QED
        BY <1>8, <1>9, <4>1, <4>3
    <3> QED
      BY <3>1
  <2>4. y.stat[y.cur] # "SUSPEND"
    <3>1. y.cur \in Thread /\ y.cur = q.cur /\ q.stat[q.cur] = "RUNNING"
      BY <1>6, <1>8 DEF KernelState
    <3> QED
      BY <1>8, <1>9, <3>1
  <2> QED
    BY <1>4, <1>6, <1>8, <1>10, <2>1, <2>2, <2>3, <2>4 DEF Passes
<1>12. Turns
  BY <1>1 DEF Turns, LifeInv, ProcessorPart
<1>13. /\ ProcessorPart' /\ CallPart'
       /\ \A u \in parked : PutAway(k, u)'
       /\ \A u \in Thread : k'.stat[u] = "CLOSE" <=> k.stat[u] = "CLOSE" \/ u \in {t}
  BY <1>1, <1>11, <1>12, PassesParts
<1>14. /\ ClosedOnce' /\ free' \subseteq Worker /\ defunct' \in Seq(Worker \ Static)
  <2>1. \A u \in Worker : k'.stat[u] = "CLOSE" <=> (k.stat[u] = "CLOSE" \/ u = t)
    BY <1>9, <1>13
  <2>2. k.stat[t] # "CLOSE" /\ UNCHANGED <<phase, victim>>
    BY <1>1, <1>2
  <2> QED
    BY <1>1, <2>1, <2>2, DisposeKeeps
<1>15. ListPart'
  BY <1>1, <1>13, <1>14 DEF LifeInv, ListPart
<1>16. SemPart'
  BY <1>1, SemStays
<1> QED
  BY <1>13, <1>15, <1>16 DEF LifeInv

-----------------------------------------------------------------------------
(* The invariant holds.                                                    *)

LEMMA LifeInit == ASSUME ThreadsInit PROVE LifeInv
<1>1. /\ Init /\ phase = "none" /\ victim = Manager /\ parked = {}
      /\ defunct = <<>> /\ free = {}
  BY DEF ThreadsInit
<1>2. k = Started /\ Sound(k) /\ k \in KernelState
  BY <1>1, StartedSound DEF Init, KernelInit, Sound, Linked
<1>3. /\ k.timers = <<>> /\ k.lock = 0
      /\ k.stat[k.cur] = "RUNNING"
      /\ \A t \in Thread : k.stat[t] # "CLOSE"
  BY <1>2, KernelAssumption DEF Started
<1>4. Veiled = k /\ ~Hidden
  BY <1>1 DEF Veiled, Hidden
<1>5. ProcessorPart
  <2>1. pc = [t \in Thread |-> "run"] /\ irq = "on"
    BY <1>1 DEF Init, KernelInit
  <2>2. pc \in [Thread -> Location]
    BY <2>1 DEF Location
  <2> QED
    BY <1>2, <1>3, <1>4, <2>1, <2>2 DEF ProcessorPart
<1>6. SemPart
  BY <1>1 DEF Init, SemPart
<1>7. CallPart
  BY <1>1, <1>4, ThreadsAssumption DEF CallPart
<1>8. ListPart
  <2>1. defunct \in Seq(Worker \ Static) /\ Len(defunct) = 0 /\ Range(defunct) = {}
    BY <1>1 DEF Range
  <2>2. ClosedOnce
    BY <1>1, <1>3, <2>1 DEF ClosedOnce, Distinct, Worker
  <2> QED
    BY <1>1, <2>1, <2>2 DEF ListPart
<1> QED
  BY <1>5, <1>6, <1>7, <1>8 DEF LifeInv

LEMMA StutterLives ==
    ASSUME LifeInv, UNCHANGED threadVars
    PROVE  LifeInv'
<1>1. /\ k' = k /\ pc' = pc /\ irq' = irq /\ UNCHANGED semVars /\ UNCHANGED lifeVars
  BY DEF threadVars, vars, kernelVars
<1>2. Turns /\ (k.stat[k.cur] = "SUSPEND" => pc'[k.cur] = "wait")
  BY <1>1 DEF Turns, LifeInv, ProcessorPart
<1>3. Passes(Veiled, {})
  BY <1>1, <1>2, StillPasses
<1>4. SemPart'
  BY <1>1, SemStays
<1> QED
  BY <1>1, <1>2, <1>3, <1>4, PassesKeeps

LEMMA ProgramStepLives ==
    ASSUME NoTimedWaits, LifeInv, ProgramStep
    PROVE  LifeInv'
<1>1. UNCHANGED lifeVars
  BY DEF ProgramStep
<1>2. value \in 0 .. SemValueMax /\ SemValueMax \in Nat /\ asked \in Seq(Thread)
      /\ life \in {"live", "closing", "gone"}
  BY SemaphoreAssumption DEF LifeInv, SemPart
<1>3. CASE /\ \/ TickIsr
              \/ \E t \in Worker : RtSchedule(t) \/ Yield(t)
              \/ \E u \in Worker \ free : Startup(Manager, u)
           /\ Remember
           /\ UNCHANGED <<value, life>>
  <2>1. SemPart'
    BY <1>3, SemStays
  <2> QED
    BY <1>1, <1>3, <2>1, TickLives, RtScheduleLives, YieldLives, StartupLives
<1>4. CASE IsrRelease
  <2>1. SemPart'
    BY <1>2, <1>4, RememberType DEF IsrRelease, SemPart
  <2> QED
    BY <1>1, <1>4, <2>1, IsrReleaseLives
<1>5. ASSUME NEW t \in Worker, TakeAvailable(t) \/ TakeReturns(t)
      PROVE  LifeInv'
  <2>1. SemPart'
    BY <1>2, <1>5 DEF TakeAvailable, TakeReturns, semVars, SemPart
  <2> QED
    BY <1>1, <1>5, <2>1, PlainLives
<1>6. ASSUME NEW t \in Worker, Release(t)
      PROVE  LifeInv'
  <2>1. SemPart'
    BY <1>2, <1>6, RememberType DEF Release, SemPart
  <2> QED
    BY <1>1, <1>6, <2>1, ReleaseLives
<1>7. ASSUME NEW t \in Worker, TakeBlocks(t)
      PROVE  LifeInv'
  <2>1. asked' = Append(asked, t) /\ t \in Thread /\ UNCHANGED <<value, life>>
    BY <1>7 DEF TakeBlocks, Worker
  <2>2. asked' \in Seq(Thread)
    BY <1>2, <2>1, AppendProperties
  <2>3. SemPart'
    BY <1>2, <2>1, <2>2 DEF SemPart
  <2> QED
    BY <1>1, <1>7, <2>3, TakeBlocksLives
<1>8. ASSUME NEW t \in Worker, Halted(t)
      PROVE  LifeInv'
  BY <1>1, <1>8, StutterLives DEF Halted, threadVars
<1> QED
  BY <1>3, <1>4, <1>5, <1>6, <1>7, <1>8 DEF ProgramStep

LEMMA LifeNextKeeps ==
    ASSUME NoTimedWaits, LifeInv, [ThreadsNext]_threadVars
    PROVE  LifeInv'
<1>1. CASE LifeStep
  <2>1. ASSUME NEW u \in Worker, Create(u) \/ Exit(u)
        PROVE  LifeInv'
    BY <2>1, CreateLives, ExitLives
  <2>2. ASSUME NEW u \in Worker, DeleteBegins(u)
        PROVE  LifeInv'
    BY <2>2, DeleteBeginsLives
  <2>3. ASSUME NEW u \in Worker, SuspendBegins(u) \/ ResumeUnlinks(u)
        PROVE  LifeInv'
    BY <2>3, SuspendBeginsLives, ResumeUnlinksLives
  <2>4. CASE DeleteUnlinks
    BY <2>4, DeleteUnlinksLives
  <2>5. CASE DeleteStopsTimer
    BY <2>5, DeleteStopsTimerLives
  <2>6. CASE DeleteCloses
    BY <2>6, DeleteClosesLives
  <2>7. CASE SuspendTakes
    BY <2>7, SuspendTakesLives
  <2>8. CASE ResumeInserts
    BY <2>8, ResumeInsertsLives
  <2>9. CASE CallHalts
    BY <2>9, CallHaltsLives
  <2>10. CASE IdleFrees
    BY <2>10, IdleFreesLives
  <2> QED
    BY <1>1, <2>1, <2>2, <2>3, <2>4, <2>5, <2>6, <2>7, <2>8, <2>9, <2>10 DEF LifeStep
<1>2. CASE ProgramStep
  BY <1>2, ProgramStepLives
<1>3. CASE UNCHANGED threadVars
  BY <1>3, StutterLives
<1> QED
  BY <1>1, <1>2, <1>3 DEF ThreadsNext

(* What the invariant says of the lists.                                   *)
LEMMA LifeListed ==
    ASSUME LifeInv
    PROVE  /\ k.group = {p \in Prio : k.ready[p] # <<>>}
           /\ \A t \in Thread, p \in Prio :
                 t \in Range(k.ready[p]) <=>
                    k.stat[t] = "READY" /\ k.prio[t] = p /\ ~(Hidden /\ victim = t)
           /\ \A o \in Object, t \in Thread :
                 t \in Range(k.wait[o]) => k.stat[t] = "SUSPEND"
           /\ k.timers = <<>>
<1>1. /\ Veiled.ready = k.ready /\ Veiled.group = k.group /\ Veiled.prio = k.prio
      /\ Veiled.wait = k.wait /\ victim \in Thread
      /\ \A t \in Thread : ~(Hidden /\ t = victim) => Veiled.stat[t] = k.stat[t]
      /\ Hidden => Veiled.stat[victim] = "INIT"
  BY VeiledIs
<1>2. /\ Sound(Veiled) /\ k.timers = <<>>
  BY DEF LifeInv, ProcessorPart
<1>3. PICK b : b = Veiled
  OBVIOUS
<1>4. /\ b.group = {p \in Prio : b.ready[p] # <<>>}
      /\ \A t \in Thread, p \in Prio :
            t \in Range(b.ready[p]) <=> b.stat[t] = "READY" /\ b.prio[t] = p
      /\ \A o \in Object, t \in Thread : t \in Range(b.wait[o]) => b.stat[t] = "SUSPEND"
  BY <1>2, <1>3 DEF Sound, Linked, ReadyAgrees, WaitersSuspended
<1>5. ASSUME NEW t \in Thread, NEW p \in Prio
      PROVE  t \in Range(k.ready[p]) <=>
                k.stat[t] = "READY" /\ k.prio[t] = p /\ ~(Hidden /\ victim = t)
  BY <1>1, <1>3, <1>4
<1>6. ASSUME NEW o \in Object, NEW t \in Thread, t \in Range(k.wait[o])
      PROVE  k.stat[t] = "SUSPEND"
  BY <1>1, <1>3, <1>4, <1>6
<1> QED
  BY <1>1, <1>2, <1>3, <1>4, <1>5, <1>6

LEMMA LifeTypes == ASSUME LifeInv PROVE ThreadsTypeOK
<1>1. TypeOK
  BY DEF LifeInv, ProcessorPart, SemPart, TypeOK, KernelTypeOK
<1> QED
  BY <1>1 DEF LifeInv, CallPart, ListPart, ThreadsTypeOK

LEMMA LifeUnlinked == ASSUME LifeInv PROVE ClosedUnlinked
<1> SUFFICES ASSUME NEW t \in Thread, k.stat[t] = "CLOSE"
             PROVE  k.cur # t /\ ~Listed(t)
  BY DEF ClosedUnlinked
<1>1. k.cur # t
  <2>1. /\ Veiled.cur = k.cur /\ Veiled.stat[Veiled.cur] \in {"RUNNING", "SUSPEND"}
        /\ ~(Hidden /\ t = victim) => Veiled.stat[t] = k.stat[t]
        /\ Hidden => Veiled.stat[victim] = "INIT"
    BY VeiledIs DEF LifeInv, ProcessorPart, Sound, OneRuns
  <2> QED
    BY <2>1
<1>2. t \notin Range(k.timers)
  BY LifeListed DEF Range
<1>3. \A p \in Prio : t \notin Range(k.ready[p])
  BY LifeListed
<1>4. t \notin Range(k.wait[Sem])
  <2>1. Sem \in Object
    BY SemaphoreAssumption
  <2> QED
    BY <2>1, LifeListed
<1> QED
  BY <1>1, <1>2, <1>3, <1>4 DEF Listed

LEMMA LifePlaces == ASSUME LifeInv PROVE PlacesAgree
<1>1. ASSUME NEW t \in parked
      PROVE  k.stat[t] = "SUSPEND" /\ ~Listed(t)
  <2>1. PutAway(k, t) /\ t \in Thread
    BY <1>1 DEF LifeInv, ListPart, Worker
  <2>2. Sem \in Object
    BY SemaphoreAssumption
  <2>3. t \notin Range(k.timers)
    BY LifeListed DEF Range
  <2>4. \A p \in Prio : t \notin Range(k.ready[p])
    BY <2>1, LifeListed DEF PutAway
  <2> QED
    BY <2>1, <2>2, <2>3, <2>4 DEF PutAway, Listed
<1> QED
  BY <1>1, LifeListed DEF PlacesAgree, Hidden

-----------------------------------------------------------------------------
(* The inductive invariant of the life of a thread (thread.c, idle.c):     *)
(* between any two parts of rt_thread_delete, rt_thread_suspend and        *)
(* rt_thread_resume the kernel state is the sound one of the scheduler but *)
(* for the state of the thread that is being deleted, for every set of     *)
(* threads, priorities, time slices and both kinds of suspend list.        *)
THEOREM LifeStays == ASSUME NoTimedWaits PROVE ThreadsSpec => []LifeInv
<1>1. ThreadsInit => LifeInv
  BY LifeInit
<1>2. LifeInv /\ [ThreadsNext]_threadVars => LifeInv'
  BY LifeNextKeeps
<1> QED
  BY <1>1, <1>2, PTL DEF ThreadsSpec

(* The kernel state, the semaphore, the calls in progress and the defunct  *)
(* list stay of their types, whoever is deleted, suspended or resumed.     *)
THEOREM ThreadsTypeCorrect == ASSUME NoTimedWaits PROVE ThreadsSpec => []ThreadsTypeOK
<1>1. LifeInv => ThreadsTypeOK
  BY LifeTypes
<1> QED
  BY <1>1, LifeStays, PTL

(* rt_thread_exit, rt_thread_delete, rt_thread_detach: no list and no      *)
(* timer leads to a closed thread and it does not run, wherever the other  *)
(* threads and the handlers have come in between the parts of its end.     *)
THEOREM ClosedStayUnlinked == ASSUME NoTimedWaits PROVE ThreadsSpec => []ClosedUnlinked
<1>1. LifeInv => ClosedUnlinked
  BY LifeUnlinked
<1> QED
  BY <1>1, LifeStays, PTL

(* rt_thread_exit, rt_thread_delete, rt_thread_idle_excute: a closed       *)
(* thread is in the defunct list once or has been freed, never both, also  *)
(* when it returns while it is being deleted.                              *)
THEOREM FreedOnce == ASSUME NoTimedWaits PROVE ThreadsSpec => []ClosedOnce
<1>1. LifeInv => ClosedOnce
  BY DEF LifeInv, ListPart
<1> QED
  BY <1>1, LifeStays, PTL

(* rt_schedule_remove_thread, rt_thread_suspend, rt_thread_resume: the     *)
(* ready table and its bitmap agree with the states of the threads between *)
(* the parts of the calls, and no wakeup reaches a suspended thread.       *)
THEOREM PlacesStayAgreed == ASSUME NoTimedWaits PROVE ThreadsSpec => []PlacesAgree
<1>1. LifeInv => PlacesAgree
  BY LifePlaces
<1> QED
  BY <1>1, LifeStays, PTL
=============================================================================
