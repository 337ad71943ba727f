# A verification of the RT-Thread kernel of rtsmart-rk3326

The repository is the RT-Thread 4.0.3 kernel (`src/rt-thread`) with a board
support package for the RK3326 of the Odroid-Go-Advance 2 (`src/driver`,
`src/applications`). This directory holds TLA+ modules that model the core of
that kernel, the TLC configurations that check them on small systems, and TLAPS
proofs of the main invariants for systems of any size.

Configuration modelled (`src/rtconfig.h`): one core (no `RT_USING_SMP`), no
signals, no module support, 32 priorities, 1000 ticks per second, assertions
compiled in (`RT_DEBUG`), timer skip list of level 1.

## 1. The system

### Components, their state and their operations

| Component | State | Operations | Works with |
|---|---|---|---|
| Scheduler (`scheduler.c`) | ready table, priority bitmap, current thread, lock nesting | `rt_schedule`, insert, remove, enter/exit critical | called at the end of every operation that wakes or suspends |
| Threads (`thread.c`) | `stat`, priorities, time slice, error, list node, timer | startup, yield, sleep, suspend, resume, timeout, control, detach, delete | scheduler, timers, suspend lists |
| Timers (`timer.c`) | sorted list, timeout tick, flags | start, stop, control, check; a timer thread for soft timers | called from the tick; calls `rt_thread_timeout` |
| Clock (`clock.c`, `driver/board.c`) | `rt_tick` | `rt_tick_increase` from the timer interrupt | time slices, timers |
| Interrupt entry (`irq.c`, `context_gcc.S`) | nesting, pending switch | enter, leave, switch at the end of a handler | scheduler |
| IPC (`ipc.c`) | suspend list and a value, owner, set or queue per object | init, detach, take/recv, release/send, control | scheduler, thread timers |
| Idle thread (`idle.c`) | defunct list | frees deleted threads | scheduler |
| Memory (`mempool.c`, `memheap.c`) | free lists, waiters | alloc, free | suspend lists, semaphores |
| Device IPC (`components/drivers/src`) | completions, wait queues, data queues, work queues, ring buffers | wait/done, push/pop, submit/cancel | handlers and threads |
| Objects, devices, start-up, drivers | registries, registers | find, open, close | the above |

Everything else (`components/dfs`, `finsh`, `libc`, `lwp`, `net`, ...) is
vendored or a client of these parts. `PROJECT.json` lists each component with
its status.

Threads share all kernel state. They exclude each other by disabling interrupts
(`rt_hw_interrupt_disable`), by locking the scheduler (`rt_enter_critical`), or
not at all. The tick interrupt and device interrupts call the same operations
(`rt_sem_release`, `rt_thread_timeout` through the timers).

### What is hard

Several lists, a bitmap, a state field and a timer record one fact, "what is
this thread doing", and are updated by different files. Every blocking call has
a window between suspending itself and calling `rt_schedule`, in which handlers
see a thread that is current and suspended. A wakeup, a timeout, a reset and a
detach race for the same waiter. Ticks wrap. Priorities change while threads
are linked in priority-ordered lists. The list of hazards in `PROJECT.json`
places each at its line.

What makes each part correct:

- scheduler: all records of a thread's place agree; the highest ready priority
  runs; a locked scheduler delays a switch and never loses it;
- timers: no timeout early, none overdue, also across the wrap of the tick;
- suspend lists: whoever is suspended can be woken; waiters are served in order;
- semaphore: tokens are neither lost nor invented; no waiter beside a token;
- mutex: one owner, who knows it; inheritance without inversion; the loan ends;
- events, mailboxes, queues, pools, work queues: no lost wakeup, no message lost
  or reported twice, the time left recomputed properly.

## 2. The modules

| Module | Models | Extends |
|---|---|---|
| `Kernel` | the shared kernel record and the operations that run with interrupts disabled | standard modules |
| `Processor` | which code takes the next step: threads, tick interrupt, critical sections, sleep, yield | `Kernel` |
| `Semaphore` | `rt_sem_*` with threads and a releasing handler | `Processor` |
| `Threads` | the life of a thread: create, exit, detach, delete, suspend and resume of another thread, the idle thread that frees | `Semaphore` |
| `Mutex` | `rt_mutex_take`, `rt_mutex_release` | `Processor` |
| `Event` | `rt_event_*` with threads and a sending handler | `Processor` |
| `Mailbox` | `rt_mb_*` with threads and a sending and receiving handler | `Processor` |
| `MessageQueue` | `rt_mq_*` with the linked blocks and the copies between masked regions | `Processor` |
| `SoftTimer` | the timer thread, `rt_timer_*` of soft timers by threads and callbacks | `Processor` |
| `WorkQueue` | the work thread, `rt_workqueue_*`, delayed works | `SoftTimer` |
| `AbstractSemaphore`, `AbstractMutex`, `AbstractEvent`, `AbstractMailbox`, `AbstractMessageQueue`, `AbstractTimer` | what the component of that name promises | standard modules |
| `ProcessorProofs` | lemmas on lists and timers, on what each operator of `Kernel` keeps, and on the actions of `Processor`: invariant, preemption, timers, calls with two lists | `Processor` |
| `SemaphoreProofs`, `MutexProofs`, `EventProofs`, `MailboxProofs`, `MessageQueueProofs`, `SoftTimerProofs` | the theorems on the component of that name; in `SemaphoreProofs` also those on the life of threads | its module (`Threads` for `SemaphoreProofs`), `ProcessorProofs` |
| `WorkQueueProofs` | the theorems on work queues | `WorkQueue`, `SoftTimerProofs` |
| `MC...` | constants for TLC | the module they name |

### State and code

`Kernel` holds the kernel state as one record `k`: `ready[p]` is
`rt_thread_priority_table[p]`, `group` the bits of
`rt_thread_ready_priority_group`, `wait[o]` the `suspend_thread` list of object
`o`, `timers` the `rt_timer_list`, and `stat`, `yield` (the `STAT_YIELD` bit),
`prio`, `mask` (`number_mask`), `remaining`, `error`, `due` (`timeout_tick`) the
thread's fields. An operation of the code that runs with interrupts disabled is
an operator from `k` to the new `k`, composed of the operators for the calls it
makes in the order it makes them: `Schedule`, `InsertThread`, `RemoveThread`,
`TimerStart`, `TimerStop`, `ThreadSuspend`, `ThreadResume`, `ThreadTimeout`,
`IpcListSuspend`, `IpcListResume`, `ChangePriority`, `TickIncrease`.

`Processor` adds `pc[t]`, the point of thread `t` where interrupts are enabled,
and `irq`. A blocking call is three steps: suspend under masked interrupts
(`pc = "wait"`), call `rt_schedule` (`RtSchedule`, `pc = "woken"`), read the
error and return. The tick interrupt may fall between any two. A handler runs to
its end before a thread continues, with one step per expired timer
(`TimerCheck`), and a switch decided in it takes effect at its end; a second
interrupt in between would not nest on this port.

`Semaphore` has an action per call and per turn of each loop. `rt_sem_control`
(reset) loops with interrupts disabled, `rt_sem_detach` and `rt_sem_delete` loop
with interrupts enabled between the test of the list (`DetachTest`) and each
turn (`DetachWake`), so that handlers and threads run in between. `IsrRelease`
is `rt_sem_release` from a device interrupt. `asked` is a history variable: the
waiters in the order they blocked.

`Mutex` has an action per path through take and release. `target` is the mutex
of the blocked call, `depth` a history variable that counts, per thread, the
takes that returned `RT_EOK`: `OwnerAgrees` compares what the mutex records
with what the programs have been told.

`Mailbox` keeps the ring as the code does (`pool`, `in`, `out`, `entry`) and, in
`call[t]`, the locals of a blocked call: the mail, the time left and the tick at
which it blocked. A woken caller tests the mailbox again (`SendResumes`,
`SendWaitsOn`, `RecvResumes`, `RecvWaitsOn`) and may suspend itself for the time
left, which `Left` computes with the code's mixed signed arithmetic. `deadline`
is a history field. A slot that holds no mail is `"none"`: the code keeps its old
value and reads it no more.

`MessageQueue` keeps the blocks by index with their `next` links, the free list,
head and tail (`mq`). A send or a receive that got its block is in the middle of
the copy, the block in no list, until its second masked region (`SendLink`,
`RecvLink`, `UrgentLink`); everything else may happen in between. Timeouts are as
in the mailbox.

`Event` serves the whole suspend list in one step, as `rt_event_send` does with
interrupts disabled: `Serve` is a recursive function over the turns of the loop, each
turn (`Visit`) seeing the set its predecessors left. `info[t]` is the thread's `event_set` and `event_info`.

`SoftTimer` follows `rt_thread_timer_entry` from one enabled point to the next
(`loop`), the callbacks running on the timer thread with interrupts enabled and
calling `rt_timer_start`, `rt_timer_stop` and `rt_timer_detach` themselves. `op[t]`
is where a thread is in one of these calls; the end of `rt_timer_start`, which
resumes the timer thread, is three steps (`StartTest`, `ResumeUnlink`,
`ResumeInsert`), because `rt_thread_resume` reads the state of the thread, unlinks
it and inserts it with interrupts enabled in between.

`WorkQueue` adds the queue's lists, the work in hand, the state of each work and
the place of each thread in `workqueue.c` (`stage`). A delayed work's timer is a
timer of `SoftTimer`, its callback `_delayed_work_timeout_handler`. Assertions that
fail (`HandlerHalts`, `SubmitHalts`) stop the thread for ever. A submission whose
delay is half the tick range is refused after the work has left its list
(`SubmitRefused`).

`Threads` adds to the programs of `Semaphore` one manager that creates, starts,
suspends, resumes, detaches and deletes the others, which also return. `phase` is
the point between two masked regions at which its call stands; `defunct` is
`rt_thread_defunct`, `free` the threads that do not exist. `CallHalts` is the failed
assertion on the timer of a thread that has returned meanwhile: the manager loops for
ever, with interrupts disabled in `rt_thread_suspend` and enabled in
`rt_thread_delete`, where handlers and the other threads go on.

The abstract modules know only phases of a client (`out`, `want`, `granted`,
`refused` and the like) and tokens, flags, a queue or ticks to go. Each
`Implements...` maps list membership, `pc`, `thread->error` and the locals of a
call to the phase. A waiter of a semaphore is granted a token in the same step
that takes it from the releaser, and only a waiter can be refused: a timeout that
fires after the grant, or a grant after the timeout, is no step of the abstract
module. In `AbstractMessageQueue` a place is reserved when a block leaves its list
and filled, or given back, when the copy is over; `AbstractEvent` says which
requests a post must grant and that a flag is consumed once; in `AbstractTimer` a
timer is called when the ticks of its last start are over, once, and never after a
stop.

Operators named `...Mutant` are plausible mistakes in the operator they precede
(a bit not cleared, a comparison reversed, a timer left running). No
specification uses them; `PROJECT.json` pairs each with the property that fails
when it is put in place, which shows that the property can fail.

### Simplifications

- Disabled interrupts make one step of a region; nothing else can observe it.
- `due` is set to 0 for a stopped timer, whose `timeout_tick` is never read.
- Ticks count modulo `TickMod` (2^32 in the code), time slices are positive.
- Handlers other than the tick do not nest into it.
- `rt_thread_startup` is one step: between its assignments and the masked region in
  `rt_thread_resume` the new thread is in no list, and nobody else refers to it.
- `StartTest` reads `soft_timer_status` and the state of the timer thread
  (`timer.c:417-418`, `thread.c:826`) at once. Callbacks do not block here, so a
  timer thread that is suspended is also idle, and the outcome is that of the last
  read; what follows it (`thread.c:834-846`) is in two steps of its own.
- A thread whose timer has been detached in the middle of its deletion does not exit
  or block (`HasTimer`): it would fail the assertion that `CallHalts` models for the
  manager. In `threads` no such thread runs any more; it takes a timed wait, as in
  finding 4.
- Hooks, names, object registration, stacks and the stack-overflow test are
  left out: they change none of this state.

Rules the programs follow, as the kernel's documentation and assertions ask:

- no blocking call between `rt_enter_critical` and `rt_exit_critical`
  (`MayBlock`), and `rt_exit_critical` only after `rt_enter_critical`;
- no take, release, send or reset by a thread of a semaphore or an event whose
  detach has begun (`life`); no use at all of a mailbox or a message queue from
  its detach on, which begins only when no woken call on it is unfinished;
- `RT_MB_ENTRY_MAX` and `RT_MQ_ENTRY_MAX` are not reached: the counts stay below
  16-bit sizes;
- a work does not cancel itself with `rt_workqueue_cancel_work_sync`;
- one manager deletes and suspends threads, resumes only those it has suspended
  itself, and does not use a thread it has deleted.

## 3. The runs

| Run | System | Checks |
|---|---|---|
| `semaphore` | 3 threads of 2 priorities that lock the scheduler, and a handler; priority-ordered list, waits of -1, 0 and 2 ticks | `TypeOK`, `HighestRuns`, `NoTokenWhileWaiting`, `ImplementsSemaphore`, `ServedInOrder` |
| `semaphore_detach` | 2 threads and a handler, FIFO list, no lock | violates `ResumesThreads` (finding 1) |
| `mutex` | 3 threads of 3 priorities, recursive takes, FIFO list, waits of -1, 0 and 2 ticks, sleeps | `TypeOK`, `SchedulerConsistent`, `NoneStranded`, `TimersAhead`, `OwnerAgrees`, `OwnerInherits`, `PriorityRestored`, `NoInversion`, `ImplementsMutex`, `NoEarlyTimeout`, `TopTakeReturns` |
| `mutex_nested` | 2 mutexes, 2 threads | violates `PriorityRestored` (finding 2) |
| `event` | 2 threads and a handler, 2 bits, every request, waits of 0 and 2 ticks | `TypeOK`, `NoEventMissed`, `ImplementsEvent` |
| `mailbox` | 2 threads and a handler, 2 slots, 2 mails, FIFO lists, waits of -1 and 2 ticks | `TypeOK`, `NoMailMissed`, `NoSlotMissed`, `DeadlineKept`, `ImplementsMailbox` |
| `message_queue` | 2 threads and a handler, 2 blocks, 2 messages, FIFO lists, waits of -1 and 1 ticks | `TypeOK`, `BlocksAccounted`, `NoMessageMissed`, `NoBlockMissed`, `ImplementsMessageQueue` |
| `soft_timer` | 1 thread below the timer thread, a one-shot timer and a periodic one that start, stop and detach each other | `TypeOK`, `ImplementsTimer`, `DueTimersFire` |
| `soft_timer_clients` | 2 threads below the timer thread, one timer | violates `TimeoutOfSuspended` (finding 3) |
| `work_queue` | a client above the timer thread and the work thread, 2 works, one of them also delayed | `QueueTypeOK`, `NoWorkMissed`, `NoSyncForgotten`, `NoDelayForgotten` |
| `threads` | a manager, a dynamic thread of its priority and a static one above it on a semaphore, waits without limit | `ThreadsTypeOK`, `ClosedUnlinked`, `ClosedOnce`, `PlacesAgree` |
| `threads_timed` | a manager and a dynamic thread, waits of 2 ticks | violates `ClosedUnlinked` (finding 4) |

What they show:

- `SchedulerConsistent`: ready table, bitmap, states, priorities and suspend
  lists agree at every point where interrupts are enabled and inside handlers,
  whatever wakes, times out or changes the priority of a thread.
- `NoneStranded`: a suspended thread is in a suspend list or has an armed timer.
- `HighestRuns`: in its own code the current thread has the highest ready
  priority unless the scheduler is locked. Exempt are the waiters that
  `rt_sem_detach` has woken: the code calls no `rt_schedule` there, and they
  run at the next scheduling point.
- `TimersAhead`, `NoEarlyTimeout`: the timer list stays sorted by ticks left and
  no timeout comes early, across the wrap of the tick.
- `NoTokenWhileWaiting`, `ServedInOrder`, `ImplementsSemaphore`: no lost wakeup,
  service in the order of blocking (within the highest priority under
  `RT_IPC_FLAG_PRIO`), each token granted once.
- `OwnerAgrees`, `ImplementsMutex`: exclusion and hand-over, also to a waiter
  whose timeout is due.
- `OwnerInherits`, `NoInversion`, `PriorityRestored`: the owner runs at the
  priority of its best waiter, no thread of a priority in between runs
  meanwhile, and the loan is over when the thread owns no mutex.
- `NoMailMissed`, `NoSlotMissed`: while a receiver waits, every mail in the box
  has a woken receiver on its way to it, even when others take the mails in
  between; likewise free slots and senders. `DeadlineKept`: waiting again does not
  move the deadline. `ImplementsMailbox`: the ring is a bounded queue, and a call
  that fails has moved nothing.
- `BlocksAccounted`, `NoMessageMissed`, `NoBlockMissed`,
  `ImplementsMessageQueue`: each block is in one list or in the hands of one call,
  whoever moves others during a copy; the rest as for the mailbox.
- `NoEventMissed`, `ImplementsEvent`: no thread waits for bits that are set, a bit
  that is cleared is received by one of those that clear it, and an OR waiter
  receives the bits that were set when it was served.
- `ImplementsTimer`, `DueTimersFire`: see `AbstractTimer`; every due timer is
  called, stopped or started again in the end.
- `NoWorkMissed`, `NoSyncForgotten`, `NoDelayForgotten`: no work sleeps in the list
  beside a sleeping work thread, no canceller waits for a work that is over, no
  delayed work has lost its timer.
- `ClosedUnlinked`, `ClosedOnce`, `PlacesAgree`: a closed thread is in no list
  but the defunct one, it is freed once, and the ready table is true to the
  threads' states while the manager is between two parts of a call.
- `TopTakeReturns`: liveness, see below.

Bounds, and why they are enough. `TickMod = 8` makes `HalfTick` 3, larger than
the longest wait (2), as the code requires of its timeouts, and ticks wrap in
every behaviour. `soft_timer` has `TickMod = 10`, so that a timer may also be late
without its lateness reaching half the range: `MaxLate = 1` stops the tick when a due
timer has waited one tick for its thread. `work_queue` (delays of 1) and
`threads` (nothing is timed there) do with `TickMod = 5`. `SemValueMax = 1` and
`HoldMax = 2` reach both ends of the counters within two calls. Time slices of one
tick let every tick preempt. Three worker threads are the least that give two
waiters of equal priority beside a releaser, and an owner, a waiter and a thread
between them. Two slots or blocks let both offsets wrap and two waiters be served
in turn; the handler takes mails, messages and slots from under woken threads, so
two threads are enough, and the values of mails and messages matter to no step, so
symmetry in them is sound; so is symmetry in the bits of an event, as the
requests are closed under it. `MaxDelay` (3 and 2) bounds the ticks from a
blocking to the next step of a mailbox or message queue call (half the tick range
in the code, 24 days). `MaxNest = 1` distinguishes a locked from an unlocked
scheduler; deeper nesting only counts. The first-come list of `mutex` is the harder
order for inheritance: the new owner may have to be raised at the hand-over. In
`soft_timer` the client and each callback may make any of the three calls on either
timer, so a timer is stopped, restarted or detached during its own callback, by
itself and by the other. In `work_queue` all threads have distinct priorities and a
slice of one tick, so that the yield mark of a thread is never read with effect, and
the view that leaves it out identifies only states with the same future. In
`threads` the static thread is above the manager and the dynamic one at its
priority, so that victims block, are woken, and return in every gap of a call.
Runs with `CHECK_DEADLOCK` at its default: the tick interrupt can always come.

Fairness. `mutex` uses `FairSpec` of `Mutex`, `KernelFairness` with one more
assumption. `KernelFairness`: the tick interrupt comes again and again, because
the hardware keeps it pending while interrupts are disabled (`driver/board.c`),
and interrupts are enabled again, because masked regions are finite. No thread
keeps the scheduler locked for ever. A thread that executes inside a kernel call
again and again gets through that call, a slice being many instructions long.
For the mutex besides: a thread that has the processor, or sleeps, does not keep
a mutex for ever (`KeptWaiting` exempts one that is kept from the processor or
waits itself). Nothing else is assumed of a thread in its own code: it may compute
for ever. The call of the thread of the highest priority returns although others
never give way (`TopTakeReturns`); a thread of a lower priority may starve, by
design of the scheduler. That the timed wait of any thread ends needs no run of its own:
`TimersAhead` says that no timer is overdue once the handler has run.

`soft_timer` uses `FairSpec` of `SoftTimer`: weak fairness of the clock, strong
fairness of the timer thread's steps (its loop and a callback, which must end) and
of the end of a timer call or of a switch: a thread gets on with these whenever it
has the processor again and again.

### Findings

1. `semaphore_detach`. `rt_ipc_list_resume_all` tests the suspend list
   (`ipc.c:171`) before it disables interrupts (`ipc.c:174`). When it is called
   by `rt_sem_detach` or `rt_sem_delete` with interrupts enabled and the last
   waiter times out, or is released by a handler, between the two, the loop
   takes the list head for a thread: it writes to the `error` field of that
   "thread" and calls `rt_thread_resume`, whose assertion (`thread.c:822`) fails.
2. `mutex_nested`. `original_priority` is the current priority at the time of the
   take (`ipc.c:752`), which may be a borrowed one. A thread that takes `m`, is
   boosted by a waiter of `m`, takes `n` and then releases `m` before `n` ends with
   the borrowed priority and no mutex, against the comments at `ipc.c:897`
   ("change the owner thread to original priority"). With one mutex, or with
   releases in reverse order of the takes, the property holds (run `mutex`).

3. `soft_timer_clients`. `rt_timer_start` calls `rt_thread_resume` for the timer
   thread with interrupts enabled (`timer.c:421`), which reads the state
   (`thread.c:826`), unlinks in a masked region and inserts after it
   (`thread.c:843-846`). A thread preempted in there by another that starts a timer
   too makes the timer thread ready once more when it has already run and sleeps
   with its thread timer armed. The next tick finds a timer of a thread that is not
   suspended, and `RT_ASSERT` in `rt_thread_timeout` (`thread.c:867`) fails.
4. `threads_timed`. `rt_thread_delete` removes the victim from its list
   (`thread.c:464`), enables interrupts and detaches its thread timer afterwards
   (`thread.c:470`). If the victim waits with a time limit, the tick in between makes
   it ready again; it is then marked closed while the ready list links it, and its
   node is linked into `rt_thread_defunct` as well (`thread.c:479`), which ties the
   two lists together. Victims that wait without limit, are ready, or have not been
   started are closed properly (run `threads`). `rt_thread_detach` has the same order.

Facts the models rest on that are no run of their own, as no comment, assertion or
test of the repository says otherwise:

- The timer thread that finds no timer suspends itself with interrupts enabled
  (`timer.c:692-697`). A timer started in between by a thread above it sees a thread
  that is not suspended yet and wakes nobody; that timer is called only after the
  next start of one. `soft_timer` has only clients below the timer thread,
  where this cannot happen; the client of `work_queue` is above it.
- `RT_TICK_MAX` as a timeout is taken for "no timer" (`timer.c:692`), once in 2^32
  ticks: `DueTimersFire` excludes it.
- A work submitted with a delay and then at once has `work->workqueue` cleared while
  its timer runs, and `_delayed_work_timeout_handler` asserts it (`workqueue.c:183`);
  so does a cancel between the expiry and the handler. A cancel before `rt_timer_start`
  in a submission fails the assertion on the timer's type. (`HandlerHalts`,
  `SubmitHalts`.)
- `rt_workqueue_cancel_work_sync` below the work thread may test `work_current`, be
  overtaken by the end of the work, and wait for an acknowledgement that has been
  skipped (`workqueue.c:305-308`). The canceller of `work_queue` is above it.
- A thread that returns between the test of its state in `rt_thread_delete` or
  `rt_thread_suspend` and the masked region makes `rt_timer_detach` or
  `rt_timer_stop` assert (`CallHalts`). One that blocks there is suspended out of
  its wait list, and its take returns `RT_EOK` without a token once it is resumed.

## 4. The proofs

The theorems hold for all constants that satisfy the named assumptions
(`KernelAssumption`, `ProcessorAssumption`, and `SemaphoreAssumption`,
`MutexAssumption`, `EventAssumption`, `MailboxAssumption`, `MessageQueueAssumption`,
`SoftTimerAssumption` or `WorkQueueAssumption`, and `ThreadsAssumption` for the life of
threads): any finite set of threads with an idle and a main
thread, any priorities and time slices, either order of the suspend lists, any number
of mutexes, bits, slots, blocks, mails, messages and timers, and any tick width above 4. Sleeps
and the waits for a mutex are shorter than half the tick range, which `rt_timer_start`
asserts (`timer.c:341`).

| Theorem | Module | States |
|---|---|---|
| `InductiveInvariant` | `SemaphoreProofs` | `Spec => []SemInv` |
| `TypeCorrect` | `SemaphoreProofs` | `Spec => []TypeOK` |
| `SchedulerStaysConsistent` | `SemaphoreProofs` | `Spec => []SchedulerConsistent` |
| `NoLostWakeup` | `SemaphoreProofs` | `Spec => []NoTokenWhileWaiting` |
| `NobodyStranded` | `SemaphoreProofs` | `Spec => []NoneStranded` |
| `SemaphoreRefines` | `SemaphoreProofs` | `Spec => ImplementsSemaphore` |
| `HighestThreadRuns` | `SemaphoreProofs` | `Spec => []HighestRuns` |
| `ServiceInOrder` | `SemaphoreProofs` | `Spec => ServedInOrder` |
| `LifeStays` | `SemaphoreProofs` | `ThreadsSpec => []LifeInv`, if `NoTimedWaits` |
| `ThreadsTypeCorrect` | `SemaphoreProofs` | `ThreadsSpec => []ThreadsTypeOK`, if `NoTimedWaits` |
| `ClosedStayUnlinked` | `SemaphoreProofs` | `ThreadsSpec => []ClosedUnlinked`, if `NoTimedWaits` |
| `FreedOnce` | `SemaphoreProofs` | `ThreadsSpec => []ClosedOnce`, if `NoTimedWaits` |
| `PlacesStayAgreed` | `SemaphoreProofs` | `ThreadsSpec => []PlacesAgree`, if `NoTimedWaits` |
| `InductiveInvariant` | `MutexProofs` | `Spec => []MutexInv` |
| `TypeCorrect` | `MutexProofs` | `Spec => []TypeOK` |
| `SchedulerStaysConsistent` | `MutexProofs` | `Spec => []SchedulerConsistent` |
| `NobodyStranded` | `MutexProofs` | `Spec => []NoneStranded` |
| `OwnershipAgrees` | `MutexProofs` | `Spec => []OwnerAgrees` |
| `MutexRefines` | `MutexProofs` | `Spec => ImplementsMutex`, if there is a mutex |
| `TimersStayAhead` | `MutexProofs` | `Spec => []TimersAhead` |
| `TimeoutsComeInTime` | `MutexProofs` | `Spec => NoEarlyTimeout` |
| `OwnerInheritsUnnested` | `MutexProofs` | `Spec /\ []Unnested => []OwnerInherits` |
| `PriorityRestoredUnnested` | `MutexProofs` | `Spec /\ []Unnested => []PriorityRestored` |
| `OwnerInheritsAlone` | `MutexProofs` | `Spec => []OwnerInherits` for one mutex |
| `PriorityRestoredAlone` | `MutexProofs` | `Spec => []PriorityRestored` for one mutex |
| `NoInversionAlone` | `MutexProofs` | `Spec => []NoInversion` for one mutex |
| `InductiveInvariant` | `EventProofs` | `Spec => []EventInv` |
| `TypeCorrect` | `EventProofs` | `Spec => []TypeOK` |
| `NoEventLost` | `EventProofs` | `Spec => []NoEventMissed` |
| `EventRefines` | `EventProofs` | `Spec => ImplementsEvent` |
| `InductiveInvariant` | `MailboxProofs` | `Spec => []MbInv` |
| `TypeCorrect` | `MailboxProofs` | `Spec => []TypeOK` |
| `SchedulerStaysConsistent` | `MailboxProofs` | `Spec => []SchedulerConsistent` |
| `NobodyStranded` | `MailboxProofs` | `Spec => []NoneStranded` |
| `NoMailLeftLying` | `MailboxProofs` | `Spec => []NoMailMissed` |
| `NoSlotLeftFree` | `MailboxProofs` | `Spec => []NoSlotMissed` |
| `LimitsKept` | `MailboxProofs` | `Spec => []DeadlineKept` |
| `MailboxRefines` | `MailboxProofs` | `Spec => ImplementsMailbox` |
| `InductiveInvariant` | `MessageQueueProofs` | `Spec => []MqInv` |
| `TypeCorrect` | `MessageQueueProofs` | `Spec => []TypeOK` |
| `SchedulerStaysConsistent` | `MessageQueueProofs` | `Spec => []SchedulerConsistent` |
| `NobodyStranded` | `MessageQueueProofs` | `Spec => []NoneStranded` |
| `BlocksKept` | `MessageQueueProofs` | `Spec => []BlocksAccounted` |
| `NoMessageLeftLying` | `MessageQueueProofs` | `Spec => []NoMessageMissed` |
| `NoBlockLeftFree` | `MessageQueueProofs` | `Spec => []NoBlockMissed` |
| `MessageQueueRefines` | `MessageQueueProofs` | `Spec => ImplementsMessageQueue` |
| `TimersImplement` | `SoftTimerProofs` | `Spec => ImplementsTimer` |
| `TimerTypeCorrect` | `SoftTimerProofs` | `Spec /\ []Undisturbed => []TypeOK` |
| `TimeoutsSound` | `SoftTimerProofs` | `Spec /\ []Undisturbed => []TimeoutOfSuspended` |
| `OneClientSafe` | `SoftTimerProofs` | `Spec => [](TypeOK /\ TimeoutOfSuspended)` for one client |
| `NoDelayLost` | `WorkQueueProofs` | `QueueSpec => []NoDelayForgotten` |
| `QueueTypeCorrect` | `WorkQueueProofs` | `QueueSpec /\ []Undisturbed => []QueueTypeOK` |
| `NoWorkLost` | `WorkQueueProofs` | `QueueSpec /\ []Undisturbed => []NoWorkMissed` |
| `PlainQueueWorks` | `WorkQueueProofs` | `QueueSpec => [](QueueTypeOK /\ NoWorkMissed)` without delayed works |
| `NoSyncLost` | `WorkQueueProofs` | `QueueSpec /\ []Undisturbed => []NoSyncForgotten`, if `UsersFirst` |

### The kernel's invariant

`ProcessorProofs` begins with what `Without`, `InsertAt` and the like do to the members
and the order of a list. It then shows, for each operator of `Kernel`,
that it keeps `Sound`: the records of a thread's place agree (`Linked`), one thread
runs (`OneRuns`), no timer is linked twice and an armed one belongs to a suspended
thread (`Timed`), the idle thread is never suspended and a locked scheduler has a
running current thread (`Alive`). The operators fall into two kinds, and a lemma
for each operator says which: those that suspend nobody and leave a thread that
stays suspended linked as it was (`Wakes`), and those that suspend the caller and
link it or arm its timer (`Suspends`). Its second half lifts this to the actions;
`KernelInv` adds that a suspended thread is inside a blocking call (`PcAgrees`) and
`NoneStranded`. None of the runs' invariants is inductive alone:
`SchedulerConsistent` needs the timer list (a timeout links a thread that must not
be linked already) and the idle thread (the ready table is never empty when the
current thread suspends itself), and `NoneStranded` needs both. `SemaphoreProofs`
adds the semaphore's part (`SemInv`): a waiter excludes a token, and a semaphore
that is gone has no waiter.

The promises of the objects depend on what a step does to threads other than the one
it is about. Lemmas say so for each operator: which of them leave every wait, error
and state but the caller's alone (`...Calm`), and that a resume or an expired timer
changes one thread, from waiting to woken with the error it was woken with
(`...Effect`). Each layer has a lemma per operation; the theorems combine them with
one temporal step.

### Scheduling, order of service, timers

`HighestThreadRuns` rests on one fact per thread, `Behind`: it is not ready above
the current thread. `rt_schedule` establishes it for all threads at once; every other
operation keeps it (`StaysBehind`) unless it wakes or yields, and then the
caller stands before its `rt_schedule`. Exempt are, as in the property, a locked
scheduler, a loop with interrupts disabled, a current thread that is about to call
`rt_schedule`, and the threads `rt_sem_detach` has woken.

`ServiceInOrder` keeps `Ranked`: a thread before another in the suspend list has a
higher priority under `RT_IPC_FLAG_PRIO`, and at equal priorities, or under
`RT_IPC_FLAG_FIFO`, it blocked earlier. Every kernel operation only takes
threads out of a suspend list (`Thins`), but for blocking, which inserts behind the
threads of equal priority.

`TimersStayAhead` and `TimeoutsComeInTime` keep the timer list ordered by the ticks
that are left, modulo the tick width. During `rt_timer_check`, which follows
`rt_tick_increase`, these count from the tick before: no timer of the list is then more
than one tick from it when it fires, and the first has the fewest. That the
scan of `rt_timer_start` stops where the order is kept needs waits shorter than half
the tick range. The theorems are stated for the mutex, which sleeps and waits with limits;
the lemmas are those of `ProcessorProofs` for every component.

### The life of a thread

While `rt_thread_delete` stands between its masked regions the kernel state is not
sound: the thread that is being deleted is in no list, but its state still says READY or
SUSPEND. `LifeInv` says that this is all that is wrong: `Veiled`, the kernel state with
INIT in the place of that one state, is `Sound`. What other threads and handlers do
meanwhile is then reduced to the kernel's lemmas by a second family of them (`Mark...`):
an operator of `Kernel` does not read the state of a thread that no list links and
that does not run (`Unread`), so it commutes with putting another state in its
place. `Passes` describes such a step; `PassesParts` shows that it keeps the
manager's call and everything else that is true of closed and suspended threads.

A thread that `rt_thread_suspend` has put away stays suspended because every wakeup comes
through a suspend list or a timer (`PutAway`, `LeavesAlone`). The return of a
thread (`ClosedIs`) is seen as its suspension, followed by `rt_schedule`, with CLOSE
for SUSPEND. Only then does the thread enter the defunct list, which it cannot be in
already: a closed thread makes no step, and the parts of a deletion test for CLOSE.

`NoTimedWaits`, no wait has a limit, is what finding 4 demands: with a limit a timeout can
link the thread again between two parts of its deletion, and the properties
fail. The timer list is empty under it, so that `rt_timer_detach` finds nothing to stop.

### The mutex

`MutexInv` adds `Calls` (a thread is inside a take exactly while `target` names a
mutex, waits only for that one, and waits without an error), `OrigKept` (an
owned mutex has a priority to give back) and `OwnerAgrees`, whose proof follows, per
mutex and thread, `Told` (takes the program was told of, plus a hand-over on its
way) against `Count` (what the mutex records). `OwnerAgrees` is not inductive
alone: a hand-over makes the head waiter the owner, which agrees with what it is
told later only because a waiter has no error and no other call. For
`MutexRefines` the mutexes are seen one at a time (`OneMutex`), chosen arbitrarily.

Inheritance (`OwnerInherits`, `PriorityRestored`) is proved with `Lent`, which
adds that the priority to be given back is the one the owner was started with, and
that under `RT_IPC_FLAG_PRIO` the suspend lists are sorted, so that the thread a
release hands over to is not below the ones that stay. This is false when mutexes are nested, as
finding 2 shows, and the theorems say what is enough: at no time does a thread own two
mutexes, or wait while it owns one (`Unnested`). With one mutex (`Sole`) that
follows from `MutexInv`, because an owner that takes its mutex again does not block.
`NoInversionAlone` combines inheritance with the argument on preemption: an owner
that is ready is never behind the current thread.

### Event

`Serve` is a recursive function over a suspend list of any length. `RunExists` shows
that the function exists and `ServeTurns` what it computes, both by the least turn at
which it would fail. `Turned` describes the state after each turn: which threads have
been visited and which given their bits, which bits have been cleared and by which
of them. From the last turn follow `NoEventMissed` (a waiter that was passed is
not met by what is left, since the set only shrinks) and the refinement, in which the
whole loop is one post. `EventInv` adds `Calls`, the link of waiting, `pc`, error and
request, without which a waiter could hold a request that was never made.

### Mailbox and message queue

`NoMailMissed`, `NoSlotMissed`, `NoMessageMissed` and `NoBlockMissed` are not
inductive alone. `ServedOK` counts, for each list that has waiters, the mails or
places there are against the callers that were woken and have not tested again. A
mail that a handler takes leaves a woken receiver that waits again; one that a newcomer
takes likewise; a woken caller keeps its error clear until it tests. A reset or
detach makes the callers it wakes fail and changes the amounts only when its loops have
left the lists empty. `CallsOK` says that the time left of a call, counted from the tick at which it
blocked, ends at its deadline and that its timer is due then. `DeadlineKept` follows
without an assumption on the waits beyond `MaxDelay`, which bounds the ticks from a
blocking to the next step of the call.

`MbInv` has for the ring that `in` is `out` plus `entry` modulo the size.
`MailboxRefines` reads the queue off the ring, `entry` slots from `out` on.

`MqInv` describes the blocks of a message queue by two sequences, the queue and the
free list, linked as the code links them, and the blocks in the hands of calls between
their two masked regions: the three are disjoint and have `MaxMsgs` blocks between
them. `MessageQueueRefines` reads the abstract queue off the links by following them
from the head, and shows by the least position at which they would differ that this is the
sequence of the invariant.

### Soft timers

`TimersImplement` needs nothing of the scheduler. `SoftInv` says that the list holds
each timer once, apart from the temporary list, with a due tick less than half the
range ahead or behind (`InLists`), that the temporary
list holds at most the timer being called and is empty outside a callback
(`LoopAgrees`), and that the calls in progress name a timer (`OpsAgree`). A tick that
the clock may make (`Patient`) takes one tick from each timer of the list, or leaves it
at zero when it is late. `MaxLate`, which bounds how late a timer may be while the
timer thread is awake, is below half the tick range: with `HalfTick` itself a late timer
and one started just now would have the same ticks to go. That is the limit under
which the comparison of `timer.c:634` means anything.

The type invariant includes the scheduler's consistency, and finding 3 shows how
`rt_timer_start` breaks that: it resumes the timer thread with interrupts enabled.
`Undisturbed` is what the code relies on instead of a lock. A thread that has found
the timer thread suspended finds it suspended when it unlinks it, and suspended
with its timer stopped when it inserts it. `TimerInv` is inductive under this condition
(`TimerTypeCorrect`, `TimeoutsSound`): it adds to the kernel's invariant that the timer
thread waits for no object and never has the processor in a locked scheduler, so
`SuspendSelf` and `SleepSelf` suspend a thread that may be suspended.

`OneClientSafe` shows a case in which the condition is met, that of `soft_timer`: one
client, below the timer thread, that does not lock the scheduler. `AloneInv` says
that the timer thread is never ready behind its client, so a tick that wakes it
between two steps of `rt_timer_start` lets it run first, and that it does not
resume itself. With two clients, or one above the timer thread, this is lost.

### Work queues

The proofs are in three parts, each of which needs more of the scheduler than the one
before. `NoDelayLost` needs nothing of it. `DelayInv` says that the timer lists are well
shaped, that a call of `timer.c` names its timer until its next masked region, where
each thread is in the functions of `workqueue.c`, and that the two lists of the queue
hold each work once between them. The point is the handler: it takes the work out of the
delayed list in the masked region in which its timer leaves the temporary list.

`NoWorkLost` needs a sound scheduler, so it has the condition `Undisturbed` of the
timers; `PlainQueueWorks` shows that a queue without delayed works meets it. `WorkInv`
adds `LockOK`, who holds the scheduler locked: `rt_workqueue_cancel_all_work` and
`_workqueue_work_completion` do not suspend anyone meanwhile. The work thread that has
found the list empty suspends itself in the same masked region; each submission tests
its state in the masked region in which it links the work, and nothing else suspends
it in its loop.

`NoSyncLost` is about a test made with interrupts enabled. `SyncInv` says that a
thread between its test of `work_current` and its take is awake and that a work is still
running. The step that could break this is the end of the work: the work thread
would be current while a user is ready, which `RankInv` excludes for users above it
(`UsersFirst`, `Behind`, and that priorities stay what they were). For a user below the
work thread the property is false (`workqueue.c:305-308`).

### Only model-checked

Liveness (`TopTakeReturns`, `DueTimersFire`), which the prover does not handle under
fairness; inheritance where mutexes are nested beyond `Unnested`. Induction over
data with the library's theorems is not available to the installed provers; where the
proofs need it (the loop of `rt_event_send`, the links of a message queue), they
take the least counterexample among the natural numbers (`LeastExists`).

## 5. What is left

In the order of their weight:

1. Mutex detach (`ipc.c:605`), chained mutexes and priority changes of waiters
   (`thread.c:692`), several mutexes with waiters (`ipc.c:898`): three operations of
   `Mutex` and a run with two mutexes.
2. `DeviceIpc`: completion and wait queue with a handler and timeouts;
   `rt_workqueue_destroy` on `Threads`.
3. `DataQueue`, `MemPool`: bounded buffers with waiters of two kinds.
4. `RingBuffer` (mirror bits against a sequence) and `memheap` (split and merge):
   pure algorithms against a reference definition.
5. `rt_thread_delay_until`, `rt_timer_control`, program timers called in the tick
   interrupt, `rt_tick_set`.
6. Proofs: inheritance for nested mutexes under a condition weaker than `Unnested`, such as
   releases in the reverse order of the takes.

### Not modelled

The kernel proper is about 12 000 lines of the 720 000 in the repository. The rest
is fonts and widgets of a graphics library (`packages/LittlevGL2RTT-v0.0.1`), file
systems with their code pages (`components/dfs`), network, shell, C library and
POSIX wrappers, boards and drivers: vendored code, data, or clients of the kernel
objects modelled here, with no protocol of their own between threads. Within the
kernel:

- `mem.c`, `slab.c`, `signal.c`, `cpu.c` are not compiled in this configuration;
- `object.c` is a registry; `kservice.c` has strings and printing;
- `memheap.c`, `mempool.c`, `device.c` and the device IPC are listed above;
- `drv_*.c` program registers; context switch and vectors are below the model.
