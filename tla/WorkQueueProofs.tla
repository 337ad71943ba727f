-------------------------- MODULE WorkQueueProofs --------------------------
(***************************************************************************)
(* The work queue (workqueue.c), for any number of threads, priorities and *)
(* works.                                                                  *)
(*                                                                         *)
(* The first part is about delayed works: the timer of each is armed, is   *)
(* being called or is on its way to be, whatever the scheduler does.  The  *)
(* second part is about the work thread, which never sleeps while a work   *)
(* waits for it, as long as the resumption of the timer thread by          *)
(* rt_timer_start is not disturbed, as it is not if no work has a delay.   *)
(* The third part is about the threads that wait for the end of a work,    *)
(* and needs what the scheduler does with priorities.                      *)
(***************************************************************************)
EXTENDS WorkQueue, SoftTimerProofs

(* The timer lists are well shaped, a callback is of the timer the loop is *)
(* at, and a thread in a call of timer.c is before its next masked region, *)
(* or stopped there.                                                       *)
Shaped(s) ==
    /\ s \in SoftLists
    /\ Distinct(s.list)
    /\ Range(s.list) \cap s.temp = {}

Task == [what : Ops, timer : Timer \cup {"none"}]

Tasks ==
    /\ op \in [Thread -> Task]
    /\ \A t \in Thread :
          /\ op[t].what # "none" => pc[t] \in {"call", "halt"}
          /\ op[t].what \in {"start", "stop", "detach"} => op[t].timer \in Timer

TimersOK ==
    /\ "tick" \in DOMAIN k /\ k.tick \in Tick
    /\ pc \in [Thread -> Location]
    /\ Shaped(soft)
    /\ LoopAgrees
    /\ Tasks

(* Where the threads are in the functions of workqueue.c.                  *)
Stage == {"none", "loop", "work", "ack", "acking", "entry", "queue", "done",
          "sync", "drain"}

StagesOK ==
    /\ stage \in [Thread -> Stage]
    /\ stage[WorkThread] \in {"loop", "work", "ack", "acking"}
    /\ stage[TimerThread] \in {"entry", "queue", "done"}
    /\ stage[TimerThread] # "entry" => loop.at = "callback"
    /\ stage[TimerThread] = "done" => soft.temp = {}
    /\ \A t \in User : stage[t] \in {"none", "sync", "drain"}

Proper(q) ==
    /\ q \in QueueState
    /\ Distinct(q.work) /\ Distinct(q.delayed)
    /\ Range(q.work) \cap Range(q.delayed) = {}

ListsOK == Proper(queue)

(* The timer of w is armed or being called, or its start is on the way.    *)
Coming(w) ==
    \/ w \in Range(soft.list) \cup soft.temp
    \/ \E t \in Thread : op[t] = Op("start", w)

DelayInv == TimersOK /\ StagesOK /\ ListsOK /\ NoDelayForgotten

LEMMA ThreadsDiffer ==
    /\ WorkThread \in Thread /\ TimerThread \in Thread
    /\ WorkThread # TimerThread /\ WorkThread # Idle /\ TimerThread # Idle
    /\ WorkThread \in Client /\ Client \subseteq Thread /\ User \subseteq Client
    /\ TimerThread \notin Client /\ Idle \notin Client /\ WorkThread \notin User
BY WorkQueueAssumption, SoftTimerAssumption DEF Client, Worker, User

LEMMA DelayedComes ==
    NoDelayForgotten <=> \A w \in Range(queue.delayed) :
                             w \in queue.submitting /\ Coming(w)
BY DEF NoDelayForgotten, Coming

-----------------------------------------------------------------------------
(* The masked regions of timer.c on well shaped lists.                     *)
LEMMA RemoveShaped ==
    ASSUME NEW s, Shaped(s), NEW tm \in Timer
    PROVE  LET r == SoftRemove(s, tm)
           IN  /\ Shaped(r)
               /\ Range(r.list) = Range(s.list) \ {tm}
               /\ r.temp = s.temp \ {tm} /\ r.busy = s.busy
<1>1. PICK r : r = SoftRemove(s, tm)
  OBVIOUS
<1>2. s \in SoftLists /\ Distinct(s.list)
  BY DEF Shaped
<1>3. /\ r \in SoftLists /\ Distinct(r.list)
      /\ Range(r.list) = Range(s.list) \ {tm}
      /\ r.temp = s.temp \ {tm} /\ r.busy = s.busy
  BY <1>1, <1>2, SoftRemoveIs
<1>4. Shaped(r)
  BY <1>3 DEF Shaped
<1> QED
  BY <1>1, <1>3, <1>4

LEMMA StopShaped ==
    ASSUME NEW s, Shaped(s), NEW tm \in Timer
    PROVE  LET r == SoftStop(s, tm)
           IN  /\ Shaped(r)
               /\ Range(r.list) = Range(s.list) \ {tm}
               /\ r.temp = s.temp \ {tm} /\ r.busy = s.busy
<1>1. PICK r : r = SoftRemove(s, tm)
  OBVIOUS
<1>2. /\ Shaped(r) /\ Range(r.list) = Range(s.list) \ {tm}
      /\ r.temp = s.temp \ {tm} /\ r.busy = s.busy
  BY <1>1, RemoveShaped
<1>3. PICK z : z = [r EXCEPT !.active = @ \ {tm}]
  OBVIOUS
<1>4. /\ z \in SoftLists /\ z.list = r.list /\ z.temp = r.temp /\ z.busy = r.busy
  BY <1>2, <1>3 DEF Shaped, SoftLists
<1>5. SoftStop(s, tm) = z
  BY <1>1, <1>3 DEF SoftStop
<1> QED
  BY <1>2, <1>4, <1>5 DEF Shaped

LEMMA StartShaped ==
    ASSUME k.tick \in Tick, NEW s, Shaped(s), NEW tm \in Timer
    PROVE  LET r == SoftStart(s, tm)
           IN  /\ Shaped(r)
               /\ Range(r.list) = Range(s.list) \cup {tm}
               /\ r.temp = s.temp \ {tm} /\ r.busy = s.busy
<1>1. PICK r : r = SoftStart(s, tm)
  OBVIOUS
<1>2. s \in SoftLists /\ Distinct(s.list)
  BY DEF Shaped
<1>3. /\ r \in SoftLists /\ Distinct(r.list)
      /\ Range(r.list) = Range(s.list) \cup {tm}
      /\ r.temp = s.temp \ {tm} /\ r.busy = s.busy
  BY <1>1, <1>2, SoftStartIs
<1>4. Shaped(r)
  BY <1>3 DEF Shaped
<1> QED
  BY <1>1, <1>3, <1>4

(* A turn of the loop of rt_soft_timer_check moves the first timer to the  *)
(* temporary list, so that it stays linked.                                *)
LEMMA CheckShaped ==
    ASSUME NEW s, Shaped(s), s.temp = {}, s.busy = FALSE, k.tick \in Tick,
           CheckFrom(s)
    PROVE  /\ Shaped(soft') /\ LoopAgrees'
           /\ Range(s.list) \subseteq Range(soft'.list) \cup soft'.temp
<1>1. CASE SoftExpired(s)
  <2>1. s.list # <<>> /\ s.list \in Seq(Timer)
    BY <1>1 DEF SoftExpired, Shaped, SoftLists
  <2>2. PICK tm \in Timer : tm = Head(s.list)
    BY <2>1, HeadIn
  <2>3. soft' = SoftCall(s) /\ loop' = Loop("callback", tm)
    BY <1>1, <2>2 DEF CheckFrom
  <2>4. PICK r : r = SoftRemove(s, tm)
    OBVIOUS
  <2>5. Shaped(r) /\ Range(r.list) = Range(s.list) \ {tm} /\ r.temp = {}
    BY <2>4, RemoveShaped
  <2>6. soft' = [r EXCEPT !.temp = {tm}, !.busy = TRUE,
                          !.active = @ \ ({tm} \ Periodic)]
    BY <2>2, <2>3, <2>4 DEF SoftCall
  <2>7. /\ soft' \in SoftLists /\ soft'.list = r.list /\ soft'.temp = {tm}
        /\ soft'.busy = TRUE
    BY <2>5, <2>6 DEF Shaped, SoftLists
  <2>8. LoopAgrees'
    BY <2>3, <2>7, LoopIs DEF LoopAgrees
  <2> QED
    BY <2>5, <2>7, <2>8 DEF Shaped
<1>2. CASE ~SoftExpired(s)
  <2>1. soft' = s /\ loop' = Loop("scan", 0)
    BY <1>2 DEF CheckFrom
  <2> QED
    BY <2>1, LoopIs, TickEnds DEF LoopAgrees
<1> QED
  BY <1>1, <1>2

(* The callback is over, whatever has been done with its timer.            *)
LEMMA ReturnShaped ==
    ASSUME k.tick \in Tick, Shaped(soft), NEW tm \in Timer,
           soft.temp \subseteq {tm}, Periodic = {}
    PROVE  LET r == SoftReturn(soft, tm)
           IN  /\ Shaped(r) /\ r.temp = {} /\ r.busy = FALSE
               /\ Range(soft.list) \ {tm} \subseteq Range(r.list)
               /\ soft.temp = {} => r.list = soft.list
<1>1. PICK r : r = [soft EXCEPT !.busy = FALSE]
  OBVIOUS
<1>2. /\ r \in SoftLists /\ r.list = soft.list /\ r.temp = soft.temp
      /\ r.busy = FALSE
  BY <1>1 DEF Shaped, SoftLists
<1>3. Shaped(r)
  BY <1>2 DEF Shaped
<1>4. SoftReturn(soft, tm) \in {r, SoftRemove(r, tm)}
      /\ (tm \notin soft.temp => SoftReturn(soft, tm) = r)
  BY <1>1 DEF SoftReturn
<1>5. CASE tm \notin soft.temp
  <2>1. soft.temp = {}
    BY <1>5
  <2> QED
    BY <1>2, <1>3, <1>4, <1>5, <2>1
<1>6. CASE tm \in soft.temp
  <2>1. SoftReturn(soft, tm) = SoftRemove(r, tm)
    BY <1>1, <1>6 DEF SoftReturn
  <2>2. PICK z : z = SoftRemove(r, tm)
    OBVIOUS
  <2>3. /\ Shaped(z) /\ Range(z.list) = Range(r.list) \ {tm}
        /\ z.temp = r.temp \ {tm} /\ z.busy = r.busy
    BY <1>3, <2>2, RemoveShaped
  <2> QED
    BY <1>2, <1>6, <2>1, <2>2, <2>3
<1> QED
  BY <1>5, <1>6

-----------------------------------------------------------------------------
(* The steps of any part keep the timers well formed.  A thread in a call  *)
(* of timer.c leaves it only by the end of the call, or by halting.        *)
MovesOn ==
    \/ UNCHANGED pc
    \/ \E t \in Thread, loc \in Location :
          Goto(t, loc) /\ (loc = "halt" \/ pc[t] \notin {"call", "halt"})

(* The timer lists lose no other timers than those of X.                   *)
Loses(X) ==
    /\ Shaped(soft') /\ soft'.busy = soft.busy /\ soft'.temp \subseteq soft.temp
    /\ Range(soft.list) \cup soft.temp
          \subseteq Range(soft'.list) \cup soft'.temp \cup X

LEMMA LosesNone == ASSUME Shaped(soft), UNCHANGED soft PROVE Loses({})
BY DEF Loses

LEMMA LoopStays ==
    ASSUME LoopAgrees, UNCHANGED loop, NEW X, Loses(X)
    PROVE  LoopAgrees'
BY DEF LoopAgrees, Loses

LEMMA ListStep ==
    ASSUME TimersOK, TickStays(k, k'), MovesOn, UNCHANGED <<loop, op>>,
           NEW X, Loses(X)
    PROVE  TimersOK' /\ \A w : w \notin X /\ Coming(w) => Coming(w)'
<1>1. "tick" \in DOMAIN k' /\ k'.tick \in Tick
  BY DEF TimersOK, TickStays
<1>2. /\ pc' \in [Thread -> Location]
      /\ \A t \in Thread : pc[t] \in {"call", "halt"} => pc'[t] \in {"call", "halt"}
  BY DEF TimersOK, MovesOn, Goto
<1>3. LoopAgrees'
  BY LoopStays DEF TimersOK
<1>4. Tasks'
  BY <1>2 DEF TimersOK, Tasks
<1>5. \A w : w \notin X /\ Coming(w) => Coming(w)'
  BY DEF Coming, Loses
<1> QED
  BY <1>1, <1>2, <1>3, <1>4, <1>5 DEF TimersOK, Loses

LEMMA TimersRest ==
    ASSUME TimersOK, TickStays(k, k'), MovesOn, UNCHANGED softVars
    PROVE  TimersOK' /\ \A w : Coming(w) => Coming(w)'
<1>1. UNCHANGED <<soft, loop, op>>
  BY DEF softVars
<1>2. Loses({})
  BY <1>1, LosesNone DEF TimersOK
<1> QED
  BY <1>1, <1>2, ListStep

(* A call of timer.c begins, goes on or ends: if it was to start a timer,  *)
(* it has.                                                                 *)
Starts(t) == \A w : op[t] = Op("start", w) => w \in Range(soft'.list)

Takes(t, o) ==
    /\ op' = [op EXCEPT ![t] = o]
    /\ \E loc \in Location : Goto(t, loc) /\ (o.what # "none" => loc = "call")
    /\ o.what \in {"start", "stop", "detach"} => o.timer \in Timer
    /\ UNCHANGED loop
    /\ TickStays(k, k')
    /\ Starts(t)

LEMMA TaskStep ==
    ASSUME TimersOK, NEW t \in Thread, NEW o \in Task, Takes(t, o),
           NEW X, Loses(X)
    PROVE  TimersOK' /\ \A w : w \notin X /\ Coming(w) => Coming(w)'
<1>1. "tick" \in DOMAIN k' /\ k'.tick \in Tick
  BY DEF TimersOK, TickStays, Takes
<1>2. /\ pc' \in [Thread -> Location] /\ (o.what # "none" => pc'[t] = "call")
      /\ \A u \in Thread \ {t} : pc'[u] = pc[u]
  BY DEF TimersOK, Goto, Takes
<1>3. LoopAgrees'
  BY LoopStays DEF TimersOK, Takes
<1>4. /\ op' \in [Thread -> Task] /\ op'[t] = o
      /\ \A u \in Thread \ {t} : op'[u] = op[u]
  BY DEF TimersOK, Tasks, Takes
<1>5. Tasks'
  BY <1>2, <1>4 DEF TimersOK, Tasks, Takes
<1>6. ASSUME NEW w, w \notin X, Coming(w) PROVE Coming(w)'
  <2>1. CASE w \in Range(soft.list) \cup soft.temp
    BY <1>6, <2>1 DEF Coming, Loses
  <2>2. ASSUME NEW u \in Thread, op[u] = Op("start", w) PROVE Coming(w)'
    BY <1>4, <2>2 DEF Coming, Starts, Takes
  <2> QED
    BY <1>6, <2>1, <2>2 DEF Coming
<1> QED
  BY <1>1, <1>2, <1>3, <1>5, <1>6 DEF TimersOK, Loses

(* The timer loop moves on.                                                *)
LEMMA LoopStep ==
    ASSUME TimersOK, "tick" \in DOMAIN k', k'.tick \in Tick, MovesOn, UNCHANGED op,
           Shaped(soft'), LoopAgrees',
           Range(soft.list) \cup soft.temp \subseteq Range(soft'.list) \cup soft'.temp
    PROVE  TimersOK' /\ \A w : Coming(w) => Coming(w)'
<1>2. /\ pc' \in [Thread -> Location]
      /\ \A t \in Thread : pc[t] \in {"call", "halt"} => pc'[t] \in {"call", "halt"}
  BY DEF TimersOK, MovesOn, Goto
<1>3. Tasks'
  BY <1>2 DEF TimersOK, Tasks
<1>4. \A w : Coming(w) => Coming(w)'
  BY DEF Coming
<1> QED
  BY <1>2, <1>3, <1>4 DEF TimersOK

(* A step that leaves the queue alone.                                     *)
LEMMA QueueStays ==
    ASSUME StagesOK, ListsOK, NoDelayForgotten, UNCHANGED queueVars,
           stage[TimerThread] # "entry" => UNCHANGED loop /\ soft'.temp \subseteq soft.temp,
           \A w : Coming(w) => Coming(w)'
    PROVE  StagesOK' /\ ListsOK' /\ NoDelayForgotten'
<1>1. queue' = queue /\ stage' = stage
  BY DEF queueVars
<1>2. StagesOK'
  BY <1>1 DEF StagesOK
<1>3. ListsOK'
  BY <1>1 DEF ListsOK
<1>4. \A w \in Range(queue.delayed) : w \in queue.submitting /\ Coming(w)'
  BY DelayedComes
<1>5. NoDelayForgotten'
  BY <1>1, <1>4 DEF NoDelayForgotten, Coming
<1> QED
  BY <1>2, <1>3, <1>5

-----------------------------------------------------------------------------
(* The masked regions of workqueue.c on a queue without double links.      *)

LEMMA DelistIs ==
    ASSUME NEW q, Proper(q), NEW w \in Work
    PROVE  LET r == Delist(q, w)
           IN  /\ Proper(r)
               /\ Range(r.work) = Range(q.work) \ {w}
               /\ Range(r.delayed) = Range(q.delayed) \ {w}
               /\ r.current = q.current /\ r.submitting = q.submitting
               /\ r.bound = q.bound
<1>1. q.work \in Seq(Work) /\ q.delayed \in Seq(Work)
  BY DEF Proper, QueueState
<1>2. PICK a : a = Without(q.work, w)
  OBVIOUS
<1>3. PICK d : d = Without(q.delayed, w)
  OBVIOUS
<1>4. /\ a \in Seq(Work) /\ Distinct(a) /\ Range(a) = Range(q.work) \ {w}
      /\ d \in Seq(Work) /\ Distinct(d) /\ Range(d) = Range(q.delayed) \ {w}
  BY <1>1, <1>2, <1>3, WithoutProperties DEF Proper
<1>5. PICK r : r = Delist(q, w)
  OBVIOUS
<1>6. r = [q EXCEPT !.work = a, !.delayed = d]
  BY <1>2, <1>3, <1>5 DEF Delist
<1>7. /\ r \in QueueState /\ r.work = a /\ r.delayed = d
      /\ r.current = q.current /\ r.submitting = q.submitting
      /\ r.bound = q.bound
  BY <1>4, <1>6 DEF Proper, QueueState
<1>8. Proper(r)
  BY <1>4, <1>7 DEF Proper
<1> QED
  BY <1>4, <1>5, <1>7, <1>8

LEMMA FirstIs ==
    ASSUME NEW S, NEW s \in Seq(S), NEW e \in S, Distinct(s), e \notin Range(s)
    PROVE  /\ <<e>> \o s \in Seq(S)
           /\ <<e>> \o s # <<>>
           /\ Range(<<e>> \o s) = Range(s) \cup {e}
           /\ Distinct(<<e>> \o s)
<1>1. PICK f : f = <<e>> \o s
  OBVIOUS
<1>2. /\ f \in Seq(S) /\ Len(f) = Len(s) + 1 /\ f[1] = e
      /\ \A i \in 1 .. Len(s) : f[i + 1] = s[i]
  BY <1>1
<1>3. Len(s) \in Nat
  BY LenProperties
<1>4. \A j \in 1 .. Len(f) : j = 1 \/ \E i \in 1 .. Len(s) : j = i + 1 /\ f[j] = s[i]
  <2> TAKE j \in 1 .. Len(f)
  <2>1. j = 1 \/ (j - 1 \in 1 .. Len(s) /\ j = (j - 1) + 1)
    BY <1>2, <1>3
  <2> QED
    BY <1>2, <2>1
<1>5. \A x : x \in Range(s) <=> \E i \in 1 .. Len(s) : s[i] = x
  BY RangeIs
<1>6. \A x : x \in Range(f) <=> \E i \in 1 .. Len(f) : f[i] = x
  BY <1>2, RangeIs
<1>7. Range(f) = Range(s) \cup {e}
  <2>1. ASSUME NEW x \in Range(f) PROVE x \in Range(s) \cup {e}
    <3>1. PICK j \in 1 .. Len(f) : f[j] = x
      BY <1>6, <2>1
    <3>2. CASE j = 1
      BY <1>2, <3>1, <3>2
    <3>3. ASSUME NEW i \in 1 .. Len(s), f[j] = s[i] PROVE x \in Range(s) \cup {e}
      BY <1>5, <3>1, <3>3
    <3> QED
      BY <1>4, <3>1, <3>2, <3>3
  <2>2. ASSUME NEW x \in Range(s) PROVE x \in Range(f)
    <3>1. PICK i \in 1 .. Len(s) : s[i] = x
      BY <1>5, <2>2
    <3>2. i + 1 \in 1 .. Len(f) /\ f[i + 1] = x
      BY <1>2, <1>3, <3>1
    <3> QED
      BY <1>6, <3>2
  <2>3. e \in Range(f)
    BY <1>2, <1>3, <1>6
  <2> QED
    BY <2>1, <2>2, <2>3
<1>8. Distinct(f)
  <2> SUFFICES ASSUME NEW i \in 1 .. Len(f), NEW j \in 1 .. Len(f), f[i] = f[j]
               PROVE  i = j
    BY DEF Distinct
  <2>1. ASSUME NEW m \in 1 .. Len(s), f[m + 1] = e PROVE FALSE
    BY <1>2, <1>5, <2>1
  <2>2. ASSUME NEW m \in 1 .. Len(s), NEW n \in 1 .. Len(s), s[m] = s[n] PROVE m = n
    BY <2>2 DEF Distinct
  <2> QED
    BY <1>2, <1>3, <1>4, <2>1, <2>2
<1> QED
  BY <1>1, <1>2, <1>3, <1>7, <1>8

(* A work that is linked nowhere is put at an end of a list.               *)
LEMMA LinkIs ==
    ASSUME NEW q, Proper(q), NEW w \in Work,
           w \notin Range(q.work), w \notin Range(q.delayed)
    PROVE  /\ LET r == [q EXCEPT !.work = Append(@, w)]
              IN  /\ Proper(r) /\ Range(r.work) = Range(q.work) \cup {w}
                  /\ r.delayed = q.delayed /\ r.current = q.current
                  /\ r.submitting = q.submitting /\ r.bound = q.bound
           /\ LET r == [q EXCEPT !.work = <<w>> \o @]
              IN  /\ Proper(r) /\ Range(r.work) = Range(q.work) \cup {w}
                  /\ r.delayed = q.delayed /\ r.current = q.current
                  /\ r.submitting = q.submitting /\ r.bound = q.bound
           /\ LET r == [q EXCEPT !.delayed = Append(@, w)]
              IN  /\ Proper(r) /\ Range(r.delayed) = Range(q.delayed) \cup {w}
                  /\ r.work = q.work /\ r.current = q.current
                  /\ r.submitting = q.submitting /\ r.bound = q.bound
<1>1. /\ q.work \in Seq(Work) /\ q.delayed \in Seq(Work)
      /\ Distinct(q.work) /\ Distinct(q.delayed)
  BY DEF Proper, QueueState
<1>2. PICK a : a = Append(q.work, w)
  OBVIOUS
<1>3. a \in Seq(Work) /\ Distinct(a) /\ Range(a) = Range(q.work) \cup {w}
  BY <1>1, <1>2, AppendLast
<1>4. PICK d : d = Append(q.delayed, w)
  OBVIOUS
<1>5. d \in Seq(Work) /\ Distinct(d) /\ Range(d) = Range(q.delayed) \cup {w}
  BY <1>1, <1>4, AppendLast
<1>6. PICK f : f = <<w>> \o q.work
  OBVIOUS
<1>7. f \in Seq(Work) /\ Distinct(f) /\ Range(f) = Range(q.work) \cup {w}
  BY <1>1, <1>6, FirstIs
<1>8. ASSUME NEW r, r = [q EXCEPT !.work = a]
      PROVE  /\ Proper(r) /\ Range(r.work) = Range(q.work) \cup {w}
             /\ r.delayed = q.delayed /\ r.current = q.current
             /\ r.submitting = q.submitting /\ r.bound = q.bound
  <2>1. /\ r \in QueueState /\ r.work = a /\ r.delayed = q.delayed
        /\ r.current = q.current /\ r.submitting = q.submitting
        /\ r.bound = q.bound
    BY <1>3, <1>8 DEF Proper, QueueState
  <2> QED
    BY <1>3, <2>1 DEF Proper
<1>9. ASSUME NEW r, r = [q EXCEPT !.work = f]
      PROVE  /\ Proper(r) /\ Range(r.work) = Range(q.work) \cup {w}
             /\ r.delayed = q.delayed /\ r.current = q.current
             /\ r.submitting = q.submitting /\ r.bound = q.bound
  <2>1. /\ r \in QueueState /\ r.work = f /\ r.delayed = q.delayed
        /\ r.current = q.current /\ r.submitting = q.submitting
        /\ r.bound = q.bound
    BY <1>7, <1>9 DEF Proper, QueueState
  <2> QED
    BY <1>7, <2>1 DEF Proper
<1>10. ASSUME NEW r, r = [q EXCEPT !.delayed = d]
       PROVE  /\ Proper(r) /\ Range(r.delayed) = Range(q.delayed) \cup {w}
              /\ r.work = q.work /\ r.current = q.current
              /\ r.submitting = q.submitting /\ r.bound = q.bound
  <2>1. /\ r \in QueueState /\ r.delayed = d /\ r.work = q.work
        /\ r.current = q.current /\ r.submitting = q.submitting
        /\ r.bound = q.bound
    BY <1>5, <1>10 DEF Proper, QueueState
  <2> QED
    BY <1>5, <2>1 DEF Proper
<1> QED
  BY <1>2, <1>4, <1>6, <1>8, <1>9, <1>10

(* The flags of a work do not matter to the lists.                         *)
LEMMA FlagsProper ==
    ASSUME NEW q, Proper(q), NEW r \in QueueState,
           r.work = q.work, r.delayed = q.delayed
    PROVE  Proper(r)
BY DEF Proper

LEMMA PutLastIs ==
    ASSUME NEW q, Proper(q), NEW w \in Work
    PROVE  LET r == PutLast(q, w)
           IN  /\ Proper(r)
               /\ Range(r.work) = Range(q.work) \cup {w}
               /\ Range(r.delayed) = Range(q.delayed) \ {w}
               /\ r.current = q.current /\ r.submitting = q.submitting
<1>1. PICK d : d = Delist(q, w)
  OBVIOUS
<1>2. /\ Proper(d) /\ Range(d.work) = Range(q.work) \ {w}
      /\ Range(d.delayed) = Range(q.delayed) \ {w}
      /\ d.current = q.current /\ d.submitting = q.submitting
      /\ d.bound = q.bound
  BY <1>1, DelistIs
<1>3. PICK y : y = [d EXCEPT !.work = Append(@, w)]
  OBVIOUS
<1>4. /\ Proper(y) /\ Range(y.work) = Range(d.work) \cup {w}
      /\ y.delayed = d.delayed /\ y.current = d.current
      /\ y.submitting = d.submitting /\ y.bound = d.bound
  BY <1>2, <1>3, LinkIs
<1>5. PICK r : r = PutLast(q, w)
  OBVIOUS
<1>6. r = [y EXCEPT !.submitting = y.submitting, !.bound = y.bound \cup {w},
                    !.current = y.current]
  <2>1. d \in QueueState
    BY <1>2 DEF Proper
  <2>2. r = [d EXCEPT !.work = Append(@, w), !.bound = @ \cup {w}]
    BY <1>1, <1>5 DEF PutLast
  <2> QED
    BY <1>3, <2>1, <2>2 DEF QueueState
<1>7. /\ r \in QueueState /\ r.work = y.work /\ r.delayed = y.delayed
      /\ r.submitting = y.submitting /\ r.current = y.current
  BY <1>4, <1>6 DEF Proper, QueueState
<1>8. Proper(r)
  BY <1>4, <1>7, FlagsProper
<1> QED
  BY <1>2, <1>4, <1>5, <1>7, <1>8

LEMMA PutFirstIs ==
    ASSUME NEW q, Proper(q), NEW w \in Work
    PROVE  LET r == PutFirst(q, w)
           IN  /\ Proper(r)
               /\ Range(r.work) = Range(q.work) \cup {w}
               /\ Range(r.delayed) = Range(q.delayed) \ {w}
               /\ r.current = q.current /\ r.submitting = q.submitting
<1>1. PICK d : d = Delist(q, w)
  OBVIOUS
<1>2. /\ Proper(d) /\ Range(d.work) = Range(q.work) \ {w}
      /\ Range(d.delayed) = Range(q.delayed) \ {w}
      /\ d.current = q.current /\ d.submitting = q.submitting
  BY <1>1, DelistIs
<1>3. PICK y : y = [d EXCEPT !.work = <<w>> \o @]
  OBVIOUS
<1>4. /\ Proper(y) /\ Range(y.work) = Range(d.work) \cup {w}
      /\ y.delayed = d.delayed /\ y.current = d.current
      /\ y.submitting = d.submitting
  BY <1>2, <1>3, LinkIs
<1>5. y = PutFirst(q, w)
  BY <1>1, <1>3 DEF PutFirst
<1> QED
  BY <1>2, <1>4, <1>5

LEMMA CancelIs ==
    ASSUME NEW q, Proper(q), NEW w \in Work
    PROVE  LET r == Cancel(q, w)
           IN  /\ Proper(r)
               /\ Range(r.work) = Range(q.work) \ {w}
               /\ Range(r.delayed) = Range(q.delayed) \ {w}
               /\ r.current = q.current /\ r.submitting = q.submitting \ {w}
<1>1. PICK d : d = Delist(q, w)
  OBVIOUS
<1>2. /\ Proper(d) /\ Range(d.work) = Range(q.work) \ {w}
      /\ Range(d.delayed) = Range(q.delayed) \ {w}
      /\ d.current = q.current /\ d.submitting = q.submitting
  BY <1>1, DelistIs
<1>3. PICK r : r = Cancel(q, w)
  OBVIOUS
<1>4. d \in QueueState
  BY <1>2 DEF Proper
<1>5. r = [d EXCEPT !.submitting = d.submitting \ {w}, !.bound = d.bound \ {w},
                    !.current = d.current]
  BY <1>1, <1>3, <1>4 DEF Cancel, QueueState
<1>6. /\ r \in QueueState /\ r.work = d.work /\ r.delayed = d.delayed
      /\ r.submitting = d.submitting \ {w} /\ r.current = d.current
  BY <1>4, <1>5 DEF QueueState
<1>7. Proper(r)
  BY <1>2, <1>6, FlagsProper
<1> QED
  BY <1>2, <1>3, <1>6, <1>7

(* The masked region of a delayed submission.                              *)
Delays(q, w, r) ==
    r = [Delist(q, w) EXCEPT !.delayed = Append(@, w),
                             !.submitting = @ \cup {w}, !.bound = @ \cup {w}]

LEMMA DelayIs ==
    ASSUME NEW q, Proper(q), NEW w \in Work, NEW r, Delays(q, w, r)
    PROVE  /\ Proper(r)
           /\ Range(r.work) = Range(q.work) \ {w}
           /\ Range(r.delayed) = Range(q.delayed) \cup {w}
           /\ r.current = q.current /\ r.submitting = q.submitting \cup {w}
<1>1. PICK d : d = Delist(q, w)
  OBVIOUS
<1>2. /\ Proper(d) /\ Range(d.work) = Range(q.work) \ {w}
      /\ Range(d.delayed) = Range(q.delayed) \ {w}
      /\ d.current = q.current /\ d.submitting = q.submitting
  BY <1>1, DelistIs
<1>3. PICK y : y = [d EXCEPT !.delayed = Append(@, w)]
  OBVIOUS
<1>4. /\ Proper(y) /\ Range(y.delayed) = Range(d.delayed) \cup {w}
      /\ y.work = d.work /\ y.current = d.current
      /\ y.submitting = d.submitting /\ y.bound = d.bound
  BY <1>2, <1>3, LinkIs
<1>5. r = [y EXCEPT !.submitting = y.submitting \cup {w},
                    !.bound = y.bound \cup {w}, !.current = y.current]
  BY <1>1, <1>2, <1>3 DEF Delays, Proper, QueueState
<1>6. /\ r \in QueueState /\ r.work = y.work /\ r.delayed = y.delayed
      /\ r.submitting = y.submitting \cup {w} /\ r.current = y.current
  <2>1. y \in QueueState
    BY <1>4 DEF Proper
  <2>2. y.submitting \cup {w} \in SUBSET Work /\ y.bound \cup {w} \in SUBSET Work
    BY <2>1 DEF QueueState
  <2> QED
    BY <1>5, <2>1, <2>2 DEF QueueState
<1>7. Proper(r)
  BY <1>4, <1>6, FlagsProper
<1> QED
  BY <1>2, <1>4, <1>6, <1>7

(* The masked region of the timeout handler.                               *)
Arrives(q, w) ==
    LET d == [Delist(q, w) EXCEPT !.submitting = @ \ {w}]
    IN  IF q.current # w THEN [d EXCEPT !.work = Append(@, w)] ELSE d

LEMMA ArrivesIs ==
    ASSUME NEW q, Proper(q), NEW w \in Work
    PROVE  LET r == Arrives(q, w)
           IN  /\ Proper(r)
               /\ Range(r.delayed) = Range(q.delayed) \ {w}
               /\ r.current = q.current /\ r.submitting = q.submitting \ {w}
               /\ q.current # None \/ Range(r.work) \subseteq Range(q.work) \cup {w}
<1>1. PICK d : d = Delist(q, w)
  OBVIOUS
<1>2. /\ Proper(d) /\ Range(d.work) = Range(q.work) \ {w}
      /\ Range(d.delayed) = Range(q.delayed) \ {w}
      /\ d.current = q.current /\ d.submitting = q.submitting
  BY <1>1, DelistIs
<1>3. PICK y : y = [d EXCEPT !.submitting = @ \ {w}]
  OBVIOUS
<1>4. d \in QueueState
  BY <1>2 DEF Proper
<1>5. y = [d EXCEPT !.submitting = d.submitting \ {w}, !.bound = d.bound,
                    !.current = d.current]
  BY <1>3, <1>4 DEF QueueState
<1>6. /\ y \in QueueState /\ y.work = d.work /\ y.delayed = d.delayed
      /\ y.submitting = d.submitting \ {w} /\ y.current = d.current
  BY <1>4, <1>5 DEF QueueState
<1>7. /\ Proper(y) /\ y.work = d.work /\ y.delayed = d.delayed
      /\ y.submitting = d.submitting \ {w} /\ y.current = d.current
  BY <1>2, <1>6, FlagsProper
<1>8. PICK r : r = Arrives(q, w)
  OBVIOUS
<1>9. CASE q.current # w
  <2>1. r = [y EXCEPT !.work = Append(@, w)]
    BY <1>1, <1>3, <1>8, <1>9 DEF Arrives
  <2>2. /\ Proper(r) /\ Range(r.work) = Range(y.work) \cup {w}
        /\ r.delayed = y.delayed /\ r.current = y.current
        /\ r.submitting = y.submitting
    BY <1>2, <1>7, <2>1, LinkIs
  <2> QED
    BY <1>2, <1>7, <1>8, <2>2
<1>10. CASE q.current = w
  <2>1. r = y
    BY <1>1, <1>3, <1>8, <1>10 DEF Arrives
  <2> QED
    BY <1>2, <1>7, <1>8, <2>1
<1> QED
  BY <1>9, <1>10

-----------------------------------------------------------------------------
(* No step loses a delayed work.                                           *)
LEMMA DelayKept ==
    ASSUME TimersOK', StagesOK', Proper(queue'),
           \A w \in Range(queue'.delayed) : w \in queue'.submitting /\ Coming(w)'
    PROVE  DelayInv'
<1>1. NoDelayForgotten'
  BY DEF NoDelayForgotten, Coming
<1>2. ListsOK'
  BY DEF ListsOK
<1> QED
  BY <1>1, <1>2 DEF DelayInv

(* The scheduler, and whatever else leaves timers and queue alone.         *)
LEMMA DelayRests ==
    ASSUME DelayInv, TickStays(k, k'), MovesOn, UNCHANGED softVars, UNCHANGED queueVars
    PROVE  DelayInv'
<1>1. TimersOK' /\ \A w : Coming(w) => Coming(w)'
  BY TimersRest DEF DelayInv
<1>2. UNCHANGED loop /\ soft' = soft
  BY DEF softVars
<1> QED
  BY <1>1, <1>2, QueueStays DEF DelayInv

(* The clock.                                                              *)
LEMMA MovedIs == ASSUME NEW x \in Tick PROVE Moved(x) \in Tick
<1>1. x \in Int
  BY KernelAssumption DEF Tick
<1>2. (x + 1) % TickMod \in Tick /\ (x + 2) % TickMod \in Tick
  BY <1>1, TickWraps
<1> QED
  BY <1>2 DEF Moved

LEMMA DelayTick ==
    ASSUME DelayInv, QueueTick, UNCHANGED queueVars
    PROVE  DelayInv'
<1>1. /\ k' = TickIncrease(k) /\ UNCHANGED pc /\ UNCHANGED op
      /\ soft' = [soft EXCEPT !.due = [tm \in Timer |->
                    IF tm \in Range(soft.list) THEN Moved(@[tm]) ELSE @[tm]]]
      /\ loop' = IF loop.at = "delay" THEN Loop("delay", Moved(loop.value)) ELSE loop
  BY DEF QueueTick, TickInterrupt
<1>2. "tick" \in DOMAIN k /\ k.tick \in Tick /\ Shaped(soft) /\ LoopAgrees /\ TimersOK
  BY DEF DelayInv, TimersOK
<1>3. "tick" \in DOMAIN k' /\ k'.tick = Later(k, 1)
  BY <1>1, <1>2, TickMoves
<1>4. k'.tick \in Tick
  <2>1. k.tick \in Int
    BY <1>2, KernelAssumption DEF Tick
  <2>2. k.tick + 1 \in Int
    BY <2>1
  <2> QED
    BY <1>3, <2>2, TickWraps DEF Later
<1>5. PICK d : d = [tm \in Timer |-> IF tm \in Range(soft.list)
                                     THEN Moved(soft.due[tm]) ELSE soft.due[tm]]
  OBVIOUS
<1>6. d \in [Timer -> Tick]
  <2>1. \A tm \in Timer : soft.due[tm] \in Tick
    BY <1>2 DEF Shaped, SoftLists
  <2>2. \A tm \in Timer : Moved(soft.due[tm]) \in Tick
    BY <2>1, MovedIs
  <2> QED
    BY <1>5, <2>1, <2>2
<1>7. soft' = [soft EXCEPT !.due = d]
  BY <1>1, <1>5
<1>8. /\ soft' \in SoftLists /\ soft'.list = soft.list /\ soft'.temp = soft.temp
      /\ soft'.busy = soft.busy
  BY <1>2, <1>6, <1>7 DEF Shaped, SoftLists
<1>9. loop'.at = loop.at /\ (loop.at # "delay" => loop' = loop)
      /\ (loop.at = "delay" => loop'.value = Moved(loop.value))
  BY <1>1, LoopIs
<1>10. LoopAgrees'
  <2>1. CASE loop.at = "delay"
    <3>1. loop'.value \in Tick
      BY <1>2, <1>9, <2>1, MovedIs DEF LoopAgrees
    <3> QED
      BY <1>2, <1>8, <1>9, <2>1, <3>1 DEF LoopAgrees
  <2>2. CASE loop.at # "delay"
    BY <1>2, <1>8, <1>9, <2>2 DEF LoopAgrees
  <2> QED
    BY <2>1, <2>2
<1>11. Shaped(soft')
  BY <1>2, <1>8 DEF Shaped
<1>12. MovesOn
  BY <1>1 DEF MovesOn
<1>13. TimersOK' /\ \A w : Coming(w) => Coming(w)'
  BY <1>1, <1>2, <1>3, <1>4, <1>8, <1>10, <1>11, <1>12, LoopStep
<1>14. StagesOK'
  BY <1>8, <1>9 DEF DelayInv, StagesOK, queueVars
<1> QED
  BY <1>13, <1>14, DelayKept, DelayedComes DEF DelayInv, ListsOK, queueVars

LEMMA HaltsMoves ==
    ASSUME pc \in [Thread -> Location], NEW t, NEW mask, Halts(t, mask)
    PROVE  MovesOn /\ TickStays(k, k') /\ UNCHANGED softVars /\ UNCHANGED queueVars
<1>1. UNCHANGED <<k, softVars, queueVars>> /\ Goto(t, "halt")
  BY DEF Halts
<1>2. TickStays(k, k')
  BY <1>1 DEF TickStays
<1>3. MovesOn
  <2>1. CASE t \in Thread
    <3>1. "halt" \in Location
      BY DEF Location
    <3> QED
      BY <1>1, <2>1, <3>1 DEF MovesOn
  <2>2. CASE t \notin Thread
    BY <1>1, <2>2 DEF Goto, MovesOn
  <2> QED
    BY <2>1, <2>2
<1> QED
  BY <1>1, <1>2, <1>3

LEMMA DelayClock ==
    ASSUME DelayInv, QueueClock, UNCHANGED queueVars
    PROVE  DelayInv'
<1>1. CASE QueueTick
  BY <1>1, DelayTick
<1>2. CASE Timeout
  <2>1. CASE TimerCheck /\ UNCHANGED softVars
    <3>1. TickStays(k, k') /\ UNCHANGED pc
      BY <2>1, TimerFireTick DEF TimerCheck
    <3> QED
      BY <2>1, <3>1, DelayRests DEF MovesOn
  <2>2. CASE Halts(k.cur, "off")
    BY <2>2, HaltsMoves, DelayRests DEF DelayInv, TimersOK
  <2> QED
    BY <1>2, <2>1, <2>2 DEF Timeout
<1>3. CASE TickReturn /\ UNCHANGED softVars
  BY <1>3, DelayRests DEF TickReturn, MovesOn, TickStays
<1> QED
  BY <1>1, <1>2, <1>3 DEF QueueClock

(* The timer thread: its loop, and the timeout handler of delayed works.   *)
LEMMA GoesMoves ==
    ASSUME NEW t \in Thread, NEW loc \in Location, Goto(t, loc),
           pc[t] \notin {"call", "halt"}
    PROVE  MovesOn
BY DEF MovesOn

LEMMA RtScheduleMoves ==
    ASSUME NEW t \in Thread, RtSchedule(t)
    PROVE  MovesOn /\ TickStays(k, k')
<1>1. PICK loc \in {"sched", "nap", "wait"} :
         /\ At(t, loc)
         /\ Goto(t, CASE loc = "sched" -> "run"
                      [] loc = "nap"   -> "napped"
                      [] loc = "wait"  -> "woken")
  BY DEF RtSchedule
<1>2. pc[t] \notin {"call", "halt"}
  BY <1>1 DEF At
<1>3. \E l \in Location : Goto(t, l)
  BY <1>1 DEF Location
<1>4. k' = Schedule(k)
  BY DEF RtSchedule
<1> QED
  BY <1>2, <1>3, <1>4, GoesMoves, ScheduleTick

LEMMA NappedMoves ==
    ASSUME NEW t \in Thread, Napped(t)
    PROVE  MovesOn /\ TickStays(k, k')
<1>1. Goto(t, "run") /\ pc[t] = "napped"
  BY DEF Napped, At
<1>2. k' = [k EXCEPT !.error[t] = IF @ = "TIMEOUT" THEN "OK" ELSE @]
  BY DEF Napped
<1>3. MovesOn
  BY <1>1, GoesMoves DEF Location
<1> QED
  BY <1>2, <1>3 DEF TickStays

LEMMA SleepMoves ==
    ASSUME NEW t \in Thread, Sleep(t)
    PROVE  MovesOn /\ TickStays(k, k')
<1>1. Goto(t, "nap") /\ pc[t] = "run"
  BY DEF Sleep, At
<1>2. MovesOn
  BY <1>1, GoesMoves DEF Location
<1>3. PICK n \in SleepTimes : k' = TimerStart(ThreadSuspend(k, t), t, n)
  BY DEF Sleep
<1>4. PICK s : s = ThreadSuspend(k, t)
  OBVIOUS
<1>5. TickStays(k, s) /\ TickStays(s, TimerStart(s, t, n))
  BY <1>4, SuspendTick, TimerStartTick
<1> QED
  BY <1>2, <1>3, <1>4, <1>5, TickStaysOn

(* The loop is not in a callback, so that the handler is not either.       *)
LEMMA DelayLoop ==
    ASSUME DelayInv, TimerLoopStep, UNCHANGED queueVars
    PROVE  DelayInv'
<1>1. TimerThread \in Thread
  BY ThreadsDiffer
<1>2. /\ TimersOK /\ StagesOK /\ ListsOK /\ NoDelayForgotten
      /\ "tick" \in DOMAIN k /\ k.tick \in Tick /\ Shaped(soft) /\ LoopAgrees
  BY DEF DelayInv, TimersOK
<1>3. ASSUME loop.at # "callback", "tick" \in DOMAIN k', k'.tick \in Tick, MovesOn,
             UNCHANGED op, Shaped(soft'), LoopAgrees',
             Range(soft.list) \cup soft.temp \subseteq Range(soft'.list) \cup soft'.temp
      PROVE  DelayInv'
  <2>1. TimersOK' /\ \A w : Coming(w) => Coming(w)'
    BY <1>2, <1>3, LoopStep
  <2>2. stage[TimerThread] = "entry"
    BY <1>2, <1>3 DEF StagesOK
  <2> QED
    BY <1>2, <2>1, <2>2, QueueStays DEF DelayInv
<1>4. CASE Scan
  <2>1. /\ loop.at = "scan" /\ UNCHANGED <<kernelVars, soft, op>>
        /\ loop' = IF NextTimeout = RtTickMax THEN Loop("suspend", 0)
                   ELSE Loop("delay", NextTimeout)
    BY <1>4 DEF Scan, InLoop
  <2>2. NextTimeout \in Tick
    <3>1. soft.list \in Seq(Timer) /\ soft.due \in [Timer -> Tick]
      BY <1>2 DEF Shaped, SoftLists
    <3> QED
      BY <3>1, TickEnds, HeadIn DEF NextTimeout
  <2>3. loop'.at \in {"suspend", "delay"} /\ loop'.value \in Tick
    BY <2>1, <2>2, LoopIs, TickEnds
  <2>4. LoopAgrees'
    BY <1>2, <2>1, <2>3 DEF LoopAgrees
  <2> QED
    BY <1>2, <1>3, <2>1, <2>4 DEF kernelVars, MovesOn
<1>5. CASE SuspendSelf
  <2>1. /\ loop.at = "suspend" /\ UNCHANGED <<soft, op>> /\ pc[TimerThread] = "run"
        /\ loop' = Loop("check", 0) /\ Goto(TimerThread, "sched")
        /\ k' = ThreadSuspend(k, TimerThread)
    BY <1>5 DEF SuspendSelf, InLoop, At
  <2>2. LoopAgrees'
    BY <1>2, <2>1, LoopIs, TickEnds DEF LoopAgrees
  <2>3. "tick" \in DOMAIN k' /\ k'.tick \in Tick
    BY <1>2, <2>1, SuspendTick DEF TickStays
  <2>4. MovesOn
    BY <1>1, <2>1, GoesMoves DEF Location
  <2> QED
    BY <1>2, <1>3, <2>1, <2>2, <2>3, <2>4
<1>6. CASE DelayTest
  <2>1. /\ loop.at = "delay" /\ UNCHANGED <<kernelVars, soft, op>>
        /\ \E n \in {Minus(loop.value, k.tick)} :
              loop' = IF n < HalfTick THEN Loop("sleep", n) ELSE Loop("check", 0)
    BY <1>6 DEF DelayTest, InLoop
  <2>2. Minus(loop.value, k.tick) \in Tick
    BY <1>2, <2>1, MinusIs DEF LoopAgrees
  <2>3. LoopAgrees'
    BY <1>2, <2>1, <2>2, LoopIs, TickEnds DEF LoopAgrees
  <2> QED
    BY <1>2, <1>3, <2>1, <2>3 DEF kernelVars, MovesOn
<1>7. CASE SleepSelf
  <2>1. /\ loop.at = "sleep" /\ UNCHANGED <<soft, op>> /\ pc[TimerThread] = "run"
        /\ loop' = Loop("check", 0) /\ Goto(TimerThread, "nap")
        /\ k' = TimerStart(ThreadSuspend(k, TimerThread), TimerThread, loop.value)
    BY <1>7 DEF SleepSelf, InLoop, At
  <2>2. LoopAgrees'
    BY <1>2, <2>1, LoopIs, TickEnds DEF LoopAgrees
  <2>3. PICK s : s = ThreadSuspend(k, TimerThread)
    OBVIOUS
  <2>4. TickStays(k, s) /\ TickStays(s, k')
    BY <2>1, <2>3, SuspendTick, TimerStartTick
  <2>5. "tick" \in DOMAIN k' /\ k'.tick \in Tick
    BY <1>2, <2>4 DEF TickStays
  <2>6. MovesOn
    BY <1>1, <2>1, GoesMoves DEF Location
  <2> QED
    BY <1>2, <1>3, <2>1, <2>2, <2>5, <2>6
<1>8. CASE SoftTimerCheck
  <2>1. loop.at = "check" /\ CheckFrom(soft) /\ UNCHANGED <<kernelVars, op>>
    BY <1>8 DEF SoftTimerCheck, InLoop
  <2>2. soft.temp = {} /\ soft.busy = FALSE
    BY <1>2, <2>1 DEF LoopAgrees, Shaped, SoftLists
  <2>3. /\ Shaped(soft') /\ LoopAgrees'
        /\ Range(soft.list) \subseteq Range(soft'.list) \cup soft'.temp
    BY <1>2, <2>1, <2>2, CheckShaped
  <2> QED
    BY <1>2, <1>3, <2>1, <2>2, <2>3 DEF kernelVars, MovesOn
<1>9. CASE RtSchedule(TimerThread) /\ UNCHANGED softVars
  BY <1>1, <1>9, RtScheduleMoves, DelayRests
<1>10. CASE Napped(TimerThread) /\ UNCHANGED softVars
  BY <1>1, <1>10, NappedMoves, DelayRests
<1> QED
  BY <1>4, <1>5, <1>6, <1>7, <1>8, <1>9, <1>10 DEF TimerLoopStep

LEMMA StageStep ==
    ASSUME StagesOK, NEW t \in Thread, NEW where \in Stage, GoOn(t, where),
           t = WorkThread => where \in {"loop", "work", "ack", "acking"},
           t = TimerThread =>
              /\ where \in {"entry", "queue", "done"}
              /\ where # "entry" => loop'.at = "callback"
              /\ where = "done" => soft'.temp = {},
           t \in User => where \in {"none", "sync", "drain"},
           t # TimerThread => UNCHANGED loop /\ soft'.temp \subseteq soft.temp
    PROVE  StagesOK'
<1>1. /\ stage' \in [Thread -> Stage] /\ stage'[t] = where
      /\ \A u \in Thread \ {t} : stage'[u] = stage[u]
  BY DEF StagesOK, GoOn
<1>2. WorkThread \in Thread /\ TimerThread \in Thread /\ User \subseteq Thread
  BY ThreadsDiffer
<1>3. CASE t = TimerThread
  <2>1. TimerThread # WorkThread /\ TimerThread \notin User
    BY ThreadsDiffer
  <2> QED
    BY <1>1, <1>2, <1>3, <2>1 DEF StagesOK
<1>4. CASE t # TimerThread
  BY <1>1, <1>2, <1>4 DEF StagesOK
<1> QED
  BY <1>3, <1>4

LEMMA StopLoses ==
    ASSUME Shaped(soft), NEW w \in Work, soft' = SoftStop(soft, w)
    PROVE  Loses({w}) /\ soft'.temp = soft.temp \ {w}
<1>1. /\ Shaped(soft') /\ Range(soft'.list) = Range(soft.list) \ {w}
      /\ soft'.temp = soft.temp \ {w} /\ soft'.busy = soft.busy
  BY StopShaped DEF Work
<1> QED
  BY <1>1 DEF Loses

LEMMA MayStopLoses ==
    ASSUME Shaped(soft), NEW w \in Work, soft' \in {soft, SoftStop(soft, w)}
    PROVE  Loses({w})
<1>1. CASE soft' = soft
  BY <1>1 DEF Loses
<1> QED
  BY <1>1, StopLoses

LEMMA WakeMoves ==
    ASSUME NEW t \in Thread, pc[t] = "run", WakeWorkThread(t)
    PROVE  MovesOn /\ TickStays(k, k')
<1>1. \/ k' = ThreadResume(k, WorkThread) /\ Goto(t, "sched")
      \/ UNCHANGED <<k, pc>>
  BY DEF WakeWorkThread
<1>2. CASE k' = ThreadResume(k, WorkThread) /\ Goto(t, "sched")
  BY <1>2, GoesMoves, ResumeTick DEF Location
<1>3. CASE UNCHANGED <<k, pc>>
  BY <1>3 DEF MovesOn, TickStays
<1> QED
  BY <1>1, <1>2, <1>3

LEMMA KernelRests ==
    ASSUME UNCHANGED <<k, pc>>
    PROVE  MovesOn /\ TickStays(k, k')
BY DEF MovesOn, TickStays

LEMMA DelayHandler ==
    ASSUME DelayInv, HandlerEnter \/ HandlerHalts \/ HandlerQueues
    PROVE  DelayInv'
<1>1. TimerThread \in Thread /\ TimerThread # WorkThread /\ TimerThread \notin User
  BY ThreadsDiffer
<1>2. /\ TimersOK /\ StagesOK /\ ListsOK /\ NoDelayForgotten /\ Proper(queue)
      /\ Shaped(soft) /\ LoopAgrees /\ pc \in [Thread -> Location]
  BY DEF DelayInv, TimersOK, ListsOK
<1>3. CASE HandlerEnter
  <2>1. GoOn(TimerThread, "queue") /\ UNCHANGED vars /\ queue' = queue
        /\ loop.at = "callback"
    BY <1>3 DEF HandlerEnter, HandlerAt, InLoop
  <2>2. UNCHANGED <<k, pc>> /\ UNCHANGED softVars /\ loop' = loop
    BY <2>1 DEF vars, kernelVars, softVars
  <2>3. TimersOK' /\ \A w : Coming(w) => Coming(w)'
    BY <1>2, <2>2, KernelRests, TimersRest
  <2>4. StagesOK'
    BY <1>1, <1>2, <2>1, <2>2, StageStep DEF Stage
  <2> QED
    BY <1>2, <2>1, <2>3, <2>4, DelayKept, DelayedComes
<1>4. CASE HandlerHalts
  <2>1. PICK mask \in {"on", "off"} : Halts(TimerThread, mask)
    BY <1>4 DEF HandlerHalts
  <2> QED
    BY <1>2, <2>1, HaltsMoves, DelayRests
<1>5. CASE HandlerQueues
  <2>1. PICK w \in Work : w = loop.value
    BY <1>2, <1>5 DEF HandlerQueues, HandlerAt, InLoop, LoopAgrees, Work
  <2>2. /\ soft' = SoftStop(soft, w) /\ queue' = Arrives(queue, w)
        /\ WakeWorkThread(TimerThread) /\ GoOn(TimerThread, "done")
        /\ UNCHANGED <<loop, op>> /\ pc[TimerThread] = "run"
    BY <1>5, <2>1 DEF HandlerQueues, Arrives, HandlerAt, InLoop, At
  <2>3. Loses({w}) /\ soft'.temp = soft.temp \ {w}
    BY <1>2, <2>2, StopLoses
  <2>4. soft'.temp = {}
    BY <1>2, <2>1, <2>3 DEF LoopAgrees
  <2>5. MovesOn /\ TickStays(k, k')
    BY <1>1, <2>2, WakeMoves
  <2>6. TimersOK' /\ \A x : x # w /\ Coming(x) => Coming(x)'
    BY <1>2, <2>2, <2>3, <2>5, ListStep
  <2>7. StagesOK'
    <3>1. loop'.at = "callback"
      BY <1>5, <2>2 DEF HandlerQueues, HandlerAt, InLoop
    <3> QED
      BY <1>1, <1>2, <2>2, <2>4, <3>1, StageStep DEF Stage
  <2>8. /\ Proper(queue') /\ Range(queue'.delayed) = Range(queue.delayed) \ {w}
        /\ queue'.submitting = queue.submitting \ {w}
    BY <1>2, <2>2, ArrivesIs
  <2> QED
    BY <1>2, <2>6, <2>7, <2>8, DelayKept, DelayedComes
<1> QED
  BY <1>3, <1>4, <1>5

LEMMA DelayTimerStep ==
    ASSUME DelayInv, TimerStep
    PROVE  DelayInv'
<1>1. CASE TimerLoopStep /\ UNCHANGED queueVars
  BY <1>1, DelayLoop
<1>2. CASE HandlerEnter \/ HandlerHalts \/ HandlerQueues
  BY <1>2, DelayHandler
<1>3. CASE /\ HandlerAt("done") /\ CallbackReturns
           /\ GoOn(TimerThread, "entry") /\ UNCHANGED queue
  <2>1. /\ TimersOK /\ StagesOK /\ ListsOK /\ NoDelayForgotten /\ Proper(queue)
        /\ Shaped(soft) /\ LoopAgrees /\ "tick" \in DOMAIN k /\ k.tick \in Tick
    BY DEF DelayInv, TimersOK, ListsOK
  <2>2. soft.temp = {} /\ loop.value \in Timer
    BY <1>3, <2>1 DEF HandlerAt, InLoop, StagesOK, LoopAgrees
  <2>3. PICK tm \in Timer : tm = loop.value
    BY <2>2
  <2>4. CheckFrom(SoftReturn(soft, tm)) /\ UNCHANGED <<kernelVars, op>>
    BY <1>3, <2>3 DEF CallbackReturns
  <2>5. PICK r : r = SoftReturn(soft, tm)
    OBVIOUS
  <2>6. Periodic = {}
    BY WorkQueueAssumption
  <2>7. Shaped(r) /\ r.temp = {} /\ r.busy = FALSE /\ r.list = soft.list
    BY <2>1, <2>2, <2>5, <2>6, ReturnShaped
  <2>8. CheckFrom(r)
    BY <2>4, <2>5
  <2>9. /\ Shaped(soft') /\ LoopAgrees'
        /\ Range(r.list) \subseteq Range(soft'.list) \cup soft'.temp
    BY <2>1, <2>7, <2>8, CheckShaped
  <2>10. UNCHANGED <<k, pc>> /\ op' = op
    BY <2>4 DEF kernelVars
  <2>11. TimersOK' /\ \A w : Coming(w) => Coming(w)'
    BY <2>1, <2>2, <2>7, <2>9, <2>10, KernelRests, LoopStep
  <2>12. TimerThread \in Thread /\ TimerThread # WorkThread /\ TimerThread \notin User
    BY ThreadsDiffer
  <2>13. StagesOK'
    BY <1>3, <2>1, <2>12, StageStep DEF Stage
  <2> QED
    BY <1>3, <2>1, <2>11, <2>13, DelayKept, DelayedComes
<1> QED
  BY <1>1, <1>2, <1>3 DEF TimerStep

(* The work thread, and the threads that sleep, yield or start others.     *)
LEMMA DelayStage ==
    ASSUME DelayInv, TickStays(k, k'), MovesOn, UNCHANGED softVars,
           NEW t \in Thread, t # TimerThread, NEW where \in Stage, GoOn(t, where),
           t = WorkThread => where \in {"loop", "work", "ack", "acking"},
           t \in User => where \in {"none", "sync", "drain"},
           Proper(queue'),
           Range(queue'.delayed) \subseteq Range(queue.delayed),
           queue'.submitting = queue.submitting
    PROVE  DelayInv'
<1>1. TimersOK' /\ \A w : Coming(w) => Coming(w)'
  BY TimersRest DEF DelayInv
<1>2. loop' = loop /\ soft' = soft
  BY DEF softVars
<1>3. StagesOK'
  BY <1>2, StageStep DEF DelayInv
<1> QED
  BY <1>1, <1>3, DelayKept, DelayedComes DEF DelayInv

LEMMA DelayWorkThread ==
    ASSUME DelayInv, WorkThreadStep
    PROVE  DelayInv'
<1>1. WorkThread \in Thread /\ WorkThread # TimerThread /\ WorkThread \notin User
  BY ThreadsDiffer
<1>2. StagesOK /\ ListsOK /\ Proper(queue) /\ queue \in QueueState
  BY DEF DelayInv, ListsOK, Proper
<1>3. ASSUME UNCHANGED <<k, pc, softVars>>, NEW where \in {"loop", "work", "ack", "acking"},
             GoOn(WorkThread, where), Proper(queue'), UNCHANGED <<queue.delayed, queue.submitting>>
      PROVE  DelayInv'
  <2>1. MovesOn /\ TickStays(k, k')
    BY <1>3, KernelRests
  <2> QED
    BY <1>1, <1>3, <2>1, DelayStage DEF Stage
<1>4. CASE WorkNone
  <2>1. k' = ThreadSuspend(k, WorkThread) /\ Goto(WorkThread, "sched")
        /\ UNCHANGED softVars /\ UNCHANGED queueVars /\ pc[WorkThread] = "run"
    BY <1>4 DEF WorkNone, WorkAt, At
  <2>2. MovesOn
    BY <1>1, <2>1, GoesMoves DEF Location
  <2> QED
    BY <2>1, <2>2, SuspendTick, DelayRests
<1>5. CASE WorkTake
  <2>1. queue.work # <<>> /\ queue.work \in Seq(Work) /\ Distinct(queue.work)
    BY <1>2, <1>5 DEF WorkTake, QueueState, Proper
  <2>2. PICK w \in Work : w = Head(queue.work)
    BY <2>1, HeadIn
  <2>3. PICK l \in Seq(Work) : l = Tail(queue.work)
    BY <2>1, HeadIn
  <2>4. Distinct(l) /\ Range(l) = Range(queue.work) \ {w}
    BY <2>1, <2>2, <2>3, TailProperties
  <2>5. /\ queue' = [queue EXCEPT !.work = l, !.current = w, !.bound = @ \ {w}]
        /\ GoOn(WorkThread, "work") /\ UNCHANGED vars
    BY <1>5, <2>2, <2>3 DEF WorkTake
  <2>6. /\ queue' \in QueueState /\ queue'.work = l
        /\ queue'.delayed = queue.delayed /\ queue'.submitting = queue.submitting
    BY <1>2, <2>5 DEF QueueState
  <2>7. Proper(queue')
    BY <1>2, <2>4, <2>6 DEF Proper
  <2> QED
    BY <1>3, <2>5, <2>6, <2>7 DEF vars, kernelVars
<1>6. CASE WorkDone
  <2>1. /\ queue' = [queue EXCEPT !.current = None]
        /\ GoOn(WorkThread, "ack") /\ UNCHANGED vars
    BY <1>6 DEF WorkDone
  <2>2. /\ queue' \in QueueState /\ queue'.work = queue.work
        /\ queue'.delayed = queue.delayed /\ queue'.submitting = queue.submitting
    BY <1>2, <2>1 DEF QueueState
  <2>3. Proper(queue')
    BY <1>2, <2>2 DEF Proper
  <2> QED
    BY <1>3, <2>1, <2>2, <2>3 DEF vars, kernelVars
<1>7. CASE AckBegin
  <2>1. /\ k' = [k EXCEPT !.lock = @ + 1] /\ GoOn(WorkThread, "acking")
        /\ UNCHANGED pc /\ UNCHANGED softVars /\ queue' = queue
    BY <1>7 DEF AckBegin
  <2>2. MovesOn /\ TickStays(k, k')
    BY <2>1 DEF MovesOn, TickStays
  <2> QED
    BY <1>1, <1>2, <2>1, <2>2, DelayStage DEF Stage
<1>8. CASE AckRelease
  <2>1. /\ k' = ThreadResume(k, Head(k.wait[Ack]))
        /\ UNCHANGED pc /\ UNCHANGED softVars /\ UNCHANGED queueVars
    BY <1>8 DEF AckRelease
  <2> QED
    BY <2>1, ResumeTick, DelayRests DEF MovesOn
<1>9. CASE AckEnd
  <2>1. /\ k' = [k EXCEPT !.lock = @ - 1] /\ GoOn(WorkThread, "loop")
        /\ Goto(WorkThread, "sched") /\ UNCHANGED softVars /\ queue' = queue
        /\ pc[WorkThread] = "run"
    BY <1>9 DEF AckEnd, WorkAt, At
  <2>2. MovesOn /\ TickStays(k, k')
    BY <1>1, <2>1, GoesMoves DEF Location, TickStays
  <2> QED
    BY <1>1, <1>2, <2>1, <2>2, DelayStage DEF Stage
<1>10. CASE /\ RtSchedule(WorkThread) \/ Napped(WorkThread) \/ Sleep(WorkThread)
            /\ UNCHANGED <<softVars, queueVars>>
  BY <1>1, <1>10, RtScheduleMoves, NappedMoves, SleepMoves, DelayRests
<1> QED
  BY <1>4, <1>5, <1>6, <1>7, <1>8, <1>9, <1>10 DEF WorkThreadStep

LEMMA DelayClient ==
    ASSUME DelayInv, NEW t \in Client, ClientStep(t), UNCHANGED queueVars
    PROVE  DelayInv'
<1>1. t \in Thread
  BY ThreadsDiffer
<1>2. UNCHANGED softVars
  BY DEF ClientStep
<1>3. CASE RtSchedule(t) \/ Napped(t) \/ Sleep(t)
  BY <1>1, <1>2, <1>3, RtScheduleMoves, NappedMoves, SleepMoves, DelayRests
<1>4. ASSUME NEW u \in Worker, Startup(t, u)
      PROVE  DelayInv'
  <2>1. k' = ThreadStartup(k, u) /\ Goto(t, "sched") /\ pc[t] = "run"
    BY <1>4 DEF Startup, At
  <2>2. MovesOn
    BY <1>1, <2>1, GoesMoves DEF Location
  <2> QED
    BY <1>2, <2>1, <2>2, StartupTick, DelayRests
<1>5. CASE Yield(t)
  BY <1>2, <1>5, YieldTick, DelayRests DEF Yield, MovesOn
<1>6. CASE EnterCritical(t)
  BY <1>2, <1>6, DelayRests DEF EnterCritical, MovesOn, TickStays
<1>7. CASE ExitCritical(t)
  <2>1. k' = [k EXCEPT !.lock = @ - 1] /\ pc[t] = "run"
        /\ (Goto(t, "sched") \/ UNCHANGED pc)
    BY <1>7 DEF ExitCritical, At
  <2>2. MovesOn
    <3>1. CASE Goto(t, "sched")
      BY <1>1, <2>1, <3>1, GoesMoves DEF Location
    <3> QED
      BY <2>1, <3>1 DEF MovesOn
  <2> QED
    BY <1>2, <2>1, <2>2, DelayRests DEF TickStays
<1> QED
  BY <1>3, <1>4, <1>5, <1>6, <1>7 DEF ClientStep, CpuStep

(* The calls that leave the delayed works alone, but for those they        *)
(* cancel.  The stages are as they were.                                   *)
LEMMA DelayCancels ==
    ASSUME DelayInv, TickStays(k, k'), MovesOn, UNCHANGED <<loop, op, stage>>,
           NEW w \in Work, Loses({w}), Proper(queue'),
           Range(queue'.delayed) = Range(queue.delayed) \ {w},
           queue.submitting \ {w} \subseteq queue'.submitting
    PROVE  DelayInv'
<1>1. TimersOK' /\ \A x : x # w /\ Coming(x) => Coming(x)'
  BY ListStep DEF DelayInv
<1>2. StagesOK'
  BY DEF DelayInv, StagesOK, Loses
<1>3. \A x \in Range(queue'.delayed) : x \in queue'.submitting /\ Coming(x)'
  BY <1>1, DelayedComes DEF DelayInv
<1> QED
  BY <1>1, <1>2, <1>3, DelayKept

LEMMA DelaySubmit ==
    ASSUME DelayInv, NEW t \in Client, NEW w \in Work,
           \/ SubmitNow(t, w) \/ SubmitRefused(t, w)
           \/ CriticalWork(t, w) \/ CancelWork(t, w)
    PROVE  DelayInv'
<1>1. t \in Thread
  BY ThreadsDiffer
<1>2. Proper(queue) /\ Shaped(soft)
  BY DEF DelayInv, TimersOK, ListsOK
<1>3. pc[t] = "run"
  BY DEF SubmitNow, SubmitRefused, CriticalWork, CancelWork, MayCall, At
<1>4. UNCHANGED soft => Loses({w})
  BY <1>2 DEF Loses
<1>5. CASE SubmitNow(t, w)
  <2>1. /\ WakeWorkThread(t) /\ UNCHANGED softVars /\ UNCHANGED stage
        /\ queue' \in {PutLast(queue, w), Delist(queue, w)}
    BY <1>5 DEF SubmitNow
  <2>2. /\ Proper(queue') /\ Range(queue'.delayed) = Range(queue.delayed) \ {w}
        /\ queue'.submitting = queue.submitting
    <3>1. CASE queue' = PutLast(queue, w)
      BY <1>2, <3>1, PutLastIs
    <3>2. CASE queue' = Delist(queue, w)
      BY <1>2, <3>2, DelistIs
    <3> QED
      BY <2>1, <3>1, <3>2
  <2>3. MovesOn /\ TickStays(k, k')
    BY <1>1, <1>3, <2>1, WakeMoves
  <2> QED
    BY <1>4, <2>1, <2>2, <2>3, DelayCancels DEF softVars
<1>6. CASE CriticalWork(t, w)
  <2>1. /\ WakeWorkThread(t) /\ UNCHANGED softVars /\ UNCHANGED stage
        /\ queue' = PutFirst(queue, w)
    BY <1>6 DEF CriticalWork
  <2>2. /\ Proper(queue') /\ Range(queue'.delayed) = Range(queue.delayed) \ {w}
        /\ queue'.submitting = queue.submitting
    BY <1>2, <2>1, PutFirstIs
  <2>3. MovesOn /\ TickStays(k, k')
    BY <1>1, <1>3, <2>1, WakeMoves
  <2> QED
    BY <1>4, <2>1, <2>2, <2>3, DelayCancels DEF softVars
<1>7. CASE CancelWork(t, w)
  <2>1. /\ queue' = Cancel(queue, w) /\ soft' \in {soft, SoftStop(soft, w)}
        /\ UNCHANGED <<k, pc>> /\ UNCHANGED <<loop, op, stage>>
    BY <1>7 DEF CancelWork, CancelTimer, kernelVars
  <2>2. /\ Proper(queue') /\ Range(queue'.delayed) = Range(queue.delayed) \ {w}
        /\ queue'.submitting = queue.submitting \ {w}
    BY <1>2, <2>1, CancelIs
  <2>3. Loses({w})
    BY <1>2, <2>1, MayStopLoses
  <2> QED
    BY <2>1, <2>2, <2>3, KernelRests, DelayCancels
<1>8. CASE SubmitRefused(t, w)
  <2>1. /\ queue' = Delist(queue, w) /\ UNCHANGED soft
        /\ UNCHANGED <<k, pc>> /\ UNCHANGED <<loop, op, stage>>
    BY <1>8 DEF SubmitRefused, vars, kernelVars, softVars
  <2>2. /\ Proper(queue') /\ Range(queue'.delayed) = Range(queue.delayed) \ {w}
        /\ queue'.submitting = queue.submitting
    BY <1>2, <2>1, DelistIs
  <2> QED
    BY <1>4, <2>1, <2>2, KernelRests, DelayCancels
<1> QED
  BY <1>5, <1>6, <1>7, <1>8

(* rt_workqueue_cancel_all_work takes the works one by one.                *)
LEMMA HeadOfTwo ==
    ASSUME NEW S, NEW a \in Seq(S), NEW b \in Seq(S), NEW l, l = a \o b, l # <<>>
    PROVE  Head(l) \in S /\ Head(l) \in Range(a) \cup Range(b)
<1>1. l \in Seq(S)
  OBVIOUS
<1>2. Len(a) \in Nat /\ Len(b) \in Nat
  BY LenProperties
<1>3. Len(l) = Len(a) + Len(b)
  OBVIOUS
<1>4. Len(l) > 0 /\ Head(l) = l[1] /\ Head(l) \in S
  BY <1>1, HeadIn
<1>5. CASE Len(a) > 0
  <2>1. l[1] = a[1] /\ 1 \in 1 .. Len(a)
    BY <1>2, <1>5
  <2> QED
    BY <1>4, <2>1, RangeIs
<1>6. CASE Len(a) = 0
  <2>1. l = b
    BY <1>6
  <2> QED
    BY <2>1, HeadIn
<1> QED
  BY <1>2, <1>4, <1>5, <1>6

LEMMA FirstLeft ==
    ASSUME Proper(queue), queue.work \o queue.delayed # <<>>
    PROVE  /\ Head(queue.work \o queue.delayed) \in Work
           /\ Head(queue.work \o queue.delayed)
                 \in Range(queue.work) \cup Range(queue.delayed)
<1>1. queue.work \in Seq(Work) /\ queue.delayed \in Seq(Work)
  BY DEF Proper, QueueState
<1>2. PICK l : l = queue.work \o queue.delayed
  OBVIOUS
<1>3. Head(l) \in Work /\ Head(l) \in Range(queue.work) \cup Range(queue.delayed)
  BY <1>1, <1>2, HeadOfTwo
<1> QED
  BY <1>2, <1>3

(* A delayed submission, and rt_timer_start at its end.                    *)
LEMMA DelaySubmitDelayed ==
    ASSUME DelayInv, NEW t \in Client, NEW w \in Work, SubmitDelayed(t, w)
    PROVE  DelayInv'
<1>1. t \in Thread /\ w \in Timer
  BY ThreadsDiffer DEF Work
<1>2. /\ Proper(queue) /\ Shaped(soft) /\ TimersOK /\ StagesOK /\ Tasks
      /\ NoDelayForgotten
  BY DEF DelayInv, TimersOK, ListsOK
<1>3. /\ pc[t] = "run" /\ Goto(t, "call") /\ op' = [op EXCEPT ![t] = Op("start", w)]
      /\ soft' \in {soft, SoftStop(soft, w)} /\ UNCHANGED <<k, loop, stage>>
  BY DEF SubmitDelayed, MayCall, At, Calls
<1>4. Delays(queue, w, queue')
  BY DEF SubmitDelayed, Delays
<1>5. /\ Proper(queue') /\ Range(queue'.delayed) = Range(queue.delayed) \cup {w}
      /\ queue'.submitting = queue.submitting \cup {w}
  <2>1. PICK q : q = queue
    OBVIOUS
  <2>2. PICK r : r = queue'
    OBVIOUS
  <2>3. Proper(q) /\ Delays(q, w, r)
    BY <1>2, <1>4, <2>1, <2>2
  <2>4. /\ Proper(r) /\ Range(r.delayed) = Range(q.delayed) \cup {w}
        /\ r.submitting = q.submitting \cup {w}
    BY <2>3, DelayIs
  <2> QED
    BY <2>1, <2>2, <2>4
<1>6. Loses({w})
  BY <1>2, <1>3, MayStopLoses
<1>7. op[t].what = "none"
  BY <1>1, <1>2, <1>3 DEF Tasks
<1>8. Starts(t)
  BY <1>7, OpIs DEF Starts
<1>9. PICK o \in Task : o = Op("start", w)
  BY <1>1, OpIs DEF Task, Ops
<1>10. o.what = "start" /\ o.timer = w
  BY <1>9, OpIs
<1>11. TickStays(k, k')
  BY <1>3 DEF TickStays
<1>12. "call" \in Location
  BY DEF Location
<1>13. Takes(t, o)
  BY <1>1, <1>3, <1>8, <1>9, <1>10, <1>11, <1>12 DEF Takes
<1>14. TimersOK' /\ \A x : x # w /\ Coming(x) => Coming(x)'
  BY <1>1, <1>2, <1>6, <1>13, TaskStep
<1>15. Coming(w)'
  <2>1. op'[t] = Op("start", w)
    BY <1>1, <1>2, <1>3 DEF Tasks
  <2> QED
    BY <1>1, <2>1 DEF Coming
<1>16. StagesOK'
  BY <1>2, <1>3, <1>6 DEF StagesOK, Loses
<1> QED
  BY <1>2, <1>5, <1>14, <1>15, <1>16, DelayKept, DelayedComes

LEMMA DelayTask ==
    ASSUME DelayInv, NEW t \in Client,
           Start(t) \/ StartTest(t) \/ ResumeUnlink(t) \/ ResumeInsert(t),
           UNCHANGED queueVars
    PROVE  DelayInv'
<1>1. t \in Thread
  BY ThreadsDiffer
<1>2. /\ Shaped(soft) /\ TimersOK /\ Tasks /\ k.tick \in Tick
  BY DEF DelayInv, TimersOK
<1>3. ASSUME NEW what \in {"none", "test", "unlink", "insert"}, NEW loc \in Location,
             op' = [op EXCEPT ![t] = Op(what, "none")], Goto(t, loc),
             what # "none" => loc = "call",
             TickStays(k, k'), UNCHANGED loop, Loses({}),
             Starts(t)
      PROVE  DelayInv'
  <2>1. PICK o \in Task : o = Op(what, "none")
    BY OpIs DEF Task, Ops
  <2>2. o.what = what
    BY <2>1, OpIs
  <2>3. Takes(t, o)
    BY <1>3, <2>1, <2>2 DEF Takes
  <2>4. TimersOK' /\ \A w : w \notin {} /\ Coming(w) => Coming(w)'
    BY <1>1, <1>2, <1>3, <2>3, TaskStep
  <2> QED
    BY <1>3, <2>4, QueueStays DEF DelayInv, Loses
<1>4. NoOp = Op("none", "none") /\ Location = Location \cup {"call", "run", "sched"}
  BY DEF NoOp, Location
<1>5. ASSUME NEW what, InOp(t, what), what # "start", UNCHANGED soft
      PROVE  Loses({}) /\ Starts(t)
  BY <1>2, <1>5, LosesNone, OpIs DEF InOp, Starts
<1>6. CASE Start(t)
  <2>1. /\ op[t].what = "start" /\ soft' = SoftStart(soft, op[t].timer)
        /\ Calls(t, "test", "none") /\ UNCHANGED <<k, loop>>
    BY <1>6 DEF Start, InOp
  <2>2. PICK tm \in Timer : tm = op[t].timer
    BY <1>1, <1>2, <2>1 DEF Tasks
  <2>3. /\ Shaped(soft') /\ Range(soft'.list) = Range(soft.list) \cup {tm}
        /\ soft'.temp = soft.temp \ {tm} /\ soft'.busy = soft.busy
    BY <1>2, <2>1, <2>2, StartShaped
  <2>4. Loses({}) /\ Starts(t)
    BY <2>2, <2>3, OpIs DEF Loses, Starts
  <2> QED
    BY <1>3, <1>4, <2>1, <2>4 DEF Calls, TickStays
<1>7. CASE StartTest(t)
  <2>1. InOp(t, "test") /\ UNCHANGED <<k, soft, loop>>
        /\ (Calls(t, "unlink", "none") \/ Returns(t, "run"))
    BY <1>7 DEF StartTest
  <2> QED
    BY <1>3, <1>4, <1>5, <2>1 DEF Calls, Returns, TickStays
<1>8. CASE ResumeUnlink(t)
  <2>1. /\ InOp(t, "unlink") /\ UNCHANGED <<soft, loop>> /\ Calls(t, "insert", "none")
        /\ k' = TimerStop(Unlink(k, TimerThread), TimerThread)
    BY <1>8 DEF ResumeUnlink
  <2>2. PICK u : u = Unlink(k, TimerThread)
    OBVIOUS
  <2>3. TickStays(k, u) /\ TickStays(u, k')
    BY <2>1, <2>2, UnlinkTick, TimerStopTick
  <2>4. TickStays(k, k')
    BY <2>3, TickStaysOn
  <2> QED
    BY <1>3, <1>4, <1>5, <2>1, <2>4 DEF Calls
<1>9. CASE ResumeInsert(t)
  <2>1. /\ InOp(t, "insert") /\ UNCHANGED <<soft, loop>> /\ Returns(t, "sched")
        /\ k' = InsertThread(k, TimerThread)
    BY <1>9 DEF ResumeInsert
  <2>2. TickStays(k, k')
    BY <2>1, InsertTick
  <2> QED
    BY <1>3, <1>4, <1>5, <2>1, <2>2 DEF Returns
<1> QED
  BY <1>6, <1>7, <1>8, <1>9

LEMMA BlockTick ==
    ASSUME NEW b, NEW o, NEW t, NEW flag
    PROVE  TickStays(b, Block(b, o, t, flag, -1))
<1>1. PICK e : e = [b EXCEPT !.error[t] = "OK"]
  OBVIOUS
<1>2. PICK s : s = ThreadSuspend(e, t)
  OBVIOUS
<1>3. PICK j : j = Join(s, o, t, flag)
  OBVIOUS
<1>4. TickStays(b, e) /\ TickStays(s, j)
  BY <1>1, <1>3 DEF TickStays, Join
<1>5. TickStays(e, s)
  BY <1>2, SuspendTick
<1>6. Block(b, o, t, flag, -1) = j
  BY <1>1, <1>2, <1>3 DEF Block, IpcListSuspend
<1> QED
  BY <1>4, <1>5, <1>6, TickStaysOn

LEMMA DelayCall ==
    ASSUME DelayInv, NEW t \in Client, QueueCall(t)
    PROVE  DelayInv'
<1>1. t \in Thread /\ t # TimerThread /\ (t # WorkThread => t \in User)
      /\ (t \in User => t # WorkThread)
  BY ThreadsDiffer DEF User
<1>2. /\ StagesOK /\ ListsOK /\ Proper(queue) /\ Shaped(soft)
      /\ pc \in [Thread -> Location] /\ NoDelayForgotten
  BY DEF DelayInv, TimersOK, ListsOK
<1>3. ASSUME UNCHANGED softVars, queue' = queue, NEW where \in {"none", "sync", "drain"},
             t # WorkThread, GoOn(t, where), MovesOn, TickStays(k, k')
      PROVE  DelayInv'
  BY <1>1, <1>2, <1>3, DelayStage DEF Stage
<1>4. ASSUME NEW w \in Work,
             SubmitNow(t, w) \/ SubmitDelayed(t, w) \/ SubmitRefused(t, w)
                \/ CriticalWork(t, w) \/ CancelWork(t, w) \/ SyncTest(t, w)
      PROVE  DelayInv'
  <2>1. CASE SyncTest(t, w)
    <3>1. /\ t # WorkThread /\ GoOn(t, "sync") /\ UNCHANGED <<vars, queue>>
      BY <2>1 DEF SyncTest
    <3>2. UNCHANGED softVars /\ UNCHANGED <<k, pc>>
      BY <3>1 DEF vars, kernelVars
    <3> QED
      BY <1>3, <3>1, <3>2, KernelRests
  <2> QED
    BY <1>4, <2>1, DelaySubmit, DelaySubmitDelayed
<1>5. CASE SubmitStarts(t)
  BY <1>5, DelayTask DEF SubmitStarts
<1>6. CASE SubmitHalts(t)
  <2>1. Halts(t, "on")
    BY <1>6 DEF SubmitHalts
  <2> QED
    BY <1>2, <2>1, HaltsMoves, DelayRests
<1>7. CASE SyncWait(t)
  <2>1. /\ k' = Block(k, Ack, t, "FIFO", -1) /\ Goto(t, "wait") /\ GoOn(t, "none")
        /\ UNCHANGED softVars /\ queue' = queue /\ pc[t] = "run" /\ stage[t] = "sync"
    BY <1>7 DEF SyncWait, At
  <2>2. t # WorkThread
    BY <1>2, <2>1 DEF StagesOK
  <2>3. MovesOn
    BY <1>1, <2>1, GoesMoves DEF Location
  <2> QED
    BY <1>3, <2>1, <2>2, <2>3, BlockTick
<1>8. CASE SyncReturns(t)
  <2>1. /\ Goto(t, "run") /\ UNCHANGED <<k, irq, softVars, queueVars>> /\ pc[t] = "woken"
    BY <1>8 DEF SyncReturns, At
  <2>2. MovesOn
    BY <1>1, <2>1, GoesMoves DEF Location
  <2> QED
    BY <2>1, <2>2, DelayRests DEF TickStays
<1>9. CASE CancelAllBegin(t)
  <2>1. /\ t # WorkThread /\ k' = [k EXCEPT !.lock = @ + 1] /\ GoOn(t, "drain")
        /\ UNCHANGED pc /\ UNCHANGED softVars /\ queue' = queue
    BY <1>9 DEF CancelAllBegin
  <2>2. MovesOn /\ TickStays(k, k')
    BY <2>1 DEF MovesOn, TickStays
  <2> QED
    BY <1>3, <2>1, <2>2
<1>10. CASE CancelNext(t)
  <2>1. queue.work \o queue.delayed # <<>>
    BY <1>10 DEF CancelNext
  <2>2. PICK w \in Work : w = Head(queue.work \o queue.delayed)
    BY <1>2, <2>1, FirstLeft
  <2>3. /\ queue' = Cancel(queue, w) /\ soft' \in {soft, SoftStop(soft, w)}
        /\ UNCHANGED <<k, pc>> /\ UNCHANGED <<loop, op, stage>>
    BY <1>10, <2>2 DEF CancelNext, CancelTimer, kernelVars
  <2>4. /\ Proper(queue') /\ Range(queue'.delayed) = Range(queue.delayed) \ {w}
        /\ queue'.submitting = queue.submitting \ {w}
    BY <1>2, <2>3, CancelIs
  <2>5. Loses({w})
    BY <1>2, <2>3, MayStopLoses
  <2> QED
    BY <2>3, <2>4, <2>5, KernelRests, DelayCancels
<1>11. CASE CancelAllEnd(t)
  <2>1. /\ k' = [k EXCEPT !.lock = @ - 1] /\ GoOn(t, "none") /\ Goto(t, "sched")
        /\ UNCHANGED softVars /\ queue' = queue /\ pc[t] = "run" /\ stage[t] = "drain"
    BY <1>11 DEF CancelAllEnd, Draining, At
  <2>2. t # WorkThread
    BY <1>2, <2>1 DEF StagesOK
  <2>3. MovesOn /\ TickStays(k, k')
    BY <1>1, <2>1, GoesMoves DEF Location, TickStays
  <2> QED
    BY <1>3, <2>1, <2>2, <2>3
<1>12. CASE (StartTest(t) \/ ResumeUnlink(t) \/ ResumeInsert(t)) /\ UNCHANGED queueVars
  BY <1>12, DelayTask
<1> QED
  BY <1>4, <1>5, <1>6, <1>7, <1>8, <1>9, <1>10, <1>11, <1>12 DEF QueueCall

LEMMA DelayStep ==
    ASSUME DelayInv, [QueueNext]_allVars
    PROVE  DelayInv'
<1>1. CASE QueueClock /\ UNCHANGED queueVars
  BY <1>1, DelayClock
<1>2. CASE TimerStep
  BY <1>2, DelayTimerStep
<1>3. CASE WorkThreadStep
  BY <1>3, DelayWorkThread
<1>4. ASSUME NEW t \in User, ClientStep(t) /\ UNCHANGED queueVars
      PROVE  DelayInv'
  BY <1>4, ThreadsDiffer, DelayClient
<1>5. ASSUME NEW t \in Client, QueueCall(t)
      PROVE  DelayInv'
  BY <1>5, DelayCall
<1>6. CASE UNCHANGED allVars
  <2>1. UNCHANGED <<k, pc>> /\ UNCHANGED softVars /\ UNCHANGED queueVars
    BY <1>6 DEF allVars, vars, kernelVars
  <2> QED
    BY <2>1, KernelRests, DelayRests
<1>7. ASSUME NEW t \in Thread, Halted(t)
      PROVE  DelayInv'
  BY <1>6, <1>7 DEF Halted
<1> QED
  BY <1>1, <1>2, <1>3, <1>4, <1>5, <1>6, <1>7 DEF QueueNext

LEMMA StartSoft == Shaped(NoTimers) /\ NoTimers.list = <<>> /\ NoTimers.temp = {}
                   /\ NoTimers.busy = FALSE
<1>1. 0 \in Tick
  BY TickEnds
<1>2. /\ NoTimers.list = <<>> /\ NoTimers.temp = {} /\ NoTimers.busy = FALSE
      /\ NoTimers \in SoftLists
  BY <1>1 DEF NoTimers, SoftLists
<1>3. Distinct(<<>>)
  BY DEF Distinct
<1> QED
  BY <1>2, <1>3 DEF Shaped

LEMMA DelayInit ==
    ASSUME QueueInit
    PROVE  DelayInv
<1>1. /\ pc = [t \in Thread |-> "run"] /\ soft = NoTimers
      /\ loop = Loop("scan", 0) /\ op = [t \in Thread |-> NoOp]
      /\ stage = [t \in Thread |-> StageAtStart(t)]
      /\ queue = [work |-> <<>>, delayed |-> <<>>, current |-> None,
                  submitting |-> {}, bound |-> {}]
  BY DEF QueueInit
<1>2. "tick" \in DOMAIN k /\ k.tick \in Tick
  <2>1. PICK b : b = Started
    OBVIOUS
  <2>2. PICK u : u = ThreadStartup(b, TimerThread)
    OBVIOUS
  <2>3. k = ThreadStartup(u, WorkThread)
    BY <2>1, <2>2 DEF QueueInit
  <2>4. b \in KernelState
    BY <2>1, StartedSound DEF Sound, Linked
  <2>5. "tick" \in DOMAIN b /\ b.tick \in Tick
    BY <2>4 DEF KernelState
  <2>6. TickStays(b, u) /\ TickStays(u, k)
    BY <2>2, <2>3, StartupTick
  <2> QED
    BY <2>5, <2>6 DEF TickStays
<1>3. pc \in [Thread -> Location]
  BY <1>1 DEF Location
<1>4. LoopAgrees
  BY <1>1, StartSoft, LoopIs, TickEnds DEF LoopAgrees
<1>5. Tasks
  BY <1>1, OpIs DEF Tasks, Task
<1>6. TimersOK
  BY <1>1, <1>2, <1>3, <1>4, <1>5, StartSoft DEF TimersOK
<1>7. StagesOK
  <2>1. \A t \in Thread : stage[t] = StageAtStart(t) /\ StageAtStart(t) \in Stage
    BY <1>1 DEF StageAtStart, Stage
  <2>2. stage[WorkThread] = "loop" /\ stage[TimerThread] = "entry"
    BY <2>1, ThreadsDiffer DEF StageAtStart
  <2>3. \A t \in User : stage[t] = "none"
    BY <2>1, ThreadsDiffer DEF StageAtStart
  <2> QED
    BY <1>1, <2>1, <2>2, <2>3 DEF StagesOK
<1>8. ListsOK /\ queue.delayed = <<>>
  <2>1. Distinct(<<>>)
    BY DEF Distinct
  <2>2. <<>> \in Seq(Work)
    OBVIOUS
  <2>3. queue \in QueueState /\ queue.work = <<>> /\ queue.delayed = <<>>
    BY <1>1, <2>2 DEF QueueState
  <2>4. Range(queue.work) = {}
    BY <2>2, <2>3, EmptyRange
  <2> QED
    BY <2>1, <2>3, <2>4 DEF ListsOK, Proper
<1>9. NoDelayForgotten
  <2>1. queue.delayed \in Seq(Work)
    BY <1>8
  <2>2. Range(queue.delayed) = {}
    BY <1>8, <2>1, EmptyRange
  <2> QED
    BY <2>2 DEF NoDelayForgotten
<1> QED
  BY <1>6, <1>7, <1>8, <1>9 DEF DelayInv

(* No delayed work is forgotten, whatever threads submit, cancel and sleep *)
(* and however they preempt one another, also after a failed assertion     *)
(* (_workqueue_submit_work, _delayed_work_timeout_handler,                 *)
(* _workqueue_cancel_work): its timer is armed or is being called, or      *)
(* rt_timer_start is on the way.                                           *)
THEOREM NoDelayLost == QueueSpec => []NoDelayForgotten
<1>1. QueueInit => DelayInv
  BY DelayInit
<1>2. DelayInv /\ [QueueNext]_allVars => DelayInv'
  BY DelayStep
<1>3. DelayInv => NoDelayForgotten
  BY DEF DelayInv
<1> QED
  BY <1>1, <1>2, <1>3, PTL DEF QueueSpec

-----------------------------------------------------------------------------
(* The scheduler under the work queue.  Only _workqueue_work_completion    *)
(* and rt_workqueue_cancel_all_work lock it, and only for the thread that  *)
(* runs.                                                                   *)
LockOK ==
    /\ stage[WorkThread] = "acking" => k.cur = WorkThread /\ k.lock = 1
    /\ \A t \in User : stage[t] = "drain" => k.cur = t /\ k.lock > 0
    /\ k.lock # 0 => /\ k.cur = WorkThread => stage[WorkThread] = "acking"
                     /\ stage[k.cur] # "sync"

WorkInv == TimerInv /\ DelayInv /\ LockOK /\ NoWorkMissed

LEMMA LockRests ==
    ASSUME LockOK, UNCHANGED stage, k'.lock = k.lock, k.lock # 0 => k'.cur = k.cur
    PROVE  LockOK'
BY DEF LockOK

(* Nobody who holds the lock goes on to another part of a function.        *)
LEMMA LockFree ==
    ASSUME LockOK, stage \in [Thread -> Stage], k.lock = 0, k'.lock = 0,
           NEW t \in Thread, NEW where, where \notin {"acking", "drain"},
           GoOn(t, where)
    PROVE  LockOK'
<1>1. stage[WorkThread] # "acking" /\ \A u \in User : stage[u] # "drain"
  BY DEF LockOK
<1>2. \A u \in Thread : stage'[u] = IF u = t THEN where ELSE stage[u]
  BY DEF GoOn
<1>3. WorkThread \in Thread /\ User \subseteq Thread
  BY ThreadsDiffer
<1> QED
  BY <1>1, <1>2, <1>3 DEF LockOK

(* A thread of the program takes or releases the lock, and goes on.        *)
LEMMA LockUser ==
    ASSUME LockOK, NEW t \in User, k.cur = t, stage[t] = "none",
           UNCHANGED stage, k'.cur = k.cur
    PROVE  LockOK'
<1>1. t # WorkThread
  BY ThreadsDiffer
<1>2. stage[WorkThread] # "acking" /\ \A u \in User : stage[u] # "drain"
  BY <1>1 DEF LockOK
<1> QED
  BY <1>1, <1>2 DEF LockOK

(* The work list does not grow, and the work thread neither falls asleep   *)
(* nor goes back to the start of its loop.                                 *)
LEMMA MissRests ==
    ASSUME NoWorkMissed, Proper(queue), Proper(queue'),
           Range(queue'.work) \subseteq Range(queue.work),
           queue'.current = None => queue.current = None,
           k'.stat[WorkThread] = "SUSPEND" => k.stat[WorkThread] = "SUSPEND",
           stage'[WorkThread] = "loop" => stage[WorkThread] = "loop"
    PROVE  NoWorkMissed'
<1>1. PICK a \in Seq(Work) : a = queue.work
  BY DEF Proper, QueueState
<1>2. PICK b \in Seq(Work) : b = queue'.work
  BY DEF Proper, QueueState
<1>3. a = <<>> => b = <<>>
  <2>1. (a = <<>> <=> Range(a) = {}) /\ (b = <<>> <=> Range(b) = {})
    BY EmptyRange
  <2>2. Range(b) \subseteq Range(a)
    BY <1>1, <1>2
  <2> QED
    BY <2>1, <2>2
<1> QED
  BY <1>1, <1>2, <1>3 DEF NoWorkMissed, WorkThreadIdle

(* The end of a submission finds out whether the work thread is idle.      *)
LEMMA WakeMisses ==
    ASSUME Sound(k), NEW t \in Thread, WakeWorkThread(t),
           queue'.current = queue.current
    PROVE  NoWorkMissed'
<1>1. CASE WorkThreadIdle
  <2>1. k' = ThreadResume(k, WorkThread)
    BY <1>1 DEF WakeWorkThread
  <2>2. k'.stat[WorkThread] # "SUSPEND"
    BY <2>1, ThreadsDiffer, ResumeWakes
  <2> QED
    BY <2>2 DEF NoWorkMissed, WorkThreadIdle
<1>2. CASE ~WorkThreadIdle
  BY <1>2 DEF WakeWorkThread, NoWorkMissed, WorkThreadIdle
<1> QED
  BY <1>1, <1>2

(* It wakes the work thread, or does nothing to the kernel.                *)
LEMMA WakeInv ==
    ASSUME TimerInv, NEW t \in Thread, k.cur = t, k.stat[t] = "RUNNING",
           UNCHANGED irq, WakeWorkThread(t)
    PROVE  /\ TimerInv'
           /\ k'.lock = k.lock /\ k'.cur = k.cur
<1>1. CASE WorkThreadIdle
  <2>1. k' = ThreadResume(k, WorkThread)
    BY <1>1 DEF WakeWorkThread
  <2>2. Wakes(k, k')
    BY <2>1, ThreadsDiffer, ResumeWakes DEF TimerInv
  <2>3. k'.cur = k.cur /\ k'.lock = k.lock
    BY <2>1, ThreadsDiffer, ResumeStates DEF TimerInv, Sound, Linked
  <2>4. k.stat[k.cur] # "SUSPEND" /\ irq' \in {"on", "off", "tick"}
    BY DEF TimerInv
  <2>5. TimerInv'
    BY <2>2, <2>4, WokenQuiet
  <2> QED
    BY <2>3, <2>5
<1>2. CASE ~WorkThreadIdle
  <2>1. UNCHANGED <<k, pc, irq>>
    BY <1>2 DEF WakeWorkThread
  <2> QED
    BY <2>1 DEF TimerInv
<1> QED
  BY <1>1, <1>2

(* What a client does to the others: it wakes them, at most.               *)
Rests(t) ==
    /\ \A u \in Thread \ {t} : k'.stat[u] = "SUSPEND" => k.stat[u] = "SUSPEND"
    /\ k'.lock = k.lock
    /\ k.lock # 0 => k'.cur = k.cur

LEMMA WakesRests ==
    ASSUME TimerInv, Wakes(k, k'), NEW t
    PROVE  Rests(t)
BY DEF Rests, Wakes, TimerInv, Sound, Alive, OneRuns

LEMMA SuspendsRests ==
    ASSUME TimerInv, k.lock = 0, NEW t \in Thread, NEW n \in Nat,
           k.cur = t, k.stat[t] = "RUNNING", t # Idle,
           \/ k' = ThreadSuspend(k, t)
           \/ k' = TimerStart(ThreadSuspend(k, t), t, n)
    PROVE  Rests(t)
<1> DEFINE s == ThreadSuspend(k, t)
<1>1. Suspends(k, s, t)
  BY SuspendRunning DEF TimerInv
<1>2. k' = s \/ k' = TimerStart(s, t, n)
  OBVIOUS
<1> HIDE DEF s
<1>3. /\ s.stat = [k.stat EXCEPT ![t] = "SUSPEND"] /\ s.cur = k.cur /\ s.lock = 0
      /\ Sound(s)
  BY <1>1 DEF Suspends
<1>4. s.stat[t] = "SUSPEND"
  BY <1>3 DEF TimerInv, Sound, Linked, KernelState
<1>5. k'.cur = s.cur /\ k'.lock = s.lock /\ k'.stat = s.stat
  BY <1>2, <1>3, <1>4, TimerStartSound
<1>6. \A u \in Thread \ {t} : k'.stat[u] = k.stat[u]
  BY <1>3, <1>5 DEF TimerInv, Sound, Linked, KernelState
<1> QED
  BY <1>3, <1>5, <1>6 DEF Rests

LEMMA PlainRests ==
    ASSUME k'.cur = k.cur, k'.lock = k.lock, k'.stat = k.stat, NEW t
    PROVE  Rests(t)
BY DEF Rests

LEMMA RtScheduleRests ==
    ASSUME TimerInv, NEW t \in Thread, RtSchedule(t)
    PROVE  Rests(t)
BY ScheduleWakes, WakesRests DEF RtSchedule, TimerInv

LEMMA NappedRests ==
    ASSUME TimerInv, NEW t \in Thread, Napped(t)
    PROVE  Rests(t)
BY PlainRests DEF Napped, TimerInv, Sound, Linked, KernelState

LEMMA ClientRests ==
    ASSUME TimerInv, NEW t \in Client, ClientStep(t)
    PROVE  Rests(t) \/ (k'.cur = k.cur /\ k'.stat = k.stat)
<1>1. t \in Thread /\ t # Idle /\ t # TimerThread
  BY DEF Client, Worker
<1>2. CASE Sleep(t)
  <2>1. At(t, "run") /\ k.lock = 0
    BY <1>2 DEF Sleep, MayBlock
  <2>2. PICK n \in SleepTimes : k' = TimerStart(ThreadSuspend(k, t), t, n)
    BY <1>2 DEF Sleep
  <2>3. n \in Nat
    BY ProcessorAssumption
  <2>4. k.cur = t /\ k.stat[t] = "RUNNING"
    BY <1>1, <2>1, AtRunsTimer
  <2> QED
    BY <1>1, <2>1, <2>2, <2>3, <2>4, SuspendsRests
<1>3. ASSUME NEW u \in Worker, Startup(t, u)
      PROVE  Rests(t)
  <2>1. k.stat[u] = "INIT" /\ k' = ThreadStartup(k, u) /\ u \in Thread
    BY <1>3 DEF Startup, Worker
  <2> QED
    BY <2>1, StartupWakes, WakesRests DEF TimerInv
<1>4. CASE Yield(t)
  <2> DEFINE y == [k EXCEPT !.remaining[t] = InitTick[t], !.yield[t] = TRUE]
  <2>1. k' = Schedule(y)
    BY <1>4 DEF Yield, ThreadYield
  <2>2. /\ y \in KernelState
        /\ y.cur = k.cur /\ y.stat = k.stat /\ y.prio = k.prio
        /\ y.mask = k.mask /\ y.ready = k.ready /\ y.group = k.group
        /\ y.wait = k.wait /\ y.timers = k.timers /\ y.lock = k.lock
    BY <1>1, KernelAssumption DEF TimerInv, Sound, Linked, KernelState
  <2> HIDE DEF y
  <2>3. Sound(y) /\ Wakes(k, y)
    BY <2>2, PlainUpdate DEF TimerInv
  <2>4. Wakes(y, k')
    BY <2>1, <2>3, ScheduleWakes
  <2> QED
    BY <2>3, <2>4, WakesTransitive, WakesRests
<1>5. CASE EnterCritical(t) \/ ExitCritical(t)
  <2>1. k'.cur = k.cur /\ k'.stat = k.stat
    BY <1>5 DEF EnterCritical, ExitCritical, TimerInv, Sound, Linked, KernelState
  <2> QED
    BY <2>1
<1> QED
  BY <1>1, <1>2, <1>3, <1>4, <1>5, RtScheduleRests, NappedRests
     DEF ClientStep, CpuStep

(* The steps that leave the queue alone.                                   *)
LEMMA WorkRests ==
    ASSUME WorkInv, TimerInv', DelayInv', UNCHANGED queueVars,
           NEW t \in Thread, t = WorkThread => stage[t] # "loop", Rests(t)
    PROVE  WorkInv'
<1>1. queue' = queue /\ stage' = stage
  BY DEF queueVars
<1>2. LockOK'
  BY <1>1, LockRests DEF WorkInv, Rests
<1>3. NoWorkMissed'
  BY <1>1, ThreadsDiffer DEF WorkInv, NoWorkMissed, WorkThreadIdle, Rests
<1> QED
  BY <1>2, <1>3 DEF WorkInv

LEMMA WorkClock ==
    ASSUME WorkInv, QueueClock, UNCHANGED queueVars
    PROVE  WorkInv'
<1>1. DelayInv'
  BY DelayClock DEF WorkInv
<1>2. TimerInv /\ Sound(k)
  BY DEF WorkInv, TimerInv
<1>3. ASSUME TickIsr, Wakes(k, k')
      PROVE  WorkInv'
  <2>1. TimerInv'
    BY <1>2, <1>3, TickInv
  <2>2. Rests(TimerThread)
    BY <1>2, <1>3, WakesRests
  <2> QED
    BY <1>1, <2>1, <2>2, ThreadsDiffer, WorkRests
<1>4. CASE QueueTick
  BY <1>2, <1>3, <1>4, TickIncreaseWakes DEF QueueTick, TickIsr, TickInterrupt
<1>5. CASE Timeout
  <2>1. k.timers # <<>> /\ k.timers \in Seq(Thread)
    BY <1>2, <1>5 DEF Timeout, TimerExpired, Sound, Linked, KernelState
  <2>2. k.stat[Head(k.timers)] = "SUSPEND"
    BY <1>2, <2>1, HeadIn DEF Sound, Timed
  <2>3. TimerCheck
    BY <1>5, <2>2 DEF Timeout
  <2> QED
    BY <1>2, <1>3, <2>1, <2>3, TimerFireWakes DEF TimerCheck, TickIsr
<1>6. CASE TickReturn
  BY <1>2, <1>3, <1>6, WakesNone DEF TickReturn, TickIsr
<1> QED
  BY <1>4, <1>5, <1>6 DEF QueueClock

(* A step in which the kernel does nothing.                                *)
LEMMA SameInv ==
    ASSUME TimerInv, NEW t \in Thread, k.cur = t, k.stat[t] = "RUNNING",
           UNCHANGED k, irq' \in {"on", "off", "tick"}
    PROVE  TimerInv'
BY DEF TimerInv

(* The timer loop.                                                         *)
LEMMA WorkLoop ==
    ASSUME WorkInv, TimerLoopStep, UNCHANGED queueVars
    PROVE  WorkInv'
<1>1. DelayInv'
  BY DelayLoop DEF WorkInv
<1>2. TimerInv /\ pc \in [Thread -> Location] /\ LoopAgrees
  BY DEF WorkInv, DelayInv, TimersOK
<1>3. TimerThread \in Thread /\ TimerThread # Idle /\ WorkThread # TimerThread
  BY ThreadsDiffer
<1>4. ASSUME TimerInv', Rests(TimerThread)
      PROVE  WorkInv'
  BY <1>1, <1>3, <1>4, WorkRests
<1>5. CASE UNCHANGED kernelVars
  <2>1. UNCHANGED k
    BY <1>5 DEF kernelVars
  <2>2. TimerInv'
    BY <1>2, <1>5 DEF kernelVars, TimerInv
  <2> QED
    BY <1>4, <2>1, <2>2, PlainRests
<1>6. CASE SuspendSelf \/ SleepSelf
  <2>1. At(TimerThread, "run") /\ UNCHANGED irq
    BY <1>6 DEF SuspendSelf, SleepSelf, InLoop
  <2>2. k.cur = TimerThread /\ k.stat[TimerThread] = "RUNNING"
    BY <1>2, <1>3, <2>1, AtRunsTimer
  <2>3. k.lock = 0
    BY <1>2, <2>2 DEF TimerInv
  <2>4. CASE SuspendSelf
    <3>1. k' = ThreadSuspend(k, TimerThread) /\ Goto(TimerThread, "sched")
      BY <2>4 DEF SuspendSelf
    <3>2. TimerInv' /\ Rests(TimerThread)
      BY <1>2, <1>3, <2>1, <2>2, <2>3, <3>1, SuspendInv, SuspendsRests
    <3> QED
      BY <1>4, <3>2
  <2>5. CASE SleepSelf
    <3>1. PICK n \in {loop.value} :
             /\ k' = TimerStart(ThreadSuspend(k, TimerThread), TimerThread, n)
             /\ Goto(TimerThread, "nap")
      BY <2>5 DEF SleepSelf
    <3>2. n \in Nat
      BY <1>2, <2>5 DEF SleepSelf, InLoop, LoopAgrees, Tick
    <3>3. TimerInv' /\ Rests(TimerThread)
      BY <1>2, <1>3, <2>1, <2>2, <2>3, <3>1, <3>2, SuspendInv, SuspendsRests
    <3> QED
      BY <1>4, <3>3
  <2> QED
    BY <1>6, <2>4, <2>5
<1>7. CASE RtSchedule(TimerThread)
  BY <1>2, <1>3, <1>4, <1>7, RtScheduleInv, RtScheduleRests
<1>8. CASE Napped(TimerThread)
  BY <1>2, <1>3, <1>4, <1>8, NappedInv, NappedRests
<1> QED
  BY <1>5, <1>6, <1>7, <1>8
     DEF TimerLoopStep, Scan, DelayTest, SoftTimerCheck

(* The steps that take no work into the list.                              *)
LEMMA WorkTaken ==
    ASSUME WorkInv, TimerInv', DelayInv', LockOK',
           Range(queue'.work) \subseteq Range(queue.work),
           queue'.current = None => queue.current = None,
           k'.stat[WorkThread] = "SUSPEND" => k.stat[WorkThread] = "SUSPEND",
           stage'[WorkThread] = "loop" => stage[WorkThread] = "loop"
    PROVE  WorkInv'
<1>1. Proper(queue) /\ Proper(queue')
  BY DEF WorkInv, DelayInv, ListsOK
<1>2. NoWorkMissed'
  BY <1>1, MissRests DEF WorkInv
<1> QED
  BY <1>2 DEF WorkInv

LEMMA GoOnIs ==
    ASSUME WorkInv, NEW t \in Thread, NEW where, GoOn(t, where)
    PROVE  /\ stage \in [Thread -> Stage]
           /\ \A u \in Thread : stage'[u] = IF u = t THEN where ELSE stage[u]
BY DEF WorkInv, DelayInv, StagesOK, GoOn

(* The timeout handler of delayed works.                                   *)
LEMMA WorkHandler ==
    ASSUME WorkInv, TimerStep
    PROVE  WorkInv'
<1>1. TimerInv /\ DelayInv /\ DelayInv' /\ LockOK /\ Proper(queue)
  BY DelayTimerStep DEF WorkInv, DelayInv, ListsOK
<1>2. TimerThread \in Thread /\ WorkThread \in Thread /\ WorkThread # TimerThread
  BY ThreadsDiffer
<1>3. ASSUME InLoop("callback")
      PROVE  k.cur = TimerThread /\ k.stat[TimerThread] = "RUNNING" /\ k.lock = 0
  <2>1. At(TimerThread, "run")
    BY <1>3 DEF InLoop
  <2>2. k.cur = TimerThread /\ k.stat[TimerThread] = "RUNNING"
    BY <1>1, <1>2, <2>1, AtRunsTimer
  <2> QED
    BY <1>1, <2>2 DEF TimerInv
<1>4. ASSUME InLoop("callback"), UNCHANGED k, irq' \in {"on", "off", "tick"},
             queue' = queue, NEW where \in {"entry", "queue", "done"},
             GoOn(TimerThread, where)
      PROVE  WorkInv'
  <2>1. TimerInv'
    BY <1>1, <1>2, <1>3, <1>4, SameInv
  <2>2. stage' \in [Thread -> Stage] /\ stage'[WorkThread] = stage[WorkThread]
        /\ stage \in [Thread -> Stage]
    BY <1>1, <1>2, <1>4, GoOnIs DEF DelayInv, StagesOK
  <2>3. LockOK'
    BY <1>1, <1>2, <1>3, <1>4, <2>2, LockFree
  <2> QED
    BY <1>1, <1>4, <2>1, <2>2, <2>3, WorkTaken
<1>5. CASE TimerLoopStep /\ UNCHANGED queueVars
  BY <1>5, WorkLoop
<1>6. CASE HandlerEnter
  <2>1. InLoop("callback") /\ GoOn(TimerThread, "queue") /\ UNCHANGED k
        /\ UNCHANGED irq /\ queue' = queue
    BY <1>6 DEF HandlerEnter, HandlerAt, vars, kernelVars
  <2>2. irq' \in {"on", "off", "tick"}
    BY <1>1, <2>1 DEF TimerInv
  <2> QED
    BY <1>4, <2>1, <2>2
<1>7. CASE HandlerHalts
  <2>1. InLoop("callback") /\ UNCHANGED k /\ irq' \in {"on", "off"}
        /\ UNCHANGED queueVars
    BY <1>7 DEF HandlerHalts, HandlerAt, Halts
  <2>2. TimerInv'
    BY <1>1, <1>2, <1>3, <2>1, SameInv
  <2> QED
    BY <1>1, <1>2, <2>1, <2>2, PlainRests, WorkRests
<1>8. CASE HandlerQueues
  <2>1. InLoop("callback") /\ GoOn(TimerThread, "done") /\ UNCHANGED irq
        /\ WakeWorkThread(TimerThread)
    BY <1>8 DEF HandlerQueues, HandlerAt
  <2>2. queue' = Arrives(queue, loop.value) /\ loop.value \in Work
    BY <1>8 DEF HandlerQueues, HandlerAt, InLoop, Arrives, WorkInv, DelayInv,
         TimersOK, LoopAgrees, Work
  <2>3. queue'.current = queue.current
    BY <1>1, <2>2, ArrivesIs
  <2>4. TimerInv' /\ k'.lock = k.lock
    BY <1>1, <1>2, <1>3, <2>1, WakeInv
  <2>5. LockOK'
    BY <1>1, <1>2, <1>3, <2>1, <2>4, LockFree DEF DelayInv, StagesOK
  <2>6. NoWorkMissed'
    BY <1>1, <1>2, <2>1, <2>3, WakeMisses DEF TimerInv
  <2> QED
    BY <1>1, <2>4, <2>5, <2>6 DEF WorkInv
<1>9. CASE HandlerAt("done") /\ CallbackReturns
              /\ GoOn(TimerThread, "entry") /\ UNCHANGED queue
  <2>1. InLoop("callback") /\ UNCHANGED k /\ UNCHANGED irq
    BY <1>9 DEF HandlerAt, CallbackReturns, kernelVars
  <2>2. irq' \in {"on", "off", "tick"}
    BY <1>1, <2>1 DEF TimerInv
  <2> QED
    BY <1>4, <1>9, <2>1, <2>2
<1> QED
  BY <1>5, <1>6, <1>7, <1>8, <1>9 DEF TimerStep

(* The work thread.                                                        *)
LEMMA WorkRuns ==
    ASSUME WorkInv, NEW where, WorkAt(where)
    PROVE  /\ k.cur = WorkThread /\ k.stat[WorkThread] = "RUNNING"
           /\ stage[WorkThread] = where
           /\ where # "acking" => k.lock = 0
           /\ where = "acking" => k.lock = 1
<1>1. At(WorkThread, "run") /\ stage[WorkThread] = where
  BY DEF WorkAt
<1>2. k.cur = WorkThread /\ k.stat[WorkThread] = "RUNNING"
  BY <1>1, ThreadsDiffer, AtRunsTimer DEF WorkInv
<1> QED
  BY <1>1, <1>2 DEF WorkInv, LockOK

LEMMA LockUpdate ==
    ASSUME TimerInv, NEW t \in Thread, t # TimerThread, k.cur = t,
           k.stat[t] = "RUNNING", UNCHANGED irq,
           \/ k' = [k EXCEPT !.lock = @ + 1]
           \/ k' = [k EXCEPT !.lock = @ - 1] /\ k.lock > 0
    PROVE  /\ TimerInv'
           /\ k'.cur = k.cur /\ k'.stat = k.stat /\ k'.prio = k.prio
           /\ k'.wait = k.wait
<1>1. k \in KernelState
  BY DEF TimerInv, Sound, Linked
<1>2. k.lock + 1 \in Nat /\ (k.lock > 0 => k.lock - 1 \in Nat)
  BY <1>1 DEF KernelState
<1>3. PICK n \in Nat : k' = [k EXCEPT !.lock = n]
  BY <1>2
<1>4. /\ k' \in KernelState
      /\ k'.cur = k.cur /\ k'.stat = k.stat /\ k'.prio = k.prio
      /\ k'.mask = k.mask /\ k'.ready = k.ready /\ k'.group = k.group
      /\ k'.wait = k.wait /\ k'.timers = k.timers
  BY <1>1, <1>3 DEF KernelState
<1>5. TimerInv'
  BY <1>4, PlainInv
<1> QED
  BY <1>4, <1>5

LEMMA WorkNoneKeeps ==
    ASSUME WorkInv, DelayInv', WorkNone
    PROVE  WorkInv'
<1>1. /\ WorkAt("loop") /\ queue.work = <<>> /\ UNCHANGED <<irq, queueVars>>
      /\ k' = ThreadSuspend(k, WorkThread) /\ Goto(WorkThread, "sched")
  BY DEF WorkNone
<1>2. /\ k.cur = WorkThread /\ k.stat[WorkThread] = "RUNNING" /\ k.lock = 0
      /\ WorkThread \in Thread /\ WorkThread # Idle /\ TimerInv
      /\ pc \in [Thread -> Location]
  BY <1>1, WorkRuns, ThreadsDiffer DEF WorkInv, DelayInv, TimersOK
<1>3. PICK n \in Nat : n = 0
  OBVIOUS
<1>4. TimerInv' /\ Rests(WorkThread)
  BY <1>1, <1>2, <1>3, SuspendInv, SuspendsRests
<1>5. queue' = queue /\ stage' = stage
  BY <1>1 DEF queueVars
<1>6. LockOK'
  BY <1>4, <1>5, LockRests DEF Rests, WorkInv
<1>7. NoWorkMissed'
  BY <1>1, <1>5 DEF NoWorkMissed
<1> QED
  BY <1>4, <1>6, <1>7 DEF WorkInv

(* The work thread goes on, with the scheduler unlocked.                   *)
LEMMA WorkGoes ==
    ASSUME WorkInv, DelayInv', NEW from, WorkAt(from), from # "acking",
           UNCHANGED <<k, irq>>, NEW where \in {"work", "ack"}, GoOn(WorkThread, where)
    PROVE  WorkInv'
<1>1. /\ k.cur = WorkThread /\ k.stat[WorkThread] = "RUNNING" /\ k.lock = 0
      /\ WorkThread \in Thread /\ TimerInv /\ LockOK
  BY WorkRuns, ThreadsDiffer DEF WorkInv
<1>2. TimerInv'
  BY <1>1, SameInv DEF TimerInv
<1>3. stage'[WorkThread] = where /\ stage \in [Thread -> Stage]
  BY <1>1, GoOnIs
<1>4. LockOK'
  BY <1>1, <1>3, LockFree
<1>5. NoWorkMissed'
  BY <1>3 DEF NoWorkMissed
<1> QED
  BY <1>2, <1>4, <1>5 DEF WorkInv

LEMMA AckKeeps ==
    ASSUME WorkInv, DelayInv', AckBegin \/ AckRelease \/ AckEnd
    PROVE  WorkInv'
<1>1. /\ WorkThread \in Thread /\ WorkThread # TimerThread /\ TimerInv /\ LockOK
      /\ User \subseteq Thread /\ WorkThread \notin User
  BY ThreadsDiffer DEF WorkInv
<1>2. CASE AckBegin
  <2>1. /\ WorkAt("ack") /\ k' = [k EXCEPT !.lock = @ + 1] /\ UNCHANGED irq
        /\ GoOn(WorkThread, "acking")
    BY <1>2 DEF AckBegin
  <2>2. k.cur = WorkThread /\ k.stat[WorkThread] = "RUNNING" /\ k.lock = 0
    BY <2>1, WorkRuns
  <2>3. TimerInv' /\ k'.cur = k.cur /\ k'.lock = 1
    <3>1. TimerInv' /\ k'.cur = k.cur
      BY <1>1, <2>1, <2>2, LockUpdate
    <3>2. k'.lock = 1
      BY <1>1, <2>1, <2>2 DEF TimerInv, Sound, Linked, KernelState
    <3> QED
      BY <3>1, <3>2
  <2>4. \A u \in Thread : stage'[u] = IF u = WorkThread THEN "acking" ELSE stage[u]
    BY <1>1, <2>1, GoOnIs
  <2>5. LockOK'
    BY <1>1, <2>2, <2>3, <2>4 DEF LockOK
  <2>6. NoWorkMissed'
    BY <1>1, <2>4 DEF NoWorkMissed
  <2> QED
    BY <2>3, <2>5, <2>6 DEF WorkInv
<1>3. CASE AckRelease
  <2>1. /\ WorkAt("acking") /\ k' = ThreadResume(k, Head(k.wait[Ack])) /\ UNCHANGED irq
        /\ k.wait[Ack] # <<>> /\ UNCHANGED queueVars
    BY <1>3 DEF AckRelease
  <2>2. k.cur = WorkThread /\ k.stat[WorkThread] = "RUNNING" /\ stage[WorkThread] = "acking"
    BY <2>1, WorkRuns
  <2>3. Head(k.wait[Ack]) \in Thread
    BY <1>1, <2>1, WorkQueueAssumption, HeadIsWaiting DEF TimerInv
  <2>4. Wakes(k, k')
    BY <1>1, <2>1, <2>3, ResumeWakes DEF TimerInv
  <2>5. k.stat[k.cur] # "SUSPEND" /\ irq' \in {"on", "off", "tick"}
    BY <1>1, <2>1, <2>2 DEF TimerInv
  <2>6. TimerInv' /\ Rests(WorkThread)
    BY <1>1, <2>4, <2>5, WokenQuiet, WakesRests
  <2> QED
    BY <1>1, <2>1, <2>2, <2>6, WorkRests
<1>4. CASE AckEnd
  <2>1. /\ WorkAt("acking") /\ k' = [k EXCEPT !.lock = @ - 1] /\ UNCHANGED irq
        /\ GoOn(WorkThread, "loop")
    BY <1>4 DEF AckEnd
  <2>2. k.cur = WorkThread /\ k.stat[WorkThread] = "RUNNING" /\ k.lock = 1
    BY <2>1, WorkRuns
  <2>3. TimerInv' /\ k'.cur = k.cur /\ k'.lock = 0 /\ k'.stat = k.stat
    <3>1. TimerInv' /\ k'.cur = k.cur /\ k'.stat = k.stat
      BY <1>1, <2>1, <2>2, LockUpdate
    <3>2. k'.lock = 0
      BY <1>1, <2>1, <2>2 DEF TimerInv, Sound, Linked, KernelState
    <3> QED
      BY <3>1, <3>2
  <2>4. \A u \in Thread : stage'[u] = IF u = WorkThread THEN "loop" ELSE stage[u]
    BY <1>1, <2>1, GoOnIs
  <2>5. \A u \in User : stage[u] # "drain"
    BY <1>1, <2>2 DEF LockOK
  <2>6. LockOK'
    BY <1>1, <2>3, <2>4, <2>5 DEF LockOK
  <2>7. NoWorkMissed'
    BY <2>2, <2>3 DEF NoWorkMissed, WorkThreadIdle
  <2> QED
    BY <2>3, <2>6, <2>7 DEF WorkInv
<1> QED
  BY <1>2, <1>3, <1>4

LEMMA WorkThreadKeeps ==
    ASSUME WorkInv, WorkThreadStep
    PROVE  WorkInv'
<1>1. DelayInv'
  BY DelayWorkThread DEF WorkInv
<1>2. /\ WorkThread \in Client /\ WorkThread \in Thread /\ TimerInv
      /\ TimerThread \in Thread /\ TimerThread # WorkThread
      /\ pc \in [Thread -> Location]
  BY ThreadsDiffer DEF WorkInv, DelayInv, TimersOK
<1>3. CASE WorkTake
  <2>1. WorkAt("loop") /\ GoOn(WorkThread, "work") /\ UNCHANGED <<k, irq>>
    BY <1>3 DEF WorkTake, vars, kernelVars
  <2> QED
    BY <1>1, <2>1, WorkGoes
<1>4. CASE WorkDone
  <2>1. WorkAt("work") /\ GoOn(WorkThread, "ack") /\ UNCHANGED <<k, irq>>
    BY <1>4 DEF WorkDone, vars, kernelVars
  <2> QED
    BY <1>1, <2>1, WorkGoes
<1>5. CASE RtSchedule(WorkThread) /\ UNCHANGED <<softVars, queueVars>>
  <2>1. TimerInv'
    BY <1>2, <1>5, RtScheduleInv
  <2>2. k' = Schedule(k)
    BY <1>5 DEF RtSchedule
  <2>3. Rests(TimerThread)
    BY <1>2, <2>2, ScheduleWakes, WakesRests DEF TimerInv
  <2> QED
    BY <1>1, <1>2, <1>5, <2>1, <2>3, WorkRests
<1>6. CASE Napped(WorkThread) /\ UNCHANGED <<softVars, queueVars>>
  <2>1. TimerInv'
    BY <1>2, <1>6, NappedInv
  <2>2. k'.cur = k.cur /\ k'.lock = k.lock /\ k'.stat = k.stat
    BY <1>2, <1>6 DEF Napped, TimerInv, Sound, Linked, KernelState
  <2>3. Rests(TimerThread)
    BY <2>2, PlainRests
  <2> QED
    BY <1>1, <1>2, <1>6, <2>1, <2>3, WorkRests
<1>7. CASE /\ stage[WorkThread] = "work" /\ Sleep(WorkThread)
           /\ UNCHANGED <<softVars, queueVars>>
  <2>1. ClientStep(WorkThread) /\ k.lock = 0
    BY <1>7 DEF ClientStep, Sleep, MayBlock
  <2>2. TimerInv'
    BY <1>2, <2>1, ClientInv
  <2>3. At(WorkThread, "run")
    BY <1>7 DEF Sleep
  <2>4. PICK n \in SleepTimes : k' = TimerStart(ThreadSuspend(k, WorkThread), WorkThread, n)
    BY <1>7 DEF Sleep
  <2>5. n \in Nat
    BY ProcessorAssumption
  <2>6. k.cur = WorkThread /\ k.stat[WorkThread] = "RUNNING" /\ WorkThread # Idle
    BY <1>2, <2>3, AtRunsTimer, ThreadsDiffer
  <2>7. Rests(WorkThread)
    BY <1>2, <2>1, <2>4, <2>5, <2>6, SuspendsRests
  <2> QED
    BY <1>1, <1>2, <1>7, <2>2, <2>7, WorkRests
<1> QED
  BY <1>1, <1>3, <1>4, <1>5, <1>6, <1>7, WorkNoneKeeps, AckKeeps DEF WorkThreadStep

(* The clients.                                                            *)
LEMMA WorkClient ==
    ASSUME WorkInv, NEW t \in User, stage[t] = "none", ClientStep(t),
           UNCHANGED queueVars
    PROVE  WorkInv'
<1>1. /\ TimerInv /\ t \in Client /\ t \in Thread /\ t # WorkThread
      /\ pc \in [Thread -> Location]
  BY ThreadsDiffer DEF WorkInv, DelayInv, TimersOK
<1>2. DelayInv' /\ TimerInv'
  BY <1>1, DelayClient, ClientInv DEF WorkInv
<1>3. CASE Rests(t)
  BY <1>1, <1>2, <1>3, WorkRests
<1>4. CASE k'.cur = k.cur /\ k'.stat = k.stat
  <2>1. queue' = queue /\ stage' = stage
    BY DEF queueVars
  <2>2. k.cur = t
    BY DEF ClientStep, CpuStep, RtSchedule, Startup, Yield, Napped,
           EnterCritical, ExitCritical, Sleep, At
  <2>3. LockOK'
    BY <1>4, <2>1, <2>2, LockUser DEF WorkInv
  <2>4. NoWorkMissed'
    BY <1>4, <2>1 DEF WorkInv, NoWorkMissed, WorkThreadIdle
  <2> QED
    BY <1>2, <2>3, <2>4 DEF WorkInv
<1> QED
  BY <1>1, <1>3, <1>4, ClientRests

LEMMA MayCallRuns ==
    ASSUME WorkInv, NEW t \in Client, MayCall(t)
    PROVE  k.cur = t /\ k.stat[t] = "RUNNING" /\ (t # WorkThread => stage[t] = "none")
           /\ t \in Thread /\ t # TimerThread
BY ThreadsDiffer, AtRunsTimer DEF WorkInv, MayCall

LEMMA WorkSubmit ==
    ASSUME WorkInv, DelayInv', NEW t \in Client, NEW w \in Work,
           SubmitNow(t, w) \/ CriticalWork(t, w)
    PROVE  WorkInv'
<1>1. /\ k.cur = t /\ k.stat[t] = "RUNNING" /\ t \in Thread
      /\ TimerInv /\ Proper(queue) /\ LockOK
  BY MayCallRuns DEF WorkInv, DelayInv, ListsOK, SubmitNow, CriticalWork
<1>2. WakeWorkThread(t) /\ UNCHANGED <<irq, stage>>
  BY DEF SubmitNow, CriticalWork
<1>3. queue' \in {PutLast(queue, w), Delist(queue, w), PutFirst(queue, w)}
  BY DEF SubmitNow, CriticalWork
<1>4. queue'.current = queue.current
  BY <1>1, <1>3, PutLastIs, DelistIs, PutFirstIs
<1>5. TimerInv' /\ k'.lock = k.lock /\ k'.cur = k.cur
  BY <1>1, <1>2, WakeInv
<1>6. LockOK'
  BY <1>1, <1>2, <1>5, LockRests
<1>7. NoWorkMissed'
  BY <1>1, <1>2, <1>4, WakeMisses DEF TimerInv
<1> QED
  BY <1>5, <1>6, <1>7 DEF WorkInv

(* The calls that leave the kernel alone and put no work into the list.    *)
LEMMA WorkFewer ==
    ASSUME WorkInv, DelayInv', NEW t \in Thread, k.cur = t, k.stat[t] = "RUNNING",
           UNCHANGED <<k, stage>>, irq' \in {"on", "off", "tick"},
           Range(queue'.work) \subseteq Range(queue.work),
           queue'.current = queue.current
    PROVE  WorkInv'
<1>1. TimerInv'
  BY SameInv DEF WorkInv
<1>2. LockOK'
  BY LockRests DEF WorkInv
<1> QED
  BY <1>1, <1>2, WorkTaken

LEMMA WorkCancels ==
    ASSUME WorkInv, DelayInv', NEW t \in Client,
           \/ \E w \in Work : \/ SubmitDelayed(t, w) \/ SubmitRefused(t, w)
                            \/ CancelWork(t, w)
           \/ CancelNext(t)
    PROVE  WorkInv'
<1>1. k.cur = t /\ k.stat[t] = "RUNNING" /\ t \in Thread
  BY ThreadsDiffer, AtRunsTimer
     DEF SubmitDelayed, SubmitRefused, CancelWork, CancelNext, MayCall, Draining,
         WorkInv
<1>2. UNCHANGED <<k, stage>> /\ irq' \in {"on", "off", "tick"}
  BY DEF SubmitDelayed, SubmitRefused, CancelWork, CancelNext, vars, kernelVars,
         WorkInv, TimerInv
<1>3. Proper(queue)
  BY DEF WorkInv, DelayInv, ListsOK
<1>4. /\ Range(queue'.work) \subseteq Range(queue.work)
      /\ queue'.current = queue.current
  <2>1. ASSUME NEW w \in Work, SubmitDelayed(t, w)
        PROVE  /\ Range(queue'.work) \subseteq Range(queue.work)
               /\ queue'.current = queue.current
    <3>1. PICK q : q = queue
      OBVIOUS
    <3>2. PICK r : r = queue'
      OBVIOUS
    <3>3. Proper(q) /\ Delays(q, w, r)
      BY <1>3, <2>1, <3>1, <3>2 DEF SubmitDelayed, Delays
    <3>4. Range(r.work) = Range(q.work) \ {w} /\ r.current = q.current
      BY <3>3, DelayIs
    <3> QED
      BY <3>1, <3>2, <3>4
  <2>2. ASSUME NEW w \in Work, queue' = Cancel(queue, w)
        PROVE  /\ Range(queue'.work) \subseteq Range(queue.work)
               /\ queue'.current = queue.current
    BY <1>3, <2>2, CancelIs
  <2>3. ASSUME CancelNext(t)
        PROVE  \E w \in Work : queue' = Cancel(queue, w)
    BY <1>3, <2>3, FirstLeft DEF CancelNext
  <2>4. ASSUME NEW w \in Work, SubmitRefused(t, w)
        PROVE  /\ Range(queue'.work) \subseteq Range(queue.work)
               /\ queue'.current = queue.current
    BY <1>3, <2>4, DelistIs DEF SubmitRefused
  <2> QED
    BY <2>1, <2>2, <2>3, <2>4 DEF CancelWork
<1> QED
  BY <1>1, <1>2, <1>4, WorkFewer

(* rt_workqueue_cancel_work_sync.                                          *)
LEMMA BlockInv ==
    ASSUME TimerInv, NEW t \in Thread, t # Idle, t # TimerThread, k.cur = t,
           k.stat[t] = "RUNNING", k.lock = 0, pc \in [Thread -> Location],
           k' = Block(k, Ack, t, "FIFO", -1), Goto(t, "wait"), UNCHANGED irq
    PROVE  TimerInv' /\ Rests(t) /\ k'.lock = 0
<1>1. Ack \in Object
  BY WorkQueueAssumption
<1>2. Suspends(k, k', t)
  BY <1>1, BlockSuspends DEF TimerInv
<1>3. \A o \in Object : TimerThread \notin Range(k'.wait[o])
  BY <1>2, TimerThreadIs DEF Suspends, TimerInv
<1>4. Sound(k') /\ k'.cur = t /\ k'.lock = 0 /\ pc'[t] = "wait"
  BY <1>2 DEF Suspends, Goto
<1>5. TimerInv'
  BY <1>3, <1>4 DEF TimerInv
<1>6. \A u \in Thread \ {t} : k'.stat[u] = k.stat[u]
  BY <1>2 DEF Suspends, TimerInv, Sound, Linked, KernelState
<1> QED
  BY <1>4, <1>5, <1>6 DEF Rests

LEMMA WorkSync ==
    ASSUME WorkInv, DelayInv', NEW t \in Client,
           SyncWait(t) \/ SyncReturns(t) \/ \E w \in Work : SyncTest(t, w)
    PROVE  WorkInv'
<1>1. /\ t \in Thread /\ t # Idle /\ t # TimerThread /\ WorkThread \in Thread
      /\ TimerInv /\ LockOK /\ stage \in [Thread -> Stage]
      /\ pc \in [Thread -> Location]
  BY ThreadsDiffer DEF WorkInv, DelayInv, StagesOK, TimersOK
<1>2. CASE SyncWait(t)
  <2>1. /\ At(t, "run") /\ stage[t] = "sync" /\ Goto(t, "wait") /\ GoOn(t, "none")
        /\ k' = Block(k, Ack, t, "FIFO", -1) /\ UNCHANGED <<irq, queue>>
    BY <1>2 DEF SyncWait
  <2>2. k.cur = t /\ k.stat[t] = "RUNNING"
    BY <1>1, <2>1, AtRunsTimer
  <2>3. k.lock = 0 /\ t # WorkThread
    BY <1>1, <2>1, <2>2 DEF LockOK, WorkInv, DelayInv, StagesOK
  <2>4. TimerInv' /\ Rests(t) /\ k'.lock = 0
    BY <1>1, <2>1, <2>2, <2>3, BlockInv
  <2>5. LockOK'
    BY <1>1, <2>1, <2>3, <2>4, LockFree
  <2>6. stage'[WorkThread] = stage[WorkThread]
    BY <1>1, <2>1, <2>3, GoOnIs
  <2> QED
    BY <1>1, <2>1, <2>3, <2>4, <2>5, <2>6, WorkTaken DEF Rests
<1>3. CASE SyncReturns(t)
  <2>1. At(t, "woken") /\ UNCHANGED <<k, irq, queueVars>>
    BY <1>3 DEF SyncReturns
  <2>2. k.cur = t /\ k.stat[t] = "RUNNING"
    BY <1>1, <2>1, AtRunsTimer
  <2> QED
    BY <1>1, <2>1, <2>2, WorkFewer DEF queueVars, TimerInv
<1>4. CASE \E w \in Work : SyncTest(t, w)
  <2>1. /\ MayCall(t) /\ t # WorkThread /\ k.lock = 0 /\ GoOn(t, "sync")
        /\ UNCHANGED <<k, irq, queue>>
    BY <1>4 DEF SyncTest, MayBlock, vars, kernelVars
  <2>2. k.cur = t /\ k.stat[t] = "RUNNING"
    BY <2>1, MayCallRuns
  <2>3. TimerInv'
    BY <1>1, <2>1, <2>2, SameInv DEF TimerInv
  <2>4. LockOK'
    BY <1>1, <2>1, LockFree
  <2>5. stage'[WorkThread] = stage[WorkThread]
    BY <1>1, <2>1, GoOnIs
  <2> QED
    BY <1>1, <2>1, <2>3, <2>4, <2>5, WorkTaken
<1> QED
  BY <1>2, <1>3, <1>4

(* rt_workqueue_cancel_all_work.                                           *)
LEMMA WorkDrain ==
    ASSUME WorkInv, DelayInv', NEW t \in Client, CancelAllBegin(t) \/ CancelAllEnd(t)
    PROVE  WorkInv'
<1>1. /\ t \in Thread /\ t # TimerThread /\ WorkThread \in Thread
      /\ TimerInv /\ LockOK /\ k \in KernelState /\ User \subseteq Thread
  BY ThreadsDiffer DEF WorkInv, TimerInv, Sound, Linked
<1>2. At(t, "run") /\ UNCHANGED <<irq, queue>>
  BY DEF CancelAllBegin, CancelAllEnd, MayCall, Draining
<1>3. k.cur = t /\ k.stat[t] = "RUNNING"
  BY <1>1, <1>2, AtRunsTimer
<1>4. t # WorkThread /\ t \in User
  BY DEF CancelAllBegin, CancelAllEnd, Draining, WorkInv, DelayInv, StagesOK, User
<1>5. stage[WorkThread] # "acking" /\ \A u \in User \ {t} : stage[u] # "drain"
  BY <1>1, <1>3, <1>4 DEF LockOK
<1>6. CASE CancelAllBegin(t)
  <2>1. k' = [k EXCEPT !.lock = @ + 1] /\ GoOn(t, "drain")
    BY <1>6 DEF CancelAllBegin
  <2>2. TimerInv' /\ k'.cur = k.cur /\ k'.stat = k.stat
    BY <1>1, <1>2, <1>3, <2>1, LockUpdate
  <2>3. k'.lock > 0
    BY <1>1, <2>1 DEF KernelState
  <2>4. \A u \in Thread : stage'[u] = IF u = t THEN "drain" ELSE stage[u]
    BY <1>1, <2>1, GoOnIs
  <2>5. LockOK'
    BY <1>1, <1>3, <1>4, <1>5, <2>2, <2>3, <2>4 DEF LockOK
  <2> QED
    BY <1>1, <1>2, <1>4, <2>2, <2>4, <2>5, WorkTaken
<1>7. CASE CancelAllEnd(t)
  <2>1. k' = [k EXCEPT !.lock = @ - 1] /\ GoOn(t, "none") /\ stage[t] = "drain"
    BY <1>7 DEF CancelAllEnd, Draining
  <2>2. k.lock > 0
    BY <1>1, <1>4, <2>1 DEF LockOK
  <2>3. TimerInv' /\ k'.cur = k.cur /\ k'.stat = k.stat
    BY <1>1, <1>2, <1>3, <2>1, <2>2, LockUpdate
  <2>4. \A u \in Thread : stage'[u] = IF u = t THEN "none" ELSE stage[u]
    BY <1>1, <2>1, GoOnIs
  <2>5. LockOK'
    BY <1>1, <1>3, <1>4, <1>5, <2>3, <2>4 DEF LockOK
  <2> QED
    BY <1>1, <1>2, <1>4, <2>3, <2>4, <2>5, WorkTaken
<1> QED
  BY <1>6, <1>7

(* The timer thread is resumed at the end of rt_timer_start, undisturbed.  *)
LEMMA WorkTask ==
    ASSUME WorkInv, DelayInv', Undisturbed, NEW t \in Client, UNCHANGED queueVars,
           Start(t) \/ StartTest(t) \/ ResumeUnlink(t) \/ ResumeInsert(t)
    PROVE  WorkInv'
<1>1. t \in Thread /\ TimerInv /\ TimerThread \in Thread /\ TimerThread # WorkThread
  BY ThreadsDiffer DEF WorkInv
<1>2. k \in KernelState
  BY <1>1 DEF TimerInv, Sound, Linked
<1>3. TimerInv'
  BY <1>1, CallInv DEF CallStep
<1>4. CASE Start(t) \/ StartTest(t)
  BY <1>1, <1>3, <1>4, PlainRests, WorkRests DEF Start, StartTest
<1>5. CASE ResumeUnlink(t)
  <2>1. k' = TimerStop(Unlink(k, TimerThread), TimerThread)
    BY <1>5 DEF ResumeUnlink
  <2>2. PICK u : u = Unlink(k, TimerThread)
    OBVIOUS
  <2>3. /\ u.cur = k.cur /\ u.lock = k.lock /\ u.stat = k.stat
        /\ DOMAIN u = DOMAIN k
    BY <1>2, <2>2 DEF Unlink, KernelState
  <2>4. k'.cur = k.cur /\ k'.lock = k.lock /\ k'.stat = k.stat
    BY <2>1, <2>2, <2>3 DEF TimerStop
  <2> QED
    BY <1>1, <1>3, <2>4, PlainRests, WorkRests
<1>6. CASE ResumeInsert(t)
  <2>1. k' = InsertThread(k, TimerThread)
    BY <1>6 DEF ResumeInsert
  <2>2. /\ k'.cur = k.cur /\ k'.lock = k.lock
        /\ \A u \in Thread \ {TimerThread} : k'.stat[u] = k.stat[u]
    BY <1>2, <2>1 DEF InsertThread, KernelState
  <2>3. Rests(TimerThread)
    BY <2>2 DEF Rests
  <2> QED
    BY <1>1, <1>3, <2>3, WorkRests
<1> QED
  BY <1>4, <1>5, <1>6

LEMMA WorkCall ==
    ASSUME WorkInv, Undisturbed, NEW t \in Client, QueueCall(t)
    PROVE  WorkInv'
<1>1. DelayInv'
  BY DelayCall DEF WorkInv
<1>2. CASE SubmitStarts(t)
  BY <1>1, <1>2, WorkTask DEF SubmitStarts
<1>3. CASE SubmitHalts(t)
  <2>1. At(t, "call") /\ UNCHANGED <<k, queueVars>> /\ irq' = "on"
    BY <1>3 DEF SubmitHalts, InOp, Halts
  <2>2. t \in Thread /\ k.cur = t /\ k.stat[t] = "RUNNING"
    BY <2>1, ThreadsDiffer, AtRunsTimer DEF WorkInv
  <2> QED
    BY <1>1, <2>1, <2>2, WorkFewer DEF queueVars
<1>4. CASE (StartTest(t) \/ ResumeUnlink(t) \/ ResumeInsert(t)) /\ UNCHANGED queueVars
  BY <1>1, <1>4, WorkTask
<1> QED
  BY <1>1, <1>2, <1>3, <1>4, WorkSubmit, WorkCancels, WorkSync, WorkDrain DEF QueueCall

LEMMA WorkStep ==
    ASSUME WorkInv, Undisturbed, [QueueNext]_allVars
    PROVE  WorkInv'
<1>1. CASE QueueClock /\ UNCHANGED queueVars
  BY <1>1, WorkClock
<1>2. CASE TimerStep
  BY <1>2, WorkHandler
<1>3. CASE WorkThreadStep
  BY <1>3, WorkThreadKeeps
<1>4. ASSUME NEW t \in User, stage[t] = "none" /\ ClientStep(t) /\ UNCHANGED queueVars
      PROVE  WorkInv'
  BY <1>4, WorkClient
<1>5. ASSUME NEW t \in Client, QueueCall(t)
      PROVE  WorkInv'
  BY <1>5, WorkCall
<1>6. CASE UNCHANGED allVars
  <2>1. /\ k' = k /\ pc' = pc /\ irq' = irq /\ queue' = queue /\ stage' = stage
    BY <1>6 DEF allVars, vars, kernelVars, queueVars
  <2>2. TimerInv'
    BY <2>1 DEF WorkInv, TimerInv
  <2>3. DelayInv'
    BY <1>6, DelayStep DEF WorkInv
  <2>4. LockOK' /\ NoWorkMissed'
    BY <2>1 DEF WorkInv, LockOK, NoWorkMissed, WorkThreadIdle
  <2> QED
    BY <2>2, <2>3, <2>4 DEF WorkInv
<1>7. ASSUME NEW t \in Thread, Halted(t)
      PROVE  WorkInv'
  BY <1>6, <1>7 DEF Halted
<1> QED
  BY <1>1, <1>2, <1>3, <1>4, <1>5, <1>6, <1>7 DEF QueueNext

(* rt_workqueue_create.                                                    *)
LEMMA StartupStates ==
    ASSUME NEW b \in KernelState, NEW t \in Thread, t # b.cur
    PROVE  LET s == ThreadStartup(b, t)
           IN  /\ s.cur = b.cur /\ s.lock = b.lock
               /\ s.prio = [b.prio EXCEPT ![t] = InitPrio[t]]
               /\ s.stat = [b.stat EXCEPT ![t] = "READY"]
<1> DEFINE e == [b EXCEPT !.prio[t] = InitPrio[t],
                          !.mask[t] = InitPrio[t],
                          !.stat[t] = "SUSPEND"]
           s == TimerStop(Unlink(e, t), t)
<1>1. /\ e.stat = [b.stat EXCEPT ![t] = "SUSPEND"] /\ e.cur = b.cur
      /\ e.prio = [b.prio EXCEPT ![t] = InitPrio[t]] /\ e.lock = b.lock
      /\ b.stat \in [Thread -> Stat]
      /\ s.stat = e.stat /\ s.cur = e.cur /\ s.prio = e.prio /\ s.lock = e.lock
  BY DEF KernelState, Unlink, TimerStop
<1>2. ThreadStartup(b, t) = ThreadResume(e, t)
  BY DEF ThreadStartup
<1>3. e.stat[t] = "SUSPEND"
  BY <1>1
<1>4. ThreadResume(e, t) = InsertThread(s, t)
  BY <1>3 DEF ThreadResume
<1> HIDE DEF s, e
<1>5. PICK z : z = InsertThread(s, t)
  OBVIOUS
<1>6. /\ z.stat = [s.stat EXCEPT ![t] = "READY"] /\ z.cur = s.cur
      /\ z.prio = s.prio /\ z.lock = s.lock
  BY <1>1, <1>5 DEF InsertThread
<1>7. z.stat = [b.stat EXCEPT ![t] = "READY"]
  BY <1>1, <1>6
<1> QED
  BY <1>1, <1>2, <1>4, <1>5, <1>6, <1>7

LEMMA QueueStarts ==
    ASSUME QueueInit
    PROVE  /\ Sound(k) /\ k.cur = Main /\ k.stat[Main] = "RUNNING" /\ k.lock = 0
           /\ k.prio = InitPrio /\ \A t \in Thread : k.stat[t] # "SUSPEND"
           /\ \A t \in User : k.stat[t] # "READY"
<1>1. PICK b : b = Started
  OBVIOUS
<1>2. PICK u : u = ThreadStartup(b, TimerThread)
  OBVIOUS
<1>3. k = ThreadStartup(u, WorkThread)
  BY <1>1, <1>2 DEF QueueInit
<1>4. /\ TimerThread \in Thread \ {Main} /\ WorkThread \in Thread \ {Main, TimerThread}
      /\ Main \in Thread /\ TimerThread # Idle /\ WorkThread # Idle
      /\ InitPrio \in [Thread -> Prio]
  BY WorkQueueAssumption, SoftTimerAssumption, KernelAssumption
<1>5. /\ Sound(b) /\ b.cur = Main /\ b.lock = 0 /\ b.prio = InitPrio
      /\ b.stat = [t \in Thread |-> IF t = Main THEN "RUNNING"
                                    ELSE IF t = Idle THEN "READY" ELSE "INIT"]
  BY <1>1, StartedSound DEF Started
<1>6. b \in KernelState
  BY <1>5 DEF Sound, Linked
<1>7. /\ u.cur = Main /\ u.lock = 0 /\ u.prio = InitPrio
      /\ u.stat = [b.stat EXCEPT ![TimerThread] = "READY"]
  BY <1>2, <1>4, <1>5, <1>6, StartupStates
<1>8. Sound(u)
  BY <1>2, <1>4, <1>5, StartupWakes DEF Wakes
<1>9. u \in KernelState /\ u.stat[WorkThread] = "INIT"
  BY <1>4, <1>5, <1>7, <1>8 DEF Sound, Linked
<1>10. /\ k.cur = Main /\ k.lock = 0 /\ k.prio = InitPrio
       /\ k.stat = [u.stat EXCEPT ![WorkThread] = "READY"]
  BY <1>3, <1>4, <1>7, <1>9, StartupStates
<1>11. Sound(k)
  BY <1>3, <1>4, <1>8, <1>9, StartupWakes DEF Wakes
<1>12. \A t \in User : /\ t \in Thread /\ t # Idle
                       /\ t # TimerThread /\ t # WorkThread
  BY ThreadsDiffer
<1> QED
  BY <1>4, <1>5, <1>7, <1>10, <1>11, <1>12

LEMMA WorkInit ==
    ASSUME QueueInit
    PROVE  WorkInv
<1>1. /\ Sound(k) /\ k.cur = Main /\ k.stat[Main] = "RUNNING" /\ k.lock = 0
      /\ \A t \in Thread : k.stat[t] # "SUSPEND"
  BY QueueStarts
<1>2. DelayInv
  BY DelayInit
<1>3. \A o \in Object : TimerThread \notin Range(k.wait[o])
  BY <1>1, ThreadsDiffer DEF Sound, Linked, WaitersSuspended
<1>4. TimerInv
  BY <1>1, <1>3 DEF TimerInv, QueueInit
<1>5. \A t \in Thread : stage[t] \in {"none", "loop", "entry"}
  BY DEF QueueInit, StageAtStart
<1>6. LockOK
  BY <1>1, <1>5, ThreadsDiffer DEF LockOK
<1>7. NoWorkMissed
  BY DEF QueueInit, NoWorkMissed
<1> QED
  BY <1>2, <1>4, <1>6, <1>7 DEF WorkInv

(* The counts of QueueTypeOK.                                              *)
LEMMA LinkedOnce ==
    ASSUME NEW s \in Seq(Work), Distinct(s), NEW w
    PROVE  LET places == {i \in 1 .. Len(s) : s[i] = w}
           IN  Cardinality(places) = IF w \in Range(s) THEN 1 ELSE 0
<1> DEFINE places == {i \in 1 .. Len(s) : s[i] = w}
<1>1. w \in Range(s) <=> \E i \in 1 .. Len(s) : s[i] = w
  BY RangeIs
<1>2. CASE w \in Range(s)
  <2>1. PICK i \in 1 .. Len(s) : s[i] = w
    BY <1>1, <1>2
  <2>2. places = {i}
    BY <2>1 DEF Distinct
  <2> QED
    BY <1>2, <2>2, FS_Singleton
<1>3. CASE w \notin Range(s)
  <2>1. places = {}
    BY <1>1, <1>3
  <2> QED
    BY <1>3, <2>1, FS_EmptySet
<1> QED
  BY <1>2, <1>3

LEMMA WorkInvGives ==
    ASSUME WorkInv
    PROVE  QueueTypeOK /\ TimeoutOfSuspended
<1>1. KernelTypeOK
  BY DEF KernelTypeOK, WorkInv, DelayInv, TimersOK, TimerInv, Sound, Linked
<1>2. soft \in SoftLists /\ op \in [Thread -> [what : Ops, timer : Timer \cup {"none"}]]
  BY DEF WorkInv, DelayInv, TimersOK, Shaped, Tasks, Task
<1>3. /\ loop.at \in {"scan", "suspend", "delay", "sleep", "check", "callback"}
      /\ loop.value \in Tick \cup Timer
  BY DEF WorkInv, DelayInv, TimersOK, LoopAgrees
<1>4. TypeOK
  BY <1>1, <1>2, <1>3 DEF TypeOK
<1>5. PICK a \in Seq(Work) : a = queue.work
  BY DEF WorkInv, DelayInv, ListsOK, Proper, QueueState
<1>6. PICK b \in Seq(Work) : b = queue.delayed
  BY DEF WorkInv, DelayInv, ListsOK, Proper, QueueState
<1>7. Distinct(a) /\ Distinct(b) /\ Range(a) \cap Range(b) = {} /\ queue \in QueueState
  BY <1>5, <1>6 DEF WorkInv, DelayInv, ListsOK, Proper
<1>8. ASSUME NEW w \in Work
      PROVE  Cardinality({i \in 1 .. Len(a) : a[i] = w})
               + Cardinality({i \in 1 .. Len(b) : b[i] = w}) <= 1
  <2>1. Cardinality({i \in 1 .. Len(a) : a[i] = w}) = IF w \in Range(a) THEN 1 ELSE 0
    BY <1>7, LinkedOnce
  <2>2. Cardinality({i \in 1 .. Len(b) : b[i] = w}) = IF w \in Range(b) THEN 1 ELSE 0
    BY <1>7, LinkedOnce
  <2>3. ~(w \in Range(a) /\ w \in Range(b))
    BY <1>7
  <2> QED
    BY <2>1, <2>2, <2>3
<1>9. stage \in [Thread -> {"none", "loop", "work", "ack", "acking", "entry",
                            "queue", "done", "sync", "drain"}]
  BY DEF WorkInv, DelayInv, StagesOK, Stage
<1>10. TimeoutOfSuspended
  <2>1. SUFFICES ASSUME k.timers # <<>> PROVE k.stat[Head(k.timers)] = "SUSPEND"
    BY DEF TimeoutOfSuspended, TimerExpired
  <2>2. k.timers \in Seq(Thread)
    BY <1>1 DEF KernelTypeOK, KernelState
  <2> QED
    BY <2>1, <2>2, HeadIn DEF WorkInv, TimerInv, Sound, Timed
<1> QED
  BY <1>4, <1>5, <1>6, <1>7, <1>8, <1>9, <1>10 DEF QueueTypeOK

(* The queue, its works and their timers stay well formed, with no work    *)
(* linked twice, whenever the timer thread is resumed undisturbed          *)
(* (rt_workqueue_dowork, rt_workqueue_submit_work,                         *)
(* rt_workqueue_critical_work, rt_workqueue_cancel_work and the others).   *)
THEOREM QueueTypeCorrect == QueueSpec /\ []Undisturbed => []QueueTypeOK
<1>1. QueueInit => WorkInv
  BY WorkInit
<1>2. WorkInv /\ Undisturbed /\ [QueueNext]_allVars => WorkInv'
  BY WorkStep
<1>3. WorkInv => QueueTypeOK
  BY WorkInvGives
<1> QED
  BY <1>1, <1>2, <1>3, PTL DEF QueueSpec

(* No submission leaves a work in the list of a work thread that sleeps    *)
(* in its loop (_workqueue_submit_work, rt_workqueue_critical_work,        *)
(* _delayed_work_timeout_handler), under the same condition.               *)
THEOREM NoWorkLost == QueueSpec /\ []Undisturbed => []NoWorkMissed
<1>1. QueueInit => WorkInv
  BY WorkInit
<1>2. WorkInv /\ Undisturbed /\ [QueueNext]_allVars => WorkInv'
  BY WorkStep
<1>3. WorkInv => NoWorkMissed
  BY DEF WorkInv
<1> QED
  BY <1>1, <1>2, <1>3, PTL DEF QueueSpec

-----------------------------------------------------------------------------
(* A queue of which no work is submitted with a delay: no thread calls     *)
(* rt_timer_start, and nothing disturbs the timer thread.                  *)
NoCalls == \A t \in Thread : op[t] = NoOp

LEMMA NoCallsStep ==
    ASSUME DelayedWork = {}, NoCalls, [QueueNext]_allVars
    PROVE  NoCalls'
<1>1. \A t \in Client : op[t].what = "none"
  BY ThreadsDiffer DEF NoCalls, NoOp, Op
<1>2. ASSUME NEW t \in Client, QueueCall(t)
      PROVE  UNCHANGED op
  <2>1. ~(SubmitStarts(t) \/ SubmitHalts(t) \/ StartTest(t) \/ ResumeUnlink(t)
            \/ ResumeInsert(t))
    BY <1>1 DEF SubmitStarts, SubmitHalts, Start, StartTest, ResumeUnlink,
                ResumeInsert, InOp
  <2>2. ~\E w \in Work : SubmitDelayed(t, w)
    BY DEF SubmitDelayed
  <2> QED
    BY <1>2, <2>1, <2>2
       DEF QueueCall, SubmitNow, SubmitRefused, CriticalWork, CancelWork, SyncTest,
           SyncWait, SyncReturns, CancelAllBegin, CancelNext, CancelAllEnd, softVars,
           vars
<1>3. TimerStep => UNCHANGED op
  BY DEF TimerStep, TimerLoopStep, Scan, SuspendSelf, DelayTest, SleepSelf,
         SoftTimerCheck, HandlerEnter, HandlerHalts, Halts, HandlerQueues,
         CallbackReturns, softVars, vars
<1>4. WorkThreadStep => UNCHANGED op
  BY DEF WorkThreadStep, WorkNone, WorkTake, WorkDone, AckBegin, AckRelease, AckEnd,
         softVars, vars
<1>5. QueueClock => UNCHANGED op
  BY DEF QueueClock, QueueTick, Timeout, Halts, softVars
<1>6. (\E t \in User : ClientStep(t)) => UNCHANGED op
  BY DEF ClientStep, softVars
<1>7. (UNCHANGED allVars \/ \E t \in Thread : Halted(t)) => UNCHANGED op
  BY DEF Halted, allVars, vars, softVars
<1> QED
  BY <1>2, <1>3, <1>4, <1>5, <1>6, <1>7 DEF QueueNext, NoCalls

(* If no work is submitted with a delay (rt_workqueue_dowork,              *)
(* rt_workqueue_submit_work with no delay, rt_workqueue_critical_work),    *)
(* the lists of the queue are well formed and the work thread never sleeps *)
(* while a work waits for it, without any further assumption.              *)
THEOREM PlainQueueWorks ==
    ASSUME DelayedWork = {}
    PROVE  QueueSpec => [](QueueTypeOK /\ NoWorkMissed)
<1>1. QueueInit => WorkInv /\ NoCalls
  BY WorkInit DEF QueueInit, NoCalls
<1>2. NoCalls => Undisturbed
  BY DEF NoCalls, NoOp, Op, Undisturbed, InOp
<1>3. WorkInv /\ NoCalls /\ [QueueNext]_allVars => WorkInv' /\ NoCalls'
  BY DelayedWork = {}, <1>2, WorkStep, NoCallsStep
<1>4. WorkInv => QueueTypeOK /\ NoWorkMissed
  BY WorkInvGives DEF WorkInv
<1> QED
  BY <1>1, <1>3, <1>4, PTL DEF QueueSpec

-----------------------------------------------------------------------------
(* Priorities.  They stay what the threads were started with, and no user  *)
(* waits in a ready list for a thread of lower priority (Behind).  What a  *)
(* step does to the kernel, but for the threads of X that it puts to wait  *)
(* for an acknowledgement:                                                 *)
Tame(b, s, X) ==
    /\ s.prio = b.prio
    /\ \A t \in Thread : Dormant(s, t) => Dormant(b, t)
    /\ Range(s.wait[Ack]) \subseteq Range(b.wait[Ack]) \cup X

Gentle(X) == Tame(k, k', X) /\ \A t \in User : Behind(t)'

RankInv ==
    /\ WorkInv
    /\ k.prio = InitPrio
    /\ \A t \in User : Behind(t)

LEMMA TameSame ==
    ASSUME NEW b, NEW s, s.prio = b.prio, s.stat = b.stat, s.wait = b.wait
    PROVE  Tame(b, s, {})
BY DEF Tame, Dormant

LEMMA TameTransitive ==
    ASSUME NEW b, NEW s, NEW r, Tame(b, s, {}), Tame(s, r, {})
    PROVE  Tame(b, r, {})
BY DEF Tame

LEMMA TameWakes ==
    ASSUME NEW b, NEW s, Wakes(b, s), Mild(b, s)
    PROVE  Tame(b, s, {})
<1>1. Ack \in Object
  BY WorkQueueAssumption
<1>2. s.wait[Ack] \in Seq(Thread)
  BY <1>1 DEF Wakes, Sound, Linked, KernelState
<1>3. ASSUME NEW x \in Range(s.wait[Ack])
      PROVE  x \in Range(b.wait[Ack])
  <2>1. x \in Thread
    BY <1>2, <1>3 DEF Range
  <2>2. s.stat[x] = "SUSPEND"
    BY <1>1, <1>3, <2>1 DEF Wakes, Sound, Linked, WaitersSuspended
  <2> QED
    BY <1>1, <1>3, <2>1, <2>2 DEF Wakes
<1> QED
  BY <1>3 DEF Tame, Mild, Thins, Settles

LEMMA TameSuspends ==
    ASSUME NEW b, Sound(b), NEW t \in Thread, b.stat[t] = "RUNNING", t # Idle,
           b.lock = 0, NEW n \in Nat, NEW s,
           s = ThreadSuspend(b, t) \/ s = TimerStart(ThreadSuspend(b, t), t, n)
    PROVE  Tame(b, s, {}) /\ s.cur = b.cur
<1>1. PICK r : r = ThreadSuspend(b, t)
  OBVIOUS
<1>2. /\ Suspends(b, r, t) /\ Thins(b, r) /\ r.prio = b.prio
      /\ t \notin Range(r.wait[Ack])
  BY <1>1, WorkQueueAssumption, SuspendRunning, SuspendThins, SuspendStops DEF Stops
<1>3. r.wait[Ack] \in Seq(Thread) /\ b.stat \in [Thread -> Stat]
  BY <1>2, WorkQueueAssumption DEF Suspends, Sound, Linked, KernelState
<1>4. Range(r.wait[Ack]) \subseteq Range(b.wait[Ack])
  BY <1>2, <1>3, WorkQueueAssumption DEF Suspends, Range
<1>5. Tame(b, r, {})
  BY <1>2, <1>4 DEF Tame, Thins, Settles
<1>6. r.stat[t] = "SUSPEND" /\ Sound(r) /\ r.cur = b.cur
  BY <1>2, <1>3 DEF Suspends
<1>7. CASE s = r
  BY <1>5, <1>6, <1>7
<1>8. CASE s = TimerStart(r, t, n)
  <2>1. s.cur = r.cur /\ s.stat = r.stat /\ s.wait = r.wait
    BY <1>6, <1>8, TimerStartSound
  <2>2. s.prio = r.prio
    BY <1>6, <1>8 DEF TimerStart, Sound, Linked, KernelState
  <2>3. Tame(r, s, {})
    BY <2>1, <2>2, TameSame
  <2> QED
    BY <1>5, <1>6, <2>1, <2>3, TameTransitive
<1> QED
  BY <1>1, <1>7, <1>8

LEMMA GentleSchedule ==
    ASSUME NEW b, Sound(b), Tame(k, b, {}), k' = Schedule(b)
    PROVE  Gentle({})
<1>1. Tame(b, k', {})
  BY ScheduleWakes, ScheduleMild, TameWakes
<1>2. \A t \in User : Behind(t)'
  BY ThreadsDiffer, ScheduleBehind
<1> QED
  BY <1>1, <1>2, TameTransitive DEF Gentle

LEMMA GentleAway ==
    ASSUME NEW X, Tame(k, k', X), pc'[k'.cur] \in Away \/ k'.lock # 0
    PROVE  Gentle(X)
BY DEF Gentle, Behind

LEMMA GentleSame ==
    ASSUME RankInv, k'.prio = k.prio, k'.cur = k.cur, k'.stat = k.stat,
           k'.wait = k.wait, k'.lock = k.lock,
           irq' # "off" => irq # "off",
           pc'[k.cur] \notin Away => pc[k.cur] \notin Away
    PROVE  Gentle({})
<1>1. Tame(k, k', {})
  BY TameSame
<1> QED
  BY <1>1 DEF Gentle, RankInv, Behind

LEMMA RankIs ==
    ASSUME RankInv
    PROVE  /\ Sound(k) /\ k \in KernelState /\ TimerInv
           /\ pc \in [Thread -> Location] /\ stage \in [Thread -> Stage]
           /\ k.prio = InitPrio /\ k.wait[Ack] \in Seq(Thread)
BY WorkQueueAssumption DEF RankInv, WorkInv, DelayInv, TimersOK, StagesOK, TimerInv,
   Sound, Linked, KernelState

LEMMA GentleNext ==
    ASSUME RankInv, WorkInv', NEW X, Gentle(X)
    PROVE  RankInv'
BY DEF RankInv, Gentle, Tame

LEMMA GentleSchedules ==
    ASSUME RankInv, NEW t \in Thread, RtSchedule(t)
    PROVE  Gentle({})
<1>1. k' = Schedule(k)
  BY DEF RtSchedule
<1>2. Sound(k) /\ Tame(k, k, {})
  BY RankIs, TameSame
<1> QED
  BY <1>1, <1>2, GentleSchedule

LEMMA GentleNaps ==
    ASSUME RankInv, NEW t \in Thread, Napped(t)
    PROVE  Gentle({})
<1>1. k \in KernelState /\ pc \in [Thread -> Location]
  BY RankIs
<1>2. /\ k'.prio = k.prio /\ k'.cur = k.cur /\ k'.stat = k.stat
      /\ k'.wait = k.wait /\ k'.lock = k.lock
  BY <1>1 DEF Napped, KernelState
<1>3. irq' = irq /\ k.cur = t /\ pc[t] = "napped"
  BY DEF Napped, At
<1> QED
  BY <1>2, <1>3, GentleSame DEF Away

LEMMA GentleSuspends ==
    ASSUME RankInv, NEW t \in Thread, t # Idle, k.cur = t, k.stat[t] = "RUNNING",
           k.lock = 0, NEW n \in Nat,
           \/ k' = ThreadSuspend(k, t)
           \/ k' = TimerStart(ThreadSuspend(k, t), t, n),
           NEW loc \in Away, Goto(t, loc)
    PROVE  Gentle({})
<1>1. Sound(k) /\ pc \in [Thread -> Location]
  BY RankIs
<1>2. PICK s : s = k'
  OBVIOUS
<1>3. s = ThreadSuspend(k, t) \/ s = TimerStart(ThreadSuspend(k, t), t, n)
  BY <1>2
<1>4. Tame(k, s, {}) /\ s.cur = k.cur
  BY <1>1, <1>3, TameSuspends
<1>5. pc'[k'.cur] \in Away
  BY <1>1, <1>2, <1>4 DEF Goto
<1> QED
  BY <1>2, <1>4, <1>5, GentleAway

(* The tick interrupt.                                                     *)
LEMMA GentleClock ==
    ASSUME RankInv, QueueClock
    PROVE  Gentle({})
<1>1. Sound(k) /\ k \in KernelState
  BY RankIs
<1>2. CASE TickInterrupt
  <2>1. k' = TickIncrease(k) /\ irq = "on" /\ UNCHANGED pc
    BY <1>2 DEF TickInterrupt
  <2>2. PICK y : /\ Wakes(k, y)
                 /\ y.cur = k.cur /\ y.stat = k.stat /\ y.prio = k.prio
                 /\ y.lock = k.lock /\ y.wait = k.wait
                 /\ TickIncrease(k) \in {y, Schedule(y)}
    BY <1>1, TickIncreaseSchedules
  <2>3. CASE k' = Schedule(y)
    BY <2>2, <2>3, TameSame, GentleSchedule DEF Wakes
  <2>4. CASE k' = y
    BY <2>1, <2>2, <2>4, GentleSame
  <2> QED
    BY <2>1, <2>2, <2>3, <2>4
<1>3. CASE TimerCheck
  <2>1. k' = TimerFire(k) /\ k.timers # <<>>
    BY <1>3 DEF TimerCheck, TimerExpired
  <2>2. TimerFire(k).prio = k.prio
    BY <1>1, <2>1, TimerFireIs
  <2>3. PICK i : /\ Wakes(k, i) /\ TimerFire(k) = Schedule(i)
                 /\ \A o \in Object : i.wait[o] = Without(k.wait[o], Head(k.timers))
                 /\ \A v \in Thread : i.stat[v] \in {k.stat[v], "READY", "RUNNING"}
    BY <1>1, <2>1, TimerFireSchedules
  <2>4. Sound(i) /\ i.prio = k.prio
    BY <2>2, <2>3, ScheduleSteady DEF Steady, Wakes
  <2>5. \A v \in Thread : Dormant(i, v) => Dormant(k, v)
    BY <2>3 DEF Dormant
  <2>6. Thins(k, i)
    BY <1>1, <2>3, <2>5, WithoutThins
  <2>7. Tame(k, i, {})
    BY <2>3, <2>4, <2>6, TameWakes DEF Mild
  <2> QED
    BY <2>1, <2>3, <2>4, <2>7, GentleSchedule
<1>4. CASE TickReturn
  BY <1>4, GentleSame DEF TickReturn
<1>5. CASE Timeout /\ ~TimerCheck
  <2>1. k.timers # <<>> /\ k.timers \in Seq(Thread) /\ k.stat[Head(k.timers)] # "SUSPEND"
    BY <1>1, <1>5 DEF Timeout, TimerExpired, KernelState
  <2> QED
    BY <1>1, <2>1, HeadIn DEF Sound, Timed
<1> QED
  BY <1>2, <1>3, <1>4, <1>5 DEF QueueClock, QueueTick, Timeout

(* The timer loop and the handler.                                         *)
LEMMA GentleLoop ==
    ASSUME RankInv, TimerLoopStep
    PROVE  Gentle({})
<1>1. TimerThread \in Thread /\ TimerThread # Idle
  BY ThreadsDiffer
<1>2. TimerInv /\ LoopAgrees /\ pc \in [Thread -> Location]
  BY RankIs DEF RankInv, WorkInv, DelayInv, TimersOK
<1>3. CASE UNCHANGED kernelVars
  BY <1>3, GentleSame DEF kernelVars
<1>4. CASE SuspendSelf \/ SleepSelf
  <2>1. At(TimerThread, "run")
    BY <1>4 DEF SuspendSelf, SleepSelf, InLoop
  <2>2. k.cur = TimerThread /\ k.stat[TimerThread] = "RUNNING"
    BY <1>1, <1>2, <2>1, AtRunsTimer
  <2>3. k.lock = 0
    BY <1>2, <2>2 DEF TimerInv
  <2>4. CASE SuspendSelf
    <3>1. /\ k' = ThreadSuspend(k, TimerThread) /\ Goto(TimerThread, "sched")
          /\ "sched" \in Away
      BY <2>4 DEF SuspendSelf, Away
    <3>2. 0 \in Nat
      OBVIOUS
    <3> QED
      BY <1>1, <2>2, <2>3, <3>1, <3>2, GentleSuspends
  <2>5. CASE SleepSelf
    <3>1. PICK n \in {loop.value} :
             /\ k' = TimerStart(ThreadSuspend(k, TimerThread), TimerThread, n)
             /\ Goto(TimerThread, "nap") /\ "nap" \in Away
      BY <2>5 DEF SleepSelf, Away
    <3>2. n \in Nat
      BY <1>2, <2>5 DEF SleepSelf, InLoop, LoopAgrees, Tick
    <3> QED
      BY <1>1, <2>2, <2>3, <3>1, <3>2, GentleSuspends
  <2> QED
    BY <1>4, <2>4, <2>5
<1> QED
  BY <1>1, <1>3, <1>4, GentleSchedules, GentleNaps
     DEF TimerLoopStep, Scan, DelayTest, SoftTimerCheck

LEMMA GentleWakes ==
    ASSUME RankInv, NEW t \in Thread, k.cur = t, k.stat[t] = "RUNNING",
           WakeWorkThread(t), UNCHANGED irq
    PROVE  Gentle({})
<1>1. Sound(k) /\ k \in KernelState /\ pc \in [Thread -> Location]
  BY RankIs
<1>2. CASE WorkThreadIdle
  <2>1. k' = ThreadResume(k, WorkThread) /\ Goto(t, "sched")
    BY <1>2 DEF WakeWorkThread
  <2>2. k'.cur = k.cur /\ k'.prio = k.prio
    BY <1>1, <2>1, ThreadsDiffer, ResumeStates
  <2>3. Wakes(k, k')
    BY <1>1, <2>1, ThreadsDiffer, ResumeWakes
  <2>4. Thins(k, k')
    BY <1>1, <2>1, ThreadsDiffer, ResumeThins
       DEF Sound, Linked, ReadyAgrees, WaitersSuspended, Timed
  <2>5. Tame(k, k', {})
    BY <2>2, <2>3, <2>4, TameWakes DEF Mild
  <2>6. pc'[k'.cur] \in Away
    BY <1>1, <2>1, <2>2 DEF Goto, Away
  <2> QED
    BY <2>5, <2>6, GentleAway
<1>3. CASE ~WorkThreadIdle
  BY <1>3, GentleSame DEF WakeWorkThread
<1> QED
  BY <1>2, <1>3

(* A step of the running thread that leaves the kernel alone.              *)
LEMMA GentleGoes ==
    ASSUME RankInv, NEW t \in Thread, NEW loc, At(t, loc), loc \notin Away,
           UNCHANGED k
    PROVE  Gentle({})
<1>1. pc[k.cur] \notin Away /\ irq # "off"
  BY DEF At
<1> QED
  BY <1>1, GentleSame

(* The lock is taken, or released with rt_schedule to follow.              *)
LEMMA GentleLock ==
    ASSUME RankInv,
           \/ k' = [k EXCEPT !.lock = @ + 1]
           \/ k' = [k EXCEPT !.lock = @ - 1] /\ k.lock > 1
           \/ k' = [k EXCEPT !.lock = @ - 1] /\ Goto(k.cur, "sched")
    PROVE  Gentle({})
<1>1. k \in KernelState /\ pc \in [Thread -> Location] /\ k.lock \in Nat
      /\ k.cur \in Thread
  BY RankIs DEF KernelState
<1>2. k'.prio = k.prio /\ k'.stat = k.stat /\ k'.wait = k.wait /\ k'.cur = k.cur
  BY <1>1 DEF KernelState
<1>3. Tame(k, k', {})
  BY <1>2, TameSame
<1>4. CASE k' = [k EXCEPT !.lock = @ + 1]
  <2>1. k'.lock = k.lock + 1
    BY <1>1, <1>4 DEF KernelState
  <2>2. k'.lock # 0
    BY <1>1, <2>1
  <2> QED
    BY <1>3, <2>2, GentleAway
<1>5. CASE k' = [k EXCEPT !.lock = @ - 1] /\ k.lock > 1
  <2>1. k'.lock = k.lock - 1
    BY <1>1, <1>5 DEF KernelState
  <2>2. k'.lock # 0
    BY <1>1, <1>5, <2>1
  <2> QED
    BY <1>3, <2>2, GentleAway
<1>6. CASE Goto(k.cur, "sched")
  <2>1. pc'[k'.cur] \in Away
    BY <1>1, <1>2, <1>6 DEF Goto, Away
  <2> QED
    BY <1>3, <2>1, GentleAway
<1> QED
  BY <1>4, <1>5, <1>6

LEMMA GentleSleep ==
    ASSUME RankInv, NEW t \in Thread, t # Idle, Sleep(t)
    PROVE  Gentle({})
<1>1. At(t, "run") /\ k.lock = 0 /\ Goto(t, "nap") /\ "nap" \in Away
  BY DEF Sleep, MayBlock, Away
<1>2. PICK n \in SleepTimes : k' = TimerStart(ThreadSuspend(k, t), t, n)
  BY DEF Sleep
<1>3. n \in Nat
  BY ProcessorAssumption
<1>4. k.cur = t /\ k.stat[t] = "RUNNING"
  BY <1>1, RankIs, AtRunsTimer
<1> QED
  BY <1>1, <1>2, <1>3, <1>4, GentleSuspends

LEMMA GentleClient ==
    ASSUME RankInv, NEW t \in Client, ClientStep(t)
    PROVE  Gentle({})
<1>1. t \in Thread /\ t # Idle
  BY DEF Client, Worker
<1>2. Sound(k) /\ k \in KernelState /\ pc \in [Thread -> Location] /\ k.prio = InitPrio
  BY RankIs
<1>3. CASE \E u \in Worker : Startup(t, u)
  <2>1. PICK u \in Thread : /\ k.stat[u] = "INIT" /\ k' = ThreadStartup(k, u)
                            /\ k.cur = t /\ Goto(t, "sched")
    BY <1>3 DEF Startup, Worker, At
  <2>2. Wakes(k, k') /\ Thins(k, k') /\ k'.prio = k.prio
    BY <1>2, <2>1, StartupWakes, StartupThins
  <2>3. k'.cur = k.cur
    <3>1. u # k.cur
      BY <1>2, <2>1 DEF Sound, OneRuns
    <3> QED
      BY <1>2, <2>1, <3>1, StartupStates
  <2>4. pc'[k'.cur] \in Away
    BY <1>1, <1>2, <2>1, <2>3 DEF Goto, Away
  <2> QED
    BY <2>2, <2>4, TameWakes, GentleAway DEF Mild
<1>4. CASE Yield(t)
  <2>1. PICK y : y = [k EXCEPT !.remaining[t] = InitTick[t], !.yield[t] = TRUE]
    OBVIOUS
  <2>2. k' = Schedule(y)
    BY <1>4, <2>1 DEF Yield, ThreadYield
  <2>3. /\ y \in KernelState
        /\ y.cur = k.cur /\ y.stat = k.stat /\ y.prio = k.prio
        /\ y.mask = k.mask /\ y.ready = k.ready /\ y.group = k.group
        /\ y.wait = k.wait /\ y.timers = k.timers /\ y.lock = k.lock
    BY <1>1, <1>2, <2>1, KernelAssumption DEF KernelState
  <2>4. Sound(y) /\ Tame(k, y, {})
    BY <1>2, <2>3, PlainUpdate, TameSame
  <2> QED
    BY <2>2, <2>4, GentleSchedule
<1>5. CASE EnterCritical(t)
  BY <1>5, GentleLock DEF EnterCritical
<1>6. CASE ExitCritical(t)
  <2>1. /\ k' = [k EXCEPT !.lock = @ - 1] /\ k.lock > 0 /\ k.cur = t
        /\ k.lock = 1 => Goto(t, "sched")
    BY <1>6 DEF ExitCritical, At
  <2>2. k.lock \in Nat
    BY <1>2 DEF KernelState
  <2>3. k.lock = 1 \/ k.lock > 1
    BY <2>1, <2>2
  <2> QED
    BY <2>1, <2>3, GentleLock
<1> QED
  BY <1>1, <1>3, <1>4, <1>5, <1>6, GentleSchedules, GentleNaps, GentleSleep
     DEF ClientStep, CpuStep

LEMMA GentleTimer ==
    ASSUME RankInv, TimerStep
    PROVE  Gentle({})
<1>1. TimerThread \in Thread /\ "run" \notin Away /\ TimerInv
  BY ThreadsDiffer, RankIs DEF Away
<1>2. CASE TimerLoopStep
  BY <1>2, GentleLoop
<1>3. CASE HandlerEnter \/ HandlerHalts \/ CallbackReturns
  <2>1. At(TimerThread, "run") /\ UNCHANGED k
    BY <1>3 DEF HandlerEnter, HandlerHalts, CallbackReturns, HandlerAt, InLoop,
                Halts, vars, kernelVars
  <2> QED
    BY <1>1, <2>1, GentleGoes
<1>4. CASE HandlerQueues
  <2>1. At(TimerThread, "run") /\ WakeWorkThread(TimerThread) /\ UNCHANGED irq
    BY <1>4 DEF HandlerQueues, HandlerAt, InLoop
  <2>2. k.cur = TimerThread /\ k.stat[TimerThread] = "RUNNING"
    BY <1>1, <2>1, AtRunsTimer
  <2> QED
    BY <1>1, <2>1, <2>2, GentleWakes
<1> QED
  BY <1>2, <1>3, <1>4 DEF TimerStep

LEMMA GentleWork ==
    ASSUME RankInv, WorkThreadStep
    PROVE  Gentle({})
<1>1. /\ WorkThread \in Thread /\ WorkThread # Idle /\ WorkThread \in Client
      /\ "run" \notin Away /\ WorkInv /\ Sound(k) /\ k \in KernelState
      /\ pc \in [Thread -> Location]
  BY ThreadsDiffer, RankIs DEF Away, RankInv
<1>2. CASE WorkNone
  <2>1. /\ WorkAt("loop") /\ k' = ThreadSuspend(k, WorkThread)
        /\ Goto(WorkThread, "sched") /\ "sched" \in Away
    BY <1>2 DEF WorkNone, Away
  <2>2. k.cur = WorkThread /\ k.stat[WorkThread] = "RUNNING" /\ k.lock = 0
    BY <1>1, <2>1, WorkRuns
  <2>3. 0 \in Nat
    OBVIOUS
  <2> QED
    BY <1>1, <2>1, <2>2, <2>3, GentleSuspends
<1>3. CASE WorkTake \/ WorkDone
  BY <1>1, <1>3, GentleGoes DEF WorkTake, WorkDone, WorkAt, vars, kernelVars
<1>4. CASE AckBegin
  BY <1>4, GentleLock DEF AckBegin
<1>5. CASE AckRelease
  <2>1. /\ WorkAt("acking") /\ k' = ThreadResume(k, Head(k.wait[Ack]))
        /\ k.wait[Ack] # <<>>
    BY <1>5 DEF AckRelease
  <2>2. k.lock = 1
    BY <1>1, <2>1, WorkRuns
  <2>3. PICK u \in Thread : u = Head(k.wait[Ack])
    BY <1>1, <2>1, WorkQueueAssumption, HeadIsWaiting
  <2>4. k'.prio = k.prio /\ k'.lock # 0
    BY <1>1, <2>1, <2>2, <2>3, ResumeStates
  <2>5. Wakes(k, k')
    BY <1>1, <2>1, <2>3, ResumeWakes
  <2>6. Thins(k, k')
    BY <1>1, <2>1, <2>3, ResumeThins
       DEF Sound, Linked, ReadyAgrees, WaitersSuspended, Timed
  <2> QED
    BY <2>4, <2>5, <2>6, TameWakes, GentleAway DEF Mild
<1>6. CASE AckEnd
  <2>1. k' = [k EXCEPT !.lock = @ - 1] /\ Goto(k.cur, "sched")
    BY <1>6 DEF AckEnd, WorkAt, At
  <2> QED
    BY <2>1, GentleLock
<1> QED
  BY <1>1, <1>2, <1>3, <1>4, <1>5, <1>6, GentleSchedules, GentleNaps, GentleSleep
     DEF WorkThreadStep

(* The calls of the clients.                                               *)
LEMMA GentleTask ==
    ASSUME RankInv, NEW t \in Client, CallStep(t)
    PROVE  Gentle({})
<1>1. /\ t \in Thread /\ TimerThread \in Thread /\ Sound(k) /\ k \in KernelState
      /\ pc \in [Thread -> Location] /\ Ack \in Object
  BY ThreadsDiffer, RankIs, WorkQueueAssumption
<1>2. At(t, "call") /\ "call" \notin Away
  BY DEF CallStep, Stop, Start, StartTest, ResumeUnlink, ResumeInsert, InOp, Away
<1>3. CASE Stop(t) \/ Start(t) \/ StartTest(t)
  <2>1. UNCHANGED k
    BY <1>3 DEF Stop, Start, StartTest
  <2> QED
    BY <1>1, <1>2, <2>1, GentleGoes
<1>4. CASE ResumeUnlink(t)
  <2>1. /\ k' = TimerStop(Unlink(k, TimerThread), TimerThread) /\ UNCHANGED irq
        /\ Goto(t, "call")
    BY <1>4 DEF ResumeUnlink, Calls
  <2>2. PICK u : u = Unlink(k, TimerThread)
    OBVIOUS
  <2>3. /\ u.cur = k.cur /\ u.lock = k.lock /\ u.stat = k.stat /\ u.prio = k.prio
        /\ DOMAIN u = DOMAIN k
    BY <1>1, <2>2 DEF Unlink, KernelState
  <2>4. Range(u.wait[Ack]) = Range(k.wait[Ack]) \ {TimerThread}
    <3>1. k.wait[Ack] \in Seq(Thread) /\ Distinct(k.wait[Ack])
      BY <1>1 DEF Sound, Linked, WaitersSuspended, KernelState
    <3>2. u.wait[Ack] = Without(k.wait[Ack], TimerThread)
      BY <1>1, <2>2 DEF Unlink, KernelState
    <3> QED
      BY <3>1, <3>2, WithoutProperties
  <2>5. k' = TimerStop(u, TimerThread)
    BY <2>1, <2>2
  <2>6. /\ k'.cur = k.cur /\ k'.lock = k.lock /\ k'.stat = k.stat
        /\ k'.prio = k.prio /\ k'.wait = u.wait
    BY <2>3, <2>5 DEF TimerStop
  <2>7. Tame(k, k', {})
    BY <2>4, <2>6 DEF Tame, Dormant
  <2>8. pc[k.cur] \notin Away /\ irq # "off"
    BY <1>2 DEF At
  <2>9. \A x \in User : Behind(x)'
    BY <2>6, <2>8 DEF RankInv, Behind
  <2> QED
    BY <2>7, <2>9 DEF Gentle
<1>5. CASE ResumeInsert(t)
  <2>1. k' = InsertThread(k, TimerThread) /\ Goto(t, "sched")
    BY <1>5 DEF ResumeInsert, Returns
  <2>2. /\ k'.cur = k.cur /\ k'.prio = k.prio /\ k'.wait = k.wait
        /\ \A u \in Thread : k'.stat[u] \in {k.stat[u], "READY", "RUNNING"}
    BY <1>1, <2>1 DEF InsertThread, KernelState
  <2>3. Tame(k, k', {})
    BY <2>2 DEF Tame, Dormant
  <2>4. pc'[k'.cur] \in Away
    BY <1>1, <1>2, <2>1, <2>2 DEF Goto, Away, At
  <2> QED
    BY <2>3, <2>4, GentleAway
<1> QED
  BY <1>3, <1>4, <1>5 DEF CallStep

LEMMA BlockRank ==
    ASSUME NEW b, Sound(b), NEW t \in Thread, b.stat[t] = "RUNNING",
           t # Idle, b.lock = 0,
           NEW o \in Object, NEW flag, NEW n \in Int
    PROVE  Block(b, o, t, flag, n).prio = b.prio
<1> DEFINE s == Block(b, o, t, flag, n)
<1>1. /\ s.tick = b.tick /\ s.prio = b.prio
      /\ t \notin Range(b.timers)
      /\ IF n > 0
         THEN /\ s.due = [b.due EXCEPT ![t] = Later(b, n)]
              /\ s.timers = InsertAt(b.timers, TimerPlace(b.timers,
                               [b.due EXCEPT ![t] = 0], Later(b, n)), t)
         ELSE /\ s.due = [b.due EXCEPT ![t] = 0]
              /\ s.timers = b.timers
  BY BlockIs
<1> QED
  BY <1>1

(* The thread that waits is the only one that joins the suspend list.      *)
LEMMA GentleBlock ==
    ASSUME RankInv, NEW t \in Client, SyncWait(t)
    PROVE  Gentle({t})
<1>1. /\ t \in Thread /\ t # Idle /\ WorkInv /\ TimerInv /\ Sound(k)
      /\ pc \in [Thread -> Location] /\ Ack \in Object
  BY RankIs, WorkQueueAssumption DEF Client, Worker, RankInv
<1>2. At(t, "run") /\ stage[t] = "sync" /\ Goto(t, "wait")
  BY DEF SyncWait
<1>3. PICK n \in Int : n = -1
  OBVIOUS
<1>13. PICK s : s = Block(k, Ack, t, "FIFO", n)
  OBVIOUS
<1>4. k.cur = t /\ k.stat[t] = "RUNNING"
  BY <1>1, <1>2, AtRunsTimer
<1>5. k.lock = 0
  BY <1>1, <1>2, <1>4 DEF WorkInv, LockOK
<1>6. Suspends(k, s, t) /\ s.prio = k.prio
  <2>1. Sound(k) /\ t \in Thread /\ t # Idle /\ Ack \in Object
    BY <1>1
  <2>2. Suspends(k, s, t)
    BY <1>13, <1>4, <1>5, <2>1, BlockSuspends
  <2> QED
    BY <1>13, <1>4, <1>5, <2>1, <2>2, BlockRank
<1>7. s.wait[Ack] \in Seq(Thread) /\ k.stat \in [Thread -> Stat]
  BY <1>1, <1>6 DEF Suspends, Sound, Linked, KernelState
<1>8. Range(s.wait[Ack]) \subseteq Range(k.wait[Ack]) \cup {t}
  BY <1>1, <1>6, <1>7 DEF Suspends, Range
<1>9. \A u \in Thread : Dormant(s, u) => Dormant(k, u)
  BY <1>6, <1>7 DEF Suspends, Dormant
<1>10. k' = s
  BY <1>3, <1>13 DEF SyncWait
<1>11. Tame(k, k', {t})
  BY <1>6, <1>8, <1>9, <1>10 DEF Tame
<1>12. pc'[k'.cur] \in Away
  BY <1>1, <1>2, <1>4, <1>6, <1>10 DEF Suspends, Goto, Away
<1> QED
  BY <1>11, <1>12, GentleAway

LEMMA GentleCall ==
    ASSUME RankInv, NEW t \in Client, QueueCall(t), ~SyncWait(t)
    PROVE  Gentle({})
<1>1. /\ t \in Thread /\ TimerInv
      /\ "run" \notin Away /\ "call" \notin Away /\ "woken" \notin Away
  BY ThreadsDiffer, RankIs DEF Away
<1>2. ASSUME NEW w \in Work, SubmitNow(t, w) \/ CriticalWork(t, w)
      PROVE  Gentle({})
  <2>1. At(t, "run") /\ WakeWorkThread(t) /\ UNCHANGED irq
    BY <1>2 DEF SubmitNow, CriticalWork, MayCall
  <2>2. k.cur = t /\ k.stat[t] = "RUNNING"
    BY <1>1, <2>1, AtRunsTimer
  <2> QED
    BY <1>1, <2>1, <2>2, GentleWakes
<1>3. CASE \/ \E w \in Work : \/ SubmitDelayed(t, w) \/ SubmitRefused(t, w)
                              \/ CancelWork(t, w) \/ SyncTest(t, w)
           \/ CancelNext(t)
  <2>1. At(t, "run") /\ UNCHANGED k
    BY <1>3 DEF SubmitDelayed, SubmitRefused, CancelWork, SyncTest, CancelNext,
                MayCall, Draining, vars, kernelVars
  <2> QED
    BY <1>1, <2>1, GentleGoes
<1>4. CASE SubmitHalts(t)
  <2>1. At(t, "call") /\ UNCHANGED k
    BY <1>4 DEF SubmitHalts, InOp, Halts
  <2> QED
    BY <1>1, <2>1, GentleGoes
<1>5. CASE SyncReturns(t)
  <2>1. At(t, "woken") /\ UNCHANGED k
    BY <1>5 DEF SyncReturns
  <2> QED
    BY <1>1, <2>1, GentleGoes
<1>6. CASE CancelAllBegin(t)
  BY <1>6, GentleLock DEF CancelAllBegin
<1>7. CASE CancelAllEnd(t)
  <2>1. k' = [k EXCEPT !.lock = @ - 1] /\ Goto(k.cur, "sched")
    BY <1>7 DEF CancelAllEnd, Draining, At
  <2> QED
    BY <2>1, GentleLock
<1> QED
  BY <1>2, <1>3, <1>4, <1>5, <1>6, <1>7, GentleTask
     DEF QueueCall, SubmitStarts, CallStep

LEMMA RankStep ==
    ASSUME RankInv, Undisturbed, [QueueNext]_allVars
    PROVE  RankInv'
<1>1. WorkInv'
  BY WorkStep DEF RankInv
<1>2. CASE UNCHANGED allVars
  BY <1>1, <1>2, GentleSame, GentleNext DEF allVars, vars, kernelVars
<1>3. CASE QueueClock /\ UNCHANGED queueVars
  BY <1>1, <1>3, GentleClock, GentleNext
<1>4. CASE TimerStep
  BY <1>1, <1>4, GentleTimer, GentleNext
<1>5. CASE WorkThreadStep
  BY <1>1, <1>5, GentleWork, GentleNext
<1>6. ASSUME NEW t \in User, ClientStep(t)
      PROVE  RankInv'
  BY <1>1, <1>6, ThreadsDiffer, GentleClient, GentleNext
<1>7. ASSUME NEW t \in Client, QueueCall(t)
      PROVE  RankInv'
  BY <1>1, <1>7, GentleBlock, GentleCall, GentleNext
<1>8. ASSUME NEW t \in Thread, Halted(t)
      PROVE  RankInv'
  BY <1>2, <1>8 DEF Halted
<1> QED
  BY <1>2, <1>3, <1>4, <1>5, <1>6, <1>7, <1>8 DEF QueueNext

-----------------------------------------------------------------------------
(* Cancellers of a priority above the work thread: nothing comes between   *)
(* their test of the current work and their wait, but other threads that   *)
(* are above the work thread too.                                          *)
UsersFirst == \A t \in User : InitPrio[t] < InitPrio[WorkThread]

SyncOK ==
    \A t \in User : stage[t] = "sync" =>
        /\ queue.current # None
        /\ k.stat[t] \in {"READY", "RUNNING"}

SyncInv == RankInv /\ SyncOK /\ NoSyncForgotten

(* A step suspends no thread but t.                                        *)
Spares(t) ==
    \A u \in Thread \ {t} : k'.stat[u] = "SUSPEND" => k.stat[u] = "SUSPEND"

LEMMA AwakeIs ==
    ASSUME NEW b \in KernelState, NEW t \in Thread
    PROVE  b.stat[t] \in {"READY", "RUNNING"} <=> b.stat[t] # "SUSPEND" /\ ~Dormant(b, t)
BY DEF KernelState, Stat, Dormant

LEMMA SyncKeeps ==
    ASSUME SyncInv, RankInv', Gentle({}), NEW t, Spares(t),
           queue'.current = queue.current,
           \A u \in User : stage'[u] = "sync" => stage[u] = "sync" /\ u # t,
           stage[WorkThread] \in {"ack", "acking"} =>
               stage'[WorkThread] \in {"ack", "acking"}
    PROVE  SyncInv'
<1>1. k \in KernelState /\ k' \in KernelState
  BY DEF SyncInv, RankInv, WorkInv, TimerInv, Sound, Linked
<1>2. ASSUME NEW u \in User, stage'[u] = "sync"
      PROVE  /\ queue'.current # None
             /\ k'.stat[u] \in {"READY", "RUNNING"}
  <2>1. /\ stage[u] = "sync" /\ u # t /\ u \in Thread
        /\ queue.current # None /\ k.stat[u] \in {"READY", "RUNNING"}
    BY <1>2, ThreadsDiffer DEF SyncInv, SyncOK
  <2>2. k.stat[u] # "SUSPEND" /\ ~Dormant(k, u)
    BY <1>1, <2>1, AwakeIs
  <2>3. k'.stat[u] # "SUSPEND" /\ ~Dormant(k', u)
    BY <2>1, <2>2 DEF Spares, Gentle, Tame
  <2> QED
    BY <1>1, <2>1, <2>3, AwakeIs
<1>3. k'.wait[Ack] # <<>> => k.wait[Ack] # <<>>
  <2>1. PICK a \in Seq(Thread) : a = k.wait[Ack]
    BY <1>1, WorkQueueAssumption DEF KernelState
  <2>2. PICK b \in Seq(Thread) : b = k'.wait[Ack]
    BY <1>1, WorkQueueAssumption DEF KernelState
  <2>3. (a = <<>> <=> Range(a) = {}) /\ (b = <<>> <=> Range(b) = {})
    BY EmptyRange
  <2>4. Range(b) \subseteq Range(a)
    BY <2>1, <2>2 DEF Gentle, Tame
  <2> QED
    BY <2>1, <2>2, <2>3, <2>4
<1>4. NoSyncForgotten'
  BY <1>3 DEF SyncInv, NoSyncForgotten
<1> QED
  BY <1>2, <1>4 DEF SyncInv, SyncOK

(* The steps that leave the queue alone.                                   *)
LEMMA SyncRests ==
    ASSUME SyncInv, RankInv', Gentle({}), NEW t, Spares(t), UNCHANGED queueVars,
           t \in User => stage[t] # "sync"
    PROVE  SyncInv'
BY SyncKeeps DEF queueVars

LEMMA SparesWakes ==
    ASSUME Wakes(k, k'), NEW t
    PROVE  Spares(t)
BY DEF Spares, Wakes

LEMMA SparesSame ==
    ASSUME k'.stat = k.stat, NEW t
    PROVE  Spares(t)
BY DEF Spares

LEMMA ClockWakes ==
    ASSUME TimerInv, QueueClock
    PROVE  Wakes(k, k')
<1>1. Sound(k)
  BY DEF TimerInv
<1>2. CASE TickInterrupt
  BY <1>1, <1>2, TickIncreaseWakes DEF TickInterrupt
<1>3. CASE TickReturn
  BY <1>1, <1>3, WakesNone DEF TickReturn
<1>4. CASE Timeout
  <2>1. k.timers # <<>> /\ k.timers \in Seq(Thread)
    BY <1>1, <1>4 DEF Timeout, TimerExpired, Sound, Linked, KernelState
  <2>2. k.stat[Head(k.timers)] = "SUSPEND"
    BY <1>1, <2>1, HeadIn DEF Sound, Timed
  <2>3. TimerCheck
    BY <1>4, <2>2 DEF Timeout
  <2> QED
    BY <1>1, <2>1, <2>3, TimerFireWakes DEF TimerCheck
<1> QED
  BY <1>2, <1>3, <1>4 DEF QueueClock, QueueTick

LEMMA SubmitWakes ==
    ASSUME TimerInv, NEW t, WakeWorkThread(t)
    PROVE  Wakes(k, k')
BY ThreadsDiffer, ResumeWakes, WakesNone DEF WakeWorkThread, TimerInv

LEMMA SparesNapped ==
    ASSUME RankInv, NEW t \in Thread, Napped(t), NEW u
    PROVE  Spares(u)
BY RankIs, SparesSame DEF Napped, KernelState

LEMMA SparesLoop ==
    ASSUME RankInv, TimerLoopStep
    PROVE  Spares(TimerThread)
<1>1. TimerThread \in Thread /\ TimerThread # Idle
  BY ThreadsDiffer
<1>2. TimerInv /\ LoopAgrees
  BY RankIs DEF RankInv, WorkInv, DelayInv, TimersOK
<1>3. CASE UNCHANGED kernelVars
  BY <1>3, SparesSame DEF kernelVars
<1>4. CASE SuspendSelf \/ SleepSelf
  <2>1. At(TimerThread, "run")
    BY <1>4 DEF SuspendSelf, SleepSelf, InLoop
  <2>2. k.cur = TimerThread /\ k.stat[TimerThread] = "RUNNING"
    BY <1>1, <1>2, <2>1, AtRunsTimer
  <2>3. k.lock = 0
    BY <1>2, <2>2 DEF TimerInv
  <2>4. CASE SuspendSelf
    <3>1. k' = ThreadSuspend(k, TimerThread) /\ 0 \in Nat
      BY <2>4 DEF SuspendSelf
    <3>2. Rests(TimerThread)
      BY <1>1, <1>2, <2>2, <2>3, <3>1, SuspendsRests
    <3> QED
      BY <3>2 DEF Rests, Spares
  <2>5. CASE SleepSelf
    <3>1. PICK n \in {loop.value} :
             k' = TimerStart(ThreadSuspend(k, TimerThread), TimerThread, n)
      BY <2>5 DEF SleepSelf
    <3>2. n \in Nat
      BY <1>2, <2>5 DEF SleepSelf, InLoop, LoopAgrees, Tick
    <3>3. Rests(TimerThread)
      BY <1>1, <1>2, <2>2, <2>3, <3>1, <3>2, SuspendsRests
    <3> QED
      BY <3>3 DEF Rests, Spares
  <2> QED
    BY <1>4, <2>4, <2>5
<1>5. CASE RtSchedule(TimerThread)
  BY <1>2, <1>5, ScheduleWakes, SparesWakes DEF RtSchedule, TimerInv
<1> QED
  BY <1>1, <1>3, <1>4, <1>5, SparesNapped
     DEF TimerLoopStep, Scan, DelayTest, SoftTimerCheck

LEMMA SyncTimer ==
    ASSUME SyncInv, RankInv', TimerStep
    PROVE  SyncInv'
<1>1. /\ TimerThread \in Thread /\ WorkThread \in Thread /\ User \subseteq Thread
      /\ WorkThread # TimerThread /\ TimerThread \notin User /\ RankInv /\ WorkInv
  BY ThreadsDiffer DEF SyncInv, RankInv, User
<1>2. Gentle({})
  BY <1>1, GentleTimer
<1>3. CASE TimerLoopStep /\ UNCHANGED queueVars
  BY <1>1, <1>2, <1>3, SparesLoop, SyncRests
<1>4. CASE HandlerHalts
  BY <1>1, <1>2, <1>4, SparesSame, SyncRests DEF HandlerHalts, Halts
<1>5. ASSUME Wakes(k, k') \/ UNCHANGED k, queue'.current = queue.current,
             NEW where \in {"entry", "queue", "done"}, GoOn(TimerThread, where)
      PROVE  SyncInv'
  <2>1. \A u \in Thread : stage'[u] = IF u = TimerThread THEN where ELSE stage[u]
    BY <1>1, <1>5, GoOnIs
  <2>2. Spares(TimerThread)
    BY <1>5, SparesWakes, SparesSame
  <2> QED
    BY <1>1, <1>2, <1>5, <2>1, <2>2, SyncKeeps
<1>6. CASE HandlerEnter
  BY <1>5, <1>6 DEF HandlerEnter, vars, kernelVars
<1>7. CASE HandlerQueues
  <2>1. Proper(queue) /\ loop.value \in Work /\ TimerInv
    BY <1>1, <1>7 DEF HandlerQueues, HandlerAt, InLoop, WorkInv, DelayInv, ListsOK,
         TimersOK, LoopAgrees, Work
  <2>2. queue' = Arrives(queue, loop.value)
    BY <1>7 DEF HandlerQueues, Arrives
  <2>3. queue'.current = queue.current
    BY <2>1, <2>2, ArrivesIs
  <2>4. Wakes(k, k') /\ GoOn(TimerThread, "done")
    BY <1>7, <2>1, SubmitWakes DEF HandlerQueues
  <2> QED
    BY <1>5, <2>3, <2>4
<1>8. CASE HandlerAt("done") /\ CallbackReturns
              /\ GoOn(TimerThread, "entry") /\ UNCHANGED queue
  BY <1>5, <1>8 DEF CallbackReturns, kernelVars
<1> QED
  BY <1>3, <1>4, <1>6, <1>7, <1>8 DEF TimerStep

(* The work thread does not get to the end of a work while a canceller     *)
(* stands between its test and its wait.                                   *)
LEMMA NobodyTests ==
    ASSUME UsersFirst, SyncInv, WorkAt("work"), NEW t \in User
    PROVE  stage[t] # "sync"
<1>1. /\ RankInv /\ WorkInv /\ t \in Thread /\ t # WorkThread /\ WorkThread \in Thread
  BY ThreadsDiffer DEF SyncInv, RankInv
<1>2. k.cur = WorkThread /\ k.lock = 0
  BY <1>1, WorkRuns
<1>3. irq = "on" /\ pc[k.cur] \notin Away
  BY <1>2 DEF WorkAt, At, Away
<1>4. k.stat[t] # "RUNNING"
  BY <1>1, <1>2, RankIs DEF Sound, OneRuns
<1>5. k.stat[t] = "READY" => k.prio[WorkThread] <= k.prio[t]
  BY <1>1, <1>2, <1>3 DEF RankInv, Behind
<1>6. k.prio = InitPrio /\ InitPrio[t] < InitPrio[WorkThread]
      /\ InitPrio[t] \in Int /\ InitPrio[WorkThread] \in Int
  BY <1>1, RankIs, KernelAssumption DEF UsersFirst, Prio
<1>7. k.stat[t] # "READY"
  BY <1>5, <1>6
<1> QED
  BY <1>4, <1>7 DEF SyncInv, SyncOK

LEMMA SyncWork ==
    ASSUME UsersFirst, SyncInv, RankInv', WorkThreadStep
    PROVE  SyncInv'
<1>1. /\ WorkThread \in Thread /\ WorkThread # Idle /\ User \subseteq Thread
      /\ WorkThread \notin User /\ RankInv /\ WorkInv /\ TimerInv
  BY ThreadsDiffer DEF SyncInv, RankInv, WorkInv
<1>2. Gentle({})
  BY <1>1, GentleWork
<1>3. CASE WorkNone
  <2>1. /\ WorkAt("loop") /\ k' = ThreadSuspend(k, WorkThread) /\ UNCHANGED queueVars
        /\ 0 \in Nat
    BY <1>3 DEF WorkNone
  <2>2. k.cur = WorkThread /\ k.stat[WorkThread] = "RUNNING" /\ k.lock = 0
    BY <1>1, <2>1, WorkRuns
  <2>3. Rests(WorkThread)
    BY <1>1, <2>1, <2>2, SuspendsRests
  <2>4. Spares(WorkThread)
    BY <2>3 DEF Rests, Spares
  <2> QED
    BY <1>1, <1>2, <2>1, <2>4, SyncRests
<1>4. CASE WorkTake
  <2>1. /\ k' = k /\ queue.work # <<>> /\ queue'.current = Head(queue.work)
        /\ GoOn(WorkThread, "work")
    BY <1>1, <1>4 DEF WorkTake, vars, kernelVars, WorkInv, DelayInv, ListsOK,
                      Proper, QueueState
  <2>2. queue'.current # None
    <3>1. PICK s \in Seq(Work) : s = queue.work
      BY <1>1 DEF WorkInv, DelayInv, ListsOK, Proper, QueueState
    <3>2. Head(s) \in Work
      BY <2>1, <3>1, HeadIn
    <3> QED
      BY <2>1, <3>1, <3>2, WorkQueueAssumption DEF Work, None
  <2>3. \A u \in Thread : stage'[u] = IF u = WorkThread THEN "work" ELSE stage[u]
    BY <1>1, <2>1, GoOnIs
  <2>4. SyncOK'
    BY <1>1, <2>1, <2>2, <2>3 DEF SyncInv, SyncOK
  <2> QED
    BY <2>2, <2>4 DEF SyncInv, NoSyncForgotten
<1>5. CASE WorkDone
  <2>1. WorkAt("work") /\ GoOn(WorkThread, "ack")
    BY <1>5 DEF WorkDone
  <2>2. \A u \in Thread : stage'[u] = IF u = WorkThread THEN "ack" ELSE stage[u]
    BY <1>1, <2>1, GoOnIs
  <2>3. SyncOK'
    BY <1>1, <2>1, <2>2, NobodyTests DEF SyncOK
  <2> QED
    BY <1>1, <2>2, <2>3 DEF SyncInv, NoSyncForgotten
<1>6. CASE AckBegin
  <2>1. /\ k' = [k EXCEPT !.lock = @ + 1] /\ GoOn(WorkThread, "acking")
        /\ UNCHANGED queue
    BY <1>6 DEF AckBegin
  <2>2. k'.stat = k.stat
    BY <1>1, <2>1, RankIs DEF KernelState
  <2>3. \A u \in Thread : stage'[u] = IF u = WorkThread THEN "acking" ELSE stage[u]
    BY <1>1, <2>1, GoOnIs
  <2> QED
    BY <1>1, <1>2, <2>1, <2>2, <2>3, SparesSame, SyncKeeps
<1>7. CASE AckRelease
  <2>1. /\ k' = ThreadResume(k, Head(k.wait[Ack])) /\ k.wait[Ack] # <<>>
        /\ UNCHANGED queueVars
    BY <1>7 DEF AckRelease
  <2>2. Head(k.wait[Ack]) \in Thread
    BY <1>1, <2>1, WorkQueueAssumption, HeadIsWaiting DEF TimerInv
  <2>3. Wakes(k, k')
    BY <1>1, <2>1, <2>2, ResumeWakes DEF TimerInv
  <2> QED
    BY <1>1, <1>2, <2>1, <2>3, SparesWakes, SyncRests
<1>8. CASE AckEnd
  <2>1. /\ k' = [k EXCEPT !.lock = @ - 1] /\ GoOn(WorkThread, "loop")
        /\ UNCHANGED queue /\ k.wait[Ack] = <<>>
    BY <1>8 DEF AckEnd
  <2>2. k'.stat = k.stat /\ k'.wait = k.wait
    BY <1>1, <2>1, RankIs DEF KernelState
  <2>3. \A u \in Thread : stage'[u] = IF u = WorkThread THEN "loop" ELSE stage[u]
    BY <1>1, <2>1, GoOnIs
  <2>4. SyncOK'
    BY <1>1, <2>1, <2>2, <2>3 DEF SyncInv, SyncOK
  <2> QED
    BY <2>1, <2>2, <2>4 DEF SyncInv, NoSyncForgotten
<1>9. CASE /\ \/ RtSchedule(WorkThread) \/ Napped(WorkThread)
              \/ stage[WorkThread] = "work" /\ Sleep(WorkThread)
           /\ UNCHANGED <<softVars, queueVars>>
  <2>1. CASE RtSchedule(WorkThread)
    BY <1>1, <1>2, <1>9, <2>1, ScheduleWakes, SparesWakes, SyncRests
       DEF RtSchedule, TimerInv
  <2>2. CASE Napped(WorkThread)
    BY <1>1, <1>2, <1>9, <2>2, SparesNapped, SyncRests
  <2>3. CASE Sleep(WorkThread)
    <3>1. WorkThread \in Client /\ ClientStep(WorkThread)
      BY <1>9, <2>3, ThreadsDiffer DEF ClientStep
    <3>2. Spares(WorkThread)
      BY <1>1, <3>1, ClientRests, SparesSame DEF Rests, Spares
    <3> QED
      BY <1>1, <1>2, <1>9, <3>2, SyncRests
  <2> QED
    BY <1>9, <2>1, <2>2, <2>3
<1> QED
  BY <1>3, <1>4, <1>5, <1>6, <1>7, <1>8, <1>9 DEF WorkThreadStep

LEMMA SyncClient ==
    ASSUME SyncInv, RankInv', NEW t \in User, stage[t] = "none", ClientStep(t),
           UNCHANGED queueVars
    PROVE  SyncInv'
<1>1. t \in Client /\ RankInv /\ TimerInv
  BY ThreadsDiffer DEF SyncInv, RankInv, WorkInv
<1>2. Gentle({})
  BY <1>1, GentleClient
<1>3. Spares(t)
  BY <1>1, ClientRests, SparesSame DEF Rests, Spares
<1> QED
  BY <1>2, <1>3, SyncRests

(* No call changes the current work.                                       *)
LEMMA CurrentStays ==
    ASSUME WorkInv, NEW t \in Client, QueueCall(t)
    PROVE  queue'.current = queue.current
<1>1. Proper(queue)
  BY DEF WorkInv, DelayInv, ListsOK
<1>2. ASSUME NEW w \in Work, SubmitNow(t, w) \/ CriticalWork(t, w)
      PROVE  queue'.current = queue.current
  <2>1. queue' \in {PutLast(queue, w), Delist(queue, w), PutFirst(queue, w)}
    BY <1>2 DEF SubmitNow, CriticalWork
  <2> QED
    BY <1>1, <2>1, PutLastIs, DelistIs, PutFirstIs
<1>3. ASSUME NEW w \in Work, SubmitDelayed(t, w)
      PROVE  queue'.current = queue.current
  <2>1. PICK q : q = queue
    OBVIOUS
  <2>2. PICK r : r = queue'
    OBVIOUS
  <2>3. Proper(q) /\ Delays(q, w, r)
    BY <1>1, <1>3, <2>1, <2>2 DEF SubmitDelayed, Delays
  <2> QED
    BY <2>1, <2>2, <2>3, DelayIs
<1>4. ASSUME NEW w \in Work, queue' = Cancel(queue, w)
      PROVE  queue'.current = queue.current
  BY <1>1, <1>4, CancelIs
<1>5. CancelNext(t) => \E w \in Work : queue' = Cancel(queue, w)
  BY <1>1, FirstLeft DEF CancelNext
<1>6. ASSUME NEW w \in Work, SubmitRefused(t, w)
      PROVE  queue'.current = queue.current
  BY <1>1, <1>6, DelistIs DEF SubmitRefused
<1> QED
  BY <1>2, <1>3, <1>4, <1>5, <1>6
     DEF QueueCall, CancelWork, SyncTest, SubmitStarts, SubmitHalts, Halts, SyncWait,
         SyncReturns, CancelAllBegin, CancelAllEnd, queueVars

(* No call but rt_workqueue_cancel_work_sync suspends a thread.            *)
LEMMA CallSpares ==
    ASSUME RankInv, NEW t \in Client, QueueCall(t), ~SyncWait(t)
    PROVE  Spares(TimerThread)
<1>1. /\ t \in Thread /\ TimerThread \in Thread /\ TimerInv /\ k \in KernelState
      /\ k.lock \in Nat
  BY ThreadsDiffer, RankIs DEF KernelState
<1>2. ASSUME NEW w \in Work, SubmitNow(t, w) \/ CriticalWork(t, w)
      PROVE  Spares(TimerThread)
  BY <1>1, <1>2, SubmitWakes, SparesWakes DEF SubmitNow, CriticalWork
<1>3. CASE \/ \E w \in Work : \/ SubmitDelayed(t, w) \/ SubmitRefused(t, w)
                              \/ CancelWork(t, w) \/ SyncTest(t, w)
           \/ CancelNext(t) \/ SubmitHalts(t) \/ SyncReturns(t)
           \/ Start(t) \/ StartTest(t)
  <2>1. UNCHANGED k
    BY <1>3 DEF SubmitDelayed, SubmitRefused, CancelWork, SyncTest, CancelNext,
                SubmitHalts, SyncReturns, Start, StartTest, Halts, vars, kernelVars
  <2> QED
    BY <2>1, SparesSame
<1>4. CASE CancelAllBegin(t) \/ CancelAllEnd(t)
  <2>1. k' = [k EXCEPT !.lock = @ + 1] \/ k' = [k EXCEPT !.lock = @ - 1]
    BY <1>4 DEF CancelAllBegin, CancelAllEnd
  <2>2. k'.stat = k.stat
    BY <1>1, <2>1 DEF KernelState
  <2> QED
    BY <2>2, SparesSame
<1>5. CASE ResumeUnlink(t)
  <2>1. PICK u : u = Unlink(k, TimerThread)
    OBVIOUS
  <2>2. u.stat = k.stat /\ DOMAIN u = DOMAIN k
    BY <1>1, <2>1 DEF Unlink, KernelState
  <2>3. k'.stat = k.stat
    BY <1>1, <1>5, <2>1, <2>2 DEF ResumeUnlink, TimerStop, KernelState
  <2> QED
    BY <2>3, SparesSame
<1>6. CASE ResumeInsert(t)
  BY <1>1, <1>6 DEF ResumeInsert, InsertThread, KernelState, Spares
<1> QED
  BY <1>2, <1>3, <1>4, <1>5, <1>6 DEF QueueCall, SubmitStarts

LEMMA SyncCall ==
    ASSUME SyncInv, RankInv', NEW t \in Client, QueueCall(t)
    PROVE  SyncInv'
<1>1. /\ t \in Thread /\ TimerThread \in Thread /\ WorkThread \in Thread
      /\ User \subseteq Thread /\ TimerThread \notin User /\ WorkThread \notin User
      /\ RankInv /\ WorkInv /\ stage \in [Thread -> Stage]
      /\ (t # WorkThread => t \in User)
  BY ThreadsDiffer, RankIs DEF SyncInv, RankInv, User
<1>2. queue'.current = queue.current
  BY <1>1, CurrentStays
<1>3. CASE SyncWait(t)
  <2>1. /\ At(t, "run") /\ stage[t] = "sync" /\ Goto(t, "wait") /\ GoOn(t, "none")
        /\ k' = Block(k, Ack, t, "FIFO", -1) /\ UNCHANGED irq
    BY <1>3 DEF SyncWait
  <2>2. t # Idle /\ t # TimerThread /\ TimerInv /\ pc \in [Thread -> Location]
    BY <1>1, ThreadsDiffer, RankIs
  <2>3. k.cur = t /\ k.stat[t] = "RUNNING"
    BY <1>1, <2>1, <2>2, AtRunsTimer
  <2>4. k.lock = 0 /\ t # WorkThread
    BY <1>1, <2>1, <2>3 DEF LockOK, WorkInv, DelayInv, StagesOK
  <2>5. Rests(t)
    BY <1>1, <2>1, <2>2, <2>3, <2>4, BlockInv
  <2>6. Gentle({t})
    BY <1>1, <1>3, GentleBlock
  <2>7. queue.current # None
    BY <1>1, <2>1, <2>4 DEF SyncInv, SyncOK
  <2>8. \A u \in Thread : stage'[u] = IF u = t THEN "none" ELSE stage[u]
    BY <1>1, <2>1, GoOnIs
  <2>9. k \in KernelState /\ k' \in KernelState
    BY <1>1 DEF RankInv, WorkInv, TimerInv, Sound, Linked
  <2>10. ASSUME NEW u \in User, stage'[u] = "sync"
         PROVE  k'.stat[u] \in {"READY", "RUNNING"}
    <3>1. u \in Thread /\ u # t /\ stage[u] = "sync"
      BY <1>1, <2>8, <2>10
    <3>2. k.stat[u] # "SUSPEND" /\ ~Dormant(k, u)
      BY <2>9, <3>1, AwakeIs DEF SyncInv, SyncOK
    <3>3. k'.stat[u] # "SUSPEND" /\ ~Dormant(k', u)
      BY <2>5, <2>6, <3>1, <3>2 DEF Rests, Gentle, Tame
    <3> QED
      BY <2>9, <3>1, <3>3, AwakeIs
  <2> QED
    BY <1>1, <1>2, <2>7, <2>10 DEF SyncInv, SyncOK, NoSyncForgotten
<1>4. CASE \E w \in Work : SyncTest(t, w)
  <2>1. PICK w \in Work : SyncTest(t, w)
    BY <1>4
  <2>2. /\ MayCall(t) /\ t # WorkThread /\ queue.current = w /\ GoOn(t, "sync")
        /\ UNCHANGED k
    BY <2>1 DEF SyncTest, vars, kernelVars
  <2>3. k.cur = t /\ k.stat[t] = "RUNNING"
    BY <1>1, <2>2, MayCallRuns
  <2>4. queue.current # None
    BY <2>2, WorkQueueAssumption DEF Work, None
  <2>5. \A u \in Thread : stage'[u] = IF u = t THEN "sync" ELSE stage[u]
    BY <1>1, <2>2, GoOnIs
  <2> QED
    BY <1>1, <1>2, <2>2, <2>3, <2>4, <2>5 DEF SyncInv, SyncOK, NoSyncForgotten
<1>5. CASE ~SyncWait(t) /\ ~\E w \in Work : SyncTest(t, w)
  <2>1. Gentle({}) /\ Spares(TimerThread)
    BY <1>1, <1>5, GentleCall, CallSpares
  <2>2. CASE UNCHANGED stage
    BY <1>1, <1>2, <2>1, <2>2, SyncKeeps
  <2>3. CASE CancelAllBegin(t) \/ CancelAllEnd(t)
    <3>1. PICK where \in {"drain", "none"} : GoOn(t, where)
      BY <2>3 DEF CancelAllBegin, CancelAllEnd
    <3>2. t # WorkThread
      BY <1>1, <2>3 DEF CancelAllBegin, CancelAllEnd, Draining, WorkInv, DelayInv,
                        StagesOK
    <3>3. \A u \in Thread : stage'[u] = IF u = t THEN where ELSE stage[u]
      BY <1>1, <3>1, GoOnIs
    <3> QED
      BY <1>1, <1>2, <2>1, <3>2, <3>3, SyncKeeps
  <2> QED
    BY <1>5, <2>2, <2>3
       DEF QueueCall, SubmitNow, CriticalWork, SubmitDelayed, SubmitRefused,
           CancelWork, CancelNext, SubmitStarts, SubmitHalts, Halts, SyncReturns, queueVars
<1> QED
  BY <1>3, <1>4, <1>5

LEMMA SyncStep ==
    ASSUME UsersFirst, SyncInv, Undisturbed, [QueueNext]_allVars
    PROVE  SyncInv'
<1>1. RankInv' /\ RankInv /\ TimerInv
  BY RankStep DEF SyncInv, RankInv, WorkInv
<1>2. TimerThread \in Thread /\ TimerThread \notin User
  BY ThreadsDiffer DEF User
<1>3. CASE UNCHANGED allVars
  <2>1. UNCHANGED queueVars /\ k'.stat = k.stat
    BY <1>3 DEF allVars, vars, kernelVars
  <2>2. Gentle({})
    BY <1>1, <1>3, GentleSame DEF allVars, vars, kernelVars
  <2> QED
    BY <1>1, <1>2, <2>1, <2>2, SparesSame, SyncRests
<1>4. CASE QueueClock /\ UNCHANGED queueVars
  <2>1. Gentle({}) /\ Spares(TimerThread)
    BY <1>1, <1>4, GentleClock, ClockWakes, SparesWakes
  <2> QED
    BY <1>1, <1>2, <1>4, <2>1, SyncRests
<1>5. ASSUME NEW t \in User, stage[t] = "none", ClientStep(t), UNCHANGED queueVars
      PROVE  SyncInv'
  BY <1>1, <1>5, SyncClient
<1>6. ASSUME NEW t \in Client, QueueCall(t)
      PROVE  SyncInv'
  BY <1>1, <1>6, SyncCall
<1>7. ASSUME NEW t \in Thread, Halted(t)
      PROVE  SyncInv'
  BY <1>3, <1>7 DEF Halted
<1> QED
  BY <1>1, <1>3, <1>4, <1>5, <1>6, <1>7, SyncTimer, SyncWork DEF QueueNext

LEMMA SyncInit ==
    ASSUME QueueInit
    PROVE  SyncInv
<1>1. Sound(k) /\ k.prio = InitPrio /\ \A t \in Thread : k.stat[t] # "SUSPEND"
  BY QueueStarts
<1>2. \A t \in User : t \in Thread /\ k.stat[t] # "READY"
  BY QueueStarts, ThreadsDiffer
<1>3. \A t \in User : stage[t] = "none"
  BY <1>2 DEF QueueInit, StageAtStart, User, Client, Worker
<1>4. WorkInv
  BY WorkInit
<1>5. RankInv
  BY <1>1, <1>2, <1>4 DEF RankInv, Behind
<1>6. k.wait[Ack] = <<>>
  <2>1. PICK s \in Seq(Thread) : s = k.wait[Ack]
    BY <1>1, WorkQueueAssumption DEF Sound, Linked, KernelState
  <2>2. \A x \in Range(s) : x \in Thread /\ k.stat[x] = "SUSPEND"
    BY <1>1, <2>1, WorkQueueAssumption DEF Sound, Linked, WaitersSuspended, Range
  <2>3. Range(s) = {}
    BY <1>1, <2>2
  <2> QED
    BY <2>1, <2>3, EmptyRange
<1> QED
  BY <1>3, <1>5, <1>6 DEF SyncInv, SyncOK, NoSyncForgotten

(* No canceller is forgotten (rt_workqueue_cancel_work_sync,               *)
(* _workqueue_work_completion): if the threads that use the queue have a   *)
(* higher priority than its thread, whoever waits for the end of a work    *)
(* waits while one runs, or while its end is still to be acknowledged.     *)
(* The work it has tested cannot end before it waits.                      *)
THEOREM NoSyncLost ==
    ASSUME UsersFirst
    PROVE  QueueSpec /\ []Undisturbed => []NoSyncForgotten
<1>1. QueueInit => SyncInv
  BY SyncInit
<1>2. SyncInv /\ Undisturbed /\ [QueueNext]_allVars => SyncInv'
  BY UsersFirst, SyncStep
<1>3. SyncInv => NoSyncForgotten
  BY DEF SyncInv
<1> QED
  BY <1>1, <1>2, <1>3, PTL DEF QueueSpec

=============================================================================
