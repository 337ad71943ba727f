-------------------------- MODULE SoftTimerProofs --------------------------
(***************************************************************************)
(* The timer thread and the software timers (timer.c), for any number of   *)
(* threads, priorities and timers, whatever callbacks and threads do with  *)
(* the timers.                                                             *)
(*                                                                         *)
(* The first part shows that module SoftTimer implements module            *)
(* AbstractTimer.  That argument is about the timer lists alone: of the    *)
(* kernel state it needs the tick, which only the tick interrupt moves.    *)
(* The second part is about the scheduler under the timer thread, which    *)
(* stays consistent while the resumption of the timer thread by            *)
(* rt_timer_start is not disturbed, and always with a single client.       *)
(***************************************************************************)
EXTENDS SoftTimer, ProcessorProofs

-----------------------------------------------------------------------------
(* The operations of module Kernel leave rt_tick alone, on any state.      *)
TickStays(b, s) == "tick" \in DOMAIN b => "tick" \in DOMAIN s /\ s.tick = b.tick

LEMMA TickStaysOn ==
    ASSUME NEW b, NEW s, NEW z, TickStays(b, s), TickStays(s, z)
    PROVE  TickStays(b, z)
BY DEF TickStays

LEMMA UnlinkTick == ASSUME NEW b, NEW t PROVE TickStays(b, Unlink(b, t))
BY DEF TickStays, Unlink

LEMMA InsertTick == ASSUME NEW b, NEW t PROVE TickStays(b, InsertThread(b, t))
BY DEF TickStays, InsertThread

LEMMA TimerStopTick == ASSUME NEW b, NEW t PROVE TickStays(b, TimerStop(b, t))
BY DEF TickStays, TimerStop

LEMMA TimerStartTick ==
    ASSUME NEW b, NEW t, NEW n PROVE TickStays(b, TimerStart(b, t, n))
BY DEF TickStays, TimerStart

LEMMA RemoveTick == ASSUME NEW b, NEW t PROVE TickStays(b, RemoveThread(b, t))
<1> DEFINE u == Unlink(b, t)
<1>1. TickStays(b, u)
  BY UnlinkTick
<1>2. RemoveThread(b, t) \in {u, [u EXCEPT !.group = @ \ {b.mask[t]}]}
  BY DEF RemoveThread
<1> HIDE DEF u
<1>3. TickStays(u, [u EXCEPT !.group = @ \ {b.mask[t]}])
  BY DEF TickStays
<1> QED
  BY <1>1, <1>2, <1>3, TickStaysOn

LEMMA SwitchTick == ASSUME NEW b, NEW to PROVE TickStays(b, SwitchTo(b, to))
<1> DEFINE here == [b EXCEPT !.cur = to]
           calm == [here EXCEPT !.yield[b.cur] = FALSE]
           q    == Requeue(b, to)
           r    == RemoveThread(q, to)
<1>1. TickStays(b, here) /\ TickStays(b, calm)
  BY DEF TickStays
<1>2. TickStays(calm, InsertThread(calm, b.cur))
  BY InsertTick
<1>3. q \in {here, InsertThread(calm, b.cur)}
  BY DEF Requeue
<1> HIDE DEF here, calm, q
<1>4. TickStays(b, q)
  BY <1>1, <1>2, <1>3, TickStaysOn
<1>5. TickStays(q, r)
  BY RemoveTick
<1>6. SwitchTo(b, to) = [r EXCEPT !.stat[to] = "RUNNING"]
  BY DEF SwitchTo, q
<1> HIDE DEF r
<1>7. TickStays(r, [r EXCEPT !.stat[to] = "RUNNING"])
  BY DEF TickStays
<1> QED
  BY <1>4, <1>5, <1>6, <1>7, TickStaysOn

LEMMA ScheduleTick == ASSUME NEW b PROVE TickStays(b, Schedule(b))
<1> DEFINE r == RemoveThread(b, b.cur)
           y == [r EXCEPT !.yield[b.cur] = FALSE]
           z == SwitchTo(b, Head(b.ready[HighestReady(b)]))
<1>1. TickStays(b, r)
  BY RemoveTick
<1>2. TickStays(b, z)
  BY SwitchTick
<1>3. Schedule(b) \in {b, y, z}
  BY DEF Schedule
<1> HIDE DEF r, z
<1>4. TickStays(r, y)
  BY DEF TickStays
<1>5. TickStays(b, b)
  BY DEF TickStays
<1> HIDE DEF y
<1> QED
  BY <1>1, <1>2, <1>3, <1>4, <1>5, TickStaysOn

LEMMA SuspendTick == ASSUME NEW b, NEW t PROVE TickStays(b, ThreadSuspend(b, t))
<1> DEFINE r == RemoveThread(b, t)
           y == [r EXCEPT !.stat[t] = "SUSPEND"]
<1>1. TickStays(b, r)
  BY RemoveTick
<1>2. ThreadSuspend(b, t) \in {b, TimerStop(y, t)}
  BY DEF ThreadSuspend
<1> HIDE DEF r
<1>3. TickStays(r, y)
  BY DEF TickStays
<1>4. TickStays(y, TimerStop(y, t)) /\ TickStays(b, b)
  BY TimerStopTick DEF TickStays
<1> HIDE DEF y
<1> QED
  BY <1>1, <1>2, <1>3, <1>4, TickStaysOn

LEMMA ResumeTick == ASSUME NEW b, NEW t PROVE TickStays(b, ThreadResume(b, t))
<1> DEFINE u == Unlink(b, t)
           s == TimerStop(u, t)
<1>1. TickStays(b, u) /\ TickStays(u, s) /\ TickStays(s, InsertThread(s, t))
  BY UnlinkTick, TimerStopTick, InsertTick
<1>2. ThreadResume(b, t) \in {b, InsertThread(s, t)}
  BY DEF ThreadResume
<1>3. TickStays(b, b)
  BY DEF TickStays
<1> HIDE DEF u, s
<1> QED
  BY <1>1, <1>2, <1>3, TickStaysOn

LEMMA StartupTick == ASSUME NEW b, NEW t PROVE TickStays(b, ThreadStartup(b, t))
<1> DEFINE y == [b EXCEPT !.prio[t] = InitPrio[t],
                          !.mask[t] = InitPrio[t],
                          !.stat[t] = "SUSPEND"]
<1>1. TickStays(b, y)
  BY DEF TickStays
<1>2. ThreadStartup(b, t) = ThreadResume(y, t)
  BY DEF ThreadStartup
<1> HIDE DEF y
<1> QED
  BY <1>1, <1>2, ResumeTick, TickStaysOn

LEMMA YieldTick == ASSUME NEW b, NEW t PROVE TickStays(b, ThreadYield(b, t))
<1> DEFINE y == [b EXCEPT !.remaining[t] = InitTick[t], !.yield[t] = TRUE]
<1>1. TickStays(b, y)
  BY DEF TickStays
<1>2. ThreadYield(b, t) = Schedule(y)
  BY DEF ThreadYield
<1> HIDE DEF y
<1> QED
  BY <1>1, <1>2, ScheduleTick, TickStaysOn

LEMMA TimerFireTick == ASSUME NEW b PROVE TickStays(b, TimerFire(b))
<1> DEFINE t == Head(b.timers)
           f == [b EXCEPT !.timers = Tail(@), !.due[t] = 0]
           e == [f EXCEPT !.error[t] = "TIMEOUT"]
           u == Unlink(e, t)
           i == InsertThread(u, t)
<1>1. TimerFire(b) = Schedule(i)
  BY DEF TimerFire, ThreadTimeout
<1>2. TickStays(b, f)
  BY DEF TickStays
<1> HIDE DEF f
<1>3. TickStays(f, e)
  BY DEF TickStays
<1> HIDE DEF e
<1>4. TickStays(e, u) /\ TickStays(u, i) /\ TickStays(i, Schedule(i))
  BY UnlinkTick, InsertTick, ScheduleTick
<1> HIDE DEF u, i, t
<1> QED
  BY <1>1, <1>2, <1>3, <1>4, TickStaysOn

(* rt_tick_increase moves it by one.                                       *)
LEMMA TickMoves ==
    ASSUME NEW b, "tick" \in DOMAIN b
    PROVE  /\ "tick" \in DOMAIN TickIncrease(b)
           /\ TickIncrease(b).tick = Later(b, 1)
<1> DEFINE n == [b EXCEPT !.tick = Later(b, 1)]
           c == b.cur
           d == [n EXCEPT !.remaining[c] = @ - 1]
<1>1. "tick" \in DOMAIN n /\ n.tick = Later(b, 1)
  OBVIOUS
<1>2. TickIncrease(b) \in {ThreadYield(n, c), d}
  BY DEF TickIncrease
<1> HIDE DEF n
<1>3. TickStays(n, d)
  BY DEF TickStays
<1>4. TickStays(n, ThreadYield(n, c))
  BY YieldTick
<1> QED
  BY <1>1, <1>2, <1>3, <1>4 DEF TickStays

-----------------------------------------------------------------------------
(* The timer lists.  A timer that is linked is due within half the tick    *)
(* range of now, before or after it: the differences of ticks tell which.  *)
Near(x, now) == Minus(x, now) < HalfTick \/ Minus(now, x) < HalfTick

InLists(s, now) ==
    /\ s \in SoftLists
    /\ Distinct(s.list)
    /\ Range(s.list) \cap s.temp = {}
    /\ Range(s.list) \subseteq s.active
    /\ s.temp \cap Periodic \subseteq s.active
    /\ \A tm \in Range(s.list) : Near(s.due[tm], now)

Left(s, now, tm) ==
    LET n == Minus(s.due[tm], now) IN IF n < HalfTick THEN n ELSE 0

(* A timer that is near is due exactly when no tick is left to go, and a   *)
(* tick takes one off what is left.                                        *)
LEMMA NearIs ==
    ASSUME NEW x \in Tick, NEW now \in Tick, Near(x, now)
    PROVE  LET n == Minus(x, now)
               left == IF n < HalfTick THEN n ELSE 0
           IN  /\ left \in Nat /\ left < HalfTick
               /\ Minus(now, x) < HalfTick <=> left = 0
<1>1. /\ Minus(x, now) \in Tick
      /\ Minus(x, now) = IF now <= x THEN x - now ELSE x - now + TickMod
  BY MinusIs
<1>2. /\ Minus(now, x) \in Tick
      /\ Minus(now, x) = IF x <= now THEN now - x ELSE now - x + TickMod
  BY MinusIs
<1>3. HalfTick \in Nat /\ HalfTick > 1 /\ HalfTick + HalfTick < TickMod
  BY HalfIs
<1>4. TickMod \in Nat /\ TickMod > 4
  BY KernelAssumption
<1> QED
  BY <1>1, <1>2, <1>3, <1>4 DEF Near, Tick

LEMMA TickNears ==
    ASSUME NEW x \in Tick, NEW now \in Tick, Near(x, now),
           Minus(now, x) # HalfTick - 1
    PROVE  LET next == (now + 1) % TickMod
               n    == Minus(x, now)
               m    == Minus(x, next)
               left == IF n < HalfTick THEN n ELSE 0
           IN  /\ Near(x, next)
               /\ (IF m < HalfTick THEN m ELSE 0) = IF left > 0 THEN left - 1 ELSE 0
<1>1. /\ Minus(x, now) \in Tick
      /\ Minus(x, now) = IF now <= x THEN x - now ELSE x - now + TickMod
  BY MinusIs
<1>2. /\ Minus(now, x) \in Tick
      /\ Minus(now, x) = IF x <= now THEN now - x ELSE now - x + TickMod
  BY MinusIs
<1>3. HalfTick \in Nat /\ HalfTick > 1 /\ HalfTick + HalfTick < TickMod
  BY HalfIs
<1>4. TickMod \in Nat /\ TickMod > 4
  BY KernelAssumption
<1>5. PICK next \in Tick : /\ next = (now + 1) % TickMod
                           /\ next = IF now + 1 < TickMod THEN now + 1
                                     ELSE now + 1 - TickMod
  BY <1>3, AfterIs
<1>6. /\ Minus(x, next) \in Tick
      /\ Minus(x, next) = IF next <= x THEN x - next ELSE x - next + TickMod
  BY MinusIs
<1>7. /\ Minus(next, x) \in Tick
      /\ Minus(next, x) = IF x <= next THEN next - x ELSE next - x + TickMod
  BY MinusIs
<1>8. Near(x, next)
  BY <1>1, <1>2, <1>3, <1>4, <1>5, <1>6, <1>7 DEF Near, Tick
<1>9. LET n    == Minus(x, now)
          m    == Minus(x, next)
          left == IF n < HalfTick THEN n ELSE 0
      IN  (IF m < HalfTick THEN m ELSE 0) = IF left > 0 THEN left - 1 ELSE 0
  BY <1>1, <1>2, <1>3, <1>4, <1>5, <1>6, <1>7 DEF Near, Tick
<1> QED
  BY <1>5, <1>8, <1>9

(* A timer started now is near, with all its ticks to go.                  *)
LEMMA StartNear ==
    ASSUME NEW now \in Tick, NEW n \in 0 .. HalfTick - 1
    PROVE  LET x == (now + n) % TickMod
           IN  x \in Tick /\ Near(x, now) /\ Minus(x, now) = n
<1>1. HalfTick \in Nat /\ HalfTick > 1 /\ HalfTick + HalfTick < TickMod
  BY HalfIs
<1>2. n \in Nat /\ n < HalfTick
  BY <1>1
<1>3. TickMod \in Nat
  BY KernelAssumption
<1>4. PICK x \in Tick : /\ x = (now + n) % TickMod
                        /\ x = IF now + n < TickMod THEN now + n
                               ELSE now + n - TickMod
  BY <1>2, AfterIs
<1>5. Minus(x, now) = IF now <= x THEN x - now ELSE x - now + TickMod
  BY MinusIs
<1>6. Minus(x, now) = n
  BY <1>1, <1>2, <1>3, <1>4, <1>5 DEF Tick
<1> QED
  BY <1>2, <1>4, <1>6 DEF Near

LEMMA SoftRemoveIs ==
    ASSUME NEW s \in SoftLists, Distinct(s.list), NEW tm \in Timer
    PROVE  LET r == SoftRemove(s, tm)
           IN  /\ r \in SoftLists
               /\ Distinct(r.list)
               /\ Range(r.list) = Range(s.list) \ {tm}
               /\ r.temp = s.temp \ {tm}
               /\ r.due = [s.due EXCEPT ![tm] = 0]
               /\ r.active = s.active /\ r.busy = s.busy
<1> DEFINE w == Without(s.list, tm)
           r == SoftRemove(s, tm)
<1>1. s.list \in Seq(Timer)
  BY DEF SoftLists
<1>2. w \in Seq(Timer) /\ Distinct(w) /\ Range(w) = Range(s.list) \ {tm}
  BY <1>1, WithoutProperties
<1>3. r = [s EXCEPT !.list = w, !.temp = s.temp \ {tm},
                    !.due = [s.due EXCEPT ![tm] = 0]]
  BY DEF SoftRemove, SoftLists
<1>4. 0 \in Tick
  BY KernelAssumption DEF Tick
<1> HIDE DEF w, r
<1>5. /\ r \in SoftLists /\ r.list = w /\ r.temp = s.temp \ {tm}
      /\ r.due = [s.due EXCEPT ![tm] = 0]
      /\ r.active = s.active /\ r.busy = s.busy
  BY <1>2, <1>3, <1>4 DEF SoftLists
<1> QED
  BY <1>2, <1>5 DEF r

LEMMA SoftPlaceInside ==
    ASSUME NEW s \in Seq(Timer), NEW due, NEW when
    PROVE  TimerPlace(s, due, when) \in 1 .. Len(s) + 1
<1> DEFINE later == {i \in 1 .. Len(s) :
                       /\ due[s[i]] # when
                       /\ Minus(due[s[i]], when) < HalfTick}
<1>1. Len(s) \in Nat
  BY LenProperties
<1>2. CASE later = {}
  BY <1>1, <1>2 DEF TimerPlace
<1>3. CASE later # {}
  <2> DEFINE first == CHOOSE i \in later : \A j \in later : i <= j
  <2>1. later \in SUBSET Nat /\ later \subseteq 1 .. Len(s)
    BY <1>1
  <2>2. TimerPlace(s, due, when) = first
    BY <1>3 DEF TimerPlace
  <2> HIDE DEF later
  <2>3. first \in later
    BY <1>3, <2>1, LeastIn
  <2> HIDE DEF first
  <2> QED
    BY <1>1, <2>1, <2>2, <2>3
<1> QED
  BY <1>2, <1>3

LEMMA SoftStartIs ==
    ASSUME k.tick \in Tick,
           NEW s \in SoftLists, Distinct(s.list), NEW tm \in Timer
    PROVE  LET r == SoftStart(s, tm)
           IN  /\ r \in SoftLists
               /\ Distinct(r.list)
               /\ Range(r.list) = Range(s.list) \cup {tm}
               /\ r.temp = s.temp \ {tm}
               /\ r.due = [s.due EXCEPT ![tm] = Later(k, Delay[tm])]
               /\ r.active = s.active \cup {tm} /\ r.busy = s.busy
<1> DEFINE w    == SoftRemove(s, tm)
           when == Later(k, Delay[tm])
           at   == TimerPlace(w.list, w.due, when)
           l    == InsertAt(w.list, at, tm)
           r    == SoftStart(s, tm)
<1>1. /\ w \in SoftLists /\ Distinct(w.list)
      /\ Range(w.list) = Range(s.list) \ {tm}
      /\ w.temp = s.temp \ {tm} /\ w.due = [s.due EXCEPT ![tm] = 0]
      /\ w.active = s.active /\ w.busy = s.busy
  BY SoftRemoveIs
<1>2. when \in Tick
  <2>1. Delay[tm] \in Int
    BY SoftTimerAssumption
  <2> QED
    BY <2>1, TickWraps DEF Later, Tick
<1>3. r = [w EXCEPT !.list = l, !.due = [w.due EXCEPT ![tm] = when],
                    !.active = w.active \cup {tm}]
  BY <1>1 DEF SoftStart, SoftLists
<1> HIDE DEF w, when, r
<1>4. w.list \in Seq(Timer)
  BY <1>1 DEF SoftLists
<1>5. at \in 1 .. Len(w.list) + 1
  BY <1>4, SoftPlaceInside
<1> HIDE DEF at
<1>6. /\ l \in Seq(Timer) /\ Range(l) = Range(w.list) \cup {tm}
      /\ Distinct(w.list) /\ tm \notin Range(w.list) => Distinct(l)
  BY <1>4, <1>5, InsertAtProperties
<1> HIDE DEF l
<1>7. /\ r \in SoftLists /\ r.list = l /\ r.temp = w.temp
      /\ r.due = [w.due EXCEPT ![tm] = when]
      /\ r.active = w.active \cup {tm} /\ r.busy = w.busy
  BY <1>1, <1>2, <1>3, <1>6 DEF SoftLists
<1>8. r.due = [s.due EXCEPT ![tm] = when]
  BY <1>1, <1>7 DEF SoftLists
<1>9. Distinct(r.list) /\ Range(r.list) = Range(s.list) \cup {tm}
  BY <1>1, <1>6, <1>7
<1> QED
  BY <1>1, <1>7, <1>8, <1>9 DEF r, when

LEMMA RemoveInLists ==
    ASSUME NEW now \in Tick, NEW s, InLists(s, now), NEW tm \in Timer
    PROVE  InLists(SoftRemove(s, tm), now)
<1> DEFINE r == SoftRemove(s, tm)
<1>1. /\ r \in SoftLists /\ Distinct(r.list)
      /\ Range(r.list) = Range(s.list) \ {tm}
      /\ r.temp = s.temp \ {tm} /\ r.due = [s.due EXCEPT ![tm] = 0]
      /\ r.active = s.active /\ r.busy = s.busy
  BY SoftRemoveIs DEF InLists
<1> HIDE DEF r
<1>2. \A x \in Range(r.list) : r.due[x] = s.due[x] /\ x \in Range(s.list)
  BY <1>1 DEF InLists, SoftLists
<1>3. \A x \in Range(r.list) : Near(r.due[x], now)
  BY <1>2 DEF InLists
<1>4. InLists(r, now)
  BY <1>1, <1>3 DEF InLists
<1> QED
  BY <1>4 DEF r

LEMMA StopIs ==
    ASSUME NEW now \in Tick, NEW s, InLists(s, now), NEW tm \in Timer
    PROVE  LET r == SoftStop(s, tm)
           IN  /\ InLists(r, now)
               /\ Range(r.list) = Range(s.list) \ {tm}
               /\ r.temp = s.temp \ {tm} /\ r.due = [s.due EXCEPT ![tm] = 0]
               /\ r.busy = s.busy
<1> DEFINE r == SoftRemove(s, tm)
           z == [r EXCEPT !.active = r.active \ {tm}]
<1>1. /\ r \in SoftLists /\ Distinct(r.list)
      /\ Range(r.list) = Range(s.list) \ {tm}
      /\ r.temp = s.temp \ {tm} /\ r.due = [s.due EXCEPT ![tm] = 0]
      /\ r.active = s.active /\ r.busy = s.busy
  BY SoftRemoveIs DEF InLists
<1>2. InLists(r, now)
  BY RemoveInLists
<1>3. SoftStop(s, tm) = z
  BY <1>1 DEF SoftStop, SoftLists
<1> HIDE DEF r
<1>4. /\ z \in SoftLists /\ z.list = r.list /\ z.temp = r.temp
      /\ z.due = r.due /\ z.active = r.active \ {tm} /\ z.busy = r.busy
  BY <1>1 DEF SoftLists
<1> HIDE DEF z
<1>5. tm \notin Range(z.list) /\ tm \notin z.temp
  BY <1>1, <1>4
<1>6. InLists(z, now)
  BY <1>2, <1>4, <1>5 DEF InLists
<1> QED
  BY <1>1, <1>3, <1>4, <1>6

LEMMA StartInLists ==
    ASSUME k.tick \in Tick, NEW s, InLists(s, k.tick), NEW tm \in Timer
    PROVE  InLists(SoftStart(s, tm), k.tick)
<1> DEFINE r == SoftStart(s, tm)
           when == Later(k, Delay[tm])
<1>1. /\ r \in SoftLists /\ Distinct(r.list)
      /\ Range(r.list) = Range(s.list) \cup {tm}
      /\ r.temp = s.temp \ {tm}
      /\ r.due = [s.due EXCEPT ![tm] = when]
      /\ r.active = s.active \cup {tm} /\ r.busy = s.busy
  BY SoftStartIs DEF InLists
<1>2. Near(when, k.tick)
  <2>1. Delay[tm] \in 0 .. HalfTick - 1
    BY SoftTimerAssumption
  <2> QED
    BY <2>1, StartNear DEF Later
<1> HIDE DEF r, when
<1>3. \A x \in Range(r.list) : Near(r.due[x], k.tick)
  BY <1>1, <1>2 DEF InLists, SoftLists
<1>4. InLists(r, k.tick)
  BY <1>1, <1>3 DEF InLists
<1> QED
  BY <1>4 DEF r

(* The first timer is called: it moves to the temporary list.              *)
LEMMA CallIs ==
    ASSUME k.tick \in Tick, NEW s, InLists(s, k.tick), s.temp = {},
           SoftExpired(s)
    PROVE  LET tm == Head(s.list)
               r  == SoftCall(s)
           IN  /\ tm \in Timer /\ tm \in Range(s.list)
               /\ Left(s, k.tick, tm) = 0
               /\ InLists(r, k.tick)
               /\ Range(r.list) = Range(s.list) \ {tm}
               /\ r.temp = {tm} /\ r.busy = TRUE
               /\ r.due = [s.due EXCEPT ![tm] = 0]
<1> DEFINE tm == Head(s.list)
           w  == SoftRemove(s, tm)
           z  == [w EXCEPT !.temp = {tm}, !.busy = TRUE,
                           !.active = w.active \ ({tm} \ Periodic)]
<1>1. s \in SoftLists /\ s.list \in Seq(Timer) /\ s.list # <<>>
  BY DEF InLists, SoftLists, SoftExpired
<1>2. tm \in Timer /\ tm \in Range(s.list)
  BY <1>1, HeadIn
<1>3. Left(s, k.tick, tm) = 0
  <2>1. s.due[tm] \in Tick /\ Near(s.due[tm], k.tick)
    BY <1>1, <1>2 DEF InLists, SoftLists
  <2>2. Minus(k.tick, s.due[tm]) < HalfTick
    BY DEF SoftExpired
  <2> QED
    BY <2>1, <2>2, NearIs DEF Left
<1>4. SoftCall(s) = z
  BY DEF SoftCall
<1> HIDE DEF tm
<1>5. /\ w \in SoftLists /\ Distinct(w.list)
      /\ Range(w.list) = Range(s.list) \ {tm}
      /\ w.temp = s.temp \ {tm} /\ w.due = [s.due EXCEPT ![tm] = 0]
      /\ w.active = s.active /\ w.busy = s.busy
  BY <1>2, SoftRemoveIs DEF InLists
<1>6. InLists(w, k.tick)
  BY <1>2, RemoveInLists
<1> HIDE DEF w
<1>7. /\ z \in SoftLists /\ z.list = w.list /\ z.temp = {tm} /\ z.due = w.due
      /\ z.active = w.active \ ({tm} \ Periodic) /\ z.busy = TRUE
  BY <1>2, <1>5 DEF SoftLists
<1> HIDE DEF z
<1>8. tm \in w.active
  BY <1>2, <1>5 DEF InLists
<1>9. InLists(z, k.tick)
  <2>1. tm \notin Range(z.list)
    BY <1>5, <1>7
  <2>2. \A x \in Range(z.list) : Near(z.due[x], k.tick)
    BY <1>6, <1>7 DEF InLists
  <2>3. Range(z.list) \subseteq z.active
    BY <1>6, <1>7, <2>1 DEF InLists
  <2>4. Distinct(z.list)
    BY <1>5, <1>7
  <2> QED
    BY <1>7, <1>8, <2>1, <2>2, <2>3, <2>4 DEF InLists
<1> QED
  BY <1>2, <1>3, <1>4, <1>5, <1>7, <1>9 DEF tm

(* The timer lists r that the callbacks that are over leave of s.          *)
Returned(s, r) ==
    /\ InLists(r, k.tick) /\ r.temp = {} /\ r.busy = FALSE
    /\ Range(r.list) = Range(s.list) \cup (s.temp \cap Periodic)
    /\ \A x \in Timer : r.due[x] =
          IF x \in s.temp \cap Periodic THEN Later(k, Delay[x])
          ELSE IF x \in s.temp THEN 0 ELSE s.due[x]

(* The callback of tm is over.                                             *)
LEMMA ReturnIs ==
    ASSUME k.tick \in Tick, NEW s, InLists(s, k.tick), NEW tm \in Timer,
           s.temp \subseteq {tm}
    PROVE  Returned(s, SoftReturn(s, tm))
<1> DEFINE c == [s EXCEPT !.busy = FALSE]
<1>1. /\ c \in SoftLists /\ c.list = s.list /\ c.temp = s.temp /\ c.due = s.due
      /\ c.active = s.active /\ c.busy = FALSE
  BY DEF InLists, SoftLists
<1>2. InLists(c, k.tick)
  BY <1>1 DEF InLists
<1> HIDE DEF c
<1>3. CASE tm \notin s.temp
  <2>1. SoftReturn(s, tm) = c /\ s.temp = {}
    BY <1>3 DEF SoftReturn, c
  <2> QED
    BY <1>1, <1>2, <2>1 DEF Returned
<1>4. CASE tm \in s.temp /\ tm \in Periodic
  <2>1. tm \in s.active /\ s.temp = {tm}
    BY <1>4 DEF InLists
  <2>2. SoftReturn(s, tm) = SoftStart(c, tm)
    BY <1>4, <2>1 DEF SoftReturn, c
  <2> DEFINE r == SoftStart(c, tm)
             when == Later(k, Delay[tm])
  <2>3. /\ Range(r.list) = Range(c.list) \cup {tm}
        /\ r.temp = c.temp \ {tm} /\ r.due = [c.due EXCEPT ![tm] = when]
        /\ r.busy = c.busy
    BY <1>1, <1>2, SoftStartIs DEF InLists
  <2>4. InLists(r, k.tick)
    BY <1>2, StartInLists
  <2> HIDE DEF r, when
  <2>5. \A x \in Timer : r.due[x] = IF x = tm THEN when ELSE s.due[x]
    BY <1>1, <2>3 DEF SoftLists
  <2> QED
    BY <1>1, <1>4, <2>1, <2>2, <2>3, <2>4, <2>5 DEF r, when, Returned
<1>5. CASE tm \in s.temp /\ tm \notin Periodic
  <2>1. SoftReturn(s, tm) = SoftRemove(c, tm) /\ s.temp = {tm}
    BY <1>5 DEF SoftReturn, c
  <2> DEFINE r == SoftRemove(c, tm)
  <2>3. /\ Range(r.list) = Range(c.list) \ {tm}
        /\ r.temp = c.temp \ {tm} /\ r.due = [c.due EXCEPT ![tm] = 0]
        /\ r.busy = c.busy
    BY <1>1, <1>2, SoftRemoveIs DEF InLists
  <2>4. InLists(r, k.tick)
    BY <1>1, <1>2, RemoveInLists
  <2> HIDE DEF r
  <2>5. \A x \in Timer : r.due[x] = IF x = tm THEN 0 ELSE s.due[x]
    BY <1>1, <2>3 DEF SoftLists
  <2>6. tm \notin Range(s.list)
    BY <1>5 DEF InLists
  <2> QED
    BY <1>1, <1>5, <2>1, <2>3, <2>4, <2>5, <2>6 DEF r, Returned
<1> QED
  BY <1>3, <1>4, <1>5

-----------------------------------------------------------------------------
(* The inductive invariant: the timer lists, the place of the timer loop   *)
(* and the calls that threads are in agree, on any kernel state.           *)
LoopAgrees ==
    /\ loop.at \in {"scan", "suspend", "delay", "sleep", "check", "callback"}
    /\ loop.at = "callback" => loop.value \in Timer
    /\ loop.at # "callback" => loop.value \in Tick
    /\ loop.at = "sleep" => loop.value < HalfTick
    /\ soft.temp # {} => loop.at = "callback" /\ soft.temp = {loop.value}
    /\ soft.busy <=> loop.at = "callback"

OpsAgree ==
    /\ op \in [Thread -> [what : Ops, timer : Timer \cup {"none"}]]
    /\ \A t \in Thread :
          /\ op[t].what = "none" <=> pc[t] # "call"
          /\ op[t].what \in {"start", "stop", "detach"} => op[t].timer \in Timer

SoftInv ==
    /\ "tick" \in DOMAIN k /\ k.tick \in Tick
    /\ pc \in [Thread -> Location]
    /\ InLists(soft, k.tick)
    /\ LoopAgrees
    /\ OpsAgree

Promised == [Abstract!Next]_<<Phases, Remaining, Asked>>

LEMMA RemainingIs ==
    ASSUME NEW tm \in Timer
    PROVE  Remaining[tm] = IF tm \in Range(soft.list) THEN Left(soft, k.tick, tm)
                           ELSE 0
BY DEF Remaining, TicksToGo, Left

(* A step that leaves the timers and the calls alone.                      *)
LEMMA TimersStay ==
    ASSUME k'.tick = k.tick, soft'.list = soft.list, soft'.temp = soft.temp,
           soft'.due = soft.due
    PROVE  UNCHANGED <<Phases, Remaining>>
BY DEF Phases, Remaining, TicksToGo

LEMMA QuietTimers ==
    ASSUME SoftInv, TickStays(k, k'), UNCHANGED softVars,
           pc' \in [Thread -> Location],
           \A t \in Thread : pc'[t] = "call" <=> pc[t] = "call"
    PROVE  SoftInv' /\ Promised
<1>1. "tick" \in DOMAIN k' /\ k'.tick = k.tick /\ k'.tick \in Tick
  BY DEF SoftInv, TickStays
<1>2. soft' = soft /\ loop' = loop /\ op' = op
  BY DEF softVars
<1>3. InLists(soft, k.tick)' /\ LoopAgrees'
  BY <1>1, <1>2 DEF SoftInv, LoopAgrees
<1>4. OpsAgree'
  BY <1>2 DEF SoftInv, OpsAgree
<1>5. UNCHANGED <<Phases, Remaining>>
  BY <1>1, <1>2, TimersStay
<1>6. UNCHANGED Asked
  BY <1>2 DEF Asked, AskedBy
<1> QED
  BY <1>1, <1>3, <1>4, <1>5, <1>6 DEF SoftInv, Promised

-----------------------------------------------------------------------------
(* The clock and the other threads.                                        *)
LEMMA GotoCalls ==
    ASSUME pc \in [Thread -> Location], NEW t \in Thread, NEW loc \in Location,
           Goto(t, loc), (loc = "call") <=> (pc[t] = "call")
    PROVE  /\ pc' \in [Thread -> Location]
           /\ \A u \in Thread : pc'[u] = "call" <=> pc[u] = "call"
BY DEF Goto

LEMMA TickNearer ==
    ASSUME SoftInv, Patient, k'.tick = Later(k, 1), soft' = soft
    PROVE  /\ InLists(soft, k.tick)'
           /\ Remaining' = [tm \in Timer |->
                 IF Remaining[tm] > 0 THEN Remaining[tm] - 1 ELSE 0]
<1> DEFINE next == (k.tick + 1) % TickMod
<1>1. k.tick \in Tick /\ k'.tick = next
  BY DEF SoftInv, Later
<1>2. /\ soft \in SoftLists /\ soft.list \in Seq(Timer)
      /\ soft.due \in [Timer -> Tick]
  BY DEF SoftInv, InLists, SoftLists
<1>3. ASSUME NEW tm \in Range(soft.list)
      PROVE  /\ tm \in Timer
             /\ Near(soft.due[tm], next)
             /\ Left(soft, next, tm) =
                   IF Left(soft, k.tick, tm) > 0 THEN Left(soft, k.tick, tm) - 1
                   ELSE 0
  <2>1. tm \in Timer /\ soft.due[tm] \in Tick /\ Near(soft.due[tm], k.tick)
    BY <1>2, RangeIs, ElementOfSeq DEF SoftInv, InLists
  <2>2. Minus(k.tick, soft.due[tm]) # HalfTick - 1
    <3>1. HalfTick \in Nat /\ HalfTick > 1
      BY HalfIs
    <3>2. MayBeLate \in 0 .. HalfTick - 1
      BY <3>1, SoftTimerAssumption DEF MayBeLate
    <3>3. HalfTick - 1 \in MayBeLate .. HalfTick - 1
      BY <3>1, <3>2
    <3> QED
      BY <3>3 DEF Patient
  <2> QED
    BY <1>1, <2>1, <2>2, TickNears DEF Left
<1>4. InLists(soft, next)
  BY <1>3 DEF SoftInv, InLists
<1>5. InLists(soft, k.tick)'
  BY <1>1, <1>4
<1>6. \A tm \in Timer : Remaining[tm] = IF tm \in Range(soft.list)
                                         THEN Left(soft, k.tick, tm) ELSE 0
  BY RemainingIs
<1>7. Remaining' = [tm \in Timer |-> IF tm \in Range(soft.list)
                                     THEN Left(soft, next, tm) ELSE 0]
  BY <1>1 DEF Remaining, TicksToGo, Left
<1> HIDE DEF next
<1>8. \A tm \in Timer :
        (IF tm \in Range(soft.list) THEN Left(soft, next, tm) ELSE 0)
            = IF Remaining[tm] > 0 THEN Remaining[tm] - 1 ELSE 0
  BY <1>3, <1>6
<1> QED
  BY <1>5, <1>7, <1>8

(* The tick brings the timers nearer, and the handler does nothing else to *)
(* them.                                                                   *)
LEMMA ClockKeeps ==
    ASSUME SoftInv, ClockStep
    PROVE  SoftInv' /\ Promised
<1>1. UNCHANGED softVars /\ UNCHANGED pc
  BY DEF ClockStep, TickInterrupt, TimerCheck, TickReturn
<1>2. CASE Patient /\ TickInterrupt
  <2>1. k' = TickIncrease(k) /\ "tick" \in DOMAIN k /\ k.tick \in Tick
    BY <1>2 DEF TickInterrupt, SoftInv
  <2>2. "tick" \in DOMAIN k' /\ k'.tick = Later(k, 1)
    BY <2>1, TickMoves
  <2>3. k'.tick \in Tick
    BY <2>1, <2>2, TickWraps DEF Later, Tick
  <2>4. soft' = soft /\ loop' = loop /\ op' = op
    BY <1>1 DEF softVars
  <2>5. /\ InLists(soft, k.tick)'
        /\ Remaining' = [tm \in Timer |->
              IF Remaining[tm] > 0 THEN Remaining[tm] - 1 ELSE 0]
    BY <1>2, <2>2, <2>4, TickNearer
  <2>6. UNCHANGED <<Phases, Asked>>
    BY <2>4 DEF Phases, Asked, AskedBy
  <2>7. Abstract!Tick
    BY <2>5, <2>6 DEF Abstract!Tick
  <2>8. LoopAgrees' /\ OpsAgree'
    BY <1>1, <2>4 DEF SoftInv, LoopAgrees, OpsAgree
  <2> QED
    BY <1>1, <2>2, <2>3, <2>5, <2>7, <2>8 DEF SoftInv, Promised, Abstract!Next
<1>3. CASE TimerCheck \/ TickReturn
  <2>1. TickStays(k, k')
    BY <1>3, TimerFireTick DEF TimerCheck, TickReturn, TickStays
  <2> QED
    BY <1>1, <2>1, QuietTimers DEF SoftInv
<1> QED
  BY <1>2, <1>3 DEF ClockStep

LEMMA RtScheduleTimers ==
    ASSUME SoftInv, NEW t \in Thread, RtSchedule(t)
    PROVE  /\ TickStays(k, k') /\ pc' \in [Thread -> Location]
           /\ \A u \in Thread : pc'[u] = "call" <=> pc[u] = "call"
<1>1. PICK loc \in {"sched", "nap", "wait"} :
         /\ pc[t] = loc
         /\ k' = Schedule(k)
         /\ Goto(t, CASE loc = "sched" -> "run"
                      [] loc = "nap"   -> "napped"
                      [] loc = "wait"  -> "woken")
  BY DEF RtSchedule, At
<1>2. PICK to \in {"run", "napped", "woken"} : Goto(t, to)
  BY <1>1
<1>3. to \in Location /\ to # "call"
  BY DEF Location
<1> QED
  BY <1>1, <1>2, <1>3, ScheduleTick, GotoCalls DEF SoftInv

LEMMA NappedTimers ==
    ASSUME SoftInv, NEW t \in Thread, Napped(t)
    PROVE  /\ TickStays(k, k') /\ pc' \in [Thread -> Location]
           /\ \A u \in Thread : pc'[u] = "call" <=> pc[u] = "call"
<1>1. /\ pc[t] = "napped" /\ Goto(t, "run")
      /\ k' = [k EXCEPT !.error[t] = IF @ = "TIMEOUT" THEN "OK" ELSE @]
  BY DEF Napped, At
<1>2. TickStays(k, k')
  BY <1>1 DEF TickStays
<1>3. "run" \in Location
  BY DEF Location
<1> QED
  BY <1>1, <1>2, <1>3, GotoCalls DEF SoftInv

(* Another thread calls no timer function.                                 *)
LEMMA ClientKeeps ==
    ASSUME SoftInv, NEW t \in Client, ClientStep(t)
    PROVE  SoftInv' /\ Promised
<1>1. UNCHANGED softVars /\ t \in Thread /\ pc \in [Thread -> Location]
  BY DEF ClientStep, Client, Worker, SoftInv
<1>2. {"run", "sched", "nap"} \subseteq Location
  BY DEF Location
<1>3. CASE RtSchedule(t)
  BY <1>1, <1>3, RtScheduleTimers, QuietTimers
<1>4. CASE Napped(t)
  BY <1>1, <1>4, NappedTimers, QuietTimers
<1>5. ASSUME NEW u \in Worker, Startup(t, u)
      PROVE  SoftInv' /\ Promised
  <2>1. pc[t] = "run" /\ k' = ThreadStartup(k, u) /\ Goto(t, "sched")
    BY <1>5 DEF Startup, At
  <2>2. TickStays(k, k')
    BY <2>1, StartupTick
  <2> QED
    BY <1>1, <1>2, <2>1, <2>2, GotoCalls, QuietTimers
<1>6. CASE Yield(t)
  <2>1. k' = ThreadYield(k, t) /\ UNCHANGED pc
    BY <1>6 DEF Yield
  <2>2. TickStays(k, k')
    BY <2>1, YieldTick
  <2> QED
    BY <1>1, <2>1, <2>2, QuietTimers
<1>7. CASE EnterCritical(t)
  <2>1. TickStays(k, k') /\ UNCHANGED pc
    BY <1>7 DEF EnterCritical, TickStays
  <2> QED
    BY <1>1, <2>1, QuietTimers
<1>8. CASE ExitCritical(t)
  <2>1. TickStays(k, k') /\ pc[t] = "run"
    BY <1>8 DEF ExitCritical, TickStays, At
  <2>2. Goto(t, "sched") \/ UNCHANGED pc
    BY <1>8 DEF ExitCritical
  <2> QED
    BY <1>1, <1>2, <2>1, <2>2, GotoCalls, QuietTimers
<1>9. CASE Sleep(t)
  <2>1. PICK n \in SleepTimes : k' = TimerStart(ThreadSuspend(k, t), t, n)
    BY <1>9 DEF Sleep
  <2>2. pc[t] = "run" /\ Goto(t, "nap")
    BY <1>9 DEF Sleep, At
  <2>3. TickStays(k, k')
    BY <2>1, SuspendTick, TimerStartTick, TickStaysOn
  <2> QED
    BY <1>1, <1>2, <2>2, <2>3, GotoCalls, QuietTimers
<1> QED
  BY <1>3, <1>4, <1>5, <1>6, <1>7, <1>8, <1>9 DEF ClientStep, CpuStep

-----------------------------------------------------------------------------
(* The timer loop.                                                         *)

(* A step of the loop outside rt_soft_timer_check.                         *)
LEMMA LoopMoves ==
    ASSUME SoftInv, TickStays(k, k'), UNCHANGED <<soft, op>>,
           loop.at # "callback",
           loop'.at \in {"scan", "suspend", "delay", "sleep", "check"},
           loop'.value \in Tick, loop'.at = "sleep" => loop'.value < HalfTick,
           pc' \in [Thread -> Location],
           \A t \in Thread : pc'[t] = "call" <=> pc[t] = "call"
    PROVE  SoftInv' /\ Promised
<1>1. "tick" \in DOMAIN k' /\ k'.tick = k.tick /\ k'.tick \in Tick
  BY DEF SoftInv, TickStays
<1>2. soft' = soft /\ op' = op
  OBVIOUS
<1>3. InLists(soft, k.tick)'
  BY <1>1, <1>2 DEF SoftInv
<1>4. soft.temp = {} /\ ~soft.busy
  BY DEF SoftInv, LoopAgrees
<1>5. LoopAgrees'
  BY <1>2, <1>4 DEF LoopAgrees
<1>6. OpsAgree'
  BY <1>2 DEF SoftInv, OpsAgree
<1>7. UNCHANGED <<Phases, Remaining>>
  BY <1>1, <1>2, TimersStay
<1>8. UNCHANGED Asked
  BY <1>2 DEF Asked, AskedBy
<1> QED
  BY <1>1, <1>3, <1>5, <1>6, <1>7, <1>8 DEF SoftInv, Promised

LEMMA LoopIs ==
    ASSUME NEW at, NEW v PROVE Loop(at, v).at = at /\ Loop(at, v).value = v
BY DEF Loop

LEMMA TickEnds == 0 \in Tick /\ RtTickMax \in Tick
BY KernelAssumption DEF Tick, RtTickMax

LEMMA NextTimeoutIs == ASSUME SoftInv PROVE NextTimeout \in Tick
<1>1. soft.list \in Seq(Timer) /\ soft.due \in [Timer -> Tick]
  BY DEF SoftInv, InLists, SoftLists
<1> QED
  BY <1>1, TickEnds, HeadIn DEF NextTimeout

LEMMA SoftInvLists ==
    ASSUME SoftInv
    PROVE  /\ Range(soft.list) \subseteq Timer /\ soft.temp \subseteq Timer
           /\ Range(soft.list) \cap soft.temp = {}
           /\ \A x, y \in soft.temp : x = y
           /\ k.tick \in Tick
<1>1. soft.list \in Seq(Timer) /\ soft.temp \subseteq Timer
  BY DEF SoftInv, InLists, SoftLists
<1>2. Range(soft.list) \subseteq Timer
  BY <1>1, RangeIs, ElementOfSeq
<1>3. \A x, y \in soft.temp : x = y
  BY DEF SoftInv, LoopAgrees
<1> QED
  BY <1>1, <1>2, <1>3 DEF SoftInv, InLists

(* The timers that have been called are armed again, or stopped, and the   *)
(* first one is called if it is due: a periodic timer of no delay may be   *)
(* called again at once.                                                   *)
LEMMA ServeMaps ==
    ASSUME SoftInv, UNCHANGED <<k, op>>, NEW r, Returned(soft, r),
           NEW out \in SUBSET Timer,
           \A x, y \in out : x = y,
           \A x \in out : x \in Range(r.list) /\ Left(r, k.tick, x) = 0,
           Range(soft'.list) = Range(r.list) \ out, soft'.temp = out,
           \A x \in Timer \ out : soft'.due[x] = r.due[x]
    PROVE  Promised
<1> DEFINE back == soft.temp
<1>1. /\ Range(soft.list) \subseteq Timer /\ back \subseteq Timer
      /\ Range(soft.list) \cap back = {}
      /\ \A x, y \in back : x = y
      /\ k.tick \in Tick
  BY SoftInvLists
<1>2. /\ Range(r.list) = Range(soft.list) \cup (back \cap Periodic)
      /\ \A x \in Timer : r.due[x] =
            IF x \in back \cap Periodic THEN Later(k, Delay[x])
            ELSE IF x \in back THEN 0 ELSE soft.due[x]
  BY DEF Returned
<1>3. UNCHANGED Asked
  BY DEF Asked, AskedBy
<1>4. ASSUME NEW x \in Timer, x \in back \cap Periodic
      PROVE  Left(r, k.tick, x) = Delay[x]
  <2>1. Delay[x] \in 0 .. HalfTick - 1 /\ r.due[x] = (k.tick + Delay[x]) % TickMod
    BY <1>2, <1>4, SoftTimerAssumption DEF Later
  <2>2. Minus(r.due[x], k.tick) = Delay[x]
    BY <1>1, <2>1, StartNear
  <2>3. HalfTick \in Nat
    BY HalfIs
  <2> QED
    BY <2>1, <2>2, <2>3 DEF Left
<1>5. ASSUME NEW x \in Range(soft.list)
      PROVE  Left(r, k.tick, x) = Left(soft, k.tick, x)
  <2>1. r.due[x] = soft.due[x]
    BY <1>1, <1>2
  <2> QED
    BY <2>1 DEF Left
<1>6. \A x \in Timer : Remaining[x] =
         IF x \in Range(soft.list) THEN Left(soft, k.tick, x) ELSE 0
  BY RemainingIs
<1>7. Remaining' = [x \in Timer |-> IF x \in Range(r.list) \ out
                                    THEN Left(r, k.tick, x) ELSE 0]
  <2>1. \A x \in Timer \ out : soft'.due[x] = r.due[x]
    OBVIOUS
  <2> QED
    BY <2>1 DEF Remaining, TicksToGo, Left
<1>8. Phases' = [x \in Timer |-> IF x \in Range(r.list) \ out THEN "armed"
                                 ELSE IF x \in out THEN "called"
                                 ELSE "stopped"]
  BY DEF Phases
<1>9. Phases = [x \in Timer |-> IF x \in Range(soft.list) THEN "armed"
                                ELSE IF x \in back THEN "called"
                                ELSE "stopped"]
  BY DEF Phases
<1>10. Remaining = [x \in Timer |-> Remaining[x]]
  BY DEF Remaining
<1> HIDE DEF back
<1>11. CASE out \cap back # {}
  <2>1. PICK z : z \in out /\ z \in back
    BY <1>11
  <2>2. out = {z} /\ back = {z}
    BY <1>1, <2>1
  <2>3. z \in Periodic /\ z \in Timer /\ z \notin Range(soft.list)
    BY <1>1, <1>2, <2>1
  <2>4. Range(r.list) \ out = Range(soft.list)
    BY <1>2, <2>2, <2>3
  <2>5. Phases' = Phases
    BY <1>8, <1>9, <2>2, <2>4
  <2>6. Remaining' = Remaining
    <3>1. \A x \in Timer : (IF x \in Range(r.list) \ out
                            THEN Left(r, k.tick, x) ELSE 0) = Remaining[x]
      BY <1>5, <1>6, <2>4
    <3> QED
      BY <1>7, <1>10, <3>1
  <2> QED
    BY <1>3, <2>5, <2>6 DEF Promised
<1>12. CASE out \cap back = {}
  <2>1. \A x \in back : Phases[x] = "called"
    BY <1>1, <1>9
  <2>2. \A x \in out : Phases[x] = "armed" /\ Remaining[x] = 0
    BY <1>1, <1>2, <1>5, <1>6, <1>9, <1>12
  <2>3. Phases' = [x \in Timer |->
                      IF x \in out THEN "called"
                      ELSE IF x \notin back THEN Phases[x]
                      ELSE IF x \in Periodic THEN "armed" ELSE "stopped"]
    BY <1>1, <1>2, <1>8, <1>9, <1>12
  <2>4. Remaining' = [x \in Timer |-> IF x \in back \cap Periodic THEN Delay[x]
                                      ELSE Remaining[x]]
    <3>1. \A x \in Timer : (IF x \in Range(r.list) \ out
                            THEN Left(r, k.tick, x) ELSE 0)
              = IF x \in back \cap Periodic THEN Delay[x] ELSE Remaining[x]
      BY <1>1, <1>2, <1>4, <1>5, <1>6, <1>12
    <3> QED
      BY <1>7, <3>1
  <2>5. \A x, y \in Timer : Phases'[x] = "called" /\ Phases'[y] = "called" => x = y
    <3>1. \A x \in Timer : Phases'[x] = "called" => x \in out
      BY <1>8
    <3> QED
      BY <3>1
  <2>6. Abstract!Serve(back, out)
    BY <1>3, <2>1, <2>2, <2>3, <2>4, <2>5 DEF Abstract!Serve
  <2> QED
    BY <1>1, <2>6 DEF Promised, Abstract!Next
<1> QED
  BY <1>11, <1>12

(* A turn of the loop of rt_soft_timer_check.                              *)
LEMMA CheckKeeps ==
    ASSUME SoftInv, UNCHANGED <<k, pc, op>>, NEW r, Returned(soft, r), CheckFrom(r)
    PROVE  SoftInv' /\ Promised
<1>1. /\ "tick" \in DOMAIN k' /\ k'.tick \in Tick /\ k'.tick = k.tick
      /\ pc' \in [Thread -> Location] /\ OpsAgree'
  BY DEF SoftInv, OpsAgree
<1>2. InLists(r, k.tick) /\ r.temp = {} /\ r.busy = FALSE
  BY DEF Returned
<1>3. CASE SoftExpired(r)
  <2> DEFINE tm == Head(r.list)
             c  == SoftCall(r)
  <2>1. /\ tm \in Timer /\ tm \in Range(r.list)
        /\ Left(r, k.tick, tm) = 0
        /\ InLists(c, k.tick)
        /\ Range(c.list) = Range(r.list) \ {tm}
        /\ c.temp = {tm} /\ c.busy = TRUE
        /\ c.due = [r.due EXCEPT ![tm] = 0]
    BY <1>1, <1>2, <1>3, CallIs
  <2>2. soft' = c /\ loop' = Loop("callback", tm)
    BY <1>3 DEF CheckFrom
  <2>3. loop'.at = "callback" /\ loop'.value = tm
    BY <2>2, LoopIs
  <2>4. \A x \in Timer \ {tm} : c.due[x] = r.due[x]
    BY <1>2, <2>1 DEF InLists, SoftLists
  <2> HIDE DEF tm, c
  <2>5. LoopAgrees'
    BY <2>1, <2>2, <2>3 DEF LoopAgrees
  <2>6. Promised
    BY <2>1, <2>2, <2>4, ServeMaps
  <2>7. InLists(soft, k.tick)'
    BY <1>1, <2>1, <2>2
  <2> QED
    BY <1>1, <2>5, <2>6, <2>7 DEF SoftInv
<1>4. CASE ~SoftExpired(r)
  <2>1. soft' = r /\ loop' = Loop("scan", 0)
    BY <1>4 DEF CheckFrom
  <2>2. loop'.at = "scan" /\ loop'.value = 0
    BY <2>1, LoopIs
  <2>3. LoopAgrees'
    BY <1>2, <2>1, <2>2, TickEnds DEF LoopAgrees
  <2>4. Promised
    BY <1>2, <2>1, ServeMaps
  <2>5. InLists(soft, k.tick)'
    BY <1>1, <1>2, <2>1
  <2> QED
    BY <1>1, <2>3, <2>4, <2>5 DEF SoftInv
<1> QED
  BY <1>3, <1>4

LEMMA TimerLoopKeeps ==
    ASSUME SoftInv, TimerLoopStep
    PROVE  SoftInv' /\ Promised
<1>1. TimerThread \in Thread /\ pc \in [Thread -> Location]
  BY SoftTimerAssumption DEF SoftInv
<1>2. {"sched", "nap"} \subseteq Location
  BY DEF Location
<1>3. TickStays(k, k) /\ k.tick \in Tick
  BY DEF TickStays, SoftInv
<1>4. CASE Scan
  <2>1. loop' \in {Loop("suspend", 0), Loop("delay", NextTimeout)}
    BY <1>4 DEF Scan
  <2>2. loop'.at \in {"suspend", "delay"} /\ loop'.value \in Tick
    BY <2>1, LoopIs, TickEnds, NextTimeoutIs
  <2>3. loop.at = "scan" /\ UNCHANGED <<k, pc, soft, op>>
    BY <1>4 DEF Scan, InLoop, kernelVars
  <2> QED
    BY <1>1, <1>3, <2>2, <2>3, LoopMoves
<1>5. CASE SuspendSelf
  <2>1. /\ k' = ThreadSuspend(k, TimerThread) /\ Goto(TimerThread, "sched")
        /\ pc[TimerThread] = "run" /\ loop' = Loop("check", 0)
        /\ loop.at = "suspend" /\ UNCHANGED <<soft, op>>
    BY <1>5 DEF SuspendSelf, InLoop, At
  <2>2. TickStays(k, k')
    BY <2>1, SuspendTick
  <2>3. loop'.at = "check" /\ loop'.value \in Tick
    BY <2>1, LoopIs, TickEnds
  <2>4. /\ pc' \in [Thread -> Location]
        /\ \A t \in Thread : pc'[t] = "call" <=> pc[t] = "call"
    BY <1>1, <1>2, <2>1, GotoCalls
  <2> QED
    BY <2>1, <2>2, <2>3, <2>4, LoopMoves
<1>6. CASE DelayTest
  <2>1. PICK n : n = Minus(loop.value, k.tick)
    OBVIOUS
  <2>2. /\ loop' = IF n < HalfTick THEN Loop("sleep", n) ELSE Loop("check", 0)
        /\ loop.at = "delay" /\ UNCHANGED <<k, pc, soft, op>>
    BY <1>6, <2>1 DEF DelayTest, InLoop, kernelVars
  <2>3. n \in Tick
    BY <1>3, <2>1, <2>2, MinusIs DEF SoftInv, LoopAgrees
  <2>4. /\ loop'.at \in {"sleep", "check"} /\ loop'.value \in Tick
        /\ loop'.at = "sleep" => loop'.value < HalfTick
    BY <2>2, <2>3, LoopIs, TickEnds
  <2> QED
    BY <1>1, <1>3, <2>2, <2>4, LoopMoves
<1>7. CASE SleepSelf
  <2>1. /\ k' = TimerStart(ThreadSuspend(k, TimerThread), TimerThread, loop.value)
        /\ Goto(TimerThread, "nap")
        /\ pc[TimerThread] = "run" /\ loop' = Loop("check", 0)
        /\ loop.at = "sleep" /\ UNCHANGED <<soft, op>>
    BY <1>7 DEF SleepSelf, InLoop, At
  <2>2. TickStays(k, k')
    BY <2>1, SuspendTick, TimerStartTick, TickStaysOn
  <2>3. loop'.at = "check" /\ loop'.value \in Tick
    BY <2>1, LoopIs, TickEnds
  <2>4. /\ pc' \in [Thread -> Location]
        /\ \A t \in Thread : pc'[t] = "call" <=> pc[t] = "call"
    BY <1>1, <1>2, <2>1, GotoCalls
  <2> QED
    BY <2>1, <2>2, <2>3, <2>4, LoopMoves
<1>9. CASE RtSchedule(TimerThread) /\ UNCHANGED softVars
  BY <1>1, <1>9, RtScheduleTimers, QuietTimers
<1>10. CASE Napped(TimerThread) /\ UNCHANGED softVars
  BY <1>1, <1>10, NappedTimers, QuietTimers
<1>11. CASE SoftTimerCheck
  <2>1. loop.at = "check" /\ CheckFrom(soft) /\ UNCHANGED <<k, pc, op>>
    BY <1>11 DEF SoftTimerCheck, InLoop, kernelVars
  <2>2. soft.temp = {} /\ soft.busy = FALSE
    BY <2>1 DEF SoftInv, LoopAgrees, InLists, SoftLists
  <2>3. Returned(soft, soft)
    BY <2>2 DEF Returned, SoftInv
  <2> QED
    BY <2>1, <2>3, CheckKeeps
<1> QED
  BY <1>4, <1>5, <1>6, <1>7, <1>9, <1>10, <1>11 DEF TimerLoopStep

LEMMA CallbackKeeps ==
    ASSUME SoftInv, CallbackReturns
    PROVE  SoftInv' /\ Promised
<1> DEFINE r == SoftReturn(soft, loop.value)
<1>1. loop.at = "callback" /\ CheckFrom(r) /\ UNCHANGED <<k, pc, op>>
  BY DEF CallbackReturns, InLoop, kernelVars
<1>2. loop.value \in Timer /\ soft.temp \subseteq {loop.value} /\ k.tick \in Tick
  BY <1>1 DEF SoftInv, LoopAgrees
<1>3. InLists(soft, k.tick)
  BY DEF SoftInv
<1>4. Returned(soft, r)
  BY <1>2, <1>3, ReturnIs
<1> HIDE DEF r
<1> QED
  BY <1>1, <1>4, CheckKeeps

-----------------------------------------------------------------------------
(* The calls of timer.c.                                                   *)

(* A step of the call of t that goes to another part of it.                *)
CallMoves(t, o) ==
    /\ op' = [op EXCEPT ![t] = o]
    /\ o \in [what : Ops, timer : Timer \cup {"none"}]
    /\ o.what \in {"start", "stop", "detach"} => o.timer \in Timer
    /\ \E loc \in Location : /\ Goto(t, loc)
                             /\ (loc = "call") <=> (o.what # "none")

LEMMA CallMovesOps ==
    ASSUME SoftInv, NEW t \in Thread, NEW o, CallMoves(t, o)
    PROVE  /\ pc' \in [Thread -> Location] /\ OpsAgree'
           /\ op'[t] = o /\ \A u \in Thread \ {t} : op'[u] = op[u]
BY DEF SoftInv, OpsAgree, CallMoves, Goto

OpAsks(o) ==
    CASE o.what = "start" -> <<"start", o.timer>>
      [] o.what \in {"stop", "detach"} -> <<"stop", o.timer>>
      [] OTHER -> <<"nothing">>

LEMMA AskedMoves ==
    ASSUME SoftInv, NEW t \in Thread, NEW o, CallMoves(t, o)
    PROVE  /\ Asked' = [Asked EXCEPT ![t] = OpAsks(o)]
           /\ Asked[t] = OpAsks(op[t])
<1>1. op'[t] = o /\ \A u \in Thread \ {t} : op'[u] = op[u]
  BY CallMovesOps
<1>2. \A u \in Thread : Asked[u] = OpAsks(op[u]) /\ AskedBy(u) = OpAsks(op[u])
  BY DEF Asked, AskedBy, OpAsks
<1>3. \A u \in Thread : AskedBy(u)' = OpAsks(op'[u])
  BY DEF AskedBy, OpAsks
<1>4. Asked' = [u \in Thread |-> OpAsks(op'[u])]
  BY <1>3 DEF Asked
<1>5. Asked = [u \in Thread |-> OpAsks(op[u])]
  BY <1>2 DEF Asked
<1> QED
  BY <1>1, <1>2, <1>4, <1>5

(* A step of a call that does nothing to the timers.                       *)
LEMMA CallStays ==
    ASSUME SoftInv, TickStays(k, k'), UNCHANGED <<soft, loop>>,
           NEW t \in Thread, NEW o, CallMoves(t, o)
    PROVE  SoftInv' /\ UNCHANGED <<Phases, Remaining>>
<1>1. "tick" \in DOMAIN k' /\ k'.tick = k.tick /\ k'.tick \in Tick
  BY DEF SoftInv, TickStays
<1>2. InLists(soft, k.tick)' /\ LoopAgrees'
  BY <1>1 DEF SoftInv, LoopAgrees
<1>3. pc' \in [Thread -> Location] /\ OpsAgree'
  BY CallMovesOps
<1>4. UNCHANGED <<Phases, Remaining>>
  BY <1>1, TimersStay
<1> QED
  BY <1>1, <1>2, <1>3, <1>4 DEF SoftInv

LEMMA OpIs ==
    ASSUME NEW what, NEW tm
    PROVE  /\ Op(what, tm).what = what /\ Op(what, tm).timer = tm
           /\ what \in Ops /\ tm \in Timer \cup {"none"} =>
                 Op(what, tm) \in [what : Ops, timer : Timer \cup {"none"}]
           /\ NoOp.what = "none" /\ NoOp.timer = "none"
           /\ NoOp \in [what : Ops, timer : Timer \cup {"none"}]
BY DEF Op, NoOp, Ops

LEMMA CallBeginKeeps ==
    ASSUME SoftInv, NEW t \in Thread, CallBegin(t)
    PROVE  SoftInv' /\ Promised
<1>1. PICK what \in {"start", "stop", "detach"}, tm \in Timer : Calls(t, what, tm)
  BY DEF CallBegin
<1> DEFINE o == Op(what, tm)
<1>2. /\ o.what = what /\ o.timer = tm
      /\ o \in [what : Ops, timer : Timer \cup {"none"}]
  BY OpIs DEF Ops
<1>3. op' = [op EXCEPT ![t] = o] /\ Goto(t, "call")
  BY <1>1 DEF Calls
<1> HIDE DEF o
<1>4. CallMoves(t, o)
  BY <1>2, <1>3 DEF CallMoves, Location
<1>5. pc[t] = "run" /\ UNCHANGED <<k, soft, loop>>
  BY DEF CallBegin, At
<1>6. SoftInv' /\ UNCHANGED <<Phases, Remaining>>
  BY <1>4, <1>5, CallStays DEF TickStays
<1>7. op[t].what = "none"
  BY <1>5 DEF SoftInv, OpsAgree
<1>8. /\ Asked' = [Asked EXCEPT ![t] = OpAsks(o)]
      /\ Asked[t] = OpAsks(op[t])
  BY <1>4, AskedMoves
<1>9. Asked[t] = <<"nothing">>
  BY <1>7, <1>8 DEF OpAsks
<1>10. \E w \in {"start", "stop"} : OpAsks(o) = <<w, tm>>
  BY <1>2 DEF OpAsks
<1>11. Abstract!Ask(t)
  BY <1>6, <1>8, <1>9, <1>10 DEF Abstract!Ask
<1> QED
  BY <1>6, <1>11 DEF Promised, Abstract!Next

(* The masked region of rt_timer_start, rt_timer_stop or rt_timer_detach.  *)
LEMMA AnswerMaps ==
    ASSUME SoftInv, UNCHANGED <<k, loop>>, NEW t \in Thread,
           NEW o, CallMoves(t, o), o.what \notin {"start", "stop", "detach"},
           NEW tm \in Timer,
           InLists(soft', k.tick), soft'.temp = soft.temp \ {tm},
           soft'.busy = soft.busy,
           NEW when, soft'.due = [soft.due EXCEPT ![tm] = when],
           \/ /\ Asked[t] = <<"start", tm>>
              /\ Range(soft'.list) = Range(soft.list) \cup {tm}
              /\ when = Later(k, Delay[tm])
           \/ /\ Asked[t] = <<"stop", tm>>
              /\ Range(soft'.list) = Range(soft.list) \ {tm}
    PROVE  SoftInv' /\ Promised
<1>1. /\ "tick" \in DOMAIN k' /\ k'.tick = k.tick /\ k'.tick \in Tick
      /\ soft.due \in [Timer -> Tick]
  BY DEF SoftInv, InLists, SoftLists
<1>2. InLists(soft, k.tick)'
  BY <1>1
<1>3. LoopAgrees'
  BY DEF SoftInv, LoopAgrees
<1>4. pc' \in [Thread -> Location] /\ OpsAgree'
  BY CallMovesOps
<1>5. Asked' = [Asked EXCEPT ![t] = <<"nothing">>]
  BY AskedMoves DEF OpAsks
<1>6. /\ soft'.due[tm] = when
      /\ \A x \in Timer \ {tm} : soft'.due[x] = soft.due[x]
  BY <1>1
<1>7. Remaining' = [x \in Timer |-> IF x \in Range(soft'.list)
                                    THEN Left(soft', k.tick, x) ELSE 0]
  BY <1>1 DEF Remaining, TicksToGo, Left
<1>8. \A x \in Timer \ {tm} : Left(soft', k.tick, x) = Left(soft, k.tick, x)
  BY <1>6 DEF Left
<1>9. Remaining = [x \in Timer |-> IF x \in Range(soft.list)
                                   THEN Left(soft, k.tick, x) ELSE 0]
  BY DEF Remaining, TicksToGo, Left
<1>10. CASE /\ Asked[t] = <<"start", tm>>
            /\ Range(soft'.list) = Range(soft.list) \cup {tm}
            /\ when = Later(k, Delay[tm])
  <2>1. Left(soft', k.tick, tm) = Delay[tm]
    <3>1. Delay[tm] \in 0 .. HalfTick - 1 /\ k.tick \in Tick
      BY SoftTimerAssumption DEF SoftInv
    <3>2. Minus(when, k.tick) = Delay[tm]
      BY <1>10, <3>1, StartNear DEF Later
    <3>3. HalfTick \in Nat
      BY HalfIs
    <3> QED
      BY <1>6, <3>1, <3>2, <3>3 DEF Left
  <2>2. Remaining' = [Remaining EXCEPT ![tm] = Delay[tm]]
    BY <1>7, <1>8, <1>9, <1>10, <2>1
  <2>3. Phases' = [Phases EXCEPT ![tm] = "armed"]
    BY <1>10 DEF Phases
  <2>4. Abstract!Answer(t)
    BY <1>5, <1>10, <2>2, <2>3 DEF Abstract!Answer, Abstract!Becomes
  <2> QED
    BY <1>1, <1>2, <1>3, <1>4, <2>4 DEF SoftInv, Promised, Abstract!Next
<1>11. CASE /\ Asked[t] = <<"stop", tm>>
            /\ Range(soft'.list) = Range(soft.list) \ {tm}
  <2>2. Remaining' = [Remaining EXCEPT ![tm] = 0]
    BY <1>7, <1>8, <1>9, <1>11
  <2>3. Phases' = [Phases EXCEPT ![tm] = "stopped"]
    BY <1>11 DEF Phases
  <2>4. Abstract!Answer(t)
    BY <1>5, <1>11, <2>2, <2>3 DEF Abstract!Answer, Abstract!Becomes
  <2> QED
    BY <1>1, <1>2, <1>3, <1>4, <2>4 DEF SoftInv, Promised, Abstract!Next
<1> QED
  BY <1>10, <1>11

LEMMA StopKeeps ==
    ASSUME SoftInv, NEW t \in Thread, Stop(t)
    PROVE  SoftInv' /\ Promised
<1> DEFINE tm == op[t].timer
           r  == SoftStop(soft, tm)
<1>1. /\ op[t].what \in {"stop", "detach"} /\ soft' = r
      /\ Goto(t, "run") /\ op' = [op EXCEPT ![t] = NoOp]
      /\ UNCHANGED <<k, loop>>
  BY DEF Stop, InOp, Returns
<1>2. tm \in Timer
  BY <1>1 DEF SoftInv, OpsAgree
<1>3. CallMoves(t, NoOp)
  BY <1>1, OpIs DEF CallMoves, Location
<1>4. Asked[t] = <<"stop", tm>>
  BY <1>1 DEF Asked, AskedBy
<1>5. k.tick \in Tick /\ InLists(soft, k.tick)
  BY DEF SoftInv
<1> HIDE DEF tm
<1>6. /\ InLists(r, k.tick)
      /\ Range(r.list) = Range(soft.list) \ {tm}
      /\ r.temp = soft.temp \ {tm} /\ r.due = [soft.due EXCEPT ![tm] = 0]
      /\ r.busy = soft.busy
  BY <1>2, <1>5, StopIs
<1> HIDE DEF r
<1> QED
  BY <1>1, <1>2, <1>3, <1>4, <1>6, OpIs, AnswerMaps

LEMMA StartKeeps ==
    ASSUME SoftInv, NEW t \in Thread, Start(t)
    PROVE  SoftInv' /\ Promised
<1> DEFINE tm == op[t].timer
           r  == SoftStart(soft, tm)
           o  == Op("test", "none")
<1>1. /\ op[t].what = "start" /\ soft' = r
      /\ Goto(t, "call") /\ op' = [op EXCEPT ![t] = o]
      /\ UNCHANGED <<k, loop>>
  BY DEF Start, InOp, Calls
<1>2. tm \in Timer
  BY <1>1 DEF SoftInv, OpsAgree
<1>3. o.what = "test" /\ o \in [what : Ops, timer : Timer \cup {"none"}]
  BY OpIs DEF Ops
<1> HIDE DEF o
<1>4. CallMoves(t, o)
  BY <1>1, <1>3 DEF CallMoves, Location
<1>5. Asked[t] = <<"start", tm>>
  BY <1>1 DEF Asked, AskedBy
<1>6. k.tick \in Tick /\ InLists(soft, k.tick)
  BY DEF SoftInv
<1> HIDE DEF tm
<1>7. /\ Range(r.list) = Range(soft.list) \cup {tm}
      /\ r.temp = soft.temp \ {tm}
      /\ r.due = [soft.due EXCEPT ![tm] = Later(k, Delay[tm])]
      /\ r.busy = soft.busy
  BY <1>2, <1>6, SoftStartIs DEF InLists
<1>8. InLists(r, k.tick)
  BY <1>2, <1>6, StartInLists
<1> HIDE DEF r
<1> QED
  BY <1>1, <1>2, <1>3, <1>4, <1>5, <1>7, <1>8, AnswerMaps

(* The end of rt_timer_start: the timer thread is resumed, and the timers  *)
(* are left alone.                                                         *)
LEMMA EndOfStartKeeps ==
    ASSUME SoftInv, NEW t \in Thread, NEW o, CallMoves(t, o), TickStays(k, k'),
           UNCHANGED <<soft, loop>>,
           op[t].what \notin {"start", "stop", "detach"},
           o.what \notin {"start", "stop", "detach"}
    PROVE  SoftInv' /\ Promised
<1>1. SoftInv' /\ UNCHANGED <<Phases, Remaining>>
  BY CallStays
<1>2. Asked' = [Asked EXCEPT ![t] = OpAsks(o)] /\ Asked[t] = OpAsks(op[t])
  BY AskedMoves
<1>3. OpAsks(o) = OpAsks(op[t])
  BY DEF OpAsks
<1>4. Asked' = Asked
  BY <1>2, <1>3 DEF Asked
<1> QED
  BY <1>1, <1>4 DEF Promised

LEMMA CallStepKeeps ==
    ASSUME SoftInv, NEW t \in Thread, CallStep(t)
    PROVE  SoftInv' /\ Promised
<1>1. CASE Stop(t)
  BY <1>1, StopKeeps
<1>2. CASE Start(t)
  BY <1>2, StartKeeps
<1>3. {"run", "sched", "call"} \subseteq Location
  BY DEF Location
<1> DEFINE u == Op("unlink", "none")
           i == Op("insert", "none")
<1>4. /\ u.what = "unlink" /\ u \in [what : Ops, timer : Timer \cup {"none"}]
      /\ i.what = "insert" /\ i \in [what : Ops, timer : Timer \cup {"none"}]
  BY OpIs DEF Ops
<1>5. CASE StartTest(t)
  <2>1. op[t].what = "test" /\ UNCHANGED <<k, soft, loop>>
    BY <1>5 DEF StartTest, InOp
  <2>2. Calls(t, "unlink", "none") \/ Returns(t, "run")
    BY <1>5 DEF StartTest
  <2>3. CASE Calls(t, "unlink", "none")
    <3>1. op' = [op EXCEPT ![t] = u] /\ Goto(t, "call")
      BY <2>3 DEF Calls
    <3> HIDE DEF u
    <3>2. CallMoves(t, u)
      BY <1>3, <1>4, <3>1 DEF CallMoves
    <3> QED
      BY <1>4, <2>1, <3>2, EndOfStartKeeps DEF TickStays
  <2>4. CASE Returns(t, "run")
    <3>1. CallMoves(t, NoOp)
      BY <1>3, <2>4, OpIs DEF CallMoves, Returns
    <3> QED
      BY <2>1, <3>1, OpIs, EndOfStartKeeps DEF TickStays
  <2> QED
    BY <2>2, <2>3, <2>4
<1>6. CASE ResumeUnlink(t)
  <2>1. /\ op[t].what = "unlink" /\ UNCHANGED <<soft, loop>>
        /\ k' = TimerStop(Unlink(k, TimerThread), TimerThread)
        /\ op' = [op EXCEPT ![t] = i] /\ Goto(t, "call")
    BY <1>6 DEF ResumeUnlink, InOp, Calls
  <2>2. TickStays(k, k')
    BY <2>1, UnlinkTick, TimerStopTick, TickStaysOn
  <2> HIDE DEF i
  <2>3. CallMoves(t, i)
    BY <1>3, <1>4, <2>1 DEF CallMoves
  <2> QED
    BY <1>4, <2>1, <2>2, <2>3, EndOfStartKeeps
<1>7. CASE ResumeInsert(t)
  <2>1. /\ op[t].what = "insert" /\ UNCHANGED <<soft, loop>>
        /\ k' = InsertThread(k, TimerThread)
        /\ op' = [op EXCEPT ![t] = NoOp] /\ Goto(t, "sched")
    BY <1>7 DEF ResumeInsert, InOp, Returns
  <2>2. TickStays(k, k')
    BY <2>1, InsertTick
  <2>3. CallMoves(t, NoOp)
    BY <1>3, <2>1, OpIs DEF CallMoves
  <2> QED
    BY <2>1, <2>2, <2>3, OpIs, EndOfStartKeeps
<1> QED
  BY <1>1, <1>2, <1>5, <1>6, <1>7 DEF CallStep

-----------------------------------------------------------------------------
(* The steps together.                                                     *)
LEMMA SoftInit ==
    ASSUME Init
    PROVE  SoftInv /\ Abstract!Init
<1> DEFINE s == Started
           u == ThreadStartup(s, TimerThread)
<1>1. "tick" \in DOMAIN s /\ s.tick = 0
  BY DEF Started
<1>2. k = SwitchTo(u, TimerThread)
  BY DEF Init
<1> HIDE DEF s
<1>3. TickStays(s, u) /\ TickStays(u, k)
  BY <1>2, StartupTick, SwitchTick
<1>4. "tick" \in DOMAIN k /\ k.tick = 0 /\ k.tick \in Tick
  BY <1>1, <1>3, TickEnds DEF TickStays
<1>5. /\ soft.list = <<>> /\ soft.temp = {} /\ soft.active = {}
      /\ soft.due = [tm \in Timer |-> 0] /\ soft.busy = FALSE
      /\ soft \in SoftLists
  BY TickEnds DEF Init, NoTimers, SoftLists
<1>6. Range(soft.list) = {}
  <2>1. soft.list \in Seq(Timer)
    BY <1>5 DEF SoftLists
  <2> QED
    BY <1>5, <2>1, EmptyRange
<1>7. InLists(soft, k.tick)
  BY <1>5, <1>6 DEF InLists, Distinct
<1>8. loop.at = "scan" /\ loop.value = 0
  BY LoopIs DEF Init
<1>9. LoopAgrees
  BY <1>5, <1>8, TickEnds DEF LoopAgrees
<1>10. pc = [t \in Thread |-> "run"] /\ op = [t \in Thread |-> NoOp]
  BY DEF Init
<1>11. pc \in [Thread -> Location]
  BY <1>10 DEF Location
<1>12. OpsAgree
  BY <1>10, OpIs DEF OpsAgree
<1>13. Phases = [tm \in Timer |-> "stopped"] /\ Remaining = [tm \in Timer |-> 0]
  BY <1>5, <1>6 DEF Phases, Remaining
<1>14. Asked = [t \in Thread |-> <<"nothing">>]
  BY <1>10, OpIs DEF Asked, AskedBy
<1> QED
  BY <1>4, <1>7, <1>9, <1>11, <1>12, <1>13, <1>14 DEF SoftInv, Abstract!Init

LEMMA SoftStep ==
    ASSUME SoftInv, [Next]_vars
    PROVE  SoftInv' /\ Promised
<1>1. CASE ClockStep
  BY <1>1, ClockKeeps
<1>2. CASE TimerThreadStep
  BY <1>2, TimerLoopKeeps, CallbackKeeps DEF TimerThreadStep
<1>3. ASSUME NEW t \in Client, ClientStep(t)
      PROVE  SoftInv' /\ Promised
  BY <1>3, ClientKeeps
<1>4. ASSUME NEW t \in Worker, CallBegin(t) \/ CallStep(t)
      PROVE  SoftInv' /\ Promised
  <2>1. t \in Thread
    BY DEF Worker
  <2> QED
    BY <1>4, <2>1, CallBeginKeeps, CallStepKeeps
<1>5. CASE UNCHANGED vars
  <2>1. UNCHANGED <<k, pc, softVars>>
    BY <1>5 DEF vars, kernelVars
  <2>2. TickStays(k, k')
    BY <2>1 DEF TickStays
  <2> QED
    BY <2>1, <2>2, QuietTimers DEF SoftInv
<1> QED
  BY <1>1, <1>2, <1>3, <1>4, <1>5 DEF Next

(* The promise of software timers (rt_timer_start, rt_timer_stop,          *)
(* rt_soft_timer_check): a timer is called at the end of the ticks of its  *)
(* last start, once, never early and never after a stop, one at a time.    *)
THEOREM TimersImplement == Spec => ImplementsTimer
<1>1. Init => SoftInv /\ Abstract!Init
  BY SoftInit
<1>2. SoftInv /\ [Next]_vars => SoftInv' /\ Promised
  BY SoftStep
<1> QED
  BY <1>1, <1>2, PTL DEF Spec, ImplementsTimer, Abstract!Spec, Promised

-----------------------------------------------------------------------------
(* The scheduler under the timer thread.  rt_timer_start resumes the timer *)
(* thread with interrupts enabled: the scheduler's data stay consistent as *)
(* long as nobody else wakes it, or lets it sleep again, between the test  *)
(* of its state and its insertion (the run soft_timer_clients shows what   *)
(* happens otherwise).                                                     *)
Undisturbed ==
    \A t \in Thread :
        /\ InOp(t, "unlink") => k.stat[TimerThread] = "SUSPEND"
        /\ InOp(t, "insert") => /\ k.stat[TimerThread] = "SUSPEND"
                                /\ TimerThread \notin Range(k.timers)

TimerInv ==
    /\ Sound(k)
    /\ irq \in {"on", "off", "tick"}
    /\ k.stat[k.cur] = "SUSPEND" => pc[k.cur] \in {"nap", "sched", "wait"}
    /\ k.lock # 0 => k.cur # TimerThread
    /\ \A o \in Object : TimerThread \notin Range(k.wait[o])

LEMMA TimerThreadIs == TimerThread \in Thread /\ TimerThread # Idle
BY SoftTimerAssumption

(* A wakeup, after which a thread that is still switched to though it is   *)
(* suspended is about to call rt_schedule.                                 *)
LEMMA WokenInv ==
    ASSUME TimerInv, Wakes(k, k'), irq' \in {"on", "off", "tick"},
           k'.stat[k'.cur] = "SUSPEND" => pc'[k'.cur] \in {"nap", "sched", "wait"}
    PROVE  TimerInv'
<1>1. Sound(k')
  BY DEF Wakes
<1>2. k'.lock # 0 => k'.cur # TimerThread
  BY DEF Wakes, TimerInv
<1>3. ASSUME NEW o \in Object PROVE TimerThread \notin Range(k'.wait[o])
  <2>1. TimerThread \in Range(k'.wait[o]) => k'.stat[TimerThread] = "SUSPEND"
    BY <1>1, TimerThreadIs DEF Sound, Linked, WaitersSuspended
  <2> QED
    BY <2>1, TimerThreadIs DEF Wakes, TimerInv
<1> QED
  BY <1>1, <1>2, <1>3 DEF TimerInv

(* The wakeup comes from a handler, or from the running thread.            *)
LEMMA WokenQuiet ==
    ASSUME TimerInv, Wakes(k, k'), irq' \in {"on", "off", "tick"},
           UNCHANGED pc \/ k.stat[k.cur] # "SUSPEND" \/ k'.stat[k'.cur] # "SUSPEND"
    PROVE  TimerInv'
<1>1. k'.cur \in Thread
  BY DEF Wakes, Sound, Linked, KernelState
<1>2. k'.stat[k'.cur] = "SUSPEND" => k'.cur = k.cur /\ k.stat[k.cur] = "SUSPEND"
  BY <1>1 DEF Wakes
<1> QED
  BY <1>2, WokenInv DEF TimerInv

LEMMA TickInv ==
    ASSUME TimerInv, TickIsr
    PROVE  TimerInv'
<1>1. CASE TickInterrupt
  <2>1. Wakes(k, k') /\ UNCHANGED pc /\ irq' \in {"on", "off", "tick"}
    BY <1>1, TickIncreaseWakes DEF TickInterrupt, TimerInv
  <2> QED
    BY <2>1, WokenQuiet
<1>2. CASE TimerCheck
  <2>1. k.timers # <<>>
    BY <1>2 DEF TimerCheck, TimerExpired
  <2>2. Wakes(k, k') /\ UNCHANGED pc /\ irq' \in {"on", "off", "tick"}
    BY <1>2, <2>1, TimerFireWakes DEF TimerCheck, TimerInv
  <2> QED
    BY <2>2, WokenQuiet
<1>3. CASE TickReturn
  <2>1. Wakes(k, k') /\ UNCHANGED pc /\ irq' \in {"on", "off", "tick"}
    BY <1>3, WakesNone DEF TickReturn, TimerInv
  <2> QED
    BY <2>1, WokenQuiet
<1> QED
  BY <1>1, <1>2, <1>3 DEF TickIsr

LEMMA RtScheduleInv ==
    ASSUME TimerInv, NEW t \in Thread, RtSchedule(t)
    PROVE  TimerInv'
<1>1. k' = Schedule(k) /\ UNCHANGED irq
  BY DEF RtSchedule
<1>2. /\ Wakes(k, k')
      /\ k.lock = 0 => k'.stat[k'.cur] = "RUNNING"
  BY <1>1, ScheduleWakes DEF TimerInv
<1>3. k.lock # 0 => k'.stat[k'.cur] = "RUNNING"
  BY <1>2 DEF Wakes, Sound, Alive
<1>4. irq' \in {"on", "off", "tick"}
  BY <1>1 DEF TimerInv
<1> QED
  BY <1>2, <1>3, <1>4, WokenQuiet

LEMMA AtRunsTimer ==
    ASSUME TimerInv, NEW t \in Thread, NEW loc, At(t, loc), loc \notin {"nap", "sched", "wait"}
    PROVE  k.cur = t /\ k.stat[t] = "RUNNING"
BY DEF At, TimerInv, Sound, OneRuns

(* An update of fields that the lists do not depend on, by the running     *)
(* thread.                                                                 *)
LEMMA PlainInv ==
    ASSUME TimerInv, NEW t \in Thread, k.cur = t, k.stat[t] = "RUNNING",
           k' \in KernelState,
           k'.cur = k.cur, k'.stat = k.stat, k'.prio = k.prio,
           k'.mask = k.mask, k'.ready = k.ready, k'.group = k.group,
           k'.wait = k.wait, k'.timers = k.timers, UNCHANGED irq,
           k'.lock = k.lock \/ t # TimerThread
    PROVE  TimerInv'
<1>1. ReadyAgrees(k')
  BY DEF TimerInv, Sound, Linked, ReadyAgrees
<1>2. WaitersSuspended(k')
  BY DEF TimerInv, Sound, Linked, WaitersSuspended
<1>3. OneRuns(k') /\ Timed(k') /\ Alive(k')
  BY DEF TimerInv, Sound, OneRuns, Timed, Alive
<1> QED
  BY <1>1, <1>2, <1>3 DEF TimerInv, Sound, Linked

(* A thread suspends itself and arms its timer or not.                     *)
LEMMA SuspendInv ==
    ASSUME TimerInv, NEW t \in Thread, k.cur = t, k.stat[t] = "RUNNING",
           t # Idle, k.lock = 0, NEW n \in Nat,
           \/ k' = ThreadSuspend(k, t)
           \/ k' = TimerStart(ThreadSuspend(k, t), t, n),
           NEW loc \in {"nap", "sched", "wait"}, pc \in [Thread -> Location],
           Goto(t, loc), UNCHANGED irq
    PROVE  TimerInv'
<1> DEFINE s == ThreadSuspend(k, t)
<1>1. Suspends(k, s, t) /\ \A o \in Object : t \notin Range(s.wait[o])
  BY SuspendRunning DEF TimerInv
<1>2. k' = s \/ k' = TimerStart(s, t, n)
  OBVIOUS
<1> HIDE DEF s
<1>3. s.stat = [k.stat EXCEPT ![t] = "SUSPEND"] /\ s.cur = k.cur /\ s.lock = 0
      /\ Sound(s)
  BY <1>1 DEF Suspends
<1>4. s.stat[t] = "SUSPEND"
  BY <1>3 DEF TimerInv, Sound, Linked, KernelState
<1>5. \A o \in Object : TimerThread \notin Range(s.wait[o])
  BY <1>1, TimerThreadIs DEF Suspends, TimerInv
<1>6. Sound(k') /\ k'.cur = t /\ k'.lock = 0 /\ k'.wait = s.wait
  BY <1>2, <1>3, <1>4, TimerStartSound
<1>7. pc'[t] = loc
  BY DEF Goto
<1> QED
  BY <1>5, <1>6, <1>7 DEF TimerInv

LEMMA NappedInv ==
    ASSUME TimerInv, NEW t \in Thread, Napped(t)
    PROVE  TimerInv'
<1>1. /\ At(t, "napped") /\ UNCHANGED irq
      /\ k' = [k EXCEPT !.error[t] = IF @ = "TIMEOUT" THEN "OK" ELSE @]
  BY DEF Napped
<1>2. k.cur = t /\ k.stat[t] = "RUNNING"
  BY <1>1, AtRunsTimer
<1> DEFINE e == [k.error EXCEPT ![t] = IF @ = "TIMEOUT" THEN "OK" ELSE @]
<1>3. k \in KernelState
  BY DEF TimerInv, Sound, Linked
<1>4. e \in [Thread -> Error]
  BY <1>3 DEF KernelState, Error
<1>5. k' = [k EXCEPT !.error = e]
  BY <1>1, <1>3 DEF KernelState
<1> HIDE DEF e
<1>6. /\ k' \in KernelState
      /\ k'.cur = k.cur /\ k'.stat = k.stat /\ k'.prio = k.prio
      /\ k'.mask = k.mask /\ k'.ready = k.ready /\ k'.group = k.group
      /\ k'.wait = k.wait /\ k'.timers = k.timers /\ k'.lock = k.lock
  BY <1>3, <1>4, <1>5 DEF KernelState
<1> QED
  BY <1>1, <1>2, <1>6, PlainInv

(* rt_thread_startup and rt_thread_yield.                                  *)
LEMMA StartupInv ==
    ASSUME TimerInv, NEW t \in Thread, NEW u \in Worker, Startup(t, u)
    PROVE  TimerInv'
<1>1. At(t, "run") /\ k.stat[u] = "INIT" /\ k' = ThreadStartup(k, u)
      /\ UNCHANGED irq /\ u \in Thread
  BY DEF Startup, Worker
<1>2. k.cur = t /\ k.stat[t] = "RUNNING"
  BY <1>1, AtRunsTimer
<1>3. Wakes(k, k') /\ irq' \in {"on", "off", "tick"}
  BY <1>1, StartupWakes DEF TimerInv
<1> QED
  BY <1>2, <1>3, WokenQuiet

LEMMA YieldInv ==
    ASSUME TimerInv, NEW t \in Thread, Yield(t)
    PROVE  TimerInv'
<1> DEFINE y == [k EXCEPT !.remaining[t] = InitTick[t], !.yield[t] = TRUE]
<1>1. k' = Schedule(y) /\ UNCHANGED <<pc, irq>>
  BY DEF Yield, ThreadYield
<1>2. /\ y \in KernelState
      /\ y.cur = k.cur /\ y.stat = k.stat /\ y.prio = k.prio
      /\ y.mask = k.mask /\ y.ready = k.ready /\ y.group = k.group
      /\ y.wait = k.wait /\ y.timers = k.timers /\ y.lock = k.lock
  BY KernelAssumption DEF TimerInv, Sound, Linked, KernelState
<1> HIDE DEF y
<1>3. Sound(k)
  BY DEF TimerInv
<1>4. Sound(y) /\ Wakes(k, y)
  BY <1>2, <1>3, PlainUpdate
<1>5. Wakes(y, k')
  BY <1>1, <1>4, ScheduleWakes
<1>6. Wakes(k, k')
  BY <1>4, <1>5, WakesTransitive
<1> QED
  BY <1>1, <1>6, WokenQuiet DEF TimerInv

(* rt_enter_critical and rt_exit_critical.                                 *)
LEMMA LockInv ==
    ASSUME TimerInv, NEW t \in Thread, t # TimerThread,
           EnterCritical(t) \/ ExitCritical(t)
    PROVE  TimerInv'
<1>1. At(t, "run") /\ UNCHANGED irq
  BY DEF EnterCritical, ExitCritical
<1>2. k.cur = t /\ k.stat[t] = "RUNNING"
  BY <1>1, AtRunsTimer
<1>3. k \in KernelState
  BY DEF TimerInv, Sound, Linked
<1>4. PICK n \in Nat : k' = [k EXCEPT !.lock = n]
  <2>1. k.lock + 1 \in Nat /\ (k.lock > 0 => k.lock - 1 \in Nat)
    BY <1>3 DEF KernelState
  <2>2. CASE EnterCritical(t)
    BY <2>1, <2>2 DEF EnterCritical
  <2>3. CASE ExitCritical(t)
    BY <2>1, <2>3 DEF ExitCritical
  <2> QED
    BY <2>2, <2>3
<1>5. /\ k' \in KernelState
      /\ k'.cur = k.cur /\ k'.stat = k.stat /\ k'.prio = k.prio
      /\ k'.mask = k.mask /\ k'.ready = k.ready /\ k'.group = k.group
      /\ k'.wait = k.wait /\ k'.timers = k.timers
  BY <1>3, <1>4 DEF KernelState
<1> QED
  BY <1>1, <1>2, <1>5, PlainInv

LEMMA ClientInv ==
    ASSUME TimerInv, pc \in [Thread -> Location], NEW t \in Client, ClientStep(t)
    PROVE  TimerInv'
<1>1. t \in Thread /\ t # Idle /\ t # TimerThread
  BY DEF Client, Worker
<1>2. CASE Sleep(t)
  <2>1. At(t, "run") /\ k.lock = 0 /\ Goto(t, "nap") /\ UNCHANGED irq
    BY <1>2 DEF Sleep, MayBlock
  <2>2. PICK n \in SleepTimes : k' = TimerStart(ThreadSuspend(k, t), t, n)
    BY <1>2 DEF Sleep
  <2>3. n \in Nat
    BY ProcessorAssumption
  <2>4. k.cur = t /\ k.stat[t] = "RUNNING"
    BY <1>1, <2>1, AtRunsTimer
  <2> QED
    BY <1>1, <2>1, <2>2, <2>3, <2>4, SuspendInv
<1> QED
  BY <1>1, <1>2, RtScheduleInv, StartupInv, YieldInv, NappedInv, LockInv
     DEF ClientStep, CpuStep

(* The timer thread suspends itself, with its timer armed or not.          *)
LEMMA LoopInv ==
    ASSUME TimerInv, SoftInv, TimerThreadStep
    PROVE  TimerInv'
<1>1. TimerThread \in Thread /\ TimerThread # Idle /\ pc \in [Thread -> Location]
  BY TimerThreadIs DEF SoftInv
<1>2. CASE UNCHANGED kernelVars
  BY <1>2 DEF kernelVars, TimerInv
<1>3. CASE SuspendSelf \/ SleepSelf
  <2>1. At(TimerThread, "run") /\ UNCHANGED irq
    BY <1>3 DEF SuspendSelf, SleepSelf, InLoop
  <2>2. k.cur = TimerThread /\ k.stat[TimerThread] = "RUNNING"
    BY <1>1, <2>1, AtRunsTimer
  <2>3. k.lock = 0
    BY <2>2 DEF TimerInv
  <2>4. CASE SuspendSelf
    <3>1. k' = ThreadSuspend(k, TimerThread) /\ Goto(TimerThread, "sched")
      BY <2>4 DEF SuspendSelf
    <3> QED
      BY <1>1, <2>1, <2>2, <2>3, <3>1, SuspendInv
  <2>5. CASE SleepSelf
    <3>1. PICK n \in {loop.value} :
             /\ k' = TimerStart(ThreadSuspend(k, TimerThread), TimerThread, n)
             /\ Goto(TimerThread, "nap")
      BY <2>5 DEF SleepSelf
    <3>2. n \in Nat
      BY <2>5 DEF SleepSelf, InLoop, SoftInv, LoopAgrees, Tick
    <3> QED
      BY <1>1, <2>1, <2>2, <2>3, <3>1, <3>2, SuspendInv
  <2> QED
    BY <1>3, <2>4, <2>5
<1>4. CASE RtSchedule(TimerThread)
  BY <1>1, <1>4, RtScheduleInv
<1>5. CASE Napped(TimerThread)
  BY <1>1, <1>5, NappedInv
<1> QED
  BY <1>2, <1>3, <1>4, <1>5
     DEF TimerThreadStep, TimerLoopStep, Scan, DelayTest, SoftTimerCheck,
         CallbackReturns

(* The two masked regions of rt_thread_resume, undisturbed.                *)
LEMMA ResumeUnlinkInv ==
    ASSUME TimerInv, Undisturbed, NEW t \in Thread, ResumeUnlink(t)
    PROVE  TimerInv'
<1> DEFINE u == Unlink(k, TimerThread)
           s == TimerStop(u, TimerThread)
<1>1. k' = s /\ k.stat[TimerThread] = "SUSPEND" /\ UNCHANGED irq
  BY DEF ResumeUnlink, Undisturbed
<1>2. TimerThread \in Thread /\ Linked(k) /\ Timed(k)
  BY TimerThreadIs DEF TimerInv, Sound
<1>3. /\ Detached(u, TimerThread)
      /\ u = [k EXCEPT !.ready = u.ready, !.wait = u.wait]
      /\ \A o \in Object : Range(u.wait[o]) = Range(k.wait[o]) \ {TimerThread}
  BY <1>1, <1>2, UnlinkDetaches
<1> HIDE DEF u
<1>4. /\ u.cur = k.cur /\ u.stat = k.stat /\ u.timers = k.timers /\ u.lock = k.lock
      /\ u \in KernelState
  BY <1>2, <1>3 DEF Linked, KernelState, Detached
<1>5. /\ s \in KernelState
      /\ s = [u EXCEPT !.timers = s.timers, !.due = s.due]
      /\ Distinct(s.timers) /\ Range(s.timers) = Range(k.timers) \ {TimerThread}
  BY <1>2, <1>4, TimerStopKeeps DEF Timed
<1> HIDE DEF s
<1>6. /\ s.cur = k.cur /\ s.stat = k.stat /\ s.lock = k.lock /\ s.prio = u.prio
      /\ s.ready = u.ready /\ s.wait = u.wait /\ s.group = u.group /\ s.mask = u.mask
  BY <1>4, <1>5 DEF KernelState
<1>7. u.mask = u.prio
  BY <1>3 DEF Detached
<1>8. Detached(s, TimerThread)
  BY <1>2, <1>3, <1>4, <1>5, <1>6, <1>7, DetachedUpdate
<1>9. Linked(s)
  BY <1>1, <1>2, <1>6, <1>8, DetachedLinked
<1>10. OneRuns(s) /\ Timed(s) /\ Alive(s)
  BY <1>5, <1>6 DEF TimerInv, Sound, OneRuns, Timed, Alive
<1>11. k.cur # TimerThread \/ k.stat[k.cur] = "SUSPEND"
  BY <1>1
<1>12. pc[t] = "call" /\ k.cur = t
  BY DEF ResumeUnlink, InOp, At
<1>13. k'.cur = k.cur /\ k'.lock = k.lock /\ k.stat[k.cur] # "SUSPEND" /\ k'.stat = k.stat
  BY <1>1, <1>6, <1>12 DEF TimerInv
<1>14. \A o \in Object : TimerThread \notin Range(k'.wait[o])
  BY <1>1, <1>3, <1>6 DEF TimerInv
<1> QED
  BY <1>1, <1>9, <1>10, <1>13, <1>14 DEF TimerInv, Sound

LEMMA ResumeInsertInv ==
    ASSUME TimerInv, Undisturbed, NEW t \in Thread, ResumeInsert(t)
    PROVE  TimerInv'
<1>1. /\ k' = InsertThread(k, TimerThread) /\ UNCHANGED irq
      /\ k.stat[TimerThread] = "SUSPEND" /\ TimerThread \notin Range(k.timers)
      /\ pc[t] = "call" /\ k.cur = t
  BY DEF ResumeInsert, Undisturbed, InOp, At
<1>2. TimerThread \in Thread /\ Sound(k)
      /\ \A o \in Object : TimerThread \notin Range(k.wait[o])
  BY TimerThreadIs DEF TimerInv
<1>3. Detached(k, TimerThread)
  BY <1>1, <1>2 DEF Detached, Sound, Linked, ReadyAgrees, WaitersSuspended
<1>4. Distinct(k.timers) /\ Range(k.timers) = Range(k.timers) \ {TimerThread}
  BY <1>1, <1>2 DEF Sound, Timed
<1>5. \A o \in Object : Range(k.wait[o]) = Range(k.wait[o]) \ {TimerThread}
  BY <1>2
<1>6. Wakes(k, k')
  BY <1>1, <1>2, <1>3, <1>4, <1>5, InsertWakes
<1>7. k.stat[k.cur] # "SUSPEND" /\ irq' \in {"on", "off", "tick"}
  BY <1>1 DEF TimerInv
<1> QED
  BY <1>6, <1>7, WokenQuiet

LEMMA CallInv ==
    ASSUME TimerInv, Undisturbed, NEW t \in Thread, CallBegin(t) \/ CallStep(t)
    PROVE  TimerInv'
<1>1. ASSUME UNCHANGED <<k, irq>>, At(t, "run") \/ At(t, "call")
      PROVE  TimerInv'
  <2>1. k.stat[k.cur] # "SUSPEND"
    BY <1>1 DEF At, TimerInv
  <2> QED
    BY <1>1, <2>1 DEF TimerInv
<1> QED
  BY <1>1, ResumeUnlinkInv, ResumeInsertInv
     DEF CallBegin, CallStep, Stop, Start, StartTest, InOp

(* rt_system_scheduler_start switches to the timer thread first.           *)
LEMMA StartupReadies ==
    ASSUME NEW b \in KernelState, NEW t \in Thread, t # b.cur
    PROVE  ThreadStartup(b, t).stat[t] = "READY"
<1> DEFINE e == [b EXCEPT !.prio[t] = InitPrio[t],
                          !.mask[t] = InitPrio[t],
                          !.stat[t] = "SUSPEND"]
           s == TimerStop(Unlink(e, t), t)
<1>1. /\ e.stat = [b.stat EXCEPT ![t] = "SUSPEND"] /\ e.cur = b.cur
      /\ b.stat \in [Thread -> Stat]
      /\ s.stat = e.stat /\ s.cur = e.cur
  BY DEF KernelState, Unlink, TimerStop
<1>2. ThreadStartup(b, t) = ThreadResume(e, t)
  BY DEF ThreadStartup
<1>3. e.stat[t] = "SUSPEND"
  BY <1>1
<1>4. ThreadResume(e, t) = InsertThread(s, t)
  BY <1>3 DEF ThreadResume
<1> HIDE DEF s, e
<1>5. InsertThread(s, t).stat = [s.stat EXCEPT ![t] = "READY"]
  BY <1>1 DEF InsertThread
<1> QED
  BY <1>1, <1>2, <1>4, <1>5

LEMMA TimerInitInv ==
    ASSUME Init
    PROVE  TimerInv /\ k.cur = TimerThread /\ k.stat[TimerThread] = "RUNNING"
<1>1. PICK b : b = Started
  OBVIOUS
<1>2. PICK u : u = ThreadStartup(b, TimerThread)
  OBVIOUS
<1>3. k = SwitchTo(u, TimerThread) /\ irq = "on"
  BY <1>1, <1>2 DEF Init
<1>4. TimerThread \in Thread /\ TimerThread \notin {Idle, Main}
  BY SoftTimerAssumption
<1>5. Sound(b) /\ b.cur = Main /\ b.lock = 0 /\ b.stat[TimerThread] = "INIT"
      /\ \A o \in Object : b.wait[o] = <<>>
  BY <1>1, <1>4, StartedSound DEF Started
<1>6. b \in KernelState
  BY <1>5 DEF Sound, Linked
<1>7. Wakes(b, u) /\ u.stat[TimerThread] = "READY"
  BY <1>2, <1>4, <1>5, <1>6, StartupWakes, StartupReadies
<1>8. Sound(u) /\ u.lock = 0
  BY <1>5, <1>7 DEF Wakes
<1>9. Wakes(u, k) /\ k.stat[k.cur] = "RUNNING"
  BY <1>3, <1>4, <1>7, <1>8, SwitchWakes
<1>10. Sound(k) /\ k.lock = 0
  BY <1>8, <1>9 DEF Wakes
<1>11. k.stat[TimerThread] = "RUNNING"
  <2>1. PICK z : z = RemoveThread(Requeue(u, TimerThread), TimerThread)
    OBVIOUS
  <2>2. k = [z EXCEPT !.stat[TimerThread] = "RUNNING"]
    BY <1>3, <2>1 DEF SwitchTo
  <2>3. PICK q : q = Requeue(u, TimerThread)
    OBVIOUS
  <2>4. Linked(q)
    BY <1>4, <1>7, <1>8, <2>3, RequeueLinks
  <2>5. z.stat = q.stat /\ q.stat \in [Thread -> Stat]
    BY <1>4, <2>1, <2>3, <2>4, RemoveThins DEF Linked, KernelState
  <2>6. z = [q EXCEPT !.ready = z.ready, !.wait = z.wait, !.group = z.group]
    BY <1>4, <2>1, <2>3, <2>4, RemoveDetaches
  <2>7. k.stat = [q.stat EXCEPT ![TimerThread] = "RUNNING"]
    BY <2>2, <2>4, <2>6 DEF Linked, KernelState
  <2> QED
    BY <1>4, <2>5, <2>7
<1>12. k.cur = TimerThread
  BY <1>4, <1>10, <1>11 DEF Sound, OneRuns
<1>13. \A o \in Object : TimerThread \notin Range(k.wait[o])
  BY <1>4, <1>10, <1>11 DEF Sound, Linked, WaitersSuspended
<1> QED
  BY <1>3, <1>9, <1>10, <1>11, <1>12, <1>13 DEF TimerInv

LEMMA TimerStepInv ==
    ASSUME TimerInv, SoftInv, Undisturbed, [Next]_vars
    PROVE  TimerInv'
<1>1. CASE ClockStep
  BY <1>1, TickInv DEF ClockStep, TickIsr
<1>2. CASE TimerThreadStep
  BY <1>2, LoopInv
<1>3. ASSUME NEW t \in Client, ClientStep(t)
      PROVE  TimerInv'
  BY <1>3, ClientInv DEF SoftInv
<1>4. ASSUME NEW t \in Worker, CallBegin(t) \/ CallStep(t)
      PROVE  TimerInv'
  BY <1>4, CallInv DEF Worker
<1>5. CASE UNCHANGED vars
  BY <1>5 DEF vars, kernelVars, TimerInv
<1> QED
  BY <1>1, <1>2, <1>3, <1>4, <1>5 DEF Next

LEMMA TimerInvGives ==
    ASSUME TimerInv, SoftInv
    PROVE  TypeOK /\ TimeoutOfSuspended
<1>1. KernelTypeOK
  BY DEF KernelTypeOK, TimerInv, SoftInv, Sound, Linked
<1>2. soft \in SoftLists /\ op \in [Thread -> [what : Ops, timer : Timer \cup {"none"}]]
  BY DEF SoftInv, InLists, OpsAgree
<1>3. /\ loop.at \in {"scan", "suspend", "delay", "sleep", "check", "callback"}
      /\ loop.value \in Tick \cup Timer
  BY DEF SoftInv, LoopAgrees
<1>4. TimeoutOfSuspended
  <2>1. SUFFICES ASSUME k.timers # <<>> PROVE k.stat[Head(k.timers)] = "SUSPEND"
    BY DEF TimeoutOfSuspended, TimerExpired
  <2>2. k.timers \in Seq(Thread)
    BY DEF TimerInv, Sound, Linked, KernelState
  <2> QED
    BY <2>1, <2>2, HeadIn DEF TimerInv, Sound, Timed
<1> QED
  BY <1>1, <1>2, <1>3, <1>4 DEF TypeOK

(* The timer thread data structures and every thread timer: whenever the   *)
(* timer thread is resumed undisturbed, the whole state is well formed     *)
(* (rt_thread_timer_entry, rt_timer_start, rt_thread_resume).              *)
THEOREM TimerTypeCorrect == Spec /\ []Undisturbed => []TypeOK
<1>1. Init => TimerInv /\ SoftInv
  BY TimerInitInv, SoftInit
<1>2. TimerInv /\ SoftInv /\ Undisturbed /\ [Next]_vars => TimerInv' /\ SoftInv'
  BY TimerStepInv, SoftStep
<1>3. TimerInv /\ SoftInv => TypeOK
  BY TimerInvGives
<1> QED
  BY <1>1, <1>2, <1>3, PTL DEF Spec

(* The assertion of rt_thread_timeout: rt_timer_check never ends the wait  *)
(* of a thread that does not wait, if nobody disturbs the resumption of    *)
(* the timer thread by rt_timer_start.                                     *)
THEOREM TimeoutsSound == Spec /\ []Undisturbed => []TimeoutOfSuspended
<1>1. Init => TimerInv /\ SoftInv
  BY TimerInitInv, SoftInit
<1>2. TimerInv /\ SoftInv /\ Undisturbed /\ [Next]_vars => TimerInv' /\ SoftInv'
  BY TimerStepInv, SoftStep
<1>3. TimerInv /\ SoftInv => TimeoutOfSuspended
  BY TimerInvGives
<1> QED
  BY <1>1, <1>2, <1>3, PTL DEF Spec

-----------------------------------------------------------------------------
(* When one thread, below the timer thread, uses software timers and never *)
(* locks the scheduler, nobody disturbs it: the timer thread, once woken   *)
(* by a tick, runs before that thread does.                                *)
OneClient ==
    /\ \A t, u \in Client : t = u
    /\ \A t \in Client : InitPrio[TimerThread] < InitPrio[t]
    /\ MaxNest = 0

AloneInv ==
    /\ TimerInv
    /\ SoftInv
    /\ k.prio = InitPrio /\ k.lock = 0
    /\ ~Dormant(k, TimerThread)
    /\ Behind(TimerThread)
    /\ pc[Idle] # "call"
    /\ op[TimerThread].what \notin {"unlink", "insert"}
    /\ op[TimerThread].what # "none" => loop.at = "callback"
    /\ \A t \in Client : op[t].what = "insert" =>
          /\ k.stat[TimerThread] = "SUSPEND"
          /\ TimerThread \notin Range(k.timers)
          /\ k.cur # TimerThread

LEMMA AloneUndisturbed ==
    ASSUME AloneInv, OneClient
    PROVE  Undisturbed
<1> SUFFICES ASSUME NEW t \in Thread, InOp(t, "unlink") \/ InOp(t, "insert")
             PROVE  /\ InOp(t, "unlink") => k.stat[TimerThread] = "SUSPEND"
                    /\ InOp(t, "insert") => /\ k.stat[TimerThread] = "SUSPEND"
                                            /\ TimerThread \notin Range(k.timers)
  BY DEF Undisturbed
<1>1. irq = "on" /\ k.cur = t /\ pc[t] = "call" /\ op[t].what \in {"unlink", "insert"}
  BY DEF InOp, At
<1>2. t \in Client
  BY <1>1 DEF AloneInv, Client, Worker
<1>3. TimerThread \in Thread /\ t # TimerThread
  BY <1>2, TimerThreadIs DEF Client
<1>4. /\ InitPrio[TimerThread] \in Nat /\ InitPrio[t] \in Nat
      /\ InitPrio[TimerThread] < InitPrio[t]
  BY <1>2, <1>3, KernelAssumption DEF OneClient, Prio
<1>5. k.stat[TimerThread] # "READY"
  BY <1>1, <1>4 DEF AloneInv, Behind, Away
<1>6. k.stat[TimerThread] # "RUNNING"
  BY <1>1, <1>3 DEF AloneInv, TimerInv, Sound, OneRuns
<1>7. k.stat[TimerThread] \in Stat
  BY <1>3 DEF AloneInv, TimerInv, Sound, Linked, KernelState
<1>8. k.stat[TimerThread] = "SUSPEND"
  BY <1>5, <1>6, <1>7 DEF AloneInv, Dormant, Stat
<1> QED
  BY <1>2, <1>8 DEF InOp, AloneInv

(* rt_schedule leaves the suspended threads suspended.                     *)
LEMMA ScheduleSleeps ==
    ASSUME NEW b, Sound(b), NEW t \in Thread, b.stat[t] = "SUSPEND"
    PROVE  Schedule(b).stat[t] = "SUSPEND"
<1>1. /\ b.cur \in Thread /\ b.stat \in [Thread -> Stat] /\ b.lock \in Nat
  BY DEF Sound, Linked, KernelState
<1>2. CASE b.lock # 0 \/ b.group = {}
  BY <1>2 DEF Schedule
<1>3. CASE b.lock = 0 /\ b.group # {} /\ KeepsCpu(b)
  <2>1. PICK s : s = [RemoveThread(b, b.cur) EXCEPT !.yield[b.cur] = FALSE]
    OBVIOUS
  <2>2. Schedule(b) = s
    BY <1>3, <2>1 DEF Schedule
  <2>3. s.stat = b.stat
    BY <1>1, <1>3, <2>1, KeepWakes DEF KeepsCpu
  <2> QED
    BY <2>2, <2>3
<1>4. CASE b.lock = 0 /\ b.group # {} /\ ~KeepsCpu(b)
  <2>1. PICK to : to = Head(b.ready[HighestReady(b)])
    OBVIOUS
  <2>2. to \in Thread /\ b.stat[to] = "READY"
    BY <1>4, <2>1, HighestIsReady
  <2>3. Schedule(b) = SwitchTo(b, to)
    BY <1>4, <2>1 DEF Schedule
  <2>4. PICK q : q = Requeue(b, to)
    OBVIOUS
  <2>5. Linked(q) /\ q.stat[t] = "SUSPEND"
    BY <2>2, <2>4, RequeueLinks
  <2>6. PICK z : z = RemoveThread(q, to)
    OBVIOUS
  <2>7. z = [q EXCEPT !.ready = z.ready, !.wait = z.wait, !.group = z.group]
    BY <2>2, <2>5, <2>6, RemoveDetaches
  <2>8. z.stat = q.stat /\ z.stat \in [Thread -> Stat]
    BY <2>5, <2>7 DEF Linked, KernelState
  <2>9. Schedule(b) = [z EXCEPT !.stat[to] = "RUNNING"]
    BY <2>3, <2>4, <2>6 DEF SwitchTo
  <2>10. Schedule(b).stat[t] = z.stat[t]
    BY <2>2, <2>5, <2>7, <2>8, <2>9 DEF Linked, KernelState
  <2> QED
    BY <2>5, <2>8, <2>10
<1> QED
  BY <1>1, <1>2, <1>3, <1>4

(* What a step of one of the actors leaves to prove.                       *)
Waited(t) == op[t].what = "insert" =>
    /\ k.stat[TimerThread] = "SUSPEND"
    /\ TimerThread \notin Range(k.timers)
    /\ k.cur # TimerThread

LEMMA AloneStays ==
    ASSUME AloneInv, TimerInv', SoftInv',
           k'.prio = k.prio, k'.lock = k.lock,
           Dormant(k', TimerThread) => Dormant(k, TimerThread),
           Behind(TimerThread)',
           UNCHANGED op, loop.at = "callback" => loop'.at = "callback" \/ op[TimerThread].what = "none",
           pc'[Idle] = "call" => pc[Idle] = "call",
           \A t \in Client : op[t].what = "insert" => Waited(t)'
    PROVE  AloneInv'
BY DEF AloneInv, Waited

(* The tick wakes threads, but not one that is linked nowhere.             *)
LEMMA AloneClock ==
    ASSUME AloneInv, TimerInv', SoftInv', ClockStep
    PROVE  AloneInv'
<1>1. UNCHANGED <<pc, softVars>> /\ Sound(k) /\ TimerThread \in Thread
      /\ irq # "off"
  BY TimerThreadIs DEF ClockStep, TickInterrupt, TimerCheck, TickReturn, AloneInv,
                       TimerInv
<1>2. UNCHANGED op /\ UNCHANGED loop
  BY <1>1 DEF softVars
<1>3. ASSUME NEW t \in Client, op[t].what = "insert"
      PROVE  /\ k.stat[TimerThread] = "SUSPEND"
             /\ TimerThread \notin Range(k.timers)
             /\ k.cur # TimerThread
  BY <1>3 DEF AloneInv
<1>4. CASE TickInterrupt
  <2>1. k' = TickIncrease(k)
    BY <1>4 DEF TickInterrupt
  <2>2. k'.prio = k.prio /\ k'.timers = k.timers /\ Wakes(k, k') /\ Thins(k, k')
    BY <1>1, <2>1, TickIncreaseIs, TickIncreaseWakes, TickIncreaseThins
  <2>3. k'.lock = k.lock
    BY <2>2 DEF Wakes
  <2>4. Dormant(k', TimerThread) => Dormant(k, TimerThread)
    BY <1>1, <2>2 DEF Thins, Settles
  <2>5. PICK y : /\ Wakes(k, y)
                 /\ y.cur = k.cur /\ y.stat = k.stat /\ y.prio = k.prio
                 /\ y.lock = k.lock
                 /\ k' = y \/ k' = Schedule(y)
    BY <1>1, <2>1, TickIncreaseSchedules
  <2>6. Behind(TimerThread)'
    <3>1. CASE k' = y
      BY <1>1, <2>5, <3>1 DEF AloneInv, Behind
    <3>2. CASE k' = Schedule(y)
      BY <1>1, <2>5, <3>2, ScheduleBehind DEF Wakes
    <3> QED
      BY <2>5, <3>1, <3>2
  <2>7. ASSUME NEW t \in Client, op[t].what = "insert"
        PROVE  Waited(t)'
    <3>1. y.stat[TimerThread] = "SUSPEND"
      BY <1>3, <2>5, <2>7
    <3>2. k'.stat[TimerThread] = "SUSPEND"
      BY <1>1, <2>5, <3>1, ScheduleSleeps DEF Wakes
    <3>3. k'.cur # TimerThread
      BY <1>3, <2>2, <2>7, <3>2 DEF Wakes
    <3> QED
      BY <1>3, <2>2, <2>7, <3>2, <3>3 DEF Waited
  <2> QED
    BY <1>1, <1>2, <2>2, <2>3, <2>4, <2>6, <2>7, AloneStays
<1>5. CASE TimerCheck
  <2>1. k' = TimerFire(k) /\ k.timers # <<>>
    BY <1>5 DEF TimerCheck, TimerExpired
  <2>2. /\ k'.prio = k.prio /\ k'.timers = Tail(k.timers) /\ Wakes(k, k')
        /\ Thins(k, k')
    BY <1>1, <2>1, TimerFireIs, TimerFireWakes, TimerFireThins
  <2>3. k'.lock = k.lock
    BY <2>2 DEF Wakes
  <2>4. Dormant(k', TimerThread) => Dormant(k, TimerThread)
    BY <1>1, <2>2 DEF Thins, Settles
  <2>5. PICK i : /\ Wakes(k, i) /\ k' = Schedule(i)
                 /\ \A v \in Thread \ {Head(k.timers)} : i.stat[v] = k.stat[v]
    BY <1>1, <2>1, TimerFireSchedules
  <2>6. Behind(TimerThread)'
    BY <1>1, <2>5, ScheduleBehind DEF Wakes
  <2>7. k.timers \in Seq(Thread) /\ Distinct(k.timers)
    BY <1>1 DEF Sound, Linked, Timed, KernelState
  <2>8. Head(k.timers) \in Range(k.timers)
        /\ Range(Tail(k.timers)) = Range(k.timers) \ {Head(k.timers)}
    BY <2>1, <2>7, HeadIn, TailProperties
  <2>9. ASSUME NEW t \in Client, op[t].what = "insert"
        PROVE  Waited(t)'
    <3>1. i.stat[TimerThread] = "SUSPEND"
      BY <1>1, <1>3, <2>5, <2>8, <2>9
    <3>2. k'.stat[TimerThread] = "SUSPEND"
      BY <1>1, <2>5, <3>1, ScheduleSleeps DEF Wakes
    <3>3. k'.cur # TimerThread
      BY <1>3, <2>2, <2>9, <3>2 DEF Wakes
    <3> QED
      BY <1>3, <2>2, <2>8, <2>9, <3>2, <3>3 DEF Waited
  <2> QED
    BY <1>1, <1>2, <2>2, <2>3, <2>4, <2>6, <2>9, AloneStays
<1>6. CASE TickReturn
  <2>1. k' = k
    BY <1>6 DEF TickReturn
  <2>2. Behind(TimerThread)'
    BY <1>1, <2>1 DEF AloneInv, Behind
  <2>3. \A t \in Client : op[t].what = "insert" => Waited(t)'
    BY <1>2, <1>3, <2>1 DEF Waited
  <2> QED
    BY <1>1, <1>2, <2>1, <2>2, <2>3, AloneStays
<1> QED
  BY <1>4, <1>5, <1>6 DEF ClockStep

LEMMA AloneFacts ==
    ASSUME AloneInv, OneClient
    PROVE  /\ TimerThread \in Thread /\ TimerThread # Idle
           /\ TimerThread \notin Client
           /\ k.prio[TimerThread] \in Nat
           /\ \A t \in Thread : k.prio[t] = InitPrio[t]
           /\ Sound(k) /\ k \in KernelState
           /\ pc \in [Thread -> Location]
           /\ \A t \in Thread : op[t].what = "none" <=> pc[t] # "call"
BY TimerThreadIs, KernelAssumption
   DEF AloneInv, TimerInv, SoftInv, OpsAgree, Client, Sound, Linked, Prio

LEMMA ArmedStates ==
    ASSUME NEW b, Sound(b), NEW t \in Thread, b.stat[t] = "SUSPEND",
           t \notin Range(b.timers), NEW n \in Nat, NEW z, z = TimerStart(b, t, n)
    PROVE  z.prio = b.prio /\ z.cur = b.cur /\ z.lock = b.lock /\ z.stat = b.stat
<1>1. b \in KernelState
  BY DEF Sound, Linked
<1>2. TimerStart(b, t, n).prio = b.prio
  BY <1>1, TimerStartIs
<1>3. /\ TimerStart(b, t, n).cur = b.cur /\ TimerStart(b, t, n).lock = b.lock
      /\ TimerStart(b, t, n).stat = b.stat
  BY TimerStartSound
<1> QED
  BY <1>2, <1>3

(* The steps of the timer thread.                                          *)
LEMMA AloneLoop ==
    ASSUME AloneInv, OneClient, TimerInv', SoftInv', TimerThreadStep
    PROVE  AloneInv'
<1>1. /\ TimerThread \in Thread /\ TimerThread # Idle /\ Sound(k) /\ k \in KernelState
      /\ k.prio[TimerThread] \in Nat /\ pc \in [Thread -> Location]
  BY AloneFacts
<1>2. k.cur = TimerThread /\ pc[TimerThread] # "call" /\ irq = "on"
  BY DEF TimerThreadStep, TimerLoopStep, Scan, SuspendSelf, DelayTest, SleepSelf,
         SoftTimerCheck, CallbackReturns, RtSchedule, Napped, InLoop, At
<1>3. op[TimerThread].what = "none"
  BY <1>1, <1>2, AloneFacts
<1>4. UNCHANGED op
  BY DEF TimerThreadStep, TimerLoopStep, Scan, SuspendSelf, DelayTest, SleepSelf,
         SoftTimerCheck, CallbackReturns, softVars
<1>5. \A t \in Client : op[t].what # "insert"
  BY <1>2 DEF AloneInv
<1>6. pc'[Idle] = pc[Idle]
  BY <1>1, KernelAssumption
     DEF TimerThreadStep, TimerLoopStep, Scan, SuspendSelf, DelayTest, SleepSelf,
         SoftTimerCheck, CallbackReturns, RtSchedule, Napped, Goto, kernelVars
<1>7. ASSUME k'.cur = TimerThread, k'.prio = k.prio, k'.lock = k.lock,
             Dormant(k', TimerThread) => Dormant(k, TimerThread)
      PROVE  AloneInv'
  <2>1. Behind(TimerThread)'
    BY <1>1, <1>7 DEF Behind
  <2> QED
    BY <1>3, <1>4, <1>5, <1>6, <1>7, <2>1, AloneStays
<1>8. CASE UNCHANGED kernelVars
  BY <1>2, <1>7, <1>8 DEF kernelVars, Dormant
<1>9. CASE SuspendSelf \/ SleepSelf
  <2>1. PICK s : s = ThreadSuspend(k, TimerThread)
    OBVIOUS
  <2>2. PICK n : n \in Nat /\ (k' = s \/ k' = TimerStart(s, TimerThread, n))
    <3>1. loop.at # "callback" => loop.value \in Nat
      BY DEF AloneInv, SoftInv, LoopAgrees, Tick
    <3> QED
      BY <1>9, <2>1, <3>1 DEF SuspendSelf, SleepSelf, InLoop
  <2>3. At(TimerThread, "run")
    BY <1>9 DEF SuspendSelf, SleepSelf, InLoop
  <2>4. k.stat[TimerThread] = "RUNNING" /\ k.lock = 0
    BY <1>1, <2>3, AtRunsTimer DEF AloneInv
  <2>5. Suspends(k, s, TimerThread) /\ Stops(k, s, TimerThread)
        /\ Thins(k, s) /\ s.timers = k.timers
    BY <1>1, <2>1, <2>4, SuspendRunning, SuspendStops, SuspendThins
  <2>6. /\ s.cur = TimerThread /\ s.prio = k.prio /\ s.lock = k.lock
        /\ s.stat = [k.stat EXCEPT ![TimerThread] = "SUSPEND"]
        /\ s \in KernelState /\ Sound(s)
    BY <1>2, <2>4, <2>5 DEF Suspends, Stops, Sound, Linked
  <2>7. s.stat[TimerThread] = "SUSPEND"
    BY <1>1, <2>6 DEF KernelState
  <2>8. TimerThread \notin Range(s.timers)
    BY <1>1, <2>4, <2>5 DEF Sound, Timed
  <2>9. k'.cur = s.cur /\ k'.prio = s.prio /\ k'.lock = s.lock /\ k'.stat = s.stat
    <3>1. PICK z : z = TimerStart(s, TimerThread, n)
      OBVIOUS
    <3>2. Sound(s) /\ TimerThread \in Thread /\ n \in Nat
      BY <1>1, <2>2, <2>6
    <3>3. z.prio = s.prio /\ z.cur = s.cur /\ z.lock = s.lock /\ z.stat = s.stat
      BY <2>7, <2>8, <3>1, <3>2, ArmedStates
    <3> QED
      BY <2>2, <3>1, <3>3
  <2> QED
    BY <1>7, <2>6, <2>7, <2>9 DEF Dormant
<1>10. CASE RtSchedule(TimerThread) /\ UNCHANGED softVars
  <2>1. k' = Schedule(k)
    BY <1>10 DEF RtSchedule
  <2>2. Wakes(k, k') /\ k'.prio = k.prio /\ Thins(k, k') /\ Behind(TimerThread)'
    BY <1>1, <2>1, ScheduleWakes, ScheduleSteady, ScheduleThins, ScheduleBehind DEF Steady
  <2> QED
    BY <1>1, <1>3, <1>4, <1>5, <1>6, <2>2, AloneStays DEF Wakes, Thins, Settles
<1>11. CASE Napped(TimerThread)
  <2>1. k'.cur = k.cur /\ k'.prio = k.prio /\ k'.lock = k.lock /\ k'.stat = k.stat
    BY <1>1, <1>11 DEF Napped, KernelState
  <2> QED
    BY <1>2, <1>7, <2>1 DEF Dormant
<1> QED
  BY <1>8, <1>9, <1>10, <1>11
     DEF TimerThreadStep, TimerLoopStep, Scan, DelayTest, SoftTimerCheck,
         CallbackReturns

(* The steps of the one client outside the calls of timer.c.               *)
LEMMA AloneClient ==
    ASSUME AloneInv, OneClient, TimerInv', SoftInv', NEW t \in Client, ClientStep(t)
    PROVE  AloneInv'
<1>1. /\ TimerThread \in Thread /\ Sound(k) /\ k \in KernelState
      /\ \A u \in Thread : k.prio[u] = InitPrio[u]
      /\ pc \in [Thread -> Location]
  BY AloneFacts
<1>2. t \in Thread /\ t # Idle /\ t # TimerThread
  BY DEF Client, Worker
<1>3. k.cur = t /\ pc[t] # "call" /\ irq = "on" /\ UNCHANGED op /\ UNCHANGED loop
  BY DEF ClientStep, CpuStep, RtSchedule, Startup, Yield, Napped, EnterCritical,
         ExitCritical, Sleep, At, softVars
<1>4. op[t].what = "none"
  BY <1>2, <1>3, AloneFacts
<1>5. \A u \in Client : op[u].what # "insert"
  BY <1>4 DEF OneClient
<1>6. pc'[Idle] = pc[Idle]
  BY <1>1, <1>2, KernelAssumption
     DEF ClientStep, CpuStep, RtSchedule, Startup, Yield, Napped, EnterCritical,
         ExitCritical, Sleep, Goto
<1>7. ASSUME k'.prio = k.prio, k'.lock = k.lock,
             Dormant(k', TimerThread) => Dormant(k, TimerThread),
             Behind(TimerThread)'
      PROVE  AloneInv'
  BY <1>3, <1>5, <1>6, <1>7, AloneStays
<1>8. CASE RtSchedule(t)
  <2>1. k' = Schedule(k)
    BY <1>8 DEF RtSchedule
  <2>2. Wakes(k, k') /\ k'.prio = k.prio /\ Thins(k, k') /\ Behind(TimerThread)'
    BY <1>1, <2>1, ScheduleWakes, ScheduleSteady, ScheduleThins, ScheduleBehind DEF Steady
  <2> QED
    BY <1>1, <1>7, <2>2 DEF Wakes, Thins, Settles
<1>9. ASSUME NEW u \in Worker, Startup(t, u)
      PROVE  AloneInv'
  <2>1. k.stat[u] = "INIT" /\ k' = ThreadStartup(k, u) /\ Goto(t, "sched") /\ u \in Thread
    BY <1>9 DEF Startup, Worker
  <2>2. Thins(k, k') /\ k'.prio = k.prio /\ Wakes(k, k')
    BY <1>1, <2>1, StartupThins, StartupWakes
  <2>3. k'.cur = t
    <3>1. PICK e : e = [k EXCEPT !.prio[u] = InitPrio[u],
                                 !.mask[u] = InitPrio[u],
                                 !.stat[u] = "SUSPEND"]
      OBVIOUS
    <3>2. e \in KernelState /\ e.cur = k.cur
      BY <1>1, <2>1, <3>1, KernelAssumption DEF KernelState, Stat
    <3>3. k' = ThreadResume(e, u)
      BY <2>1, <3>1 DEF ThreadStartup
    <3> QED
      BY <1>3, <2>1, <3>2, <3>3, ResumeStates
  <2>4. pc'[t] = "sched"
    BY <1>1, <1>2, <2>1 DEF Goto
  <2>5. Behind(TimerThread)'
    BY <1>1, <2>3, <2>4, AwayBehind DEF Away
  <2> QED
    BY <1>1, <1>7, <2>2, <2>5 DEF Wakes, Thins, Settles
<1>10. CASE Yield(t)
  <2>1. PICK y : y = [k EXCEPT !.remaining[t] = InitTick[t], !.yield[t] = TRUE]
    OBVIOUS
  <2>2. k' = Schedule(y)
    BY <1>10, <2>1 DEF Yield, ThreadYield
  <2>3. /\ y \in KernelState
        /\ y.cur = k.cur /\ y.stat = k.stat /\ y.prio = k.prio
        /\ y.mask = k.mask /\ y.ready = k.ready /\ y.group = k.group
        /\ y.wait = k.wait /\ y.timers = k.timers /\ y.lock = k.lock
    BY <1>1, <1>2, <2>1, KernelAssumption DEF KernelState
  <2>4. Sound(y)
    BY <1>1, <2>3, PlainUpdate
  <2>5. Wakes(y, k') /\ k'.prio = y.prio /\ Thins(y, k') /\ Behind(TimerThread)'
    BY <1>1, <2>2, <2>4, ScheduleWakes, ScheduleSteady, ScheduleThins, ScheduleBehind
       DEF Steady
  <2>6. k'.lock = k.lock /\ k'.prio = k.prio
    BY <2>3, <2>5 DEF Wakes
  <2>7. Dormant(k', TimerThread) => Dormant(y, TimerThread)
    BY <1>1, <2>5 DEF Thins, Settles
  <2> QED
    BY <1>7, <2>3, <2>5, <2>6, <2>7 DEF Dormant
<1>11. CASE Napped(t)
  <2>1. k'.cur = k.cur /\ k'.prio = k.prio /\ k'.lock = k.lock /\ k'.stat = k.stat
    BY <1>1, <1>11 DEF Napped, KernelState
  <2>2. pc[t] = "napped" /\ UNCHANGED irq
    BY <1>11 DEF Napped, At
  <2>3. Behind(TimerThread)'
    BY <1>3, <2>1, <2>2 DEF AloneInv, Behind, Away
  <2> QED
    BY <1>7, <2>1, <2>3 DEF Dormant
<1>12. ~EnterCritical(t) /\ ~ExitCritical(t)
  BY DEF EnterCritical, ExitCritical, OneClient, AloneInv
<1>13. CASE Sleep(t)
  <2>1. PICK n \in SleepTimes : k' = TimerStart(ThreadSuspend(k, t), t, n)
    BY <1>13 DEF Sleep
  <2>2. PICK s : s = ThreadSuspend(k, t)
    OBVIOUS
  <2>3. n \in Nat /\ At(t, "run") /\ Goto(t, "nap") /\ k.lock = 0
    BY <1>13, ProcessorAssumption DEF Sleep, MayBlock
  <2>4. k.stat[t] = "RUNNING"
    BY <1>2, <2>3, AtRunsTimer DEF AloneInv
  <2>5. Suspends(k, s, t) /\ Stops(k, s, t) /\ Thins(k, s) /\ s.timers = k.timers
    BY <1>1, <1>2, <2>2, <2>3, <2>4, SuspendRunning, SuspendStops, SuspendThins
  <2>6. /\ s.cur = t /\ s.prio = k.prio /\ s.lock = k.lock
        /\ s.stat = [k.stat EXCEPT ![t] = "SUSPEND"]
        /\ k.stat \in [Thread -> Stat]
    BY <1>1, <1>3, <2>3, <2>5 DEF Suspends, Stops, KernelState
  <2>7. Sound(s)
    BY <2>5 DEF Suspends
  <2>8. s.stat[t] = "SUSPEND"
    BY <1>2, <2>6
  <2>9. t \notin Range(s.timers)
    BY <1>1, <1>2, <2>4, <2>5 DEF Sound, Timed
  <2>10. PICK z : z = TimerStart(s, t, n)
    OBVIOUS
  <2>11. z.prio = s.prio /\ z.cur = s.cur /\ z.lock = s.lock /\ z.stat = s.stat
    BY <1>2, <2>3, <2>7, <2>8, <2>9, <2>10, ArmedStates
  <2>12. k' = z
    BY <2>1, <2>2, <2>10
  <2>13. Dormant(k', TimerThread) => Dormant(k, TimerThread)
    BY <1>1, <1>2, <2>6, <2>11, <2>12 DEF Dormant
  <2>14. pc'[k'.cur] = "nap"
    BY <1>1, <1>2, <2>3, <2>6, <2>11, <2>12 DEF Goto
  <2>15. Behind(TimerThread)'
    BY <1>1, <2>14, AwayBehind DEF Away
  <2> QED
    BY <1>7, <2>6, <2>11, <2>12, <2>13, <2>15
<1> QED
  BY <1>8, <1>9, <1>10, <1>11, <1>12, <1>13 DEF ClientStep, CpuStep

(* The calls of timer.c: rt_timer_start finds the timer thread suspended,  *)
(* not in a callback of its own, and nobody wakes it until it is inserted. *)
LEMMA AloneCall ==
    ASSUME AloneInv, OneClient, TimerInv', SoftInv', NEW t \in Worker,
           CallBegin(t) \/ CallStep(t)
    PROVE  AloneInv'
<1>1. /\ TimerThread \in Thread /\ TimerThread # Idle /\ TimerThread \notin Client
      /\ Sound(k) /\ k \in KernelState
      /\ k.prio[TimerThread] \in Nat /\ pc \in [Thread -> Location]
  BY AloneFacts
<1>2. t \in Thread /\ t # Idle
  BY DEF Worker
<1>3. k.cur = t /\ irq = "on" /\ UNCHANGED <<irq, loop>> /\ pc[t] \in {"run", "call"}
  BY DEF CallBegin, CallStep, Stop, Start, StartTest, ResumeUnlink, ResumeInsert,
         InOp, At
<1>4. op \in [Thread -> [what : Ops, timer : Timer \cup {"none"}]]
  BY DEF AloneInv, SoftInv, OpsAgree
<1>5. pc'[Idle] = pc[Idle]
  BY <1>1, <1>2, KernelAssumption
     DEF CallBegin, CallStep, Stop, Start, StartTest, ResumeUnlink, ResumeInsert,
         Calls, Returns, Goto
<1>6. ASSUME NEW what, op' = [op EXCEPT ![t] = what],
             what.what \notin {"unlink", "insert"} \/ t # TimerThread,
             t = TimerThread => what.what = "none" \/ loop.at = "callback",
             what.what = "insert" => Waited(t)' \/ t = TimerThread,
             k'.prio = k.prio, k'.lock = k.lock,
             Dormant(k', TimerThread) => Dormant(k, TimerThread),
             Behind(TimerThread)'
      PROVE  AloneInv'
  <2>1. op'[t] = what /\ \A u \in Thread \ {t} : op'[u] = op[u]
    BY <1>2, <1>4, <1>6
  <2>2. /\ op'[TimerThread].what \notin {"unlink", "insert"}
        /\ op'[TimerThread].what # "none" => loop'.at = "callback"
    BY <1>1, <1>3, <1>6, <2>1 DEF AloneInv
  <2>3. ASSUME NEW u \in Client, op'[u].what = "insert"
        PROVE  /\ k'.stat[TimerThread] = "SUSPEND"
               /\ TimerThread \notin Range(k'.timers)
               /\ k'.cur # TimerThread
    <3>1. u \in Thread /\ u # TimerThread
      BY DEF Client, Worker
    <3>2. CASE u = t
      BY <1>6, <2>1, <2>3, <3>1, <3>2 DEF Waited
    <3>3. CASE u # t
      <4>1. op[u].what = "insert" /\ t \notin Client
        BY <2>1, <2>3, <3>1, <3>3 DEF OneClient
      <4>2. t = TimerThread
        BY <4>1 DEF Client
      <4> QED
        BY <1>3, <4>1, <4>2 DEF AloneInv
    <3> QED
      BY <3>2, <3>3
  <2> QED
    BY <1>5, <1>6, <2>2, <2>3 DEF AloneInv
<1>7. ASSUME UNCHANGED k, NEW loc, Goto(t, loc) PROVE Behind(TimerThread)'
  <2>1. pc[k.cur] \notin Away
    BY <1>3 DEF Away
  <2> QED
    BY <1>3, <1>7, <2>1 DEF AloneInv, Behind
<1>8. ASSUME UNCHANGED k, NEW loc, Goto(t, loc), NEW what, op' = [op EXCEPT ![t] = what],
             what.what \in {"none", "start", "stop", "detach", "test"} \/ t # TimerThread,
             what.what # "insert",
             t = TimerThread => what.what = "none" \/ loop.at = "callback"
      PROVE  AloneInv'
  BY <1>6, <1>7, <1>8
<1>9. CASE CallBegin(t)
  <2>1. PICK what \in {"start", "stop", "detach"}, tm \in Timer : Calls(t, what, tm)
    BY <1>9 DEF CallBegin
  <2>2. UNCHANGED k /\ (t = TimerThread => loop.at = "callback")
    BY <1>9 DEF CallBegin
  <2>3. PICK o : o = Op(what, tm)
    OBVIOUS
  <2>4. o.what = what /\ op' = [op EXCEPT ![t] = o] /\ Goto(t, "call")
    BY <2>1, <2>3, OpIs DEF Calls
  <2> QED
    BY <1>8, <2>2, <2>4
<1>10. t = TimerThread /\ CallStep(t) => loop.at = "callback"
  BY DEF CallStep, Stop, Start, StartTest, ResumeUnlink, ResumeInsert, InOp, AloneInv
<1>11. CASE Stop(t)
  BY <1>8, <1>11, OpIs DEF Stop, Returns, NoOp
<1>12. CASE Start(t)
  <2>1. UNCHANGED k /\ Calls(t, "test", "none")
    BY <1>12 DEF Start
  <2>2. t = TimerThread => loop.at = "callback"
    BY <1>10, <1>12 DEF CallStep
  <2>3. PICK o : o = Op("test", "none")
    OBVIOUS
  <2>4. o.what = "test" /\ op' = [op EXCEPT ![t] = o] /\ Goto(t, "call")
    BY <2>1, <2>3, OpIs DEF Calls
  <2> QED
    BY <1>8, <2>1, <2>2, <2>4
<1>13. CASE StartTest(t)
  <2>1. CASE ~soft.busy /\ k.stat[TimerThread] = "SUSPEND"
    <3>1. UNCHANGED k /\ Calls(t, "unlink", "none")
      BY <1>13, <2>1 DEF StartTest
    <3>2. t # TimerThread
      BY <1>10, <1>13, <2>1 DEF CallStep, AloneInv, SoftInv, LoopAgrees
    <3>3. PICK o : o = Op("unlink", "none")
      OBVIOUS
    <3>4. o.what = "unlink" /\ op' = [op EXCEPT ![t] = o] /\ Goto(t, "call")
      BY <3>1, <3>3, OpIs DEF Calls
    <3> QED
      BY <1>8, <3>1, <3>2, <3>4
  <2>2. CASE ~(~soft.busy /\ k.stat[TimerThread] = "SUSPEND")
    <3>1. UNCHANGED k /\ Returns(t, "run")
      BY <1>13, <2>2 DEF StartTest
    <3> QED
      BY <1>8, <3>1, OpIs DEF Returns, NoOp
  <2> QED
    BY <2>1, <2>2
<1>14. CASE ResumeUnlink(t)
  <2>1. PICK u : u = Unlink(k, TimerThread)
    OBVIOUS
  <2>2. k' = TimerStop(u, TimerThread) /\ Calls(t, "insert", "none")
        /\ t # TimerThread /\ InOp(t, "unlink")
    BY <1>14, <2>1 DEF ResumeUnlink, InOp, AloneInv
  <2>3. k.stat[TimerThread] = "SUSPEND"
    BY <1>2, <2>2, AloneUndisturbed DEF Undisturbed
  <2>4. /\ u.cur = k.cur /\ u.stat = k.stat /\ u.lock = k.lock /\ u.prio = k.prio
        /\ u.timers = k.timers
    BY <1>1, <2>1 DEF Unlink, KernelState
  <2>5. u \in KernelState
    BY <1>1, <2>1, UnlinkKeeps DEF Sound, Linked, ReadyAgrees, WaitersSuspended
  <2>6. Distinct(u.timers)
    BY <1>1, <2>4 DEF Sound, Timed
  <2>7. Range(k'.timers) = Range(u.timers) \ {TimerThread}
    BY <1>1, <2>2, <2>5, <2>6, TimerStopKeeps
  <2>8. k'.cur = k.cur /\ k'.stat = k.stat /\ k'.lock = k.lock /\ k'.prio = k.prio
    BY <2>2, <2>4, <2>5 DEF TimerStop, KernelState
  <2>9. Waited(t)'
    BY <1>3, <2>2, <2>3, <2>7, <2>8 DEF Waited
  <2>10. Behind(TimerThread)'
    BY <2>3, <2>8 DEF Behind
  <2> QED
    BY <1>6, <2>2, <2>8, <2>9, <2>10, OpIs DEF Calls, Dormant
<1>15. CASE ResumeInsert(t)
  <2>1. k' = InsertThread(k, TimerThread) /\ Returns(t, "sched")
    BY <1>15 DEF ResumeInsert
  <2>2. Thins(k, k')
    BY <1>1, <2>1, InsertThins
  <2>3. k'.cur = k.cur /\ k'.lock = k.lock /\ k'.prio = k.prio
    BY <1>1, <2>1 DEF InsertThread, KernelState
  <2>4. pc'[k'.cur] = "sched"
    BY <1>1, <1>2, <1>3, <2>1, <2>3 DEF Returns, Goto
  <2>5. Behind(TimerThread)'
    BY <1>1, <2>4, AwayBehind DEF Away
  <2>6. Dormant(k', TimerThread) => Dormant(k, TimerThread)
    BY <1>1, <2>2 DEF Thins, Settles
  <2> QED
    BY <1>6, <2>1, <2>3, <2>5, <2>6, OpIs DEF Returns, NoOp
<1> QED
  BY <1>9, <1>11, <1>12, <1>13, <1>14, <1>15 DEF CallStep

LEMMA AloneInit ==
    ASSUME Init
    PROVE  AloneInv
<1>1. TimerInv /\ SoftInv /\ k.cur = TimerThread /\ k.stat[TimerThread] = "RUNNING"
  BY TimerInitInv, SoftInit
<1>2. pc = [t \in Thread |-> "run"] /\ op = [t \in Thread |-> NoOp]
  BY DEF Init
<1>3. TimerThread \in Thread /\ Idle \in Thread /\ NoOp.what = "none"
  BY TimerThreadIs, KernelAssumption, OpIs
<1>4. \A t \in Client : op[t].what # "insert"
  BY <1>2, <1>3 DEF Client, Worker
<1>5. PICK b : b = Started
  OBVIOUS
<1>6. PICK u : u = ThreadStartup(b, TimerThread)
  OBVIOUS
<1>7. k = SwitchTo(u, TimerThread)
  BY <1>5, <1>6 DEF Init
<1>8. TimerThread # Main /\ TimerThread # Idle
  BY SoftTimerAssumption
<1>9. /\ Sound(b) /\ b.cur = Main /\ b.lock = 0 /\ b.prio = InitPrio
      /\ b.stat[TimerThread] = "INIT" /\ b.prio[TimerThread] = InitPrio[TimerThread]
  BY <1>3, <1>5, <1>8, StartedSound DEF Started
<1>10. b \in KernelState
  BY <1>9 DEF Sound, Linked
<1>11. Wakes(b, u) /\ u.prio = InitPrio /\ u.stat[TimerThread] = "READY"
  BY <1>3, <1>6, <1>8, <1>9, <1>10, StartupWakes, StartupThins, StartupReadies
<1>12. Sound(u) /\ u.lock = 0
  BY <1>9, <1>11 DEF Wakes
<1>13. Wakes(u, k)
  BY <1>3, <1>7, <1>11, <1>12, SwitchWakes
<1>14. k.lock = 0
  BY <1>12, <1>13 DEF Wakes
<1>15. k.prio = InitPrio
  <2>1. PICK q : q = Requeue(u, TimerThread)
    OBVIOUS
  <2>2. Linked(q) /\ q.prio = u.prio
    BY <1>3, <1>11, <1>12, <2>1, RequeueLinks, RequeueSteady
       DEF Steady, Sound, Linked
  <2>3. PICK z : z = RemoveThread(q, TimerThread)
    OBVIOUS
  <2>4. z.prio = q.prio
    BY <1>3, <2>2, <2>3, RemoveSteady DEF Steady
  <2>5. k = [z EXCEPT !.stat[TimerThread] = "RUNNING"]
    BY <1>7, <2>1, <2>3 DEF SwitchTo
  <2> QED
    BY <1>11, <2>2, <2>4, <2>5
<1>16. Behind(TimerThread)
  BY <1>1 DEF Behind
<1> QED
  BY <1>1, <1>2, <1>3, <1>4, <1>14, <1>15, <1>16 DEF AloneInv, Dormant

LEMMA AloneStep ==
    ASSUME AloneInv, OneClient, [Next]_vars
    PROVE  AloneInv'
<1>1. TimerInv' /\ SoftInv'
  BY AloneUndisturbed, TimerStepInv, SoftStep DEF AloneInv
<1>2. CASE ClockStep
  BY <1>1, <1>2, AloneClock
<1>3. CASE TimerThreadStep
  BY <1>1, <1>3, AloneLoop
<1>4. ASSUME NEW t \in Client, ClientStep(t)
      PROVE  AloneInv'
  BY <1>1, <1>4, AloneClient
<1>5. ASSUME NEW t \in Worker, CallBegin(t) \/ CallStep(t)
      PROVE  AloneInv'
  BY <1>1, <1>5, AloneCall
<1>6. CASE UNCHANGED vars
  BY <1>1, <1>6 DEF vars, kernelVars, softVars, AloneInv, Behind, Dormant
<1> QED
  BY <1>2, <1>3, <1>4, <1>5, <1>6 DEF Next

(* With one client nothing disturbs the resumption of the timer thread, so *)
(* the state stays well formed and rt_thread_timeout only meets suspended  *)
(* threads: rt_timer_start, rt_thread_resume and the preemption of their   *)
(* caller by the timer thread.                                             *)
THEOREM OneClientSafe ==
    ASSUME OneClient
    PROVE  Spec => [](TypeOK /\ TimeoutOfSuspended)
<1>1. Init => AloneInv
  BY AloneInit
<1>2. AloneInv /\ [Next]_vars => AloneInv'
  BY AloneStep
<1>3. AloneInv => TypeOK /\ TimeoutOfSuspended
  BY TimerInvGives DEF AloneInv
<1> QED
  BY <1>1, <1>2, <1>3, PTL DEF Spec

=============================================================================
