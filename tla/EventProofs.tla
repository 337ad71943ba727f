---------------------------- MODULE EventProofs ----------------------------
(***************************************************************************)
(* The event of module Event, for every set of threads, every assignment   *)
(* of priorities and time slices, both kinds of suspend list, every set of *)
(* bits and of requests, and every tick width: the safety invariants that  *)
(* its run checks, and the promise of AbstractEvent.                       *)
(***************************************************************************)
EXTENDS Event, ProcessorProofs

-----------------------------------------------------------------------------
(* The loop of rt_event_send.                                              *)

(* f holds the states of the loop.                                         *)
Runs(f, base, list, n) ==
    f = [i \in 0 .. n |-> IF i = 0 THEN base ELSE Visit(f[i - 1], list[i])]

LEMMA RunExists ==
    ASSUME NEW base, NEW list, NEW n \in Nat
    PROVE  \E f : Runs(f, base, list, n)
<1> DEFINE T == {m \in Nat : ~ \E f : Runs(f, base, list, m)}
<1> SUFFICES ASSUME T # {}
             PROVE  FALSE
  OBVIOUS
<1>1. T \in SUBSET Nat
  OBVIOUS
<1>2. PICK m \in T : \A x \in T : m <= x
  <2> HIDE DEF T
  <2> QED
    BY <1>1, LeastExists
<1>3. m \in Nat /\ ~ \E f : Runs(f, base, list, m)
  OBVIOUS
<1>4. CASE m = 0
  <2>1. PICK f : f = [i \in 0 .. 0 |-> base]
    OBVIOUS
  <2>2. Runs(f, base, list, 0)
    BY <2>1 DEF Runs
  <2> QED
    BY <1>3, <1>4, <2>2
<1>5. CASE m # 0
  <2>1. m - 1 \in Nat /\ m - 1 \notin T
    BY <1>2, <1>3, <1>5
  <2>2. PICK g : Runs(g, base, list, m - 1)
    BY <2>1
  <2>3. PICK f : f = [i \in 0 .. m |-> IF i = m THEN Visit(g[m - 1], list[m]) ELSE g[i]]
    OBVIOUS
  <2>4. \A i \in 0 .. m - 1 : f[i] = g[i] /\ i # m
    BY <1>3, <2>3
  <2>5. ASSUME NEW i \in 0 .. m
        PROVE  f[i] = IF i = 0 THEN base ELSE Visit(f[i - 1], list[i])
    <3>1. CASE i = m
      <4>1. m - 1 \in 0 .. m - 1
        BY <2>1
      <4>2. f[m - 1] = g[m - 1]
        BY <2>4, <4>1
      <4> QED
        BY <1>3, <1>5, <2>3, <3>1, <4>2
    <3>2. CASE i # m
      <4>1. i \in 0 .. m - 1 /\ f[i] = g[i]
        BY <1>3, <2>4, <3>2
      <4>2. g[i] = IF i = 0 THEN base ELSE Visit(g[i - 1], list[i])
        BY <2>2, <4>1 DEF Runs
      <4>3. CASE i = 0
        BY <4>1, <4>2, <4>3
      <4>4. CASE i # 0
        <5>1. i - 1 \in 0 .. m - 1
          BY <1>3, <4>1, <4>4
        <5>2. f[i - 1] = g[i - 1]
          BY <2>4, <5>1
        <5> QED
          BY <4>1, <4>2, <4>4, <5>2
      <4> QED
        BY <4>3, <4>4
    <3> QED
      BY <3>1, <3>2
  <2>6. f = [i \in 0 .. m |-> f[i]]
    BY <2>3
  <2>7. Runs(f, base, list, m)
    BY <2>5, <2>6 DEF Runs
  <2> QED
    BY <1>3, <2>7
<1> QED
  BY <1>4, <1>5

(* The state of the loop before the first turn.                            *)
Posted(bits) == [k |-> k, set |-> set \cup bits, info |-> info]

LEMMA ServeRuns ==
    ASSUME NEW bits, k.wait[Evt] \in Seq(Thread)
    PROVE  \E f : /\ f[0] = Posted(bits)
                  /\ \A i \in 1 .. Len(k.wait[Evt]) :
                        f[i] = Visit(f[i - 1], k.wait[Evt][i])
                  /\ f[Len(k.wait[Evt])] = Serve(bits)
<1>1. Len(k.wait[Evt]) \in Nat
  BY LenProperties
<1> DEFINE list == k.wait[Evt]
           turn == CHOOSE f : f = [i \in 0 .. Len(list) |->
                                     IF i = 0 THEN Posted(bits)
                                     ELSE Visit(f[i - 1], list[i])]
<1>2. Serve(bits) = turn[Len(list)]
  BY DEF Serve, Posted
<1>3. \E f : Runs(f, Posted(bits), list, Len(list))
  BY <1>1, RunExists
<1>4. turn = [i \in 0 .. Len(list) |-> IF i = 0 THEN Posted(bits)
                                       ELSE Visit(turn[i - 1], list[i])]
  BY <1>3 DEF Runs
<1> HIDE DEF turn
<1>5. turn[0] = Posted(bits)
  BY <1>1, <1>4
<1>6. \A i \in 1 .. Len(list) : turn[i] = Visit(turn[i - 1], list[i])
  BY <1>1, <1>4
<1> QED
  BY <1>2, <1>5, <1>6

-----------------------------------------------------------------------------
(* A turn of the loop.  After i turns the threads that were woken are done *)
(* and have left the list; the others wait as they did.                    *)
Done(s) == Waiters \ Range(s.k.wait[Evt])

Resumed(s) ==
    /\ Wakes(k, s.k) /\ s.k.error = k.error
    /\ Range(s.k.wait[Evt]) \subseteq Waiters
    /\ \A t \in Done(s) : s.k.stat[t] # "SUSPEND"

(* What has been given to whom, out of the bits in pool.                   *)
Given(s, pool) ==
    /\ s.info \in [Thread -> Standing \cup {NoRequest}]
    /\ \A t \in Thread \ Done(s) : s.info[t] = info[t]
    /\ \A t \in Done(s) :
          /\ s.info[t] \in Standing
          /\ s.info[t].want \subseteq pool \cap info[t].want
          /\ Meets(info[t], s.info[t].want)

Takes(s, t) == t \in Done(s) /\ info[t].clear

(* Each bit that was cleared has gone to one of those that clear it.       *)
Cleared(s, pool) ==
    /\ \A x : x \in s.set <=>
                 x \in pool /\ \A t \in Thread : Takes(s, t) => x \notin s.info[t].want
    /\ \A t, u \in Thread : Takes(s, t) /\ Takes(s, u) /\ t # u =>
                                s.info[t].want \cap s.info[u].want = {}

(* Whom the loop has passed cannot be met by what is left.                 *)
Passed(s, i) ==
    \A j \in 1 .. Len(k.wait[Evt]) :
        IF j <= i
        THEN k.wait[Evt][j] \in Range(s.k.wait[Evt]) => ~Meets(info[k.wait[Evt][j]], s.set)
        ELSE k.wait[Evt][j] \in Range(s.k.wait[Evt])

Turned(s, i, pool) == Resumed(s) /\ Given(s, pool) /\ Cleared(s, pool) /\ Passed(s, i)

(* The state before a send.                                                *)
Ready ==
    /\ Sound(k)
    /\ info \in [Thread -> Standing \cup {NoRequest}]
    /\ \A t \in Waiters : info[t] \in Standing

LEMMA ReadyIs ==
    ASSUME Ready
    PROVE  /\ k.wait[Evt] \in Seq(Thread) /\ Len(k.wait[Evt]) \in Nat
           /\ Distinct(k.wait[Evt]) /\ Waiters \subseteq Thread /\ Evt \in Object
           /\ \A j \in 1 .. Len(k.wait[Evt]) : k.wait[Evt][j] \in Waiters
<1>1. /\ Evt \in Object /\ k \in KernelState /\ Distinct(k.wait[Evt])
  BY EventAssumption DEF Ready, Sound, Linked, WaitersSuspended
<1>2. k.wait[Evt] \in Seq(Thread)
  BY <1>1 DEF KernelState
<1> QED
  BY <1>1, <1>2, LenProperties, RangeOfSeq, RangeIs DEF Waiters, Range

LEMMA TurnStarts ==
    ASSUME Ready, NEW bits, NEW s, s = Posted(bits)
    PROVE  Turned(s, 0, set \cup bits)
<1>1. s.k = k /\ s.set = set \cup bits /\ s.info = info
  BY DEF Posted
<1>2. Done(s) = {}
  BY <1>1 DEF Done, Waiters
<1>3. Resumed(s)
  BY <1>1, <1>2, WakesNone DEF Ready, Resumed, Waiters
<1>4. Given(s, set \cup bits)
  BY <1>1, <1>2 DEF Ready, Given
<1>5. Cleared(s, set \cup bits)
  BY <1>1, <1>2 DEF Cleared, Takes
<1>6. Passed(s, 0)
  BY <1>1, ReadyIs DEF Passed, Waiters
<1> QED
  BY <1>3, <1>4, <1>5, <1>6 DEF Turned

(* A set that cannot meet a request cannot when bits are cleared.          *)
LEMMA MeetsLess ==
    ASSUME NEW r, NEW s, NEW w \in SUBSET s, Meets(r, w)
    PROVE  Meets(r, s)
BY DEF Meets

LEMMA TurnGoesOn ==
    ASSUME Ready, NEW pool, NEW i \in 1 .. Len(k.wait[Evt]),
           NEW s, Turned(s, i - 1, pool),
           NEW z, z = Visit(s, k.wait[Evt][i])
    PROVE  Turned(z, i, pool)
<1>1. PICK t : t = k.wait[Evt][i]
  OBVIOUS
<1>2. /\ k.wait[Evt] \in Seq(Thread) /\ Len(k.wait[Evt]) \in Nat
      /\ Distinct(k.wait[Evt]) /\ Waiters \subseteq Thread /\ Evt \in Object
      /\ t \in Waiters
  BY <1>1, ReadyIs
<1>3. t \in Range(s.k.wait[Evt])
  <2>1. ~(i <= i - 1)
    OBVIOUS
  <2> QED
    BY <1>1, <2>1 DEF Turned, Passed
<1>4. s.info[t] = info[t] /\ info[t] \in Standing /\ t \in Thread
  BY <1>2, <1>3 DEF Turned, Given, Done, Ready
<1>5. CASE ~Meets(info[t], s.set)
  <2>1. z = s
    BY <1>1, <1>4, <1>5 DEF Visit
  <2>2. Passed(s, i)
    <3>1. SUFFICES ASSUME NEW j \in 1 .. Len(k.wait[Evt])
                   PROVE  IF j <= i
                          THEN k.wait[Evt][j] \in Range(s.k.wait[Evt]) =>
                                  ~Meets(info[k.wait[Evt][j]], s.set)
                          ELSE k.wait[Evt][j] \in Range(s.k.wait[Evt])
      BY DEF Passed
    <3>2. CASE j = i
      BY <1>1, <1>5, <3>2
    <3>3. CASE j # i
      <4>1. j <= i <=> j <= i - 1
        BY <1>2, <3>3
      <4> QED
        BY <4>1 DEF Turned, Passed
    <3> QED
      BY <3>2, <3>3
  <2> QED
    BY <2>1, <2>2 DEF Turned
<1>6. CASE Meets(info[t], s.set)
  <2>1. PICK r, got : r = info[t] /\ got = Received(r, s.set)
    OBVIOUS
  <2>2. /\ z.k = ThreadResume(s.k, t)
        /\ z.set = (IF r.clear THEN s.set \ got ELSE s.set)
        /\ z.info = [s.info EXCEPT ![t].want = got]
    BY <1>1, <1>4, <1>6, <2>1 DEF Visit
  <2>3. /\ got \subseteq s.set /\ got \subseteq r.want /\ got # {}
        /\ Meets(r, got) /\ r \in Standing
    <3>1. r \in Standing /\ Meets(r, s.set)
      BY <1>4, <1>6, <2>1
    <3>2. r.want # {}
      BY <3>1 DEF Standing
    <3>3. CASE r.all
      BY <2>1, <3>1, <3>2, <3>3 DEF Received, Meets
    <3>4. CASE ~r.all
      <4>1. got = r.want \cap s.set /\ got # {}
        BY <2>1, <3>1, <3>4 DEF Received, Meets
      <4> QED
        BY <3>1, <3>4, <4>1 DEF Meets
    <3> QED
      BY <3>3, <3>4
  <2>4. Sound(s.k) /\ s.k.stat[t] = "SUSPEND"
    BY <1>2, <1>3, <1>4 DEF Turned, Resumed, Wakes, Sound, Linked, WaitersSuspended
  <2>5. Frees(s.k, z.k, t) /\ z.k.error = s.k.error
    BY <1>4, <2>2, <2>4, ResumeFrees
  <2>6. /\ Range(z.k.wait[Evt]) = Range(s.k.wait[Evt]) \ {t}
        /\ Wakes(s.k, z.k) /\ z.k.stat[t] # "SUSPEND"
    BY <1>2, <2>5 DEF Frees
  <2>7. Done(z) = Done(s) \cup {t} /\ t \notin Done(s)
    BY <1>2, <1>3, <2>6 DEF Done
  <2>8. Resumed(z)
    <3>1. Wakes(k, z.k)
      BY <2>6, WakesTransitive DEF Turned, Resumed
    <3>2. \A u \in Done(z) : z.k.stat[u] # "SUSPEND"
      BY <1>2, <2>6, <2>7 DEF Turned, Resumed, Wakes, Done
    <3> QED
      BY <2>5, <2>6, <3>1, <3>2 DEF Turned, Resumed
  <2>9. s.info \in [Thread -> Standing \cup {NoRequest}]
    BY DEF Turned, Given
  <2>10. PICK rr : rr = [r EXCEPT !.want = got]
    OBVIOUS
  <2>11. pool \cap r.want \in SUBSET Bit /\ got \in (SUBSET Bit) \ {{}}
    BY <2>3 DEF Standing
  <2>12. rr \in Standing /\ rr.want = got
    BY <2>3, <2>10, <2>11 DEF Standing
  <2>13. z.info = [s.info EXCEPT ![t] = rr]
    BY <1>4, <2>1, <2>2, <2>10
  <2>14. z.info[t] = rr /\ \A u \in Thread \ {t} : z.info[u] = s.info[u]
    BY <1>4, <2>9, <2>13
  <2>15. s.set \subseteq pool
    BY DEF Turned, Cleared
  <2>16. Given(z, pool)
    <3>1. z.info \in [Thread -> Standing \cup {NoRequest}]
      BY <2>9, <2>12, <2>13
    <3>2. \A u \in Thread \ Done(z) : z.info[u] = info[u]
      BY <2>7, <2>14 DEF Turned, Given
    <3>3. \A u \in Done(s) :
             /\ u \in Thread \ {t}
             /\ s.info[u] \in Standing
             /\ s.info[u].want \subseteq pool \cap info[u].want
             /\ Meets(info[u], s.info[u].want)
      BY <1>2, <2>7 DEF Turned, Given, Done
    <3>4. \A u \in Done(s) :
             /\ z.info[u] \in Standing
             /\ z.info[u].want \subseteq pool \cap info[u].want
             /\ Meets(info[u], z.info[u].want)
      BY <2>14, <3>3
    <3>5. /\ z.info[t] \in Standing
          /\ z.info[t].want \subseteq pool \cap info[t].want
          /\ Meets(info[t], z.info[t].want)
      BY <2>1, <2>3, <2>12, <2>14, <2>15
    <3> QED
      BY <2>7, <3>1, <3>2, <3>4, <3>5 DEF Given
  <2>17. Cleared(z, pool)
    <3>1. \A u \in Thread : Takes(z, u) <=> Takes(s, u) \/ (u = t /\ r.clear)
      BY <1>4, <2>1, <2>7 DEF Takes
    <3>2. \A u \in Thread : Takes(s, u) => u # t /\ z.info[u] = s.info[u]
      BY <2>7, <2>14 DEF Takes
    <3>3. z.info[t].want = got
      BY <2>12, <2>14
    <3>4. ASSUME NEW x
          PROVE  x \in z.set <=>
                   x \in pool /\ \A u \in Thread : Takes(z, u) => x \notin z.info[u].want
      <4>1. x \in s.set <=>
               x \in pool /\ \A u \in Thread : Takes(s, u) => x \notin s.info[u].want
        BY DEF Turned, Cleared
      <4>2. (\A u \in Thread : Takes(s, u) => x \notin z.info[u].want)
               <=> \A u \in Thread : Takes(s, u) => x \notin s.info[u].want
        BY <3>2
      <4>3. (\A u \in Thread : Takes(z, u) => x \notin z.info[u].want)
               <=> /\ \A u \in Thread : Takes(s, u) => x \notin z.info[u].want
                   /\ r.clear => x \notin got
        BY <1>4, <3>1, <3>3
      <4>4. x \in z.set <=> x \in s.set /\ (r.clear => x \notin got)
        BY <2>2
      <4> QED
        BY <4>1, <4>2, <4>3, <4>4
    <3>5. ASSUME NEW u \in Thread, Takes(s, u)
          PROVE  z.info[u].want \cap got = {}
      <4>1. \A x : x \in s.set => x \notin s.info[u].want
        BY <3>5 DEF Turned, Cleared
      <4> QED
        BY <2>3, <3>2, <3>5, <4>1
    <3>6. ASSUME NEW u \in Thread, NEW v \in Thread, Takes(s, u), Takes(s, v), u # v
          PROVE  z.info[u].want \cap z.info[v].want = {}
      BY <3>2, <3>6 DEF Turned, Cleared
    <3>7. ASSUME NEW u \in Thread, NEW v \in Thread, Takes(z, u), Takes(z, v), u # v
          PROVE  z.info[u].want \cap z.info[v].want = {}
      <4>1. CASE Takes(s, u) /\ Takes(s, v)
        BY <3>6, <3>7, <4>1
      <4>2. CASE Takes(s, u) /\ v = t
        BY <3>3, <3>5, <4>2
      <4>3. CASE u = t /\ Takes(s, v)
        <5>1. z.info[v].want \cap got = {}
          BY <3>5, <4>3
        <5> QED
          BY <3>3, <4>3, <5>1
      <4> QED
        BY <3>1, <3>7, <4>1, <4>2, <4>3
    <3> QED
      BY <3>4, <3>7 DEF Cleared
  <2>18. Passed(z, i)
    <3>1. SUFFICES ASSUME NEW j \in 1 .. Len(k.wait[Evt])
                   PROVE  IF j <= i
                          THEN k.wait[Evt][j] \in Range(z.k.wait[Evt]) =>
                                  ~Meets(info[k.wait[Evt][j]], z.set)
                          ELSE k.wait[Evt][j] \in Range(z.k.wait[Evt])
      BY DEF Passed
    <3>2. PICK u : u = k.wait[Evt][j]
      OBVIOUS
    <3>3. CASE j = i
      BY <1>1, <2>6, <3>3
    <3>4. CASE j # i
      <4>1. j <= i <=> j <= i - 1
        BY <1>2, <3>4
      <4>2. u # t
        BY <1>1, <1>2, <3>2, <3>4 DEF Distinct
      <4>3. IF j <= i - 1
            THEN u \in Range(s.k.wait[Evt]) => ~Meets(info[u], s.set)
            ELSE u \in Range(s.k.wait[Evt])
        BY <3>2 DEF Turned, Passed
      <4>4. z.set \in SUBSET s.set
        BY <2>2
      <4>5. Meets(info[u], z.set) => Meets(info[u], s.set)
        BY <4>4, MeetsLess
      <4> QED
        BY <2>6, <3>2, <4>1, <4>2, <4>3, <4>5
    <3> QED
      BY <3>3, <3>4
  <2> QED
    BY <2>8, <2>16, <2>17, <2>18 DEF Turned
<1> QED
  BY <1>5, <1>6

(* The whole loop.                                                         *)
LEMMA ServeTurns ==
    ASSUME Ready, NEW bits, NEW s, s = Serve(bits)
    PROVE  Turned(s, Len(k.wait[Evt]), set \cup bits)
<1>1. PICK n : n = Len(k.wait[Evt])
  OBVIOUS
<1>2. n \in Nat /\ k.wait[Evt] \in Seq(Thread)
  BY <1>1, ReadyIs
<1>3. PICK f : /\ f[0] = Posted(bits)
               /\ \A i \in 1 .. n : f[i] = Visit(f[i - 1], k.wait[Evt][i])
               /\ f[n] = s
  BY <1>1, <1>2, ServeRuns
<1> DEFINE T == {i \in 0 .. n : ~Turned(f[i], i, set \cup bits)}
<1>4. T = {}
  <2> SUFFICES ASSUME T # {}
               PROVE  FALSE
    OBVIOUS
  <2>1. T \in SUBSET Nat
    BY <1>2
  <2>2. PICK i \in T : \A x \in T : i <= x
    <3> HIDE DEF T
    <3> QED
      BY <2>1, LeastExists
  <2>3. i \in 0 .. n /\ ~Turned(f[i], i, set \cup bits)
    OBVIOUS
  <2>4. i # 0
    BY <1>3, <2>3, TurnStarts
  <2>5. i \in 1 .. n /\ i - 1 \in 0 .. n /\ i - 1 \notin T
    <3>1. i \in 1 .. n /\ i - 1 \in 0 .. n /\ ~(i <= i - 1)
      BY <1>2, <2>3, <2>4
    <3>2. ASSUME i - 1 \in T
          PROVE  i <= i - 1
      <4> HIDE DEF T
      <4> QED
        BY <2>2, <3>2
    <3> HIDE DEF T
    <3> QED
      BY <3>1, <3>2
  <2>6. Turned(f[i - 1], i - 1, set \cup bits)
    BY <2>5
  <2>7. f[i] = Visit(f[i - 1], k.wait[Evt][i])
    BY <1>3, <2>5
  <2>8. Turned(f[i], i, set \cup bits)
    BY <1>1, <2>5, <2>6, <2>7, TurnGoesOn
  <2> QED
    BY <2>3, <2>8
<1>5. n \in 0 .. n
  BY <1>2
<1> QED
  BY <1>1, <1>3, <1>4, <1>5

-----------------------------------------------------------------------------
(* The invariant.  Who waits is inside rt_event_recv with a request and    *)
(* has not been told of an error, and who is suspended there waits.        *)
Calls ==
    \A t \in Thread :
        /\ t \in Waiters => Inside(t) /\ k.error[t] = "OK" /\ info[t] \in Standing
        /\ Inside(t) /\ k.stat[t] = "SUSPEND" => t \in Waiters

EventInv ==
    /\ KernelInv
    /\ set \subseteq Bit
    /\ life \in {"live", "closing", "gone"}
    /\ info \in [Thread -> Standing \cup {NoRequest}]
    /\ NoEventMissed
    /\ Calls

LEMMA WaitersAre ==
    ASSUME KernelInv
    PROVE  /\ k.wait[Evt] \in Seq(Thread) /\ Evt \in Object
           /\ Waiters \subseteq Thread
<1>1. Evt \in Object /\ k \in KernelState
  BY EventAssumption DEF KernelInv, Sound, Linked
<1>2. k.wait[Evt] \in Seq(Thread)
  BY <1>1 DEF KernelState
<1> QED
  BY <1>1, <1>2, RangeOfSeq DEF Waiters, Range

LEMMA ShrinksWaiters ==
    ASSUME KernelInv, KernelInv', Shrinks
    PROVE  Waiters' \subseteq Waiters
<1>1. Evt \in Object /\ Waiters' \subseteq Thread
  <2>1. Evt \in Object /\ k' \in KernelState
    BY EventAssumption DEF KernelInv, Sound, Linked
  <2>2. k'.wait[Evt] \in Seq(Thread)
    BY <2>1 DEF KernelState
  <2> QED
    BY <2>1, <2>2, RangeOfSeq DEF Waiters, Range
<1> QED
  BY <1>1 DEF Shrinks, Waiters

(* What no request can be met by.                                          *)
LEMMA NothingMeets ==
    ASSUME NEW r \in Standing
    PROVE  ~Meets(r, {})
<1>1. r.want # {}
  BY DEF Standing
<1> QED
  BY <1>1 DEF Meets

-----------------------------------------------------------------------------
(* The event as the promise sees it, and what a step does to it.           *)
PhasesStay == \A t \in Thread : PhaseOf(t)' = PhaseOf(t)

Moves(t, to) ==
    /\ PhaseOf(t)' = to
    /\ \A u \in Thread \ {t} : PhaseOf(u)' = PhaseOf(u)

Promised == [Abstract!Next]_<<set, [t \in Thread |-> PhaseOf(t)]>>

LEMMA PhasesStayMaps ==
    ASSUME PhasesStay
    PROVE  UNCHANGED [t \in Thread |-> PhaseOf(t)]
BY DEF PhasesStay

LEMMA StutterMaps == ASSUME PhasesStay, UNCHANGED set PROVE Promised
BY PhasesStayMaps DEF Promised

LEMMA MoveMaps ==
    ASSUME NEW t \in Thread, NEW to, Moves(t, to)
    PROVE  [u \in Thread |-> PhaseOf(u)]' =
              [[u \in Thread |-> PhaseOf(u)] EXCEPT ![t] = to]
BY DEF Moves

LEMMA PhaseIs ==
    ASSUME NEW t \in Thread
    PROVE  /\ t \in Waiters => PhaseOf(t) = <<"asks", info[t]>>
           /\ t \notin Waiters /\ ~Inside(t) => PhaseOf(t) = <<"out">>
           /\ t \notin Waiters /\ Inside(t) =>
                 PhaseOf(t) = IF k.error[t] = "OK" THEN <<"got", info[t].want>>
                              ELSE <<"refused">>
BY DEF PhaseOf, Inside

(* A step that leaves the call of t as it is.                              *)
LEMMA CallStays ==
    ASSUME EventInv, KernelInv', Shrinks, NEW t \in Thread, info'[t] = info[t],
           Inside(t)' <=> Inside(t), Inside(t) => GoesOn(t)
    PROVE  /\ PhaseOf(t)' = PhaseOf(t)
           /\ t \in Waiters' => Inside(t)' /\ k'.error[t] = "OK" /\ info'[t] \in Standing
           /\ Inside(t)' /\ k'.stat[t] = "SUSPEND" => t \in Waiters'
<1>1. Evt \in Object /\ Waiters' \subseteq Waiters
  BY WaitersAre, ShrinksWaiters DEF EventInv
<1>2. CASE Inside(t)
  <2>1. /\ t \in Waiters' <=> t \in Waiters
        /\ k'.error[t] = k.error[t]
        /\ k'.stat[t] = "SUSPEND" => k.stat[t] = "SUSPEND"
    BY <1>1, <1>2 DEF GoesOn, Waiters
  <2> QED
    BY <1>2, <2>1 DEF PhaseOf, Inside, EventInv, Calls
<1>3. CASE ~Inside(t)
  <2>1. t \notin Waiters /\ t \notin Waiters'
    BY <1>1, <1>3 DEF EventInv, Calls
  <2> QED
    BY <1>3, <2>1 DEF PhaseOf, Inside
<1> QED
  BY <1>2, <1>3

(* A step in which nobody starts to wait, no bit is set and no call goes   *)
(* on in another way.                                                      *)
LEMMA NothingNew ==
    ASSUME EventInv, KernelInv', Shrinks, UNCHANGED info,
           set' \in SUBSET set, life' \in {"live", "closing", "gone"},
           \A t \in Thread : Inside(t)' <=> Inside(t),
           \A t \in Thread : Inside(t) => GoesOn(t)
    PROVE  EventInv' /\ PhasesStay
<1>1. Waiters' \subseteq Waiters /\ Waiters \subseteq Thread
  BY WaitersAre, ShrinksWaiters DEF EventInv
<1>2. Calls' /\ PhasesStay
  BY CallStays DEF Calls, PhasesStay
<1>3. \A t \in Waiters' : ~Meets(info'[t], set')
  <2>1. SUFFICES ASSUME NEW t \in Waiters'
                 PROVE  ~Meets(info[t], set')
    OBVIOUS
  <2>2. Meets(info[t], set') => Meets(info[t], set)
    BY MeetsLess
  <2> QED
    BY <1>1, <2>2 DEF EventInv, NoEventMissed
<1> QED
  BY <1>2, <1>3 DEF EventInv, NoEventMissed

(* A step that ends the wait of one thread with an error.                  *)
Fails(h) ==
    /\ h \in Waiters /\ h \notin Waiters'
    /\ k'.stat[h] # "SUSPEND" /\ k'.error[h] # "OK"

LEMMA FailedStep ==
    ASSUME EventInv, KernelInv', Shrinks, NEW h \in Thread, Fails(h),
           UNCHANGED <<info, set, life>>,
           \A t \in Thread : Inside(t)' <=> Inside(t),
           \A t \in Thread \ {h} : Inside(t) => GoesOn(t)
    PROVE  EventInv' /\ Promised
<1>1. Waiters' \subseteq Waiters
  BY ShrinksWaiters DEF EventInv
<1>2. Inside(h)' /\ PhaseOf(h) = <<"asks", info[h]>>
  BY PhaseIs DEF Fails, EventInv, Calls
<1>3. PhaseOf(h)' = <<"refused">>
  BY <1>2 DEF Fails, PhaseOf, Inside
<1>4. Calls' /\ Moves(h, <<"refused">>)
  BY <1>3, CallStays DEF Calls, Fails, Moves
<1>5. NoEventMissed'
  BY <1>1 DEF EventInv, NoEventMissed
<1>6. Abstract!Refuse(h)
  BY <1>2, <1>4, MoveMaps DEF Abstract!Refuse, Abstract!Asking
<1> QED
  BY <1>4, <1>5, <1>6 DEF EventInv, Promised, Abstract!Next

-----------------------------------------------------------------------------
(* The steps.                                                              *)

(* A step of the processor refuses one waiter, or is none of the promise.  *)
LEMMA KernelStepKeeps ==
    ASSUME EventInv, KernelStep
    PROVE  EventInv' /\ Promised
<1>1. KernelInv' /\ Shrinks /\ CallsGoOn
  BY KernelNextKeeps, KernelNextGoesOn DEF EventInv, KernelStep
<1>2. UNCHANGED <<info, set, life>>
  BY DEF KernelStep, eventVars
<1>3. PICK h \in Thread :
         /\ Inside(h) => GoesOn(h) \/ Refused(h)
         /\ \A t \in Thread \ {h} : Inside(t) => GoesOn(t)
  BY <1>1 DEF CallsGoOn
<1>4. \A t \in Thread : Inside(t)' <=> Inside(t)
  BY <1>1 DEF CallsGoOn
<1>5. CASE Inside(h) => GoesOn(h)
  <2>1. \A t \in Thread : Inside(t) => GoesOn(t)
    BY <1>3, <1>5
  <2>2. set' \in SUBSET set /\ life' \in {"live", "closing", "gone"}
    BY <1>2 DEF EventInv
  <2>3. EventInv' /\ PhasesStay
    BY <1>1, <1>2, <1>4, <2>1, <2>2, NothingNew
  <2> QED
    BY <1>2, <2>3, StutterMaps
<1>6. CASE Inside(h) /\ Refused(h)
  <2>1. Evt \in Object
    BY EventAssumption
  <2>2. Fails(h)
    BY <1>6, <2>1 DEF Refused, Fails, EventInv, Calls, Waiters
  <2> QED
    BY <1>1, <1>2, <1>3, <1>4, <2>2, FailedStep
<1> QED
  BY <1>3, <1>5, <1>6

(* A step of a thread outside rt_event_recv moves nobody in or out of it.  *)
LEMMA OutsideGoto ==
    ASSUME KernelInv, NEW t \in Thread, pc[t] \notin {"wait", "woken"},
           NEW loc \in Location \ {"wait", "woken"}, Goto(t, loc) \/ UNCHANGED pc
    PROVE  \A u \in Thread : Inside(u)' <=> Inside(u)
<1>1. CASE Goto(t, loc)
  BY <1>1, GotoInside DEF KernelInv, Inside
<1>2. CASE UNCHANGED pc
  BY <1>2 DEF Inside
<1> QED
  BY <1>1, <1>2

(* The calls that neither wait nor wake a thread, except the return of a   *)
(* rt_event_recv that has waited.                                          *)
Quiet(t) ==
    \/ ResetBegin(t) \/ ResetEnd(t)
    \/ DetachBegin(t) \/ DetachTest(t) \/ DetachHalt(t)
    \/ DetachEnd(t) \/ EventInit(t)

LEMMA QuietKeeps ==
    ASSUME EventInv, NEW t \in Worker, Quiet(t)
    PROVE  EventInv' /\ Promised
<1>1. KernelInv /\ t \in Thread /\ irq \in {"on", "off", "tick"}
  BY DEF EventInv, Worker, KernelInv
<1>2. k.cur = t /\ k.stat[t] = "RUNNING"
  <2>1. CASE ResetEnd(t)
    BY <1>1, <2>1 DEF ResetEnd, InReset, KernelInv, PcAgrees, Sound, OneRuns
  <2>2. CASE ~ResetEnd(t)
    <3>1. PICK loc \in {"run", "detach", "dequeue"} : At(t, loc)
      BY <2>2 DEF Quiet, ResetBegin, DetachBegin, DetachTest, DetachHalt,
                  DetachEnd, EventInit
    <3> QED
      BY <1>1, <3>1, AtRuns
  <2> QED
    BY <2>1, <2>2
<1>3. /\ UNCHANGED <<k, info>> /\ irq' \in {"on", "off", "tick"}
      /\ pc[t] \notin {"wait", "woken"}
      /\ \E loc \in Location \ {"wait", "woken"} : Goto(t, loc) \/ UNCHANGED pc
  BY <1>1 DEF Quiet, ResetBegin, ResetEnd, InReset, DetachBegin, DetachTest,
              DetachHalt, DetachEnd, EventInit, kernelVars, eventVars, Location, At
<1>4. PICK loc \in Location \ {"wait", "woken"} : Goto(t, loc) \/ UNCHANGED pc
  BY <1>3
<1>5. Wakes(k, k')
  BY <1>1, <1>3, WakesNone DEF KernelInv
<1>6. KernelInv' /\ Shrinks
  <2>1. CASE Goto(t, loc)
    BY <1>1, <1>2, <1>3, <1>5, <2>1, RunningStep
  <2>2. CASE UNCHANGED pc
    BY <1>1, <1>3, <1>5, <2>2, WakeStep
  <2> QED
    BY <1>4, <2>1, <2>2
<1>7. \A u \in Thread : Inside(u)' <=> Inside(u)
  BY <1>1, <1>3, <1>4, OutsideGoto
<1>8. \A u \in Thread : GoesOn(u)
  BY <1>3 DEF GoesOn
<1>9. set' = set \/ set' = {}
  BY DEF Quiet, ResetBegin, ResetEnd, DetachBegin, DetachTest,
         DetachHalt, DetachEnd, EventInit, eventVars
<1>10. set' \in SUBSET set /\ life' \in {"live", "closing", "gone"}
  BY <1>9 DEF EventInv, Quiet, ResetBegin, ResetEnd, DetachBegin, DetachTest,
              DetachHalt, DetachEnd, EventInit, eventVars
<1>11. EventInv' /\ PhasesStay
  BY <1>3, <1>6, <1>7, <1>8, <1>10, NothingNew
<1>12. Promised
  <2>1. CASE set' = set
    BY <1>11, <2>1, StutterMaps
  <2>2. CASE set' = {}
    BY <1>11, <2>2, PhasesStayMaps DEF Promised, Abstract!Next, Abstract!Clear
  <2> QED
    BY <1>9, <2>1, <2>2
<1> QED
  BY <1>11, <1>12

(* A call that need not wait: its result goes to thread->error.            *)
LEMMA RecvAtOnceKeeps ==
    ASSUME EventInv, NEW t \in Worker, NEW r \in Requests,
           RecvNow(t, r) \/ RecvRefused(t, r)
    PROVE  EventInv' /\ Promised
<1>1. KernelInv /\ Sound(k) /\ k \in KernelState /\ t \in Thread
      /\ irq \in {"on", "off", "tick"}
  BY DEF EventInv, Worker, KernelInv, Sound, Linked
<1>2. PICK e \in {"OK", "TIMEOUT"} : k' = [k EXCEPT !.error[t] = e]
  BY DEF RecvNow, RecvRefused
<1>3. /\ At(t, "run") /\ UNCHANGED <<pc, irq, life, info>>
  BY DEF RecvNow, RecvRefused, eventVars
<1>4. /\ k' \in KernelState
      /\ k'.cur = k.cur /\ k'.stat = k.stat /\ k'.prio = k.prio
      /\ k'.mask = k.mask /\ k'.ready = k.ready /\ k'.group = k.group
      /\ k'.wait = k.wait /\ k'.timers = k.timers /\ k'.lock = k.lock
      /\ \A u \in Thread \ {t} : k'.error[u] = k.error[u]
  BY <1>1, <1>2 DEF KernelState, Error
<1>5. Wakes(k, k')
  BY <1>1, <1>4, PlainUpdate
<1>6. KernelInv' /\ Shrinks
  BY <1>1, <1>3, <1>5, WakeStep
<1>7. ~Inside(t) /\ \A u \in Thread : Inside(u)' <=> Inside(u)
  BY <1>3 DEF Inside, At
<1>8. \A u \in Thread : Inside(u) => GoesOn(u)
  BY <1>4, <1>7 DEF GoesOn
<1>9. set' \in SUBSET set /\ life' \in {"live", "closing", "gone"}
  BY <1>3 DEF EventInv, RecvNow, RecvRefused, eventVars
<1>10. EventInv' /\ PhasesStay
  BY <1>3, <1>6, <1>7, <1>8, <1>9, NothingNew
<1>11. CASE RecvNow(t, r)
  <2>1. r \in Abstract!Request /\ Abstract!Meets(r, set)
    <3>1. Meets(r, set)
      BY <1>11 DEF RecvNow
    <3> QED
      BY <3>1, EventAssumption DEF Meets, Abstract!Meets, Abstract!Request
  <2>2. set' = IF r.clear THEN set \ r.want ELSE set
    BY <1>11 DEF RecvNow
  <2>3. Abstract!Receive
    BY <1>10, <2>1, <2>2, PhasesStayMaps DEF Abstract!Receive
  <2> QED
    BY <1>10, <2>3 DEF Promised, Abstract!Next
<1>12. CASE RecvRefused(t, r)
  BY <1>10, <1>12, StutterMaps DEF RecvRefused, eventVars
<1> QED
  BY <1>11, <1>12

(* A turn of rt_ipc_list_resume_all refuses the first waiter.              *)
LEMMA AbortKeeps ==
    ASSUME EventInv, NEW t \in Worker, ResetWake(t) \/ DetachWake(t)
    PROVE  EventInv' /\ Promised
<1>1. /\ KernelInv /\ Sound(k) /\ t \in Thread /\ irq \in {"on", "off", "tick"}
      /\ Evt \in Object
  BY EventAssumption DEF EventInv, Worker, KernelInv
<1>2. /\ k' = IpcListAbort(k, Evt) /\ Waiters # {}
      /\ UNCHANGED <<info, set, life>> /\ irq' \in {"on", "off", "tick"}
  BY <1>1 DEF ResetWake, DetachWake, eventVars
<1>3. k.wait[Evt] # <<>>
  BY <1>2 DEF Waiters, Range
<1>4. PICK h : h = Head(k.wait[Evt])
  OBVIOUS
<1>5. Frees(k, k', h) /\ k'.error = [k.error EXCEPT ![h] = "ERROR"]
  BY <1>1, <1>2, <1>3, <1>4, HeadAborted
<1>6. h \in Thread /\ h \in Waiters
  BY <1>1, <1>3, <1>4, HeadIsWaiting DEF Waiters
<1>7. k.error \in [Thread -> Error]
  BY <1>1 DEF Sound, Linked, KernelState
<1>8. k'.error[h] = "ERROR" /\ \A u \in Thread \ {h} : k'.error[u] = k.error[u]
  BY <1>5, <1>6, <1>7
<1>9. /\ pc[t] \notin {"wait", "woken"}
      /\ \E loc \in Location \ {"wait", "woken"} : Goto(t, loc) \/ UNCHANGED pc
  BY DEF ResetWake, InReset, DetachWake, At, Location
<1>10. KernelInv' /\ Shrinks
  <2>1. CASE ResetWake(t)
    <3>1. UNCHANGED pc
      BY <2>1 DEF ResetWake
    <3> QED
      BY <1>1, <1>2, <1>5, <3>1, WakeStep DEF Frees
  <2>2. CASE DetachWake(t)
    <3>1. At(t, "dequeue") /\ Goto(t, "detach") /\ "detach" \in Location
      BY <2>2 DEF DetachWake, Location
    <3>2. k.cur = t /\ k.stat[t] = "RUNNING"
      BY <1>1, <3>1, AtRuns
    <3> QED
      BY <1>1, <1>2, <1>5, <3>1, <3>2, RunningStep DEF Frees
  <2> QED
    BY <2>1, <2>2
<1>11. \A u \in Thread : Inside(u)' <=> Inside(u)
  BY <1>1, <1>9, OutsideGoto
<1>12. Fails(h)
  BY <1>1, <1>5, <1>6, <1>8 DEF Fails, Frees, Waiters
<1>13. \A u \in Thread \ {h} : GoesOn(u)
  BY <1>5, <1>8 DEF GoesOn, Frees, Wakes
<1> QED
  BY <1>2, <1>6, <1>10, <1>11, <1>12, <1>13, FailedStep

(* A request that is not met waits.                                        *)
LEMMA RecvBlocksKeeps ==
    ASSUME EventInv, NEW t \in Worker, NEW r \in Requests, RecvBlocks(t, r)
    PROVE  EventInv' /\ Promised
<1>1. PICK time \in WaitTimes \ {0} : k' = Block(k, Evt, t, EventFlag, time)
  BY DEF RecvBlocks
<1>2. /\ At(t, "run") /\ k.lock = 0 /\ Goto(t, "wait") /\ ~Meets(r, set)
      /\ info' = [info EXCEPT ![t] = r] /\ UNCHANGED <<irq, set, life>>
  BY DEF RecvBlocks, MayBlock
<1>3. /\ KernelInv /\ Sound(k) /\ k.error \in [Thread -> Error]
      /\ k.stat \in [Thread -> Stat] /\ pc \in [Thread -> Location]
      /\ t \in Thread /\ t # Idle /\ time \in Int /\ Evt \in Object
      /\ r \in Standing
  BY EventAssumption
     DEF EventInv, KernelInv, Worker, Sound, Linked, KernelState, Standing
<1>4. k.cur = t /\ k.stat[t] = "RUNNING"
  BY <1>2, <1>3, AtRuns
<1>5. Blocked(k, k', t, Evt)
  BY <1>1, <1>2, <1>3, <1>4, BlockGives
<1>6. KernelInv'
  BY <1>2, <1>3, <1>4, <1>5, SuspendingStep DEF Blocked
<1>7. /\ k'.stat = [k.stat EXCEPT ![t] = "SUSPEND"]
      /\ k'.error = [k.error EXCEPT ![t] = "OK"]
      /\ Waiters' = Waiters \cup {t}
  BY <1>3, <1>5 DEF Blocked, Waiters
<1>8. info' \in [Thread -> Standing \cup {NoRequest}]
  BY <1>2, <1>3 DEF EventInv
<1>9. /\ t \in Waiters' /\ k'.error[t] = "OK" /\ Inside(t)' /\ pc[t] = "run"
      /\ info'[t] = r
      /\ \A u \in Thread \ {t} :
            /\ u \in Waiters' <=> u \in Waiters
            /\ k'.error[u] = k.error[u] /\ k'.stat[u] = k.stat[u]
            /\ pc'[u] = pc[u] /\ info'[u] = info[u]
  BY <1>2, <1>3, <1>7 DEF Goto, Inside, At, EventInv
<1>10. Calls'
  BY <1>3, <1>9 DEF EventInv, Calls, Inside
<1>11. NoEventMissed'
  <2>1. Waiters \subseteq Thread
    BY <1>3, WaitersAre
  <2> QED
    BY <1>2, <1>7, <1>9, <2>1 DEF EventInv, NoEventMissed
<1>12. \A u \in Thread \ {t} : PhaseOf(u)' = PhaseOf(u)
  BY <1>9 DEF PhaseOf
<1>13. PhaseOf(t) = <<"out">> /\ PhaseOf(t)' = <<"asks", r>>
  <2>1. t \notin Waiters /\ ~Inside(t)
    BY <1>3, <1>9 DEF EventInv, Calls, Inside
  <2> QED
    BY <1>9, <2>1 DEF PhaseOf, Inside
<1>14. Abstract!Ask(t)
  <2>1. Moves(t, <<"asks", r>>)
    BY <1>12, <1>13 DEF Moves
  <2>2. r \in Abstract!Request /\ ~Abstract!Meets(r, set)
    BY <1>2, <1>3 DEF Standing, Abstract!Request, Meets, Abstract!Meets
  <2> QED
    BY <1>2, <1>3, <1>13, <2>1, <2>2, MoveMaps DEF Abstract!Ask
<1> QED
  BY <1>2, <1>3, <1>6, <1>8, <1>10, <1>11, <1>14 DEF EventInv, Promised, Abstract!Next

(* The return of rt_event_recv is the return of the promise.               *)
LEMMA RecvReturnsKeeps ==
    ASSUME EventInv, NEW t \in Worker, RecvReturns(t)
    PROVE  EventInv' /\ Promised
<1>1. /\ At(t, "woken") /\ Goto(t, "run")
      /\ info' = [info EXCEPT ![t] = NoRequest] /\ UNCHANGED <<k, irq, set, life>>
  BY DEF RecvReturns
<1>2. /\ t \in Thread /\ KernelInv /\ pc \in [Thread -> Location]
      /\ Evt \in Object /\ "run" \in Location /\ irq \in {"on", "off", "tick"}
  BY EventAssumption DEF EventInv, KernelInv, Worker, Location
<1>3. k.cur = t /\ k.stat[t] = "RUNNING"
  BY <1>1, <1>2, AtRuns
<1>4. t \notin Waiters /\ Inside(t)
  BY <1>1, <1>2, <1>3
     DEF KernelInv, Sound, Linked, WaitersSuspended, Waiters, At, Inside
<1>5. KernelInv'
  <2>1. Wakes(k, k') /\ irq' \in {"on", "off", "tick"}
    BY <1>1, <1>2, WakesNone DEF KernelInv
  <2> QED
    BY <1>1, <1>2, <1>3, <2>1, RunningStep
<1>6. /\ Waiters' = Waiters /\ pc'[t] = "run"
      /\ \A u \in Thread \ {t} : pc'[u] = pc[u] /\ info'[u] = info[u]
      /\ info' \in [Thread -> Standing \cup {NoRequest}]
  BY <1>1, <1>2 DEF Waiters, Goto, EventInv
<1>7. Calls'
  BY <1>1, <1>4, <1>6 DEF EventInv, Calls, Inside
<1>8. NoEventMissed'
  BY <1>1, <1>2, <1>4, <1>6, WaitersAre DEF EventInv, NoEventMissed
<1>9. PhaseOf(t)[1] \in {"got", "refused"}
  <2>1. PhaseOf(t) = <<"got", info[t].want>> \/ PhaseOf(t) = <<"refused">>
    BY <1>2, <1>4, PhaseIs
  <2> QED
    BY <2>1
<1>10. Moves(t, <<"out">>)
  BY <1>1, <1>4, <1>6 DEF Moves, PhaseOf
<1>11. Abstract!Return(t)
  BY <1>1, <1>2, <1>9, <1>10, MoveMaps DEF Abstract!Return
<1> QED
  BY <1>1, <1>2, <1>5, <1>6, <1>7, <1>8, <1>11 DEF EventInv, Promised, Abstract!Next

-----------------------------------------------------------------------------
(* rt_event_send.                                                          *)

LEMMA EventReady ==
    ASSUME EventInv
    PROVE  Ready
BY WaitersAre DEF EventInv, Ready, Calls, KernelInv

(* The loop has ended in s, and rt_schedule has run if a handler sends.    *)
Sends(s, posted) ==
    /\ posted \subseteq Bit
    /\ Turned(s, Len(k.wait[Evt]), set \cup posted)
    /\ Wakes(k, k') /\ k'.error = k.error
    /\ Range(k'.wait[Evt]) = Range(s.k.wait[Evt])
    /\ \A t \in Done(s) : k'.stat[t] # "SUSPEND"
    /\ set' = s.set /\ info' = s.info /\ life' = life
    /\ KernelInv' /\ Shrinks
    /\ \A t \in Thread : Inside(t)' <=> Inside(t)

(* What the threads that are woken find, and the others.                   *)
LEMMA SendsGives ==
    ASSUME EventInv, NEW s, NEW posted, Sends(s, posted)
    PROVE  /\ Waiters' = Waiters \ Done(s) /\ Done(s) \subseteq Waiters
           /\ Waiters \subseteq Thread
           /\ \A t \in Thread \ Done(s) : GoesOn(t) /\ info'[t] = info[t]
           /\ \A t \in Waiters' : ~Meets(info[t], set')
           /\ set' \subseteq Bit
<1>1. Waiters \subseteq Thread /\ k.wait[Evt] \in Seq(Thread)
  BY WaitersAre DEF EventInv
<1>2. Waiters' = Waiters \ Done(s) /\ Done(s) \subseteq Waiters
  BY DEF Sends, Turned, Resumed, Done, Waiters
<1>3. \A o \in Object : o = Evt
  BY EventAssumption
<1>4. ASSUME NEW t \in Thread \ Done(s)
      PROVE  GoesOn(t) /\ info'[t] = info[t]
  <2>1. info'[t] = info[t]
    BY DEF Sends, Turned, Given
  <2>2. t \in Waiters' <=> t \in Waiters
    BY <1>2
  <2> QED
    BY <1>3, <2>1, <2>2 DEF Sends, Wakes, GoesOn, Waiters
<1>5. ASSUME NEW t \in Waiters'
      PROVE  ~Meets(info[t], set')
  <2>1. t \in Waiters /\ t \in Range(s.k.wait[Evt])
    BY <1>2 DEF Sends, Waiters
  <2>2. PICK j \in 1 .. Len(k.wait[Evt]) : k.wait[Evt][j] = t
    BY <1>1, <2>1, RangeIs DEF Waiters
  <2>3. j <= Len(k.wait[Evt])
    BY <1>1, LenProperties
  <2> QED
    BY <2>1, <2>2, <2>3 DEF Sends, Turned, Passed
<1>6. set' \subseteq Bit
  BY DEF Sends, Turned, Cleared, EventInv
<1> QED
  BY <1>1, <1>2, <1>4, <1>5, <1>6

LEMMA SendsKeeps ==
    ASSUME EventInv, NEW s, NEW posted, Sends(s, posted)
    PROVE  /\ EventInv'
           /\ \A t \in Done(s) : /\ PhaseOf(t) = <<"asks", info[t]>>
                                 /\ PhaseOf(t)' = <<"got", info'[t].want>>
           /\ \A t \in Thread \ Done(s) : PhaseOf(t)' = PhaseOf(t)
<1>1. /\ Waiters' = Waiters \ Done(s) /\ Done(s) \subseteq Waiters
      /\ Waiters \subseteq Thread
      /\ \A t \in Thread \ Done(s) : GoesOn(t) /\ info'[t] = info[t]
      /\ \A t \in Waiters' : ~Meets(info[t], set')
      /\ set' \subseteq Bit
  BY SendsGives
<1>2. /\ KernelInv' /\ Shrinks /\ k'.error = k.error
      /\ \A t \in Done(s) : k'.stat[t] # "SUSPEND"
      /\ \A t \in Thread : Inside(t)' <=> Inside(t)
      /\ life' = life
  BY DEF Sends
<1>3. info' \in [Thread -> Standing \cup {NoRequest}]
  BY DEF Sends, Turned, Given
<1>4. ASSUME NEW t \in Done(s)
      PROVE  /\ t \in Waiters /\ t \notin Waiters' /\ Inside(t)' /\ k'.error[t] = "OK"
             /\ k'.stat[t] # "SUSPEND"
  BY <1>1, <1>2 DEF EventInv, Calls
<1>5. \A t \in Done(s) : PhaseOf(t) = <<"asks", info[t]>>
                         /\ PhaseOf(t)' = <<"got", info'[t].want>>
  BY <1>4 DEF PhaseOf, Inside
<1>6. ASSUME NEW t \in Thread \ Done(s)
      PROVE  /\ PhaseOf(t)' = PhaseOf(t)
             /\ t \in Waiters' => Inside(t)' /\ k'.error[t] = "OK" /\ info'[t] \in Standing
             /\ Inside(t)' /\ k'.stat[t] = "SUSPEND" => t \in Waiters'
  BY <1>1, <1>2, CallStays
<1>7. Calls'
  BY <1>4, <1>6 DEF Calls
<1>8. NoEventMissed'
  BY <1>1 DEF NoEventMissed
<1> QED
  BY <1>1, <1>2, <1>3, <1>5, <1>6, <1>7, <1>8 DEF EventInv

(* The loop as a step of the promise.                                      *)
LEMMA SendsMaps ==
    ASSUME EventInv, NEW s, NEW posted, Sends(s, posted)
    PROVE  Promised
<1> DEFINE phase == [t \in Thread |-> PhaseOf(t)]
<1>1. /\ Waiters' = Waiters \ Done(s) /\ Done(s) \subseteq Thread
      /\ \A t \in Waiters' : ~Meets(info[t], set')
  BY SendsGives
<1>2. /\ \A t \in Done(s) : /\ PhaseOf(t) = <<"asks", info[t]>>
                            /\ PhaseOf(t)' = <<"got", info'[t].want>>
      /\ \A t \in Thread \ Done(s) : PhaseOf(t)' = PhaseOf(t)
  BY SendsKeeps
<1>3. /\ \A t \in Done(s) : /\ phase[t] = <<"asks", info[t]>>
                            /\ phase'[t] = <<"got", info'[t].want>>
      /\ \A t \in Thread \ Done(s) : phase'[t] = phase[t]
  BY <1>1, <1>2
<1>4. \A t \in Thread \ Done(s) : phase[t][1] = "asks" =>
         t \in Waiters' /\ phase[t] = <<"asks", info[t]>>
  <2>1. SUFFICES ASSUME NEW t \in Thread \ Done(s), phase[t][1] = "asks"
                 PROVE  t \in Waiters' /\ phase[t] = <<"asks", info[t]>>
    OBVIOUS
  <2>2. phase[t] = PhaseOf(t)
    OBVIOUS
  <2>3. t \in Waiters
    <3>1. t \notin Waiters => PhaseOf(t)[1] # "asks"
      BY DEF PhaseOf
    <3> QED
      BY <2>1, <2>2, <3>1
  <2> QED
    BY <1>1, <2>2, <2>3, PhaseIs
<1>5. /\ \A t \in Done(s) :
            /\ info'[t].want \subseteq (set \cup posted) \cap info[t].want
            /\ Meets(info[t], info'[t].want)
      /\ \A x : x \in set' <=>
            x \in set \cup posted /\ \A t \in Thread : Takes(s, t) => x \notin info'[t].want
      /\ \A t, u \in Thread : Takes(s, t) /\ Takes(s, u) /\ t # u =>
            info'[t].want \cap info'[u].want = {}
  BY DEF Sends, Turned, Given, Cleared
<1> HIDE DEF phase
<1> DEFINE served == {c \in Thread : phase[c][1] = "asks" /\ phase'[c] # phase[c]}
           taken  == {c \in served : phase[c][2].clear}
<1>6. served = Done(s)
  <2>1. \A c \in Done(s) : c \in Thread /\ phase[c][1] = "asks" /\ phase'[c] # phase[c]
    <3>1. \A c \in Done(s) : phase[c][1] = "asks" /\ phase'[c][1] = "got"
      BY <1>3
    <3> QED
      BY <1>1, <3>1
  <2> QED
    BY <1>3, <2>1
<1>7. taken = {c \in Thread : Takes(s, c)}
  BY <1>1, <1>3, <1>6 DEF Takes
<1>8. /\ \A c \in Done(s) : /\ phase'[c][1] = "got"
                            /\ phase'[c][2] \subseteq
                                  (set \cup posted) \cap phase[c][2].want
                            /\ Abstract!Meets(phase[c][2], phase'[c][2])
      /\ \A c, d \in taken :
            c # d => phase'[c][2] \cap phase'[d][2] = {}
  <2>1. \A c \in Done(s) : /\ phase[c][2] = info[c] /\ phase'[c][1] = "got"
                           /\ phase'[c][2] = info'[c].want
    BY <1>3
  <2>2. \A c \in Thread : Takes(s, c) => c \in Done(s)
    BY DEF Takes
  <2>3. \A c \in Done(s) : Abstract!Meets(phase[c][2], phase'[c][2])
    BY <1>5, <2>1 DEF Meets, Abstract!Meets
  <2> QED
    BY <1>5, <1>7, <2>1, <2>2, <2>3
<1>9. set' = (set \cup posted) \ UNION {phase'[c][2] : c \in taken}
  <2>1. \A c \in Thread : Takes(s, c) => phase'[c][2] = info'[c].want
    BY <1>3 DEF Takes
  <2> QED
    BY <1>5, <1>7, <2>1
<1>10. \A c \in Thread \ Done(s) :
         phase[c][1] = "asks" => ~Abstract!Meets(phase[c][2], set')
  <2>1. SUFFICES ASSUME NEW c \in Thread \ Done(s), phase[c][1] = "asks"
                 PROVE  ~Abstract!Meets(phase[c][2], set')
    OBVIOUS
  <2>2. c \in Waiters' /\ phase[c][2] = info[c]
    BY <1>4, <2>1
  <2>3. ~Meets(info[c], set')
    BY <1>1, <2>2
  <2> QED
    BY <2>2, <2>3 DEF Meets, Abstract!Meets
<1>11. /\ \A c \in Thread \ served : phase'[c] = phase[c]
       /\ \A c \in served : /\ phase'[c][1] = "got"
                            /\ phase'[c][2] \subseteq
                                  (set \cup posted) \cap phase[c][2].want
                            /\ Abstract!Meets(phase[c][2], phase'[c][2])
       /\ \A c, d \in taken : c # d => phase'[c][2] \cap phase'[d][2] = {}
       /\ set' = (set \cup posted) \ UNION {phase'[c][2] : c \in taken}
       /\ \A c \in Thread \ served :
             phase[c][1] = "asks" => ~Abstract!Meets(phase[c][2], set')
  <2> HIDE DEF served, taken
  <2> QED
    BY <1>3, <1>6, <1>8, <1>9, <1>10
<1>12. Abstract!Post(posted)
  BY <1>11 DEF phase, Abstract!Post, Abstract!Asking
<1> QED
  BY <1>12 DEF Promised, Abstract!Next, Sends

LEMMA SendKeeps ==
    ASSUME EventInv, NEW posted \in Posts,
           (\E t \in Worker : Send(t, posted)) \/ IsrSend(posted)
    PROVE  EventInv' /\ Promised
<1>1. /\ KernelInv /\ Sound(k) /\ irq \in {"on", "off", "tick"} /\ posted \subseteq Bit
  BY DEF EventInv, KernelInv, Posts
<1>2. PICK s : s = Serve(posted)
  OBVIOUS
<1>3. Turned(s, Len(k.wait[Evt]), set \cup posted)
  BY <1>2, EventReady, ServeTurns
<1>4. /\ Wakes(k, s.k) /\ s.k.error = k.error
      /\ \A t \in Done(s) : s.k.stat[t] # "SUSPEND"
  BY <1>3 DEF Turned, Resumed
<1>5. /\ k' = s.k \/ k' = Schedule(s.k)
      /\ set' = s.set /\ info' = s.info /\ life' = life
      /\ irq' \in {"on", "off", "tick"}
  BY <1>1, <1>2 DEF Send, IsrSend
<1>6. /\ Wakes(k, k') /\ k'.error = k.error
      /\ Range(k'.wait[Evt]) = Range(s.k.wait[Evt])
      /\ \A t \in Done(s) : k'.stat[t] # "SUSPEND"
  <2>1. Sound(s.k) /\ Evt \in Object /\ Done(s) \subseteq Thread
    BY <1>1, <1>4, WaitersAre DEF Wakes, Done
  <2>2. Wakes(s.k, Schedule(s.k)) /\ Calm(s.k, Schedule(s.k))
    BY <2>1, ScheduleWakes, ScheduleCalm
  <2>3. Wakes(k, Schedule(s.k))
    BY <1>4, <2>2, WakesTransitive
  <2>4. CASE k' = s.k
    BY <1>4, <2>4
  <2>5. CASE k' = Schedule(s.k)
    BY <1>4, <2>1, <2>2, <2>3, <2>5 DEF Calm, Wakes
  <2> QED
    BY <1>5, <2>4, <2>5
<1>7. KernelInv' /\ Shrinks /\ \A t \in Thread : Inside(t)' <=> Inside(t)
  <2>1. CASE UNCHANGED pc
    BY <1>1, <1>5, <1>6, <2>1, WakeStep DEF Inside
  <2>2. ASSUME NEW t \in Worker, Send(t, posted), Goto(t, "sched")
        PROVE  KernelInv' /\ Shrinks /\ \A u \in Thread : Inside(u)' <=> Inside(u)
    <3>1. /\ t \in Thread /\ At(t, "run") /\ "sched" \in Location \ {"wait", "woken"}
          /\ pc[t] \notin {"wait", "woken"}
      BY <2>2 DEF Send, Worker, Location, At
    <3>2. k.cur = t /\ k.stat[t] = "RUNNING"
      BY <1>1, <3>1, AtRuns
    <3>3. KernelInv' /\ Shrinks
      BY <1>1, <1>5, <1>6, <2>2, <3>1, <3>2, RunningStep
    <3>4. \A u \in Thread : Inside(u)' <=> Inside(u)
      BY <1>1, <2>2, <3>1, OutsideGoto
    <3> QED
      BY <3>3, <3>4
  <2> QED
    BY <2>1, <2>2 DEF Send, IsrSend
<1>8. Sends(s, posted)
  BY <1>1, <1>3, <1>5, <1>6, <1>7 DEF Sends
<1> QED
  BY <1>8, SendsKeeps, SendsMaps

-----------------------------------------------------------------------------
LEMMA InitMaps ==
    ASSUME Init
    PROVE  EventInv /\ Abstract!Init
<1>1. KernelInv /\ k.wait[Evt] = <<>>
  BY KernelInitInv, EventAssumption DEF Init
<1>2. Waiters = {}
  BY <1>1 DEF Waiters, Range
<1>3. \A t \in Thread : ~Inside(t)
  BY DEF Init, KernelInit, Inside
<1>4. Calls /\ NoEventMissed
  BY <1>2, <1>3 DEF Calls, NoEventMissed
<1>5. info \in [Thread -> Standing \cup {NoRequest}]
  BY DEF Init
<1>6. \A t \in Thread : PhaseOf(t) = <<"out">>
  BY <1>2, <1>3, PhaseIs
<1> QED
  BY <1>1, <1>4, <1>5, <1>6 DEF EventInv, Init, Abstract!Init

LEMMA StepMaps ==
    ASSUME EventInv, [Next]_vars
    PROVE  EventInv' /\ Promised
<1>1. ASSUME UNCHANGED vars
      PROVE  EventInv' /\ Promised
  <2>1. UNCHANGED <<k, pc, irq, set, life, info>>
    BY <1>1 DEF vars, kernelVars, eventVars
  <2>2. EventInv' /\ PhasesStay
    BY <2>1 DEF EventInv, KernelInv, PcAgrees, NoneStranded, NoEventMissed, Calls,
                Waiters, Inside, PhasesStay, PhaseOf
  <2> QED
    BY <2>1, <2>2, StutterMaps
<1>2. CASE KernelStep
  BY <1>2, KernelStepKeeps
<1>3. CASE HandlerStep
  BY <1>3, SendKeeps DEF HandlerStep
<1>4. ASSUME NEW t \in Worker, EventStep(t)
      PROVE  EventInv' /\ Promised
  <2>1. ASSUME NEW posted \in Posts, Send(t, posted)
        PROVE  EventInv' /\ Promised
    BY <2>1, SendKeeps
  <2>2. ASSUME NEW r \in Requests, RecvNow(t, r) \/ RecvRefused(t, r)
        PROVE  EventInv' /\ Promised
    BY <2>2, RecvAtOnceKeeps
  <2>3. ASSUME NEW r \in Requests, RecvBlocks(t, r)
        PROVE  EventInv' /\ Promised
    BY <2>3, RecvBlocksKeeps
  <2>4. CASE RecvReturns(t)
    BY <2>4, RecvReturnsKeeps
  <2>5. CASE ResetWake(t) \/ DetachWake(t)
    BY <2>5, AbortKeeps
  <2>6. CASE Quiet(t)
    BY <2>6, QuietKeeps
  <2>7. CASE Halted(t)
    BY <1>1, <2>7 DEF Halted
  <2> QED
    BY <1>4, <2>1, <2>2, <2>3, <2>4, <2>5, <2>6, <2>7 DEF EventStep, Quiet
<1> QED
  BY <1>1, <1>2, <1>3, <1>4 DEF Next

-----------------------------------------------------------------------------
(* The invariant holds in every reachable state: of the kernel operations, *)
(* and of rt_event_send, rt_event_recv, the reset and the detach.          *)
THEOREM InductiveInvariant == Spec => []EventInv
<1>1. Init => EventInv
  BY InitMaps
<1>2. EventInv /\ [Next]_vars => EventInv'
  BY StepMaps
<1> QED
  BY <1>1, <1>2, PTL DEF Spec

(* Every variable keeps its type: event->set holds bits of the event, and  *)
(* a thread inside rt_event_recv has a request, or the bits received, that *)
(* are never the empty set (rt_event_send, rt_event_recv).                 *)
THEOREM TypeCorrect == Spec => []TypeOK
<1>1. EventInv => TypeOK
  BY KernelInvGives DEF EventInv, TypeOK
<1> QED
  BY <1>1, InductiveInvariant, PTL

(* No lost event: no thread waits in rt_event_recv for what the set        *)
(* already holds, whatever the loop of rt_event_send has given to the      *)
(* waiters before it, and whatever timeouts and resets have come between.  *)
THEOREM NoEventLost == Spec => []NoEventMissed
<1>1. EventInv => NoEventMissed
  BY DEF EventInv
<1> QED
  BY <1>1, InductiveInvariant, PTL

(* rt_event_send, rt_event_recv, the reset and the detach implement the    *)
(* promise of an event: the loop over the suspend list is one post, by     *)
(* which each thread woken has bits that meet its request, each bit        *)
(* cleared has gone to exactly one of those that clear it, and no request  *)
(* left waiting can be met; only a thread that still waits is refused.     *)
THEOREM EventRefines == Spec => ImplementsEvent
<1>1. Init => EventInv /\ Abstract!Init
  BY InitMaps
<1>2. EventInv /\ [Next]_vars => EventInv' /\ Promised
  BY StepMaps
<1> QED
  BY <1>1, <1>2, PTL DEF Spec, ImplementsEvent, Abstract!Spec, Promised
=============================================================================
