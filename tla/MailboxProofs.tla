--------------------------- MODULE MailboxProofs ---------------------------
(***************************************************************************)
(* The mailbox of module Mailbox, for every set of threads, every          *)
(* assignment of priorities and time slices, every size and both kinds of  *)
(* suspend list: the safety invariants that its run checks.                *)
(***************************************************************************)
EXTENDS Mailbox, ProcessorProofs

(* The list that the call of t waits in.                                   *)
InList(t) ==
    CASE call[t].op = "recv" -> {Receivers}
      [] call[t].op = "send" -> {Senders}
      [] OTHER               -> {}

Lists == [t \in Thread |-> InList(t)]

(* What the waiters of o wait for: the mails, or the free slots.           *)
Amount(o) == IF o = Receivers THEN entry ELSE Size - entry

CallRecord == [op : {"none", "send", "recv"},
               mail : Mail \cup {"none"},
               time : WaitTimes \cup Tick,
               start : Tick, deadline : Tick]

(* The ring: in_offset is entry slots behind out_offset.                   *)
BoxOK ==
    /\ pool \in [Slot -> Mail \cup {"none"}]
    /\ in \in Slot /\ out \in Slot
    /\ entry \in 0 .. Size
    /\ in = (out + entry) % Size

(* The time that is left from start on ends at the deadline, and the timer *)
(* of a call is set for it.                                                *)
CallOK(c, t) ==
    /\ c.op = "send" => c.mail \in Mail
    /\ c.op # "none" /\ c.time > 0 => (c.start + c.time) % TickMod = c.deadline
    /\ c.op # "none" /\ t \in Range(k.timers) =>
          c.time > 0 /\ k.due[t] = c.deadline

CallsOK ==
    /\ call \in [Thread -> CallRecord]
    /\ \A t \in Thread : CallOK(call[t], t)

ServedOK == \A o \in Object : Served(k, Lists, o, Amount(o))

(* A mailbox that is being detached has no call that goes on, and one that *)
(* is gone has no waiter.                                                  *)
LifeOK ==
    /\ life \in {"live", "receivers", "senders", "gone"}
    /\ life # "live" => \A o \in Object : Pending(k, Lists, o) = {}
    /\ life \in {"senders", "gone"} => k.wait[Receivers] = <<>>
    /\ life = "gone" => k.wait[Senders] = <<>>

MbInv ==
    /\ KernelInv
    /\ LockRuns
    /\ WaitsAgree(k, pc, Lists)
    /\ BoxOK
    /\ CallsOK
    /\ ServedOK
    /\ LifeOK

-----------------------------------------------------------------------------
(* The ring of slots.                                                      *)
LEMMA RingWraps ==
    ASSUME NEW x \in Slot, NEW y \in Slot
    PROVE  /\ (x + y) % Size = IF x + y < Size THEN x + y ELSE x + y - Size
           /\ (x + y + 1) % Size = IF x + y + 1 < Size THEN x + y + 1
                                  ELSE x + y + 1 - Size
<1>1. /\ Size \in Nat /\ Size > 0
      /\ x \in Int /\ 0 <= x /\ x < Size /\ y \in Int /\ 0 <= y /\ y < Size
  BY MailboxAssumption DEF Slot
<1>2. ASSUME NEW n \in Int, 0 <= n, n < Size + Size
      PROVE  n % Size = IF n < Size THEN n ELSE n - Size
  <2>1. CASE n < Size
    BY <1>1, <1>2, <2>1
  <2>2. CASE n >= Size
    <3>1. n = 1 * Size + (n - Size) /\ n - Size \in 0 .. Size - 1
      BY <1>1, <1>2, <2>2
    <3> QED
      BY <1>1, <2>2, <3>1
  <2> QED
    BY <1>1, <2>1, <2>2
<1>3. (x + y) % Size = IF x + y < Size THEN x + y ELSE x + y - Size
  <2>1. PICK n \in Int : n = x + y
    BY <1>1
  <2>2. 0 <= n /\ n < Size + Size
    BY <1>1, <2>1
  <2>3. n % Size = IF n < Size THEN n ELSE n - Size
    BY <1>2, <2>2
  <2> QED
    BY <1>1, <2>1, <2>3
<1>4. (x + y + 1) % Size = IF x + y + 1 < Size THEN x + y + 1 ELSE x + y + 1 - Size
  <2>1. PICK n \in Int : n = x + y + 1
    BY <1>1
  <2>2. 0 <= n /\ n < Size + Size
    BY <1>1, <2>1
  <2>3. n % Size = IF n < Size THEN n ELSE n - Size
    BY <1>2, <2>2
  <2> QED
    BY <1>1, <2>1, <2>3
<1> QED
  BY <1>3, <1>4

LEMMA PutBackKeeps ==
    ASSUME BoxOK, ~Full, NEW m \in Mail, PutBack(m)
    PROVE  BoxOK' /\ entry' = entry + 1
<1>1. /\ Size \in Nat /\ Size > 0 /\ in \in 0 .. Size - 1 /\ out \in 0 .. Size - 1
      /\ entry \in 0 .. Size - 1
  BY MailboxAssumption DEF BoxOK, Full, Slot
<1>2. /\ in' = Step(in) /\ entry' = entry + 1 /\ out' = out
      /\ pool' = [pool EXCEPT ![in] = m]
  BY DEF PutBack
<1>3. pool' \in [Slot -> Mail \cup {"none"}]
  BY <1>2 DEF BoxOK
<1>4. in' \in Slot /\ entry' \in 0 .. Size
  BY <1>1, <1>2 DEF Slot, Step
<1>5. in' = (out' + entry') % Size
  <2>1. in = (out + entry) % Size
    BY DEF BoxOK
  <2>2. out \in Slot /\ entry \in Slot /\ out + entry \in Int /\ out + entry + 1 \in Int
    BY <1>1 DEF Slot
  <2>3. /\ (out + entry) % Size =
              IF out + entry < Size THEN out + entry ELSE out + entry - Size
        /\ (out + entry + 1) % Size =
              IF out + entry + 1 < Size THEN out + entry + 1
              ELSE out + entry + 1 - Size
    BY <2>2, RingWraps
  <2>4. out' + entry' = out + entry + 1
    BY <1>1, <1>2
  <2> QED
    BY <1>1, <1>2, <2>1, <2>3, <2>4 DEF Step
<1> QED
  BY <1>2, <1>3, <1>4, <1>5 DEF BoxOK

LEMMA PutFrontKeeps ==
    ASSUME BoxOK, ~Full, NEW m \in Mail, PutFront(m)
    PROVE  BoxOK' /\ entry' = entry + 1
<1> DEFINE prev == IF out > 0 THEN out - 1 ELSE Size - 1
<1>1. /\ Size \in Nat /\ Size > 0 /\ in \in 0 .. Size - 1 /\ out \in 0 .. Size - 1
      /\ entry \in 0 .. Size - 1
  BY MailboxAssumption DEF BoxOK, Full, Slot
<1>2. /\ out' = prev /\ entry' = entry + 1 /\ in' = in
      /\ pool' = [pool EXCEPT ![prev] = m]
  BY DEF PutFront
<1>3. prev \in 0 .. Size - 1
  BY <1>1
<1>4. pool' \in [Slot -> Mail \cup {"none"}]
  BY <1>2, <1>3 DEF BoxOK, Slot
<1>5. out' \in Slot /\ entry' \in 0 .. Size
  BY <1>1, <1>2, <1>3 DEF Slot
<1>6. in' = (out' + entry') % Size
  <2>1. in = (out + entry) % Size
    BY DEF BoxOK
  <2>2. /\ out \in Slot /\ entry \in Slot /\ prev \in Slot
        /\ out + entry \in Int /\ prev + entry + 1 \in Int
    BY <1>1, <1>3 DEF Slot
  <2>3. /\ (out + entry) % Size =
              IF out + entry < Size THEN out + entry ELSE out + entry - Size
        /\ (prev + entry + 1) % Size =
              IF prev + entry + 1 < Size THEN prev + entry + 1
              ELSE prev + entry + 1 - Size
    BY <2>2, RingWraps
  <2>4. out' + entry' = prev + entry + 1
    BY <1>1, <1>2, <1>3
  <2> QED
    BY <1>1, <1>2, <2>1, <2>3, <2>4
<1> QED
  BY <1>2, <1>4, <1>5, <1>6 DEF BoxOK

LEMMA TakeFrontKeeps ==
    ASSUME BoxOK, ~Empty, TakeFront
    PROVE  BoxOK' /\ entry' = entry - 1
<1>1. /\ Size \in Nat /\ Size > 0 /\ in \in 0 .. Size - 1 /\ out \in 0 .. Size - 1
      /\ entry \in 1 .. Size
  BY MailboxAssumption DEF BoxOK, Empty, Slot
<1>2. /\ out' = Step(out) /\ entry' = entry - 1 /\ in' = in
      /\ pool' = [pool EXCEPT ![out] = "none"]
  BY DEF TakeFront
<1>3. pool' \in [Slot -> Mail \cup {"none"}]
  BY <1>2 DEF BoxOK
<1>4. out' \in 0 .. Size - 1 /\ entry' \in 0 .. Size
  BY <1>1, <1>2 DEF Step
<1>5. in' = (out' + entry') % Size
  <2>1. in = (out + entry) % Size
    BY DEF BoxOK
  <2>2. PICK e \in Int : e = entry - 1
    BY <1>1
  <2>3. /\ out \in Slot /\ e \in Slot /\ out' \in Slot
        /\ out + e + 1 \in Int /\ out' + e \in Int
    BY <1>1, <1>4, <2>2 DEF Slot
  <2>4. (out + e + 1) % Size =
            IF out + e + 1 < Size THEN out + e + 1 ELSE out + e + 1 - Size
    BY <2>3, RingWraps
  <2>5. PICK x \in Slot : x = out'
    BY <2>3
  <2>6. (x + e) % Size = IF x + e < Size THEN x + e ELSE x + e - Size
    BY <2>3, RingWraps
  <2>7. entry = e + 1 /\ entry' = e /\ out + entry = out + e + 1
    BY <1>1, <1>2, <2>2
  <2> QED
    BY <1>1, <1>2, <2>1, <2>2, <2>4, <2>5, <2>6, <2>7 DEF Step
<1> QED
  BY <1>2, <1>3, <1>4, <1>5 DEF BoxOK, Slot

LEMMA EmptiedKeeps ==
    ASSUME Emptied
    PROVE  BoxOK' /\ entry' = 0
<1>1. Size \in Nat /\ Size > 0
  BY MailboxAssumption
<1>2. /\ in' = 0 /\ out' = 0 /\ entry' = 0
      /\ pool' = [i \in Slot |-> "none"]
  BY DEF Emptied
<1>3. pool' \in [Slot -> Mail \cup {"none"}] /\ 0 \in Slot /\ (0 + 0) % Size = 0
  BY <1>1, <1>2 DEF Slot
<1> QED
  BY <1>1, <1>2, <1>3 DEF BoxOK

-----------------------------------------------------------------------------
(* The lists and the calls.                                                *)
LEMMA ListsAre ==
    ASSUME CallsOK
    PROVE  /\ Receivers \in Object /\ Senders \in Object /\ Receivers # Senders
           /\ Object = {Receivers, Senders}
           /\ Lists \in [Thread -> SUBSET Object]
           /\ \A t \in Thread :
                 /\ Lists[t] = {} <=> call[t].op = "none"
                 /\ Lists[t] = {Receivers} <=> call[t].op = "recv"
                 /\ Lists[t] = {Senders} <=> call[t].op = "send"
<1>1. /\ Receivers \in Object /\ Senders \in Object /\ Receivers # Senders
      /\ Object = {Receivers, Senders}
  BY MailboxAssumption
<1>2. \A t \in Thread : call[t].op \in {"none", "send", "recv"}
  BY DEF CallsOK, CallRecord
<1> QED
  BY <1>1, <1>2 DEF Lists, InList

LEMMA UnfinishedIs ==
    ASSUME CallsOK, WaitsAgree(k, pc, Lists)
    PROVE  /\ Woken("recv") = Pending(k, Lists, Receivers)
           /\ Woken("send") = Pending(k, Lists, Senders)
           /\ \A t \in Thread : Unfinished(t) <=>
                 \E o \in Object : t \in Pending(k, Lists, o)
<1>1. ASSUME NEW t \in Thread, NEW o \in Object
      PROVE  t \in Range(k.wait[o]) => Lists[t] = {o}
  BY DEF WaitsAgree
<1>2. \A t \in Thread : call[t].op \in {"none", "send", "recv"}
  BY DEF CallsOK, CallRecord
<1>3. ASSUME NEW t \in Thread
      PROVE  /\ t \in Pending(k, Lists, Receivers)
                   <=> Unfinished(t) /\ call[t].op = "recv"
             /\ t \in Pending(k, Lists, Senders)
                   <=> Unfinished(t) /\ call[t].op = "send"
  BY <1>1, ListsAre DEF Pending, Unfinished
<1>4. \A o \in Object : Pending(k, Lists, o) \subseteq Thread
  BY DEF Pending
<1>5. Woken("recv") = Pending(k, Lists, Receivers)
  BY <1>3, <1>4, ListsAre DEF Woken
<1>6. Woken("send") = Pending(k, Lists, Senders)
  BY <1>3, <1>4, ListsAre DEF Woken
<1>7. \A t \in Thread : Unfinished(t) <=>
                 \E o \in Object : t \in Pending(k, Lists, o)
  BY <1>2, <1>3, ListsAre DEF Unfinished
<1> QED
  BY <1>5, <1>6, <1>7

(* The calls of the threads of L end.                                      *)
CallsEnd(L) == call' = [t \in Thread |-> IF t \in L THEN NoCall ELSE call[t]]

LEMMA NoCallIs ==
    /\ NoCall \in CallRecord
    /\ NoCall.op = "none" /\ NoCall.mail = "none" /\ NoCall.time = 0
<1>1. 0 \in Tick
  BY KernelAssumption DEF Tick
<1> QED
  BY <1>1 DEF NoCall, CallRecord

LEMMA ListsEnded ==
    ASSUME CallsOK, NEW w, w = Lists, NEW L \in SUBSET Thread, CallsEnd(L)
    PROVE  Lists' = Ended(w, L)
<1>1. \A t \in Thread : call'[t] = IF t \in L THEN NoCall ELSE call[t]
  BY DEF CallsEnd
<1>2. \A t \in Thread : InList(t)' = IF t \in L THEN {} ELSE InList(t)
  BY <1>1, NoCallIs DEF InList
<1>3. \A t \in Thread : w[t] = InList(t)
  BY DEF Lists
<1> QED
  BY <1>2, <1>3 DEF Lists, Ended

(* A timer that is armed for a call was armed for it before.               *)
TimersKept ==
    \A t \in Thread : call[t].op # "none" /\ t \in Range(k'.timers) =>
        t \in Range(k.timers) /\ k'.due[t] = k.due[t]

LEMMA CallsEnded ==
    ASSUME CallsOK, NEW L \in SUBSET Thread, CallsEnd(L), TimersKept
    PROVE  CallsOK'
<1>1. call' \in [Thread -> CallRecord]
  BY NoCallIs DEF CallsEnd, CallsOK
<1>2. ASSUME NEW t \in Thread
      PROVE  CallOK(call[t], t)'
  <2>1. CASE t \in L
    <3>1. call'[t] = NoCall
      BY <2>1 DEF CallsEnd
    <3> QED
      BY <3>1, NoCallIs DEF CallOK
  <2>2. CASE t \notin L
    <3>1. call'[t] = call[t] /\ CallOK(call[t], t)
      BY <2>2 DEF CallsEnd, CallsOK
    <3> QED
      BY <3>1 DEF CallOK, TimersKept
  <2> QED
    BY <2>1, <2>2
<1> QED
  BY <1>1, <1>2 DEF CallsOK

LEMMA FewerKeeps ==
    ASSUME Fewer(k, k')
    PROVE  TimersKept
BY DEF Fewer, TimersKept

LEMMA NoneEnd ==
    ASSUME CallsOK, UNCHANGED call
    PROVE  CallsEnd({})
BY DEF CallsOK, CallsEnd

LEMMA OneEnds ==
    ASSUME CallsOK, NEW t \in Thread, EndCall(t)
    PROVE  CallsEnd({t})
BY DEF CallsOK, CallsEnd, EndCall

(* What a step that ends calls has to show of the waiters and of the ring. *)
LEMMA EndStep ==
    ASSUME MbInv, KernelInv', Wakes(k, k') \/ LockRuns',
           NEW w, w = Lists, NEW L \in SUBSET Thread, CallsEnd(L), TimersKept,
           WaitsAgree(k', pc', Ended(w, L)), BoxOK',
           \A o \in Object : Served(k', Ended(w, L), o, Amount(o)'),
           life' \in {"live", "receivers", "senders", "gone"},
           life' # "live" => \A o \in Object : Pending(k', Ended(w, L), o) = {},
           life' \in {"senders", "gone"} => k'.wait[Receivers] = <<>>,
           life' = "gone" => k'.wait[Senders] = <<>>
    PROVE  MbInv'
<1>1. Lists' = Ended(w, L) /\ CallsOK'
  BY ListsEnded, CallsEnded DEF MbInv
<1>2. WaitsAgree(k, pc, Lists)'
  BY <1>1
<1>3. ServedOK'
  BY <1>1 DEF ServedOK
<1>4. LifeOK'
  BY <1>1 DEF LifeOK
<1>5. LockRuns'
  <2>1. k.cur \in Thread /\ LockRuns /\ WaitsAgree(k, pc, w)
    BY DEF MbInv, KernelInv, Sound, Linked, KernelState
  <2>2. \A t \in Thread : Inside(t)' => Inside(t)
    BY <2>1 DEF WaitsAgree, Ended, Inside
  <2> QED
    BY <2>1, <2>2, WakesLock
<1> QED
  BY <1>1, <1>2, <1>3, <1>4, <1>5 DEF MbInv

-----------------------------------------------------------------------------
(* The steps that put something for the waiters of one list, or take what  *)
(* the waiters of the other wait for: the call that moves a mail.          *)
LEMMA MoveKeeps ==
    ASSUME MbInv, KernelInv', NEW t \in Thread, NEW L \in SUBSET {t},
           NEW list \in Object, life = "live", UNCHANGED life,
           BoxOK', entry' = IF list = Receivers THEN entry + 1 ELSE entry - 1,
           CallsEnd(L),
           \A x \in L : k.stat[x] # "SUSPEND" /\ InList(x) # {list},
           \A x \in Thread : pc'[x] \in {"wait", "woken"}
                                 <=> pc[x] \in {"wait", "woken"} /\ x \notin L,
           IF k.wait[list] # <<>>
           THEN Frees(k, k', Head(k.wait[list])) /\ k'.error = k.error
           ELSE UNCHANGED k
    PROVE  MbInv'
<1>1. PICK w : w = Lists
  OBVIOUS
<1>2. /\ KernelInv /\ WaitsAgree(k, pc, w) /\ CallsOK /\ entry \in Int /\ Size \in Int
      /\ \A o \in Object : Served(k, w, o, Amount(o)) /\ Amount(o) \in Int
  BY <1>1, MailboxAssumption DEF MbInv, BoxOK, ServedOK, Amount
<1>3. \A x \in L : k.stat[x] # "SUSPEND" /\ w[x] # {list}
  BY <1>1 DEF Lists
<1>4. /\ WaitsAgree(k', pc', Ended(w, L))
      /\ \A n \in Int : Served(k, w, list, n) =>
                        Served(k', Ended(w, L), list, n + 1)
      /\ \A o \in Object \ {list} : \A n \in Int : Served(k, w, o, n) =>
               Served(k', Ended(w, L), o, IF L = {} THEN n ELSE n - 1)
  BY <1>2, <1>3, GiveServes
<1>5. Fewer(k, k')
  <2>1. CASE k.wait[list] # <<>>
    BY <2>1 DEF Frees
  <2>2. CASE UNCHANGED k
    BY <2>2 DEF Fewer
  <2> QED
    BY <2>1, <2>2
<1>6. TimersKept
  BY <1>5, FewerKeeps
<1>7. \A o \in Object : Amount(o)' = IF o = list THEN Amount(o) + 1 ELSE Amount(o) - 1
  BY <1>2, ListsAre DEF Amount
<1>8. ASSUME NEW o \in Object
      PROVE  Served(k', Ended(w, L), o, Amount(o)')
  <2>1. PICK n \in Int : n = Amount(o) /\ Served(k, w, o, n)
    BY <1>2
  <2>2. CASE o = list
    BY <1>4, <1>7, <2>1, <2>2
  <2>3. CASE o # list
    <3>1. Amount(o)' = n - 1
      BY <1>7, <2>1, <2>3
    <3>2. Served(k', Ended(w, L), o, n) \/ Served(k', Ended(w, L), o, n - 1)
      BY <1>4, <2>1, <2>3
    <3>3. Served(k', Ended(w, L), o, n - 1)
      <4>1. Pending(k', Ended(w, L), o) \in SUBSET Thread
        BY DEF Pending
      <4>2. Cardinality(Pending(k', Ended(w, L), o)) \in Nat
        BY <4>1, PendingFinite
      <4> QED
        BY <3>2, <4>2 DEF Served
    <3> QED
      BY <3>1, <3>3
  <2> QED
    BY <2>2, <2>3
<1>9. /\ life' \in {"live", "receivers", "senders", "gone"} /\ life' = "live"
      /\ L \in SUBSET Thread
  OBVIOUS
<1>10. Wakes(k, k')
  <2>1. CASE k.wait[list] # <<>>
    BY <2>1 DEF Frees
  <2>2. CASE UNCHANGED k
    BY <1>2, <2>2, WakesNone DEF KernelInv
  <2> QED
    BY <2>1, <2>2
<1> QED
  BY <1>1, <1>4, <1>6, <1>8, <1>9, <1>10, EndStep

(* A call made by the running thread, or resumed by it.                    *)
LEMMA WakeOneKeeps ==
    ASSUME MbInv, NEW t \in Worker, NEW list \in Object,
           NEW loc \in {"run", "woken"}, At(t, loc), UNCHANGED irq,
           life = "live", UNCHANGED life,
           BoxOK', entry' = IF list = Receivers THEN entry + 1 ELSE entry - 1,
           IF loc = "run" THEN UNCHANGED call ELSE EndCall(t) /\ InList(t) # {list},
           WakeOne(t, list)
    PROVE  MbInv'
<1>1. PICK L : L = IF loc = "run" THEN {} ELSE {t}
  OBVIOUS
<1>2. /\ KernelInv /\ CallsOK /\ t \in Thread /\ L \in SUBSET {t}
      /\ irq' \in {"on", "off", "tick"} /\ Sound(k) /\ pc \in [Thread -> Location]
  BY <1>1 DEF MbInv, KernelInv, Worker
<1>3. k.cur = t /\ k.stat[t] = "RUNNING" /\ pc[t] = loc
  BY <1>2, AtRuns DEF At
<1>4. CallsEnd(L)
  BY <1>1, <1>2, NoneEnd, OneEnds
<1>5. \A x \in L : k.stat[x] # "SUSPEND" /\ InList(x) # {list}
  BY <1>1, <1>3
<1>6. PICK to \in {"sched", "run"} : Goto(t, to)
  BY DEF WakeOne
<1>7. \A x \in Thread : pc'[x] \in {"wait", "woken"}
                            <=> pc[x] \in {"wait", "woken"} /\ x \notin L
  BY <1>1, <1>2, <1>3, <1>6 DEF Goto
<1>8. IF k.wait[list] # <<>>
      THEN Frees(k, k', Head(k.wait[list])) /\ k'.error = k.error
      ELSE UNCHANGED k
  BY <1>2, HeadResumed DEF WakeOne
<1>9. Wakes(k, k')
  BY <1>2, <1>8, WakesNone DEF Frees
<1>10. KernelInv'
  <2>1. to \in Location
    BY DEF Location
  <2> QED
    BY <1>2, <1>3, <1>6, <1>9, <2>1, RunningStep
<1> QED
  BY <1>2, <1>4, <1>5, <1>7, <1>8, <1>10, MoveKeeps

(* Only a mailbox that is live has a call that goes on.                    *)
LEMMA ResumedIsLive ==
    ASSUME MbInv, NEW t \in Worker, NEW op \in {"send", "recv"}, Resumed(t, op)
    PROVE  /\ life = "live" /\ call[t].op = op
           /\ t \in Pending(k, Lists, IF op = "recv" THEN Receivers ELSE Senders)
<1>1. /\ KernelInv /\ CallsOK /\ LifeOK /\ t \in Thread
      /\ At(t, "woken") /\ k.error[t] = "OK" /\ call[t].op = op
  BY DEF MbInv, Worker, Resumed
<1>2. k.stat[t] = "RUNNING"
  BY <1>1, AtRuns
<1>3. \A o \in Object : t \notin Range(k.wait[o])
  BY <1>1, <1>2, KernelInvLists
<1>4. t \in Pending(k, Lists, IF op = "recv" THEN Receivers ELSE Senders)
  BY <1>1, <1>3, ListsAre DEF Pending
<1>5. life = "live"
  BY <1>1, <1>4, ListsAre DEF LifeOK
<1> QED
  BY <1>1, <1>4, <1>5

LEMMA MovesKeep ==
    ASSUME MbInv, NEW t \in Worker,
           \/ \E m \in Mail : SendNow(t, m) \/ Urgent(t, m)
           \/ SendResumes(t) \/ RecvNow(t) \/ RecvResumes(t)
    PROVE  MbInv'
<1>1. BoxOK /\ CallsOK /\ t \in Thread
  BY DEF MbInv, Worker
<1>2. ASSUME NEW m \in Mail, SendNow(t, m) \/ Urgent(t, m)
      PROVE  MbInv'
  <2>1. /\ At(t, "run") /\ life = "live" /\ ~Full /\ WakeOne(t, Receivers)
        /\ UNCHANGED irq /\ UNCHANGED life /\ UNCHANGED call
    BY <1>2 DEF SendNow, Urgent
  <2>2. PutBack(m) \/ PutFront(m)
    BY <1>2 DEF SendNow, Urgent
  <2>3. BoxOK' /\ entry' = entry + 1
    BY <1>1, <2>1, <2>2, PutBackKeeps, PutFrontKeeps
  <2> QED
    BY <1>1, <2>1, <2>3, ListsAre, WakeOneKeeps
<1>3. CASE SendResumes(t)
  <2>1. /\ Resumed(t, "send") /\ ~Full /\ WakeOne(t, Receivers)
        /\ PutBack(call[t].mail)
        /\ UNCHANGED irq /\ UNCHANGED life /\ EndCall(t)
    BY <1>3 DEF SendResumes
  <2>2. At(t, "woken") /\ life = "live" /\ call[t].op = "send"
    BY <2>1, ResumedIsLive DEF Resumed
  <2>3. call[t].mail \in Mail
    BY <1>1, <2>2 DEF CallsOK, CallOK
  <2>4. BoxOK' /\ entry' = entry + 1
    BY <1>1, <2>1, <2>3, PutBackKeeps
  <2>5. InList(t) # {Receivers}
    BY <1>1, <2>2, ListsAre DEF InList
  <2> QED
    BY <1>1, <2>1, <2>2, <2>4, <2>5, ListsAre, WakeOneKeeps
<1>4. CASE RecvNow(t)
  <2>1. /\ At(t, "run") /\ life = "live" /\ ~Empty /\ WakeOne(t, Senders)
        /\ TakeFront
        /\ UNCHANGED irq /\ UNCHANGED life /\ UNCHANGED call
    BY <1>4 DEF RecvNow
  <2>2. BoxOK' /\ entry' = entry - 1
    BY <1>1, <2>1, TakeFrontKeeps
  <2> QED
    BY <1>1, <2>1, <2>2, ListsAre, WakeOneKeeps
<1>5. CASE RecvResumes(t)
  <2>1. /\ Resumed(t, "recv") /\ ~Empty /\ WakeOne(t, Senders)
        /\ TakeFront
        /\ UNCHANGED irq /\ UNCHANGED life /\ EndCall(t)
    BY <1>5 DEF RecvResumes
  <2>2. At(t, "woken") /\ life = "live" /\ call[t].op = "recv"
    BY <2>1, ResumedIsLive DEF Resumed
  <2>3. BoxOK' /\ entry' = entry - 1
    BY <1>1, <2>1, TakeFrontKeeps
  <2>4. InList(t) # {Senders}
    BY <1>1, <2>2, ListsAre DEF InList
  <2> QED
    BY <1>1, <2>1, <2>2, <2>3, <2>4, ListsAre, WakeOneKeeps
<1> QED
  BY <1>2, <1>3, <1>4, <1>5

(* The calls a handler makes.                                              *)
LEMMA HandlerKeeps ==
    ASSUME MbInv, HandlerStep
    PROVE  MbInv'
<1>1. /\ KernelInv /\ BoxOK /\ CallsOK /\ Sound(k) /\ Idle \in Thread
      /\ irq \in {"on", "off", "tick"}
  BY KernelAssumption DEF MbInv, KernelInv
<1>2. /\ life = "live" /\ UNCHANGED pc /\ UNCHANGED irq /\ UNCHANGED life
      /\ UNCHANGED call
  BY DEF HandlerStep, IsrRecv, IsrSend, IsrUrgent, Handler
<1>3. PICK list \in Object :
         /\ BoxOK' /\ entry' = IF list = Receivers THEN entry + 1 ELSE entry - 1
         /\ WakeFromHandler(list)
  <2>1. CASE IsrRecv
    <3>1. BoxOK' /\ entry' = entry - 1
      BY <1>1, <2>1, TakeFrontKeeps DEF IsrRecv
    <3> QED
      BY <1>1, <2>1, <3>1, ListsAre DEF IsrRecv
  <2>2. ASSUME NEW m \in Mail, IsrSend(m) \/ IsrUrgent(m)
        PROVE  /\ BoxOK' /\ entry' = entry + 1
               /\ WakeFromHandler(Receivers)
    <3>1. ~Full /\ (PutBack(m) \/ PutFront(m))
      BY <2>2 DEF IsrSend, IsrUrgent
    <3>2. BoxOK' /\ entry' = entry + 1
      BY <1>1, <3>1, PutBackKeeps, PutFrontKeeps
    <3> QED
      BY <2>2, <3>2 DEF IsrSend, IsrUrgent
  <2> QED
    BY <1>1, <2>1, <2>2, ListsAre DEF HandlerStep
<1>4. IF k.wait[list] # <<>>
      THEN Frees(k, k', Head(k.wait[list])) /\ k'.error = k.error
      ELSE UNCHANGED k
  BY <1>1, <1>3, HeadResumed DEF WakeFromHandler
<1>5. Wakes(k, k')
  BY <1>1, <1>4, WakesNone DEF Frees
<1>6. KernelInv'
  BY <1>1, <1>2, <1>5, WakeStep
<1>7. CallsEnd({}) /\ {} \in SUBSET {Idle}
  BY <1>1, <1>2, NoneEnd
<1>8. \A x \in Thread : pc'[x] \in {"wait", "woken"}
                            <=> pc[x] \in {"wait", "woken"} /\ x \notin {}
  BY <1>2
<1> QED
  BY <1>1, <1>2, <1>3, <1>4, <1>6, <1>7, <1>8, MoveKeeps

-----------------------------------------------------------------------------
(* The steps that leave the lists alone.                                   *)
(* The calls in which no thread waits or is woken and no call ends.        *)
LEMMA QuietKeeps ==
    ASSUME MbInv, NEW t \in Worker,
           \/ ResetBegin(t) \/ ResetEnd(t)
           \/ DetachBegin(t) \/ DetachTest(t) \/ DetachHalt(t)
           \/ DetachNext(t) \/ DetachEnd(t) \/ MbInit(t)
    PROVE  MbInv'
<1>1. PICK w, L : w = Lists /\ L = {}
  OBVIOUS
<1>2. /\ KernelInv /\ CallsOK /\ BoxOK /\ ServedOK /\ LifeOK /\ t \in Thread
      /\ irq \in {"on", "off", "tick"} /\ L \in SUBSET Thread
  BY <1>1 DEF MbInv, KernelInv, Worker
<1>3. /\ k.cur = t /\ k.stat[t] = "RUNNING"
      /\ pc[t] \in {"run", "reset", "detach", "dequeue"}
  <2>1. CASE ResetEnd(t)
    BY <1>2, <2>1 DEF ResetEnd, InReset, KernelInv, PcAgrees, Sound, OneRuns
  <2>2. CASE ~ResetEnd(t)
    <3>1. PICK loc \in {"run", "detach", "dequeue"} : At(t, loc)
      BY <2>2 DEF ResetBegin, DetachBegin, DetachTest, DetachHalt,
                  DetachNext, DetachEnd, MbInit
    <3>2. pc[t] = loc
      BY <3>1 DEF At
    <3> QED
      BY <1>2, <3>1, <3>2, AtRuns
  <2> QED
    BY <2>1, <2>2
<1>4. /\ UNCHANGED k /\ UNCHANGED call
      /\ irq' \in {"on", "off", "tick"}
      /\ \E loc \in Location \ {"wait", "woken"} : Goto(t, loc) \/ UNCHANGED pc
  BY <1>2 DEF ResetBegin, ResetEnd, DetachBegin, DetachTest, DetachHalt,
              DetachNext, DetachEnd, MbInit, kernelVars, Location
<1>5. PICK loc \in Location \ {"wait", "woken"} : Goto(t, loc) \/ UNCHANGED pc
  BY <1>4
<1>6. /\ KernelInv' /\ Wakes(k, k') /\ TimersKept /\ k'.wait = k.wait
      /\ WaitsAgree(k', pc', Ended(w, L))
      /\ \A o \in Object : Pending(k', Ended(w, L), o) = Pending(k, w, o) \ L
  <2>1. RunsOn(t, w, L, loc)
    <3>1. L = (IF pc[t] = "woken" THEN {t} ELSE {}) /\ pc[t] # "wait" /\ pc[t] # "woken"
      BY <1>1, <1>3
    <3>2. WaitsAgree(k, pc, w)
      BY <1>1 DEF MbInv
    <3> QED
      BY <1>2, <1>3, <1>4, <1>5, <3>1, <3>2 DEF RunsOn
  <2>2. /\ KernelInv' /\ Wakes(k, k') /\ k'.wait = k.wait
        /\ k'.timers = k.timers /\ k'.due = k.due
        /\ WaitsAgree(k', pc', Ended(w, L))
        /\ \A o \in Object : Pending(k', Ended(w, L), o) = Pending(k, w, o) \ L
    BY <2>1, QuietStep
  <2> QED
    BY <2>2 DEF TimersKept
<1>7. \A o \in Object : Pending(k', Ended(w, L), o) = Pending(k, Lists, o)
  BY <1>1, <1>6
<1>8. BoxOK' /\ \A o \in Object : Amount(o)' = Amount(o) \/ k.wait[o] = <<>>
  <2>1. CASE ResetEnd(t)
    <3>1. Emptied /\ \A o \in Object : k.wait[o] = <<>>
      BY <2>1 DEF ResetEnd, Nonempty
    <3> QED
      BY <3>1, EmptiedKeeps
  <2>2. CASE MbInit(t)
    <3>1. Emptied /\ life = "gone"
      BY <2>2 DEF MbInit
    <3>2. \A o \in Object : k.wait[o] = <<>>
      BY <1>2, <3>1, ListsAre DEF LifeOK
    <3> QED
      BY <3>1, <3>2, EmptiedKeeps
  <2>3. CASE UNCHANGED box
    BY <1>2, <2>3 DEF box, BoxOK, Amount
  <2> QED
    BY <2>1, <2>2, <2>3 DEF ResetBegin, DetachBegin, DetachTest, DetachHalt,
                            DetachNext, DetachEnd
<1>9. ASSUME NEW o \in Object
      PROVE  Served(k', Ended(w, L), o, Amount(o)')
  BY <1>2, <1>6, <1>7, <1>8 DEF ServedOK, Served
<1>10. /\ life' \in {"live", "receivers", "senders", "gone"}
       /\ life' # "live" => \A o \in Object : Pending(k', Ended(w, L), o) = {}
       /\ life' \in {"senders", "gone"} => k'.wait[Receivers] = <<>>
       /\ life' = "gone" => k'.wait[Senders] = <<>>
  <2>1. CASE DetachBegin(t)
    <3>1. life' = "receivers" /\ \A u \in Thread : ~Unfinished(u)
      BY <2>1, KernelAssumption DEF DetachBegin, Worker
    <3>2. \A o \in Object : Pending(k, Lists, o) = {}
      <4>1. \A u \in Thread : \A o \in Object : u \notin Pending(k, Lists, o)
        BY <1>2, <3>1, UnfinishedIs DEF MbInv
      <4> QED
        BY <4>1 DEF Pending
    <3> QED
      BY <1>7, <3>1, <3>2
  <2>2. CASE DetachNext(t)
    BY <1>2, <1>6, <1>7, <2>2 DEF DetachNext, LifeOK
  <2>3. CASE DetachEnd(t)
    BY <1>2, <1>6, <1>7, <2>3 DEF DetachEnd, LifeOK
  <2>4. CASE MbInit(t)
    BY <2>4 DEF MbInit
  <2>5. CASE UNCHANGED life
    BY <1>2, <1>6, <1>7, <2>5 DEF LifeOK
  <2> QED
    BY <2>1, <2>2, <2>3, <2>4, <2>5 DEF ResetBegin, ResetEnd, DetachTest, DetachHalt
<1>11. CallsEnd(L)
  BY <1>1, <1>2, <1>4, NoneEnd
<1> QED
  BY <1>1, <1>2, <1>6, <1>8, <1>9, <1>10, <1>11, EndStep

(* The calls that end with an error: that of a waiter that was refused,    *)
(* and that of one whose time is over when it finds nothing.               *)
LEMMA FailsKeep ==
    ASSUME MbInv, NEW t \in Worker, At(t, "woken"), EndCall(t), Goto(t, "run"),
           UNCHANGED irq, UNCHANGED box, UNCHANGED life,
           k' = k \/ k' = [k EXCEPT !.error[t] = "TIMEOUT"],
           \A o \in Object : t \in Pending(k, Lists, o) => Amount(o) = 0
    PROVE  MbInv'
<1>1. PICK w, L : w = Lists /\ L = {t}
  OBVIOUS
<1>2. /\ KernelInv /\ CallsOK /\ BoxOK /\ ServedOK /\ LifeOK /\ t \in Thread
      /\ irq' \in {"on", "off", "tick"} /\ L \in SUBSET Thread
  BY <1>1 DEF MbInv, KernelInv, Worker
<1>3. k.cur = t /\ k.stat[t] = "RUNNING" /\ pc[t] = "woken"
  BY <1>2, AtRuns DEF At
<1>4. /\ KernelInv' /\ Wakes(k, k') /\ TimersKept /\ k'.wait = k.wait
      /\ WaitsAgree(k', pc', Ended(w, L))
      /\ \A o \in Object : Pending(k', Ended(w, L), o) = Pending(k, w, o) \ L
  <2>1. \E loc : RunsOn(t, w, L, loc)
    <3>1. "run" \in Location \ {"wait", "woken"}
      BY DEF Location
    <3>2. WaitsAgree(k, pc, w)
      BY <1>1 DEF MbInv
    <3>3. RunsOn(t, w, L, "run")
      BY <1>1, <1>2, <1>3, <3>1, <3>2 DEF RunsOn
    <3> QED
      BY <3>3
  <2>2. /\ KernelInv' /\ Wakes(k, k') /\ k'.wait = k.wait
        /\ k'.timers = k.timers /\ k'.due = k.due
        /\ WaitsAgree(k', pc', Ended(w, L))
        /\ \A o \in Object : Pending(k', Ended(w, L), o) = Pending(k, w, o) \ L
    BY <2>1, QuietStep
  <2> QED
    BY <2>2 DEF TimersKept
<1>5. /\ BoxOK' /\ \A o \in Object : Amount(o)' = Amount(o)
  BY <1>2 DEF box, BoxOK, Amount
<1>6. ASSUME NEW o \in Object
      PROVE  Served(k', Ended(w, L), o, Amount(o)')
  <2>1. Served(k, w, o, Amount(o))
    BY <1>1, <1>2 DEF ServedOK
  <2>2. CASE t \in Pending(k, w, o)
    <3>1. Pending(k', Ended(w, L), o) \in SUBSET Thread
      BY DEF Pending
    <3>2. Cardinality(Pending(k', Ended(w, L), o)) \in Nat
      BY <3>1, PendingFinite
    <3> QED
      BY <1>1, <1>5, <2>2, <3>2 DEF Served
  <2>3. CASE t \notin Pending(k, w, o)
    <3>1. Pending(k', Ended(w, L), o) = Pending(k, w, o)
      BY <1>1, <1>4, <2>3
    <3> QED
      BY <1>4, <1>5, <2>1, <3>1 DEF Served
  <2> QED
    BY <2>2, <2>3
<1>7. /\ life' \in {"live", "receivers", "senders", "gone"}
      /\ life' # "live" => \A o \in Object : Pending(k', Ended(w, L), o) = {}
      /\ life' \in {"senders", "gone"} => k'.wait[Receivers] = <<>>
      /\ life' = "gone" => k'.wait[Senders] = <<>>
  BY <1>1, <1>2, <1>4 DEF LifeOK
<1>8. CallsEnd(L)
  BY <1>1, <1>2, OneEnds
<1> QED
  BY <1>1, <1>2, <1>4, <1>5, <1>6, <1>7, <1>8, EndStep

LEMMA CallFailsKeeps ==
    ASSUME MbInv, NEW t \in Worker, CallFails(t)
    PROVE  MbInv'
<1>1. /\ At(t, "woken") /\ EndCall(t) /\ Goto(t, "run") /\ UNCHANGED irq
      /\ UNCHANGED box /\ UNCHANGED life /\ k' = k /\ k.error[t] # "OK"
  BY DEF CallFails
<1>2. \A o \in Object : t \in Pending(k, Lists, o) => Amount(o) = 0
  BY <1>1 DEF Pending
<1> QED
  BY <1>1, <1>2, FailsKeep

(* A turn of the loops of rt_mb_control and rt_mb_detach.                  *)
LEMMA AbortKeeps ==
    ASSUME MbInv, NEW t \in Worker, ResetWake(t) \/ DetachWake(t)
    PROVE  MbInv'
<1>1. PICK w, L : w = Lists /\ L = {}
  OBVIOUS
<1>2. /\ KernelInv /\ CallsOK /\ BoxOK /\ ServedOK /\ LifeOK /\ t \in Thread
      /\ irq \in {"on", "off", "tick"} /\ L \in SUBSET Thread
      /\ WaitsAgree(k, pc, w) /\ Sound(k) /\ k \in KernelState
      /\ pc \in [Thread -> Location]
  BY <1>1 DEF MbInv, KernelInv, Worker, Sound, Linked
<1>3. PICK list \in Object : k.wait[list] # <<>> /\ k' = IpcListAbort(k, list)
  BY ListsAre, <1>2 DEF ResetWake, DetachWake, Nonempty, Closing
<1>4. PICK u : u = Head(k.wait[list])
  OBVIOUS
<1>5. /\ u \in Thread /\ u \in Range(k.wait[list])
      /\ Frees(k, k', u) /\ k'.error = [k.error EXCEPT ![u] = "ERROR"]
  BY <1>2, <1>3, <1>4, HeadAborted, HeadIsWaiting
<1>6. Wakes(k, k') /\ Fewer(k, k')
  BY <1>5 DEF Frees
<1>7. UNCHANGED irq /\ UNCHANGED box /\ UNCHANGED life /\ UNCHANGED call
  BY DEF ResetWake, DetachWake
<1>8. KernelInv' /\ Shrinks
  <2>1. CASE ResetWake(t)
    <3>1. UNCHANGED pc
      BY <2>1 DEF ResetWake
    <3> QED
      BY <1>2, <1>6, <1>7, <3>1, WakeStep
  <2>2. CASE DetachWake(t)
    <3>1. At(t, "dequeue") /\ Goto(t, "detach") /\ "detach" \in Location
      BY <2>2 DEF DetachWake, Location
    <3>2. k.cur = t /\ k.stat[t] = "RUNNING"
      BY <1>2, <3>1, AtRuns
    <3> QED
      BY <1>2, <1>6, <1>7, <3>1, <3>2, RunningStep
  <2> QED
    BY <2>1, <2>2
<1>9. \A x \in Thread : pc'[x] \in {"wait", "woken"}
                            <=> pc[x] \in {"wait", "woken"} /\ x \notin L
  <2>1. \/ UNCHANGED pc
        \/ pc[t] = "dequeue" /\ Goto(t, "detach")
    BY DEF ResetWake, DetachWake, At
  <2> QED
    BY <1>1, <1>2, <2>1 DEF Goto
<1>10. /\ WaitsAgree(k', pc', Ended(w, L))
       /\ \A o \in Object : Pending(k', Ended(w, L), o) = Pending(k, w, o)
  <2>1. /\ \A x \in L : k.stat[x] # "SUSPEND"
        /\ \A x \in Thread \ {u} : k'.error[x] = k.error[x]
        /\ k'.error[u] = "ERROR"
    BY <1>1, <1>2, <1>5 DEF KernelState
  <2>2. /\ WaitsAgree(k', pc', Ended(w, L))
        /\ \A o \in Object :
              Pending(k', Ended(w, L), o) =
                  (Pending(k, w, o) \ L) \cup
                  IF o = list /\ k'.error[Head(k.wait[list])] = "OK"
                  THEN {Head(k.wait[list])} ELSE {}
    BY <1>2, <1>3, <1>4, <1>5, <1>9, <2>1, FreesServes
  <2>3. ASSUME NEW o \in Object
        PROVE  Pending(k', Ended(w, L), o) = Pending(k, w, o)
    <3>1. ~(o = list /\ k'.error[Head(k.wait[list])] = "OK")
      BY <1>4, <2>1
    <3>2. Pending(k', Ended(w, L), o) = (Pending(k, w, o) \ L) \cup {}
      BY <2>2, <3>1
    <3> QED
      BY <1>1, <3>2
  <2> QED
    BY <2>2, <2>3
<1>11. \A o \in Object : k'.wait[o] # <<>> => k.wait[o] # <<>>
  BY <1>2, <1>8, ShrinksEmpty
<1>12. BoxOK' /\ \A o \in Object : Amount(o)' = Amount(o)
  BY <1>2, <1>7 DEF box, BoxOK, Amount
<1>13. ASSUME NEW o \in Object
       PROVE  Served(k', Ended(w, L), o, Amount(o)')
  BY <1>1, <1>2, <1>10, <1>11, <1>12 DEF ServedOK, Served
<1>14. /\ life' \in {"live", "receivers", "senders", "gone"}
       /\ life' # "live" => \A o \in Object : Pending(k', Ended(w, L), o) = {}
       /\ life' \in {"senders", "gone"} => k'.wait[Receivers] = <<>>
       /\ life' = "gone" => k'.wait[Senders] = <<>>
  BY <1>1, <1>2, <1>7, <1>10, <1>11, ListsAre DEF LifeOK
<1>15. TimersKept /\ CallsEnd(L)
  BY <1>1, <1>2, <1>6, <1>7, FewerKeeps, NoneEnd
<1> QED
  BY <1>1, <1>2, <1>6, <1>8, <1>10, <1>12, <1>13, <1>14, <1>15, EndStep

-----------------------------------------------------------------------------
(* The steps of the kernel.                                                *)
LEMMA KernelStepKeeps ==
    ASSUME MbInv, KernelStep
    PROVE  MbInv'
<1>1. PICK w, L : w = Lists /\ L = {}
  OBVIOUS
<1>2. /\ KernelInv /\ LockRuns /\ CallsOK /\ BoxOK /\ ServedOK /\ LifeOK
      /\ WaitsAgree(k, pc, w) /\ L \in SUBSET Thread
      /\ KernelNext /\ UNCHANGED box /\ UNCHANGED life /\ UNCHANGED call
  BY <1>1 DEF MbInv, KernelStep, KernelNext, TickIsr
<1>3. KernelInv' /\ LockRuns'
  BY <1>2, KernelNextKeeps, KernelNextLocks
<1>4. /\ WaitsAgree(k', pc', w)
      /\ \A o \in Object : /\ Pending(k', w, o) = Pending(k, w, o)
                           /\ k'.wait[o] # <<>> => k.wait[o] # <<>>
  BY <1>2, KernelNextWaits
<1>5. w = Ended(w, L)
  BY <1>1, <1>2 DEF Ended, WaitsAgree
<1>6. TimersKept
  <2>1. ASSUME NEW t \in Thread, call[t].op # "none", t \in Range(k'.timers)
        PROVE  t \in Range(k.timers) /\ k'.due[t] = k.due[t]
    <3>1. Inside(t)
      BY <1>1, <1>2, <2>1, ListsAre DEF WaitsAgree, Inside
    <3> QED
      BY <1>2, <2>1, <3>1, KernelNextTimers
  <2> QED
    BY <2>1 DEF TimersKept
<1>7. BoxOK' /\ \A o \in Object : Amount(o)' = Amount(o)
  BY <1>2 DEF box, BoxOK, Amount
<1>8. ASSUME NEW o \in Object
      PROVE  Served(k', Ended(w, L), o, Amount(o)')
  BY <1>1, <1>2, <1>4, <1>5, <1>7 DEF ServedOK, Served
<1>9. /\ life' \in {"live", "receivers", "senders", "gone"}
      /\ life' # "live" => \A o \in Object : Pending(k', Ended(w, L), o) = {}
      /\ life' \in {"senders", "gone"} => k'.wait[Receivers] = <<>>
      /\ life' = "gone" => k'.wait[Senders] = <<>>
  BY <1>1, <1>2, <1>4, <1>5, ListsAre DEF LifeOK
<1>10. CallsEnd(L) /\ WaitsAgree(k', pc', Ended(w, L))
  BY <1>1, <1>2, <1>4, <1>5, NoneEnd
<1> QED
  BY <1>1, <1>2, <1>3, <1>6, <1>7, <1>8, <1>9, <1>10, EndStep

(* A thread suspends itself, in a call that it makes or goes on with.      *)
LEMMA SuspendKeeps ==
    ASSUME MbInv, NEW t \in Worker, NEW loc \in {"run", "woken"}, At(t, loc),
           k.lock = 0, NEW o \in Object, Amount(o) = 0,
           NEW c \in CallRecord, Suspend(t, o, c), c.time # 0,
           (c.op = "recv" /\ o = Receivers) \/ (c.op = "send" /\ o = Senders),
           c.op = "send" => c.mail \in Mail,
           c.time > 0 => Later(k, c.time) = c.deadline,
           Lists[t] \subseteq {o}, life = "live",
           UNCHANGED irq, UNCHANGED box, UNCHANGED life
    PROVE  MbInv'
<1>1. PICK w : w = Lists
  OBVIOUS
<1>2. /\ KernelInv /\ CallsOK /\ BoxOK /\ ServedOK /\ LifeOK /\ WaitsAgree(k, pc, w)
      /\ Sound(k) /\ k \in KernelState /\ t \in Thread /\ t # Idle
      /\ pc \in [Thread -> Location]
  BY <1>1 DEF MbInv, KernelInv, Sound, Linked, Worker
<1>3. k.cur = t /\ k.stat[t] = "RUNNING"
  BY <1>2, AtRuns
<1>4. PICK time \in Int : time = c.time
  <2>1. c.time \in WaitTimes \/ c.time \in Tick
    BY DEF CallRecord
  <2>2. WaitTimes \subseteq Int /\ Tick \subseteq Int
    BY MailboxAssumption, KernelAssumption DEF Tick
  <2>3. c.time \in Int
    BY <2>1, <2>2
  <2> QED
    BY <2>3
<1>5. /\ k' = Block(k, o, t, MbFlag, time) /\ Goto(t, "wait")
      /\ call' = [call EXCEPT ![t] =
                     [c EXCEPT !.start = IF time > 0 THEN k.tick ELSE 0]]
  BY <1>4 DEF Suspend
<1>6. /\ Suspends(k, k', t) /\ t \in Range(k'.wait[o])
      /\ k'.error = [k.error EXCEPT ![t] = "OK"]
      /\ \A x \in Object : Range(k'.wait[x]) =
            Range(k.wait[x]) \cup (IF x = o THEN {t} ELSE {})
      /\ k'.stat = [k.stat EXCEPT ![t] = "SUSPEND"] /\ k'.lock = 0
  <2>1. PICK s : s = Block(k, o, t, MbFlag, time)
    OBVIOUS
  <2>2. Blocked(k, s, t, o)
    <3>1. Sound(k) /\ k.stat[t] = "RUNNING" /\ t \in Thread /\ t # Idle /\ k.lock = 0
      BY <1>2, <1>3
    <3> QED
      BY <2>1, <3>1, BlockGives
  <2> QED
    BY <1>5, <2>1, <2>2 DEF Blocked
<1>7. KernelInv'
  <2>1. "wait" \in {"nap", "wait"} /\ Goto(t, "wait")
    BY <1>5
  <2> QED
    BY <1>2, <1>3, <1>6, <2>1, SuspendingStep
<1>8. /\ k'.error = [k.error EXCEPT ![t] = "OK"]
      /\ \A x \in Object : Range(k'.wait[x]) =
            Range(k.wait[x]) \cup (IF x = o THEN {t} ELSE {})
      /\ k'.stat = [k.stat EXCEPT ![t] = "SUSPEND"] /\ k'.lock = 0
  BY <1>6
<1>9. PICK v : v = [w EXCEPT ![t] = {o}]
  OBVIOUS
<1>10. /\ WaitsAgree(k', pc', v)
       /\ \A x \in Object, u \in Thread : u \in Pending(k', v, x)
                <=> u \in Pending(k, w, x) /\ u # t
  <2>1. w[t] \subseteq {o}
    BY <1>1
  <2>2. Begins(w, v, t, o)
    BY <1>2, <1>3, <1>5, <1>8, <1>9, <2>1 DEF Begins
  <2> QED
    BY <2>2, WaitsBegin
<1>11. PICK d \in CallRecord : d = [c EXCEPT !.start = IF time > 0 THEN k.tick ELSE 0]
  <2>1. (IF time > 0 THEN k.tick ELSE 0) \in Tick
    <3>1. k.tick \in Tick /\ 0 \in Tick
      <4>1. 0 \in Tick
        BY KernelAssumption DEF Tick
      <4> QED
        BY <1>2, <4>1 DEF KernelState
    <3> QED
      BY <3>1
  <2> QED
    BY <2>1 DEF CallRecord
<1>12. /\ d.op = c.op /\ d.mail = c.mail /\ d.time = time /\ d.deadline = c.deadline
       /\ d.start = IF time > 0 THEN k.tick ELSE 0
       /\ call' = [call EXCEPT ![t] = d]
  BY <1>4, <1>5, <1>11 DEF CallRecord
<1>13. Lists' = v
  <2>1. \A u \in Thread \ {t} : InList(u)' = InList(u)
    BY <1>2, <1>12 DEF InList, CallsOK
  <2>2. call'[t] = d
    BY <1>2, <1>12 DEF CallsOK
  <2>3. InList(t)' = {o}
    BY <1>12, <2>2 DEF InList
  <2>4. \A u \in Thread : InList(u)' = IF u = t THEN {o} ELSE InList(u)
    BY <2>1, <2>3
  <2>5. \A u \in Thread : w[u] = InList(u)
    BY <1>1 DEF Lists
  <2>6. v = [u \in Thread |-> InList(u)']
    <3>1. \A u \in Thread : v[u] = InList(u)'
      BY <1>9, <1>10, <2>4, <2>5 DEF WaitsAgree
    <3>2. v = [u \in Thread |-> v[u]]
      BY <1>10 DEF WaitsAgree
    <3> QED
      BY <3>1, <3>2
  <2> QED
    BY <2>6 DEF Lists
<1>14. CallsOK'
  <2>1. call' \in [Thread -> CallRecord]
    BY <1>2, <1>12 DEF CallsOK
  <2>2. IF time > 0 THEN Arms(k, k', t, time) ELSE Fewer(k, k')
    BY <1>2, <1>3, <1>5, BlockArms
  <2>3. ASSUME NEW u \in Thread, u \in Range(k'.timers)
        PROVE  IF u = t THEN time > 0 /\ k'.due[t] = Later(k, time)
               ELSE u \in Range(k.timers) /\ k'.due[u] = k.due[u]
    <3>1. CASE time > 0
      BY <1>2, <2>2, <2>3, <3>1, ArmsOne
    <3>2. CASE ~(time > 0)
      <4>1. u \in Range(k.timers) /\ k'.due[u] = k.due[u]
        BY <2>2, <2>3, <3>2 DEF Fewer
      <4>2. k.stat[u] = "SUSPEND"
        BY <1>2, <4>1 DEF Sound, Timed
      <4> QED
        BY <1>3, <4>1, <4>2
    <3> QED
      BY <3>1, <3>2
  <2>4. ASSUME NEW u \in Thread
        PROVE  CallOK(call[u], u)'
    <3>1. CASE u = t
      <4>1. call'[u] = d
        BY <1>2, <1>12, <3>1 DEF CallsOK
      <4>2. d.op # "none" /\ d.time > 0 => (d.start + d.time) % TickMod = d.deadline
        BY <1>4, <1>12 DEF Later
      <4>3. d.op # "none" /\ u \in Range(k'.timers) =>
               d.time > 0 /\ k'.due[u] = d.deadline
        BY <1>4, <1>12, <2>3, <3>1
      <4> QED
        BY <1>12, <4>1, <4>2, <4>3 DEF CallOK
    <3>2. CASE u # t
      <4>1. call'[u] = call[u] /\ CallOK(call[u], u)
        BY <1>2, <1>12, <3>2 DEF CallsOK
      <4> QED
        BY <2>3, <3>2, <4>1 DEF CallOK
    <3> QED
      BY <3>1, <3>2
  <2> QED
    BY <2>1, <2>4 DEF CallsOK
<1>15. BoxOK' /\ \A x \in Object : Amount(x)' = Amount(x)
  BY <1>2 DEF box, BoxOK, Amount
<1>16. ServedOK'
  <2>1. ASSUME NEW x \in Object
        PROVE  Served(k', v, x, Amount(x)')
    <3>1. CASE x = o
      <4>1. Pending(k', v, o) \in SUBSET Thread
        BY DEF Pending
      <4>2. Cardinality(Pending(k', v, o)) \in Nat
        BY <4>1, PendingFinite
      <4> QED
        BY <1>15, <3>1, <4>2 DEF Served
    <3>2. CASE x # o
      <4>1. t \notin Pending(k, w, x)
        BY <1>1, <3>2 DEF Pending
      <4>2. Pending(k', v, x) = Pending(k, w, x)
        BY <1>10, <4>1 DEF Pending
      <4>3. k'.wait[x] # <<>> => k.wait[x] # <<>>
        <5>1. Range(k'.wait[x]) = Range(k.wait[x])
          <6>1. (IF x = o THEN {t} ELSE {}) = {}
            BY <3>2
          <6>2. Range(k'.wait[x]) = Range(k.wait[x]) \cup {}
            BY <1>8, <6>1
          <6> QED
            BY <6>2
        <5>2. k'.wait[x] \in Seq(Thread) /\ k.wait[x] \in Seq(Thread)
          BY <1>2, <1>7 DEF KernelInv, Sound, Linked, KernelState
        <5> QED
          BY <5>1, <5>2, EmptyRange
      <4>4. Served(k, w, x, Amount(x))
        BY <1>1, <1>2 DEF ServedOK
      <4> QED
        BY <1>15, <4>2, <4>3, <4>4 DEF Served
    <3> QED
      BY <3>1, <3>2
  <2> QED
    BY <1>13, <2>1 DEF ServedOK
<1>17. LifeOK'
  BY DEF LifeOK
<1>18. LockRuns'
  BY <1>8 DEF LockRuns
<1>19. WaitsAgree(k, pc, Lists)'
  BY <1>10, <1>13
<1> QED
  BY <1>7, <1>14, <1>15, <1>16, <1>17, <1>18, <1>19 DEF MbInv

(* The time left is what takes the caller to the deadline.                 *)
LEMMA LeftIs ==
    ASSUME NEW c \in CallRecord, k.tick \in Tick, Left(c) # 0,
           c.time > 0 => (c.start + c.time) % TickMod = c.deadline
    PROVE  /\ Left(c) \in WaitTimes \cup Tick
           /\ Left(c) > 0 => Later(k, Left(c)) = c.deadline
<1>1. /\ c.time \in WaitTimes \cup Tick /\ c.start \in Tick
      /\ TickMod \in Nat /\ Tick \subseteq Int /\ WaitTimes \subseteq Int
  BY KernelAssumption, MailboxAssumption DEF CallRecord, Tick
<1>2. CASE c.time > 0
  <2>1. PICK x \in Int, y \in Int, z \in Int : x = c.time /\ y = k.tick /\ z = c.start
    BY <1>1
  <2>2. PICK d : d = Minus(x, Minus(y, z))
    OBVIOUS
  <2>3. Left(c) = d
    BY <1>1, <1>2, <2>1, <2>2 DEF Left
  <2>4. \A n \in Int : n % TickMod \in Tick
    BY TickWraps
  <2>5. d \in Tick
    <3>1. PICK n \in Int : n = y - z
      OBVIOUS
    <3>2. PICK r \in Int : r = n % TickMod
      BY <1>1, <2>4
    <3>3. PICK e \in Int : e = x - r
      OBVIOUS
    <3>4. d = e % TickMod
      BY <2>2, <3>1, <3>2, <3>3 DEF Minus
    <3> QED
      BY <2>4, <3>4
  <2>6. (y + d) % TickMod = (z + x) % TickMod
    BY <2>1, <2>2, TimeLeft
  <2>7. Later(k, d) = (k.tick + d) % TickMod
    BY DEF Later
  <2> QED
    BY <1>2, <2>1, <2>3, <2>5, <2>6, <2>7
<1>3. CASE ~(c.time > 0)
  <2>1. c.time <= 0 /\ c.time \in Int
    <3>1. c.time \in Int
      BY <1>1
    <3> QED
      BY <1>3, <3>1
  <2>2. Left(c) = c.time
    BY <2>1 DEF Left
  <2> QED
    BY <1>1, <2>1, <2>2
<1> QED
  BY <1>2, <1>3

(* A call that finds no slot, or no mail.                                  *)
LEMMA BlocksKeep ==
    ASSUME MbInv, NEW t \in Worker,
           RecvBlocks(t) \/ \E m \in Mail : SendBlocks(t, m)
    PROVE  MbInv'
<1>1. /\ KernelInv /\ CallsOK /\ WaitsAgree(k, pc, Lists) /\ BoxOK
      /\ t \in Thread /\ k \in KernelState /\ Size \in Nat
      /\ At(t, "run") /\ k.lock = 0 /\ life = "live"
      /\ UNCHANGED irq /\ UNCHANGED box /\ UNCHANGED life
  BY MailboxAssumption DEF MbInv, KernelInv, Sound, Linked, Worker,
     RecvBlocks, SendBlocks, MayBlock
<1>2. \A o \in Object : Lists[t] \subseteq {o}
  <2>1. pc[t] = "run"
    BY <1>1 DEF At
  <2>2. Lists[t] = {}
    BY <1>1, <2>1 DEF WaitsAgree
  <2> QED
    BY <2>2
<1>3. 0 \in Tick /\ k.tick \in Tick /\ Tick \subseteq Int /\ WaitTimes \subseteq Int
  <2>1. 0 \in Tick /\ Tick \subseteq Int
    BY KernelAssumption DEF Tick
  <2> QED
    BY <1>1, <2>1, MailboxAssumption DEF KernelState
<1>4. ASSUME NEW time \in WaitTimes \ {0}
      PROVE  /\ Deadline(time) \in Tick
             /\ time > 0 => Later(k, time) = Deadline(time)
  <2>1. PICK n \in Int : n = k.tick + time
    <3>1. k.tick \in Int /\ time \in Int
      BY <1>3
    <3> QED
      BY <3>1
  <2>2. n % TickMod \in Tick
    BY TickWraps
  <2>3. Later(k, time) = n % TickMod
    BY <2>1 DEF Later
  <2> QED
    BY <1>3, <2>2, <2>3 DEF Deadline
<1>5. ASSUME RecvBlocks(t)
      PROVE  MbInv'
  <2>1. PICK time \in WaitTimes \ {0} :
           Suspend(t, Receivers, [op |-> "recv", mail |-> "none", time |-> time,
                                  start |-> 0, deadline |-> Deadline(time)])
    BY <1>5 DEF RecvBlocks
  <2>2. PICK c : c = [op |-> "recv", mail |-> "none", time |-> time,
                      start |-> 0, deadline |-> Deadline(time)]
    OBVIOUS
  <2>3. c \in CallRecord /\ c.op = "recv" /\ c.time = time /\ c.time # 0
        /\ c.deadline = Deadline(time)
    BY <1>3, <1>4, <2>2 DEF CallRecord
  <2>4. Amount(Receivers) = 0
    BY <1>5 DEF RecvBlocks, Empty, Amount
  <2>5. c.time > 0 => Later(k, c.time) = c.deadline
    BY <1>4, <2>3
  <2>6. Suspend(t, Receivers, c)
    BY <2>1, <2>2
  <2> QED
    BY <1>1, <1>2, <2>3, <2>4, <2>5, <2>6, ListsAre, SuspendKeeps
<1>6. ASSUME NEW m \in Mail, SendBlocks(t, m)
      PROVE  MbInv'
  <2>1. PICK time \in WaitTimes \ {0} :
           Suspend(t, Senders, [op |-> "send", mail |-> m, time |-> time,
                                start |-> 0, deadline |-> Deadline(time)])
    BY <1>6 DEF SendBlocks
  <2>2. PICK c : c = [op |-> "send", mail |-> m, time |-> time,
                      start |-> 0, deadline |-> Deadline(time)]
    OBVIOUS
  <2>3. c \in CallRecord /\ c.op = "send" /\ c.mail \in Mail
        /\ c.time = time /\ c.time # 0 /\ c.deadline = Deadline(time)
    BY <1>3, <1>4, <2>2 DEF CallRecord
  <2>4. Amount(Senders) = 0
    BY <1>1, <1>6, ListsAre DEF SendBlocks, Full, Amount
  <2>5. c.time > 0 => Later(k, c.time) = c.deadline
    BY <1>4, <2>3
  <2>6. Suspend(t, Senders, c)
    BY <2>1, <2>2
  <2> QED
    BY <1>1, <1>2, <2>3, <2>4, <2>5, <2>6, ListsAre, SuspendKeeps
<1> QED
  BY <1>5, <1>6

(* A waiter that was woken in vain.                                        *)
LEMMA WaitsOnKeep ==
    ASSUME MbInv, NEW t \in Worker, SendWaitsOn(t) \/ RecvWaitsOn(t)
    PROVE  MbInv'
<1>1. PICK op \in {"send", "recv"}, o \in {Senders, Receivers} :
         /\ Resumed(t, op)
         /\ \/ op = "send" /\ o = Senders /\ Full
            \/ op = "recv" /\ o = Receivers /\ Empty
         /\ IF Left(call[t]) = 0
            THEN /\ k' = k \/ k' = [k EXCEPT !.error[t] = "TIMEOUT"]
                 /\ Goto(t, "run") /\ EndCall(t)
            ELSE Suspend(t, o, [call[t] EXCEPT !.time = Left(call[t])])
         /\ UNCHANGED irq /\ UNCHANGED box /\ UNCHANGED life
  BY DEF SendWaitsOn, RecvWaitsOn
<1>2. /\ KernelInv /\ CallsOK /\ WaitsAgree(k, pc, Lists) /\ BoxOK /\ LockRuns
      /\ t \in Thread /\ k \in KernelState /\ Size \in Nat /\ entry \in Int
      /\ At(t, "woken") /\ life = "live" /\ call[t].op = op
  BY <1>1, ResumedIsLive, MailboxAssumption
     DEF MbInv, KernelInv, Sound, Linked, Worker, Resumed, BoxOK
<1>3. /\ o \in Object /\ Amount(o) = 0 /\ Lists[t] = {o}
  BY <1>1, <1>2, ListsAre DEF Amount, Full, Empty
<1>4. CASE Left(call[t]) = 0
  <2>1. \A x \in Object : t \in Pending(k, Lists, x) => Amount(x) = 0
    BY <1>3 DEF Pending
  <2> QED
    BY <1>1, <1>2, <1>4, <2>1, FailsKeep
<1>5. CASE Left(call[t]) # 0
  <2>1. PICK b \in CallRecord : b = call[t]
    BY <1>2 DEF CallsOK
  <2>2. PICK left, c : left = Left(b) /\ c = [b EXCEPT !.time = left]
    OBVIOUS
  <2>3. /\ b.op = op
        /\ b.op = "send" => b.mail \in Mail
        /\ b.time > 0 => (b.start + b.time) % TickMod = b.deadline
    BY <1>2, <2>1 DEF CallsOK, CallOK
  <2>4. k.tick \in Tick
    BY <1>2 DEF KernelState
  <2>5. /\ Left(b) \in WaitTimes \cup Tick
        /\ Left(b) > 0 => Later(k, Left(b)) = b.deadline
    BY <1>5, <2>1, <2>3, <2>4, LeftIs
  <2>6. /\ c \in CallRecord /\ c.op = op /\ c.mail = b.mail /\ c.time = Left(b)
        /\ c.deadline = b.deadline
    <3>1. left \in WaitTimes \cup Tick
      BY <2>2, <2>5
    <3>2. /\ c \in CallRecord /\ c.op = b.op /\ c.mail = b.mail /\ c.time = left
          /\ c.deadline = b.deadline
      BY <2>1, <2>2, <3>1 DEF CallRecord
    <3> QED
      BY <2>2, <2>3, <3>2
  <2>7. k.lock = 0
    BY <1>2 DEF LockRuns, Inside, At
  <2>8. /\ Suspend(t, o, c) /\ c.time # 0
        /\ c.op = "send" => c.mail \in Mail
        /\ c.time > 0 => Later(k, c.time) = c.deadline
    BY <1>1, <1>5, <2>1, <2>2, <2>3, <2>5, <2>6
  <2>9. (c.op = "recv" /\ o = Receivers) \/ (c.op = "send" /\ o = Senders)
    BY <1>1, <2>6
  <2>10. Lists[t] \subseteq {o} /\ UNCHANGED irq /\ UNCHANGED box /\ UNCHANGED life
    BY <1>1, <1>3
  <2> QED
    BY <1>2, <1>3, <2>6, <2>7, <2>8, <2>9, <2>10, SuspendKeeps
<1> QED
  BY <1>4, <1>5

-----------------------------------------------------------------------------
LEMMA InitInv == Init => MbInv
<1> SUFFICES ASSUME Init
             PROVE  MbInv
  OBVIOUS
<1>1. KernelInv /\ \A o \in Object : k.wait[o] = <<>>
  BY KernelInitInv DEF Init
<1>2. /\ k = Started /\ pc = [t \in Thread |-> "run"]
      /\ call = [t \in Thread |-> NoCall] /\ life = "live"
      /\ in = 0 /\ out = 0 /\ entry = 0 /\ pool = [i \in Slot |-> "none"]
  BY DEF Init, KernelInit
<1>3. BoxOK
  <2>1. Size \in Nat /\ Size > 0
    BY MailboxAssumption
  <2> QED
    BY <1>2, <2>1 DEF BoxOK, Slot
<1>4. CallsOK
  BY <1>2, NoCallIs DEF CallsOK, CallOK
<1>5. LockRuns
  BY <1>2 DEF LockRuns, Started
<1>6. WaitsAgree(k, pc, Lists)
  <2>1. \A t \in Thread : Lists[t] = {} /\ pc[t] = "run"
    BY <1>2, <1>4, ListsAre, NoCallIs
  <2>2. \A o \in Object, t \in Thread : t \notin Range(k.wait[o])
    BY <1>1 DEF Range
  <2> QED
    BY <1>4, <2>1, <2>2, ListsAre DEF WaitsAgree
<1>7. ServedOK /\ LifeOK
  BY <1>1, <1>2 DEF ServedOK, Served, LifeOK
<1> QED
  BY <1>1, <1>3, <1>4, <1>5, <1>6, <1>7 DEF MbInv

LEMMA StutterKeeps ==
    ASSUME MbInv, UNCHANGED vars
    PROVE  MbInv'
<1>1. /\ UNCHANGED k /\ UNCHANGED pc /\ UNCHANGED irq /\ UNCHANGED call
      /\ UNCHANGED life /\ UNCHANGED pool /\ UNCHANGED in /\ UNCHANGED out
      /\ UNCHANGED entry
  BY DEF vars, kernelVars, box
<1>2. Lists' = Lists
  BY <1>1 DEF Lists, InList
<1>3. KernelInv'
  BY <1>1 DEF MbInv, KernelInv, PcAgrees, NoneStranded
<1>4. LockRuns' /\ BoxOK' /\ CallsOK'
  BY <1>1 DEF MbInv, LockRuns, Inside, BoxOK, CallsOK, CallOK
<1>5. WaitsAgree(k, pc, Lists)'
  BY <1>1, <1>2 DEF MbInv
<1>6. ServedOK'
  BY <1>1, <1>2 DEF MbInv, ServedOK, Amount
<1>7. LifeOK'
  BY <1>1, <1>2 DEF MbInv, LifeOK
<1> QED
  BY <1>3, <1>4, <1>5, <1>6, <1>7 DEF MbInv

LEMMA NextKeeps == MbInv /\ [Next]_vars => MbInv'
<1> SUFFICES ASSUME MbInv, [Next]_vars
             PROVE  MbInv'
  OBVIOUS
<1>1. CASE UNCHANGED vars
  BY <1>1, StutterKeeps
<1>2. CASE KernelStep
  BY <1>2, KernelStepKeeps
<1>3. CASE HandlerStep
  BY <1>3, HandlerKeeps
<1>4. ASSUME NEW t \in Worker, MailStep(t)
      PROVE  MbInv'
  <2>1. CASE \/ \E m \in Mail : SendNow(t, m) \/ Urgent(t, m)
             \/ SendResumes(t) \/ RecvNow(t) \/ RecvResumes(t)
    BY <2>1, MovesKeep
  <2>2. CASE RecvBlocks(t) \/ \E m \in Mail : SendBlocks(t, m)
    BY <2>2, BlocksKeep
  <2>3. CASE SendWaitsOn(t) \/ RecvWaitsOn(t)
    BY <2>3, WaitsOnKeep
  <2>4. CASE CallFails(t)
    BY <2>4, CallFailsKeeps
  <2>5. CASE ResetWake(t) \/ DetachWake(t)
    BY <2>5, AbortKeeps
  <2>6. CASE \/ ResetBegin(t) \/ ResetEnd(t)
             \/ DetachBegin(t) \/ DetachTest(t) \/ DetachHalt(t)
             \/ DetachNext(t) \/ DetachEnd(t) \/ MbInit(t)
    BY <2>6, QuietKeeps
  <2>7. CASE Halted(t)
    BY <2>7, StutterKeeps DEF Halted
  <2> QED
    BY <1>4, <2>1, <2>2, <2>3, <2>4, <2>5, <2>6, <2>7 DEF MailStep
<1> QED
  BY <1>1, <1>2, <1>3, <1>4 DEF Next

-----------------------------------------------------------------------------
(* The mailbox as AbstractMailbox sees it: n mails from slot o on.         *)
Content == Mail \cup {"none"}

Ring(p, o, n) == [i \in 1 .. n |-> p[(o + i - 1) % Size]]

Back(o) == IF o > 0 THEN o - 1 ELSE Size - 1

LEMMA PlaceIs ==
    ASSUME NEW o \in Slot, NEW i \in 1 .. Size
    PROVE  /\ (o + i - 1) % Size =
                 IF o + i - 1 < Size THEN o + i - 1 ELSE o + i - 1 - Size
           /\ (o + i - 1) % Size \in Slot
<1>1. /\ Size \in Nat /\ Size > 0
      /\ o \in Int /\ 0 <= o /\ o < Size /\ i \in Int /\ 1 <= i /\ i <= Size
  BY MailboxAssumption DEF Slot
<1>2. PICK y \in Slot : y = i - 1
  BY <1>1 DEF Slot
<1>3. o + i - 1 = o + y
  BY <1>2
<1>4. (o + y) % Size = IF o + y < Size THEN o + y ELSE o + y - Size
  BY <1>2, RingWraps
<1>5. (IF o + y < Size THEN o + y ELSE o + y - Size) \in Slot
  BY <1>1, <1>2 DEF Slot
<1>6. o + i - 1 - Size = o + y - Size
  BY <1>1, <1>2
<1> QED
  BY <1>3, <1>4, <1>5, <1>6

LEMMA RingIs ==
    ASSUME NEW p \in [Slot -> Content], NEW o \in Slot, NEW n \in 0 .. Size
    PROVE  /\ Ring(p, o, n) \in Seq(Content)
           /\ Len(Ring(p, o, n)) = n
           /\ \A i \in 1 .. n : Ring(p, o, n)[i] = p[(o + i - 1) % Size]
<1>1. Size \in Nat /\ n \in Nat
  BY MailboxAssumption
<1>2. \A i \in 1 .. n : p[(o + i - 1) % Size] \in Content
  BY <1>1, PlaceIs
<1>3. Ring(p, o, n) \in [1 .. n -> Content]
  BY <1>2 DEF Ring
<1>4. Ring(p, o, n) \in Seq(Content)
  BY <1>1, <1>3, SeqDef
<1> QED
  BY <1>1, <1>3, <1>4 DEF Ring

LEMMA RingAppends ==
    ASSUME NEW p \in [Slot -> Content], NEW o \in Slot, NEW n \in 0 .. Size,
           n < Size, NEW m \in Mail, NEW q,
           q = [p EXCEPT ![(o + n) % Size] = m]
    PROVE  Ring(q, o, n + 1) = Append(Ring(p, o, n), m)
<1> DEFINE r == Ring(p, o, n)
           s == Ring(q, o, n + 1)
<1>1. /\ Size \in Nat /\ Size > 0 /\ n \in Nat /\ n + 1 \in 0 .. Size
      /\ n + 1 \in 1 .. Size
      /\ o \in Int /\ 0 <= o /\ o < Size /\ m \in Content
  BY MailboxAssumption DEF Slot, Content
<1>2. q \in [Slot -> Content]
  BY <1>1
<1>3. /\ s \in Seq(Content) /\ Len(s) = n + 1
      /\ \A i \in 1 .. n + 1 : s[i] = q[(o + i - 1) % Size]
  BY <1>1, <1>2, RingIs
<1>4. /\ r \in Seq(Content) /\ Len(r) = n
      /\ \A i \in 1 .. n : r[i] = p[(o + i - 1) % Size]
  BY RingIs
<1>5. o + (n + 1) - 1 = o + n
  BY <1>1
<1>6. (o + n) % Size \in Slot
  BY <1>1, <1>5, PlaceIs
<1>7. ASSUME NEW i \in 1 .. n + 1
      PROVE  s[i] = IF i = n + 1 THEN m ELSE r[i]
  <2>1. CASE i = n + 1
    <3>1. (o + i - 1) % Size = (o + n) % Size
      BY <1>5, <2>1
    <3> QED
      BY <1>3, <1>6, <2>1, <3>1
  <2>2. CASE i # n + 1
    <3>1. i \in 1 .. n /\ i \in 1 .. Size /\ i \in Int
      BY <1>1, <2>2
    <3>2. PICK a, b : a = (o + i - 1) % Size /\ b = (o + (n + 1) - 1) % Size
      OBVIOUS
    <3>3. /\ a = IF o + i - 1 < Size THEN o + i - 1 ELSE o + i - 1 - Size
          /\ b = IF o + (n + 1) - 1 < Size THEN o + (n + 1) - 1
                 ELSE o + (n + 1) - 1 - Size
          /\ a \in Slot
      BY <1>1, <3>1, <3>2, PlaceIs
    <3>4. a # b
      BY <1>1, <3>1, <3>3
    <3>5. q[a] = p[a]
      BY <1>5, <3>2, <3>3, <3>4
    <3> QED
      BY <1>3, <1>4, <2>2, <3>1, <3>2, <3>5
  <2> QED
    BY <2>1, <2>2
<1> HIDE DEF r, s
<1>8. /\ Append(r, m) \in Seq(Content) /\ Len(Append(r, m)) = n + 1
      /\ \A i \in 1 .. n + 1 : Append(r, m)[i] = IF i = n + 1 THEN m ELSE r[i]
  BY <1>1, <1>4
<1>9. s = Append(r, m)
  BY <1>3, <1>7, <1>8, SeqEqual
<1> QED
  BY <1>9 DEF r, s

LEMMA RingPrepends ==
    ASSUME NEW p \in [Slot -> Content], NEW o \in Slot, NEW n \in 0 .. Size,
           n < Size, NEW m \in Mail, NEW q, q = [p EXCEPT ![Back(o)] = m]
    PROVE  Ring(q, Back(o), n + 1) = <<m>> \o Ring(p, o, n)
<1> DEFINE r == Ring(p, o, n)
           prev == Back(o)
           s == Ring(q, prev, n + 1)
<1>1. /\ Size \in Nat /\ Size > 0 /\ n \in Nat /\ n + 1 \in 0 .. Size
      /\ o \in Int /\ 0 <= o /\ o < Size /\ m \in Content
  BY MailboxAssumption DEF Slot, Content
<1>2. /\ prev \in Slot /\ prev \in Int /\ 0 <= prev /\ prev < Size
      /\ prev = IF o > 0 THEN o - 1 ELSE Size - 1
  BY <1>1 DEF Slot, Back
<1> HIDE DEF prev
<1>3. q \in [Slot -> Content]
  BY <1>1, <1>2 DEF prev
<1>4. /\ s \in Seq(Content) /\ Len(s) = n + 1
      /\ \A i \in 1 .. n + 1 : s[i] = q[(prev + i - 1) % Size]
  <2>1. prev \in Slot /\ n + 1 \in 0 .. Size
    BY <1>1, <1>2
  <2> QED
    BY <1>3, <2>1, RingIs
<1>5. /\ r \in Seq(Content) /\ Len(r) = n
      /\ \A i \in 1 .. n : r[i] = p[(o + i - 1) % Size]
  BY RingIs
<1>6. ASSUME NEW i \in 1 .. n + 1
      PROVE  s[i] = IF i = 1 THEN m ELSE r[i - 1]
  <2>1. i \in 1 .. Size /\ i \in Int /\ 1 <= i /\ i <= Size
    BY <1>1
  <2>2. PICK b : b = (prev + i - 1) % Size
    OBVIOUS
  <2>3. b = IF prev + i - 1 < Size THEN prev + i - 1 ELSE prev + i - 1 - Size
    BY <1>2, <2>1, <2>2, PlaceIs
  <2>4. CASE i = 1
    <3>1. b = prev
      BY <1>1, <1>2, <2>1, <2>3, <2>4
    <3> QED
      BY <1>2, <1>4, <2>2, <2>4, <3>1 DEF prev
  <2>5. CASE i # 1
    <3>1. PICK j \in 1 .. n : j = i - 1
      BY <1>1, <2>1, <2>5
    <3>2. j \in 1 .. Size /\ j \in Int /\ i = j + 1
      BY <1>1, <2>1, <3>1
    <3>3. PICK a : a = (o + j - 1) % Size
      OBVIOUS
    <3>4. /\ a = IF o + j - 1 < Size THEN o + j - 1 ELSE o + j - 1 - Size
          /\ a \in Slot
      BY <3>2, <3>3, PlaceIs
    <3>5. a = b /\ b # prev
      BY <1>1, <1>2, <2>1, <2>3, <2>5, <3>2, <3>4
    <3>6. q[b] = p[a]
      BY <3>4, <3>5 DEF prev
    <3> QED
      BY <1>4, <1>5, <2>2, <2>5, <3>1, <3>3, <3>6
  <2> QED
    BY <2>4, <2>5
<1> HIDE DEF r, s
<1>7. /\ <<m>> \in Seq(Content) /\ Len(<<m>>) = 1 /\ <<m>>[1] = m
  BY <1>1
<1>8. /\ <<m>> \o r \in Seq(Content) /\ Len(<<m>> \o r) = n + 1
      /\ \A i \in 1 .. n + 1 : (<<m>> \o r)[i] = IF i = 1 THEN m ELSE r[i - 1]
  <2>1. /\ <<m>> \o r \in Seq(Content) /\ Len(<<m>> \o r) = 1 + n
        /\ \A i \in 1 .. 1 + n :
              (<<m>> \o r)[i] = IF i <= 1 THEN <<m>>[i] ELSE r[i - 1]
    BY <1>5, <1>7, ConcatProperties
  <2> QED
    BY <1>1, <1>7, <2>1
<1>9. s = <<m>> \o r
  BY <1>4, <1>6, <1>8, SeqEqual
<1> QED
  BY <1>9 DEF r, s, prev

LEMMA RingDrops ==
    ASSUME NEW p \in [Slot -> Content], NEW o \in Slot, NEW n \in 0 .. Size,
           n # 0, NEW q, q = [p EXCEPT ![o] = "none"]
    PROVE  Ring(p, o, n) # <<>> /\ Ring(q, Step(o), n - 1) = Tail(Ring(p, o, n))
<1> DEFINE r == Ring(p, o, n)
           s == Ring(q, Step(o), n - 1)
<1>1. /\ Size \in Nat /\ Size > 0 /\ n \in Nat /\ n > 0 /\ n <= Size
      /\ n - 1 \in 0 .. Size /\ o \in Int /\ 0 <= o /\ o < Size
  BY MailboxAssumption DEF Slot
<1>2. Step(o) \in Slot /\ Step(o) = IF o + 1 >= Size THEN 0 ELSE o + 1
  BY <1>1 DEF Slot, Step
<1>3. q \in [Slot -> Content]
  BY DEF Content
<1>4. /\ s \in Seq(Content) /\ Len(s) = n - 1
      /\ \A i \in 1 .. n - 1 : s[i] = q[(Step(o) + i - 1) % Size]
  <2>1. Step(o) \in Slot /\ n - 1 \in 0 .. Size
    BY <1>1, <1>2
  <2> QED
    BY <1>3, <2>1, RingIs
<1>5. /\ r \in Seq(Content) /\ Len(r) = n
      /\ \A i \in 1 .. n : r[i] = p[(o + i - 1) % Size]
  BY RingIs
<1>6. ASSUME NEW i \in 1 .. n - 1
      PROVE  s[i] = r[i + 1]
  <2>1. PICK j \in 1 .. n : j = i + 1
    BY <1>1
  <2>2. /\ i \in 1 .. Size /\ i \in Int /\ 1 <= i /\ i < Size
        /\ j \in 1 .. Size /\ j \in Int
    BY <1>1, <2>1
  <2>3. PICK a, b : a = (o + j - 1) % Size /\ b = (Step(o) + i - 1) % Size
    OBVIOUS
  <2>4. /\ a = IF o + j - 1 < Size THEN o + j - 1 ELSE o + j - 1 - Size
        /\ b = IF Step(o) + i - 1 < Size THEN Step(o) + i - 1
               ELSE Step(o) + i - 1 - Size
        /\ a \in Slot
    BY <1>2, <2>2, <2>3, PlaceIs
  <2>5. a = b /\ a # o
    BY <1>1, <1>2, <2>1, <2>2, <2>4
  <2>6. q[b] = p[a]
    BY <2>4, <2>5
  <2> QED
    BY <1>4, <1>5, <2>1, <2>3, <2>6
<1> HIDE DEF r, s
<1>7. r # <<>>
  BY <1>1, <1>5, EmptySeq
<1>8. /\ Tail(r) \in Seq(Content) /\ Len(Tail(r)) = n - 1
      /\ \A i \in 1 .. n - 1 : Tail(r)[i] = r[i + 1]
  BY <1>5, <1>7, HeadTailProperties
<1>9. s = Tail(r)
  BY <1>4, <1>6, <1>8, SeqEqual
<1> QED
  BY <1>7, <1>9 DEF r, s

LEMMA RingEmpties ==
    ASSUME NEW p \in [Slot -> Content], NEW o \in Slot, NEW n \in 0 .. Size
    PROVE  Ring(p, o, n) = <<>> <=> n = 0
<1>1. Size \in Nat /\ n \in Nat
  BY MailboxAssumption
<1>2. Ring(p, o, n) \in Seq(Content) /\ Len(Ring(p, o, n)) = n
  BY RingIs
<1> QED
  BY <1>1, <1>2, EmptySeq

-----------------------------------------------------------------------------
(* Each step of the mailbox is a step of AbstractMailbox or none of it.    *)
Queue == Ring(pool, out, entry)

Phases == [t \in Thread |-> PhaseOf(t)]

Promised == [Abstract!Next]_<<Queue, Phases>>

(* What the phases tell of a step.                                         *)
LEMMA PhaseIs ==
    ASSUME CallsOK, NEW t \in Thread
    PROVE  /\ call[t].op = "send" => PhaseOf(t) = <<"sending", call[t].mail>>
           /\ call[t].op = "recv" => PhaseOf(t) = <<"receiving">>
           /\ call[t].op = "none" => PhaseOf(t) = <<"out">>
           /\ call[t].op \in {"none", "send", "recv"}
<1>1. call[t] \in CallRecord
  BY DEF CallsOK
<1>2. call[t].op \in {"none", "send", "recv"}
  BY <1>1 DEF CallRecord
<1> QED
  BY <1>2 DEF PhaseOf

(* A step that changes the call of one thread only.                        *)
LEMMA PhaseMoves ==
    ASSUME CallsOK, NEW t \in Thread, NEW c, NEW ph,
           call' = [call EXCEPT ![t] = c],
           \/ c.op = "send" /\ ph = <<"sending", c.mail>>
           \/ c.op = "recv" /\ ph = <<"receiving">>
           \/ c.op = "none" /\ ph = <<"out">>
    PROVE  Phases' = [Phases EXCEPT ![t] = ph]
<1>1. call'[t] = c /\ \A u \in Thread \ {t} : call'[u] = call[u]
  BY DEF CallsOK
<1>2. PhaseOf(t)' = ph
  BY <1>1 DEF PhaseOf
<1>3. \A u \in Thread \ {t} : PhaseOf(u)' = PhaseOf(u)
  BY <1>1 DEF PhaseOf
<1> QED
  BY <1>2, <1>3 DEF Phases

LEMMA PhasesStay ==
    ASSUME UNCHANGED call
    PROVE  UNCHANGED Phases
BY DEF Phases, PhaseOf

LEMMA PhaseLeaves ==
    ASSUME CallsOK, NEW t \in Thread, EndCall(t)
    PROVE  Abstract!Leave(t, PhaseOf(t))
<1>1. Phases' = [Phases EXCEPT ![t] = <<"out">>]
  <2>1. PICK c, ph : c = NoCall /\ ph = <<"out">>
    OBVIOUS
  <2>2. c.op = "none" /\ call' = [call EXCEPT ![t] = c]
    BY <2>1 DEF EndCall, NoCall
  <2> QED
    BY <2>1, <2>2, PhaseMoves
<1> QED
  BY <1>1 DEF Abstract!Leave, Phases

LEMMA PhaseEnters ==
    ASSUME CallsOK, NEW t \in Thread, NEW c, NEW ph, call[t].op = "none",
           call' = [call EXCEPT ![t] = c],
           \/ c.op = "send" /\ ph = <<"sending", c.mail>>
           \/ c.op = "recv" /\ ph = <<"receiving">>
    PROVE  Abstract!Enter(t, ph)
<1>1. Phases' = [Phases EXCEPT ![t] = ph]
  BY PhaseMoves
<1>2. Phases[t] = <<"out">>
  BY PhaseIs DEF Phases
<1> QED
  BY <1>1, <1>2 DEF Abstract!Enter, Phases

(* What the masked regions do to the queue.                                *)
LEMMA QueueMoves ==
    ASSUME BoxOK
    PROVE  /\ \A m \in Mail : ~Full /\ PutBack(m) =>
                 entry < Size /\ Queue' = Append(Queue, m)
           /\ \A m \in Mail : ~Full /\ PutFront(m) =>
                 entry < Size /\ Queue' = <<m>> \o Queue
           /\ ~Empty /\ TakeFront => Queue # <<>> /\ Queue' = Tail(Queue)
           /\ Emptied => Queue' = <<>>
<1>1. /\ pool \in [Slot -> Content] /\ out \in Slot /\ entry \in 0 .. Size
      /\ in = (out + entry) % Size /\ Size \in Nat /\ Size > 0 /\ 0 \in Slot
  BY MailboxAssumption DEF BoxOK, Content, Slot
<1>2. ~Full => entry < Size
  BY <1>1 DEF Full
<1>3. ~Empty => entry # 0
  BY DEF Empty
<1>4. ASSUME NEW m \in Mail, ~Full, PutBack(m)
      PROVE  Queue' = Append(Queue, m)
  <2>1. PICK q : q = [pool EXCEPT ![(out + entry) % Size] = m]
    OBVIOUS
  <2>2. Ring(q, out, entry + 1) = Append(Ring(pool, out, entry), m)
    BY <1>1, <1>2, <1>4, <2>1, RingAppends
  <2>3. pool' = q /\ out' = out /\ entry' = entry + 1
    BY <1>1, <1>4, <2>1 DEF PutBack
  <2> QED
    BY <2>2, <2>3 DEF Queue
<1>5. ASSUME NEW m \in Mail, ~Full, PutFront(m)
      PROVE  Queue' = <<m>> \o Queue
  <2>1. PICK q : q = [pool EXCEPT ![Back(out)] = m]
    OBVIOUS
  <2>2. Ring(q, Back(out), entry + 1) = <<m>> \o Ring(pool, out, entry)
    BY <1>1, <1>2, <1>5, <2>1, RingPrepends
  <2>3. pool' = q /\ out' = Back(out) /\ entry' = entry + 1
    BY <1>5, <2>1 DEF PutFront, Back
  <2> QED
    BY <2>2, <2>3 DEF Queue
<1>6. ASSUME ~Empty, TakeFront
      PROVE  Queue # <<>> /\ Queue' = Tail(Queue)
  <2>1. PICK q, o : q = [pool EXCEPT ![out] = "none"] /\ o = Step(out)
    OBVIOUS
  <2>2. /\ Ring(pool, out, entry) # <<>>
        /\ Ring(q, o, entry - 1) = Tail(Ring(pool, out, entry))
    BY <1>1, <1>3, <1>6, <2>1, RingDrops
  <2>3. pool' = q /\ out' = o /\ entry' = entry - 1
    BY <1>6, <2>1 DEF TakeFront
  <2> QED
    BY <2>2, <2>3 DEF Queue
<1>7. ASSUME Emptied
      PROVE  Queue' = <<>>
  <2>1. PICK q : q = [i \in Slot |-> "none"]
    OBVIOUS
  <2>2. q \in [Slot -> Content] /\ 0 \in 0 .. Size
    BY <1>1, <2>1 DEF Content
  <2>3. Ring(q, 0, 0) = <<>>
    BY <1>1, <2>2, RingEmpties
  <2>4. pool' = q /\ out' = 0 /\ entry' = 0
    BY <1>7, <2>1 DEF Emptied
  <2> QED
    BY <2>3, <2>4 DEF Queue
<1> QED
  BY <1>2, <1>4, <1>5, <1>6, <1>7

LEMMA QueueIs ==
    ASSUME BoxOK
    PROVE  /\ Queue = <<>> <=> Empty
           /\ Len(Queue) = entry /\ entry \in 0 .. Size /\ Size \in Nat
           /\ Full <=> Len(Queue) = Size
<1>1. /\ pool \in [Slot -> Content] /\ out \in Slot /\ entry \in 0 .. Size
      /\ Size \in Nat
  BY MailboxAssumption DEF BoxOK, Content
<1>2. Queue = <<>> <=> entry = 0
  BY <1>1, RingEmpties DEF Queue
<1>3. Len(Queue) = entry
  BY <1>1, RingIs DEF Queue
<1> QED
  BY <1>1, <1>2, <1>3 DEF Empty, Full

LEMMA StutterMaps ==
    ASSUME UNCHANGED box, UNCHANGED call
    PROVE  Promised
<1>1. UNCHANGED Queue
  BY DEF Queue, Ring, box
<1> QED
  BY <1>1, PhasesStay DEF Promised

(* The abstract steps by what they do to queue and phases.                 *)
LEMMA AbstractSteps ==
    ASSUME CallsOK, BoxOK
    PROVE  /\ \A m \in Mail : ~Full /\ PutBack(m)
                 /\ (UNCHANGED call \/ \E t \in Thread : EndCall(t)
                        /\ call[t].op = "send" /\ call[t].mail = m) => Promised
           /\ \A m \in Mail : ~Full /\ PutFront(m) /\ UNCHANGED call => Promised
           /\ ~Empty /\ TakeFront
                 /\ (UNCHANGED call \/ \E t \in Thread : EndCall(t)
                        /\ call[t].op = "recv") => Promised
           /\ Emptied /\ UNCHANGED call => Promised
<1>1. /\ \A m \in Mail : ~Full /\ PutBack(m) =>
            Len(Queue) < Size /\ Queue' = Append(Queue, m)
      /\ \A m \in Mail : ~Full /\ PutFront(m) =>
            Len(Queue) < Size /\ Queue' = <<m>> \o Queue
      /\ ~Empty /\ TakeFront => Queue # <<>> /\ Queue' = Tail(Queue)
      /\ Emptied => Queue' = <<>>
  BY QueueMoves, QueueIs
<1>2. UNCHANGED call => UNCHANGED Phases
  BY PhasesStay
<1>3. ASSUME NEW m \in Mail, ~Full, PutBack(m),
             UNCHANGED call \/ \E t \in Thread :
                EndCall(t) /\ call[t].op = "send" /\ call[t].mail = m
      PROVE  Promised
  <2>1. \/ UNCHANGED Phases
        \/ \E t \in Thread : Abstract!Leave(t, <<"sending", m>>)
    BY <1>2, <1>3, PhaseLeaves, PhaseIs
  <2>2. Abstract!Send(m)
    BY <1>1, <1>3, <2>1 DEF Abstract!Send, Queue, Ring, Phases
  <2> QED
    BY <2>2 DEF Promised, Abstract!Next
<1>4. ASSUME NEW m \in Mail, ~Full, PutFront(m), UNCHANGED call
      PROVE  Promised
  <2>1. Abstract!Urgent(m)
    BY <1>1, <1>2, <1>4 DEF Abstract!Urgent, Queue, Ring, Phases
  <2> QED
    BY <2>1 DEF Promised, Abstract!Next
<1>5. ASSUME ~Empty, TakeFront,
             UNCHANGED call \/ \E t \in Thread :
                EndCall(t) /\ call[t].op = "recv"
      PROVE  Promised
  <2>1. \/ UNCHANGED Phases
        \/ \E t \in Thread : Abstract!Leave(t, <<"receiving">>)
    BY <1>2, <1>5, PhaseLeaves, PhaseIs
  <2>2. Abstract!Receive
    BY <1>1, <1>5, <2>1 DEF Abstract!Receive, Queue, Ring, Phases
  <2> QED
    BY <2>2 DEF Promised, Abstract!Next
<1>6. ASSUME Emptied, UNCHANGED call
      PROVE  Promised
  <2>1. Abstract!Clear
    BY <1>1, <1>2, <1>6 DEF Abstract!Clear, Queue, Ring, Phases
  <2> QED
    BY <2>1 DEF Promised, Abstract!Next
<1> QED
  BY <1>3, <1>4, <1>5, <1>6

(* A call blocks for the first time, waits on, or gives up.                *)
LEMMA AsksMap ==
    ASSUME CallsOK, BoxOK, UNCHANGED box, NEW t \in Worker, NEW c,
           call[t].op = "none", call' = [call EXCEPT ![t] = c],
           \/ c.op = "send" /\ c.mail \in Mail /\ Full
           \/ c.op = "recv" /\ Empty
    PROVE  Promised
<1>1. UNCHANGED Queue /\ t \in Thread
  BY DEF Queue, Ring, box, Worker
<1>2. CASE c.op = "send" /\ c.mail \in Mail /\ Full
  <2>1. PICK ph : ph = <<"sending", c.mail>>
    OBVIOUS
  <2>2. Abstract!Enter(t, ph)
    BY <1>1, <1>2, <2>1, PhaseEnters
  <2>3. Len(Queue) = Size
    BY <1>2, QueueIs
  <2>4. Abstract!AskSend(t, c.mail)
    BY <1>1, <2>1, <2>2, <2>3 DEF Abstract!AskSend, Queue, Ring
  <2> QED
    BY <1>1, <1>2, <2>4 DEF Promised, Abstract!Next
<1>3. CASE c.op = "recv" /\ Empty
  <2>1. PICK ph : ph = <<"receiving">>
    OBVIOUS
  <2>2. Abstract!Enter(t, ph)
    BY <1>1, <1>3, <2>1, PhaseEnters
  <2>3. Queue = <<>>
    BY <1>3, QueueIs
  <2>4. Abstract!AskReceive(t)
    BY <1>1, <2>1, <2>2, <2>3 DEF Abstract!AskReceive, Queue, Ring
  <2> QED
    BY <1>1, <2>4 DEF Promised, Abstract!Next
<1> QED
  BY <1>2, <1>3

LEMMA GivesUpMaps ==
    ASSUME CallsOK, UNCHANGED box, NEW t \in Thread, EndCall(t)
    PROVE  Promised
<1>1. UNCHANGED Queue
  BY DEF Queue, Ring, box
<1>2. Abstract!Leave(t, PhaseOf(t))
  BY PhaseLeaves
<1>3. Phases[t] = PhaseOf(t)
  BY DEF Phases
<1>4. Abstract!GiveUp(t)
  BY <1>1, <1>2, <1>3 DEF Abstract!GiveUp, Phases, Queue, Ring
<1> QED
  BY <1>4 DEF Promised, Abstract!Next

LEMMA WaitsOnMaps ==
    ASSUME CallsOK, UNCHANGED box, NEW t \in Thread, NEW c,
           call' = [call EXCEPT ![t] = c], c.op = call[t].op, c.mail = call[t].mail
    PROVE  Promised
<1>1. UNCHANGED Queue
  BY DEF Queue, Ring, box
<1>2. call'[t] = c /\ \A u \in Thread \ {t} : call'[u] = call[u]
  BY DEF CallsOK
<1>3. UNCHANGED Phases
  BY <1>2 DEF Phases, PhaseOf
<1> QED
  BY <1>1, <1>3 DEF Promised

LEMMA MailStepMaps ==
    ASSUME MbInv, NEW t \in Worker, MailStep(t)
    PROVE  Promised
<1>1. /\ BoxOK /\ CallsOK /\ t \in Thread /\ call \in [Thread -> CallRecord]
      /\ WaitsAgree(k, pc, Lists)
  BY DEF MbInv, CallsOK, Worker
<1>2. At(t, "run") => call[t].op = "none"
  <2>1. HAVE At(t, "run")
  <2>2. pc[t] = "run"
    BY <2>1 DEF At
  <2>3. Lists[t] = {}
    BY <1>1, <2>2 DEF WaitsAgree
  <2> QED
    BY <1>1, <2>3, ListsAre
<1>3. CASE \E m \in Mail : SendNow(t, m) \/ Urgent(t, m)
  <2>1. PICK m \in Mail : SendNow(t, m) \/ Urgent(t, m)
    BY <1>3
  <2>2. ~Full /\ UNCHANGED call /\ (PutBack(m) \/ PutFront(m))
    BY <2>1 DEF SendNow, Urgent
  <2> QED
    BY <1>1, <2>2, AbstractSteps
<1>4. CASE SendResumes(t)
  <2>1. PICK m : m = call[t].mail
    OBVIOUS
  <2>2. /\ call[t].op = "send" /\ ~Full /\ PutBack(m) /\ EndCall(t)
    BY <1>4, <2>1 DEF SendResumes, Resumed
  <2>3. m \in Mail
    BY <1>1, <2>1, <2>2 DEF CallsOK, CallOK
  <2> QED
    BY <1>1, <2>1, <2>2, <2>3, AbstractSteps
<1>5. CASE RecvNow(t)
  <2>1. ~Empty /\ TakeFront /\ UNCHANGED call
    BY <1>5 DEF RecvNow
  <2> QED
    BY <1>1, <2>1, AbstractSteps
<1>6. CASE RecvResumes(t)
  <2>1. ~Empty /\ TakeFront /\ EndCall(t) /\ call[t].op = "recv"
    BY <1>6 DEF RecvResumes, Resumed
  <2> QED
    BY <1>1, <2>1, AbstractSteps
<1>7. CASE RecvBlocks(t) \/ \E m \in Mail : SendBlocks(t, m)
  <2>1. PICK c :
           /\ call' = [call EXCEPT ![t] = c] /\ UNCHANGED box /\ At(t, "run")
           /\ \/ c.op = "send" /\ c.mail \in Mail /\ Full
              \/ c.op = "recv" /\ Empty
    <3>1. CASE RecvBlocks(t)
      <4>1. PICK time : Suspend(t, Receivers,
                  [op |-> "recv", mail |-> "none", time |-> time,
                   start |-> 0, deadline |-> Deadline(time)])
        BY <3>1 DEF RecvBlocks
      <4>2. PICK c : /\ call' = [call EXCEPT ![t] = c]
                     /\ c.op = "recv" /\ c.mail = "none"
        <5>1. PICK d, s, c : /\ d = [op |-> "recv", mail |-> "none", time |-> time,
                                     start |-> 0, deadline |-> Deadline(time)]
                             /\ c = [d EXCEPT !.start = s]
                             /\ call' = [call EXCEPT ![t] = c]
          BY <4>1 DEF Suspend
        <5>2. c.op = "recv" /\ c.mail = "none"
          BY <5>1
        <5> QED
          BY <5>1, <5>2
      <4> QED
        BY <3>1, <4>2 DEF RecvBlocks
    <3>2. ASSUME NEW m \in Mail, SendBlocks(t, m)
          PROVE  \E c :
                    /\ call' = [call EXCEPT ![t] = c] /\ UNCHANGED box
                    /\ At(t, "run")
                    /\ \/ c.op = "send" /\ c.mail \in Mail /\ Full
                       \/ c.op = "recv" /\ Empty
      <4>1. PICK time : Suspend(t, Senders,
                  [op |-> "send", mail |-> m, time |-> time,
                   start |-> 0, deadline |-> Deadline(time)])
        BY <3>2 DEF SendBlocks
      <4>2. PICK c : /\ call' = [call EXCEPT ![t] = c]
                     /\ c.op = "send" /\ c.mail = m
        <5>1. PICK d, s, c : /\ d = [op |-> "send", mail |-> m, time |-> time,
                                     start |-> 0, deadline |-> Deadline(time)]
                             /\ c = [d EXCEPT !.start = s]
                             /\ call' = [call EXCEPT ![t] = c]
          BY <4>1 DEF Suspend
        <5>2. c.op = "send" /\ c.mail = m
          BY <5>1
        <5> QED
          BY <5>1, <5>2
      <4> QED
        BY <3>2, <4>2 DEF SendBlocks
    <3> QED
      BY <1>7, <3>1, <3>2
  <2> QED
    BY <1>1, <1>2, <2>1, AsksMap
<1>8. CASE SendWaitsOn(t) \/ RecvWaitsOn(t)
  <2>1. UNCHANGED box
    BY <1>8 DEF SendWaitsOn, RecvWaitsOn
  <2>2. EndCall(t) \/ \E o : Suspend(t, o, [call[t] EXCEPT !.time = Left(call[t])])
    BY <1>8 DEF SendWaitsOn, RecvWaitsOn
  <2>3. ASSUME NEW o, Suspend(t, o, [call[t] EXCEPT !.time = Left(call[t])])
        PROVE  Promised
    <3>1. PICK d, s, c : /\ d = [call[t] EXCEPT !.time = Left(call[t])]
                         /\ c = [d EXCEPT !.start = s]
                         /\ call' = [call EXCEPT ![t] = c]
      BY <2>3 DEF Suspend
    <3>2. call[t] \in CallRecord
      BY <1>1
    <3>3. c.op = call[t].op /\ c.mail = call[t].mail
      BY <3>1, <3>2 DEF CallRecord
    <3> QED
      BY <1>1, <2>1, <3>1, <3>3, WaitsOnMaps
  <2> QED
    BY <1>1, <2>1, <2>2, <2>3, GivesUpMaps
<1>9. CASE CallFails(t)
  BY <1>1, <1>9, GivesUpMaps DEF CallFails, box
<1>10. CASE ResetEnd(t) \/ MbInit(t)
  <2>1. Emptied /\ UNCHANGED call
    BY <1>10 DEF ResetEnd, MbInit
  <2> QED
    BY <1>1, <2>1, AbstractSteps
<1>11. CASE \/ ResetBegin(t) \/ ResetWake(t) \/ DetachBegin(t) \/ DetachTest(t)
            \/ DetachWake(t) \/ DetachHalt(t) \/ DetachNext(t) \/ DetachEnd(t)
            \/ Halted(t)
  <2>1. UNCHANGED box /\ UNCHANGED call
    BY <1>11 DEF ResetBegin, ResetWake, DetachBegin, DetachTest, DetachWake,
                 DetachHalt, DetachNext, DetachEnd, Halted, vars
  <2> QED
    BY <2>1, StutterMaps
<1> QED
  BY <1>3, <1>4, <1>5, <1>6, <1>7, <1>8, <1>9, <1>10, <1>11 DEF MailStep

LEMMA StepMaps == MbInv /\ [Next]_vars => Promised
<1> SUFFICES ASSUME MbInv, [Next]_vars
             PROVE  Promised
  OBVIOUS
<1>1. CASE UNCHANGED vars \/ KernelStep
  <2>1. UNCHANGED box /\ UNCHANGED call
    BY <1>1 DEF vars, KernelStep
  <2> QED
    BY <2>1, StutterMaps
<1>2. CASE HandlerStep
  <2>1. /\ BoxOK /\ CallsOK /\ UNCHANGED call
        /\ \/ ~Empty /\ TakeFront
           \/ \E m \in Mail : ~Full /\ (PutBack(m) \/ PutFront(m))
    BY <1>2 DEF HandlerStep, IsrRecv, IsrSend, IsrUrgent, Handler, MbInv
  <2> QED
    BY <2>1, AbstractSteps
<1>3. ASSUME NEW t \in Worker, MailStep(t)
      PROVE  Promised
  BY <1>3, MailStepMaps
<1> QED
  BY <1>1, <1>2, <1>3 DEF Next

LEMMA InitMaps == Init => Abstract!Init
<1> SUFFICES ASSUME Init
             PROVE  Abstract!Init
  OBVIOUS
<1>1. BoxOK /\ CallsOK /\ Empty
  BY InitInv DEF MbInv, Init, Empty
<1>2. Queue = <<>>
  BY <1>1, QueueIs
<1>3. \A t \in Thread : PhaseOf(t) = <<"out">>
  BY DEF Init, NoCall, PhaseOf
<1>4. Phases = [t \in Thread |-> <<"out">>]
  BY <1>3 DEF Phases
<1> QED
  BY <1>2, <1>4 DEF Abstract!Init, Queue, Ring, Phases

-----------------------------------------------------------------------------
(* The invariant of the mailbox holds in every reachable state: of the     *)
(* ring of slots, the waiting calls and their timers, and of what the      *)
(* waiters of each list are owed (rt_mb_send_wait, rt_mb_urgent,           *)
(* rt_mb_recv, rt_mb_control, rt_mb_detach).                               *)
THEOREM InductiveInvariant == Spec => []MbInv
<1>1. Init => MbInv
  BY InitInv
<1>2. MbInv /\ [Next]_vars => MbInv'
  BY NextKeeps
<1> QED
  BY <1>1, <1>2, PTL DEF Spec

(* Every variable keeps its type: in_offset and out_offset stay inside the *)
(* pool, and mb->entry between 0 and mb->size.                             *)
THEOREM TypeCorrect == Spec => []TypeOK
<1>1. MbInv => TypeOK
  BY KernelInvGives DEF MbInv, TypeOK, BoxOK, CallsOK, CallRecord, LifeOK
<1> QED
  BY <1>1, InductiveInvariant, PTL

(* The ready lists, their bitmap, the states and priorities of the threads *)
(* and the two suspend lists agree although the calls of                   *)
(* rt_mb_send_wait and rt_mb_recv suspend a thread again and               *)
(* again, with the time that is left (scheduler.c, thread.c, ipc.c).       *)
THEOREM SchedulerStaysConsistent == Spec => []SchedulerConsistent
<1>1. MbInv => SchedulerConsistent
  BY KernelInvGives DEF MbInv
<1> QED
  BY <1>1, InductiveInvariant, PTL

(* A suspended caller can be found by a wakeup of its list or has its      *)
(* timer armed, in each of its rounds in the loop of the call              *)
(* (ipc.c, thread.c).                                                      *)
THEOREM NobodyStranded == Spec => []NoneStranded
<1>1. MbInv => NoneStranded
  BY DEF MbInv, KernelInv
<1> QED
  BY <1>1, InductiveInvariant, PTL

(* While receivers wait, each mail has a receiver that was woken and will  *)
(* test the mailbox again: no mail is left lying (rt_mb_send_wait and      *)
(* rt_mb_urgent wake one receiver for each mail).                          *)
THEOREM NoMailLeftLying == Spec => []NoMailMissed
<1>1. MbInv => NoMailMissed
  BY UnfinishedIs, ListsAre DEF MbInv, ServedOK, Served, Amount, NoMailMissed
<1> QED
  BY <1>1, InductiveInvariant, PTL

(* While senders wait, each free slot has a sender that was woken and will *)
(* test the mailbox again (rt_mb_recv wakes one sender for each slot).     *)
THEOREM NoSlotLeftFree == Spec => []NoSlotMissed
<1>1. MbInv => NoSlotMissed
  BY UnfinishedIs, ListsAre DEF MbInv, ServedOK, Served, Amount, NoSlotMissed
<1> QED
  BY <1>1, InductiveInvariant, PTL

(* However often a caller is woken in vain, the timeout that the call      *)
(* recomputes ends at the tick at which it was to end when it was made.    *)
THEOREM LimitsKept == Spec => []DeadlineKept
<1>1. MbInv => DeadlineKept
  BY DEF MbInv, CallsOK, CallOK, DeadlineKept
<1> QED
  BY <1>1, InductiveInvariant, PTL

(* The ring of slots is a bounded queue: each mail that rt_mb_send_wait or *)
(* rt_mb_urgent accepts is received once and in order, a waiting call that *)
(* fails has sent and taken nothing, and one that succeeds has moved its   *)
(* own mail.                                                               *)
THEOREM MailboxRefines == Spec => ImplementsMailbox
<1>1. Init => MbInv /\ Abstract!Init
  BY InitInv, InitMaps
<1>2. MbInv /\ [Next]_vars => MbInv' /\ Promised
  BY NextKeeps, StepMaps
<1> QED
  BY <1>1, <1>2, PTL DEF Spec, ImplementsMailbox, Abstract!Spec, Promised,
                         Queue, Ring, Phases
=============================================================================
