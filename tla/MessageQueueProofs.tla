------------------------- MODULE MessageQueueProofs -------------------------
(***************************************************************************)
(* The message queue of module MessageQueue, for every set of threads,     *)
(* every assignment of priorities and time slices, every number of         *)
(* messages and both kinds of suspend list: the safety invariants that its *)
(* run checks.                                                             *)
(***************************************************************************)
EXTENDS MessageQueue, ProcessorProofs

(* The n blocks from b on, each linked to the next one by msg->next, are s.*)
Linking(next, b, n, s) ==
    /\ s \in [1 .. n -> MsgBlock]
    /\ b = IF n = 0 THEN Null ELSE s[1]
    /\ \A i \in 1 .. n : next[s[i]] = IF i = n THEN Null ELSE s[i + 1]
    /\ \A i, j \in 1 .. n : s[i] = s[j] => i = j

(* The queue is s, n blocks long, the free list is f, m blocks long, and   *)
(* the blocks of H are in the hands of calls.                              *)
Arranged(q, n, s, m, f, H) ==
    /\ q.next \in [MsgBlock -> Link]
    /\ q.content \in [MsgBlock -> Message \cup {"none"}]
    /\ n \in Nat /\ m \in Nat /\ H \subseteq MsgBlock
    /\ Linking(q.next, q.head, n, s)
    /\ Linking(q.next, q.free, m, f)
    /\ q.tail = IF n = 0 THEN Null ELSE s[n]
    /\ \A i \in 1 .. n : s[i] \notin H /\ \A j \in 1 .. m : s[i] # f[j]
    /\ \A j \in 1 .. m : f[j] \notin H
    /\ \A b \in MsgBlock : \/ \E i \in 1 .. n : s[i] = b
                           \/ \E j \in 1 .. m : f[j] = b
                           \/ b \in H

Queues(q, n, s, m, H) == \E f : Arranged(q, n, s, m, f, H)

(* The sequences that the masked regions make of s.                        *)
Longer(n, s, b) == [i \in 1 .. n + 1 |-> IF i = n + 1 THEN b ELSE s[i]]
InFront(n, s, b) == [i \in 1 .. n + 1 |-> IF i = 1 THEN b ELSE s[i - 1]]
Rest(n, s) == [i \in 1 .. n - 1 |-> s[i + 1]]

BlockRecord == [next : [MsgBlock -> Link], content : [MsgBlock -> Message \cup {"none"}],
                head : Link, tail : Link, free : Link, entry : Int]

CallRecord == [op : Ops, data : Message \cup {"none"}, msg : Link,
               time : WaitTimes \cup Tick, start : Tick]

(* The list that the call of t waits in.                                   *)
InList(t) ==
    CASE call[t].op = "waitrecv" -> {Receivers}
      [] call[t].op = "waitsend" -> {Senders}
      [] OTHER                   -> {}

Lists == [t \in Thread |-> InList(t)]

(* What the waiters of o wait for: the messages, or the free blocks.       *)
Amount(o) == IF o = Receivers THEN mq.entry ELSE FreeCount

(* A call has a block in its hands between its two masked regions, and     *)
(* nobody else has that one.                                               *)
Moves == {"send", "urgent", "recv"}

CallsOK ==
    /\ call \in [Thread -> CallRecord]
    /\ \A t \in Thread :
          /\ call[t].msg # Null <=> call[t].op \in Moves
          /\ call[t].msg # Null <=> pc[t] = "call"
          /\ call[t].op \in {"send", "urgent", "waitsend"} => call[t].data \in Message
    /\ \A t, u \in Held : call[t].msg = call[u].msg => t = u

InHands == {call[t].msg : t \in Held}

(* Each block is in one place.  mq->entry is the length of the queue, but  *)
(* while a reset empties it.                                               *)
BlocksOK ==
    /\ mq \in BlockRecord
    /\ mq.entry <= MaxMsgs
    /\ \E n, m, s : /\ Queues(mq, n, s, m, InHands)
                    /\ n <= mq.entry
                    /\ irq # "off" => n = mq.entry

ServedOK == \A o \in Object : Served(k, Lists, o, Amount(o))

(* A queue that is being detached has no call that goes on, and one that   *)
(* is gone has no waiter.                                                  *)
LifeOK ==
    /\ life \in {"live", "receivers", "senders", "gone"}
    /\ life # "live" => Held = {} /\ \A o \in Object : Pending(k, Lists, o) = {}
    /\ life \in {"senders", "gone"} => k.wait[Receivers] = <<>>
    /\ life = "gone" => k.wait[Senders] = <<>>

MqInv ==
    /\ KernelInv
    /\ LockRuns
    /\ WaitsAgree(k, pc, Lists)
    /\ CallsOK
    /\ BlocksOK
    /\ ServedOK
    /\ LifeOK

-----------------------------------------------------------------------------
LEMMA BlocksAre ==
    /\ MaxMsgs \in Nat /\ MaxMsgs > 0
    /\ MsgBlock \subseteq Nat /\ Null \notin MsgBlock
    /\ MsgBlock \subseteq Link /\ Null \in Link
BY MessageQueueAssumption DEF MsgBlock, Null, Link

LEMMA ArrangedIs ==
    ASSUME NEW q, NEW n, NEW s, NEW m, NEW H, Queues(q, n, s, m, H)
    PROVE  /\ n \in Nat /\ m \in Nat
           /\ q.head = Null <=> n = 0
           /\ q.free = Null <=> m = 0
           /\ n > 0 => q.head \in MsgBlock \ H /\ q.head = s[1]
           /\ m > 0 => q.free \in MsgBlock \ H
           /\ q.head \in Link /\ q.tail \in Link /\ q.free \in Link
<1>1. PICK f : Arranged(q, n, s, m, f, H)
  BY DEF Queues
<1>2. /\ n \in Nat /\ m \in Nat
      /\ q.head = IF n = 0 THEN Null ELSE s[1]
      /\ q.free = IF m = 0 THEN Null ELSE f[1]
      /\ q.tail = IF n = 0 THEN Null ELSE s[n]
      /\ s \in [1 .. n -> MsgBlock] /\ f \in [1 .. m -> MsgBlock]
      /\ \A i \in 1 .. n : s[i] \notin H
      /\ \A j \in 1 .. m : f[j] \notin H
  BY <1>1 DEF Arranged, Linking
<1>3. n > 0 => s[1] \in MsgBlock \ H /\ s[n] \in MsgBlock
  BY <1>2
<1>4. m > 0 => f[1] \in MsgBlock \ H
  BY <1>2
<1>5. /\ q.free = Null <=> m = 0
      /\ m > 0 => q.free \in MsgBlock \ H
      /\ q.free \in Link
  <2>1. m = 0 => q.free = Null
    BY <1>2
  <2>2. m # 0 => m > 0 /\ q.free \in MsgBlock \ H
    BY <1>2, <1>4
  <2>3. q.free \in MsgBlock \ H => q.free # Null /\ q.free \in Link
    BY BlocksAre
  <2>4. m > 0 => m # 0
    BY <1>2
  <2> QED
    BY <2>1, <2>2, <2>3, <2>4, BlocksAre
<1>6. /\ q.head = Null <=> n = 0
      /\ n > 0 => q.head \in MsgBlock \ H /\ q.head = s[1]
      /\ q.head \in Link /\ q.tail \in Link
  <2>1. n = 0 => q.head = Null /\ q.tail = Null
    BY <1>2
  <2>2. n # 0 => /\ n > 0 /\ q.head \in MsgBlock \ H /\ q.head = s[1]
                 /\ q.tail \in MsgBlock
    BY <1>2, <1>3
  <2>3. q.head \in MsgBlock \ H => q.head # Null /\ q.head \in Link
    BY BlocksAre
  <2>4. n > 0 => n # 0
    BY <1>2
  <2> QED
    BY <2>1, <2>2, <2>3, <2>4, BlocksAre
<1> QED
  BY <1>2, <1>5, <1>6

-----------------------------------------------------------------------------
(* A list whose blocks keep their links, one that loses its first block,   *)
(* one that gets a block in front, and one that gets a block behind.       *)
LEMMA LinkingSame ==
    ASSUME NEW next, NEW b, NEW n \in Nat, NEW s, Linking(next, b, n, s),
           NEW last, \A i \in 1 .. n : last[s[i]] = next[s[i]]
    PROVE  Linking(last, b, n, s)
BY DEF Linking

LEMMA LinkingRest ==
    ASSUME NEW next, NEW b, NEW n \in Nat, NEW s, Linking(next, b, n, s), n > 0
    PROVE  Linking(next, next[b], n - 1, Rest(n, s))
<1> DEFINE r == Rest(n, s)
<1>1. /\ s \in [1 .. n -> MsgBlock] /\ b = s[1]
      /\ \A i \in 1 .. n : next[s[i]] = IF i = n THEN Null ELSE s[i + 1]
      /\ \A i, j \in 1 .. n : s[i] = s[j] => i = j
  BY DEF Linking
<1>2. /\ r \in [1 .. n - 1 -> MsgBlock]
      /\ \A i \in 1 .. n - 1 : r[i] = s[i + 1] /\ i + 1 \in 1 .. n
  BY <1>1 DEF Rest
<1>3. next[b] = IF n - 1 = 0 THEN Null ELSE r[1]
  BY <1>1, <1>2
<1>4. ASSUME NEW i \in 1 .. n - 1
      PROVE  next[r[i]] = IF i = n - 1 THEN Null ELSE r[i + 1]
  <2>1. next[r[i]] = IF i + 1 = n THEN Null ELSE s[i + 1 + 1]
    BY <1>1, <1>2
  <2>2. i # n - 1 => r[i + 1] = s[i + 1 + 1]
    BY <1>2
  <2> QED
    BY <2>1, <2>2
<1>5. \A i, j \in 1 .. n - 1 : r[i] = r[j] => i = j
  BY <1>1, <1>2
<1> QED
  BY <1>2, <1>3, <1>4, <1>5 DEF Linking

LEMMA LinkingFront ==
    ASSUME NEW next, NEW b, NEW n \in Nat, NEW s, Linking(next, b, n, s),
           NEW c \in MsgBlock, next[c] = b, \A i \in 1 .. n : s[i] # c
    PROVE  Linking(next, c, n + 1, InFront(n, s, c))
<1> DEFINE r == InFront(n, s, c)
<1>1. /\ s \in [1 .. n -> MsgBlock] /\ b = IF n = 0 THEN Null ELSE s[1]
      /\ \A i \in 1 .. n : next[s[i]] = IF i = n THEN Null ELSE s[i + 1]
      /\ \A i, j \in 1 .. n : s[i] = s[j] => i = j
  BY DEF Linking
<1>2. /\ r \in [1 .. n + 1 -> MsgBlock] /\ r[1] = c
      /\ \A i \in 1 .. n + 1 : i # 1 => r[i] = s[i - 1] /\ i - 1 \in 1 .. n
  BY <1>1 DEF InFront
<1>3. ASSUME NEW i \in 1 .. n + 1
      PROVE  next[r[i]] = IF i = n + 1 THEN Null ELSE r[i + 1]
  <2>1. CASE i = 1
    <3>1. n # 0 => r[1 + 1] = s[1]
      BY <1>2
    <3> QED
      BY <1>1, <1>2, <2>1, <3>1
  <2>2. CASE i # 1
    <3>1. PICK j \in 1 .. n : j = i - 1 /\ r[i] = s[j]
      BY <1>2, <2>2
    <3>2. next[r[i]] = IF j = n THEN Null ELSE s[j + 1]
      BY <1>1, <3>1
    <3>3. i # n + 1 => r[i + 1] = s[j + 1]
      BY <1>2, <2>2, <3>1
    <3> QED
      BY <3>1, <3>2, <3>3
  <2> QED
    BY <2>1, <2>2
<1>4. ASSUME NEW i \in 1 .. n + 1, NEW j \in 1 .. n + 1, r[i] = r[j]
      PROVE  i = j
  BY <1>1, <1>2, <1>4
<1> QED
  BY <1>2, <1>3, <1>4 DEF Linking

LEMMA LinkingLonger ==
    ASSUME NEW next, NEW b, NEW n \in Nat, NEW s, Linking(next, b, n, s),
           NEW c \in MsgBlock, \A i \in 1 .. n : s[i] # c,
           NEW last, last[c] = Null, n > 0 => last[s[n]] = c,
           \A i \in 1 .. n : i # n => last[s[i]] = next[s[i]],
           NEW h, h = (IF n = 0 THEN c ELSE b)
    PROVE  Linking(last, h, n + 1, Longer(n, s, c))
<1> DEFINE r == Longer(n, s, c)
<1>1. /\ s \in [1 .. n -> MsgBlock] /\ b = IF n = 0 THEN Null ELSE s[1]
      /\ \A i \in 1 .. n : next[s[i]] = IF i = n THEN Null ELSE s[i + 1]
      /\ \A i, j \in 1 .. n : s[i] = s[j] => i = j
  BY DEF Linking
<1>2. /\ r \in [1 .. n + 1 -> MsgBlock] /\ r[n + 1] = c
      /\ \A i \in 1 .. n : r[i] = s[i]
  BY <1>1 DEF Longer
<1>3. ASSUME NEW i \in 1 .. n + 1
      PROVE  last[r[i]] = IF i = n + 1 THEN Null ELSE r[i + 1]
  <2>1. CASE i = n + 1
    BY <1>2, <2>1
  <2>2. CASE i = n /\ i \in 1 .. n
    BY <1>2, <2>2
  <2>3. CASE i # n /\ i \in 1 .. n
    BY <1>1, <1>2, <2>3
  <2> QED
    BY <2>1, <2>2, <2>3
<1>4. ASSUME NEW i \in 1 .. n + 1, NEW j \in 1 .. n + 1, r[i] = r[j]
      PROVE  i = j
  <2>1. CASE i \in 1 .. n /\ j \in 1 .. n
    BY <1>1, <1>2, <1>4, <2>1
  <2>2. CASE i = n + 1 \/ j = n + 1
    <3>1. \A x \in 1 .. n + 1 : r[x] = c => x = n + 1
      BY <1>2
    <3> QED
      BY <1>2, <1>4, <2>2, <3>1
  <2> QED
    BY <2>1, <2>2
<1>5. h = r[1]
  BY <1>1, <1>2
<1> QED
  BY <1>2, <1>3, <1>4, <1>5 DEF Linking

-----------------------------------------------------------------------------
(* The masked regions.                                                     *)
LEMMA UnfreeKeeps ==
    ASSUME NEW q \in BlockRecord, NEW n, NEW s, NEW m, NEW H,
           Queues(q, n, s, m, H), q.free # Null
    PROVE  /\ Unfree(q) \in BlockRecord /\ Unfree(q).entry = q.entry
           /\ Unfree(q).content = q.content
           /\ m > 0 /\ q.free \in MsgBlock \ H
           /\ Queues(Unfree(q), n, s, m - 1, H \cup {q.free})
<1> DEFINE r == Unfree(q)
           b == q.free
<1>1. PICK f : Arranged(q, n, s, m, f, H)
  BY DEF Queues
<1>0. PICK g : g = Rest(m, f)
  OBVIOUS
<1>2. n \in Nat /\ m \in Nat /\ m > 0 /\ b \in MsgBlock \ H
  BY ArrangedIs
<1>3. /\ r.next = q.next /\ r.content = q.content /\ r.head = q.head
      /\ r.tail = q.tail /\ r.entry = q.entry /\ r.free = q.next[b]
      /\ r \in BlockRecord
  BY <1>2 DEF Unfree, BlockRecord
<1>4. /\ Linking(r.next, r.free, m - 1, g) /\ Linking(r.next, r.head, n, s)
      /\ f \in [1 .. m -> MsgBlock] /\ b = f[1]
      /\ \A i, j \in 1 .. m : f[i] = f[j] => i = j
      /\ s \in [1 .. n -> MsgBlock]
  <2>1. Linking(q.next, b, m, f) /\ Linking(q.next, q.head, n, s)
    BY <1>1 DEF Arranged
  <2>2. Linking(q.next, q.next[b], m - 1, g)
    BY <1>0, <1>2, <2>1, LinkingRest
  <2>3. /\ f \in [1 .. m -> MsgBlock] /\ b = f[1]
        /\ \A i, j \in 1 .. m : f[i] = f[j] => i = j
        /\ s \in [1 .. n -> MsgBlock]
    BY <1>2, <2>1 DEF Linking
  <2> QED
    BY <1>3, <2>1, <2>2, <2>3
<1>5. \A j \in 1 .. m - 1 : g[j] = f[j + 1] /\ j + 1 \in 1 .. m
  BY <1>0, <1>2 DEF Rest
<1>6. /\ \A i \in 1 .. n : s[i] \notin H \cup {b}
      /\ \A i \in 1 .. n : \A j \in 1 .. m - 1 : s[i] # g[j]
  BY <1>1, <1>2, <1>4, <1>5 DEF Arranged
<1>7. \A j \in 1 .. m - 1 : g[j] \notin H \cup {b}
  <2>1. ASSUME NEW j \in 1 .. m - 1
        PROVE  f[j + 1] # f[1] /\ f[j + 1] \notin H
    <3>1. j + 1 \in 1 .. m /\ 1 \in 1 .. m /\ j + 1 # 1
      BY <1>2
    <3> QED
      BY <1>1, <1>4, <3>1 DEF Arranged
  <2> QED
    BY <1>4, <1>5, <2>1
<1>8. ASSUME NEW x \in MsgBlock
      PROVE  \/ \E i \in 1 .. n : s[i] = x
             \/ \E j \in 1 .. m - 1 : g[j] = x
             \/ x \in H \cup {b}
  <2>1. CASE \E j \in 1 .. m : f[j] = x
    <3>1. PICK j \in 1 .. m : f[j] = x
      BY <2>1
    <3>2. j # 1 => j - 1 \in 1 .. m - 1 /\ f[j - 1 + 1] = x
      BY <1>2, <3>1
    <3> QED
      BY <1>4, <1>5, <3>1, <3>2
  <2> QED
    BY <1>1, <2>1 DEF Arranged
<1>9. Arranged(r, n, s, m - 1, g, H \cup {b})
  <2>1. /\ r.next \in [MsgBlock -> Link]
        /\ r.content \in [MsgBlock -> Message \cup {"none"}]
        /\ n \in Nat /\ m - 1 \in Nat /\ H \cup {b} \subseteq MsgBlock
        /\ r.tail = IF n = 0 THEN Null ELSE s[n]
    BY <1>1, <1>2, <1>3 DEF Arranged
  <2> HIDE DEF r, b
  <2> QED
    BY <1>4, <1>6, <1>7, <1>8, <2>1 DEF Arranged
<1> QED
  BY <1>2, <1>3, <1>9 DEF Queues

LEMMA LinkFreeKeeps ==
    ASSUME NEW q \in BlockRecord, NEW n, NEW s, NEW m, NEW H, NEW b \in H,
           Queues(q, n, s, m, H)
    PROVE  /\ LinkFree(q, b) \in BlockRecord /\ LinkFree(q, b).entry = q.entry
           /\ \A i \in 1 .. n : LinkFree(q, b).content[s[i]] = q.content[s[i]]
           /\ Queues(LinkFree(q, b), n, s, m + 1, H \ {b})
<1> DEFINE r == LinkFree(q, b)
<1>1. PICK f : Arranged(q, n, s, m, f, H)
  BY DEF Queues
<1>0. PICK g : g = InFront(m, f, b)
  OBVIOUS
<1>2. n \in Nat /\ m \in Nat /\ b \in MsgBlock /\ q.free \in Link
  BY <1>1, ArrangedIs DEF Arranged
<1>3. /\ r.next = [q.next EXCEPT ![b] = q.free]
      /\ r.content = [q.content EXCEPT ![b] = "none"] /\ r.head = q.head
      /\ r.tail = q.tail /\ r.entry = q.entry /\ r.free = b
  BY DEF LinkFree, BlockRecord
<1>4. /\ q.next \in [MsgBlock -> Link]
      /\ q.content \in [MsgBlock -> Message \cup {"none"}]
      /\ q.head \in Link /\ q.tail \in Link /\ q.entry \in Int
  BY DEF BlockRecord
<1>5. /\ f \in [1 .. m -> MsgBlock] /\ s \in [1 .. n -> MsgBlock]
      /\ \A i \in 1 .. n : s[i] # b
      /\ \A j \in 1 .. m : f[j] # b
      /\ Linking(q.next, q.head, n, s) /\ Linking(q.next, q.free, m, f)
  BY <1>1 DEF Arranged, Linking
<1>6. /\ r.next \in [MsgBlock -> Link] /\ r.next[b] = q.free
      /\ r.content \in [MsgBlock -> Message \cup {"none"}]
      /\ \A x \in MsgBlock \ {b} : r.next[x] = q.next[x] /\ r.content[x] = q.content[x]
  BY <1>2, <1>3, <1>4
<1>7. r \in BlockRecord
  <2>1. PICK x, y : /\ x = [q.next EXCEPT ![b] = q.free]
                    /\ y = [q.content EXCEPT ![b] = "none"]
    OBVIOUS
  <2>2. r = [q EXCEPT !.next = x, !.content = y, !.free = b]
    BY <2>1 DEF LinkFree
  <2>3. x \in [MsgBlock -> Link] /\ y \in [MsgBlock -> Message \cup {"none"}]
        /\ b \in Link
    BY <1>2, <1>3, <1>6, <2>1, BlocksAre
  <2> HIDE DEF r
  <2> QED
    BY <2>2, <2>3 DEF BlockRecord
<1>8. Linking(r.next, r.head, n, s) /\ Linking(r.next, r.free, m + 1, g)
  <2>1. /\ \A i \in 1 .. n : r.next[s[i]] = q.next[s[i]]
        /\ \A i \in 1 .. m : r.next[f[i]] = q.next[f[i]]
    BY <1>5, <1>6
  <2>2. Linking(r.next, q.head, n, s) /\ Linking(r.next, q.free, m, f)
    BY <1>2, <1>5, <2>1, LinkingSame
  <2>3. Linking(r.next, b, m + 1, g)
    BY <1>0, <1>2, <1>5, <1>6, <2>2, LinkingFront
  <2> QED
    BY <1>3, <2>2, <2>3
<1>9. \A j \in 1 .. m + 1 : g[j] = IF j = 1 THEN b ELSE f[j - 1]
  BY <1>0 DEF InFront
<1>10. /\ \A i \in 1 .. n : s[i] \notin H \ {b}
       /\ \A i \in 1 .. n : \A j \in 1 .. m + 1 : s[i] # g[j]
       /\ \A j \in 1 .. m + 1 : g[j] \notin H \ {b}
  <2>1. ASSUME NEW j \in 1 .. m + 1
        PROVE  g[j] = b \/ \E i \in 1 .. m : g[j] = f[i]
    <3>1. j # 1 => j - 1 \in 1 .. m
      BY <1>2
    <3> QED
      BY <1>9, <3>1
  <2>2. /\ \A i \in 1 .. n : s[i] \notin H /\ \A j \in 1 .. m : s[i] # f[j]
        /\ \A j \in 1 .. m : f[j] \notin H
    BY <1>1 DEF Arranged
  <2>3. ASSUME NEW i \in 1 .. n, NEW j \in 1 .. m + 1
        PROVE  s[i] # g[j]
    BY <1>5, <2>1, <2>2
  <2>4. \A j \in 1 .. m + 1 : g[j] \notin H \ {b}
    BY <2>1, <2>2
  <2> QED
    BY <2>2, <2>3, <2>4
<1>11. ASSUME NEW x \in MsgBlock
       PROVE  \/ \E i \in 1 .. n : s[i] = x
              \/ \E j \in 1 .. m + 1 : g[j] = x
              \/ x \in H \ {b}
  <2>1. CASE \E j \in 1 .. m : f[j] = x
    <3>1. PICK j \in 1 .. m : f[j] = x
      BY <2>1
    <3>2. j + 1 \in 1 .. m + 1 /\ j + 1 # 1 /\ j + 1 - 1 = j
      BY <1>2
    <3> QED
      BY <1>9, <3>1, <3>2
  <2>2. CASE x = b
    <3>1. 1 \in 1 .. m + 1
      BY <1>2
    <3> QED
      BY <1>9, <2>2, <3>1
  <2> QED
    BY <1>1, <2>1, <2>2 DEF Arranged
<1>12. Arranged(r, n, s, m + 1, g, H \ {b})
  <2>1. /\ n \in Nat /\ m + 1 \in Nat /\ H \ {b} \subseteq MsgBlock
        /\ r.tail = IF n = 0 THEN Null ELSE s[n]
    BY <1>1, <1>2, <1>3 DEF Arranged
  <2> HIDE DEF r
  <2> QED
    BY <1>6, <1>8, <1>10, <1>11, <2>1 DEF Arranged
<1>13. \A i \in 1 .. n : r.content[s[i]] = q.content[s[i]]
  BY <1>5, <1>6
<1> QED
  BY <1>3, <1>7, <1>12, <1>13 DEF Queues

LEMMA UnlinkHeadKeeps ==
    ASSUME NEW q \in BlockRecord, NEW n, NEW s, NEW m, NEW H,
           Queues(q, n, s, m, H), n > 0
    PROVE  /\ UnlinkHead(q) \in BlockRecord
           /\ UnlinkHead(q).entry = q.entry - 1 /\ UnlinkHead(q).content = q.content
           /\ q.head = s[1] /\ q.head \in MsgBlock \ H
           /\ Queues(UnlinkHead(q), n - 1, Rest(n, s), m, H \cup {q.head})
<1> DEFINE r == UnlinkHead(q)
           b == q.head
<1>1. PICK f : Arranged(q, n, s, m, f, H)
  BY DEF Queues
<1>0. PICK g : g = Rest(n, s)
  OBVIOUS
<1>2. n \in Nat /\ m \in Nat /\ b \in MsgBlock \ H /\ b = s[1]
  BY ArrangedIs
<1>3. /\ r.next = q.next /\ r.content = q.content /\ r.head = q.next[b]
      /\ r.tail = (IF q.tail = b THEN Null ELSE q.tail)
      /\ r.entry = q.entry - 1 /\ r.free = q.free
      /\ r \in BlockRecord
  <2>1. PICK x, y : x = q.next[b] /\ y = IF q.tail = b THEN Null ELSE q.tail
    OBVIOUS
  <2>2. r = [q EXCEPT !.head = x, !.tail = y, !.entry = q.entry - 1]
    BY <2>1 DEF UnlinkHead
  <2>3. x \in Link /\ y \in Link /\ q.entry - 1 \in Int
    <3>1. /\ q.next \in [MsgBlock -> Link] /\ q.tail \in Link /\ q.entry \in Int
          /\ b \in MsgBlock
      BY <1>2 DEF BlockRecord
    <3>2. x \in Link
      BY <2>1, <3>1
    <3>3. y \in Link
      BY <2>1, <3>1, BlocksAre
    <3> QED
      BY <3>1, <3>2, <3>3
  <2> HIDE DEF r, b
  <2> QED
    BY <2>1, <2>2, <2>3 DEF BlockRecord
<1>4. /\ Linking(r.next, r.head, n - 1, g) /\ Linking(r.next, r.free, m, f)
      /\ s \in [1 .. n -> MsgBlock]
      /\ \A i, j \in 1 .. n : s[i] = s[j] => i = j
      /\ f \in [1 .. m -> MsgBlock]
  <2>1. Linking(q.next, b, n, s) /\ Linking(q.next, q.free, m, f)
    BY <1>1 DEF Arranged
  <2>2. Linking(q.next, q.next[b], n - 1, g)
    BY <1>0, <1>2, <2>1, LinkingRest
  <2>3. /\ s \in [1 .. n -> MsgBlock] /\ f \in [1 .. m -> MsgBlock]
        /\ \A i, j \in 1 .. n : s[i] = s[j] => i = j
    BY <2>1 DEF Linking
  <2> QED
    BY <1>3, <2>1, <2>2, <2>3
<1>5. \A j \in 1 .. n - 1 : g[j] = s[j + 1] /\ j + 1 \in 1 .. n
  BY <1>0, <1>2 DEF Rest
<1>6. /\ \A i \in 1 .. n : s[i] \notin H /\ \A j \in 1 .. m : s[i] # f[j]
      /\ \A j \in 1 .. m : f[j] \notin H
      /\ q.tail = s[n]
  BY <1>1, <1>2 DEF Arranged
<1>7. /\ \A i \in 1 .. n - 1 : g[i] \notin H \cup {b}
      /\ \A i \in 1 .. n - 1 : \A j \in 1 .. m : g[i] # f[j]
  <2>1. ASSUME NEW j \in 1 .. n - 1
        PROVE  s[j + 1] # s[1] /\ s[j + 1] \notin H
    <3>1. j + 1 \in 1 .. n /\ 1 \in 1 .. n /\ j + 1 # 1
      BY <1>2
    <3> QED
      BY <1>4, <1>6, <3>1
  <2> QED
    BY <1>2, <1>5, <1>6, <2>1
<1>8. \A j \in 1 .. m : f[j] \notin H \cup {b}
  <2>1. 1 \in 1 .. n
    BY <1>2
  <2> QED
    BY <1>2, <1>6, <2>1
<1>9. ASSUME NEW x \in MsgBlock
      PROVE  \/ \E i \in 1 .. n - 1 : g[i] = x
             \/ \E j \in 1 .. m : f[j] = x
             \/ x \in H \cup {b}
  <2>1. CASE \E j \in 1 .. n : s[j] = x
    <3>1. PICK j \in 1 .. n : s[j] = x
      BY <2>1
    <3>2. j # 1 => j - 1 \in 1 .. n - 1 /\ s[j - 1 + 1] = x
      BY <1>2, <3>1
    <3> QED
      BY <1>2, <1>5, <3>1, <3>2
  <2> QED
    BY <1>1, <2>1 DEF Arranged
<1>10. r.tail = IF n - 1 = 0 THEN Null ELSE g[n - 1]
  <2>1. CASE n = 1
    BY <1>2, <1>3, <1>6, <2>1
  <2>2. CASE n # 1
    <3>1. n \in 1 .. n /\ 1 \in 1 .. n /\ n - 1 \in 1 .. n - 1 /\ n - 1 + 1 = n
      BY <1>2, <2>2
    <3>2. s[n] # s[1] /\ g[n - 1] = s[n]
      BY <1>4, <1>5, <2>2, <3>1
    <3> QED
      BY <1>2, <1>3, <1>6, <2>2, <3>2
  <2> QED
    BY <2>1, <2>2
<1>11. Arranged(r, n - 1, g, m, f, H \cup {b})
  <2>1. /\ r.next \in [MsgBlock -> Link]
        /\ r.content \in [MsgBlock -> Message \cup {"none"}]
        /\ n - 1 \in Nat /\ m \in Nat /\ H \cup {b} \subseteq MsgBlock
    BY <1>1, <1>2, <1>3 DEF Arranged
  <2> HIDE DEF r, b
  <2> QED
    BY <1>4, <1>7, <1>8, <1>9, <1>10, <2>1 DEF Arranged
<1> QED
  BY <1>0, <1>2, <1>3, <1>11 DEF Queues

LEMMA LinkHeadKeeps ==
    ASSUME NEW q \in BlockRecord, NEW n, NEW s, NEW m, NEW H, NEW b \in H,
           NEW c \in Message, Queues(q, n, s, m, H)
    PROVE  /\ LinkHead(q, b, c) \in BlockRecord
           /\ LinkHead(q, b, c).entry = q.entry + 1
           /\ LinkHead(q, b, c).content = [q.content EXCEPT ![b] = c]
           /\ Queues(LinkHead(q, b, c), n + 1, InFront(n, s, b), m, H \ {b})
<1> DEFINE r == LinkHead(q, b, c)
<1>1. PICK f : Arranged(q, n, s, m, f, H)
  BY DEF Queues
<1>0. PICK g : g = InFront(n, s, b)
  OBVIOUS
<1>2. n \in Nat /\ m \in Nat /\ b \in MsgBlock /\ q.head \in Link
  BY <1>1, ArrangedIs DEF Arranged
<1>3. PICK x, y, z : /\ x = [q.next EXCEPT ![b] = q.head]
                     /\ y = [q.content EXCEPT ![b] = c]
                     /\ z = IF q.tail = Null THEN b ELSE q.tail
  OBVIOUS
<1>4. r = [q EXCEPT !.next = x, !.content = y, !.head = b, !.tail = z,
                    !.entry = q.entry + 1]
  BY <1>3 DEF LinkHead
<1>5. /\ x \in [MsgBlock -> Link] /\ y \in [MsgBlock -> Message \cup {"none"}]
      /\ z \in Link /\ b \in Link /\ q.entry + 1 \in Int
      /\ x[b] = q.head /\ \A i \in MsgBlock \ {b} : x[i] = q.next[i]
  BY <1>2, <1>3, BlocksAre DEF BlockRecord
<1>6. /\ r \in BlockRecord /\ r.next = x /\ r.content = y /\ r.head = b
      /\ r.tail = z /\ r.entry = q.entry + 1 /\ r.free = q.free
  <2> HIDE DEF r
  <2> QED
    BY <1>4, <1>5 DEF BlockRecord
<1>7. /\ f \in [1 .. m -> MsgBlock] /\ s \in [1 .. n -> MsgBlock]
      /\ \A i \in 1 .. n : s[i] # b
      /\ \A j \in 1 .. m : f[j] # b
      /\ Linking(q.next, q.head, n, s) /\ Linking(q.next, q.free, m, f)
  BY <1>1 DEF Arranged, Linking
<1>8. Linking(r.next, r.head, n + 1, g) /\ Linking(r.next, r.free, m, f)
  <2>1. /\ \A i \in 1 .. n : x[s[i]] = q.next[s[i]]
        /\ \A i \in 1 .. m : x[f[i]] = q.next[f[i]]
    BY <1>5, <1>7
  <2>2. Linking(x, q.head, n, s) /\ Linking(x, q.free, m, f)
    BY <1>2, <1>7, <2>1, LinkingSame
  <2>3. Linking(x, b, n + 1, g)
    BY <1>0, <1>2, <1>5, <1>7, <2>2, LinkingFront
  <2> QED
    BY <1>6, <2>2, <2>3
<1>9. \A j \in 1 .. n + 1 : g[j] = IF j = 1 THEN b ELSE s[j - 1]
  BY <1>0 DEF InFront
<1>10. /\ \A i \in 1 .. n : s[i] \notin H /\ \A j \in 1 .. m : s[i] # f[j]
       /\ \A j \in 1 .. m : f[j] \notin H
       /\ q.tail = IF n = 0 THEN Null ELSE s[n]
  BY <1>1 DEF Arranged
<1>11. /\ \A i \in 1 .. n + 1 : g[i] \notin H \ {b} /\ \A j \in 1 .. m : g[i] # f[j]
       /\ \A j \in 1 .. m : f[j] \notin H \ {b}
  <2>1. ASSUME NEW j \in 1 .. n + 1
        PROVE  g[j] = b \/ \E i \in 1 .. n : g[j] = s[i]
    <3>1. j # 1 => j - 1 \in 1 .. n
      BY <1>2
    <3> QED
      BY <1>9, <3>1
  <2> QED
    BY <1>7, <1>10, <2>1
<1>12. ASSUME NEW i \in MsgBlock
       PROVE  \/ \E j \in 1 .. n + 1 : g[j] = i
              \/ \E j \in 1 .. m : f[j] = i
              \/ i \in H \ {b}
  <2>1. CASE \E j \in 1 .. n : s[j] = i
    <3>1. PICK j \in 1 .. n : s[j] = i
      BY <2>1
    <3>2. j + 1 \in 1 .. n + 1 /\ j + 1 # 1 /\ j + 1 - 1 = j
      BY <1>2
    <3> QED
      BY <1>9, <3>1, <3>2
  <2>2. CASE i = b
    <3>1. 1 \in 1 .. n + 1
      BY <1>2
    <3> QED
      BY <1>9, <2>2, <3>1
  <2> QED
    BY <1>1, <2>1, <2>2 DEF Arranged
<1>13. r.tail = IF n + 1 = 0 THEN Null ELSE g[n + 1]
  <2>1. CASE n = 0
    BY <1>2, <1>3, <1>6, <1>9, <1>10, <2>1
  <2>2. CASE n # 0
    <3>1. n \in 1 .. n /\ n + 1 \in 1 .. n + 1 /\ n + 1 # 1 /\ n + 1 - 1 = n /\ n + 1 # 0
      BY <1>2, <2>2
    <3>2. g[n + 1] = s[n] /\ s[n] # Null /\ q.tail = s[n]
      BY <1>7, <1>9, <1>10, <2>2, <3>1, BlocksAre
    <3> QED
      BY <1>3, <1>6, <3>1, <3>2
  <2> QED
    BY <2>1, <2>2
<1>14. Arranged(r, n + 1, g, m, f, H \ {b})
  <2>1. n + 1 \in Nat /\ m \in Nat /\ H \ {b} \subseteq MsgBlock
    BY <1>1, <1>2 DEF Arranged
  <2> HIDE DEF r
  <2> QED
    BY <1>5, <1>6, <1>8, <1>11, <1>12, <1>13, <2>1 DEF Arranged
<1> QED
  BY <1>0, <1>3, <1>6, <1>14 DEF Queues

LEMMA LinkTailKeeps ==
    ASSUME NEW q \in BlockRecord, NEW n, NEW s, NEW m, NEW H, NEW b \in H,
           NEW c \in Message, Queues(q, n, s, m, H)
    PROVE  /\ LinkTail(q, b, c) \in BlockRecord
           /\ LinkTail(q, b, c).entry = q.entry + 1
           /\ LinkTail(q, b, c).content = [q.content EXCEPT ![b] = c]
           /\ Queues(LinkTail(q, b, c), n + 1, Longer(n, s, b), m, H \ {b})
<1> DEFINE r == LinkTail(q, b, c)
<1>1. PICK f : Arranged(q, n, s, m, f, H)
  BY DEF Queues
<1>0. PICK g : g = Longer(n, s, b)
  OBVIOUS
<1>2. n \in Nat /\ m \in Nat /\ b \in MsgBlock
  BY <1>1, ArrangedIs DEF Arranged
<1>3. PICK x, y, z : /\ x = [i \in MsgBlock |-> IF i = b THEN Null
                                                ELSE IF i = q.tail THEN b
                                                ELSE q.next[i]]
                     /\ y = [q.content EXCEPT ![b] = c]
                     /\ z = IF q.head = Null THEN b ELSE q.head
  OBVIOUS
<1>4. r = [q EXCEPT !.next = x, !.content = y, !.tail = b, !.head = z,
                    !.entry = q.entry + 1]
  BY <1>3 DEF LinkTail
<1>5. /\ x \in [MsgBlock -> Link] /\ y \in [MsgBlock -> Message \cup {"none"}]
      /\ z \in Link /\ b \in Link /\ q.entry + 1 \in Int
      /\ x[b] = Null
      /\ q.tail \in MsgBlock \ {b} => x[q.tail] = b
      /\ \A i \in MsgBlock \ {b, q.tail} : x[i] = q.next[i]
  BY <1>2, <1>3, BlocksAre DEF BlockRecord
<1>6. /\ r \in BlockRecord /\ r.next = x /\ r.content = y /\ r.head = z
      /\ r.tail = b /\ r.entry = q.entry + 1 /\ r.free = q.free
  <2> HIDE DEF r
  <2> QED
    BY <1>4, <1>5 DEF BlockRecord
<1>7. /\ f \in [1 .. m -> MsgBlock] /\ s \in [1 .. n -> MsgBlock]
      /\ \A i \in 1 .. n : s[i] # b
      /\ \A j \in 1 .. m : f[j] # b
      /\ Linking(q.next, q.head, n, s) /\ Linking(q.next, q.free, m, f)
      /\ \A i, j \in 1 .. n : s[i] = s[j] => i = j
      /\ q.head = IF n = 0 THEN Null ELSE s[1]
  BY <1>1 DEF Arranged, Linking
<1>8. /\ \A i \in 1 .. n : s[i] \notin H /\ \A j \in 1 .. m : s[i] # f[j]
      /\ \A j \in 1 .. m : f[j] \notin H
      /\ q.tail = IF n = 0 THEN Null ELSE s[n]
  BY <1>1 DEF Arranged
<1>9. z = (IF n = 0 THEN b ELSE q.head)
  <2>1. n # 0 => s[1] \in MsgBlock
    BY <1>2, <1>7
  <2> QED
    BY <1>3, <1>7, <2>1, BlocksAre
<1>10. Linking(r.next, r.head, n + 1, g) /\ Linking(r.next, r.free, m, f)
  <2>1. ASSUME n > 0
        PROVE  x[s[n]] = b
    <3>1. n \in 1 .. n /\ n # 0
      BY <1>2, <2>1
    <3>2. q.tail = s[n] /\ s[n] \in MsgBlock \ {b}
      BY <1>7, <1>8, <3>1
    <3> QED
      BY <1>5, <3>2
  <2>2. ASSUME NEW i \in 1 .. n, i # n
        PROVE  x[s[i]] = q.next[s[i]]
    <3>1. n \in 1 .. n /\ n # 0
      BY <1>2
    <3>2. s[i] # q.tail
      BY <1>7, <1>8, <2>2, <3>1
    <3> QED
      BY <1>5, <1>7, <3>2
  <2>3. ASSUME NEW i \in 1 .. m
        PROVE  x[f[i]] = q.next[f[i]]
    <3>1. f[i] # q.tail
      <4>1. CASE n = 0
        BY <1>7, <1>8, <4>1, BlocksAre
      <4>2. CASE n # 0
        <5>1. n \in 1 .. n
          BY <1>2, <4>2
        <5> QED
          BY <1>8, <4>2, <5>1
      <4> QED
        BY <4>1, <4>2
    <3> QED
      BY <1>5, <1>7, <3>1
  <2>4. Linking(x, z, n + 1, g)
    <3>1. x[b] = Null /\ (n > 0 => x[s[n]] = b)
      BY <1>5, <2>1
    <3>2. Linking(q.next, q.head, n, s) /\ \A i \in 1 .. n : s[i] # b
      BY <1>7
    <3>3. Linking(x, z, n + 1, Longer(n, s, b))
      BY <1>2, <1>9, <2>2, <3>1, <3>2, LinkingLonger
    <3> QED
      BY <1>0, <3>3
  <2>5. Linking(x, q.free, m, f)
    BY <1>2, <1>7, <2>3, LinkingSame
  <2> QED
    BY <1>6, <2>4, <2>5
<1>11. \A j \in 1 .. n + 1 : g[j] = IF j = n + 1 THEN b ELSE s[j]
  BY <1>0 DEF Longer
<1>12. /\ \A i \in 1 .. n + 1 : g[i] \notin H \ {b} /\ \A j \in 1 .. m : g[i] # f[j]
       /\ \A j \in 1 .. m : f[j] \notin H \ {b}
  <2>1. ASSUME NEW j \in 1 .. n + 1
        PROVE  g[j] = b \/ \E i \in 1 .. n : g[j] = s[i]
    <3>1. j # n + 1 => j \in 1 .. n
      BY <1>2
    <3> QED
      BY <1>11, <3>1
  <2> QED
    BY <1>7, <1>8, <2>1
<1>13. ASSUME NEW i \in MsgBlock
       PROVE  \/ \E j \in 1 .. n + 1 : g[j] = i
              \/ \E j \in 1 .. m : f[j] = i
              \/ i \in H \ {b}
  <2>1. CASE \E j \in 1 .. n : s[j] = i
    <3>1. PICK j \in 1 .. n : s[j] = i
      BY <2>1
    <3>2. j \in 1 .. n + 1 /\ j # n + 1
      BY <1>2
    <3> QED
      BY <1>11, <3>1, <3>2
  <2>2. CASE i = b
    <3>1. n + 1 \in 1 .. n + 1
      BY <1>2
    <3> QED
      BY <1>11, <2>2, <3>1
  <2> QED
    BY <1>1, <2>1, <2>2 DEF Arranged
<1>14. r.tail = IF n + 1 = 0 THEN Null ELSE g[n + 1]
  <2>1. n + 1 \in 1 .. n + 1 /\ n + 1 # 0
    BY <1>2
  <2> QED
    BY <1>6, <1>11, <2>1
<1>15. Arranged(r, n + 1, g, m, f, H \ {b})
  <2>1. n + 1 \in Nat /\ m \in Nat /\ H \ {b} \subseteq MsgBlock
    BY <1>1, <1>2 DEF Arranged
  <2> HIDE DEF r
  <2> QED
    BY <1>5, <1>6, <1>10, <1>12, <1>13, <1>14, <2>1 DEF Arranged
<1> QED
  BY <1>0, <1>3, <1>6, <1>15 DEF Queues

(* Every block is in one place.                                            *)
LEMMA InjectionCounts ==
    ASSUME NEW n \in Nat, NEW s \in [1 .. n -> MsgBlock],
           \A i, j \in 1 .. n : s[i] = s[j] => i = j,
           NEW T, T = {s[i] : i \in 1 .. n}
    PROVE  IsFiniteSet(T) /\ Cardinality(T) = n
<1>1. IsFiniteSet(1 .. n) /\ Cardinality(1 .. n) = n
  BY FS_Interval
<1>2. s \in Surjection(1 .. n, T) /\ s \in Injection(1 .. n, T)
  <2>1. s \in [1 .. n -> T] /\ \A t \in T : \E i \in 1 .. n : s[i] = t
    OBVIOUS
  <2>2. IsInjective(s)
    BY DEF IsInjective
  <2> QED
    BY <2>1, <2>2 DEF Surjection, Injection
<1>3. IsFiniteSet(T) /\ Cardinality(T) = Cardinality(1 .. n)
  BY <1>1, <1>2, FS_Surjection
<1> QED
  BY <1>1, <1>3

LEMMA BlocksCounted ==
    ASSUME NEW q, NEW n, NEW s, NEW m, NEW H, Queues(q, n, s, m, H)
    PROVE  /\ IsFiniteSet(H) /\ Cardinality(H) \in Nat
           /\ n + m + Cardinality(H) = MaxMsgs
           /\ n \in 0 .. MaxMsgs
<1>1. PICK f : Arranged(q, n, s, m, f, H)
  BY DEF Queues
<1> DEFINE S == {s[i] : i \in 1 .. n}
           F == {f[i] : i \in 1 .. m}
<1>2. /\ n \in Nat /\ m \in Nat /\ H \subseteq MsgBlock
      /\ s \in [1 .. n -> MsgBlock] /\ f \in [1 .. m -> MsgBlock]
      /\ \A i, j \in 1 .. n : s[i] = s[j] => i = j
      /\ \A i, j \in 1 .. m : f[i] = f[j] => i = j
  BY <1>1 DEF Arranged, Linking
<1>3. IsFiniteSet(MsgBlock) /\ Cardinality(MsgBlock) = MaxMsgs
  BY FS_Interval, BlocksAre DEF MsgBlock
<1>4. IsFiniteSet(H) /\ Cardinality(H) \in Nat
  BY <1>2, <1>3, FS_Subset, FS_CardinalityType
<1>5. /\ IsFiniteSet(S) /\ Cardinality(S) = n
      /\ IsFiniteSet(F) /\ Cardinality(F) = m
  <2>1. IsFiniteSet(S) /\ Cardinality(S) = n
    BY <1>2, InjectionCounts
  <2>2. IsFiniteSet(F) /\ Cardinality(F) = m
    BY <1>2, InjectionCounts
  <2> QED
    BY <2>1, <2>2
<1>6. S \cap F = {} /\ (S \cup F) \cap H = {} /\ (S \cup F) \cup H = MsgBlock
  <2>1. S \subseteq MsgBlock /\ F \subseteq MsgBlock
    BY <1>2
  <2>2. S \cap F = {}
    BY <1>1 DEF Arranged
  <2>3. (S \cup F) \cap H = {}
    BY <1>1 DEF Arranged
  <2>4. MsgBlock \subseteq (S \cup F) \cup H
    BY <1>1 DEF Arranged
  <2> QED
    BY <1>2, <2>1, <2>2, <2>3, <2>4
<1>7. Cardinality({}) = 0
  BY FS_EmptySet
<1> HIDE DEF S, F
<1>8. IsFiniteSet(S \cup F) /\ Cardinality(S \cup F) = n + m
  <2>1. /\ IsFiniteSet(S \cup F)
        /\ Cardinality(S \cup F) = Cardinality(S) + Cardinality(F) - Cardinality(S \cap F)
    BY <1>5, FS_Union
  <2>2. Cardinality(S \cup F) = n + m - 0
    BY <1>5, <1>6, <1>7, <2>1
  <2> QED
    BY <1>2, <2>1, <2>2
<1>9. n + m + Cardinality(H) = MaxMsgs
  <2>1. Cardinality((S \cup F) \cup H) =
            Cardinality(S \cup F) + Cardinality(H) - Cardinality((S \cup F) \cap H)
    BY <1>4, <1>8, FS_Union
  <2>2. MaxMsgs = n + m + Cardinality(H) - 0
    BY <1>3, <1>6, <1>7, <1>8, <2>1
  <2>3. PICK h \in Nat : h = Cardinality(H)
    BY <1>4
  <2>4. n + m + h - 0 = n + m + h
    BY <1>2
  <2> QED
    BY <2>2, <2>3, <2>4
<1>10. n \in 0 .. MaxMsgs
  <2>1. PICK h \in Nat : h = Cardinality(H)
    BY <1>4
  <2> QED
    BY <1>2, <1>9, <2>1, BlocksAre
<1> QED
  BY <1>2, <1>4, <1>9, <1>10

-----------------------------------------------------------------------------
(* The blocks that lie in the lists are the ones that the links lead to.   *)
Follows(q, b, n, s) ==
    /\ s = [i \in 1 .. n |-> s[i]]
    /\ \A i \in 1 .. n : s[i] = IF i = 1 THEN b ELSE q.next[s[i - 1]]

LEMMA ChainFollows ==
    ASSUME NEW q, NEW b, NEW n \in Nat, NEW s, Follows(q, b, n, s)
    PROVE  Chain(q, b, n) = s
<1> DEFINE Links(f) == [i \in 1 .. n |-> IF i = 1 THEN b ELSE q.next[f[i - 1]]]
           nth == CHOOSE f : f = Links(f)
<1>1. s = [i \in 1 .. n |-> s[i]]
  BY DEF Follows
<1>2. s = Links(s)
  <2>1. \A i \in 1 .. n : s[i] = IF i = 1 THEN b ELSE q.next[s[i - 1]]
    BY DEF Follows
  <2>2. Links(s) = [i \in 1 .. n |-> s[i]]
    BY <2>1
  <2> QED
    BY <1>1, <2>2
<1>3. nth = Links(nth)
  BY <1>2
<1>4. ASSUME NEW i \in 1 .. n
      PROVE  nth[i] = s[i]
  <2> DEFINE T == {j \in 1 .. n : nth[j] # s[j]}
  <2> SUFFICES ASSUME T # {}
               PROVE  FALSE
    BY DEF T
  <2> HIDE DEF nth
  <2>1. T \in SUBSET Nat
    OBVIOUS
  <2>2. PICK j \in T : \A x \in T : j <= x
    <3> HIDE DEF T
    <3> QED
      BY <2>1, LeastExists
  <2>3. j \in 1 .. n /\ nth[j] # s[j]
    OBVIOUS
  <2>4. /\ nth[j] = IF j = 1 THEN b ELSE q.next[nth[j - 1]]
        /\ s[j] = IF j = 1 THEN b ELSE q.next[s[j - 1]]
    BY <1>3, <2>3 DEF Follows
  <2>5. j # 1
    BY <2>3, <2>4
  <2>6. PICK m \in 1 .. n : m = j - 1
    BY <2>3, <2>5
  <2>7. ~(j <= m)
    BY <2>3, <2>6
  <2>8. m \notin T
    <3> HIDE DEF T
    <3> QED
      BY <2>2, <2>7
  <2>9. nth[m] = s[m]
    BY <2>8
  <2> QED
    BY <2>3, <2>4, <2>5, <2>6, <2>9
<1>5. Chain(q, b, n) = [i \in 1 .. n |-> nth[i]]
  BY DEF Chain
<1> HIDE DEF nth
<1> QED
  BY <1>1, <1>4, <1>5

(* The first i blocks, and the whole list.                                 *)
LEMMA ChainIs ==
    ASSUME NEW q, NEW b, NEW n \in Nat, NEW s, Linking(q.next, b, n, s)
    PROVE  /\ Chain(q, b, n) = s
           /\ \A i \in 1 .. n : Chain(q, b, i)[i] = s[i]
<1>1. /\ s \in [1 .. n -> MsgBlock] /\ b = IF n = 0 THEN Null ELSE s[1]
      /\ \A i \in 1 .. n : q.next[s[i]] = IF i = n THEN Null ELSE s[i + 1]
  BY DEF Linking
<1>2. ASSUME NEW i \in 1 .. n
      PROVE  s[i] = IF i = 1 THEN b ELSE q.next[s[i - 1]]
  <2>1. CASE i = 1
    BY <1>1, <2>1
  <2>2. CASE i # 1
    <3>1. PICK j \in 1 .. n : j = i - 1 /\ j + 1 = i /\ j # n
      BY <2>2
    <3> QED
      BY <1>1, <2>2, <3>1
  <2> QED
    BY <2>1, <2>2
<1>3. Chain(q, b, n) = s
  BY <1>1, <1>2, ChainFollows DEF Follows
<1>4. ASSUME NEW m \in 1 .. n
      PROVE  Chain(q, b, m)[m] = s[m]
  <2>1. PICK f : f = [i \in 1 .. m |-> s[i]]
    OBVIOUS
  <2>2. /\ m \in Nat /\ m \in 1 .. m /\ f = [i \in 1 .. m |-> f[i]]
        /\ \A i \in 1 .. m : f[i] = s[i] /\ i \in 1 .. n
    BY <2>1
  <2>3. ASSUME NEW i \in 1 .. m
        PROVE  f[i] = IF i = 1 THEN b ELSE q.next[f[i - 1]]
    <3>1. i # 1 => i - 1 \in 1 .. m
      BY <2>2
    <3> QED
      BY <1>2, <2>2, <3>1
  <2>4. Follows(q, b, m, f)
    BY <2>2, <2>3 DEF Follows
  <2>5. Chain(q, b, m) = f
    BY <2>2, <2>4, ChainFollows
  <2> QED
    BY <2>2, <2>5
<1> QED
  BY <1>3, <1>4

(* The queue ends behind its n blocks and not before.                      *)
LEMMA EndIs ==
    ASSUME NEW q, NEW n, NEW s, NEW m, NEW H, Queues(q, n, s, m, H)
    PROVE  EndsAt(q, n) /\ \A i \in 0 .. n - 1 : ~EndsAt(q, i)
<1>1. PICK f : Arranged(q, n, s, m, f, H)
  BY DEF Queues
<1>2. /\ n \in Nat /\ Linking(q.next, q.head, n, s)
      /\ s \in [1 .. n -> MsgBlock]
      /\ q.head = IF n = 0 THEN Null ELSE s[1]
      /\ q.tail = IF n = 0 THEN Null ELSE s[n]
      /\ \A i \in 1 .. n : q.next[s[i]] = IF i = n THEN Null ELSE s[i + 1]
      /\ \A i, j \in 1 .. n : s[i] = s[j] => i = j
  BY <1>1 DEF Arranged, Linking
<1>3. /\ Chain(q, q.head, n) = s
      /\ \A i \in 1 .. n : Chain(q, q.head, i)[i] = s[i]
  BY <1>2, ChainIs
<1>4. CASE n = 0
  BY <1>2, <1>4 DEF EndsAt
<1>5. CASE n # 0
  <2>1. n \in 1 .. n /\ s[n] \in MsgBlock /\ s[1] \in MsgBlock
    BY <1>2, <1>5
  <2>2. q.tail = s[n] /\ s[n] # Null /\ q.next[s[n]] = Null /\ q.head # Null
    BY <1>2, <1>5, <2>1, BlocksAre
  <2>3. EndsAt(q, n)
    BY <1>3, <1>5, <2>2 DEF EndsAt
  <2>4. ASSUME NEW i \in 0 .. n - 1
        PROVE  ~EndsAt(q, i)
    <3>1. CASE i = 0
      BY <2>2, <3>1 DEF EndsAt
    <3>2. CASE i # 0
      <4>1. i \in 1 .. n /\ i # n
        BY <1>2, <3>2
      <4>2. Chain(q, q.head, i)[i] # q.tail
        BY <1>2, <1>3, <2>1, <2>2, <4>1
      <4> QED
        BY <3>2, <4>2 DEF EndsAt
    <3> QED
      BY <3>1, <3>2
  <2> QED
    BY <2>3, <2>4
<1> QED
  BY <1>4, <1>5

LEMMA InHandsCounts ==
    ASSUME CallsOK
    PROVE  /\ Held \in SUBSET Thread /\ IsFiniteSet(Held)
           /\ Cardinality(Held) \in Nat
           /\ Cardinality(InHands) = Cardinality(Held)
<1>1. Held \in SUBSET Thread
  BY DEF Held
<1>2. IsFiniteSet(Held) /\ Cardinality(Held) \in Nat
  BY <1>1, PendingFinite
<1>3. PICK f : f = [t \in Held |-> call[t].msg]
  OBVIOUS
<1>4. /\ f \in [Held -> InHands] /\ \A b \in InHands : \E t \in Held : f[t] = b
      /\ \A t, u \in Held : f[t] = f[u] => t = u
  BY <1>3 DEF InHands, CallsOK
<1>5. f \in Surjection(Held, InHands) /\ f \in Injection(Held, InHands)
  <2>1. IsInjective(f)
    BY <1>4 DEF IsInjective
  <2> QED
    BY <1>4, <2>1 DEF Surjection, Injection
<1>6. Cardinality(InHands) = Cardinality(Held)
  BY <1>2, <1>5, FS_Surjection
<1> QED
  BY <1>1, <1>2, <1>6

LEMMA FreeCounts ==
    ASSUME CallsOK, BlocksOK
    PROVE  /\ mq.entry \in 0 .. MaxMsgs /\ FreeCount \in Int
           /\ Amount(Receivers) = mq.entry /\ Amount(Receivers) \in Int
           /\ Amount(Senders) = FreeCount /\ Amount(Senders) \in Int
           /\ \A n, s, m : Queues(mq, n, s, m, InHands) =>
                 /\ n \in Nat /\ m \in Nat
                 /\ n = mq.entry => FreeCount = m
<1>1. PICK h \in Nat : h = Cardinality(Held)
  BY InHandsCounts
<1>2. mq.entry \in Int /\ mq.entry <= MaxMsgs /\ MaxMsgs \in Nat
  BY BlocksAre DEF BlocksOK, BlockRecord
<1>3. ASSUME NEW n, NEW s, NEW m, Queues(mq, n, s, m, InHands)
      PROVE  n \in Nat /\ m \in Nat /\ n + m + h = MaxMsgs
  BY <1>1, <1>3, ArrangedIs, BlocksCounted, InHandsCounts
<1>4. mq.entry \in 0 .. MaxMsgs
  <2>1. PICK n, m, s : Queues(mq, n, s, m, InHands) /\ n <= mq.entry
    BY DEF BlocksOK
  <2>2. n \in Nat
    BY <1>3, <2>1
  <2> QED
    BY <1>2, <2>1, <2>2
<1>5. FreeCount = MaxMsgs - mq.entry - h
  BY <1>1 DEF FreeCount
<1>6. FreeCount \in Int
  BY <1>2, <1>5
<1>7. ASSUME NEW n, NEW s, NEW m, Queues(mq, n, s, m, InHands), n = mq.entry
      PROVE  FreeCount = m
  <2>1. n \in Nat /\ m \in Nat /\ n + m + h = MaxMsgs
    BY <1>3, <1>7
  <2> QED
    BY <1>1, <1>2, <1>5, <1>7, <2>1
<1>8. Amount(Receivers) = mq.entry /\ Amount(Senders) = FreeCount
  BY MessageQueueAssumption DEF Amount
<1> QED
  BY <1>2, <1>3, <1>4, <1>6, <1>7, <1>8

(* What an observer of the queue sees of the arrangement.                  *)
LEMMA AccountsAgree ==
    ASSUME CallsOK, BlocksOK
    PROVE  BlocksAccounted
<1> SUFFICES ASSUME irq # "off"
             PROVE  LET queued == Chain(mq, mq.head, mq.entry)
                        unused == Chain(mq, mq.free, FreeCount)
                        held   == {call[t].msg : t \in Held}
                    IN  /\ FreeCount >= 0
                        /\ EndsAt(mq, mq.entry)
                        /\ FreeCount = 0 <=> Full
                        /\ Range(queued) \cup Range(unused) \cup held = MsgBlock
                        /\ Cardinality(held) = Cardinality(Held)
  BY DEF BlocksAccounted
<1>1. PICK n, m, s : Queues(mq, n, s, m, InHands) /\ n = mq.entry
  BY DEF BlocksOK
<1>2. n \in Nat /\ m \in Nat /\ FreeCount = m
  BY <1>1, FreeCounts
<1>3. PICK f : Arranged(mq, n, s, m, f, InHands)
  BY <1>1 DEF Queues
<1>4. /\ Linking(mq.next, mq.head, n, s) /\ Linking(mq.next, mq.free, m, f)
      /\ s \in [1 .. n -> MsgBlock] /\ f \in [1 .. m -> MsgBlock]
      /\ InHands \subseteq MsgBlock
  BY <1>3 DEF Arranged, Linking
<1>5. Chain(mq, mq.head, n) = s /\ Chain(mq, mq.free, m) = f
  BY <1>2, <1>4, ChainIs
<1>6. FreeCount >= 0 /\ (FreeCount = 0 <=> Full)
  <2>1. mq.free = Null <=> m = 0
    BY <1>1, ArrangedIs
  <2> QED
    BY <1>2, <2>1 DEF Full
<1>7. EndsAt(mq, n)
  BY <1>1, EndIs
<1>8. Range(s) \cup Range(f) \cup InHands = MsgBlock
  <2>1. Range(s) = {s[i] : i \in 1 .. n} /\ Range(f) = {f[i] : i \in 1 .. m}
    BY <1>4 DEF Range
  <2>2. \A b \in MsgBlock : \/ \E i \in 1 .. n : s[i] = b
                            \/ \E j \in 1 .. m : f[j] = b
                            \/ b \in InHands
    BY <1>3 DEF Arranged
  <2>3. MsgBlock \subseteq Range(s) \cup Range(f) \cup InHands
    BY <2>1, <2>2
  <2>4. Range(s) \subseteq MsgBlock /\ Range(f) \subseteq MsgBlock
    BY <1>4, <2>1
  <2> QED
    BY <1>4, <2>3, <2>4
<1>9. Cardinality(InHands) = Cardinality(Held)
  BY InHandsCounts
<1> QED
  BY <1>1, <1>2, <1>5, <1>6, <1>7, <1>8, <1>9 DEF InHands

-----------------------------------------------------------------------------
(* The lists and the calls.                                                *)
LEMMA ListsAre ==
    ASSUME CallsOK
    PROVE  /\ Receivers \in Object /\ Senders \in Object /\ Receivers # Senders
           /\ Object = {Receivers, Senders}
           /\ Lists \in [Thread -> SUBSET Object]
           /\ \A t \in Thread :
                 /\ Lists[t] = {} <=> call[t].op \in Moves \cup {"none"}
                 /\ Lists[t] = {Receivers} <=> call[t].op = "waitrecv"
                 /\ Lists[t] = {Senders} <=> call[t].op = "waitsend"
<1>1. /\ Receivers \in Object /\ Senders \in Object /\ Receivers # Senders
      /\ Object = {Receivers, Senders}
  BY MessageQueueAssumption
<1>2. \A t \in Thread : call[t].op \in Ops
  BY DEF CallsOK, CallRecord
<1> QED
  BY <1>1, <1>2 DEF Lists, InList, Ops, Moves

LEMMA UnfinishedIs ==
    ASSUME CallsOK, WaitsAgree(k, pc, Lists)
    PROVE  /\ Woken("waitrecv") = Pending(k, Lists, Receivers)
           /\ Woken("waitsend") = Pending(k, Lists, Senders)
           /\ \A t \in Thread : ~Unfinished(t) =>
                 t \notin Held /\ \A o \in Object : t \notin Pending(k, Lists, o)
<1>1. ASSUME NEW t \in Thread, NEW o \in Object
      PROVE  t \in Range(k.wait[o]) => Lists[t] = {o}
  BY DEF WaitsAgree
<1>2. \A t \in Thread : /\ call[t].op \in Ops
                        /\ call[t].msg # Null <=> call[t].op \in Moves
  BY DEF CallsOK, CallRecord
<1>3. ASSUME NEW t \in Thread
      PROVE  /\ t \in Pending(k, Lists, Receivers)
                   <=> Unfinished(t) /\ call[t].op = "waitrecv"
             /\ t \in Pending(k, Lists, Senders)
                   <=> Unfinished(t) /\ call[t].op = "waitsend"
  BY <1>1, <1>2, ListsAre DEF Pending, Unfinished, Moves
<1>4. ASSUME NEW t \in Thread, t \in Held
      PROVE  Unfinished(t)
  <2>1. call[t].msg # Null /\ call[t].op \in Moves /\ call[t].op # "none"
    BY <1>2, <1>4 DEF Held, Moves
  <2>2. Lists[t] = {}
    BY <2>1, ListsAre
  <2>3. \A o \in Object : t \notin Range(k.wait[o])
    BY <1>1, <2>2
  <2> QED
    BY <2>1, <2>3 DEF Unfinished
<1>5. \A o \in Object : Pending(k, Lists, o) \subseteq Thread
  BY DEF Pending
<1>6. Woken("waitrecv") = Pending(k, Lists, Receivers)
  BY <1>3, <1>5, ListsAre DEF Woken
<1>7. Woken("waitsend") = Pending(k, Lists, Senders)
  BY <1>3, <1>5, ListsAre DEF Woken
<1>8. \A t \in Thread : ~Unfinished(t) =>
                 t \notin Held /\ \A o \in Object : t \notin Pending(k, Lists, o)
  BY <1>3, <1>4, ListsAre
<1> QED
  BY <1>6, <1>7, <1>8

LEMMA NoCallIs ==
    /\ NoCall \in CallRecord
    /\ NoCall.op = "none" /\ NoCall.msg = Null /\ NoCall.time = 0
<1>1. 0 \in Tick /\ Null \in Link
  BY KernelAssumption, BlocksAre DEF Tick
<1> QED
  BY <1>1 DEF NoCall, CallRecord, Ops

(* Thread t goes on with call c.                                           *)
CallBecomes(t, c) ==
    /\ t \in Thread /\ c \in CallRecord
    /\ call' = [call EXCEPT ![t] = c]
    /\ \A u \in Thread \ {t} : pc'[u] = "call" <=> pc[u] = "call"
    /\ c.msg # Null <=> c.op \in Moves
    /\ c.msg # Null <=> pc'[t] = "call"
    /\ c.op \in {"send", "urgent", "waitsend"} => c.data \in Message

LEMMA CallsBecome ==
    ASSUME CallsOK, NEW t, NEW c, CallBecomes(t, c), c.msg \notin InHands
    PROVE  /\ CallsOK'
           /\ \A u \in Thread : InList(u)' =
                 IF u # t THEN InList(u)
                 ELSE IF c.op = "waitrecv" THEN {Receivers}
                 ELSE IF c.op = "waitsend" THEN {Senders} ELSE {}
           /\ Held' = IF c.msg = Null THEN Held \ {t} ELSE Held \cup {t}
<1>1. /\ t \in Thread /\ c \in CallRecord
      /\ c.msg # Null <=> c.op \in Moves
      /\ c.msg # Null <=> pc'[t] = "call"
      /\ c.op \in {"send", "urgent", "waitsend"} => c.data \in Message
      /\ \A u \in Thread \ {t} : pc'[u] = "call" <=> pc[u] = "call"
      /\ call' = [call EXCEPT ![t] = c]
  BY DEF CallBecomes
<1>2. /\ call' \in [Thread -> CallRecord] /\ call'[t] = c
      /\ \A u \in Thread \ {t} : call'[u] = call[u]
  BY <1>1 DEF CallsOK
<1>3. Held' = IF c.msg = Null THEN Held \ {t} ELSE Held \cup {t}
  BY <1>1, <1>2 DEF Held
<1>4. ASSUME NEW u \in Thread, NEW v \in Thread,
             call'[u].msg # Null, call'[u].msg = call'[v].msg
      PROVE  u = v
  <2>1. \A x \in Thread : call[x].msg # Null => call[x].msg \in InHands
    BY DEF InHands, Held
  <2>2. CASE u # t /\ v # t
    BY <1>2, <1>4, <2>2 DEF CallsOK, Held
  <2>3. CASE u = t \/ v = t
    BY <1>2, <1>4, <2>1, <2>3
  <2> QED
    BY <2>2, <2>3
<1>5. ASSUME NEW u \in Thread
      PROVE  /\ call'[u].msg # Null <=> call'[u].op \in Moves
             /\ call'[u].msg # Null <=> pc'[u] = "call"
             /\ call'[u].op \in {"send", "urgent", "waitsend"} => call'[u].data \in Message
  <2>1. CASE u = t
    BY <1>1, <1>2, <2>1
  <2>2. CASE u # t
    <3>1. call'[u] = call[u] /\ (pc'[u] = "call" <=> pc[u] = "call")
      BY <1>1, <1>2, <2>2
    <3> QED
      BY <3>1 DEF CallsOK
  <2> QED
    BY <2>1, <2>2
<1>6. \A u, v \in Held' : call'[u].msg = call'[v].msg => u = v
  BY <1>4 DEF Held
<1>7. CallsOK'
  BY <1>2, <1>5, <1>6 DEF CallsOK
<1>8. ASSUME NEW u \in Thread
      PROVE  InList(u)' =
                 IF u # t THEN InList(u)
                 ELSE IF c.op = "waitrecv" THEN {Receivers}
                 ELSE IF c.op = "waitsend" THEN {Senders} ELSE {}
  BY <1>2 DEF InList
<1> QED
  BY <1>3, <1>7, <1>8

(* A thread takes block b, gives the one it has, and does neither.         *)
LEMMA HandsTake ==
    ASSUME CallsOK, NEW t, NEW c, CallBecomes(t, c), c.msg \in MsgBlock \ InHands,
           t \notin Held
    PROVE  /\ CallsOK' /\ Lists' = Ended(Lists, {t})
           /\ InHands' = InHands \cup {c.msg}
           /\ Cardinality(Held') = Cardinality(Held) + 1
<1>1. /\ t \in Thread /\ c.msg # Null /\ c.op \in Moves
      /\ call' = [call EXCEPT ![t] = c]
  BY BlocksAre DEF CallBecomes
<1>2. CallsOK' /\ Held' = Held \cup {t} /\ Lists' = Ended(Lists, {t})
  <2>1. c.op # "waitrecv" /\ c.op # "waitsend"
    BY <1>1 DEF Moves
  <2>2. /\ CallsOK' /\ Held' = Held \cup {t}
        /\ \A u \in Thread : InList(u)' = IF u # t THEN InList(u) ELSE {}
    BY <1>1, <2>1, CallsBecome
  <2> QED
    BY <2>2 DEF Lists, Ended
<1>3. /\ call'[t] = c /\ \A u \in Held : call'[u] = call[u]
  BY <1>1 DEF CallsOK, Held
<1>4. InHands' = InHands \cup {c.msg}
  BY <1>2, <1>3 DEF InHands
<1>5. Cardinality(Held') = Cardinality(Held) + 1
  BY <1>2, InHandsCounts, FS_AddElement
<1> QED
  BY <1>2, <1>4, <1>5

LEMMA HandsGive ==
    ASSUME CallsOK, NEW t, NEW c, CallBecomes(t, c), c.msg = Null,
           c.op = "none", t \in Held
    PROVE  /\ CallsOK' /\ Lists' = Ended(Lists, {t})
           /\ call[t].msg \in InHands /\ InHands' = InHands \ {call[t].msg}
           /\ Cardinality(Held') = Cardinality(Held) - 1
<1>1. t \in Thread /\ call' = [call EXCEPT ![t] = c]
  BY DEF CallBecomes
<1>2. c.msg \notin InHands
  BY DEF InHands, Held
<1>3. CallsOK' /\ Held' = Held \ {t} /\ Lists' = Ended(Lists, {t})
  <2>1. /\ CallsOK' /\ Held' = Held \ {t}
        /\ \A u \in Thread : InList(u)' = IF u # t THEN InList(u) ELSE {}
    BY <1>2, CallsBecome
  <2> QED
    BY <2>1 DEF Lists, Ended
<1>4. \A u \in Held \ {t} : call'[u] = call[u] /\ call[u].msg # call[t].msg
  BY <1>1 DEF CallsOK, Held
<1>5. InHands' = InHands \ {call[t].msg} /\ call[t].msg \in InHands
  BY <1>3, <1>4 DEF InHands
<1>6. Cardinality(Held') = Cardinality(Held) - 1
  BY <1>3, InHandsCounts, FS_RemoveElement
<1> QED
  BY <1>3, <1>5, <1>6

LEMMA HandsSame ==
    ASSUME CallsOK, NEW t, NEW c, CallBecomes(t, c), c.msg = Null, t \notin Held
    PROVE  /\ CallsOK' /\ Held' = Held /\ InHands' = InHands
           /\ \A u \in Thread : InList(u)' =
                 IF u # t THEN InList(u)
                 ELSE IF c.op = "waitrecv" THEN {Receivers}
                 ELSE IF c.op = "waitsend" THEN {Senders} ELSE {}
<1>1. t \in Thread /\ call' = [call EXCEPT ![t] = c]
  BY DEF CallBecomes
<1>2. c.msg \notin InHands
  BY DEF InHands, Held
<1>3. CallsOK' /\ Held' = Held
  BY <1>2, CallsBecome
<1>4. \A u \in Held : call'[u] = call[u]
  BY <1>1 DEF CallsOK, Held
<1>5. InHands' = InHands
  BY <1>3, <1>4 DEF InHands
<1> QED
  BY <1>2, <1>3, <1>5, CallsBecome

LEMMA CallsStay ==
    ASSUME CallsOK, UNCHANGED call,
           \A u \in Thread : pc'[u] = "call" <=> pc[u] = "call"
    PROVE  CallsOK' /\ Held' = Held /\ InHands' = InHands /\ Lists' = Lists
<1>1. Held' = Held /\ InHands' = InHands
  BY DEF Held, InHands
<1>2. Lists' = Lists
  BY DEF Lists, InList
<1> QED
  BY <1>1, <1>2 DEF CallsOK

-----------------------------------------------------------------------------
(* What a step has to show.                                                *)
LEMMA InitializedQueues ==
    /\ Initialized \in BlockRecord /\ Initialized.entry = 0
    /\ \E m, s : Queues(Initialized, 0, s, m, {})
<1> DEFINE q == Initialized
<1>1. /\ q.next = [b \in MsgBlock |-> b - 1]
      /\ q.content = [b \in MsgBlock |-> "none"]
      /\ q.head = Null /\ q.tail = Null /\ q.free = MaxMsgs /\ q.entry = 0
  BY DEF Initialized
<1>2. MaxMsgs \in Nat /\ MaxMsgs > 0
  BY BlocksAre
<1>3. \A b \in MsgBlock : b - 1 \in Link
  BY <1>2 DEF MsgBlock, Link, Null
<1>4. q.next \in [MsgBlock -> Link] /\ q.content \in [MsgBlock -> Message \cup {"none"}]
  BY <1>1, <1>3
<1>5. MaxMsgs \in Link /\ Null \in Link
  BY <1>2 DEF MsgBlock, Link, Null
<1>6. q \in BlockRecord
  <2>1. PICK x, y : x = q.next /\ y = q.content
    OBVIOUS
  <2>2. q = [next |-> x, content |-> y, head |-> Null, tail |-> Null,
             free |-> MaxMsgs, entry |-> 0]
    BY <1>1, <2>1 DEF Initialized
  <2> HIDE DEF q
  <2> QED
    BY <1>4, <1>5, <2>1, <2>2 DEF BlockRecord
<1>7. PICK f, s : f = [i \in 1 .. MaxMsgs |-> MaxMsgs + 1 - i] /\ s = <<>>
  OBVIOUS
<1>8. Linking(q.next, q.free, MaxMsgs, f)
  <2>1. \A i \in 1 .. MaxMsgs : f[i] = MaxMsgs + 1 - i /\ f[i] \in MsgBlock
    BY <1>2, <1>7 DEF MsgBlock
  <2>2. f \in [1 .. MaxMsgs -> MsgBlock]
    BY <1>7, <2>1
  <2>3. q.free = f[1] /\ MaxMsgs # 0
    BY <1>1, <1>2, <2>1
  <2>4. ASSUME NEW i \in 1 .. MaxMsgs
        PROVE  q.next[f[i]] = IF i = MaxMsgs THEN Null ELSE f[i + 1]
    <3>1. q.next[f[i]] = MaxMsgs + 1 - i - 1
      <4>1. PICK x \in MsgBlock : x = f[i] /\ x = MaxMsgs + 1 - i
        BY <2>1
      <4>2. q.next[x] = x - 1
        BY <1>1
      <4>3. q.next[f[i]] = q.next[x]
        BY <4>1
      <4>4. x - 1 = MaxMsgs + 1 - i - 1
        BY <1>2, <4>1
      <4> QED
        BY <4>2, <4>3, <4>4
    <3>2. CASE i = MaxMsgs
      BY <1>2, <3>1, <3>2 DEF Null
    <3>3. CASE i # MaxMsgs
      <4>1. i + 1 \in 1 .. MaxMsgs
        BY <1>2, <3>3
      <4>2. f[i + 1] = MaxMsgs + 1 - (i + 1)
        BY <2>1, <4>1
      <4> QED
        BY <1>2, <3>1, <3>3, <4>2
    <3> QED
      BY <3>2, <3>3
  <2>5. \A i, j \in 1 .. MaxMsgs : f[i] = f[j] => i = j
    BY <1>2, <2>1
  <2> QED
    BY <2>2, <2>3, <2>4, <2>5 DEF Linking
<1>9. Linking(q.next, q.head, 0, s)
  BY <1>1, <1>7 DEF Linking
<1>10. ASSUME NEW b \in MsgBlock
       PROVE  \E j \in 1 .. MaxMsgs : f[j] = b
  <2>1. PICK j \in 1 .. MaxMsgs : j = MaxMsgs + 1 - b
    BY <1>2 DEF MsgBlock
  <2>2. f[j] = b
    BY <1>2, <1>7, <2>1 DEF MsgBlock
  <2> QED
    BY <2>2
<1>11. Arranged(q, 0, s, MaxMsgs, f, {})
  <2> HIDE DEF q
  <2> QED
    BY <1>1, <1>2, <1>4, <1>8, <1>9, <1>10 DEF Arranged
<1> QED
  BY <1>1, <1>6, <1>11 DEF Queues

LEMMA EntryApart ==
    ASSUME NEW q \in BlockRecord, NEW e \in Int,
           NEW n, NEW s, NEW m, NEW H, Queues(q, n, s, m, H)
    PROVE  /\ [q EXCEPT !.entry = e] \in BlockRecord
           /\ Queues([q EXCEPT !.entry = e], n, s, m, H)
<1>1. PICK r : r = [q EXCEPT !.entry = e]
  OBVIOUS
<1>2. /\ r \in BlockRecord /\ r.next = q.next /\ r.content = q.content
      /\ r.head = q.head /\ r.tail = q.tail /\ r.free = q.free
  BY <1>1 DEF BlockRecord
<1>3. Queues(r, n, s, m, H)
  BY <1>2 DEF Queues, Arranged
<1> QED
  BY <1>1, <1>2, <1>3

LEMMA BlocksMade ==
    ASSUME mq' \in BlockRecord, NEW n, NEW s, NEW m,
           Queues(mq', n, s, m, InHands'), n = mq'.entry
    PROVE  BlocksOK'
<1>1. n \in 0 .. MaxMsgs /\ n \in Nat
  BY BlocksCounted, ArrangedIs
<1>2. mq'.entry <= MaxMsgs /\ n <= mq'.entry
  BY <1>1, BlocksAre
<1> QED
  BY <1>2 DEF BlocksOK

LEMMA BlocksStay ==
    ASSUME BlocksOK, UNCHANGED mq, InHands' = InHands, irq # "off" \/ irq' = "off"
    PROVE  BlocksOK'
<1>1. PICK n, m, s : /\ Queues(mq, n, s, m, InHands)
                     /\ n <= mq.entry
                     /\ irq # "off" => n = mq.entry
  BY DEF BlocksOK
<1> QED
  BY <1>1 DEF BlocksOK

LEMMA StepKeeps ==
    ASSUME MqInv, KernelInv', Wakes(k, k') \/ LockRuns',
           NEW w, w = Lists, NEW L \in SUBSET Thread, Lists' = Ended(w, L),
           WaitsAgree(k', pc', Ended(w, L)), CallsOK', BlocksOK',
           \A o \in Object : Served(k', Ended(w, L), o, Amount(o)'),
           life' \in {"live", "receivers", "senders", "gone"},
           life' # "live" =>
               Held' = {} /\ \A o \in Object : Pending(k', Ended(w, L), o) = {},
           life' \in {"senders", "gone"} => k'.wait[Receivers] = <<>>,
           life' = "gone" => k'.wait[Senders] = <<>>
    PROVE  MqInv'
<1>1. WaitsAgree(k, pc, Lists)'
  OBVIOUS
<1>2. ServedOK'
  BY DEF ServedOK
<1>3. LifeOK'
  BY DEF LifeOK
<1>4. LockRuns'
  <2>1. k.cur \in Thread /\ LockRuns /\ WaitsAgree(k, pc, w)
    BY DEF MqInv, KernelInv, Sound, Linked, KernelState
  <2>2. \A t \in Thread : Inside(t)' => Inside(t)
    BY <2>1 DEF WaitsAgree, Ended, Inside
  <2> QED
    BY <2>1, <2>2, WakesLock
<1> QED
  BY <1>1, <1>2, <1>3, <1>4 DEF MqInv

-----------------------------------------------------------------------------
(* A thread takes a block into its hands.                                  *)
LEMMA GrabKeeps ==
    ASSUME MqInv, NEW t \in Worker, NEW loc \in {"run", "woken"}, At(t, loc),
           UNCHANGED k, UNCHANGED irq, UNCHANGED life, life = "live",
           NEW c \in CallRecord, call' = [call EXCEPT ![t] = c], Goto(t, "call"),
           c.op \in Moves, c.op # "recv" => c.data \in Message,
           c.msg \in MsgBlock \ InHands,
           NEW list \in Object, Lists[t] \subseteq {list},
           mq' \in BlockRecord,
           mq'.entry = IF list = Receivers THEN mq.entry - 1 ELSE mq.entry,
           NEW n, NEW s, NEW m, n = mq'.entry,
           Queues(mq', n, s, m, InHands \cup {c.msg})
    PROVE  MqInv'
<1>1. PICK w, L : w = Lists /\ L = {t}
  OBVIOUS
<1>2. /\ KernelInv /\ CallsOK /\ BlocksOK /\ ServedOK /\ t \in Thread
      /\ WaitsAgree(k, pc, w) /\ L \in SUBSET Thread
      /\ irq' \in {"on", "off", "tick"} /\ pc \in [Thread -> Location]
  BY <1>1 DEF MqInv, KernelInv, Worker
<1>3. k.cur = t /\ k.stat[t] = "RUNNING" /\ pc[t] = loc /\ t \notin Held
  BY <1>2, AtRuns DEF At, CallsOK, Held
<1>4. Wakes(k, k')
  BY <1>2, WakesNone DEF KernelInv
<1>5. KernelInv'
  <2>1. "call" \in Location
    BY DEF Location
  <2> QED
    BY <1>2, <1>3, <1>4, <2>1, RunningStep
<1>6. pc'[t] = "call" /\ \A u \in Thread \ {t} : pc'[u] = pc[u]
  BY <1>2 DEF Goto
<1>7. /\ CallsOK' /\ Lists' = Ended(w, L)
      /\ InHands' = InHands \cup {c.msg}
      /\ Cardinality(Held') = Cardinality(Held) + 1
  <2>1. CallBecomes(t, c)
    BY <1>2, <1>6, BlocksAre DEF CallBecomes, Moves
  <2> QED
    BY <1>1, <1>2, <1>3, <2>1, HandsTake
<1>8. BlocksOK'
  BY <1>7, BlocksMade
<1>9. /\ WaitsAgree(k', pc', Ended(w, L))
      /\ \A o \in Object : Pending(k', Ended(w, L), o) = Pending(k, w, o) \ L
  <2>1. \A x \in Thread : pc'[x] \in {"wait", "woken"}
                               <=> pc[x] \in {"wait", "woken"} /\ x \notin L
    BY <1>1, <1>6
  <2>2. \A x \in L : k.stat[x] # "SUSPEND"
    BY <1>1, <1>3
  <2> QED
    BY <1>2, <2>1, <2>2, QuietServes
<1>10. \A o \in Object : Amount(o)' = IF o = list THEN Amount(o) - 1 ELSE Amount(o)
  <2>1. PICK h \in Nat : h = Cardinality(Held)
    BY <1>2, InHandsCounts
  <2>2. PICK e \in Int, x \in Int : e = mq.entry /\ x = MaxMsgs
    BY <1>2, BlocksAre DEF BlocksOK, BlockRecord
  <2>3. /\ Amount(Receivers) = e /\ Amount(Senders) = x - e - h
        /\ Amount(Receivers)' = mq'.entry /\ Amount(Senders)' = x - mq'.entry - (h + 1)
        /\ Receivers # Senders /\ Object = {Receivers, Senders}
    BY <1>7, <2>1, <2>2, MessageQueueAssumption DEF Amount, FreeCount
  <2>4. x - (e - 1) - (h + 1) = x - e - h /\ x - e - (h + 1) = x - e - h - 1
    OBVIOUS
  <2>5. CASE list = Receivers
    BY <2>2, <2>3, <2>4, <2>5
  <2>6. CASE list = Senders
    BY <2>2, <2>3, <2>4, <2>6
  <2> QED
    BY <2>3, <2>5, <2>6
<1>11. ASSUME NEW o \in Object
       PROVE  Served(k', Ended(w, L), o, Amount(o)')
  <2>1. PICK a \in Int : a = Amount(o)
    BY <1>2, FreeCounts, ListsAre
  <2>2. Served(k, w, o, a) /\ (k'.wait[o] # <<>> => k.wait[o] # <<>>)
    BY <1>1, <1>2, <2>1 DEF ServedOK
  <2>3. CASE o = list
    <3>1. Served(k', Ended(w, L), o, a - 1)
      BY <1>1, <1>9, <2>2, ServedOneLess
    <3> QED
      BY <1>10, <2>1, <2>3, <3>1
  <2>4. CASE o # list
    <3>1. t \notin Pending(k, w, o)
      BY <1>1, <2>4 DEF Pending
    <3>2. Pending(k, w, o) \subseteq Pending(k', Ended(w, L), o)
      BY <1>1, <1>9, <3>1
    <3>3. Served(k', Ended(w, L), o, a)
      BY <2>2, <3>2, ServedFewer
    <3> QED
      BY <1>10, <2>1, <2>4, <3>3
  <2> QED
    BY <2>3, <2>4
<1> QED
  BY <1>1, <1>2, <1>4, <1>5, <1>7, <1>8, <1>9, <1>11, StepKeeps

(* Only a queue that is live has a call that goes on.                      *)
LEMMA ResumedIsLive ==
    ASSUME MqInv, NEW t \in Worker, NEW op \in {"waitsend", "waitrecv"},
           Resumed(t, op)
    PROVE  /\ life = "live" /\ call[t].op = op /\ At(t, "woken")
           /\ Lists[t] = {IF op = "waitrecv" THEN Receivers ELSE Senders}
           /\ op = "waitsend" => call[t].data \in Message
<1>1. /\ KernelInv /\ CallsOK /\ LifeOK /\ t \in Thread
      /\ At(t, "woken") /\ k.error[t] = "OK" /\ call[t].op = op
  BY DEF MqInv, Worker, Resumed
<1>2. k.stat[t] = "RUNNING"
  BY <1>1, AtRuns
<1>3. \A o \in Object : t \notin Range(k.wait[o])
  BY <1>1, <1>2, KernelInvLists
<1>4. Lists[t] = {IF op = "waitrecv" THEN Receivers ELSE Senders}
  BY <1>1, ListsAre
<1>5. t \in Pending(k, Lists, IF op = "waitrecv" THEN Receivers ELSE Senders)
  BY <1>1, <1>3, <1>4, ListsAre DEF Pending
<1>6. life = "live"
  BY <1>1, <1>5, ListsAre DEF LifeOK
<1> QED
  BY <1>1, <1>4, <1>6 DEF CallsOK

LEMMA TakesBlock ==
    ASSUME MqInv, NEW t \in Worker, NEW loc \in {"run", "woken"}, At(t, loc),
           UNCHANGED k, UNCHANGED irq, UNCHANGED life, life = "live",
           ~Full, mq' = Unfree(mq), NEW op \in {"send", "urgent"}, NEW d \in Message,
           Grab(t, op, d, mq.free), Lists[t] \subseteq {Senders}
    PROVE  MqInv'
<1>1. CallsOK /\ BlocksOK /\ irq # "off"
  BY DEF MqInv, At
<1>2. PICK n, m, s : Queues(mq, n, s, m, InHands) /\ n = mq.entry
  BY <1>1 DEF BlocksOK
<1>3. mq \in BlockRecord /\ mq.free # Null
  BY <1>1 DEF BlocksOK, Full
<1>4. /\ Unfree(mq) \in BlockRecord /\ Unfree(mq).entry = mq.entry
      /\ mq.free \in MsgBlock \ InHands
      /\ Queues(Unfree(mq), n, s, m - 1, InHands \cup {mq.free})
  BY <1>2, <1>3, UnfreeKeeps
<1>5. PICK c : c = [NoCall EXCEPT !.op = op, !.data = d, !.msg = mq.free]
  OBVIOUS
<1>6. PICK y : y = m - 1
  OBVIOUS
<1>7. c \in CallRecord /\ c.op = op /\ c.data = d /\ c.msg = mq.free
  <2>1. mq.free \in Link
    BY <1>4, BlocksAre
  <2> QED
    BY <1>5, <2>1, NoCallIs DEF CallRecord, Ops
<1>8. call' = [call EXCEPT ![t] = c] /\ Goto(t, "call")
  BY <1>5 DEF Grab
<1>9. /\ mq' \in BlockRecord /\ n = mq'.entry
      /\ mq'.entry = IF Senders = Receivers THEN mq.entry - 1 ELSE mq.entry
      /\ Queues(mq', n, s, y, InHands \cup {c.msg})
  BY <1>2, <1>4, <1>6, <1>7, MessageQueueAssumption
<1>10. Senders \in Object /\ c.op \in Moves /\ c.data \in Message
  BY <1>7, MessageQueueAssumption DEF Moves
<1>11. c.msg \in MsgBlock \ InHands
  BY <1>4, <1>7
<1> QED
  BY <1>7, <1>8, <1>9, <1>10, <1>11, GrabKeeps

LEMMA TakesMessage ==
    ASSUME MqInv, NEW t \in Worker, NEW loc \in {"run", "woken"}, At(t, loc),
           UNCHANGED k, UNCHANGED irq, UNCHANGED life, life = "live",
           ~Empty, mq' = UnlinkHead(mq),
           Grab(t, "recv", "none", mq.head), Lists[t] \subseteq {Receivers}
    PROVE  MqInv'
<1>1. CallsOK /\ BlocksOK /\ irq # "off"
  BY DEF MqInv, At
<1>2. PICK n, m, s : Queues(mq, n, s, m, InHands) /\ n = mq.entry
  BY <1>1 DEF BlocksOK
<1>3. mq \in BlockRecord /\ n # 0 /\ n \in Nat /\ n > 0
  <2>1. n # 0 /\ n \in Nat
    BY <1>2, ArrangedIs DEF Empty
  <2> QED
    BY <1>1, <2>1 DEF BlocksOK
<1>4. /\ UnlinkHead(mq) \in BlockRecord /\ UnlinkHead(mq).entry = mq.entry - 1
      /\ mq.head \in MsgBlock \ InHands
      /\ Queues(UnlinkHead(mq), n - 1, Rest(n, s), m, InHands \cup {mq.head})
  BY <1>2, <1>3, UnlinkHeadKeeps
<1>5. PICK c : c = [NoCall EXCEPT !.op = "recv", !.data = "none", !.msg = mq.head]
  OBVIOUS
<1>6. PICK y, z : y = n - 1 /\ z = Rest(n, s)
  OBVIOUS
<1>7. c \in CallRecord /\ c.op = "recv" /\ c.msg = mq.head
  <2>1. mq.head \in Link
    BY <1>4, BlocksAre
  <2> QED
    BY <1>5, <2>1, NoCallIs DEF CallRecord, Ops
<1>8. call' = [call EXCEPT ![t] = c] /\ Goto(t, "call")
  BY <1>5 DEF Grab
<1>9. /\ mq' \in BlockRecord /\ y = mq'.entry
      /\ mq'.entry = IF Receivers = Receivers THEN mq.entry - 1 ELSE mq.entry
      /\ Queues(mq', y, z, m, InHands \cup {c.msg})
  BY <1>2, <1>4, <1>6, <1>7
<1>10. Receivers \in Object /\ c.op \in Moves
  BY <1>7, MessageQueueAssumption DEF Moves
<1>11. c.msg \in MsgBlock \ InHands
  BY <1>4, <1>7
<1> QED
  BY <1>7, <1>8, <1>9, <1>10, <1>11, GrabKeeps

LEMMA TakesKeep ==
    ASSUME MqInv, NEW t \in Worker,
           \/ \E d \in Message : SendTake(t, d) \/ UrgentTake(t, d)
           \/ SendResumes(t) \/ RecvTake(t) \/ RecvResumes(t)
    PROVE  MqInv'
<1>1. CallsOK /\ t \in Thread
  BY DEF MqInv, Worker
<1>2. At(t, "run") => Lists[t] = {}
  <2>1. At(t, "run") => pc[t] = "run"
    BY DEF At
  <2> QED
    BY <1>1, <2>1 DEF MqInv, WaitsAgree
<1>3. ASSUME NEW d \in Message, SendTake(t, d) \/ UrgentTake(t, d)
      PROVE  MqInv'
  <2>1. PICK op \in {"send", "urgent"} : Grab(t, op, d, mq.free)
    BY <1>3 DEF SendTake, UrgentTake
  <2>2. /\ At(t, "run") /\ life = "live" /\ ~Full /\ mq' = Unfree(mq)
        /\ UNCHANGED k /\ UNCHANGED irq /\ UNCHANGED life
    BY <1>3 DEF SendTake, UrgentTake, Live
  <2>3. Lists[t] \subseteq {Senders}
    BY <1>2, <2>2
  <2> QED
    BY <2>1, <2>2, <2>3, TakesBlock
<1>4. CASE SendResumes(t)
  <2>1. /\ Resumed(t, "waitsend") /\ ~Full /\ mq' = Unfree(mq)
        /\ Grab(t, "send", call[t].data, mq.free)
        /\ UNCHANGED k /\ UNCHANGED irq /\ UNCHANGED life
    BY <1>4 DEF SendResumes
  <2>2. life = "live" /\ At(t, "woken") /\ Lists[t] \subseteq {Senders}
        /\ call[t].data \in Message
    BY <2>1, ResumedIsLive
  <2>3. PICK d \in Message : d = call[t].data
    BY <2>2
  <2>4. Grab(t, "send", d, mq.free)
    BY <2>1, <2>3
  <2> QED
    BY <2>1, <2>2, <2>4, TakesBlock
<1>5. CASE RecvTake(t)
  <2>1. /\ At(t, "run") /\ life = "live" /\ ~Empty /\ mq' = UnlinkHead(mq)
        /\ Grab(t, "recv", "none", mq.head)
        /\ UNCHANGED k /\ UNCHANGED irq /\ UNCHANGED life
    BY <1>5 DEF RecvTake, Live
  <2>2. Lists[t] \subseteq {Receivers}
    BY <1>2, <2>1
  <2> QED
    BY <2>1, <2>2, TakesMessage
<1>6. CASE RecvResumes(t)
  <2>1. /\ Resumed(t, "waitrecv") /\ ~Empty /\ mq' = UnlinkHead(mq)
        /\ Grab(t, "recv", "none", mq.head)
        /\ UNCHANGED k /\ UNCHANGED irq /\ UNCHANGED life
    BY <1>6 DEF RecvResumes
  <2>2. life = "live" /\ At(t, "woken") /\ Lists[t] \subseteq {Receivers}
    BY <2>1, ResumedIsLive
  <2> QED
    BY <2>1, <2>2, TakesMessage
<1> QED
  BY <1>3, <1>4, <1>5, <1>6

-----------------------------------------------------------------------------
(* A step that puts something for the waiters of one list, and takes       *)
(* nothing or one of what the waiters of the other wait for.               *)
LEMMA MoveKeeps ==
    ASSUME MqInv, KernelInv', NEW list \in Object, life = "live", UNCHANGED life,
           Lists' = Lists, CallsOK', BlocksOK',
           Amount(list)' = Amount(list) + 1,
           \A o \in Object \ {list} :
              Amount(o)' = Amount(o) \/ Amount(o)' = Amount(o) - 1,
           \A x \in Thread : pc'[x] \in {"wait", "woken"}
                                 <=> pc[x] \in {"wait", "woken"},
           IF k.wait[list] # <<>>
           THEN Frees(k, k', Head(k.wait[list])) /\ k'.error = k.error
           ELSE UNCHANGED k
    PROVE  MqInv'
<1>1. PICK w, L : w = Lists /\ L = {}
  OBVIOUS
<1>2. /\ KernelInv /\ WaitsAgree(k, pc, w) /\ CallsOK
      /\ \A o \in Object : Served(k, w, o, Amount(o)) /\ Amount(o) \in Int
      /\ L \in SUBSET {Idle} /\ Idle \in Thread /\ L \in SUBSET Thread
  BY <1>1, FreeCounts, MessageQueueAssumption, KernelAssumption DEF MqInv, ServedOK
<1>3. Ended(w, L) = w
  BY <1>1, <1>2 DEF Ended, WaitsAgree
<1>4. /\ WaitsAgree(k', pc', Ended(w, L))
      /\ \A n \in Int : Served(k, w, list, n) =>
                        Served(k', Ended(w, L), list, n + 1)
      /\ \A o \in Object \ {list} : \A n \in Int : Served(k, w, o, n) =>
               Served(k', Ended(w, L), o, IF L = {} THEN n ELSE n - 1)
  <2>1. /\ \A x \in L : k.stat[x] # "SUSPEND" /\ w[x] # {list}
        /\ \A x \in Thread : pc'[x] \in {"wait", "woken"}
                                 <=> pc[x] \in {"wait", "woken"} /\ x \notin L
    BY <1>1
  <2> QED
    BY <1>2, <2>1, GiveServes
<1>5. ASSUME NEW o \in Object
      PROVE  Served(k', Ended(w, L), o, Amount(o)')
  <2>1. PICK n \in Int : n = Amount(o) /\ Served(k, w, o, n)
    BY <1>2
  <2>2. CASE o = list
    BY <1>4, <2>1, <2>2
  <2>3. CASE o # list
    <3>1. Amount(o)' = n \/ Amount(o)' = n - 1
      BY <2>1, <2>3
    <3>2. Served(k', Ended(w, L), o, n)
      BY <1>1, <1>4, <2>1, <2>3
    <3>3. Served(k', Ended(w, L), o, n - 1)
      <4>1. Pending(k', Ended(w, L), o) \in SUBSET Thread
        BY DEF Pending
      <4>2. Cardinality(Pending(k', Ended(w, L), o)) \in Nat
        BY <4>1, PendingFinite
      <4> QED
        BY <3>2, <4>2 DEF Served
    <3> QED
      BY <3>1, <3>2, <3>3
  <2> QED
    BY <2>2, <2>3
<1>6. Wakes(k, k')
  <2>1. CASE k.wait[list] # <<>>
    BY <2>1 DEF Frees
  <2>2. CASE UNCHANGED k
    BY <1>2, <2>2, WakesNone DEF KernelInv
  <2> QED
    BY <2>1, <2>2
<1>7. life' \in {"live", "receivers", "senders", "gone"} /\ life' = "live"
  OBVIOUS
<1>8. Lists' = Ended(w, L)
  BY <1>1, <1>3
<1> QED
  BY <1>1, <1>2, <1>4, <1>5, <1>6, <1>7, <1>8, StepKeeps

(* A call links the block that it has in its hands.                        *)
LEMMA LinkKeeps ==
    ASSUME MqInv, NEW t \in Worker, At(t, "call"), call[t].op \in Moves,
           NEW list \in Object, WakeOne(t, list), EndCall(t),
           UNCHANGED irq, UNCHANGED life, mq' \in BlockRecord,
           mq'.entry = IF list = Receivers THEN mq.entry + 1 ELSE mq.entry,
           NEW n, NEW s, NEW m, n = mq'.entry,
           Queues(mq', n, s, m, InHands \ {call[t].msg})
    PROVE  MqInv'
<1>1. PICK w : w = Lists
  OBVIOUS
<1>2. /\ KernelInv /\ CallsOK /\ BlocksOK /\ LifeOK /\ t \in Thread /\ Sound(k)
      /\ WaitsAgree(k, pc, w)
      /\ irq' \in {"on", "off", "tick"} /\ pc \in [Thread -> Location]
  BY <1>1 DEF MqInv, KernelInv, Worker
<1>3. k.cur = t /\ k.stat[t] = "RUNNING" /\ pc[t] = "call"
  BY <1>2, AtRuns DEF At
<1>4. t \in Held /\ Lists[t] = {}
  BY <1>2, ListsAre DEF CallsOK, Held
<1>5. life = "live"
  BY <1>2, <1>4 DEF LifeOK
<1>6. PICK to \in {"sched", "run"} : Goto(t, to)
  BY DEF WakeOne
<1>7. pc'[t] = to /\ \A u \in Thread \ {t} : pc'[u] = pc[u]
  BY <1>2, <1>6 DEF Goto
<1>8. IF k.wait[list] # <<>>
      THEN Frees(k, k', Head(k.wait[list])) /\ k'.error = k.error
      ELSE UNCHANGED k
  BY <1>2, HeadResumed DEF WakeOne
<1>9. Wakes(k, k')
  BY <1>2, <1>8, WakesNone DEF Frees
<1>10. KernelInv'
  <2>1. to \in Location
    BY DEF Location
  <2> QED
    BY <1>2, <1>3, <1>6, <1>9, <2>1, RunningStep
<1>11. /\ CallsOK' /\ Lists' = Lists /\ InHands' = InHands \ {call[t].msg}
       /\ Cardinality(Held') = Cardinality(Held) - 1
  <2>1. PICK c : c = NoCall
    OBVIOUS
  <2>2. CallBecomes(t, c) /\ c.msg = Null /\ c.op = "none"
    BY <1>2, <1>7, <2>1, NoCallIs DEF CallBecomes, EndCall, Moves
  <2>3. /\ CallsOK' /\ Lists' = Ended(Lists, {t})
        /\ InHands' = InHands \ {call[t].msg}
        /\ Cardinality(Held') = Cardinality(Held) - 1
    BY <1>2, <1>4, <2>2, HandsGive
  <2>4. Ended(Lists, {t}) = Lists
    BY <1>1, <1>2, <1>4 DEF Ended, WaitsAgree
  <2> QED
    BY <2>3, <2>4
<1>12. BlocksOK'
  BY <1>11, BlocksMade
<1>13. /\ Amount(list)' = Amount(list) + 1
       /\ \A o \in Object \ {list} : Amount(o)' = Amount(o)
  <2>1. PICK h \in Nat : h = Cardinality(Held)
    BY <1>2, InHandsCounts
  <2>2. PICK e \in Int, x \in Int : e = mq.entry /\ x = MaxMsgs
    BY <1>2, BlocksAre DEF BlocksOK, BlockRecord
  <2>3. /\ Amount(Receivers) = e /\ Amount(Senders) = x - e - h
        /\ Amount(Receivers)' = mq'.entry /\ Amount(Senders)' = x - mq'.entry - (h - 1)
        /\ Receivers # Senders /\ Object = {Receivers, Senders}
    BY <1>11, <2>1, <2>2, MessageQueueAssumption DEF Amount, FreeCount
  <2>4. x - (e + 1) - (h - 1) = x - e - h /\ x - e - (h - 1) = x - e - h + 1
    OBVIOUS
  <2>5. CASE list = Receivers
    BY <2>2, <2>3, <2>4, <2>5
  <2>6. CASE list = Senders
    BY <2>2, <2>3, <2>4, <2>6
  <2> QED
    BY <2>3, <2>5, <2>6
<1>14. \A x \in Thread : pc'[x] \in {"wait", "woken"}
                             <=> pc[x] \in {"wait", "woken"}
  BY <1>3, <1>7
<1> QED
  BY <1>5, <1>8, <1>10, <1>11, <1>12, <1>13, <1>14, MoveKeeps

LEMMA LinksKeep ==
    ASSUME MqInv, NEW t \in Worker, SendLink(t) \/ UrgentLink(t) \/ RecvLink(t)
    PROVE  MqInv'
<1>1. /\ CallsOK /\ BlocksOK /\ t \in Thread /\ At(t, "call") /\ call[t].op \in Moves
      /\ EndCall(t) /\ UNCHANGED irq /\ UNCHANGED life
  BY DEF MqInv, Worker, SendLink, UrgentLink, RecvLink, InHand, Moves
<1>2. PICK n, m, s : Queues(mq, n, s, m, InHands) /\ n = mq.entry
  BY <1>1 DEF BlocksOK, At
<1>3. PICK b, c, H : b = call[t].msg /\ c = call[t].data /\ H = InHands
  OBVIOUS
<1>4. b \in H /\ mq \in BlockRecord /\ Queues(mq, n, s, m, H)
  BY <1>1, <1>2, <1>3 DEF CallsOK, Held, InHands, BlocksOK
<1>5. CASE SendLink(t) \/ UrgentLink(t)
  <2>1. c \in Message
    BY <1>1, <1>3, <1>5 DEF SendLink, UrgentLink, InHand, CallsOK
  <2>2. PICK z : /\ mq' \in BlockRecord /\ mq'.entry = mq.entry + 1
                 /\ Queues(mq', n + 1, z, m, H \ {b})
    <3>1. CASE SendLink(t)
      <4>1. mq' = LinkTail(mq, b, c)
        BY <1>3, <3>1 DEF SendLink
      <4> QED
        BY <1>4, <2>1, <4>1, LinkTailKeeps
    <3>2. CASE UrgentLink(t)
      <4>1. mq' = LinkHead(mq, b, c)
        BY <1>3, <3>2 DEF UrgentLink
      <4> QED
        BY <1>4, <2>1, <4>1, LinkHeadKeeps
    <3> QED
      BY <1>5, <3>1, <3>2
  <2>3. PICK y : y = n + 1
    OBVIOUS
  <2>4. y = mq'.entry /\ Queues(mq', y, z, m, InHands \ {call[t].msg})
    BY <1>2, <1>3, <2>2, <2>3
  <2>5. WakeOne(t, Receivers) /\ Receivers \in Object
    BY <1>5, MessageQueueAssumption DEF SendLink, UrgentLink
  <2> QED
    BY <1>1, <2>2, <2>4, <2>5, LinkKeeps
<1>6. CASE RecvLink(t)
  <2>1. mq' = LinkFree(mq, b) /\ WakeOne(t, Senders) /\ Senders \in Object
    BY <1>3, <1>6, MessageQueueAssumption DEF RecvLink
  <2>2. /\ mq' \in BlockRecord /\ mq'.entry = mq.entry
        /\ Queues(mq', n, s, m + 1, H \ {b})
    BY <1>4, <2>1, LinkFreeKeeps
  <2>3. PICK y : y = m + 1
    OBVIOUS
  <2>4. /\ n = mq'.entry /\ Queues(mq', n, s, y, InHands \ {call[t].msg})
        /\ mq'.entry = IF Senders = Receivers THEN mq.entry + 1 ELSE mq.entry
    BY <1>2, <1>3, <2>2, <2>3, MessageQueueAssumption
  <2> QED
    BY <1>1, <2>1, <2>2, <2>4, LinkKeeps
<1> QED
  BY <1>5, <1>6

-----------------------------------------------------------------------------
(* The first block of the queue is freed at once.                          *)
LEMMA HeadFreed ==
    ASSUME NEW q \in BlockRecord, NEW n, NEW s, NEW m, NEW H,
           Queues(q, n, s, m, H), n > 0,
           NEW r, r = LinkFree(UnlinkHead(q), q.head)
    PROVE  /\ r \in BlockRecord /\ r.entry = q.entry - 1
           /\ Queues(r, n - 1, Rest(n, s), m + 1, H)
<1>1. PICK u, b : u = UnlinkHead(q) /\ b = q.head
  OBVIOUS
<1>2. PICK G, x, z : G = H \cup {b} /\ x = n - 1 /\ z = Rest(n, s)
  OBVIOUS
<1>3. /\ u \in BlockRecord /\ u.entry = q.entry - 1 /\ b \in MsgBlock \ H
      /\ Queues(u, x, z, m, G)
  BY <1>1, <1>2, UnlinkHeadKeeps
<1>4. b \in G /\ G \ {b} = H
  BY <1>2, <1>3
<1>5. /\ r \in BlockRecord /\ r.entry = u.entry
      /\ Queues(r, x, z, m + 1, G \ {b})
  BY <1>1, <1>3, <1>4, LinkFreeKeeps
<1> QED
  BY <1>2, <1>3, <1>4, <1>5

(* The calls a handler makes.                                              *)
LEMMA HandlerKeeps ==
    ASSUME MqInv, HandlerStep
    PROVE  MqInv'
<1>1. /\ KernelInv /\ BlocksOK /\ CallsOK /\ Sound(k)
      /\ irq \in {"on", "off", "tick"}
  BY DEF MqInv, KernelInv
<1>2. /\ life = "live" /\ UNCHANGED pc /\ UNCHANGED irq /\ UNCHANGED life
      /\ UNCHANGED call /\ irq = "on"
  BY DEF HandlerStep, IsrRecv, IsrSend, IsrUrgent, Handler, Live
<1>3. PICK n, m, s : Queues(mq, n, s, m, InHands) /\ n = mq.entry
  BY <1>1, <1>2 DEF BlocksOK
<1>4. mq \in BlockRecord
  BY <1>1 DEF BlocksOK
<1>5. PICK H : H = InHands
  OBVIOUS
<1>6. CallsOK' /\ Held' = Held /\ InHands' = InHands /\ Lists' = Lists
  BY <1>1, <1>2, CallsStay
<1>7. \E list \in Object :
         /\ mq' \in BlockRecord
         /\ mq'.entry = IF list = Receivers THEN mq.entry + 1 ELSE mq.entry - 1
         /\ \E x, y, z : Queues(mq', x, z, y, H) /\ x = mq'.entry
         /\ WakeFromHandler(list)
  <2>1. CASE IsrRecv
    <3>1. mq' = LinkFree(UnlinkHead(mq), mq.head) /\ WakeFromHandler(Senders)
      BY <2>1 DEF IsrRecv
    <3>2. n > 0
      <4>1. n # 0 /\ n \in Nat
        BY <1>3, <2>1, ArrangedIs DEF IsrRecv, Empty
      <4> QED
        BY <4>1
    <3>3. PICK r : r = LinkFree(UnlinkHead(mq), mq.head)
      OBVIOUS
    <3>4. /\ r \in BlockRecord /\ r.entry = mq.entry - 1
          /\ Queues(r, n - 1, Rest(n, s), m + 1, H)
      BY <1>3, <1>4, <1>5, <3>2, <3>3, HeadFreed
    <3>5. mq' = r /\ n - 1 = r.entry
      BY <1>3, <3>1, <3>3, <3>4
    <3> QED
      BY <3>1, <3>4, <3>5, MessageQueueAssumption
  <2>2. ASSUME NEW d \in Message, IsrSend(d) \/ IsrUrgent(d)
        PROVE  /\ mq' \in BlockRecord /\ mq'.entry = mq.entry + 1
               /\ \E x, y, z : Queues(mq', x, z, y, H) /\ x = mq'.entry
               /\ WakeFromHandler(Receivers)
    <3>1. PICK q, b, G, y : /\ q = Unfree(mq) /\ b = mq.free
                            /\ G = H \cup {b} /\ y = m - 1
      OBVIOUS
    <3>2. mq.free # Null /\ WakeFromHandler(Receivers)
      BY <2>2 DEF IsrSend, IsrUrgent, Full
    <3>3. /\ q \in BlockRecord /\ q.entry = mq.entry /\ b \in MsgBlock \ H
          /\ Queues(q, n, s, y, G)
      BY <1>3, <1>4, <1>5, <3>1, <3>2, UnfreeKeeps
    <3>4. b \in G /\ G \ {b} = H
      BY <3>1, <3>3
    <3>5. mq' = LinkTail(q, b, d) \/ mq' = LinkHead(q, b, d)
      BY <2>2, <3>1 DEF IsrSend, IsrUrgent
    <3>6. PICK z : /\ mq' \in BlockRecord /\ mq'.entry = q.entry + 1
                   /\ Queues(mq', n + 1, z, y, G \ {b})
      <4>1. CASE mq' = LinkTail(q, b, d)
        BY <3>3, <3>4, <4>1, LinkTailKeeps
      <4>2. CASE mq' = LinkHead(q, b, d)
        BY <3>3, <3>4, <4>2, LinkHeadKeeps
      <4> QED
        BY <3>5, <4>1, <4>2
    <3>7. n + 1 = mq'.entry /\ Queues(mq', n + 1, z, y, H)
      BY <1>3, <3>3, <3>4, <3>6
    <3> QED
      BY <3>2, <3>3, <3>6, <3>7
  <2> QED
    BY <2>1, <2>2, MessageQueueAssumption DEF HandlerStep
<1>8. PICK list \in Object :
         /\ mq' \in BlockRecord
         /\ mq'.entry = IF list = Receivers THEN mq.entry + 1 ELSE mq.entry - 1
         /\ \E x, y, z : Queues(mq', x, z, y, H) /\ x = mq'.entry
         /\ WakeFromHandler(list)
  BY <1>7
<1>9. BlocksOK'
  <2>1. PICK x, y, z : Queues(mq', x, z, y, InHands') /\ x = mq'.entry
    BY <1>5, <1>6, <1>8
  <2> QED
    BY <1>8, <2>1, BlocksMade
<1>10. IF k.wait[list] # <<>>
       THEN Frees(k, k', Head(k.wait[list])) /\ k'.error = k.error
       ELSE UNCHANGED k
  BY <1>1, <1>8, HeadResumed DEF WakeFromHandler
<1>11. KernelInv'
  <2>1. Wakes(k, k')
    BY <1>1, <1>10, WakesNone DEF Frees
  <2> QED
    BY <1>1, <1>2, <2>1, WakeStep
<1>12. /\ Amount(list)' = Amount(list) + 1
       /\ \A o \in Object \ {list} : Amount(o)' = Amount(o) - 1
  <2>1. PICK h \in Nat : h = Cardinality(Held)
    BY <1>1, InHandsCounts
  <2>2. PICK e \in Int, x \in Int : e = mq.entry /\ x = MaxMsgs
    BY <1>1, BlocksAre DEF BlocksOK, BlockRecord
  <2>3. /\ Amount(Receivers) = e /\ Amount(Senders) = x - e - h
        /\ Amount(Receivers)' = mq'.entry /\ Amount(Senders)' = x - mq'.entry - h
        /\ Receivers # Senders /\ Object = {Receivers, Senders}
    BY <1>6, <2>1, <2>2, MessageQueueAssumption DEF Amount, FreeCount
  <2>4. x - (e + 1) - h = x - e - h - 1 /\ x - (e - 1) - h = x - e - h + 1
    OBVIOUS
  <2>5. CASE list = Receivers
    BY <1>8, <2>2, <2>3, <2>4, <2>5
  <2>6. CASE list = Senders
    BY <1>8, <2>2, <2>3, <2>4, <2>6
  <2> QED
    BY <2>3, <2>5, <2>6
<1> QED
  BY <1>2, <1>6, <1>9, <1>10, <1>11, <1>12, MoveKeeps

-----------------------------------------------------------------------------
(* The steps that move no block and end no call.                           *)
LEMMA StayKeeps ==
    ASSUME MqInv, KernelInv', Wakes(k, k') \/ LockRuns',
           NEW w, w = Lists, WaitsAgree(k', pc', w), Lists' = Lists,
           CallsOK', Held' = Held, BlocksOK',
           \A o \in Object : /\ Pending(k', w, o) = Pending(k, w, o)
                             /\ k'.wait[o] # <<>> => k.wait[o] # <<>>
                             /\ Amount(o)' = Amount(o) \/ k.wait[o] = <<>>,
           life' \in {"live", "receivers", "senders", "gone"},
           life' = life \/ life' = "live" \/
               (Held = {} /\ \A o \in Object : Pending(k, w, o) = {}),
           life' \in {"senders", "gone"} => k.wait[Receivers] = <<>>,
           life' = "gone" => k.wait[Senders] = <<>>
    PROVE  MqInv'
<1>1. PICK L : L = {}
  OBVIOUS
<1>2. Ended(w, L) = w /\ L \in SUBSET Thread
  BY <1>1 DEF Ended, WaitsAgree
<1>3. ServedOK /\ LifeOK
  BY DEF MqInv
<1>4. ASSUME NEW o \in Object
      PROVE  Served(k', Ended(w, L), o, Amount(o)')
  BY <1>2, <1>3 DEF ServedOK, Served
<1>5. life' # "live" =>
          Held' = {} /\ \A o \in Object : Pending(k', Ended(w, L), o) = {}
  BY <1>2, <1>3 DEF LifeOK
<1>6. /\ life' \in {"senders", "gone"} => k'.wait[Receivers] = <<>>
      /\ life' = "gone" => k'.wait[Senders] = <<>>
  BY MessageQueueAssumption
<1>7. Lists' = Ended(w, L) /\ WaitsAgree(k', pc', Ended(w, L))
  BY <1>2
<1> QED
  BY <1>2, <1>4, <1>5, <1>6, <1>7, StepKeeps

(* A turn of the loop that frees the messages, and the end of that loop.   *)
LEMMA ReleaseKeeps ==
    ASSUME MqInv, NEW t \in Worker, UNCHANGED call, InHands' = InHands, Held' = Held,
           ResetRelease(t) \/ ResetEnd(t)
    PROVE  BlocksOK'
<1>1. BlocksOK /\ CallsOK
  BY DEF MqInv
<1>2. PICK n, m, s : Queues(mq, n, s, m, InHands) /\ n <= mq.entry
  BY <1>1 DEF BlocksOK
<1>3. PICK H : H = InHands
  OBVIOUS
<1>4. mq \in BlockRecord /\ mq.entry \in Int /\ mq.entry <= MaxMsgs /\ n \in Nat
  BY <1>1, <1>2, ArrangedIs DEF BlocksOK, BlockRecord
<1>5. CASE ResetRelease(t)
  <2>1. PICK r, e : r = LinkFree(UnlinkHead(mq), mq.head) /\ e = mq.entry
    OBVIOUS
  <2>2. mq' = [r EXCEPT !.entry = e] /\ irq' = "off" /\ mq.head # Null
    BY <1>5, <2>1 DEF ResetRelease, InReset, kernelVars
  <2>3. n > 0
    <3>1. n # 0
      BY <1>2, <2>2, ArrangedIs
    <3> QED
      BY <1>4, <3>1
  <2>4. PICK x, y, z : x = n - 1 /\ y = m + 1 /\ z = Rest(n, s)
    OBVIOUS
  <2>5. r \in BlockRecord /\ Queues(r, x, z, y, H)
    BY <1>2, <1>3, <1>4, <2>1, <2>3, <2>4, HeadFreed
  <2>6. mq' \in BlockRecord /\ Queues(mq', x, z, y, H)
    BY <1>4, <2>1, <2>2, <2>5, EntryApart
  <2>7. mq'.entry = mq.entry
    BY <2>1, <2>2, <2>5 DEF BlockRecord
  <2>8. x <= mq'.entry
    BY <1>2, <1>4, <2>4, <2>7
  <2> QED
    BY <1>3, <1>4, <2>2, <2>6, <2>7, <2>8 DEF BlocksOK
<1>6. CASE ResetEnd(t)
  <2>1. mq' = [mq EXCEPT !.entry = 0] /\ mq.head = Null
    BY <1>6 DEF ResetEnd
  <2>2. n = 0
    BY <1>2, <2>1, ArrangedIs
  <2>3. mq' \in BlockRecord /\ Queues(mq', n, s, m, InHands')
    <3>1. PICK e \in Int : e = 0
      OBVIOUS
    <3> QED
      BY <1>2, <1>4, <2>1, <3>1, EntryApart
  <2>4. mq'.entry = n
    BY <1>4, <2>1, <2>2 DEF BlockRecord
  <2> QED
    BY <2>3, <2>4, BlocksMade
<1> QED
  BY <1>5, <1>6

LEMMA QuietKeeps ==
    ASSUME MqInv, NEW t \in Worker,
           \/ ResetBegin(t) \/ ResetRelease(t) \/ ResetEnd(t)
           \/ DetachBegin(t) \/ DetachTest(t) \/ DetachHalt(t)
           \/ DetachNext(t) \/ DetachEnd(t) \/ MqInit(t)
    PROVE  MqInv'
<1>1. PICK w, L : w = Lists /\ L = {}
  OBVIOUS
<1>2. /\ KernelInv /\ CallsOK /\ BlocksOK /\ ServedOK /\ LifeOK /\ t \in Thread
      /\ irq \in {"on", "off", "tick"} /\ L \in SUBSET Thread
      /\ WaitsAgree(k, pc, w) /\ pc \in [Thread -> Location]
  BY <1>1 DEF MqInv, KernelInv, Worker
<1>3. /\ k.cur = t /\ k.stat[t] = "RUNNING"
      /\ pc[t] \in {"run", "reset", "detach", "dequeue"}
  <2>1. CASE ResetEnd(t) \/ ResetRelease(t)
    BY <1>2, <2>1 DEF ResetEnd, ResetRelease, InReset, KernelInv, PcAgrees, Sound, OneRuns
  <2>2. CASE ~(ResetEnd(t) \/ ResetRelease(t))
    <3>1. PICK loc \in {"run", "detach", "dequeue"} : At(t, loc)
      BY <2>2 DEF ResetBegin, DetachBegin, DetachTest, DetachHalt,
                  DetachNext, DetachEnd, MqInit
    <3>2. pc[t] = loc
      BY <3>1 DEF At
    <3> QED
      BY <1>2, <3>1, <3>2, AtRuns
  <2> QED
    BY <2>1, <2>2
<1>4. UNCHANGED k /\ UNCHANGED call /\ irq' \in {"on", "off", "tick"}
  BY <1>2 DEF ResetBegin, ResetRelease, ResetEnd, DetachBegin, DetachTest, DetachHalt,
              DetachNext, DetachEnd, MqInit, kernelVars
<1>5. PICK loc \in Location \ {"wait", "woken", "call"} : Goto(t, loc) \/ UNCHANGED pc
  <2>1. UNCHANGED pc \/ \E x \in {"run", "sched", "reset", "detach", "dequeue", "halt"} :
                              Goto(t, x)
    <3>1. CASE ResetBegin(t) \/ ResetRelease(t) \/ ResetEnd(t)
      BY <3>1 DEF ResetBegin, ResetRelease, ResetEnd, kernelVars
    <3>2. CASE DetachBegin(t) \/ DetachTest(t) \/ DetachHalt(t)
      BY <3>2 DEF DetachBegin, DetachTest, DetachHalt
    <3>3. CASE DetachNext(t) \/ DetachEnd(t) \/ MqInit(t)
      BY <3>3 DEF DetachNext, DetachEnd, MqInit, kernelVars
    <3> QED
      BY <3>1, <3>2, <3>3
  <2>2. {"run", "sched", "reset", "detach", "dequeue", "halt"}
            \subseteq Location \ {"wait", "woken", "call"}
    BY DEF Location
  <2> QED
    BY <2>1, <2>2
<1>6. /\ KernelInv' /\ Wakes(k, k') /\ k'.wait = k.wait
      /\ WaitsAgree(k', pc', Ended(w, L))
      /\ \A o \in Object : Pending(k', Ended(w, L), o) = Pending(k, w, o) \ L
  <2>1. RunsOn(t, w, L, loc)
    <3>1. L = (IF pc[t] = "woken" THEN {t} ELSE {}) /\ pc[t] # "wait" /\ pc[t] # "woken"
      BY <1>1, <1>3
    <3>2. WaitsAgree(k, pc, w)
      BY <1>1 DEF MqInv
    <3> QED
      BY <1>2, <1>3, <1>4, <1>5, <3>1, <3>2 DEF RunsOn
  <2> QED
    BY <2>1, QuietStep
<1>7. w = Ended(w, L)
  BY <1>1, <1>2 DEF Ended, WaitsAgree
<1>8. CallsOK' /\ Held' = Held /\ InHands' = InHands /\ Lists' = Lists
  <2>1. \A u \in Thread : pc'[u] = "call" <=> pc[u] = "call"
    BY <1>2, <1>3, <1>5 DEF Goto
  <2> QED
    BY <1>2, <1>4, <2>1, CallsStay
<1>9. CASE MqInit(t)
  <2>1. /\ mq' = Initialized /\ life = "gone" /\ life' = "live"
    BY <1>9 DEF MqInit
  <2>2. /\ \A o \in Object : k.wait[o] = <<>>
        /\ InHands' = {}
    BY <1>2, <1>8, <2>1, MessageQueueAssumption DEF LifeOK, InHands
  <2>3. BlocksOK'
    <3>1. PICK m, s : Queues(Initialized, 0, s, m, {})
      BY InitializedQueues
    <3>2. PICK n : n = 0
      OBVIOUS
    <3>3. mq' \in BlockRecord /\ mq'.entry = n /\ Queues(mq', n, s, m, InHands')
      BY <2>1, <2>2, <3>1, <3>2, InitializedQueues
    <3> QED
      BY <3>3, BlocksMade
  <2> QED
    BY <1>1, <1>6, <1>7, <1>8, <2>1, <2>2, <2>3, StayKeeps
<1>10. CASE ResetRelease(t) \/ ResetEnd(t)
  <2>1. BlocksOK' /\ UNCHANGED life
    BY <1>4, <1>8, <1>10, ReleaseKeeps DEF ResetRelease, ResetEnd
  <2>2. \A o \in Object : k.wait[o] = <<>>
    BY <1>10 DEF ResetRelease, ResetEnd, Nonempty
  <2> QED
    BY <1>1, <1>2, <1>6, <1>7, <1>8, <2>1, <2>2, StayKeeps DEF LifeOK
<1>11. CASE \/ ResetBegin(t) \/ DetachBegin(t) \/ DetachTest(t) \/ DetachHalt(t)
            \/ DetachNext(t) \/ DetachEnd(t)
  <2>1. UNCHANGED mq /\ (irq # "off" \/ irq' = "off")
    BY <1>11 DEF ResetBegin, DetachBegin, DetachTest, DetachHalt,
                 DetachNext, DetachEnd, At, kernelVars
  <2>2. BlocksOK' /\ \A o \in Object : Amount(o)' = Amount(o)
    BY <1>2, <1>8, <2>1, BlocksStay DEF Amount, FreeCount
  <2>3. /\ life' \in {"live", "receivers", "senders", "gone"}
        /\ \/ life' = life
           \/ Held = {} /\ \A o \in Object : Pending(k, w, o) = {}
        /\ life' \in {"senders", "gone"} => k.wait[Receivers] = <<>>
        /\ life' = "gone" => k.wait[Senders] = <<>>
    <3>1. CASE DetachBegin(t)
      <4>1. life' = "receivers" /\ \A u \in Thread : ~Unfinished(u)
        BY <3>1 DEF DetachBegin
      <4>2. \A u \in Thread : u \notin Held /\ \A o \in Object : u \notin Pending(k, w, o)
        BY <1>1, <1>2, <4>1, UnfinishedIs
      <4>3. Held = {} /\ \A o \in Object : Pending(k, w, o) = {}
        BY <4>2 DEF Pending, Held
      <4> QED
        BY <4>1, <4>3
    <3>2. CASE DetachNext(t)
      BY <1>1, <1>2, <3>2 DEF DetachNext, LifeOK
    <3>3. CASE DetachEnd(t)
      BY <1>1, <1>2, <3>3 DEF DetachEnd, LifeOK
    <3>4. CASE UNCHANGED life
      BY <1>2, <3>4 DEF LifeOK
    <3> QED
      BY <1>11, <3>1, <3>2, <3>3, <3>4 DEF ResetBegin, DetachTest, DetachHalt
  <2> QED
    BY <1>1, <1>6, <1>7, <1>8, <2>2, <2>3, StayKeeps
<1> QED
  BY <1>9, <1>10, <1>11

(* The calls that end with an error: that of a waiter that was refused,    *)
(* and that of one whose time is over when it finds nothing.               *)
LEMMA FailsKeep ==
    ASSUME MqInv, NEW t \in Worker, At(t, "woken"), EndCall(t), Goto(t, "run"),
           UNCHANGED irq, UNCHANGED mq, UNCHANGED life,
           k' = k \/ k' = [k EXCEPT !.error[t] = "TIMEOUT"],
           \A o \in Object : t \in Pending(k, Lists, o) => Amount(o) = 0
    PROVE  MqInv'
<1>1. PICK w, L : w = Lists /\ L = {t}
  OBVIOUS
<1>2. /\ KernelInv /\ CallsOK /\ BlocksOK /\ ServedOK /\ LifeOK /\ t \in Thread
      /\ irq' \in {"on", "off", "tick"} /\ L \in SUBSET Thread
      /\ WaitsAgree(k, pc, w) /\ pc \in [Thread -> Location] /\ irq # "off"
  BY <1>1 DEF MqInv, KernelInv, Worker, At
<1>3. k.cur = t /\ k.stat[t] = "RUNNING" /\ pc[t] = "woken" /\ t \notin Held
  BY <1>2, AtRuns DEF At, CallsOK, Held
<1>4. /\ KernelInv' /\ Wakes(k, k') /\ k'.wait = k.wait
      /\ WaitsAgree(k', pc', Ended(w, L))
      /\ \A o \in Object : Pending(k', Ended(w, L), o) = Pending(k, w, o) \ L
  <2>1. \E loc : RunsOn(t, w, L, loc)
    <3>1. "run" \in Location \ {"wait", "woken"}
      BY DEF Location
    <3>2. WaitsAgree(k, pc, w)
      BY <1>1 DEF MqInv
    <3>3. RunsOn(t, w, L, "run")
      BY <1>1, <1>2, <1>3, <3>1, <3>2 DEF RunsOn
    <3> QED
      BY <3>3
  <2> QED
    BY <2>1, QuietStep
<1>5. /\ CallsOK' /\ Held' = Held /\ InHands' = InHands /\ Lists' = Ended(w, L)
  <2>1. PICK c : c = NoCall
    OBVIOUS
  <2>2. CallBecomes(t, c) /\ c.msg = Null /\ c.op = "none"
    BY <1>2, <2>1, NoCallIs DEF CallBecomes, EndCall, Moves, Goto
  <2>3. /\ CallsOK' /\ Held' = Held /\ InHands' = InHands
        /\ \A u \in Thread : InList(u)' = IF u # t THEN InList(u) ELSE {}
    BY <1>2, <1>3, <2>2, HandsSame
  <2> QED
    BY <1>1, <2>3 DEF Lists, Ended
<1>6. BlocksOK' /\ \A o \in Object : Amount(o)' = Amount(o)
  BY <1>2, <1>5, BlocksStay DEF Amount, FreeCount
<1>7. ASSUME NEW o \in Object
      PROVE  Served(k', Ended(w, L), o, Amount(o)')
  <2>1. Served(k, w, o, Amount(o))
    BY <1>1, <1>2 DEF ServedOK
  <2>2. CASE t \in Pending(k, w, o)
    <3>1. Pending(k', Ended(w, L), o) \in SUBSET Thread
      BY DEF Pending
    <3>2. Cardinality(Pending(k', Ended(w, L), o)) \in Nat
      BY <3>1, PendingFinite
    <3> QED
      BY <1>1, <1>6, <2>2, <3>2 DEF Served
  <2>3. CASE t \notin Pending(k, w, o)
    <3>1. Pending(k', Ended(w, L), o) = Pending(k, w, o)
      BY <1>1, <1>4, <2>3
    <3> QED
      BY <1>4, <1>6, <2>1, <3>1 DEF Served
  <2> QED
    BY <2>2, <2>3
<1>8. /\ life' \in {"live", "receivers", "senders", "gone"}
      /\ life' # "live" =>
             Held' = {} /\ \A o \in Object : Pending(k', Ended(w, L), o) = {}
      /\ life' \in {"senders", "gone"} => k'.wait[Receivers] = <<>>
      /\ life' = "gone" => k'.wait[Senders] = <<>>
  BY <1>1, <1>2, <1>4, <1>5 DEF LifeOK
<1> QED
  BY <1>1, <1>2, <1>4, <1>5, <1>6, <1>7, <1>8, StepKeeps

LEMMA CallFailsKeeps ==
    ASSUME MqInv, NEW t \in Worker, CallFails(t)
    PROVE  MqInv'
<1>1. /\ At(t, "woken") /\ EndCall(t) /\ Goto(t, "run") /\ UNCHANGED irq
      /\ UNCHANGED mq /\ UNCHANGED life /\ k' = k /\ k.error[t] # "OK"
  BY DEF CallFails
<1>2. \A o \in Object : t \in Pending(k, Lists, o) => Amount(o) = 0
  BY <1>1 DEF Pending
<1> QED
  BY <1>1, <1>2, FailsKeep

(* A turn of the loops of rt_mq_control and rt_mq_detach.                  *)
LEMMA AbortKeeps ==
    ASSUME MqInv, NEW t \in Worker, ResetWake(t) \/ DetachWake(t)
    PROVE  MqInv'
<1>1. PICK w, L : w = Lists /\ L = {}
  OBVIOUS
<1>2. /\ KernelInv /\ CallsOK /\ BlocksOK /\ ServedOK /\ LifeOK /\ t \in Thread
      /\ irq \in {"on", "off", "tick"} /\ L \in SUBSET Thread
      /\ WaitsAgree(k, pc, w) /\ Sound(k) /\ k \in KernelState
      /\ pc \in [Thread -> Location]
  BY <1>1 DEF MqInv, KernelInv, Worker, Sound, Linked
<1>3. PICK list \in Object : k.wait[list] # <<>> /\ k' = IpcListAbort(k, list)
  BY MessageQueueAssumption, <1>2 DEF ResetWake, DetachWake, Nonempty, Closing
<1>4. PICK u : u = Head(k.wait[list])
  OBVIOUS
<1>5. /\ u \in Thread /\ u \in Range(k.wait[list])
      /\ Frees(k, k', u) /\ k'.error = [k.error EXCEPT ![u] = "ERROR"]
  BY <1>2, <1>3, <1>4, HeadAborted, HeadIsWaiting
<1>6. Wakes(k, k')
  BY <1>5 DEF Frees
<1>7. /\ UNCHANGED irq /\ UNCHANGED mq /\ UNCHANGED life /\ UNCHANGED call
      /\ irq # "off" \/ irq' = "off"
  BY DEF ResetWake, DetachWake, InReset, At
<1>8. KernelInv' /\ Shrinks
  <2>1. CASE ResetWake(t)
    <3>1. UNCHANGED pc
      BY <2>1 DEF ResetWake
    <3> QED
      BY <1>2, <1>6, <1>7, <3>1, WakeStep
  <2>2. CASE DetachWake(t)
    <3>1. At(t, "dequeue") /\ Goto(t, "detach") /\ "detach" \in Location
      BY <2>2 DEF DetachWake, Location
    <3>2. k.cur = t /\ k.stat[t] = "RUNNING"
      BY <1>2, <3>1, AtRuns
    <3> QED
      BY <1>2, <1>6, <1>7, <3>1, <3>2, RunningStep
  <2> QED
    BY <2>1, <2>2
<1>9. /\ \A x \in Thread : pc'[x] \in {"wait", "woken"}
                               <=> pc[x] \in {"wait", "woken"} /\ x \notin L
      /\ \A x \in Thread : pc'[x] = "call" <=> pc[x] = "call"
  <2>1. \/ UNCHANGED pc
        \/ pc[t] = "dequeue" /\ Goto(t, "detach")
    BY DEF ResetWake, DetachWake, At
  <2> QED
    BY <1>1, <1>2, <2>1 DEF Goto
<1>10. w = Ended(w, L)
  BY <1>1, <1>2 DEF Ended, WaitsAgree
<1>11. /\ WaitsAgree(k', pc', w)
       /\ \A o \in Object : Pending(k', w, o) = Pending(k, w, o)
  <2>1. /\ \A x \in L : k.stat[x] # "SUSPEND"
        /\ \A x \in Thread \ {u} : k'.error[x] = k.error[x]
        /\ k'.error[u] = "ERROR"
    BY <1>1, <1>2, <1>5 DEF KernelState
  <2>2. /\ WaitsAgree(k', pc', Ended(w, L))
        /\ \A o \in Object :
              Pending(k', Ended(w, L), o) =
                  (Pending(k, w, o) \ L) \cup
                  IF o = list /\ k'.error[Head(k.wait[list])] = "OK"
                  THEN {Head(k.wait[list])} ELSE {}
    BY <1>2, <1>3, <1>4, <1>5, <1>9, <2>1, FreesServes
  <2>3. ASSUME NEW o \in Object
        PROVE  Pending(k', w, o) = Pending(k, w, o)
    <3>1. ~(o = list /\ k'.error[Head(k.wait[list])] = "OK")
      BY <1>4, <2>1
    <3>2. Pending(k', Ended(w, L), o) = (Pending(k, w, o) \ L) \cup {}
      BY <2>2, <3>1
    <3> QED
      BY <1>1, <1>10, <3>2
  <2> QED
    BY <1>10, <2>2, <2>3
<1>12. \A o \in Object : k'.wait[o] # <<>> => k.wait[o] # <<>>
  BY <1>2, <1>8, ShrinksEmpty
<1>13. CallsOK' /\ Held' = Held /\ InHands' = InHands /\ Lists' = Lists
  BY <1>2, <1>7, <1>9, CallsStay
<1>14. BlocksOK' /\ \A o \in Object : Amount(o)' = Amount(o)
  BY <1>2, <1>7, <1>13, BlocksStay DEF Amount, FreeCount
<1>15. /\ life' = life /\ life' \in {"live", "receivers", "senders", "gone"}
       /\ life' \in {"senders", "gone"} => k.wait[Receivers] = <<>>
       /\ life' = "gone" => k.wait[Senders] = <<>>
  BY <1>2, <1>7 DEF LifeOK
<1> QED
  BY <1>1, <1>6, <1>8, <1>11, <1>12, <1>13, <1>14, <1>15, StayKeeps

-----------------------------------------------------------------------------
(* The steps of the kernel.                                                *)
LEMMA KernelNextPlaces ==
    ASSUME KernelInv, KernelNext
    PROVE  /\ irq # "off" /\ irq' # "off"
           /\ \A x \in Thread : pc'[x] = "call" <=> pc[x] = "call"
<1>1. pc \in [Thread -> Location]
  BY DEF KernelInv
<1>2. /\ irq # "off" /\ irq' # "off"
      /\ \/ UNCHANGED pc
         \/ \E t \in Thread, loc \in {"run", "sched", "nap", "napped", "woken"} :
               pc[t] # "call" /\ Goto(t, loc)
  <2>1. CASE TickIsr
    BY <2>1 DEF TickIsr, TickInterrupt, TimerCheck, TickReturn
  <2>2. ASSUME NEW t \in Worker, CpuStep(t) \/ Sleep(t)
        PROVE  /\ irq = "on" /\ irq' = "on" /\ pc[t] # "call"
               /\ UNCHANGED pc \/
                  \E loc \in {"run", "sched", "nap", "napped", "woken"} : Goto(t, loc)
    <3>1. CASE RtSchedule(t)
      <4>1. PICK loc \in {"sched", "nap", "wait"} :
              /\ At(t, loc) /\ UNCHANGED irq
              /\ Goto(t, CASE loc = "sched" -> "run"
                           [] loc = "nap"   -> "napped"
                           [] loc = "wait"  -> "woken")
        BY <3>1 DEF RtSchedule
      <4>2. irq = "on" /\ pc[t] = loc
        BY <4>1 DEF At
      <4>3. CASE loc = "sched"
        BY <4>1, <4>2, <4>3
      <4>4. CASE loc = "nap"
        BY <4>1, <4>2, <4>4
      <4>5. CASE loc = "wait"
        BY <4>1, <4>2, <4>5
      <4> QED
        BY <4>3, <4>4, <4>5
    <3>2. CASE \E u \in Worker : Startup(t, u)
      BY <3>2 DEF Startup, At
    <3>3. CASE Yield(t) \/ Napped(t) \/ EnterCritical(t) \/ ExitCritical(t) \/ Sleep(t)
      BY <3>3 DEF Yield, Napped, EnterCritical, ExitCritical, Sleep, At
    <3> QED
      BY <2>2, <3>1, <3>2, <3>3 DEF CpuStep
  <2>3. CASE \E t \in Worker : CpuStep(t) \/ Sleep(t)
    BY <2>2, <2>3 DEF Worker
  <2> QED
    BY <2>1, <2>3 DEF KernelNext
<1> QED
  BY <1>1, <1>2 DEF Goto

LEMMA KernelStepKeeps ==
    ASSUME MqInv, KernelStep
    PROVE  MqInv'
<1>1. PICK w : w = Lists
  OBVIOUS
<1>2. /\ KernelInv /\ LockRuns /\ CallsOK /\ BlocksOK /\ ServedOK /\ LifeOK
      /\ WaitsAgree(k, pc, w)
      /\ KernelNext /\ UNCHANGED mq /\ UNCHANGED life /\ UNCHANGED call
  BY <1>1 DEF MqInv, KernelStep, KernelNext, TickIsr
<1>3. KernelInv' /\ LockRuns'
  BY <1>2, KernelNextKeeps, KernelNextLocks
<1>4. /\ WaitsAgree(k', pc', w)
      /\ \A o \in Object : /\ Pending(k', w, o) = Pending(k, w, o)
                           /\ k'.wait[o] # <<>> => k.wait[o] # <<>>
  BY <1>2, KernelNextWaits
<1>5. /\ irq # "off" /\ \A x \in Thread : pc'[x] = "call" <=> pc[x] = "call"
  BY <1>2, KernelNextPlaces
<1>6. CallsOK' /\ Held' = Held /\ InHands' = InHands /\ Lists' = Lists
  BY <1>2, <1>5, CallsStay
<1>7. BlocksOK' /\ \A o \in Object : Amount(o)' = Amount(o)
  BY <1>2, <1>5, <1>6, BlocksStay DEF Amount, FreeCount
<1>8. /\ life' = life /\ life' \in {"live", "receivers", "senders", "gone"}
      /\ life' \in {"senders", "gone"} => k.wait[Receivers] = <<>>
      /\ life' = "gone" => k.wait[Senders] = <<>>
  BY <1>2 DEF LifeOK
<1> QED
  BY <1>1, <1>3, <1>4, <1>6, <1>7, <1>8, StayKeeps

-----------------------------------------------------------------------------
(* A thread suspends itself, in a call that it makes or goes on with.      *)
LEMMA SuspendKeeps ==
    ASSUME MqInv, NEW t \in Worker, NEW loc \in {"run", "woken"}, At(t, loc),
           k.lock = 0, NEW o \in Object, Amount(o) = 0,
           NEW c \in CallRecord, Suspend(t, o, c), c.msg = Null,
           (c.op = "waitrecv" /\ o = Receivers) \/ (c.op = "waitsend" /\ o = Senders),
           c.op = "waitsend" => c.data \in Message,
           Lists[t] \subseteq {o}, life = "live",
           UNCHANGED irq, UNCHANGED mq, UNCHANGED life
    PROVE  MqInv'
<1>1. PICK w : w = Lists
  OBVIOUS
<1>2. /\ KernelInv /\ CallsOK /\ BlocksOK /\ ServedOK /\ WaitsAgree(k, pc, w)
      /\ Sound(k) /\ k \in KernelState /\ t \in Thread /\ t # Idle
      /\ pc \in [Thread -> Location] /\ irq # "off"
  BY <1>1 DEF MqInv, KernelInv, Sound, Linked, Worker, At
<1>3. k.cur = t /\ k.stat[t] = "RUNNING" /\ pc[t] = loc /\ t \notin Held
  BY <1>2, AtRuns DEF At, CallsOK, Held
<1>4. PICK time \in Int : time = c.time
  <2>1. c.time \in WaitTimes \/ c.time \in Tick
    BY DEF CallRecord
  <2>2. WaitTimes \subseteq Int /\ Tick \subseteq Int
    BY MessageQueueAssumption, KernelAssumption DEF Tick
  <2>3. c.time \in Int
    BY <2>1, <2>2
  <2> QED
    BY <2>3
<1>5. /\ k' = Block(k, o, t, MqFlag, time) /\ Goto(t, "wait")
      /\ call' = [call EXCEPT ![t] =
                     [c EXCEPT !.start = IF time > 0 THEN k.tick ELSE 0]]
  BY <1>4 DEF Suspend
<1>6. /\ Suspends(k, k', t) /\ t \in Range(k'.wait[o])
      /\ k'.error = [k.error EXCEPT ![t] = "OK"]
      /\ \A x \in Object : Range(k'.wait[x]) =
            Range(k.wait[x]) \cup (IF x = o THEN {t} ELSE {})
      /\ k'.stat = [k.stat EXCEPT ![t] = "SUSPEND"] /\ k'.lock = 0
  <2>1. PICK s : s = Block(k, o, t, MqFlag, time)
    OBVIOUS
  <2>2. Blocked(k, s, t, o)
    <3>1. Sound(k) /\ k.stat[t] = "RUNNING" /\ t \in Thread /\ t # Idle /\ k.lock = 0
      BY <1>2, <1>3
    <3> QED
      BY <2>1, <3>1, BlockGives
  <2> QED
    BY <1>5, <2>1, <2>2 DEF Blocked
<1>7. KernelInv'
  <2>1. "wait" \in {"nap", "wait"} /\ Goto(t, "wait")
    BY <1>5
  <2> QED
    BY <1>2, <1>3, <1>6, <2>1, SuspendingStep
<1>8. /\ k'.error = [k.error EXCEPT ![t] = "OK"]
      /\ \A x \in Object : Range(k'.wait[x]) =
            Range(k.wait[x]) \cup (IF x = o THEN {t} ELSE {})
      /\ k'.stat = [k.stat EXCEPT ![t] = "SUSPEND"] /\ k'.lock = 0
  BY <1>6
<1>9. PICK v : v = [w EXCEPT ![t] = {o}]
  OBVIOUS
<1>10. /\ WaitsAgree(k', pc', v)
       /\ \A x \in Object, u \in Thread : u \in Pending(k', v, x)
                <=> u \in Pending(k, w, x) /\ u # t
  <2>1. w[t] \subseteq {o}
    BY <1>1
  <2>2. Begins(w, v, t, o)
    BY <1>2, <1>3, <1>5, <1>8, <1>9, <2>1 DEF Begins
  <2> QED
    BY <2>2, WaitsBegin
<1>11. PICK d \in CallRecord : d = [c EXCEPT !.start = IF time > 0 THEN k.tick ELSE 0]
  <2>1. (IF time > 0 THEN k.tick ELSE 0) \in Tick
    <3>1. k.tick \in Tick /\ 0 \in Tick
      <4>1. 0 \in Tick
        BY KernelAssumption DEF Tick
      <4> QED
        BY <1>2, <4>1 DEF KernelState
    <3> QED
      BY <3>1
  <2> QED
    BY <2>1 DEF CallRecord
<1>12. /\ d.op = c.op /\ d.data = c.data /\ d.msg = Null
       /\ call' = [call EXCEPT ![t] = d]
  BY <1>5, <1>11 DEF CallRecord
<1>13. CallsOK' /\ Held' = Held /\ InHands' = InHands /\ Lists' = v
  <2>1. CallBecomes(t, d)
    BY <1>2, <1>5, <1>12 DEF CallBecomes, Moves, Goto
  <2>2. /\ CallsOK' /\ Held' = Held /\ InHands' = InHands
        /\ \A u \in Thread : InList(u)' =
              IF u # t THEN InList(u)
              ELSE IF d.op = "waitrecv" THEN {Receivers}
              ELSE IF d.op = "waitsend" THEN {Senders} ELSE {}
    BY <1>2, <1>3, <1>12, <2>1, HandsSame
  <2>3. \A u \in Thread : InList(u)' = IF u = t THEN {o} ELSE InList(u)
    BY <1>12, <2>2
  <2>4. \A u \in Thread : w[u] = InList(u)
    BY <1>1 DEF Lists
  <2>5. v = [u \in Thread |-> InList(u)']
    <3>1. \A u \in Thread : v[u] = InList(u)'
      <4>1. \A u \in Thread : v[u] = IF u = t THEN {o} ELSE w[u]
        BY <1>2, <1>9 DEF WaitsAgree
      <4> QED
        BY <2>3, <2>4, <4>1
    <3>2. v = [u \in Thread |-> v[u]]
      BY <1>10 DEF WaitsAgree
    <3> QED
      BY <3>1, <3>2
  <2> QED
    BY <2>2, <2>5 DEF Lists
<1>14. BlocksOK' /\ \A x \in Object : Amount(x)' = Amount(x)
  BY <1>2, <1>13, BlocksStay DEF Amount, FreeCount
<1>15. ServedOK'
  <2>1. ASSUME NEW x \in Object
        PROVE  Served(k', v, x, Amount(x)')
    <3>1. CASE x = o
      <4>1. Pending(k', v, o) \in SUBSET Thread
        BY DEF Pending
      <4>2. Cardinality(Pending(k', v, o)) \in Nat
        BY <4>1, PendingFinite
      <4> QED
        BY <1>14, <3>1, <4>2 DEF Served
    <3>2. CASE x # o
      <4>1. t \notin Pending(k, w, x)
        BY <1>1, <3>2 DEF Pending
      <4>2. Pending(k', v, x) = Pending(k, w, x)
        BY <1>10, <4>1 DEF Pending
      <4>3. k'.wait[x] # <<>> => k.wait[x] # <<>>
        <5>1. Range(k'.wait[x]) = Range(k.wait[x])
          <6>1. (IF x = o THEN {t} ELSE {}) = {}
            BY <3>2
          <6>2. Range(k'.wait[x]) = Range(k.wait[x]) \cup {}
            BY <1>8, <6>1
          <6> QED
            BY <6>2
        <5>2. k'.wait[x] \in Seq(Thread) /\ k.wait[x] \in Seq(Thread)
          BY <1>2, <1>7 DEF KernelInv, Sound, Linked, KernelState
        <5> QED
          BY <5>1, <5>2, EmptyRange
      <4>4. Served(k, w, x, Amount(x))
        BY <1>1, <1>2 DEF ServedOK
      <4> QED
        BY <1>14, <4>2, <4>3, <4>4 DEF Served
    <3> QED
      BY <3>1, <3>2
  <2> QED
    BY <1>13, <2>1 DEF ServedOK
<1>16. LifeOK'
  BY DEF LifeOK
<1>17. LockRuns'
  BY <1>8 DEF LockRuns
<1>18. WaitsAgree(k, pc, Lists)'
  BY <1>10, <1>13
<1> QED
  BY <1>7, <1>13, <1>14, <1>15, <1>16, <1>17, <1>18 DEF MqInv

(* What the lists offer, by the tests of the calls.                        *)
LEMMA NothingOffered ==
    ASSUME CallsOK, BlocksOK, irq # "off"
    PROVE  /\ Full => Amount(Senders) = 0
           /\ Empty => Amount(Receivers) = 0
<1>1. PICK n, m, s : Queues(mq, n, s, m, InHands) /\ n = mq.entry
  BY DEF BlocksOK
<1>2. Full => m = 0
  BY <1>1, ArrangedIs DEF Full
<1>3. FreeCount = m
  BY <1>1, FreeCounts
<1> QED
  BY <1>2, <1>3, FreeCounts DEF Empty

(* A call that finds no block, or no message.                              *)
LEMMA BlocksKeep ==
    ASSUME MqInv, NEW t \in Worker,
           RecvBlocks(t) \/ \E m \in Message : SendBlocks(t, m)
    PROVE  MqInv'
<1>1. /\ KernelInv /\ CallsOK /\ WaitsAgree(k, pc, Lists) /\ BlocksOK
      /\ t \in Thread /\ At(t, "run") /\ k.lock = 0 /\ life = "live"
      /\ irq # "off"
      /\ UNCHANGED irq /\ UNCHANGED mq /\ UNCHANGED life
  BY DEF MqInv, Worker, RecvBlocks, SendBlocks, MayBlock, Live, At
<1>2. \A o \in Object : Lists[t] \subseteq {o}
  <2>1. pc[t] = "run"
    BY <1>1 DEF At
  <2>2. Lists[t] = {}
    BY <1>1, <2>1 DEF WaitsAgree
  <2> QED
    BY <2>2
<1>3. CASE RecvBlocks(t)
  <2>1. PICK time \in WaitTimes \ {0} :
           Suspend(t, Receivers, [NoCall EXCEPT !.op = "waitrecv", !.time = time])
    BY <1>3 DEF RecvBlocks
  <2>2. PICK c : c = [NoCall EXCEPT !.op = "waitrecv", !.time = time]
    OBVIOUS
  <2>3. c \in CallRecord /\ c.op = "waitrecv" /\ c.msg = Null
    BY <2>2, NoCallIs DEF CallRecord, Ops
  <2>4. Amount(Receivers) = 0
    BY <1>1, <1>3, NothingOffered DEF RecvBlocks
  <2>5. Suspend(t, Receivers, c)
    BY <2>1, <2>2
  <2> QED
    BY <1>1, <1>2, <2>3, <2>4, <2>5, MessageQueueAssumption, SuspendKeeps
<1>4. ASSUME NEW d \in Message, SendBlocks(t, d)
      PROVE  MqInv'
  <2>1. PICK time \in WaitTimes \ {0} :
           Suspend(t, Senders, [NoCall EXCEPT !.op = "waitsend", !.data = d,
                                              !.time = time])
    BY <1>4 DEF SendBlocks
  <2>2. PICK c : c = [NoCall EXCEPT !.op = "waitsend", !.data = d, !.time = time]
    OBVIOUS
  <2>3. c \in CallRecord /\ c.op = "waitsend" /\ c.msg = Null /\ c.data \in Message
    BY <2>2, NoCallIs DEF CallRecord, Ops
  <2>4. Amount(Senders) = 0
    BY <1>1, <1>4, NothingOffered DEF SendBlocks
  <2>5. Suspend(t, Senders, c)
    BY <2>1, <2>2
  <2> QED
    BY <1>1, <1>2, <2>3, <2>4, <2>5, MessageQueueAssumption, SuspendKeeps
<1> QED
  BY <1>3, <1>4

(* The time left is one a call can be made with.                           *)
LEMMA LeftIs ==
    ASSUME NEW c \in CallRecord, k.tick \in Tick
    PROVE  Left(c) \in WaitTimes \cup Tick
<1>1. /\ c.time \in WaitTimes \cup Tick /\ c.start \in Tick /\ 0 \in Tick
      /\ TickMod \in Nat /\ Tick \subseteq Int /\ WaitTimes \subseteq Int
  BY KernelAssumption, MessageQueueAssumption DEF CallRecord, Tick
<1>2. PICK x \in Int, y \in Int, z \in Int : x = c.time /\ y = k.tick /\ z = c.start
  BY <1>1
<1>3. PICK d : d = Minus(x, Minus(y, z))
  OBVIOUS
<1>4. \A n \in Int : n % TickMod \in Tick
  BY TickWraps
<1>5. d \in Tick
  <2>1. PICK n \in Int : n = y - z
    OBVIOUS
  <2>2. PICK r \in Int : r = n % TickMod
    BY <1>1, <1>4
  <2>3. PICK e \in Int : e = x - r
    OBVIOUS
  <2>4. d = e % TickMod
    BY <1>3, <2>1, <2>2, <2>3 DEF Minus
  <2> QED
    BY <1>4, <2>4
<1>6. Left(c) = c.time \/ Left(c) = d \/ Left(c) = 0
  BY <1>2, <1>3 DEF Left
<1> QED
  BY <1>1, <1>5, <1>6

(* A waiter that was woken in vain.                                        *)
LEMMA WaitsOnKeep ==
    ASSUME MqInv, NEW t \in Worker, SendWaitsOn(t) \/ RecvWaitsOn(t)
    PROVE  MqInv'
<1>1. PICK op \in {"waitsend", "waitrecv"}, o \in {Senders, Receivers} :
         /\ Resumed(t, op)
         /\ \/ op = "waitsend" /\ o = Senders /\ Full
            \/ op = "waitrecv" /\ o = Receivers /\ Empty
         /\ IF Left(call[t]) = 0
            THEN /\ k' = k \/ k' = [k EXCEPT !.error[t] = "TIMEOUT"]
                 /\ Goto(t, "run") /\ EndCall(t)
            ELSE Suspend(t, o, [call[t] EXCEPT !.time = Left(call[t])])
         /\ UNCHANGED irq /\ UNCHANGED mq /\ UNCHANGED life
  BY DEF SendWaitsOn, RecvWaitsOn
<1>2. /\ KernelInv /\ CallsOK /\ BlocksOK /\ LockRuns
      /\ t \in Thread /\ k \in KernelState
      /\ At(t, "woken") /\ life = "live" /\ call[t].op = op /\ irq # "off"
      /\ Lists[t] = {IF op = "waitrecv" THEN Receivers ELSE Senders}
      /\ op = "waitsend" => call[t].data \in Message
  BY <1>1, ResumedIsLive DEF MqInv, KernelInv, Sound, Linked, Worker, At
<1>3. o \in Object /\ Amount(o) = 0 /\ Lists[t] = {o}
  BY <1>1, <1>2, NothingOffered, MessageQueueAssumption
<1>4. CASE Left(call[t]) = 0
  <2>1. \A x \in Object : t \in Pending(k, Lists, x) => Amount(x) = 0
    BY <1>3 DEF Pending
  <2> QED
    BY <1>1, <1>2, <1>4, <2>1, FailsKeep
<1>5. CASE Left(call[t]) # 0
  <2>1. PICK b \in CallRecord : b = call[t]
    BY <1>2 DEF CallsOK
  <2>2. PICK left, c : left = Left(b) /\ c = [b EXCEPT !.time = left]
    OBVIOUS
  <2>3. b.op = op /\ b.msg = Null /\ (op = "waitsend" => b.data \in Message)
    BY <1>2, <2>1 DEF CallsOK, Moves
  <2>4. left \in WaitTimes \cup Tick
    <3>1. k.tick \in Tick
      BY <1>2 DEF KernelState
    <3> QED
      BY <2>2, <3>1, LeftIs
  <2>5. c \in CallRecord /\ c.op = b.op /\ c.data = b.data /\ c.msg = b.msg
    BY <2>1, <2>2, <2>4 DEF CallRecord
  <2>6. k.lock = 0
    BY <1>2 DEF LockRuns, Inside, At
  <2>7. Suspend(t, o, c)
    BY <1>1, <1>5, <2>1, <2>2
  <2>8. /\ (c.op = "waitrecv" /\ o = Receivers) \/ (c.op = "waitsend" /\ o = Senders)
        /\ c.op = "waitsend" => c.data \in Message
        /\ c.msg = Null
    BY <1>1, <2>3, <2>5
  <2>9. Lists[t] \subseteq {o} /\ UNCHANGED irq /\ UNCHANGED mq /\ UNCHANGED life
    BY <1>1, <1>3
  <2> QED
    BY <1>2, <1>3, <2>5, <2>6, <2>7, <2>8, <2>9, SuspendKeeps
<1> QED
  BY <1>4, <1>5

-----------------------------------------------------------------------------
LEMMA InitInv == Init => MqInv
<1> SUFFICES ASSUME Init
             PROVE  MqInv
  OBVIOUS
<1>1. KernelInv /\ \A o \in Object : k.wait[o] = <<>>
  BY KernelInitInv DEF Init
<1>2. /\ k = Started /\ pc = [t \in Thread |-> "run"]
      /\ call = [t \in Thread |-> NoCall] /\ life = "live" /\ mq = Initialized
  BY DEF Init, KernelInit
<1>3. CallsOK /\ Held = {} /\ InHands = {}
  <2>1. \A t \in Thread : call[t] = NoCall /\ pc[t] = "run"
    BY <1>2
  <2>2. call \in [Thread -> CallRecord]
    BY <1>2, NoCallIs
  <2>3. Held = {}
    BY <2>1, NoCallIs DEF Held
  <2> QED
    BY <2>1, <2>2, <2>3, NoCallIs DEF CallsOK, Moves, InHands
<1>4. BlocksOK
  <2>1. PICK m, s : Queues(Initialized, 0, s, m, {})
    BY InitializedQueues
  <2>2. /\ mq \in BlockRecord /\ mq.entry = 0 /\ Queues(mq, 0, s, m, InHands)
        /\ 0 <= mq.entry /\ mq.entry <= MaxMsgs
    BY <1>2, <1>3, <2>1, InitializedQueues, BlocksAre
  <2> QED
    BY <2>2 DEF BlocksOK
<1>5. LockRuns
  BY <1>2 DEF LockRuns, Started
<1>6. WaitsAgree(k, pc, Lists)
  <2>1. \A t \in Thread : Lists[t] = {} /\ pc[t] = "run"
    BY <1>2, <1>3, ListsAre, NoCallIs
  <2>2. \A o \in Object, t \in Thread : t \notin Range(k.wait[o])
    BY <1>1 DEF Range
  <2> QED
    BY <1>3, <2>1, <2>2, ListsAre DEF WaitsAgree
<1>7. ServedOK /\ LifeOK
  BY <1>1, <1>2 DEF ServedOK, Served, LifeOK
<1> QED
  BY <1>1, <1>3, <1>4, <1>5, <1>6, <1>7 DEF MqInv

LEMMA StutterKeeps ==
    ASSUME MqInv, UNCHANGED vars
    PROVE  MqInv'
<1>1. /\ UNCHANGED k /\ UNCHANGED pc /\ UNCHANGED irq /\ UNCHANGED call
      /\ UNCHANGED life /\ UNCHANGED mq
  BY DEF vars, kernelVars
<1>2. /\ KernelInv /\ CallsOK /\ BlocksOK /\ ServedOK /\ LifeOK /\ LockRuns
      /\ WaitsAgree(k, pc, Lists)
  BY DEF MqInv
<1>3. CallsOK' /\ Held' = Held /\ InHands' = InHands /\ Lists' = Lists
  BY <1>1, <1>2, CallsStay
<1>4. KernelInv'
  BY <1>1, <1>2 DEF KernelInv, PcAgrees, NoneStranded
<1>5. LockRuns'
  BY <1>1, <1>2 DEF LockRuns, Inside
<1>6. BlocksOK'
  BY <1>1, <1>2, <1>3 DEF BlocksOK
<1>7. WaitsAgree(k, pc, Lists)'
  BY <1>1, <1>2, <1>3
<1>8. ServedOK'
  BY <1>1, <1>2, <1>3 DEF ServedOK, Amount, FreeCount
<1>9. LifeOK'
  BY <1>1, <1>2, <1>3 DEF LifeOK
<1> QED
  BY <1>3, <1>4, <1>5, <1>6, <1>7, <1>8, <1>9 DEF MqInv

LEMMA NextKeeps == MqInv /\ [Next]_vars => MqInv'
<1> SUFFICES ASSUME MqInv, [Next]_vars
             PROVE  MqInv'
  OBVIOUS
<1>1. CASE UNCHANGED vars
  BY <1>1, StutterKeeps
<1>2. CASE KernelStep
  BY <1>2, KernelStepKeeps
<1>3. CASE HandlerStep
  BY <1>3, HandlerKeeps
<1>4. ASSUME NEW t \in Worker, QueueStep(t)
      PROVE  MqInv'
  <2>1. CASE \/ \E d \in Message : SendTake(t, d) \/ UrgentTake(t, d)
             \/ SendResumes(t) \/ RecvTake(t) \/ RecvResumes(t)
    BY <2>1, TakesKeep
  <2>2. CASE RecvBlocks(t) \/ \E m \in Message : SendBlocks(t, m)
    BY <2>2, BlocksKeep
  <2>3. CASE SendWaitsOn(t) \/ RecvWaitsOn(t)
    BY <2>3, WaitsOnKeep
  <2>4. CASE SendLink(t) \/ UrgentLink(t) \/ RecvLink(t)
    BY <2>4, LinksKeep
  <2>5. CASE CallFails(t)
    BY <2>5, CallFailsKeeps
  <2>6. CASE ResetWake(t) \/ DetachWake(t)
    BY <2>6, AbortKeeps
  <2>7. CASE \/ ResetBegin(t) \/ ResetRelease(t) \/ ResetEnd(t)
             \/ DetachBegin(t) \/ DetachTest(t) \/ DetachHalt(t)
             \/ DetachNext(t) \/ DetachEnd(t) \/ MqInit(t)
    BY <2>7, QuietKeeps
  <2>8. CASE Halted(t)
    BY <2>8, StutterKeeps DEF Halted
  <2> QED
    BY <1>4, <2>1, <2>2, <2>3, <2>4, <2>5, <2>6, <2>7, <2>8 DEF QueueStep
<1> QED
  BY <1>1, <1>2, <1>3, <1>4 DEF Next

-----------------------------------------------------------------------------
(* The messages in the queue, and what the masked regions do to them.      *)
Payload == Message \cup {"none"}

Msgs(q, n, s) == [i \in 1 .. n |-> q.content[s[i]]]

After(u, c) == Append(u, c)
Ahead(u, c) == <<c>> \o u

Holds(q, n, s, m, H) ==
    q \in BlockRecord /\ Queues(q, n, s, m, H) /\ n <= q.entry

LEMMA MsgsAre ==
    ASSUME NEW q, NEW n, NEW s, NEW m, NEW H, Queues(q, n, s, m, H)
    PROVE  /\ n \in Nat /\ s \in [1 .. n -> MsgBlock]
           /\ \A i \in 1 .. n : s[i] \notin H
           /\ Msgs(q, n, s) \in Seq(Payload) /\ Len(Msgs(q, n, s)) = n
           /\ \A i \in 1 .. n : Msgs(q, n, s)[i] = q.content[s[i]]
<1>1. PICK f : Arranged(q, n, s, m, f, H)
  BY DEF Queues
<1>2. /\ n \in Nat /\ s \in [1 .. n -> MsgBlock]
      /\ q.content \in [MsgBlock -> Payload]
      /\ \A i \in 1 .. n : s[i] \notin H
  BY <1>1 DEF Arranged, Linking, Payload
<1>3. Msgs(q, n, s) \in [1 .. n -> Payload]
  BY <1>2 DEF Msgs
<1>4. Msgs(q, n, s) \in Seq(Payload)
  BY <1>2, <1>3, SeqDef
<1> QED
  BY <1>2, <1>3, <1>4 DEF Msgs

LEMMA QueuedIs ==
    ASSUME NEW q, NEW n, NEW s, NEW m, NEW H, Holds(q, n, s, m, H)
    PROVE  Queued(q) = Msgs(q, n, s)
<1>1. PICK f : Arranged(q, n, s, m, f, H)
  BY DEF Holds, Queues
<1>2. n \in Nat /\ q.entry \in Int /\ n <= q.entry /\ Linking(q.next, q.head, n, s)
  BY <1>1 DEF Holds, Arranged, BlockRecord
<1>3. EndsAt(q, n) /\ \A i \in 0 .. n - 1 : ~EndsAt(q, i)
  BY EndIs DEF Holds
<1>4. Chain(q, q.head, n) = s
  BY <1>2, ChainIs
<1> DEFINE First(x) == EndsAt(q, x) /\ \A i \in 0 .. x - 1 : ~EndsAt(q, i)
           len == CHOOSE x \in 0 .. q.entry : First(x)
<1>5. n \in 0 .. q.entry /\ First(n)
  BY <1>2, <1>3
<1>6. \A x \in 0 .. q.entry : First(x) => x = n
  <2> SUFFICES ASSUME NEW x \in 0 .. q.entry, First(x), x # n
               PROVE  FALSE
    OBVIOUS
  <2>1. CASE x < n
    <3>1. x \in 0 .. n - 1
      BY <1>2, <2>1
    <3> QED
      BY <1>3, <3>1
  <2>2. CASE x > n
    <3>1. n \in 0 .. x - 1
      BY <1>2, <2>2
    <3> QED
      BY <1>3, <3>1
  <2> QED
    BY <1>2, <2>1, <2>2
<1>7. len \in 0 .. q.entry /\ First(len)
  <2> HIDE DEF First
  <2> QED
    BY <1>5
<1>8. len = n
  <2> HIDE DEF First, len
  <2> QED
    BY <1>6, <1>7
<1>9. Queued(q) = [i \in 1 .. len |-> q.content[Chain(q, q.head, len)[i]]]
  BY DEF Queued
<1> HIDE DEF len
<1> QED
  BY <1>4, <1>8, <1>9 DEF Msgs

LEMMA UnfreeQueued ==
    ASSUME NEW q, NEW n, NEW s, NEW m, NEW H, Holds(q, n, s, m, H), q.free # Null
    PROVE  /\ q.free \in MsgBlock \ H
           /\ \E y : Holds(Unfree(q), n, s, y, H \cup {q.free})
           /\ Queued(Unfree(q)) = Queued(q)
<1>1. PICK r, y, G : r = Unfree(q) /\ y = m - 1 /\ G = H \cup {q.free}
  OBVIOUS
<1>2. /\ Holds(r, n, s, y, G) /\ r.content = q.content /\ q.free \in MsgBlock \ H
  BY <1>1, UnfreeKeeps DEF Holds
<1>3. Queued(r) = Msgs(r, n, s) /\ Queued(q) = Msgs(q, n, s)
  BY <1>2, QueuedIs
<1> QED
  BY <1>1, <1>2, <1>3 DEF Msgs

LEMMA LinkFreeQueued ==
    ASSUME NEW q, NEW n, NEW s, NEW m, NEW H, Holds(q, n, s, m, H), NEW b \in H
    PROVE  /\ \E y : Holds(LinkFree(q, b), n, s, y, H \ {b})
           /\ Queued(LinkFree(q, b)) = Queued(q)
<1>1. PICK r, y, G : r = LinkFree(q, b) /\ y = m + 1 /\ G = H \ {b}
  OBVIOUS
<1>2. Holds(r, n, s, y, G) /\ \A i \in 1 .. n : r.content[s[i]] = q.content[s[i]]
  BY <1>1, LinkFreeKeeps DEF Holds
<1>3. Queued(r) = Msgs(r, n, s) /\ Queued(q) = Msgs(q, n, s)
  BY <1>2, QueuedIs
<1>4. Msgs(r, n, s) = Msgs(q, n, s)
  BY <1>2 DEF Msgs
<1> QED
  BY <1>1, <1>2, <1>3, <1>4

LEMMA UnlinkHeadQueued ==
    ASSUME NEW q, NEW n, NEW s, NEW m, NEW H, Holds(q, n, s, m, H), n # 0
    PROVE  /\ q.head \in MsgBlock \ H
           /\ \E x, z : Holds(UnlinkHead(q), x, z, m, H \cup {q.head})
           /\ Queued(q) # <<>> /\ Queued(UnlinkHead(q)) = Tail(Queued(q))
<1>1. PICK r, x, z, G : /\ r = UnlinkHead(q) /\ x = n - 1 /\ z = Rest(n, s)
                        /\ G = H \cup {q.head}
  OBVIOUS
<1>2. /\ n \in Nat /\ s \in [1 .. n -> MsgBlock] /\ Msgs(q, n, s) \in Seq(Payload)
      /\ Len(Msgs(q, n, s)) = n
      /\ \A i \in 1 .. n : Msgs(q, n, s)[i] = q.content[s[i]]
  BY MsgsAre DEF Holds
<1>3. n > 0 /\ q.entry \in Int /\ n <= q.entry
  BY <1>2 DEF Holds, BlockRecord
<1>4. /\ r \in BlockRecord /\ r.entry = q.entry - 1 /\ r.content = q.content
      /\ q.head \in MsgBlock \ H /\ Queues(r, x, z, m, G)
  BY <1>1, <1>3, UnlinkHeadKeeps DEF Holds
<1>5. Holds(r, x, z, m, G)
  BY <1>1, <1>2, <1>3, <1>4 DEF Holds
<1>6. /\ Msgs(r, x, z) \in Seq(Payload) /\ Len(Msgs(r, x, z)) = x
      /\ \A i \in 1 .. x : Msgs(r, x, z)[i] = r.content[z[i]]
  <2>1. Queues(r, x, z, m, G)
    BY <1>4
  <2> QED
    BY <2>1, MsgsAre
<1>7. Queued(r) = Msgs(r, x, z) /\ Queued(q) = Msgs(q, n, s)
  BY <1>5, QueuedIs
<1>8. PICK u, v : u = Msgs(q, n, s) /\ v = Msgs(r, x, z)
  OBVIOUS
<1>9. u # <<>>
  BY <1>2, <1>3, <1>8, EmptySeq
<1>10. /\ Tail(u) \in Seq(Payload) /\ Len(Tail(u)) = n - 1
       /\ \A i \in 1 .. n - 1 : Tail(u)[i] = u[i + 1]
  BY <1>2, <1>8, <1>9, HeadTailProperties
<1>11. ASSUME NEW i \in 1 .. x
       PROVE  v[i] = Tail(u)[i]
  <2>1. PICK j \in 1 .. n : j = i + 1
    BY <1>1, <1>2
  <2>2. z[i] = s[j]
    BY <1>1, <2>1 DEF Rest
  <2> QED
    BY <1>1, <1>2, <1>4, <1>6, <1>8, <1>10, <2>1, <2>2
<1>12. v = Tail(u)
  BY <1>1, <1>6, <1>8, <1>10, <1>11, SeqEqual
<1> QED
  BY <1>1, <1>4, <1>5, <1>7, <1>8, <1>9, <1>12

LEMMA LinkTailQueued ==
    ASSUME NEW q, NEW n, NEW s, NEW m, NEW H, Holds(q, n, s, m, H),
           NEW b \in H, NEW c \in Message
    PROVE  Queued(LinkTail(q, b, c)) = After(Queued(q), c)
<1>1. PICK r, x, z, G : /\ r = LinkTail(q, b, c) /\ x = n + 1
                        /\ z = Longer(n, s, b) /\ G = H \ {b}
  OBVIOUS
<1>2. /\ n \in Nat /\ s \in [1 .. n -> MsgBlock] /\ Msgs(q, n, s) \in Seq(Payload)
      /\ Len(Msgs(q, n, s)) = n /\ \A i \in 1 .. n : s[i] \notin H
      /\ \A i \in 1 .. n : Msgs(q, n, s)[i] = q.content[s[i]]
  BY MsgsAre DEF Holds
<1>3. /\ q \in BlockRecord /\ q.entry \in Int /\ n <= q.entry /\ b \in MsgBlock
      /\ q.content \in [MsgBlock -> Payload]
  <2>1. \E f : Arranged(q, n, s, m, f, H)
    BY DEF Holds, Queues
  <2>2. b \in MsgBlock
    BY <2>1 DEF Arranged
  <2> QED
    BY <2>2 DEF Holds, BlockRecord, Payload
<1>4. /\ r \in BlockRecord /\ r.entry = q.entry + 1
      /\ r.content = [q.content EXCEPT ![b] = c] /\ Queues(r, x, z, m, G)
  BY <1>1, LinkTailKeeps DEF Holds
<1>5. Holds(r, x, z, m, G)
  BY <1>1, <1>2, <1>3, <1>4 DEF Holds
<1>6. /\ Msgs(r, x, z) \in Seq(Payload) /\ Len(Msgs(r, x, z)) = x
      /\ \A i \in 1 .. x : Msgs(r, x, z)[i] = r.content[z[i]]
  <2>1. Queues(r, x, z, m, G)
    BY <1>4
  <2> QED
    BY <2>1, MsgsAre
<1>7. Queued(r) = Msgs(r, x, z) /\ Queued(q) = Msgs(q, n, s)
  BY <1>5, QueuedIs
<1>8. PICK u, v : u = Msgs(q, n, s) /\ v = Msgs(r, x, z)
  OBVIOUS
<1>9. /\ Append(u, c) \in Seq(Payload) /\ Len(Append(u, c)) = n + 1
      /\ \A i \in 1 .. n + 1 : Append(u, c)[i] = IF i = n + 1 THEN c ELSE u[i]
  BY <1>2, <1>8 DEF Payload
<1>10. ASSUME NEW i \in 1 .. x
       PROVE  v[i] = Append(u, c)[i]
  <2>1. z[i] = IF i = n + 1 THEN b ELSE s[i]
    BY <1>1 DEF Longer
  <2>2. CASE i = n + 1
    BY <1>1, <1>3, <1>4, <1>6, <1>8, <1>9, <2>1, <2>2
  <2>3. CASE i # n + 1
    <3>1. i \in 1 .. n
      BY <1>1, <1>2, <2>3
    <3>2. s[i] # b /\ s[i] \in MsgBlock
      BY <1>2, <3>1
    <3> QED
      BY <1>1, <1>2, <1>3, <1>4, <1>6, <1>8, <1>9, <2>1, <2>3, <3>1, <3>2
  <2> QED
    BY <2>2, <2>3
<1>11. v = After(u, c)
  <2>1. PICK w : w = Append(u, c)
    OBVIOUS
  <2>2. w \in Seq(Payload) /\ Len(w) = x
    BY <1>1, <1>9, <2>1
  <2>3. v \in Seq(Payload) /\ Len(v) = x
    BY <1>6, <1>8
  <2>4. \A i \in 1 .. x : v[i] = w[i]
    BY <1>10, <2>1
  <2>5. v = w
    BY <2>2, <2>3, <2>4, SeqEqual
  <2> QED
    BY <2>1, <2>5 DEF After
<1> QED
  BY <1>1, <1>5, <1>7, <1>8, <1>11

LEMMA LinkHeadQueued ==
    ASSUME NEW q, NEW n, NEW s, NEW m, NEW H, Holds(q, n, s, m, H),
           NEW b \in H, NEW c \in Message
    PROVE  Queued(LinkHead(q, b, c)) = Ahead(Queued(q), c)
<1>1. PICK r, x, z, G : /\ r = LinkHead(q, b, c) /\ x = n + 1
                        /\ z = InFront(n, s, b) /\ G = H \ {b}
  OBVIOUS
<1>2. /\ n \in Nat /\ s \in [1 .. n -> MsgBlock] /\ Msgs(q, n, s) \in Seq(Payload)
      /\ Len(Msgs(q, n, s)) = n /\ \A i \in 1 .. n : s[i] \notin H
      /\ \A i \in 1 .. n : Msgs(q, n, s)[i] = q.content[s[i]]
  BY MsgsAre DEF Holds
<1>3. /\ q \in BlockRecord /\ q.entry \in Int /\ n <= q.entry /\ b \in MsgBlock
      /\ q.content \in [MsgBlock -> Payload]
  <2>1. \E f : Arranged(q, n, s, m, f, H)
    BY DEF Holds, Queues
  <2>2. b \in MsgBlock
    BY <2>1 DEF Arranged
  <2> QED
    BY <2>2 DEF Holds, BlockRecord, Payload
<1>4. /\ r \in BlockRecord /\ r.entry = q.entry + 1
      /\ r.content = [q.content EXCEPT ![b] = c] /\ Queues(r, x, z, m, G)
  BY <1>1, LinkHeadKeeps DEF Holds
<1>5. Holds(r, x, z, m, G)
  BY <1>1, <1>2, <1>3, <1>4 DEF Holds
<1>6. /\ Msgs(r, x, z) \in Seq(Payload) /\ Len(Msgs(r, x, z)) = x
      /\ \A i \in 1 .. x : Msgs(r, x, z)[i] = r.content[z[i]]
  <2>1. Queues(r, x, z, m, G)
    BY <1>4
  <2> QED
    BY <2>1, MsgsAre
<1>7. Queued(r) = Msgs(r, x, z) /\ Queued(q) = Msgs(q, n, s)
  BY <1>5, QueuedIs
<1>8. PICK u, v : u = Msgs(q, n, s) /\ v = Msgs(r, x, z)
  OBVIOUS
<1>9. /\ <<c>> \o u \in Seq(Payload) /\ Len(<<c>> \o u) = n + 1
      /\ \A i \in 1 .. n + 1 : (<<c>> \o u)[i] = IF i = 1 THEN c ELSE u[i - 1]
  <2>1. <<c>> \in Seq(Payload) /\ Len(<<c>>) = 1 /\ <<c>>[1] = c
    BY DEF Payload
  <2>2. u \in Seq(Payload) /\ Len(u) = n
    BY <1>2, <1>8
  <2>3. /\ <<c>> \o u \in Seq(Payload) /\ Len(<<c>> \o u) = 1 + n
        /\ \A i \in 1 .. 1 + n :
              (<<c>> \o u)[i] = IF i <= 1 THEN <<c>>[i] ELSE u[i - 1]
    BY <2>1, <2>2, ConcatProperties
  <2> QED
    BY <1>2, <2>1, <2>3
<1>10. ASSUME NEW i \in 1 .. x
       PROVE  v[i] = (<<c>> \o u)[i]
  <2>1. z[i] = IF i = 1 THEN b ELSE s[i - 1]
    BY <1>1 DEF InFront
  <2>2. CASE i = 1
    BY <1>1, <1>3, <1>4, <1>6, <1>8, <1>9, <2>1, <2>2
  <2>3. CASE i # 1
    <3>1. PICK j \in 1 .. n : j = i - 1
      BY <1>1, <1>2, <2>3
    <3>2. s[j] # b /\ s[j] \in MsgBlock /\ u[j] = q.content[s[j]]
      BY <1>2, <1>8, <3>1
    <3>3. i \in 1 .. n + 1 /\ z[i] = s[j]
      BY <1>1, <2>1, <2>3, <3>1
    <3>4. r.content[s[j]] = q.content[s[j]]
      BY <1>3, <1>4, <3>2
    <3>5. v[i] = r.content[z[i]]
      BY <1>6, <1>8
    <3>6. (<<c>> \o u)[i] = u[j]
      BY <1>9, <2>3, <3>1, <3>3
    <3> QED
      BY <3>2, <3>3, <3>4, <3>5, <3>6
  <2> QED
    BY <2>2, <2>3
<1>11. v = Ahead(u, c)
  <2>1. PICK w : w = <<c>> \o u
    OBVIOUS
  <2>2. w \in Seq(Payload) /\ Len(w) = x
    BY <1>1, <1>9, <2>1
  <2>3. v \in Seq(Payload) /\ Len(v) = x
    BY <1>6, <1>8
  <2>4. \A i \in 1 .. x : v[i] = w[i]
    BY <1>10, <2>1
  <2>5. v = w
    BY <2>2, <2>3, <2>4, SeqEqual
  <2> QED
    BY <2>1, <2>5 DEF Ahead
<1> QED
  BY <1>1, <1>5, <1>7, <1>8, <1>11

LEMMA EntryQueued ==
    ASSUME NEW q, NEW n, NEW s, NEW m, NEW H, Holds(q, n, s, m, H),
           NEW e \in Int, n <= e
    PROVE  Queued([q EXCEPT !.entry = e]) = Queued(q)
<1>1. PICK r : r = [q EXCEPT !.entry = e]
  OBVIOUS
<1>2. r.entry = e /\ r.content = q.content
  BY <1>1 DEF Holds, BlockRecord
<1>3. Holds(r, n, s, m, H)
  BY <1>1, <1>2, EntryApart DEF Holds
<1>4. Queued(r) = Msgs(r, n, s) /\ Queued(q) = Msgs(q, n, s)
  BY <1>3, QueuedIs
<1> QED
  BY <1>1, <1>2, <1>4 DEF Msgs

LEMMA QueuedEmpty ==
    ASSUME NEW q, NEW n, NEW s, NEW m, NEW H, Holds(q, n, s, m, H)
    PROVE  Len(Queued(q)) = n /\ n \in Nat /\ (Queued(q) = <<>> <=> n = 0)
<1>1. PICK u : u = Msgs(q, n, s)
  OBVIOUS
<1>2. u \in Seq(Payload) /\ Len(u) = n /\ n \in Nat
  BY <1>1, MsgsAre DEF Holds
<1>3. Queued(q) = u
  BY <1>1, QueuedIs
<1> QED
  BY <1>2, <1>3, EmptySeq

LEMMA InitialEmpty == Queued(Initialized) = <<>>
<1>1. PICK m, s : Queues(Initialized, 0, s, m, {})
  BY InitializedQueues
<1>2. PICK n, H : n = 0 /\ H = {}
  OBVIOUS
<1>3. Holds(Initialized, n, s, m, H)
  BY <1>1, <1>2, InitializedQueues DEF Holds
<1> QED
  BY <1>2, <1>3, QueuedEmpty

-----------------------------------------------------------------------------
(* Each step of the message queue is a step of AbstractMessageQueue or     *)
(* none of it.                                                             *)
PhaseAs(c) == CASE c.op = "waitsend" -> <<"sending", c.data>>
                [] c.op = "waitrecv" -> <<"receiving">>
                [] c.op = "send"     -> <<"filling", c.data>>
                [] c.op = "urgent"   -> <<"urging", c.data>>
                [] c.op = "recv"     -> <<"emptying">>
                [] OTHER -> <<"out">>

Phases == [t \in Thread |-> PhaseOf(t)]

Promised == [Abstract!Next]_<<Queued(mq), Phases>>

LEMMA PhaseIs ==
    ASSUME NEW c
    PROVE  /\ c.op = "waitsend" => PhaseAs(c) = <<"sending", c.data>>
           /\ c.op = "waitrecv" => PhaseAs(c) = <<"receiving">>
           /\ c.op = "send" => PhaseAs(c) = <<"filling", c.data>>
           /\ c.op = "urgent" => PhaseAs(c) = <<"urging", c.data>>
           /\ c.op = "recv" => PhaseAs(c) = <<"emptying">>
           /\ c.op = "none" => PhaseAs(c) = <<"out">>
BY DEF PhaseAs

LEMMA PhasesAre ==
    ASSUME NEW t \in Thread
    PROVE  Phases[t] = PhaseAs(call[t])
BY DEF Phases, PhaseOf, PhaseAs

LEMMA PhasesStay ==
    ASSUME UNCHANGED call
    PROVE  UNCHANGED Phases
BY DEF Phases, PhaseOf

(* A step that changes the call of one thread only.                        *)
LEMMA PhaseMoves ==
    ASSUME CallsOK, NEW t \in Thread, NEW c, call' = [call EXCEPT ![t] = c],
           NEW from, NEW to, PhaseAs(call[t]) = from, PhaseAs(c) = to
    PROVE  Abstract!Move(t, from, to)
<1>1. call'[t] = c /\ \A u \in Thread \ {t} : call'[u] = call[u]
  BY DEF CallsOK
<1>2. PhaseOf(t)' = PhaseAs(c)
  BY <1>1 DEF PhaseOf, PhaseAs
<1>3. \A u \in Thread \ {t} : PhaseOf(u)' = PhaseOf(u)
  BY <1>1 DEF PhaseOf
<1>4. Phases' = [Phases EXCEPT ![t] = to]
  BY <1>2, <1>3 DEF Phases
<1>5. Phases[t] = from
  BY PhasesAre
<1> QED
  BY <1>4, <1>5 DEF Abstract!Move, Phases

(* Who has a block in his hands is busy, and there is room while there is  *)
(* a free block.                                                           *)
LEMMA BusyIs ==
    ASSUME CallsOK
    PROVE  Abstract!Busy = Held
<1>1. ASSUME NEW t \in Thread
      PROVE  Phases[t][1] \in {"filling", "urging", "emptying"} <=> t \in Held
  <2>1. /\ call[t].op \in Ops /\ Phases[t] = PhaseAs(call[t])
        /\ t \in Held <=> call[t].op \in Moves
    BY PhasesAre DEF CallsOK, CallRecord, Held
  <2>2. CASE call[t].op = "waitsend"
    BY <2>1, <2>2, PhaseIs DEF Moves
  <2>3. CASE call[t].op = "waitrecv"
    BY <2>1, <2>3, PhaseIs DEF Moves
  <2>4. CASE call[t].op = "send"
    BY <2>1, <2>4, PhaseIs DEF Moves
  <2>5. CASE call[t].op = "urgent"
    BY <2>1, <2>5, PhaseIs DEF Moves
  <2>6. CASE call[t].op = "recv"
    BY <2>1, <2>6, PhaseIs DEF Moves
  <2>7. CASE call[t].op = "none"
    BY <2>1, <2>7, PhaseIs DEF Moves
  <2> QED
    BY <2>1, <2>2, <2>3, <2>4, <2>5, <2>6, <2>7 DEF Ops
<1>2. Abstract!Busy = {t \in Thread : Phases[t][1] \in {"filling", "urging", "emptying"}}
  BY DEF Abstract!Busy, Phases
<1>3. Held \subseteq Thread
  BY DEF Held
<1> QED
  BY <1>1, <1>2, <1>3

LEMMA QueueIs ==
    ASSUME CallsOK, BlocksOK
    PROVE  /\ \E n, s, m : Holds(mq, n, s, m, InHands)
           /\ Abstract!Room <=> ~Full
           /\ Empty => Queued(mq) = <<>>
           /\ irq # "off" /\ ~Empty =>
                 \E n, s, m : Holds(mq, n, s, m, InHands) /\ n # 0
           /\ \A n, s, m : Holds(mq, n, s, m, InHands) /\ mq.head = Null => n = 0
<1>1. PICK n, m, s : /\ Holds(mq, n, s, m, InHands)
                     /\ irq # "off" => n = mq.entry
  BY DEF BlocksOK, Holds
<1>2. /\ Len(Queued(mq)) = n /\ n \in Nat /\ (Queued(mq) = <<>> <=> n = 0)
  BY <1>1, QueuedEmpty
<1>3. PICK h \in Nat : h = Cardinality(Held)
  BY InHandsCounts
<1>4. /\ n + m + h = MaxMsgs /\ m \in Nat /\ (Full <=> m = 0)
      /\ n <= mq.entry /\ mq.entry \in Int
  BY <1>1, <1>3, BlocksCounted, InHandsCounts, ArrangedIs
     DEF Holds, Full, BlockRecord
<1>5. Abstract!Room <=> n + h < MaxMsgs
  <2>1. Abstract!Cardinality(Held) = Cardinality(Held)
    BY DEF Abstract!Cardinality, Cardinality
  <2> QED
    BY <1>2, <1>3, <2>1, BusyIs DEF Abstract!Room
<1>6. Abstract!Room <=> ~Full
  <2>1. MaxMsgs \in Nat
    BY BlocksAre
  <2> QED
    BY <1>2, <1>4, <1>5, <2>1
<1>7. Empty => n = 0
  BY <1>2, <1>4 DEF Empty
<1>8. ASSUME NEW x, NEW y, NEW z, Holds(mq, x, y, z, InHands), mq.head = Null
      PROVE  x = 0
  BY <1>8, ArrangedIs DEF Holds
<1>9. irq # "off" /\ ~Empty => n # 0
  BY <1>1 DEF Empty
<1> QED
  BY <1>1, <1>2, <1>6, <1>7, <1>8, <1>9

LEMMA StutterMaps ==
    ASSUME UNCHANGED mq, UNCHANGED call
    PROVE  Promised
BY PhasesStay DEF Promised

(* The steps of a call, from phase from to phase to.                       *)
LEMMA TakesBlockMaps ==
    ASSUME MqInv, NEW t \in Worker, ~Full, mq' = Unfree(mq), NEW d \in Message,
           NEW op \in {"send", "urgent"}, Grab(t, op, d, mq.free),
           \/ call[t].op = "none"
           \/ op = "send" /\ call[t].op = "waitsend" /\ call[t].data = d
    PROVE  Promised
<1>1. CallsOK /\ BlocksOK /\ t \in Thread
  BY DEF MqInv, Worker
<1>2. PICK c : c = [NoCall EXCEPT !.op = op, !.data = d, !.msg = mq.free]
  OBVIOUS
<1>3. call' = [call EXCEPT ![t] = c] /\ c.op = op /\ c.data = d
  BY <1>2 DEF Grab, NoCall
<1>4. UNCHANGED Queued(mq)
  <2>1. PICK n, s, m : Holds(mq, n, s, m, InHands)
    BY <1>1, QueueIs
  <2> QED
    BY <2>1, UnfreeQueued DEF Full
<1>5. PICK from, to : from = PhaseAs(call[t]) /\ to = PhaseAs(c)
  OBVIOUS
<1>6. Abstract!Move(t, from, to)
  BY <1>1, <1>3, <1>5, PhaseMoves
<1>7. \/ from = <<"out">> /\ to \in {<<"filling", d>>, <<"urging", d>>}
      \/ from = <<"sending", d>> /\ to = <<"filling", d>>
  BY <1>3, <1>5, PhaseIs
<1>8. Abstract!Claim(t, d)
  BY <1>1, <1>4, <1>6, <1>7, QueueIs DEF Abstract!Claim
<1> QED
  BY <1>1, <1>8 DEF Promised, Abstract!Next

LEMMA TakesMessageMaps ==
    ASSUME MqInv, NEW t \in Worker, irq # "off", ~Empty, mq' = UnlinkHead(mq),
           Grab(t, "recv", "none", mq.head), call[t].op \in {"none", "waitrecv"}
    PROVE  Promised
<1>1. CallsOK /\ BlocksOK /\ t \in Thread
  BY DEF MqInv, Worker
<1>2. PICK c : c = [NoCall EXCEPT !.op = "recv", !.data = "none", !.msg = mq.head]
  OBVIOUS
<1>3. call' = [call EXCEPT ![t] = c] /\ c.op = "recv"
  BY <1>2 DEF Grab, NoCall
<1>4. Queued(mq) # <<>> /\ Queued(mq)' = Tail(Queued(mq))
  <2>1. PICK n, s, m : Holds(mq, n, s, m, InHands) /\ n # 0
    BY <1>1, QueueIs
  <2> QED
    BY <2>1, UnlinkHeadQueued
<1>5. PICK from, to : from = PhaseAs(call[t]) /\ to = PhaseAs(c)
  OBVIOUS
<1>6. Abstract!Move(t, from, to)
  BY <1>1, <1>3, <1>5, PhaseMoves
<1>7. from \in {<<"out">>, <<"receiving">>} /\ to = <<"emptying">>
  BY <1>3, <1>5, PhaseIs
<1>8. Abstract!Take(t)
  BY <1>4, <1>6, <1>7 DEF Abstract!Take
<1> QED
  BY <1>1, <1>8 DEF Promised, Abstract!Next

LEMMA LinksMap ==
    ASSUME MqInv, NEW t \in Worker, SendLink(t) \/ UrgentLink(t) \/ RecvLink(t)
    PROVE  Promised
<1>1. /\ CallsOK /\ BlocksOK /\ t \in Thread /\ EndCall(t)
      /\ call[t].op \in Moves
  BY DEF MqInv, Worker, SendLink, UrgentLink, RecvLink, InHand, Moves
<1>2. PICK b, d, c, H : /\ b = call[t].msg /\ d = call[t].data /\ c = NoCall
                        /\ H = InHands
  OBVIOUS
<1>3. PICK n, s, m : Holds(mq, n, s, m, H)
  BY <1>1, <1>2, QueueIs
<1>4. b \in H
  BY <1>1, <1>2 DEF CallsOK, Held, InHands
<1>5. call' = [call EXCEPT ![t] = c] /\ c.op = "none"
  BY <1>1, <1>2 DEF EndCall, NoCall
<1>6. PICK from, to : from = PhaseAs(call[t]) /\ to = PhaseAs(c)
  OBVIOUS
<1>7. Abstract!Move(t, from, to) /\ to = <<"out">>
  BY <1>1, <1>5, <1>6, PhaseMoves, PhaseIs
<1>8. CASE SendLink(t)
  <2>1. d \in Message /\ mq' = LinkTail(mq, b, d) /\ from = <<"filling", d>>
    BY <1>1, <1>2, <1>6, <1>8, PhaseIs DEF SendLink, InHand, CallsOK
  <2>2. Queued(mq)' = After(Queued(mq), d)
    BY <1>3, <1>4, <2>1, LinkTailQueued
  <2>3. Abstract!Fill(t, d)
    BY <1>7, <2>1, <2>2 DEF Abstract!Fill, After, Ahead
  <2> QED
    BY <1>1, <2>1, <2>3 DEF Promised, Abstract!Next
<1>9. CASE UrgentLink(t)
  <2>1. d \in Message /\ mq' = LinkHead(mq, b, d) /\ from = <<"urging", d>>
    BY <1>1, <1>2, <1>6, <1>9, PhaseIs DEF UrgentLink, InHand, CallsOK
  <2>2. Queued(mq)' = Ahead(Queued(mq), d)
    BY <1>3, <1>4, <2>1, LinkHeadQueued
  <2>3. Abstract!Fill(t, d)
    BY <1>7, <2>1, <2>2 DEF Abstract!Fill, After, Ahead
  <2> QED
    BY <1>1, <2>1, <2>3 DEF Promised, Abstract!Next
<1>10. CASE RecvLink(t)
  <2>1. mq' = LinkFree(mq, b) /\ from = <<"emptying">>
    BY <1>1, <1>2, <1>6, <1>10, PhaseIs DEF RecvLink, InHand
  <2>2. UNCHANGED Queued(mq)
    BY <1>3, <1>4, <2>1, LinkFreeQueued
  <2>3. Abstract!Return(t)
    BY <1>7, <2>1, <2>2 DEF Abstract!Return
  <2> QED
    BY <1>1, <2>3 DEF Promised, Abstract!Next
<1> QED
  BY <1>8, <1>9, <1>10

LEMMA WaitsMap ==
    ASSUME MqInv, NEW t \in Worker, UNCHANGED mq, NEW c,
           call' = [call EXCEPT ![t] = c], call[t].op = "none",
           \/ c.op = "waitsend" /\ c.data \in Message /\ Full
           \/ c.op = "waitrecv" /\ Empty
    PROVE  Promised
<1>1. CallsOK /\ BlocksOK /\ t \in Thread
  BY DEF MqInv, Worker
<1>2. PICK from, to : from = PhaseAs(call[t]) /\ to = PhaseAs(c)
  OBVIOUS
<1>3. Abstract!Move(t, from, to)
  BY <1>1, <1>2, PhaseMoves
<1>4. /\ from = <<"out">>
      /\ \/ to = <<"sending", c.data>> /\ c.data \in Message /\ Full
         \/ to = <<"receiving">> /\ Empty
  BY <1>2, PhaseIs
<1>5. Abstract!Wait(t)
  BY <1>1, <1>3, <1>4, QueueIs DEF Abstract!Wait
<1> QED
  BY <1>1, <1>5 DEF Promised, Abstract!Next

LEMMA GivesUpMaps ==
    ASSUME MqInv, NEW t \in Worker, UNCHANGED mq, EndCall(t),
           call[t].op \in {"waitsend", "waitrecv"}
    PROVE  Promised
<1>1. CallsOK /\ t \in Thread /\ t \notin Held
  BY DEF MqInv, Worker, CallsOK, Held, Moves
<1>2. PICK c, from, to : /\ c = NoCall /\ from = PhaseAs(call[t])
                         /\ to = PhaseAs(c)
  OBVIOUS
<1>3. call' = [call EXCEPT ![t] = c] /\ to = <<"out">>
  BY <1>2, PhaseIs DEF EndCall, NoCall
<1>4. Abstract!Move(t, from, to)
  BY <1>1, <1>2, <1>3, PhaseMoves
<1>5. Phases[t] = from /\ from # <<"out">>
  BY <1>1, <1>2, PhasesAre, PhaseIs
<1>6. t \notin Abstract!Busy
  BY <1>1, BusyIs
<1>7. Abstract!GiveUp(t)
  BY <1>1, <1>3, <1>4, <1>5, <1>6 DEF Abstract!GiveUp, Phases
<1> QED
  BY <1>1, <1>7 DEF Promised, Abstract!Next

LEMMA WaitsOnMaps ==
    ASSUME CallsOK, UNCHANGED mq, NEW t \in Thread, NEW c,
           call' = [call EXCEPT ![t] = c], c.op = call[t].op, c.data = call[t].data
    PROVE  Promised
<1>1. call'[t] = c /\ \A u \in Thread \ {t} : call'[u] = call[u]
  BY DEF CallsOK
<1>2. UNCHANGED Phases
  BY <1>1 DEF Phases, PhaseOf
<1> QED
  BY <1>2 DEF Promised

(* A handler, a turn of the loops of a reset, and a new queue.             *)
LEMMA DropsMap ==
    ASSUME UNCHANGED call,
           \/ Queued(mq)' = <<>>
           \/ Queued(mq) # <<>> /\ Queued(mq)' = Tail(Queued(mq))
    PROVE  Promised
<1>1. UNCHANGED Phases
  BY PhasesStay
<1>2. Abstract!Handler
  BY <1>1 DEF Abstract!Handler, Phases
<1> QED
  BY <1>2 DEF Promised, Abstract!Next

LEMMA HandlerMaps ==
    ASSUME MqInv, HandlerStep
    PROVE  Promised
<1>1. CallsOK /\ BlocksOK /\ UNCHANGED call /\ irq # "off"
  BY DEF MqInv, HandlerStep, IsrRecv, IsrSend, IsrUrgent, Handler
<1>2. PICK H : H = InHands
  OBVIOUS
<1>3. CASE IsrRecv
  <2>1. ~Empty /\ mq' = LinkFree(UnlinkHead(mq), mq.head)
    BY <1>3 DEF IsrRecv
  <2>2. PICK n, s, m : Holds(mq, n, s, m, H) /\ n # 0
    BY <1>1, <1>2, <2>1, QueueIs
  <2>3. PICK q, b, G : q = UnlinkHead(mq) /\ b = mq.head /\ G = H \cup {b}
    OBVIOUS
  <2>4. /\ Queued(mq) # <<>> /\ Queued(q) = Tail(Queued(mq)) /\ b \in G
        /\ \E x, z : Holds(q, x, z, m, G)
    BY <2>2, <2>3, UnlinkHeadQueued
  <2>5. Queued(LinkFree(q, b)) = Queued(q)
    BY <2>4, LinkFreeQueued
  <2> QED
    BY <1>1, <2>1, <2>3, <2>4, <2>5, DropsMap
<1>4. ASSUME NEW d \in Message, IsrSend(d) \/ IsrUrgent(d)
      PROVE  Promised
  <2>1. PICK q, b, G : q = Unfree(mq) /\ b = mq.free /\ G = H \cup {b}
    OBVIOUS
  <2>2. ~Full /\ (mq' = LinkTail(q, b, d) \/ mq' = LinkHead(q, b, d))
    BY <1>4, <2>1 DEF IsrSend, IsrUrgent
  <2>3. PICK n, s, m : Holds(mq, n, s, m, H)
    BY <1>1, <1>2, QueueIs
  <2>4. /\ Queued(q) = Queued(mq) /\ b \in G
        /\ \E y : Holds(q, n, s, y, G)
    BY <2>1, <2>2, <2>3, UnfreeQueued DEF Full
  <2>5. Queued(mq)' \in {After(Queued(mq), d), Ahead(Queued(mq), d)}
    <3>1. CASE mq' = LinkTail(q, b, d)
      BY <2>4, <3>1, LinkTailQueued
    <3>2. CASE mq' = LinkHead(q, b, d)
      BY <2>4, <3>2, LinkHeadQueued
    <3> QED
      BY <2>2, <3>1, <3>2
  <2>6. Abstract!Room /\ UNCHANGED Phases
    BY <1>1, <2>2, QueueIs, PhasesStay
  <2>7. Abstract!Handler
    BY <1>4, <2>5, <2>6 DEF Abstract!Handler, Phases, After, Ahead
  <2> QED
    BY <2>7 DEF Promised, Abstract!Next
<1> QED
  BY <1>3, <1>4 DEF HandlerStep

LEMMA ResetMaps ==
    ASSUME MqInv, NEW t \in Worker, ResetRelease(t) \/ ResetEnd(t) \/ MqInit(t)
    PROVE  Promised
<1>1. CallsOK /\ BlocksOK /\ UNCHANGED call
  BY DEF MqInv, ResetRelease, ResetEnd, MqInit
<1>2. PICK H : H = InHands
  OBVIOUS
<1>3. PICK n, s, m : Holds(mq, n, s, m, H)
  BY <1>1, <1>2, QueueIs
<1>4. CASE ResetRelease(t)
  <2>1. PICK q, b, G, e : /\ q = UnlinkHead(mq) /\ b = mq.head
                          /\ G = H \cup {b} /\ e = mq.entry
    OBVIOUS
  <2>2. PICK r : r = LinkFree(q, b)
    OBVIOUS
  <2>3. mq' = [r EXCEPT !.entry = e] /\ mq.head # Null
    BY <1>4, <2>1, <2>2 DEF ResetRelease
  <2>4. n # 0 /\ e \in Int
    <3>1. n # 0
      BY <1>3, <2>3, ArrangedIs DEF Holds
    <3> QED
      BY <1>3, <2>1, <3>1 DEF Holds, BlockRecord
  <2>5. PICK x, z : /\ Queued(mq) # <<>> /\ Queued(q) = Tail(Queued(mq)) /\ b \in G
                    /\ Holds(q, x, z, m, G)
    BY <1>3, <2>1, <2>4, UnlinkHeadQueued
  <2>6. PICK y : /\ Queued(r) = Queued(q) /\ Holds(r, x, z, y, G \ {b})
    BY <2>2, <2>5, LinkFreeQueued
  <2>7. x <= e
    <3>1. x <= q.entry /\ q.entry = e - 1 /\ x \in Nat
      <4>1. q.entry = mq.entry - 1
        BY <2>1, <2>4 DEF UnlinkHead, Holds, BlockRecord
      <4> QED
        BY <2>1, <2>5, <4>1, QueuedEmpty DEF Holds
    <3> QED
      BY <2>4, <3>1
  <2>8. Queued([r EXCEPT !.entry = e]) = Queued(r)
    BY <2>4, <2>6, <2>7, EntryQueued
  <2> QED
    BY <1>1, <2>3, <2>5, <2>6, <2>8, DropsMap
<1>5. CASE ResetEnd(t)
  <2>1. mq' = [mq EXCEPT !.entry = 0] /\ mq.head = Null
    BY <1>5 DEF ResetEnd
  <2>2. n = 0
    BY <1>1, <1>2, <1>3, <2>1, QueueIs
  <2>3. PICK e \in Int : e = 0
    OBVIOUS
  <2>4. Queued(mq) = <<>> /\ Queued([mq EXCEPT !.entry = e]) = Queued(mq)
    BY <1>3, <2>2, <2>3, QueuedEmpty, EntryQueued
  <2> QED
    BY <1>1, <2>1, <2>3, <2>4, DropsMap
<1>6. CASE MqInit(t)
  <2>1. mq' = Initialized
    BY <1>6 DEF MqInit
  <2>2. Queued(Initialized) = <<>>
    BY InitialEmpty
  <2> QED
    BY <1>1, <2>1, <2>2, DropsMap
<1> QED
  BY <1>4, <1>5, <1>6

LEMMA QueueStepMaps ==
    ASSUME MqInv, NEW t \in Worker, QueueStep(t)
    PROVE  Promised
<1>1. /\ CallsOK /\ t \in Thread /\ call \in [Thread -> CallRecord]
      /\ WaitsAgree(k, pc, Lists)
  BY DEF MqInv, CallsOK, Worker
<1>2. /\ At(t, "run") => call[t].op = "none"
      /\ At(t, "woken") => call[t].op \in {"waitsend", "waitrecv"}
  <2>1. /\ Lists[t] # {} <=> pc[t] \in {"wait", "woken"}
        /\ call[t].op \in Moves <=> pc[t] = "call"
        /\ call[t].op \in Ops
    BY <1>1 DEF WaitsAgree, CallsOK, CallRecord
  <2>2. /\ Lists[t] = {} <=> call[t].op \in Moves \cup {"none"}
        /\ At(t, "run") => pc[t] = "run"
        /\ At(t, "woken") => pc[t] = "woken"
    BY <1>1, ListsAre DEF At
  <2> QED
    BY <2>1, <2>2 DEF Ops, Moves
<1>3. CASE \E d \in Message : SendTake(t, d) \/ UrgentTake(t, d)
  <2>1. PICK d \in Message, op \in {"send", "urgent"} : Grab(t, op, d, mq.free)
           /\ At(t, "run") /\ ~Full /\ mq' = Unfree(mq)
    BY <1>3 DEF SendTake, UrgentTake
  <2> QED
    BY <1>2, <2>1, TakesBlockMaps
<1>4. CASE SendResumes(t)
  <2>1. PICK d, op : d = call[t].data /\ op = "send"
    OBVIOUS
  <2>2. /\ ~Full /\ mq' = Unfree(mq) /\ Grab(t, op, d, mq.free)
        /\ call[t].op = "waitsend"
    BY <1>4, <2>1 DEF SendResumes, Resumed
  <2>3. d \in Message
    BY <1>1, <2>1, <2>2 DEF CallsOK
  <2> QED
    BY <2>1, <2>2, <2>3, TakesBlockMaps
<1>5. CASE RecvTake(t) \/ RecvResumes(t)
  <2>1. /\ ~Empty /\ mq' = UnlinkHead(mq) /\ Grab(t, "recv", "none", mq.head)
        /\ call[t].op \in {"none", "waitrecv"} /\ irq # "off"
    BY <1>2, <1>5 DEF RecvTake, RecvResumes, Resumed, At
  <2> QED
    BY <2>1, TakesMessageMaps
<1>6. CASE SendLink(t) \/ UrgentLink(t) \/ RecvLink(t)
  BY <1>6, LinksMap
<1>7. CASE RecvBlocks(t) \/ \E d \in Message : SendBlocks(t, d)
  <2>1. PICK c :
           /\ call' = [call EXCEPT ![t] = c] /\ UNCHANGED mq /\ At(t, "run")
           /\ \/ c.op = "waitsend" /\ c.data \in Message /\ Full
              \/ c.op = "waitrecv" /\ Empty
    <3>1. CASE RecvBlocks(t)
      <4>1. PICK time : Suspend(t, Receivers,
                  [NoCall EXCEPT !.op = "waitrecv", !.time = time])
        BY <3>1 DEF RecvBlocks
      <4>2. PICK e, s, c : /\ e = [NoCall EXCEPT !.op = "waitrecv", !.time = time]
                           /\ c = [e EXCEPT !.start = s]
                           /\ call' = [call EXCEPT ![t] = c]
        BY <4>1 DEF Suspend
      <4>3. c.op = "waitrecv"
        BY <4>2 DEF NoCall
      <4> QED
        BY <3>1, <4>2, <4>3 DEF RecvBlocks
    <3>2. ASSUME NEW d \in Message, SendBlocks(t, d)
          PROVE  \E c : /\ call' = [call EXCEPT ![t] = c] /\ UNCHANGED mq
                        /\ At(t, "run") /\ Full
                        /\ c.op = "waitsend" /\ c.data \in Message
      <4>1. PICK time : Suspend(t, Senders,
                  [NoCall EXCEPT !.op = "waitsend", !.data = d, !.time = time])
        BY <3>2 DEF SendBlocks
      <4>2. PICK e, s, c :
               /\ e = [NoCall EXCEPT !.op = "waitsend", !.data = d, !.time = time]
               /\ c = [e EXCEPT !.start = s]
               /\ call' = [call EXCEPT ![t] = c]
        BY <4>1 DEF Suspend
      <4>3. c.op = "waitsend" /\ c.data = d
        BY <4>2 DEF NoCall
      <4> QED
        BY <3>2, <4>2, <4>3 DEF SendBlocks
    <3> QED
      BY <1>7, <3>1, <3>2
  <2> QED
    BY <1>2, <2>1, WaitsMap
<1>8. CASE SendWaitsOn(t) \/ RecvWaitsOn(t)
  <2>1. UNCHANGED mq /\ call[t].op \in {"waitsend", "waitrecv"}
    BY <1>8 DEF SendWaitsOn, RecvWaitsOn, Resumed
  <2>2. EndCall(t) \/ \E o : Suspend(t, o, [call[t] EXCEPT !.time = Left(call[t])])
    BY <1>8 DEF SendWaitsOn, RecvWaitsOn
  <2>3. ASSUME NEW o, Suspend(t, o, [call[t] EXCEPT !.time = Left(call[t])])
        PROVE  Promised
    <3>1. PICK d, s, c : /\ d = [call[t] EXCEPT !.time = Left(call[t])]
                         /\ c = [d EXCEPT !.start = s]
                         /\ call' = [call EXCEPT ![t] = c]
      BY <2>3 DEF Suspend
    <3>2. call[t] \in CallRecord
      BY <1>1
    <3>3. c.op = call[t].op /\ c.data = call[t].data
      BY <3>1, <3>2 DEF CallRecord
    <3> QED
      BY <1>1, <2>1, <3>1, <3>3, WaitsOnMaps
  <2> QED
    BY <2>1, <2>2, <2>3, GivesUpMaps
<1>9. CASE CallFails(t)
  BY <1>2, <1>9, GivesUpMaps DEF CallFails
<1>10. CASE ResetRelease(t) \/ ResetEnd(t) \/ MqInit(t)
  BY <1>10, ResetMaps
<1>11. CASE \/ ResetBegin(t) \/ ResetWake(t) \/ DetachBegin(t) \/ DetachTest(t)
            \/ DetachWake(t) \/ DetachHalt(t) \/ DetachNext(t) \/ DetachEnd(t)
            \/ Halted(t)
  <2>1. UNCHANGED mq /\ UNCHANGED call
    BY <1>11 DEF ResetBegin, ResetWake, DetachBegin, DetachTest, DetachWake,
                 DetachHalt, DetachNext, DetachEnd, Halted, vars
  <2> QED
    BY <2>1, StutterMaps
<1> QED
  BY <1>3, <1>4, <1>5, <1>6, <1>7, <1>8, <1>9, <1>10, <1>11 DEF QueueStep

LEMMA StepMaps == MqInv /\ [Next]_vars => Promised
<1> SUFFICES ASSUME MqInv, [Next]_vars
             PROVE  Promised
  OBVIOUS
<1>1. CASE UNCHANGED vars \/ KernelStep
  <2>1. UNCHANGED mq /\ UNCHANGED call
    BY <1>1 DEF vars, KernelStep
  <2> QED
    BY <2>1, StutterMaps
<1>2. CASE HandlerStep
  BY <1>2, HandlerMaps
<1>3. ASSUME NEW t \in Worker, QueueStep(t)
      PROVE  Promised
  BY <1>3, QueueStepMaps
<1> QED
  BY <1>1, <1>2, <1>3 DEF Next

LEMMA InitMaps == Init => Abstract!Init
<1> SUFFICES ASSUME Init
             PROVE  Abstract!Init
  OBVIOUS
<1>1. Queued(mq) = <<>>
  BY InitialEmpty DEF Init
<1>2. \A t \in Thread : PhaseOf(t) = <<"out">>
  BY DEF Init, NoCall, PhaseOf
<1>3. Phases = [t \in Thread |-> <<"out">>]
  BY <1>2 DEF Phases
<1> QED
  BY <1>1, <1>3 DEF Abstract!Init, Phases

-----------------------------------------------------------------------------
(* The invariant of the message queue holds in every reachable state: of   *)
(* its two lists of blocks and the blocks in the hands of calls, of the    *)
(* waiting calls, and of what the waiters of each list are owed            *)
(* (rt_mq_send_wait, rt_mq_urgent, rt_mq_recv, rt_mq_control,              *)
(* rt_mq_detach).                                                          *)
THEOREM InductiveInvariant == Spec => []MqInv
<1>1. Init => MqInv
  BY InitInv
<1>2. MqInv /\ [Next]_vars => MqInv'
  BY NextKeeps
<1> QED
  BY <1>1, <1>2, PTL DEF Spec

(* Every variable keeps its type: mq->entry between 0 and mq->max_msgs,    *)
(* and every link of a message leads to a block of the pool or is null.    *)
THEOREM TypeCorrect == Spec => []TypeOK
<1>1. ASSUME MqInv
      PROVE  TypeOK
  <2>1. KernelInv /\ CallsOK /\ BlocksOK /\ LifeOK
    BY <1>1 DEF MqInv
  <2>2. mq \in BlockLists
    <3>1. mq.entry \in 0 .. MaxMsgs /\ mq \in BlockRecord
      BY <2>1, FreeCounts DEF BlocksOK
    <3> QED
      BY <3>1 DEF BlockRecord, BlockLists
  <2>3. call \in [Thread -> [op : Ops, data : Message \cup {"none"}, msg : Link,
                             time : WaitTimes \cup Tick, start : Tick]]
    BY <2>1 DEF CallsOK, CallRecord
  <2> QED
    BY <2>1, <2>2, <2>3, KernelInvGives DEF TypeOK, LifeOK
<1> QED
  BY <1>1, InductiveInvariant, PTL

(* The ready lists, their bitmap, the states and priorities of the threads *)
(* and the two suspend lists agree although the calls of                   *)
(* rt_mq_send_wait and rt_mq_recv suspend a thread again and               *)
(* again, with the time that is left (scheduler.c, thread.c, ipc.c).       *)
THEOREM SchedulerStaysConsistent == Spec => []SchedulerConsistent
<1>1. MqInv => SchedulerConsistent
  BY KernelInvGives DEF MqInv
<1> QED
  BY <1>1, InductiveInvariant, PTL

(* A suspended caller can be found by a wakeup of its list or has its      *)
(* timer armed, in each of its rounds in the loop of the call              *)
(* (ipc.c, thread.c).                                                      *)
THEOREM NobodyStranded == Spec => []NoneStranded
<1>1. MqInv => NoneStranded
  BY DEF MqInv, KernelInv
<1> QED
  BY <1>1, InductiveInvariant, PTL

(* No block is lost, shared or linked twice: the queue, the free list and  *)
(* the hands of the calls have all the blocks between them, whatever the   *)
(* interleaving of the two masked regions of each call (rt_mq_send_wait,   *)
(* rt_mq_urgent, rt_mq_recv, rt_mq_control).                               *)
THEOREM BlocksKept == Spec => []BlocksAccounted
<1>1. MqInv => BlocksAccounted
  BY AccountsAgree DEF MqInv
<1> QED
  BY <1>1, InductiveInvariant, PTL

(* While receivers wait, each message has a receiver that was woken and    *)
(* will test the queue again: no message is left lying (rt_mq_send_wait    *)
(* and rt_mq_urgent wake one receiver for each message).                   *)
THEOREM NoMessageLeftLying == Spec => []NoMessageMissed
<1>1. MqInv => NoMessageMissed
  BY UnfinishedIs, FreeCounts, MessageQueueAssumption
     DEF MqInv, ServedOK, Served, NoMessageMissed
<1> QED
  BY <1>1, InductiveInvariant, PTL

(* While senders wait, each free block has a sender that was woken and     *)
(* will test the queue again, also while other blocks are in the hands of  *)
(* calls (rt_mq_recv wakes one sender for each block it frees).            *)
THEOREM NoBlockLeftFree == Spec => []NoBlockMissed
<1>1. MqInv => NoBlockMissed
  BY UnfinishedIs, FreeCounts, MessageQueueAssumption
     DEF MqInv, ServedOK, Served, NoBlockMissed
<1> QED
  BY <1>1, InductiveInvariant, PTL

(* The linked blocks are a bounded queue with reserved places: a call of   *)
(* rt_mq_send_wait or rt_mq_urgent that has claimed a block sends its own  *)
(* message in it, messages are received once and in the order in which     *)
(* they were linked, an urgent one first, and a waiting call that fails    *)
(* has moved nothing.                                                      *)
THEOREM MessageQueueRefines == Spec => ImplementsMessageQueue
<1>1. Init => MqInv /\ Abstract!Init
  BY InitInv, InitMaps
<1>2. MqInv /\ [Next]_vars => MqInv' /\ Promised
  BY NextKeeps, StepMaps
<1> QED
  BY <1>1, <1>2, PTL DEF Spec, ImplementsMessageQueue, Abstract!Spec, Promised,
                         Phases
=============================================================================
