-------------------------- MODULE ProcessorProofs --------------------------
(***************************************************************************)
(* What the operations of modules Kernel and Processor preserve, for any   *)
(* set of threads, priorities and objects.                                 *)
(*                                                                         *)
(* First the lists: what unlinking a node, linking one at a place or at    *)
(* the tail, and taking the first one off do to the members of a list, and *)
(* that the scans of the code find the first of its kind.  Then the        *)
(* operations of module Kernel, on a kernel state b: its type, and the     *)
(* consistency of the scheduler's data structures.  Then the steps of      *)
(* module Processor and their inductive invariant: the kernel state is     *)
(* sound, the place each thread is at agrees with its state, and no        *)
(* suspended thread is stranded.                                           *)
(***************************************************************************)
EXTENDS Processor, SequenceTheorems, FiniteSetTheorems, WellFoundedInduction,
        TLAPS

(* rt_list_remove takes one node out and keeps the others.                 *)
LEMMA RemoveAtProperties ==
    ASSUME NEW S, NEW s \in Seq(S), NEW i \in 1 .. Len(s)
    PROVE  /\ RemoveAt(s, i) \in Seq(S)
           /\ Len(RemoveAt(s, i)) = Len(s) - 1
           /\ \A j \in 1 .. Len(s) - 1 :
                 RemoveAt(s, i)[j] = IF j < i THEN s[j] ELSE s[j + 1]
<1> DEFINE l == SubSeq(s, 1, i - 1)
           r == SubSeq(s, i + 1, Len(s))
<1>1. l \in Seq(S) /\ Len(l) = i - 1 /\ \A j \in 1 .. i - 1 : l[j] = s[j]
  BY SubSeqProperties
<1>2. r \in Seq(S) /\ Len(r) = Len(s) - i
      /\ \A j \in 1 .. Len(s) - i : r[j] = s[j + i]
  BY SubSeqProperties
<1>3. RemoveAt(s, i) = l \o r
  BY DEF RemoveAt
<1> HIDE DEF l, r
<1>4. l \o r \in Seq(S) /\ Len(l \o r) = Len(s) - 1
  <2>1. l \o r \in Seq(S) /\ Len(l \o r) = Len(l) + Len(r)
    BY <1>1, <1>2, ConcatProperties
  <2> QED
    BY <1>1, <1>2, <2>1, LenProperties
<1>5. ASSUME NEW j \in 1 .. Len(s) - 1
      PROVE  (l \o r)[j] = IF j < i THEN s[j] ELSE s[j + 1]
  <2>1. CASE j < i
    BY <1>1, <1>2, <2>1, ConcatProperties
  <2>2. CASE ~(j < i)
    <3>1. (l \o r)[j] = r[j - Len(l)]
      BY <1>1, <1>2, <2>2, ConcatProperties
    <3>2. j - Len(l) \in 1 .. Len(s) - i /\ j - Len(l) + i = j + 1
      BY <1>1, <2>2
    <3> QED
      BY <1>2, <2>2, <3>1, <3>2
  <2> QED
    BY <2>1, <2>2
<1> QED
  BY <1>3, <1>4, <1>5

LEMMA WithoutType ==
    ASSUME NEW S, NEW s \in Seq(S), NEW t
    PROVE  Without(s, t) \in Seq(S)
<1> DEFINE at == CHOOSE i \in 1 .. Len(s) : s[i] = t
<1>1. CASE \E i \in 1 .. Len(s) : s[i] = t
  <2>1. at \in 1 .. Len(s)
    BY <1>1
  <2> HIDE DEF at
  <2>2. RemoveAt(s, at) \in Seq(S)
    BY <2>1, RemoveAtProperties
  <2> USE DEF at
  <2> QED
    BY <1>1, <2>2 DEF Without
<1>2. CASE ~ \E i \in 1 .. Len(s) : s[i] = t
  BY <1>2 DEF Without
<1> QED
  BY <1>1, <1>2

LEMMA RangeIs ==
    ASSUME NEW S, NEW s \in Seq(S), NEW x
    PROVE  x \in Range(s) <=> \E i \in 1 .. Len(s) : s[i] = x
BY LenProperties DEF Range

(* Removing a node of a list that holds it once leaves the others.         *)
LEMMA WithoutProperties ==
    ASSUME NEW S, NEW s \in Seq(S), NEW t, Distinct(s)
    PROVE  /\ Without(s, t) \in Seq(S)
           /\ Distinct(Without(s, t))
           /\ Range(Without(s, t)) = Range(s) \ {t}
           /\ t \notin Range(s) => Without(s, t) = s
<1> DEFINE at == CHOOSE i \in 1 .. Len(s) : s[i] = t
<1>0. Len(s) \in Nat
  BY LenProperties
<1>1. CASE \E i \in 1 .. Len(s) : s[i] = t
  <2>1. at \in 1 .. Len(s) /\ s[at] = t
    BY <1>1
  <2>2. Without(s, t) = RemoveAt(s, at)
    BY <1>1 DEF Without
  <2> HIDE DEF at
  <2> DEFINE w == RemoveAt(s, at)
  <2>3. /\ w \in Seq(S)
        /\ Len(w) = Len(s) - 1
        /\ \A j \in 1 .. Len(s) - 1 : w[j] = IF j < at THEN s[j] ELSE s[j + 1]
    BY <2>1, RemoveAtProperties
  <2> HIDE DEF w
  <2>4. Distinct(w)
    <3> SUFFICES ASSUME NEW i \in 1 .. Len(s) - 1, NEW j \in 1 .. Len(s) - 1,
                        w[i] = w[j]
                 PROVE  i = j
      BY <2>3 DEF Distinct
    <3> DEFINE f(x) == IF x < at THEN x ELSE x + 1
    <3>1. f(i) \in 1 .. Len(s) /\ f(j) \in 1 .. Len(s)
      BY <1>0, <2>1
    <3>2. w[i] = s[f(i)] /\ w[j] = s[f(j)]
      BY <2>3
    <3>3. f(i) = f(j)
      BY <3>1, <3>2 DEF Distinct
    <3> QED
      BY <1>0, <2>1, <3>3
  <2>5. ASSUME NEW x \in Range(w)
        PROVE  x \in Range(s) \ {t}
    <3>1. PICK j \in 1 .. Len(s) - 1 : w[j] = x
      BY <2>3, RangeIs
    <3> DEFINE i == IF j < at THEN j ELSE j + 1
    <3>2. i \in 1 .. Len(s) /\ i # at /\ s[i] = x
      BY <1>0, <2>1, <2>3, <3>1
    <3>3. x # t
      BY <2>1, <3>2 DEF Distinct
    <3> QED
      BY <3>2, <3>3, RangeIs
  <2>6. ASSUME NEW x \in Range(s), x # t
        PROVE  x \in Range(w)
    <3>1. PICK i \in 1 .. Len(s) : s[i] = x
      BY RangeIs
    <3> DEFINE j == IF i < at THEN i ELSE i - 1
    <3>2. i # at
      BY <2>1, <2>6, <3>1
    <3>3. j \in 1 .. Len(s) - 1 /\ w[j] = x
      BY <1>0, <2>1, <2>3, <3>1, <3>2
    <3> QED
      BY <2>3, <3>3, RangeIs
  <2>7. t \in Range(s)
    BY <2>1, RangeIs
  <2> QED
    BY <2>2, <2>3, <2>4, <2>5, <2>6, <2>7 DEF w
<1>2. CASE ~ \E i \in 1 .. Len(s) : s[i] = t
  <2>1. t \notin Range(s)
    BY <1>2, RangeIs
  <2> QED
    BY <1>2, <2>1 DEF Without
<1> QED
  BY <1>1, <1>2

(* rt_list_insert_before, at any place of a list.                          *)
LEMMA InsertAtIs ==
    ASSUME NEW S, NEW s \in Seq(S), NEW i \in 1 .. Len(s) + 1, NEW e \in S
    PROVE  /\ InsertAt(s, i, e) \in Seq(S)
           /\ Len(InsertAt(s, i, e)) = Len(s) + 1
           /\ \A j \in 1 .. Len(s) + 1 :
                 InsertAt(s, i, e)[j] =
                     IF j < i THEN s[j] ELSE IF j = i THEN e ELSE s[j - 1]
<1> DEFINE l == SubSeq(s, 1, i - 1)
           r == SubSeq(s, i, Len(s))
           w == InsertAt(s, i, e)
<1>0. Len(s) \in Nat
  BY LenProperties
<1>1. l \in Seq(S) /\ Len(l) = i - 1 /\ \A j \in 1 .. i - 1 : l[j] = s[j]
  BY SubSeqProperties
<1>2. r \in Seq(S) /\ Len(r) = Len(s) - i + 1
      /\ \A j \in 1 .. Len(s) - i + 1 : r[j] = s[j + i - 1]
  BY SubSeqProperties
<1>3. w = (l \o <<e>>) \o r
  BY DEF InsertAt
<1> HIDE DEF l, r, w
<1> DEFINE m == l \o <<e>>
<1>9. w = m \o r
  BY <1>3
<1>4. m \in Seq(S) /\ Len(m) = i
      /\ \A j \in 1 .. i : m[j] = IF j < i THEN s[j] ELSE e
  <2>1. <<e>> \in Seq(S) /\ Len(<<e>>) = 1 /\ <<e>>[1] = e
    OBVIOUS
  <2>2. /\ m \in Seq(S)
        /\ Len(m) = Len(l) + 1
        /\ \A j \in 1 .. Len(l) + 1 :
              m[j] = IF j <= Len(l) THEN l[j] ELSE <<e>>[j - Len(l)]
    BY <1>1, <2>1, ConcatProperties
  <2> HIDE DEF m
  <2>3. Len(m) = i
    BY <1>0, <1>1, <2>2
  <2>4. ASSUME NEW j \in 1 .. i
        PROVE  m[j] = IF j < i THEN s[j] ELSE e
    <3>1. CASE j < i
      BY <1>1, <2>2, <3>1
    <3>2. CASE j = i
      <4>1. m[j] = <<e>>[1]
        BY <1>1, <2>2, <3>2
      <4> QED
        BY <2>1, <3>2, <4>1
    <3> QED
      BY <3>1, <3>2
  <2> QED
    BY <2>2, <2>3, <2>4
<1> HIDE DEF m
<1>5. /\ w \in Seq(S)
      /\ Len(w) = Len(s) + 1
      /\ \A j \in 1 .. Len(s) + 1 :
            w[j] = IF j <= i THEN m[j] ELSE r[j - i]
  <2>1. /\ w \in Seq(S)
        /\ Len(w) = Len(m) + Len(r)
        /\ \A j \in 1 .. Len(m) + Len(r) :
              w[j] = IF j <= Len(m) THEN m[j] ELSE r[j - Len(m)]
    BY <1>2, <1>4, <1>9, ConcatProperties
  <2>2. Len(m) + Len(r) = Len(s) + 1
    BY <1>0, <1>2, <1>4
  <2> QED
    BY <1>4, <2>1, <2>2
<1>6. \A j \in 1 .. Len(s) + 1 :
        w[j] = IF j < i THEN s[j] ELSE IF j = i THEN e ELSE s[j - 1]
  <2> SUFFICES ASSUME NEW j \in 1 .. Len(s) + 1
               PROVE  w[j] = IF j < i THEN s[j]
                             ELSE IF j = i THEN e ELSE s[j - 1]
    OBVIOUS
  <2>1. CASE j <= i
    BY <1>4, <1>5, <2>1
  <2>2. CASE ~(j <= i)
    <3>1. j - i \in 1 .. Len(s) - i + 1 /\ (j - i) + i - 1 = j - 1
      BY <1>0, <2>2
    <3>2. w[j] = r[j - i]
      BY <1>5, <2>2
    <3>3. r[j - i] = s[j - 1]
      BY <1>2, <3>1
    <3> QED
      BY <2>2, <3>2, <3>3
  <2> QED
    BY <2>1, <2>2
<1> QED
  BY <1>5, <1>6 DEF w

(* The same, of the sequence by its name.                                  *)
LEMMA InsertGives ==
    ASSUME NEW S, NEW s \in Seq(S), NEW i \in 1 .. Len(s) + 1, NEW e \in S,
           NEW u, u = InsertAt(s, i, e)
    PROVE  /\ Len(u) = Len(s) + 1
           /\ \A j \in 1 .. Len(s) + 1 :
                 u[j] = IF j < i THEN s[j] ELSE IF j = i THEN e ELSE s[j - 1]
BY InsertAtIs

LEMMA InsertAtProperties ==
    ASSUME NEW S, NEW s \in Seq(S), NEW i \in 1 .. Len(s) + 1, NEW e \in S
    PROVE  /\ InsertAt(s, i, e) \in Seq(S)
           /\ Range(InsertAt(s, i, e)) = Range(s) \cup {e}
           /\ Distinct(s) /\ e \notin Range(s) => Distinct(InsertAt(s, i, e))
<1> DEFINE w == InsertAt(s, i, e)
<1>0. Len(s) \in Nat
  BY LenProperties
<1>5. w \in Seq(S) /\ Len(w) = Len(s) + 1
  BY InsertAtIs
<1>6. \A j \in 1 .. Len(s) + 1 :
        w[j] = IF j < i THEN s[j] ELSE IF j = i THEN e ELSE s[j - 1]
  BY InsertGives
<1> HIDE DEF w
<1>7. ASSUME NEW x
      PROVE  x \in Range(w) <=> x \in Range(s) \cup {e}
  <2>1. ASSUME NEW j \in 1 .. Len(s) + 1, w[j] = x
        PROVE  x = e \/ \E n \in 1 .. Len(s) : s[n] = x
    <3>1. CASE j < i
      <4>1. j \in 1 .. Len(s)
        BY <1>0, <3>1
      <4> QED
        BY <1>6, <2>1, <3>1, <4>1
    <3>2. CASE j = i
      BY <1>6, <2>1, <3>2
    <3>3. CASE ~(j < i) /\ j # i
      <4>1. PICK n : n = j - 1
        OBVIOUS
      <4>2. n \in 1 .. Len(s)
        BY <1>0, <3>3, <4>1
      <4>3. w[j] = s[n]
        BY <1>6, <3>3, <4>1
      <4> QED
        BY <2>1, <4>2, <4>3
    <3> QED
      BY <3>1, <3>2, <3>3
  <2>2. ASSUME NEW n \in 1 .. Len(s), s[n] = x
        PROVE  \E j \in 1 .. Len(s) + 1 : w[j] = x
    <3> DEFINE j == IF n < i THEN n ELSE n + 1
    <3>1. j \in 1 .. Len(s) + 1 /\ w[j] = x
      BY <1>0, <1>6, <2>2
    <3> QED
      BY <3>1
  <2>3. w[i] = e
    BY <1>0, <1>6
  <2> QED
    BY <1>0, <1>5, <2>1, <2>2, <2>3, RangeIs
<1>8. ASSUME Distinct(s), e \notin Range(s)
      PROVE  Distinct(w)
  <2> SUFFICES ASSUME NEW a \in 1 .. Len(s) + 1, NEW b \in 1 .. Len(s) + 1,
                      w[a] = w[b]
               PROVE  a = b
    BY <1>5 DEF Distinct
  <2>1. \A n \in 1 .. Len(s) : s[n] # e
    BY <1>8, RangeIs
  <2> DEFINE f(x) == IF x < i THEN x ELSE x - 1
  <2>2. CASE a = i \/ b = i
    BY <1>0, <1>6, <2>1, <2>2
  <2>3. CASE a # i /\ b # i
    <3>1. f(a) \in 1 .. Len(s) /\ f(b) \in 1 .. Len(s)
      BY <1>0, <2>3
    <3>2. s[f(a)] = s[f(b)]
      BY <1>0, <1>6, <2>3
    <3>3. f(a) = f(b)
      BY <1>8, <3>1, <3>2 DEF Distinct
    <3> QED
      BY <1>0, <2>3, <3>3
  <2> QED
    BY <2>2, <2>3
<1> QED
  BY <1>5, <1>7, <1>8 DEF w

LEMMA AppendLast ==
    ASSUME NEW S, NEW s \in Seq(S), NEW e \in S
    PROVE  /\ Append(s, e) \in Seq(S)
           /\ Append(s, e) # <<>>
           /\ Range(Append(s, e)) = Range(s) \cup {e}
           /\ Distinct(s) /\ e \notin Range(s) => Distinct(Append(s, e))
<1> DEFINE w == Append(s, e)
<1>0. Len(s) \in Nat
  BY LenProperties
<1>1. /\ w \in Seq(S) /\ w # <<>> /\ Len(w) = Len(s) + 1
      /\ \A i \in 1 .. Len(s) : w[i] = s[i]
      /\ w[Len(s) + 1] = e
  BY AppendProperties
<1> HIDE DEF w
<1>2. ASSUME NEW x
      PROVE  x \in Range(w) <=> x \in Range(s) \cup {e}
  BY <1>0, <1>1, RangeIs
<1>3. ASSUME Distinct(s), e \notin Range(s)
      PROVE  Distinct(w)
  <2>1. \A n \in 1 .. Len(s) : s[n] # e
    BY <1>3, RangeIs
  <2> QED
    BY <1>0, <1>1, <1>3, <2>1 DEF Distinct
<1> QED
  BY <1>1, <1>2, <1>3 DEF w

LEMMA EmptyRange ==
    ASSUME NEW S, NEW s \in Seq(S)
    PROVE  s = <<>> <=> Range(s) = {}
<1>1. Len(s) \in Nat /\ (s = <<>> <=> Len(s) = 0)
  BY LenProperties, EmptySeq
<1> QED
  BY <1>1, RangeIs

LEMMA HeadIn ==
    ASSUME NEW S, NEW s \in Seq(S), s # <<>>
    PROVE  Head(s) \in Range(s) /\ Head(s) \in S /\ Tail(s) \in Seq(S)
<1>1. Len(s) \in Nat /\ Len(s) # 0
  BY LenProperties, EmptySeq
<1>2. Head(s) = s[1] /\ Tail(s) \in Seq(S)
  BY <1>1, HeadTailProperties
<1>3. 1 \in 1 .. Len(s)
  BY <1>1
<1> QED
  BY <1>2, <1>3, RangeIs, ElementOfSeq

(* The lowest set bit of a bitmap exists: what __rt_ffs relies on, and the *)
(* scans that stop at the first node of a kind.                            *)
LEMMA LeastExists ==
    ASSUME NEW T \in SUBSET Nat, T # {}
    PROVE  \E x \in T : \A y \in T : x <= y
<1> DEFINE R == {ss \in Nat \X Nat : ss[1] < ss[2]}
<1>1. IsWellFoundedOn(R, Nat)
  <2>1. R = OpToRel(<, Nat)
    BY Zenon DEF OpToRel
  <2> QED
    BY <2>1, NatLessThanWellFounded, Zenon
<1>2. PICK x \in T : \A y \in T : ~ (<<y, x>> \in R)
  <2> HIDE DEF R
  <2> QED
    BY <1>1, WFMin
<1>3. ASSUME NEW y \in T
      PROVE  x <= y
  <2>1. <<y, x>> \in Nat \X Nat /\ <<y, x>>[1] = y /\ <<y, x>>[2] = x
    OBVIOUS
  <2>2. ~ (<<y, x>>[1] < <<y, x>>[2])
    BY <1>2, <2>1, Zenon
  <2> QED
    BY <2>1, <2>2
<1> QED
  BY <1>3

(* The place such a scan stops at lies among the nodes it looks for.       *)
LEMMA LeastIn ==
    ASSUME NEW T \in SUBSET Nat, T # {}
    PROVE  /\ (CHOOSE i \in T : \A j \in T : i <= j) \in T
           /\ \A n \in T : (CHOOSE i \in T : \A j \in T : i <= j) <= n
BY LeastExists

LEMMA TailProperties ==
    ASSUME NEW S, NEW s \in Seq(S), s # <<>>, Distinct(s)
    PROVE  /\ Tail(s) \in Seq(S)
           /\ Distinct(Tail(s))
           /\ Range(Tail(s)) = Range(s) \ {Head(s)}
<1> DEFINE w == Tail(s)
<1>0. Len(s) \in Nat /\ Len(s) # 0
  BY LenProperties, EmptySeq
<1>1. /\ Head(s) = s[1] /\ w \in Seq(S)
      /\ Len(w) = Len(s) - 1
      /\ \A i \in 1 .. Len(s) - 1 : w[i] = s[i + 1]
  BY <1>0, HeadTailProperties
<1> HIDE DEF w
<1>2. Distinct(w)
  BY <1>0, <1>1 DEF Distinct
<1>3. ASSUME NEW x \in Range(w)
      PROVE  x \in Range(s) /\ x # s[1]
  <2>1. PICK j \in 1 .. Len(s) - 1 : w[j] = x
    BY <1>1, RangeIs
  <2>2. j + 1 \in 1 .. Len(s) /\ s[j + 1] = x /\ 1 \in 1 .. Len(s)
    BY <1>0, <1>1, <2>1
  <2> QED
    BY <2>2, RangeIs DEF Distinct
<1>4. ASSUME NEW x \in Range(s), x # s[1]
      PROVE  x \in Range(w)
  <2>1. PICK j \in 1 .. Len(s) : s[j] = x
    BY RangeIs
  <2>2. j - 1 \in 1 .. Len(w) /\ w[j - 1] = x
    BY <1>0, <1>1, <1>4, <2>1
  <2> QED
    BY <1>1, <2>2, RangeIs
<1> QED
  BY <1>1, <1>2, <1>3, <1>4 DEF w
-----------------------------------------------------------------------------
(* The lists that link the threads agree with each other.                  *)
Linked(b) == b \in KernelState /\ ReadyAgrees(b) /\ WaitersSuspended(b)

(* Between taking t off its list and linking it again: everything agrees   *)
(* for the other threads, and t is linked nowhere.                         *)
Detached(b, t) ==
    /\ b \in KernelState
    /\ \A p \in Prio : Distinct(b.ready[p])
    /\ \A p \in Prio, u \in Thread :
          u \in Range(b.ready[p]) <=>
              u # t /\ b.stat[u] = "READY" /\ b.prio[u] = p
    /\ b.group = {p \in Prio : b.ready[p] # <<>>}
    /\ b.mask = b.prio
    /\ \A o \in Object : Distinct(b.wait[o])
    /\ \A o \in Object, u \in Thread :
          u \in Range(b.wait[o]) => u # t /\ b.stat[u] = "SUSPEND"
    /\ \A o1, o2 \in Object, u \in Thread :
          u \in Range(b.wait[o1]) /\ u \in Range(b.wait[o2]) => o1 = o2

(* rt_list_remove changes the lists of t and nothing else.                 *)
LEMMA UnlinkKeeps ==
    ASSUME NEW b \in KernelState, NEW t \in Thread,
           \A p \in Prio : Distinct(b.ready[p]),
           \A o \in Object : Distinct(b.wait[o])
    PROVE  /\ Unlink(b, t) \in KernelState
           /\ Unlink(b, t) = [b EXCEPT !.ready = Unlink(b, t).ready,
                                       !.wait = Unlink(b, t).wait]
           /\ \A p \in Prio :
                 /\ Distinct(Unlink(b, t).ready[p])
                 /\ Range(Unlink(b, t).ready[p]) = Range(b.ready[p]) \ {t}
                 /\ t \notin Range(b.ready[p]) =>
                       Unlink(b, t).ready[p] = b.ready[p]
           /\ \A o \in Object :
                 /\ Distinct(Unlink(b, t).wait[o])
                 /\ Range(Unlink(b, t).wait[o]) = Range(b.wait[o]) \ {t}
<1> DEFINE rd == [p \in Prio |-> Without(b.ready[p], t)]
           wt == [o \in Object |-> Without(b.wait[o], t)]
<1>1. /\ b.ready \in [Prio -> Seq(Thread)]
      /\ b.wait \in [Object -> Seq(Thread)]
  BY DEF KernelState
<1>2. \A p \in Prio : /\ rd[p] \in Seq(Thread)
                      /\ Distinct(rd[p])
                      /\ Range(rd[p]) = Range(b.ready[p]) \ {t}
                      /\ t \notin Range(b.ready[p]) => rd[p] = b.ready[p]
  BY <1>1, WithoutProperties
<1>3. \A o \in Object : /\ wt[o] \in Seq(Thread)
                        /\ Distinct(wt[o])
                        /\ Range(wt[o]) = Range(b.wait[o]) \ {t}
  BY <1>1, WithoutProperties
<1>4. rd \in [Prio -> Seq(Thread)] /\ wt \in [Object -> Seq(Thread)]
  BY <1>2, <1>3
<1>5. Unlink(b, t) = [b EXCEPT !.ready = rd, !.wait = wt]
  BY DEF Unlink
<1> HIDE DEF rd, wt
<1>6. /\ Unlink(b, t) \in KernelState
      /\ Unlink(b, t).ready = rd
      /\ Unlink(b, t).wait = wt
  BY <1>4, <1>5 DEF KernelState
<1> QED
  BY <1>2, <1>3, <1>5, <1>6

LEMMA RemoveDetaches ==
    ASSUME NEW b, Linked(b), NEW t \in Thread
    PROVE  /\ Detached(RemoveThread(b, t), t)
           /\ RemoveThread(b, t) =
                 [b EXCEPT !.ready = RemoveThread(b, t).ready,
                           !.wait = RemoveThread(b, t).wait,
                           !.group = RemoveThread(b, t).group]
           /\ \A o \in Object :
                 Range(RemoveThread(b, t).wait[o]) = Range(b.wait[o]) \ {t}
<1> DEFINE u == Unlink(b, t)
           r == RemoveThread(b, t)
<1>1. b \in KernelState
  BY DEF Linked
<1>2. /\ \A p \in Prio : Distinct(b.ready[p])
      /\ \A o \in Object : Distinct(b.wait[o])
  BY DEF Linked, ReadyAgrees, WaitersSuspended
<1>3. /\ u \in KernelState
      /\ u = [b EXCEPT !.ready = u.ready, !.wait = u.wait]
      /\ \A p \in Prio :
            /\ Distinct(u.ready[p])
            /\ Range(u.ready[p]) = Range(b.ready[p]) \ {t}
            /\ t \notin Range(b.ready[p]) => u.ready[p] = b.ready[p]
      /\ \A o \in Object :
            /\ Distinct(u.wait[o])
            /\ Range(u.wait[o]) = Range(b.wait[o]) \ {t}
  BY <1>1, <1>2, UnlinkKeeps
<1> HIDE DEF u
<1> DEFINE g == IF u.ready[b.prio[t]] = <<>>
                THEN b.group \ {b.mask[t]} ELSE b.group
<1>4. r = [u EXCEPT !.group = g]
  BY <1>3 DEF RemoveThread, KernelState, u
<1>5. g \in SUBSET Prio
  BY <1>1 DEF KernelState
<1> HIDE DEF g, r
<1>6. /\ r \in KernelState
      /\ r = [b EXCEPT !.ready = r.ready, !.wait = r.wait, !.group = r.group]
      /\ r.ready = u.ready /\ r.wait = u.wait /\ r.group = g
      /\ r.stat = b.stat /\ r.prio = b.prio /\ r.mask = b.mask
  BY <1>1, <1>3, <1>4, <1>5 DEF KernelState
<1>7. /\ \A p \in Prio, v \in Thread :
            v \in Range(b.ready[p]) <=> b.stat[v] = "READY" /\ b.prio[v] = p
      /\ b.group = {p \in Prio : b.ready[p] # <<>>}
      /\ b.mask = b.prio
      /\ b.prio[t] \in Prio
  BY <1>1 DEF Linked, ReadyAgrees, KernelState
<1>8. r.group = {p \in Prio : r.ready[p] # <<>>}
  <2>1. \A p \in Prio : p # b.prio[t] => u.ready[p] = b.ready[p]
    BY <1>3, <1>7
  <2>2. u.ready[b.prio[t]] # <<>> => b.ready[b.prio[t]] # <<>>
    <3>1. /\ b.ready[b.prio[t]] \in Seq(Thread)
          /\ u.ready[b.prio[t]] \in Seq(Thread)
      BY <1>1, <1>3, <1>7 DEF KernelState
    <3>2. Range(u.ready[b.prio[t]]) = Range(b.ready[b.prio[t]]) \ {t}
      BY <1>3, <1>7
    <3>3. /\ u.ready[b.prio[t]] = <<>> <=> Range(u.ready[b.prio[t]]) = {}
          /\ b.ready[b.prio[t]] = <<>> <=> Range(b.ready[b.prio[t]]) = {}
      BY <3>1, EmptyRange
    <3> QED
      BY <3>2, <3>3
  <2> QED
    BY <1>6, <1>7, <2>1, <2>2 DEF g
<1>9. /\ \A o \in Object, v \in Thread :
            v \in Range(b.wait[o]) => b.stat[v] = "SUSPEND"
      /\ \A o1, o2 \in Object, v \in Thread :
            v \in Range(b.wait[o1]) /\ v \in Range(b.wait[o2]) => o1 = o2
  BY DEF Linked, WaitersSuspended
<1>10. Detached(r, t)
  <2>1. \A p \in Prio : Distinct(r.ready[p])
    BY <1>3, <1>6
  <2>2. \A p \in Prio, v \in Thread :
          v \in Range(r.ready[p]) <=>
              v # t /\ r.stat[v] = "READY" /\ r.prio[v] = p
    <3> SUFFICES ASSUME NEW p \in Prio, NEW v \in Thread
                 PROVE  v \in Range(r.ready[p]) <=>
                           v # t /\ r.stat[v] = "READY" /\ r.prio[v] = p
      OBVIOUS
    <3>1. Range(r.ready[p]) = Range(b.ready[p]) \ {t}
      BY <1>3, <1>6
    <3> QED
      BY <1>6, <1>7, <3>1
  <2>3. \A o \in Object : Distinct(r.wait[o])
    BY <1>3, <1>6
  <2>4. \A o \in Object : Range(r.wait[o]) = Range(b.wait[o]) \ {t}
    BY <1>3, <1>6
  <2>5. \A o \in Object, v \in Thread :
          v \in Range(r.wait[o]) => v # t /\ r.stat[v] = "SUSPEND"
    BY <1>6, <1>9, <2>4
  <2>6. \A o1, o2 \in Object, v \in Thread :
          v \in Range(r.wait[o1]) /\ v \in Range(r.wait[o2]) => o1 = o2
    BY <1>9, <2>4
  <2>7. r.mask = r.prio
    BY <1>6, <1>7
  <2>8. r \in KernelState
    BY <1>6
  <2> QED
    BY <1>8, <2>1, <2>2, <2>3, <2>5, <2>6, <2>7, <2>8 DEF Detached
<1>11. \A o \in Object : Range(r.wait[o]) = Range(b.wait[o]) \ {t}
  BY <1>3, <1>6
<1> QED
  BY <1>6, <1>10, <1>11 DEF r

(* A suspended thread is in no ready list: rt_list_remove detaches it.     *)
LEMMA UnlinkDetaches ==
    ASSUME NEW b, Linked(b), NEW t \in Thread, b.stat[t] # "READY"
    PROVE  /\ Detached(Unlink(b, t), t)
           /\ Unlink(b, t) = [b EXCEPT !.ready = Unlink(b, t).ready,
                                       !.wait = Unlink(b, t).wait]
           /\ \A o \in Object :
                 Range(Unlink(b, t).wait[o]) = Range(b.wait[o]) \ {t}
<1> DEFINE u == Unlink(b, t)
<1>1. b \in KernelState
  BY DEF Linked
<1>2. /\ \A p \in Prio : Distinct(b.ready[p])
      /\ \A o \in Object : Distinct(b.wait[o])
      /\ \A p \in Prio, v \in Thread :
            v \in Range(b.ready[p]) <=> b.stat[v] = "READY" /\ b.prio[v] = p
      /\ b.group = {p \in Prio : b.ready[p] # <<>>}
      /\ b.mask = b.prio
      /\ \A o \in Object, v \in Thread :
            v \in Range(b.wait[o]) => b.stat[v] = "SUSPEND"
      /\ \A o1, o2 \in Object, v \in Thread :
            v \in Range(b.wait[o1]) /\ v \in Range(b.wait[o2]) => o1 = o2
  BY DEF Linked, ReadyAgrees, WaitersSuspended
<1>0. /\ \A p \in Prio : Distinct(b.ready[p])
      /\ \A o \in Object : Distinct(b.wait[o])
  BY <1>2
<1>3. /\ u \in KernelState
      /\ u = [b EXCEPT !.ready = u.ready, !.wait = u.wait]
      /\ \A p \in Prio :
            /\ Distinct(u.ready[p])
            /\ Range(u.ready[p]) = Range(b.ready[p]) \ {t}
            /\ t \notin Range(b.ready[p]) => u.ready[p] = b.ready[p]
      /\ \A o \in Object :
            /\ Distinct(u.wait[o])
            /\ Range(u.wait[o]) = Range(b.wait[o]) \ {t}
  BY <1>0, <1>1, UnlinkKeeps
<1> HIDE DEF u
<1>4. u.stat = b.stat /\ u.prio = b.prio /\ u.mask = b.mask
      /\ u.group = b.group
  BY <1>1, <1>3 DEF KernelState
<1>5. \A p \in Prio : u.ready[p] = b.ready[p]
  BY <1>2, <1>3
<1>6. Detached(u, t)
  <2>1. \A p \in Prio, v \in Thread :
          v \in Range(u.ready[p]) <=>
              v # t /\ u.stat[v] = "READY" /\ u.prio[v] = p
    BY <1>2, <1>4, <1>5
  <2>2. u.group = {p \in Prio : u.ready[p] # <<>>}
    BY <1>2, <1>4, <1>5
  <2>3. \A o \in Object : Range(u.wait[o]) = Range(b.wait[o]) \ {t}
    BY <1>3
  <2>4. \A o \in Object, v \in Thread :
          v \in Range(u.wait[o]) => v # t /\ u.stat[v] = "SUSPEND"
    BY <1>2, <1>4, <2>3
  <2>5. \A o1, o2 \in Object, v \in Thread :
          v \in Range(u.wait[o1]) /\ v \in Range(u.wait[o2]) => o1 = o2
    BY <1>2, <2>3
  <2>6. u.mask = u.prio
    BY <1>2, <1>4
  <2>7. \A p \in Prio : Distinct(u.ready[p])
    BY <1>3
  <2>8. \A o \in Object : Distinct(u.wait[o])
    BY <1>3
  <2>9. u \in KernelState
    BY <1>3
  <2> QED
    BY <2>1, <2>2, <2>4, <2>5, <2>6, <2>7, <2>8, <2>9 DEF Detached
<1> QED
  BY <1>3, <1>6 DEF u

(* Changing what a detached thread records about itself keeps the rest.    *)
LEMMA DetachedUpdate ==
    ASSUME NEW b, NEW t \in Thread, Detached(b, t),
           NEW s \in KernelState,
           s.ready = b.ready, s.wait = b.wait, s.group = b.group,
           s.mask = s.prio,
           \A u \in Thread \ {t} : s.stat[u] = b.stat[u] /\ s.prio[u] = b.prio[u]
    PROVE  Detached(s, t)
BY DEF Detached

(* rt_schedule_insert_thread makes the detached thread ready, at the tail  *)
(* of the list of its priority, unless it is the current one.              *)
LEMMA InsertAgrees ==
    ASSUME NEW b, NEW t \in Thread, Detached(b, t), t # b.cur
    PROVE  /\ InsertThread(b, t) \in KernelState
           /\ ReadyAgrees(InsertThread(b, t))
           /\ WaitersSuspended(InsertThread(b, t))
           /\ InsertThread(b, t) =
                 [b EXCEPT !.ready = InsertThread(b, t).ready,
                           !.stat = [b.stat EXCEPT ![t] = "READY"],
                           !.group = InsertThread(b, t).group]
<1> DEFINE i == InsertThread(b, t)
           p == b.prio[t]
           q == Append(b.ready[p], t)
<1>1. b \in KernelState /\ p \in Prio /\ b.ready[p] \in Seq(Thread)
  BY DEF Detached, KernelState
<1>2. t \notin Range(b.ready[p]) /\ Distinct(b.ready[p])
  BY <1>1 DEF Detached
<1>3. /\ q \in Seq(Thread) /\ q # <<>> /\ Distinct(q)
      /\ Range(q) = Range(b.ready[p]) \cup {t}
  BY <1>1, <1>2, AppendLast
<1>4. i = [b EXCEPT !.stat = [b.stat EXCEPT ![t] = "READY"],
                    !.ready = [b.ready EXCEPT ![p] = q],
                    !.group = b.group \cup {b.mask[t]}]
  BY <1>1 DEF InsertThread, KernelState
<1>5. /\ b.mask = b.prio
      /\ b.group = {r \in Prio : b.ready[r] # <<>>}
  BY DEF Detached
<1> HIDE DEF i, p, q
<1>6. /\ i \in KernelState
      /\ i.stat = [b.stat EXCEPT ![t] = "READY"]
      /\ i.ready = [b.ready EXCEPT ![p] = q]
      /\ i.group = b.group \cup {b.mask[t]}
      /\ i.wait = b.wait /\ i.prio = b.prio /\ i.mask = b.mask
  <2>1. /\ [b.stat EXCEPT ![t] = "READY"] \in [Thread -> Stat]
        /\ [b.ready EXCEPT ![p] = q] \in [Prio -> Seq(Thread)]
        /\ b.group \cup {b.mask[t]} \in SUBSET Prio
    BY <1>1, <1>3 DEF KernelState, Stat
  <2>2. /\ i.stat = [b.stat EXCEPT ![t] = "READY"]
        /\ i.ready = [b.ready EXCEPT ![p] = q]
        /\ i.group = b.group \cup {b.mask[t]}
        /\ i.wait = b.wait /\ i.prio = b.prio /\ i.mask = b.mask
    BY <1>1, <1>4 DEF KernelState
  <2>3. i \in KernelState
    BY <1>1, <1>4, <2>1 DEF KernelState
  <2> QED
    BY <2>2, <2>3
<1>7. /\ b.ready \in [Prio -> Seq(Thread)]
      /\ b.stat \in [Thread -> Stat]
      /\ b.mask[t] = p
  BY <1>1, <1>5 DEF KernelState, p
<1>8. \A r \in Prio : Distinct(i.ready[r])
  BY <1>3, <1>6, <1>7 DEF Detached
<1>9. ASSUME NEW r \in Prio, NEW u \in Thread
      PROVE  u \in Range(i.ready[r]) <=> i.stat[u] = "READY" /\ i.prio[u] = r
  <2>1. u \in Range(b.ready[r]) <=> u # t /\ b.stat[u] = "READY" /\ b.prio[u] = r
    BY DEF Detached
  <2>2. CASE r = p
    BY <1>3, <1>6, <1>7, <2>1, <2>2 DEF p
  <2>3. CASE r # p
    BY <1>6, <1>7, <2>1, <2>3 DEF p
  <2> QED
    BY <2>2, <2>3
<1>10. i.group = {r \in Prio : i.ready[r] # <<>>}
  BY <1>1, <1>3, <1>5, <1>6, <1>7
<1>11. ReadyAgrees(i)
  BY <1>5, <1>6, <1>8, <1>9, <1>10 DEF ReadyAgrees
<1>12. WaitersSuspended(i)
  BY <1>6, <1>7 DEF Detached, WaitersSuspended
<1>13. i = [b EXCEPT !.ready = i.ready,
                     !.stat = [b.stat EXCEPT ![t] = "READY"],
                     !.group = i.group]
  BY <1>1, <1>4, <1>6 DEF KernelState
<1> QED
  BY <1>6, <1>11, <1>12, <1>13 DEF i

(* A detached thread that is not ready leaves nothing to repair.           *)
LEMMA DetachedLinked ==
    ASSUME NEW b, NEW t \in Thread, Detached(b, t), b.stat[t] # "READY"
    PROVE  Linked(b)
<1>1. ReadyAgrees(b)
  BY DEF Detached, ReadyAgrees
<1>2. WaitersSuspended(b)
  BY DEF Detached, WaitersSuspended
<1> QED
  BY <1>1, <1>2 DEF Detached, Linked

(* rt_schedule_insert_thread in both of its cases.                         *)
LEMMA InsertLinks ==
    ASSUME NEW b, NEW t \in Thread, Detached(b, t)
    PROVE  /\ Linked(InsertThread(b, t))
           /\ InsertThread(b, t).stat =
                 [b.stat EXCEPT ![t] = IF t = b.cur THEN "RUNNING" ELSE "READY"]
           /\ InsertThread(b, t).cur = b.cur
           /\ InsertThread(b, t).prio = b.prio
           /\ InsertThread(b, t).wait = b.wait
           /\ InsertThread(b, t).timers = b.timers
           /\ InsertThread(b, t).lock = b.lock
<1> DEFINE i == InsertThread(b, t)
<1>1. b \in KernelState
  BY DEF Detached
<1>2. CASE t # b.cur
  <2>1. /\ i \in KernelState /\ ReadyAgrees(i) /\ WaitersSuspended(i)
        /\ i = [b EXCEPT !.ready = i.ready,
                         !.stat = [b.stat EXCEPT ![t] = "READY"],
                         !.group = i.group]
    BY <1>2, InsertAgrees
  <2> HIDE DEF i
  <2>2. /\ i.stat = [b.stat EXCEPT ![t] = "READY"]
        /\ i.cur = b.cur /\ i.prio = b.prio /\ i.wait = b.wait
        /\ i.timers = b.timers /\ i.lock = b.lock
    BY <1>1, <2>1 DEF KernelState
  <2> QED
    BY <1>2, <2>1, <2>2 DEF Linked, i
<1>3. CASE t = b.cur
  <2>1. i = [b EXCEPT !.stat = [b.stat EXCEPT ![t] = "RUNNING"]]
    BY <1>1, <1>3 DEF InsertThread, KernelState
  <2> HIDE DEF i
  <2>2. /\ i \in KernelState
        /\ i.stat = [b.stat EXCEPT ![t] = "RUNNING"]
        /\ i.cur = b.cur /\ i.prio = b.prio /\ i.wait = b.wait
        /\ i.timers = b.timers /\ i.lock = b.lock
        /\ i.ready = b.ready /\ i.group = b.group /\ i.mask = b.mask
    BY <1>1, <2>1 DEF KernelState, Stat
  <2>3. i.mask = i.prio
    BY <2>2 DEF Detached
  <2>4. /\ i.stat[t] = "RUNNING"
        /\ \A u \in Thread \ {t} :
              i.stat[u] = b.stat[u] /\ i.prio[u] = b.prio[u]
    BY <1>1, <2>2 DEF KernelState
  <2>5. Detached(i, t)
    BY <2>2, <2>3, <2>4, DetachedUpdate
  <2>6. Linked(i)
    BY <2>4, <2>5, DetachedLinked
  <2> QED
    BY <1>3, <2>2, <2>6 DEF i
<1> QED
  BY <1>2, <1>3

-----------------------------------------------------------------------------
(* Timers.                                                                 *)

(* An armed timer belongs to a suspended thread and is linked once.        *)
Timed(b) ==
    /\ Distinct(b.timers)
    /\ \A t \in Thread : t \in Range(b.timers) => b.stat[t] = "SUSPEND"

LEMMA TimerStopKeeps ==
    ASSUME NEW b \in KernelState, NEW t \in Thread, Distinct(b.timers)
    PROVE  /\ TimerStop(b, t) \in KernelState
           /\ TimerStop(b, t) = [b EXCEPT !.timers = TimerStop(b, t).timers,
                                          !.due = TimerStop(b, t).due]
           /\ Distinct(TimerStop(b, t).timers)
           /\ Range(TimerStop(b, t).timers) = Range(b.timers) \ {t}
<1> DEFINE s == TimerStop(b, t)
           w == Without(b.timers, t)
<1>1. b.timers \in Seq(Thread)
  BY DEF KernelState
<1>2. w \in Seq(Thread) /\ Distinct(w) /\ Range(w) = Range(b.timers) \ {t}
  BY <1>1, WithoutProperties
<1>3. s = [b EXCEPT !.timers = w, !.due = [b.due EXCEPT ![t] = 0]]
  BY DEF TimerStop, KernelState
<1> HIDE DEF w, s
<1>4. 0 \in Tick
  BY KernelAssumption DEF Tick
<1>5. s \in KernelState /\ s.timers = w /\ s.due = [b.due EXCEPT ![t] = 0]
  BY <1>2, <1>3, <1>4 DEF KernelState
<1> QED
  BY <1>2, <1>3, <1>5 DEF s

(* The scan of rt_timer_start stops inside the list or at its end.         *)
LEMMA TimerPlaceInside ==
    ASSUME NEW s \in Seq(Thread), NEW due \in [Thread -> Tick], NEW when
    PROVE  TimerPlace(s, due, when) \in 1 .. Len(s) + 1
<1> DEFINE later == {i \in 1 .. Len(s) :
                       /\ due[s[i]] # when
                       /\ Minus(due[s[i]], when) < HalfTick}
<1>1. Len(s) \in Nat
  BY LenProperties
<1>2. CASE later = {}
  BY <1>1, <1>2 DEF TimerPlace
<1>3. CASE later # {}
  <2> DEFINE first == CHOOSE i \in later : \A j \in later : i <= j
  <2>1. later \in SUBSET Nat /\ later \subseteq 1 .. Len(s)
    BY <1>1
  <2>2. TimerPlace(s, due, when) = first
    BY <1>3 DEF TimerPlace
  <2> HIDE DEF later
  <2>3. first \in later
    BY <1>3, <2>1, LeastIn
  <2> HIDE DEF first
  <2> QED
    BY <1>1, <2>1, <2>2, <2>3
<1> QED
  BY <1>2, <1>3

(* Unsigned tick arithmetic stays in the type.                             *)
LEMMA TickWraps == ASSUME NEW a \in Int PROVE a % TickMod \in Tick
<1>1. TickMod \in Nat /\ TickMod > 2
  BY KernelAssumption
<1>2. a % TickMod \in 0 .. TickMod - 1
  BY <1>1
<1> QED
  BY <1>2 DEF Tick

(* Modular arithmetic, for the differences of ticks.                       *)
LEMMA QuotientExists ==
    ASSUME NEW a \in Int, NEW M \in Nat, M > 0
    PROVE  (\E q \in Int : a = q * M + (a % M)) /\ a % M \in 0 .. M - 1
<1>1. a \div M \in Int
  OBVIOUS
<1>2. a = (a \div M) * M + (a % M)
  OBVIOUS
<1>3. PICK q \in Int : q = a \div M
  BY <1>1
<1> QED
  BY <1>2, <1>3

LEMMA RemainderUnique ==
    ASSUME NEW a \in Int, NEW M \in Nat, M > 0, NEW q \in Int, NEW r \in 0 .. M - 1,
           a = q * M + r
    PROVE  a % M = r
OBVIOUS

LEMMA RemainderShift ==
    ASSUME NEW a \in Int, NEW b \in Int, NEW M \in Nat, M > 0, NEW q \in Int,
           b = a + q * M
    PROVE  b % M = a % M
<1>1. PICK p \in Int : a = p * M + (a % M)
  BY QuotientExists
<1>2. PICK r \in 0 .. M - 1 : r = a % M
  BY QuotientExists
<1>3. PICK s \in Int : s = p + q
  OBVIOUS
<1>4. s * M = p * M + q * M
  BY <1>3
<1>5. b = s * M + r
  BY <1>1, <1>2, <1>4
<1> QED
  BY <1>2, <1>5, RemainderUnique

(* What is left at y of the x ticks that began at z ends when they end.    *)
LEMMA TimeLeft ==
    ASSUME NEW x \in Int, NEW y \in Int, NEW z \in Int
    PROVE  (y + Minus(x, Minus(y, z))) % TickMod = (z + x) % TickMod
<1>1. TickMod \in Nat /\ TickMod > 0
  BY KernelAssumption
<1>2. PICK r \in Int : r = (y - z) % TickMod
  BY <1>1
<1>3. PICK d \in Int : d = (x - r) % TickMod
  BY <1>1
<1>4. PICK a \in Int, b \in Int : a = y - z /\ b = x - r
  OBVIOUS
<1>5. PICK p \in Int : a = p * TickMod + r
  BY <1>1, <1>2, <1>4, QuotientExists
<1>6. PICK q \in Int : b = q * TickMod + d
  BY <1>1, <1>3, <1>4, QuotientExists
<1>7. PICK n \in Int : n = p - q
  OBVIOUS
<1>8. n * TickMod = p * TickMod - q * TickMod
  BY <1>1, <1>7
<1>9. PICK e \in Int, f \in Int : e = z + x /\ f = y + d
  OBVIOUS
<1>10. f = e + n * TickMod
  BY <1>1, <1>4, <1>5, <1>6, <1>8, <1>9
<1>11. f % TickMod = e % TickMod
  BY <1>1, <1>10, RemainderShift
<1> QED
  BY <1>2, <1>3, <1>9, <1>11 DEF Minus

LEMMA TimerStartKeeps ==
    ASSUME NEW b \in KernelState, NEW t \in Thread, NEW n \in Nat,
           Distinct(b.timers)
    PROVE  /\ TimerStart(b, t, n) \in KernelState
           /\ TimerStart(b, t, n) = [b EXCEPT !.due = TimerStart(b, t, n).due,
                                      !.timers = TimerStart(b, t, n).timers]
           /\ Distinct(TimerStart(b, t, n).timers)
           /\ Range(TimerStart(b, t, n).timers) = Range(b.timers) \cup {t}
<1> DEFINE s == Without(b.timers, t)
           when == Later(b, n)
           at == TimerPlace(s, b.due, when)
           w == InsertAt(s, at, t)
           z == TimerStart(b, t, n)
<1>1. b.timers \in Seq(Thread) /\ b.due \in [Thread -> Tick] /\ b.tick \in Tick
  BY DEF KernelState
<1>2. /\ s \in Seq(Thread) /\ Distinct(s) /\ Range(s) = Range(b.timers) \ {t}
  BY <1>1, WithoutProperties
<1>3. when \in Tick
  <2>1. b.tick + n \in Int
    BY <1>1, KernelAssumption DEF Tick
  <2> QED
    BY <2>1, TickWraps DEF Later
<1>4. z = [b EXCEPT !.due = [b.due EXCEPT ![t] = when], !.timers = w]
  BY DEF TimerStart, KernelState
<1> HIDE DEF s, when
<1>5. at \in 1 .. Len(s) + 1
  BY <1>1, <1>2, TimerPlaceInside
<1> HIDE DEF at
<1>6. w \in Seq(Thread) /\ Distinct(w) /\ Range(w) = Range(b.timers) \cup {t}
  BY <1>2, <1>5, InsertAtProperties
<1> HIDE DEF w, z
<1>7. z \in KernelState /\ z.timers = w /\ z.due = [b.due EXCEPT ![t] = when]
  BY <1>1, <1>3, <1>4, <1>6 DEF KernelState
<1> QED
  BY <1>4, <1>6, <1>7 DEF z

-----------------------------------------------------------------------------
(* The invariant of the kernel state.                                      *)

(* There is always a thread to switch to, and nobody suspends itself while *)
(* the scheduler is locked.                                                *)
Alive(b) ==
    /\ b.stat[Idle] \in {"READY", "RUNNING"}
    /\ b.lock # 0 => b.stat[b.cur] = "RUNNING"

Sound(b) == Linked(b) /\ OneRuns(b) /\ Timed(b) /\ Alive(b)

(* What all operations but a suspension have in common: they suspend no    *)
(* thread, they leave a thread that stays suspended linked as it was, and  *)
(* they switch to a thread only to run it.                                 *)
Wakes(b, s) ==
    /\ Sound(s)
    /\ s.lock = b.lock
    /\ s.stat[s.cur] = "SUSPEND" \/ s.lock # 0 => s.cur = b.cur
    /\ \A t \in Thread : s.stat[t] = "SUSPEND" =>
          /\ b.stat[t] = "SUSPEND"
          /\ t \in Range(s.timers) <=> t \in Range(b.timers)
          /\ \A o \in Object : t \in Range(s.wait[o]) <=> t \in Range(b.wait[o])

LEMMA WakesNone ==
    ASSUME NEW b, Sound(b)
    PROVE  Wakes(b, b)
BY DEF Wakes

LEMMA WakesTransitive ==
    ASSUME NEW b, NEW s, NEW r, Wakes(b, s), Wakes(s, r)
    PROVE  Wakes(b, r)
<1>1. r.stat[r.cur] = "SUSPEND" \/ r.lock # 0 => r.cur = b.cur
  BY DEF Wakes, Sound, Linked, KernelState
<1>2. Sound(r) /\ r.lock = b.lock
  BY DEF Wakes
<1>3. ASSUME NEW t \in Thread, r.stat[t] = "SUSPEND"
      PROVE  /\ b.stat[t] = "SUSPEND"
             /\ t \in Range(r.timers) <=> t \in Range(b.timers)
             /\ \A o \in Object :
                   t \in Range(r.wait[o]) <=> t \in Range(b.wait[o])
  BY <1>3 DEF Wakes
<1> QED
  BY <1>1, <1>2, <1>3 DEF Wakes

(* Assignments to fields that the lists do not depend on.                  *)
LEMMA PlainUpdate ==
    ASSUME NEW b, Sound(b), NEW s \in KernelState,
           s.cur = b.cur, s.stat = b.stat, s.prio = b.prio, s.mask = b.mask,
           s.ready = b.ready, s.group = b.group, s.wait = b.wait,
           s.timers = b.timers, s.lock = b.lock
    PROVE  Sound(s) /\ Wakes(b, s)
<1>1. ReadyAgrees(s)
  BY DEF Sound, Linked, ReadyAgrees
<1>2. WaitersSuspended(s)
  BY DEF Sound, Linked, WaitersSuspended
<1>3. OneRuns(s) /\ Timed(s) /\ Alive(s)
  BY DEF Sound, OneRuns, Timed, Alive
<1>4. Sound(s)
  BY <1>1, <1>2, <1>3 DEF Sound, Linked
<1> QED
  BY <1>4 DEF Wakes

(* A detached thread that was suspended, and whose timer is stopped, is    *)
(* made ready.                                                             *)
LEMMA InsertWakes ==
    ASSUME NEW b, Sound(b), NEW t \in Thread, b.stat[t] = "SUSPEND",
           NEW s, Detached(s, t),
           s.cur = b.cur, s.stat = b.stat, s.lock = b.lock,
           Distinct(s.timers), Range(s.timers) = Range(b.timers) \ {t},
           \A o \in Object : Range(s.wait[o]) = Range(b.wait[o]) \ {t}
    PROVE  /\ Wakes(b, InsertThread(s, t))
           /\ InsertThread(s, t).stat[t] # "SUSPEND"
<1> DEFINE i == InsertThread(s, t)
<1>1. b \in KernelState /\ s \in KernelState
  BY DEF Sound, Linked, Detached
<1>2. /\ Linked(i)
      /\ i.stat = [b.stat EXCEPT ![t] = IF t = b.cur THEN "RUNNING" ELSE "READY"]
      /\ i.cur = b.cur /\ i.wait = s.wait
      /\ i.timers = s.timers /\ i.lock = b.lock
  BY InsertLinks
<1> HIDE DEF i
<1>3. /\ b.stat \in [Thread -> Stat] /\ b.cur \in Thread /\ Idle \in Thread
  BY <1>1, KernelAssumption DEF KernelState
<1>4. /\ i.stat[t] = IF t = b.cur THEN "RUNNING" ELSE "READY"
      /\ \A u \in Thread \ {t} : i.stat[u] = b.stat[u]
  BY <1>2, <1>3
<1>5. OneRuns(i)
  BY <1>2, <1>3, <1>4 DEF Sound, OneRuns
<1>6. Timed(i)
  BY <1>2, <1>4 DEF Sound, Timed
<1>7. Alive(i)
  BY <1>2, <1>3, <1>4 DEF Sound, Alive
<1>8. Sound(i)
  BY <1>2, <1>5, <1>6, <1>7 DEF Sound
<1>9. ASSUME NEW u \in Thread, i.stat[u] = "SUSPEND"
      PROVE  /\ b.stat[u] = "SUSPEND"
             /\ u \in Range(i.timers) <=> u \in Range(b.timers)
             /\ \A o \in Object :
                   u \in Range(i.wait[o]) <=> u \in Range(b.wait[o])
  <2>1. u # t
    BY <1>4, <1>9
  <2> QED
    BY <1>2, <1>4, <1>9, <2>1
<1>10. Wakes(b, i)
  BY <1>2, <1>8, <1>9 DEF Wakes
<1> QED
  BY <1>4, <1>10 DEF i

(* rt_thread_resume.                                                       *)
LEMMA ResumeWakes ==
    ASSUME NEW b, Sound(b), NEW t \in Thread
    PROVE  /\ Wakes(b, ThreadResume(b, t))
           /\ ThreadResume(b, t).stat[t] # "SUSPEND"
<1>1. CASE b.stat[t] # "SUSPEND"
  BY <1>1, WakesNone DEF ThreadResume
<1>2. CASE b.stat[t] = "SUSPEND"
  <2> DEFINE u == Unlink(b, t)
             s == TimerStop(u, t)
  <2>1. b \in KernelState /\ Linked(b) /\ Distinct(b.timers)
    BY DEF Sound, Linked, Timed
  <2>2. /\ Detached(u, t)
        /\ u = [b EXCEPT !.ready = u.ready, !.wait = u.wait]
    BY <1>2, <2>1, UnlinkDetaches
  <2>3. \A o \in Object : Range(u.wait[o]) = Range(b.wait[o]) \ {t}
    BY <1>2, <2>1, UnlinkDetaches
  <2>4. ThreadResume(b, t) = InsertThread(s, t)
    BY <1>2 DEF ThreadResume
  <2> HIDE DEF u
  <2>5. u \in KernelState
    BY <2>2 DEF Detached
  <2>6. /\ u.cur = b.cur /\ u.stat = b.stat /\ u.lock = b.lock
        /\ u.timers = b.timers /\ u.prio = b.prio
    BY <2>1, <2>2 DEF KernelState
  <2>7. /\ s \in KernelState
        /\ s = [u EXCEPT !.timers = s.timers, !.due = s.due]
        /\ Distinct(s.timers) /\ Range(s.timers) = Range(b.timers) \ {t}
    BY <2>1, <2>5, <2>6, TimerStopKeeps
  <2> HIDE DEF s
  <2>8. /\ s.cur = u.cur /\ s.stat = u.stat /\ s.lock = u.lock
        /\ s.ready = u.ready /\ s.wait = u.wait /\ s.group = u.group
        /\ s.mask = u.mask /\ s.prio = u.prio
    BY <2>5, <2>7 DEF KernelState
  <2>9. u.mask = u.prio
    BY <2>2 DEF Detached
  <2>10. Detached(s, t)
    BY <2>2, <2>7, <2>8, <2>9, DetachedUpdate
  <2> QED
    BY <1>2, <2>3, <2>4, <2>6, <2>7, <2>8, <2>10, InsertWakes
<1> QED
  BY <1>1, <1>2

-----------------------------------------------------------------------------
(* rt_schedule.                                                            *)

(* What the switch does to the thread that was current: it goes back to    *)
(* the tail of its ready list if it was running.                           *)
LEMMA RequeueLinks ==
    ASSUME NEW b, Sound(b), NEW to \in Thread, b.stat[to] = "READY",
           NEW q, q = Requeue(b, to)
    PROVE  /\ Linked(q)
           /\ q.cur = to /\ q.wait = b.wait
           /\ q.timers = b.timers /\ q.lock = b.lock
           /\ \A u \in Thread :
                 /\ q.stat[u] # "RUNNING"
                 /\ u # b.cur => q.stat[u] = b.stat[u]
                 /\ q.stat[u] = "SUSPEND" <=> b.stat[u] = "SUSPEND"
                 /\ q.stat[u] = "INIT" <=> b.stat[u] = "INIT"
                 /\ q.stat[u] = "CLOSE" <=> b.stat[u] = "CLOSE"
<1> DEFINE c == b.cur
           h == [[b EXCEPT !.cur = to] EXCEPT !.yield[c] = FALSE]
<1>1. /\ b \in KernelState /\ ReadyAgrees(b) /\ WaitersSuspended(b)
      /\ b.cur \in Thread /\ b.stat \in [Thread -> Stat]
  BY DEF Sound, Linked, KernelState
<1>2. /\ b.stat[c] \in {"RUNNING", "SUSPEND"} /\ c # to
      /\ \A t \in Thread : b.stat[t] = "RUNNING" => t = c
  BY DEF Sound, OneRuns
<1>3. CASE b.stat[c] = "RUNNING"
  <2>1. q = InsertThread(h, c)
    BY <1>3 DEF Requeue
  <2>2. /\ h \in KernelState
        /\ h.cur = to /\ h.stat = b.stat /\ h.prio = b.prio
        /\ h.mask = b.mask /\ h.ready = b.ready /\ h.group = b.group
        /\ h.wait = b.wait /\ h.timers = b.timers /\ h.lock = b.lock
    BY <1>1 DEF KernelState
  <2> HIDE DEF h
  <2>3. Detached(h, c)
    <3>1. \A p \in Prio, u \in Thread :
            u \in Range(b.ready[p]) <=>
                u # c /\ b.stat[u] = "READY" /\ b.prio[u] = p
      BY <1>1, <1>3 DEF ReadyAgrees
    <3>2. \A o \in Object, u \in Thread :
            u \in Range(b.wait[o]) => u # c /\ b.stat[u] = "SUSPEND"
      BY <1>1, <1>3 DEF WaitersSuspended
    <3> QED
      BY <1>1, <2>2, <3>1, <3>2 DEF Detached, ReadyAgrees, WaitersSuspended
  <2>4. /\ Linked(q)
        /\ q.stat = [b.stat EXCEPT ![c] = "READY"]
        /\ q.cur = to /\ q.wait = b.wait
        /\ q.timers = b.timers /\ q.lock = b.lock
    <3> DEFINE j == InsertThread(h, c)
    <3>1. /\ Linked(j)
          /\ j.stat = [h.stat EXCEPT ![c] = IF c = h.cur THEN "RUNNING" ELSE "READY"]
          /\ j.cur = h.cur /\ j.wait = h.wait
          /\ j.timers = h.timers /\ j.lock = h.lock
      BY <1>1, <2>3, InsertLinks
    <3> HIDE DEF j
    <3>2. q = j
      BY <2>1 DEF j
    <3> QED
      BY <1>2, <2>2, <3>1, <3>2
  <2> HIDE DEF c
  <2>5. ASSUME NEW u \in Thread
        PROVE  /\ q.stat[u] # "RUNNING"
               /\ u # c => q.stat[u] = b.stat[u]
               /\ q.stat[u] = "SUSPEND" <=> b.stat[u] = "SUSPEND"
               /\ q.stat[u] = "INIT" <=> b.stat[u] = "INIT"
               /\ q.stat[u] = "CLOSE" <=> b.stat[u] = "CLOSE"
    BY <1>1, <1>2, <1>3, <2>4
  <2> QED
    BY <2>4, <2>5 DEF c
<1>4. CASE b.stat[c] # "RUNNING"
  <2>1. q = [b EXCEPT !.cur = to]
    BY <1>4 DEF Requeue
  <2>2. /\ q \in KernelState
        /\ q.cur = to /\ q.stat = b.stat /\ q.prio = b.prio
        /\ q.mask = b.mask /\ q.ready = b.ready /\ q.group = b.group
        /\ q.wait = b.wait /\ q.timers = b.timers /\ q.lock = b.lock
    BY <1>1, <2>1 DEF KernelState
  <2>3. ReadyAgrees(q) /\ WaitersSuspended(q)
    BY <1>1, <2>2 DEF ReadyAgrees, WaitersSuspended
  <2> QED
    BY <1>2, <1>4, <2>2, <2>3 DEF Linked
<1> QED
  BY <1>3, <1>4

LEMMA SwitchWakes ==
    ASSUME NEW b, Sound(b), NEW to \in Thread, b.stat[to] = "READY",
           b.lock = 0
    PROVE  /\ Wakes(b, SwitchTo(b, to))
           /\ SwitchTo(b, to).stat[SwitchTo(b, to).cur] = "RUNNING"
<1> DEFINE q == Requeue(b, to)
           r == RemoveThread(q, to)
           s == SwitchTo(b, to)
<1>0. s = [r EXCEPT !.stat[to] = "RUNNING"]
  BY DEF SwitchTo
<1>1. /\ Linked(q)
      /\ q.cur = to /\ q.wait = b.wait
      /\ q.timers = b.timers /\ q.lock = b.lock
      /\ \A u \in Thread :
            /\ q.stat[u] # "RUNNING"
            /\ u # b.cur => q.stat[u] = b.stat[u]
            /\ q.stat[u] = "SUSPEND" <=> b.stat[u] = "SUSPEND"
            /\ q.stat[u] = "INIT" <=> b.stat[u] = "INIT"
            /\ q.stat[u] = "CLOSE" <=> b.stat[u] = "CLOSE"
  <2> HIDE DEF q
  <2>1. q = Requeue(b, to)
    BY DEF q
  <2> QED
    BY <2>1, RequeueLinks
<1> HIDE DEF q, s
<1>3. /\ Detached(r, to)
      /\ r = [q EXCEPT !.ready = r.ready, !.wait = r.wait, !.group = r.group]
      /\ \A o \in Object : Range(r.wait[o]) = Range(q.wait[o]) \ {to}
  <2>1. Linked(q)
    BY <1>1
  <2> QED
    BY <2>1, RemoveDetaches
<1> HIDE DEF r
<1>4. /\ r \in KernelState /\ q \in KernelState
      /\ r.mask = r.prio
  BY <1>1, <1>3 DEF Detached, Linked
<1>5. /\ r.stat = q.stat /\ r.cur = to /\ r.timers = b.timers
      /\ r.lock = b.lock
  BY <1>1, <1>3, <1>4 DEF KernelState
<1>6. /\ s \in KernelState
      /\ s.stat = [q.stat EXCEPT ![to] = "RUNNING"]
      /\ s.cur = to /\ s.timers = b.timers /\ s.lock = b.lock
      /\ s.ready = r.ready /\ s.wait = r.wait /\ s.group = r.group
      /\ s.mask = r.mask /\ s.prio = r.prio
  BY <1>0, <1>4, <1>5 DEF KernelState, Stat
<1>7. /\ s.stat[to] = "RUNNING"
      /\ \A u \in Thread \ {to} : s.stat[u] = q.stat[u]
  BY <1>4, <1>6 DEF KernelState
<1>8. Linked(s)
  <2>1. \A u \in Thread \ {to} : s.stat[u] = r.stat[u] /\ s.prio[u] = r.prio[u]
    BY <1>5, <1>6, <1>7
  <2>2. s.mask = s.prio
    BY <1>4, <1>6
  <2>3. Detached(s, to)
    BY <1>3, <1>6, <2>1, <2>2, DetachedUpdate
  <2> QED
    BY <1>7, <2>3, DetachedLinked
<1>9. OneRuns(s)
  BY <1>1, <1>6, <1>7 DEF OneRuns
<1>10. Timed(s)
  BY <1>1, <1>6, <1>7 DEF Sound, Timed
<1>11. s.stat[Idle] \in {"READY", "RUNNING"}
  <2>1. Idle \in Thread /\ b.stat[Idle] \in {"READY", "RUNNING"}
    BY KernelAssumption DEF Sound, Alive
  <2>2. q.stat[Idle] \in Stat
    BY <1>4, <2>1 DEF KernelState
  <2>3. q.stat[Idle] # "SUSPEND"
    BY <1>1, <2>1
  <2>4. q.stat[Idle] \notin {"INIT", "CLOSE"}
    BY <1>1, <2>1
  <2> QED
    BY <1>7, <2>1, <2>2, <2>3, <2>4 DEF Stat
<1>12. Sound(s)
  BY <1>6, <1>7, <1>8, <1>9, <1>10, <1>11 DEF Sound, Alive
<1>13. ASSUME NEW u \in Thread, s.stat[u] = "SUSPEND"
       PROVE  /\ b.stat[u] = "SUSPEND"
              /\ u \in Range(s.timers) <=> u \in Range(b.timers)
              /\ \A o \in Object :
                    u \in Range(s.wait[o]) <=> u \in Range(b.wait[o])
  <2>1. u # to
    BY <1>7, <1>13
  <2> QED
    BY <1>1, <1>3, <1>6, <1>7, <1>13, <2>1
<1>14. s.stat[s.cur] = "RUNNING" /\ s.lock = 0
  BY <1>6, <1>7
<1>15. Wakes(b, s)
  BY <1>6, <1>12, <1>13, <1>14 DEF Wakes
<1> QED
  BY <1>14, <1>15 DEF s

(* The lowest bit of the bitmap leads to a list with a ready thread.       *)
LEMMA HighestIsReady ==
    ASSUME NEW b, Sound(b), b.group # {}
    PROVE  LET to == Head(b.ready[HighestReady(b)])
           IN  to \in Thread /\ b.stat[to] = "READY"
<1>1. /\ b \in KernelState /\ b.group \in SUBSET Nat
      /\ b.group = {p \in Prio : b.ready[p] # <<>>}
      /\ \A p \in Prio, t \in Thread :
            t \in Range(b.ready[p]) <=> b.stat[t] = "READY" /\ b.prio[t] = p
  BY KernelAssumption DEF Sound, Linked, ReadyAgrees, Prio
<1>2. HighestReady(b) \in b.group
  BY <1>1, LeastExists DEF HighestReady
<1> DEFINE p == HighestReady(b)
<1>3. p \in Prio /\ b.ready[p] # <<>> /\ b.ready[p] \in Seq(Thread)
  BY <1>1, <1>2 DEF KernelState
<1> HIDE DEF p
<1>4. Head(b.ready[p]) \in Range(b.ready[p]) /\ Head(b.ready[p]) \in Thread
  BY <1>3, HeadIn
<1> QED
  BY <1>1, <1>3, <1>4 DEF p

(* rt_schedule takes the thread that keeps the processor off no list: it   *)
(* is on none.                                                             *)
LEMMA KeepWakes ==
    ASSUME NEW b, Sound(b), NEW c \in Thread, b.stat[c] = "RUNNING"
    PROVE  LET s == [RemoveThread(b, c) EXCEPT !.yield[c] = FALSE]
           IN  Wakes(b, s) /\ s.cur = b.cur /\ s.stat = b.stat
<1> DEFINE r == RemoveThread(b, c)
           s == [r EXCEPT !.yield[c] = FALSE]
<1>1. b \in KernelState /\ Linked(b)
  BY DEF Sound, Linked
<1>2. /\ Detached(r, c)
      /\ r = [b EXCEPT !.ready = r.ready, !.wait = r.wait, !.group = r.group]
      /\ \A o \in Object : Range(r.wait[o]) = Range(b.wait[o]) \ {c}
  <2>1. Linked(b)
    BY <1>1
  <2> QED
    BY <2>1, RemoveDetaches
<1>3. s = [r EXCEPT !.yield[c] = FALSE]
  OBVIOUS
<1> HIDE DEF r, s
<1>4. /\ r \in KernelState /\ r.mask = r.prio
      /\ r.stat = b.stat /\ r.cur = b.cur /\ r.timers = b.timers
      /\ r.lock = b.lock /\ r.prio = b.prio
  <2>1. r \in KernelState /\ r.mask = r.prio
    BY <1>2 DEF Detached
  <2> QED
    BY <1>1, <1>2, <2>1 DEF KernelState
<1>5. /\ s \in KernelState
      /\ s.stat = b.stat /\ s.cur = b.cur /\ s.timers = b.timers
      /\ s.lock = b.lock /\ s.ready = r.ready /\ s.wait = r.wait
      /\ s.group = r.group /\ s.prio = r.prio /\ s.mask = r.mask
  <2>1. r.yield \in [Thread -> BOOLEAN] /\ r \in KernelState
    BY <1>4 DEF KernelState
  <2> DEFINE y == [r.yield EXCEPT ![c] = FALSE]
  <2>2. y \in [Thread -> BOOLEAN]
    BY <2>1
  <2>3. s = [r EXCEPT !.yield = y]
    BY <1>3
  <2> HIDE DEF y
  <2> QED
    BY <1>4, <2>1, <2>2, <2>3 DEF KernelState
<1>6. Detached(s, c)
  <2>1. \A u \in Thread \ {c} : s.stat[u] = r.stat[u] /\ s.prio[u] = r.prio[u]
    BY <1>4, <1>5
  <2>2. s.mask = s.prio
    BY <1>4, <1>5
  <2>3. s.ready = r.ready /\ s.wait = r.wait /\ s.group = r.group
    BY <1>5
  <2>4. c \in Thread /\ Detached(r, c) /\ s \in KernelState
    BY <1>1, <1>2, <1>5
  <2> QED
    BY <2>1, <2>2, <2>3, <2>4, DetachedUpdate
<1>7. Linked(s)
  <2>1. s.stat[c] # "READY"
    BY <1>5
  <2> QED
    BY <1>1, <1>6, <2>1, DetachedLinked
<1>8. OneRuns(s) /\ Timed(s) /\ Alive(s)
  BY <1>5 DEF Sound, OneRuns, Timed, Alive
<1>9. ASSUME NEW u \in Thread, s.stat[u] = "SUSPEND"
      PROVE  /\ b.stat[u] = "SUSPEND"
             /\ u \in Range(s.timers) <=> u \in Range(b.timers)
             /\ \A o \in Object :
                   u \in Range(s.wait[o]) <=> u \in Range(b.wait[o])
  <2>1. u # c
    BY <1>5, <1>9
  <2> QED
    BY <1>2, <1>5, <1>9, <2>1
<1> QED
  BY <1>5, <1>7, <1>8, <1>9 DEF Sound, Wakes, s, r

(* rt_schedule, from a thread or from an interrupt; with the scheduler     *)
(* unlocked it ends with a running thread.                                 *)
LEMMA ScheduleWakes ==
    ASSUME NEW b, Sound(b)
    PROVE  /\ Wakes(b, Schedule(b))
           /\ b.lock = 0 => Schedule(b).stat[Schedule(b).cur] = "RUNNING"
<1>1. /\ b.cur \in Thread /\ b.stat \in [Thread -> Stat]
      /\ b.stat[b.cur] \in {"RUNNING", "SUSPEND"}
  BY DEF Sound, Linked, OneRuns, KernelState
<1>2. CASE b.lock # 0
  BY <1>2, WakesNone DEF Schedule
<1>3. CASE b.lock = 0 /\ b.group = {}
  <2>1. b.stat[Idle] # "READY"
    <3>1. Idle \in Thread /\ b.prio[Idle] \in Prio
      BY KernelAssumption DEF Sound, Linked, KernelState
    <3>2. b.ready[b.prio[Idle]] = <<>>
      BY <1>3, <3>1 DEF Sound, Linked, ReadyAgrees
    <3>3. Range(b.ready[b.prio[Idle]]) = {}
      BY <3>1, <3>2, EmptyRange DEF Sound, Linked, KernelState
    <3> QED
      BY <3>1, <3>3 DEF Sound, Linked, ReadyAgrees
  <2>2. b.stat[Idle] = "RUNNING"
    BY <2>1 DEF Sound, Alive
  <2>3. b.stat[b.cur] = "RUNNING"
    BY <2>2, KernelAssumption DEF Sound, OneRuns
  <2> QED
    BY <1>3, <2>3, WakesNone DEF Schedule
<1>4. CASE b.lock = 0 /\ b.group # {} /\ KeepsCpu(b)
  <2> DEFINE s == [RemoveThread(b, b.cur) EXCEPT !.yield[b.cur] = FALSE]
  <2>2. Schedule(b) = s
    BY <1>4 DEF Schedule
  <2>3. b.stat[b.cur] = "RUNNING"
    BY <1>4 DEF KeepsCpu
  <2>4. Wakes(b, s) /\ s.cur = b.cur /\ s.stat = b.stat
    BY <1>1, <2>3, KeepWakes
  <2> HIDE DEF s
  <2> QED
    BY <2>2, <2>3, <2>4
<1>5. CASE b.lock = 0 /\ b.group # {} /\ ~KeepsCpu(b)
  <2> DEFINE to == Head(b.ready[HighestReady(b)])
  <2>1. to \in Thread /\ b.stat[to] = "READY"
    BY <1>5, HighestIsReady
  <2>2. Schedule(b) = SwitchTo(b, to)
    BY <1>5 DEF Schedule
  <2> HIDE DEF to
  <2> QED
    BY <1>5, <2>1, <2>2, SwitchWakes
<1> QED
  BY <1>2, <1>3, <1>4, <1>5

-----------------------------------------------------------------------------
(* The tick interrupt.                                                     *)

(* rt_tick_increase before rt_timer_check: a time slice that has ended     *)
(* brings a call of rt_schedule.                                           *)
LEMMA TickIncreaseSchedules ==
    ASSUME NEW b, Sound(b)
    PROVE  \E y : /\ Wakes(b, y)
                  /\ y.cur = b.cur /\ y.stat = b.stat /\ y.prio = b.prio
                  /\ y.error = b.error /\ y.lock = b.lock /\ y.wait = b.wait
                  /\ TickIncrease(b) \in {y, Schedule(y)}
<1> DEFINE c == b.cur
           n == [b EXCEPT !.tick = Later(b, 1)]
<1>1. /\ b \in KernelState /\ c \in Thread
      /\ b.remaining \in [Thread -> Nat \ {0}]
      /\ InitTick \in [Thread -> Nat \ {0}]
      /\ b.yield \in [Thread -> BOOLEAN]
  BY KernelAssumption DEF Sound, Linked, KernelState
<1>2. Later(b, 1) \in Tick
  <2>1. b.tick + 1 \in Int
    BY <1>1, KernelAssumption DEF KernelState, Tick
  <2> QED
    BY <2>1, TickWraps DEF Later
<1>3. CASE b.remaining[c] = 1
  <2> DEFINE y == [n EXCEPT !.remaining[c] = InitTick[c], !.yield[c] = TRUE]
  <2>1. TickIncrease(b) = Schedule(y)
    BY <1>3 DEF TickIncrease, ThreadYield
  <2>2. /\ y \in KernelState
        /\ y.cur = b.cur /\ y.stat = b.stat /\ y.prio = b.prio
        /\ y.mask = b.mask /\ y.ready = b.ready /\ y.group = b.group
        /\ y.wait = b.wait /\ y.timers = b.timers /\ y.lock = b.lock
        /\ y.error = b.error
    BY <1>1, <1>2 DEF KernelState
  <2> HIDE DEF y
  <2>3. Sound(y) /\ Wakes(b, y)
    BY <2>2, PlainUpdate
  <2> QED
    BY <2>1, <2>2, <2>3
<1>4. CASE b.remaining[c] # 1
  <2> DEFINE y == [n EXCEPT !.remaining[c] = @ - 1]
  <2>1. TickIncrease(b) = y
    BY <1>4 DEF TickIncrease
  <2>2. /\ y \in KernelState
        /\ y.cur = b.cur /\ y.stat = b.stat /\ y.prio = b.prio
        /\ y.mask = b.mask /\ y.ready = b.ready /\ y.group = b.group
        /\ y.wait = b.wait /\ y.timers = b.timers /\ y.lock = b.lock
        /\ y.error = b.error
    <3> DEFINE rem == [b.remaining EXCEPT ![c] = @ - 1]
    <3>1. b.remaining[c] \in Nat /\ b.remaining[c] # 0 /\ b.remaining[c] # 1
      BY <1>1, <1>4
    <3>2. b.remaining[c] - 1 \in Nat \ {0}
      BY <3>1
    <3>3. rem \in [Thread -> Nat \ {0}]
      BY <1>1, <3>2
    <3>4. y = [b EXCEPT !.tick = Later(b, 1), !.remaining = rem]
      BY <1>1 DEF KernelState
    <3> HIDE DEF rem, y
    <3> QED
      BY <1>1, <1>2, <3>3, <3>4 DEF KernelState
  <2> HIDE DEF y
  <2>3. Wakes(b, y)
    BY <2>2, PlainUpdate
  <2> QED
    BY <2>1, <2>2, <2>3
<1> QED
  BY <1>3, <1>4

LEMMA TickIncreaseWakes ==
    ASSUME NEW b, Sound(b)
    PROVE  Wakes(b, TickIncrease(b))
<1>1. PICK y : /\ Wakes(b, y)
               /\ TickIncrease(b) \in {y, Schedule(y)}
  BY TickIncreaseSchedules
<1>2. Wakes(y, Schedule(y))
  BY <1>1, ScheduleWakes DEF Wakes
<1>3. Wakes(b, Schedule(y))
  BY <1>1, <1>2, WakesTransitive
<1> QED
  BY <1>1, <1>3

(* One turn of the loop of rt_timer_check ends with rt_schedule.           *)
LEMMA TimerFireSchedules ==
    ASSUME NEW b, Sound(b), b.timers # <<>>
    PROVE  \E i : /\ Wakes(b, i) /\ TimerFire(b) = Schedule(i)
                  /\ \A o \in Object : i.wait[o] = Without(b.wait[o], Head(b.timers))
                  /\ \A v \in Thread : i.stat[v] \in {b.stat[v], "READY", "RUNNING"}
                  /\ \A v \in Thread \ {Head(b.timers)} : i.stat[v] = b.stat[v]
<1> DEFINE t == Head(b.timers)
           e == [[b EXCEPT !.timers = Tail(@), !.due[t] = 0]
                    EXCEPT !.error[t] = "TIMEOUT"]
           u == Unlink(e, t)
           i == InsertThread(u, t)
<1>1. /\ b \in KernelState /\ b.timers \in Seq(Thread) /\ Distinct(b.timers)
  BY DEF Sound, Linked, Timed, KernelState
<1>2. /\ t \in Thread /\ t \in Range(b.timers)
      /\ Tail(b.timers) \in Seq(Thread)
      /\ Distinct(Tail(b.timers))
      /\ Range(Tail(b.timers)) = Range(b.timers) \ {t}
  BY <1>1, HeadIn, TailProperties
<1>3. b.stat[t] = "SUSPEND"
  BY <1>2 DEF Sound, Timed
<1>4. TimerFire(b) = Schedule(i)
  BY DEF TimerFire, ThreadTimeout
<1> HIDE DEF t
<1>5. /\ e \in KernelState
      /\ e.cur = b.cur /\ e.stat = b.stat /\ e.prio = b.prio
      /\ e.mask = b.mask /\ e.ready = b.ready /\ e.group = b.group
      /\ e.wait = b.wait /\ e.timers = Tail(b.timers) /\ e.lock = b.lock
  <2>1. 0 \in Tick /\ "TIMEOUT" \in Error
    BY KernelAssumption DEF Tick, Error
  <2> QED
    BY <1>1, <1>2, <2>1 DEF KernelState
<1> HIDE DEF e
<1>6. Linked(e)
  <2>1. ReadyAgrees(e)
    BY <1>5 DEF Sound, Linked, ReadyAgrees
  <2>2. WaitersSuspended(e)
    BY <1>5 DEF Sound, Linked, WaitersSuspended
  <2> QED
    BY <1>5, <2>1, <2>2 DEF Linked
<1>7. /\ Detached(u, t)
      /\ u = [e EXCEPT !.ready = u.ready, !.wait = u.wait]
      /\ \A o \in Object : Range(u.wait[o]) = Range(e.wait[o]) \ {t}
  <2>1. e.stat[t] # "READY"
    BY <1>3, <1>5
  <2> QED
    BY <1>2, <1>6, <2>1, UnlinkDetaches
<1> HIDE DEF u
<1>8. /\ u.cur = b.cur /\ u.stat = b.stat /\ u.lock = b.lock
      /\ u.timers = Tail(b.timers)
  BY <1>5, <1>7 DEF KernelState
<1>9. /\ Distinct(u.timers) /\ Range(u.timers) = Range(b.timers) \ {t}
      /\ \A o \in Object : Range(u.wait[o]) = Range(b.wait[o]) \ {t}
  BY <1>2, <1>5, <1>7, <1>8
<1>10. Wakes(b, i)
  BY <1>2, <1>3, <1>7, <1>8, <1>9, InsertWakes
<1>11. \A o \in Object : u.wait[o] = Without(b.wait[o], t)
  BY <1>5 DEF u, Unlink, KernelState
<1>12. i.wait = u.wait
  BY <1>2, <1>7 DEF InsertThread, Detached, KernelState
<1>13. /\ \A v \in Thread : i.stat[v] \in {b.stat[v], "READY", "RUNNING"}
       /\ \A v \in Thread \ {t} : i.stat[v] = b.stat[v]
  BY <1>2, <1>7, <1>8 DEF InsertThread, Detached, KernelState
<1> HIDE DEF i
<1> QED
  BY <1>4, <1>10, <1>11, <1>12, <1>13 DEF t

LEMMA TimerFireWakes ==
    ASSUME NEW b, Sound(b), b.timers # <<>>
    PROVE  Wakes(b, TimerFire(b))
<1>1. PICK i : Wakes(b, i) /\ TimerFire(b) = Schedule(i)
  BY TimerFireSchedules
<1>2. Wakes(i, Schedule(i))
  BY <1>1, ScheduleWakes DEF Wakes
<1> QED
  BY <1>1, <1>2, WakesTransitive

-----------------------------------------------------------------------------
(* The calls that suspend the current thread.                              *)

(* s is b with c, the current thread, suspended and linked nowhere.        *)
Suspends(b, s, c) ==
    /\ Sound(s)
    /\ s.cur = b.cur
    /\ s.lock = 0
    /\ s.stat = [b.stat EXCEPT ![c] = "SUSPEND"]
    /\ \A t \in Thread \ {c} :
          /\ t \in Range(s.timers) <=> t \in Range(b.timers)
          /\ \A o \in Object : t \in Range(s.wait[o]) <=> t \in Range(b.wait[o])

(* rt_thread_suspend called by the running thread for itself.              *)
LEMMA SuspendRunning ==
    ASSUME NEW b, Sound(b), NEW c \in Thread, b.stat[c] = "RUNNING",
           c # Idle, b.lock = 0
    PROVE  /\ Suspends(b, ThreadSuspend(b, c), c)
           /\ c \notin Range(ThreadSuspend(b, c).timers)
           /\ \A o \in Object : c \notin Range(ThreadSuspend(b, c).wait[o])
<1> DEFINE r == RemoveThread(b, c)
           d == [r EXCEPT !.stat[c] = "SUSPEND"]
           s == TimerStop(d, c)
<1>1. Linked(b)
  BY DEF Sound
<1>2. /\ Detached(r, c)
      /\ r = [b EXCEPT !.ready = r.ready, !.wait = r.wait, !.group = r.group]
      /\ \A o \in Object : Range(r.wait[o]) = Range(b.wait[o]) \ {c}
  BY <1>1, RemoveDetaches
<1>3. ThreadSuspend(b, c) = s
  BY DEF ThreadSuspend
<1> HIDE DEF r
<1>4. /\ b \in KernelState /\ Distinct(b.timers) /\ b.cur = c
  BY <1>1 DEF Linked, Sound, Timed, OneRuns
<1>5. r \in KernelState /\ r.mask = r.prio
  BY <1>2 DEF Detached
<1>6. /\ r.stat = b.stat /\ r.cur = b.cur /\ r.timers = b.timers
      /\ r.lock = 0 /\ r.prio = b.prio
  BY <1>2, <1>4, <1>5 DEF KernelState
<1>7. /\ d \in KernelState
      /\ d.stat = [b.stat EXCEPT ![c] = "SUSPEND"]
      /\ d.cur = b.cur /\ d.timers = b.timers /\ d.lock = 0
      /\ d.ready = r.ready /\ d.wait = r.wait /\ d.group = r.group
      /\ d.prio = r.prio /\ d.mask = r.mask
  BY <1>5, <1>6 DEF KernelState, Stat
<1> HIDE DEF d
<1>8. /\ s \in KernelState
      /\ s = [d EXCEPT !.timers = s.timers, !.due = s.due]
      /\ Distinct(s.timers) /\ Range(s.timers) = Range(b.timers) \ {c}
  <2>1. d \in KernelState /\ d.timers = b.timers /\ Distinct(d.timers)
    BY <1>4, <1>7
  <2> QED
    BY <2>1, TimerStopKeeps
<1> HIDE DEF s
<1>9. /\ s.stat = [b.stat EXCEPT ![c] = "SUSPEND"]
      /\ s.cur = b.cur /\ s.lock = 0
      /\ s.ready = r.ready /\ s.wait = r.wait /\ s.group = r.group
      /\ s.prio = r.prio /\ s.mask = r.mask
  BY <1>7, <1>8 DEF KernelState
<1>10. /\ s.stat[c] = "SUSPEND"
       /\ \A u \in Thread \ {c} : s.stat[u] = b.stat[u]
  BY <1>4, <1>9 DEF KernelState
<1>11. Detached(s, c)
  <2>1. \A u \in Thread \ {c} : s.stat[u] = r.stat[u] /\ s.prio[u] = r.prio[u]
    BY <1>6, <1>9, <1>10
  <2>2. s.mask = s.prio
    BY <1>5, <1>9
  <2>3. s \in KernelState
    BY <1>8
  <2>4. s.ready = r.ready /\ s.wait = r.wait /\ s.group = r.group
    BY <1>9
  <2> QED
    BY <1>2, <2>1, <2>2, <2>3, <2>4, DetachedUpdate
<1>12. Linked(s)
  BY <1>10, <1>11, DetachedLinked
<1>13. OneRuns(s)
  BY <1>4, <1>9, <1>10 DEF Sound, OneRuns
<1>14. Timed(s)
  BY <1>8, <1>10 DEF Sound, Timed
<1>15. Alive(s)
  <2>1. Idle \in Thread /\ s.stat[Idle] = b.stat[Idle]
    BY <1>10, KernelAssumption
  <2> QED
    BY <1>9, <2>1 DEF Sound, Alive
<1>16. /\ Range(s.timers) = Range(b.timers) \ {c}
       /\ \A o \in Object : Range(s.wait[o]) = Range(b.wait[o]) \ {c}
  BY <1>2, <1>8, <1>9
<1>17. Suspends(b, s, c)
  BY <1>9, <1>12, <1>13, <1>14, <1>15, <1>16 DEF Suspends, Sound
<1> QED
  BY <1>3, <1>16, <1>17

(* rt_timer_start of the thread timer of a suspended thread.               *)
LEMMA TimerStartSound ==
    ASSUME NEW b, Sound(b), NEW t \in Thread, b.stat[t] = "SUSPEND",
           NEW n \in Nat
    PROVE  LET s == TimerStart(b, t, n)
           IN  /\ Sound(s)
               /\ s.cur = b.cur /\ s.lock = b.lock /\ s.stat = b.stat
               /\ s.wait = b.wait
               /\ Range(s.timers) = Range(b.timers) \cup {t}
<1> DEFINE s == TimerStart(b, t, n)
<1>1. b \in KernelState /\ Distinct(b.timers)
  BY DEF Sound, Linked, Timed
<1>2. /\ s \in KernelState
      /\ s = [b EXCEPT !.due = s.due, !.timers = s.timers]
      /\ Distinct(s.timers)
      /\ Range(s.timers) = Range(b.timers) \cup {t}
  BY <1>1, TimerStartKeeps
<1> HIDE DEF s
<1>3. /\ s.cur = b.cur /\ s.stat = b.stat /\ s.prio = b.prio
      /\ s.mask = b.mask /\ s.ready = b.ready /\ s.group = b.group
      /\ s.wait = b.wait /\ s.lock = b.lock
  BY <1>1, <1>2 DEF KernelState
<1>4. ReadyAgrees(s)
  BY <1>3 DEF Sound, Linked, ReadyAgrees
<1>5. WaitersSuspended(s)
  BY <1>3 DEF Sound, Linked, WaitersSuspended
<1>6. OneRuns(s) /\ Timed(s) /\ Alive(s)
  BY <1>2, <1>3 DEF Sound, OneRuns, Timed, Alive
<1> QED
  BY <1>2, <1>3, <1>4, <1>5, <1>6 DEF Sound, Linked, s

(* rt_ipc_list_suspend finds a place in the list under either flag.        *)
LEMMA WaitPlaceInside ==
    ASSUME NEW b \in KernelState, NEW o \in Object, NEW t, NEW flag
    PROVE  WaitPlace(b, o, t, flag) \in 1 .. Len(b.wait[o]) + 1
<1> DEFINE s == b.wait[o]
           lower == {i \in 1 .. Len(s) : b.prio[t] < b.prio[s[i]]}
           first == CHOOSE i \in lower : \A j \in lower : i <= j
<1>1. Len(s) \in Nat
  <2>1. s \in Seq(Thread)
    BY DEF KernelState
  <2> QED
    BY <2>1, LenProperties
<1>2. CASE flag = "FIFO" \/ lower = {}
  BY <1>1, <1>2 DEF WaitPlace
<1>3. CASE ~(flag = "FIFO" \/ lower = {})
  <2>1. lower \in SUBSET Nat /\ lower \subseteq 1 .. Len(s)
    BY <1>1
  <2>2. WaitPlace(b, o, t, flag) = first
    BY <1>3 DEF WaitPlace
  <2>3. lower # {}
    BY <1>3
  <2> HIDE DEF lower
  <2>4. first \in lower
    BY <2>1, <2>3, LeastIn
  <2> HIDE DEF first, s
  <2>5. first \in 1 .. Len(s) + 1
    BY <1>1, <2>1, <2>4
  <2> USE DEF s
  <2> QED
    BY <2>2, <2>5
<1> QED
  BY <1>2, <1>3

(* Linking the suspended current thread c into the suspend list of o.      *)
LEMMA JoinSound ==
    ASSUME NEW b, Sound(b), NEW c \in Thread, b.stat[c] = "SUSPEND",
           \A x \in Object : c \notin Range(b.wait[x]),
           NEW o \in Object, NEW flag
    PROVE  LET s == Join(b, o, c, flag)
           IN  /\ Sound(s)
               /\ s.cur = b.cur /\ s.lock = b.lock /\ s.stat = b.stat
               /\ s.timers = b.timers
               /\ \A x \in Object : Range(s.wait[x]) =
                     Range(b.wait[x]) \cup (IF x = o THEN {c} ELSE {})
<1> DEFINE w == InsertAt(b.wait[o], WaitPlace(b, o, c, flag), c)
           s == Join(b, o, c, flag)
<1>1. b \in KernelState /\ b.wait \in [Object -> Seq(Thread)]
  BY DEF Sound, Linked, KernelState
<1>2. /\ Distinct(b.wait[o]) /\ c \notin Range(b.wait[o])
      /\ b.wait[o] \in Seq(Thread)
  BY <1>1 DEF Sound, Linked, WaitersSuspended
<1>3. WaitPlace(b, o, c, flag) \in 1 .. Len(b.wait[o]) + 1
  BY <1>1, WaitPlaceInside
<1>4. w \in Seq(Thread) /\ Distinct(w) /\ Range(w) = Range(b.wait[o]) \cup {c}
  BY <1>2, <1>3, InsertAtProperties
<1>0. s = [b EXCEPT !.wait = [b.wait EXCEPT ![o] = w]]
  BY <1>1 DEF Join, KernelState
<1> HIDE DEF w, s
<1>5. /\ s \in KernelState
      /\ s.cur = b.cur /\ s.stat = b.stat /\ s.prio = b.prio
      /\ s.mask = b.mask /\ s.ready = b.ready /\ s.group = b.group
      /\ s.timers = b.timers /\ s.lock = b.lock
      /\ s.wait = [b.wait EXCEPT ![o] = w]
  <2> DEFINE v == [b.wait EXCEPT ![o] = w]
  <2>1. v \in [Object -> Seq(Thread)]
    BY <1>1, <1>4
  <2>2. s = [b EXCEPT !.wait = v]
    BY <1>0
  <2> HIDE DEF v
  <2>3. /\ s \in KernelState
        /\ s.cur = b.cur /\ s.stat = b.stat /\ s.prio = b.prio
        /\ s.mask = b.mask /\ s.ready = b.ready /\ s.group = b.group
        /\ s.timers = b.timers /\ s.lock = b.lock /\ s.wait = v
    BY <1>1, <2>1, <2>2 DEF KernelState
  <2> QED
    BY <2>3 DEF v
<1>6. \A x \in Object : Range(s.wait[x]) =
         Range(b.wait[x]) \cup (IF x = o THEN {c} ELSE {})
  BY <1>1, <1>4, <1>5
<1>7. ReadyAgrees(s)
  BY <1>5 DEF Sound, Linked, ReadyAgrees
<1>8. WaitersSuspended(s)
  <2>1. \A x \in Object : Distinct(s.wait[x])
    BY <1>1, <1>4, <1>5 DEF Sound, Linked, WaitersSuspended
  <2>2. \A x \in Object, t \in Thread :
          t \in Range(s.wait[x]) => s.stat[t] = "SUSPEND"
    BY <1>5, <1>6 DEF Sound, Linked, WaitersSuspended
  <2>3. \A x, y \in Object, t \in Thread :
          t \in Range(s.wait[x]) /\ t \in Range(s.wait[y]) => x = y
    BY <1>6 DEF Sound, Linked, WaitersSuspended
  <2> QED
    BY <2>1, <2>2, <2>3 DEF WaitersSuspended
<1>9. OneRuns(s) /\ Timed(s) /\ Alive(s)
  BY <1>5 DEF Sound, OneRuns, Timed, Alive
<1>10. Sound(s)
  BY <1>5, <1>7, <1>8, <1>9 DEF Sound, Linked
<1> QED
  BY <1>5, <1>6, <1>10 DEF s

(* The common part of the blocking calls.                                  *)
LEMMA BlockSuspends ==
    ASSUME NEW b, Sound(b), NEW c \in Thread, b.stat[c] = "RUNNING",
           c # Idle, b.lock = 0,
           NEW o \in Object, NEW flag, NEW time \in Int
    PROVE  /\ Suspends(b, Block(b, o, c, flag, time), c)
           /\ c \in Range(Block(b, o, c, flag, time).wait[o])
<1> DEFINE e == [b EXCEPT !.error[c] = "OK"]
           q == ThreadSuspend(e, c)
           s == Join(q, o, c, flag)
           z == TimerStart(s, c, time)
<1>1. Block(b, o, c, flag, time) = IF time > 0 THEN z ELSE s
  BY DEF Block, IpcListSuspend
<1>2. /\ e \in KernelState
      /\ e.cur = b.cur /\ e.stat = b.stat /\ e.prio = b.prio
      /\ e.mask = b.mask /\ e.ready = b.ready /\ e.group = b.group
      /\ e.wait = b.wait /\ e.timers = b.timers /\ e.lock = b.lock
  BY DEF Sound, Linked, KernelState, Error
<1> HIDE DEF e
<1>3. Sound(e) /\ e.stat[c] = "RUNNING" /\ e.lock = 0
  BY <1>2, PlainUpdate
<1>4. /\ Suspends(e, q, c)
      /\ \A x \in Object : c \notin Range(q.wait[x])
  BY <1>3, SuspendRunning
<1> HIDE DEF q
<1>5. /\ Sound(q) /\ q.cur = b.cur /\ q.lock = 0
      /\ q.stat = [b.stat EXCEPT ![c] = "SUSPEND"]
      /\ \A t \in Thread \ {c} :
            /\ t \in Range(q.timers) <=> t \in Range(b.timers)
            /\ \A x \in Object : t \in Range(q.wait[x]) <=> t \in Range(b.wait[x])
  BY <1>2, <1>4 DEF Suspends
<1>6. q.stat[c] = "SUSPEND"
  <2>1. b.stat \in [Thread -> Stat]
    BY DEF Sound, Linked, KernelState
  <2> QED
    BY <1>5, <2>1
<1>7. /\ Sound(s)
      /\ s.cur = q.cur /\ s.lock = q.lock /\ s.stat = q.stat
      /\ s.timers = q.timers
      /\ \A x \in Object : Range(s.wait[x]) =
            Range(q.wait[x]) \cup (IF x = o THEN {c} ELSE {})
  <2>1. Sound(q)
    BY <1>5
  <2>2. \A x \in Object : c \notin Range(q.wait[x])
    BY <1>4
  <2> QED
    BY <1>6, <2>1, <2>2, JoinSound
<1> HIDE DEF s
<1>8. Suspends(b, s, c) /\ c \in Range(s.wait[o])
  BY <1>5, <1>7 DEF Suspends
<1>9. ASSUME time > 0
      PROVE  Suspends(b, z, c) /\ c \in Range(z.wait[o])
  <2>1. time \in Nat
    BY <1>9
  <2>3. s.stat[c] = "SUSPEND" /\ Sound(s)
    BY <1>6, <1>7
  <2>2. /\ Sound(z)
        /\ z.cur = s.cur /\ z.lock = s.lock /\ z.stat = s.stat
        /\ z.wait = s.wait
        /\ Range(z.timers) = Range(s.timers) \cup {c}
    BY <2>1, <2>3, TimerStartSound
  <2> HIDE DEF z
  <2> QED
    BY <1>8, <2>2 DEF Suspends
<1> QED
  BY <1>1, <1>8, <1>9

(* rt_thread_startup of a thread that was only initialised.                *)
LEMMA StartupWakes ==
    ASSUME NEW b, Sound(b), NEW u \in Thread, b.stat[u] = "INIT"
    PROVE  Wakes(b, ThreadStartup(b, u))
<1> DEFINE e == [b EXCEPT !.prio[u] = InitPrio[u],
                          !.mask[u] = InitPrio[u],
                          !.stat[u] = "SUSPEND"]
           s == ThreadResume(e, u)
<1>1. ThreadStartup(b, u) = s
  BY DEF ThreadStartup
<1>2. b \in KernelState /\ InitPrio[u] \in Prio
  BY KernelAssumption DEF Sound, Linked
<1>3. /\ e \in KernelState
      /\ e.stat = [b.stat EXCEPT ![u] = "SUSPEND"]
      /\ e.prio = [b.prio EXCEPT ![u] = InitPrio[u]]
      /\ e.mask = [b.mask EXCEPT ![u] = InitPrio[u]]
      /\ e.cur = b.cur /\ e.ready = b.ready /\ e.group = b.group
      /\ e.wait = b.wait /\ e.timers = b.timers /\ e.lock = b.lock
  BY <1>2 DEF KernelState, Stat
<1> HIDE DEF e
<1>4. /\ e.stat[u] = "SUSPEND"
      /\ \A t \in Thread \ {u} :
            e.stat[t] = b.stat[t] /\ e.prio[t] = b.prio[t]
  BY <1>2, <1>3 DEF KernelState
<1>5. ReadyAgrees(e)
  <2>1. e.mask = e.prio
    BY <1>2, <1>3 DEF Sound, Linked, ReadyAgrees, KernelState
  <2>2. \A p \in Prio, t \in Thread :
          t \in Range(e.ready[p]) <=> e.stat[t] = "READY" /\ e.prio[t] = p
    BY <1>3, <1>4 DEF Sound, Linked, ReadyAgrees
  <2> QED
    BY <1>3, <2>1, <2>2 DEF Sound, Linked, ReadyAgrees
<1>6. WaitersSuspended(e)
  BY <1>3, <1>4 DEF Sound, Linked, WaitersSuspended
<1>7. b.cur \in Thread /\ b.cur # u /\ Idle \in Thread /\ Idle # u
  BY <1>2, KernelAssumption DEF Sound, OneRuns, Alive, KernelState
<1>8. Sound(e)
  <2>1. OneRuns(e)
    BY <1>3, <1>4, <1>7 DEF Sound, OneRuns
  <2>2. Timed(e)
    BY <1>3, <1>4 DEF Sound, Timed
  <2>3. Alive(e)
    BY <1>3, <1>4, <1>7 DEF Sound, Alive
  <2> QED
    BY <1>3, <1>5, <1>6, <2>1, <2>2, <2>3 DEF Sound, Linked
<1>9. Wakes(e, s) /\ s.stat[u] # "SUSPEND"
  BY <1>8, ResumeWakes
<1> HIDE DEF s
<1>10. Wakes(b, s)
  BY <1>3, <1>4, <1>9 DEF Wakes
<1> QED
  BY <1>1, <1>10

-----------------------------------------------------------------------------
(* What the operations do to the timers and to the priorities.             *)

Steady(b, s) ==
    s.tick = b.tick /\ s.due = b.due /\ s.timers = b.timers /\ s.prio = b.prio

(* The timer of t has been taken off the list, and nothing else.           *)
Stops(b, s, t) ==
    /\ s.tick = b.tick /\ s.prio = b.prio
    /\ s.due = [b.due EXCEPT ![t] = 0]
    /\ s.timers = Without(b.timers, t)

LEMMA WithoutAbsent ==
    ASSUME NEW s, NEW t, t \notin Range(s)
    PROVE  Without(s, t) = s
BY DEF Without, Range

LEMMA UnlinkSteady ==
    ASSUME NEW b \in KernelState, NEW t \in Thread
    PROVE  Steady(b, Unlink(b, t))
BY DEF Unlink, KernelState, Steady

LEMMA InsertSteady ==
    ASSUME NEW b \in KernelState, NEW t \in Thread
    PROVE  Steady(b, InsertThread(b, t))
BY DEF InsertThread, KernelState, Steady

LEMMA RemoveSteady ==
    ASSUME NEW b, Linked(b), NEW t \in Thread
    PROVE  Steady(b, RemoveThread(b, t))
<1> DEFINE r == RemoveThread(b, t)
<1>1. r = [b EXCEPT !.ready = r.ready, !.wait = r.wait, !.group = r.group]
  BY RemoveDetaches
<1> HIDE DEF r
<1>2. Steady(b, r)
  BY <1>1 DEF Linked, KernelState, Steady
<1> QED
  BY <1>2 DEF r

LEMMA RequeueSteady ==
    ASSUME NEW b \in KernelState, NEW to \in Thread
    PROVE  Steady(b, Requeue(b, to)) /\ Requeue(b, to).lock = b.lock
<1> DEFINE here == [b EXCEPT !.cur = to]
           h == [here EXCEPT !.yield[b.cur] = FALSE]
<1>1. here \in KernelState /\ Steady(b, here) /\ here.lock = b.lock
  BY DEF KernelState, Steady
<1>2. h \in KernelState /\ Steady(b, h) /\ h.lock = b.lock /\ b.cur \in Thread
  BY DEF KernelState, Steady
<1>3. Requeue(b, to) = IF b.stat[b.cur] = "RUNNING"
                       THEN InsertThread(h, b.cur) ELSE here
  BY DEF Requeue
<1> HIDE DEF here, h
<1>4. /\ Steady(h, InsertThread(h, b.cur))
      /\ InsertThread(h, b.cur).lock = h.lock
  BY <1>2, InsertSteady DEF InsertThread, KernelState
<1> QED
  BY <1>1, <1>2, <1>3, <1>4 DEF Steady

(* rt_schedule.                                                            *)
LEMMA ScheduleSteady ==
    ASSUME NEW b, Sound(b)
    PROVE  Steady(b, Schedule(b))
<1>1. b \in KernelState /\ Linked(b) /\ b.cur \in Thread
  BY DEF Sound, Linked, KernelState
<1>2. CASE b.lock # 0 \/ b.group = {}
  BY <1>2 DEF Schedule, Steady
<1>3. CASE ~(b.lock # 0 \/ b.group = {}) /\ KeepsCpu(b)
  <2> DEFINE r == RemoveThread(b, b.cur)
  <2>1. Steady(b, r) /\ r \in KernelState
    BY <1>1, RemoveSteady, RemoveDetaches DEF Detached
  <2>2. Schedule(b) = [r EXCEPT !.yield[b.cur] = FALSE]
    BY <1>3 DEF Schedule
  <2> HIDE DEF r
  <2>3. Steady(r, Schedule(b))
    BY <2>1, <2>2 DEF KernelState, Steady
  <2> QED
    BY <2>1, <2>3 DEF Steady
<1>4. CASE ~(b.lock # 0 \/ b.group = {}) /\ ~KeepsCpu(b)
  <2> DEFINE to == Head(b.ready[HighestReady(b)])
             q == Requeue(b, to)
             r == RemoveThread(q, to)
  <2>1. to \in Thread /\ b.stat[to] = "READY"
    BY <1>4, HighestIsReady
  <2>2. Schedule(b) = [r EXCEPT !.stat[to] = "RUNNING"]
    BY <1>4 DEF Schedule, SwitchTo
  <2> HIDE DEF to
  <2>3. Linked(q) /\ Steady(b, q)
    BY <1>1, <2>1, RequeueLinks, RequeueSteady
  <2> HIDE DEF q
  <2>4. Steady(q, r) /\ r \in KernelState
    BY <2>1, <2>3, RemoveSteady, RemoveDetaches DEF Detached
  <2> HIDE DEF r
  <2>5. Steady(r, Schedule(b))
    BY <2>2, <2>4 DEF KernelState, Steady
  <2> QED
    BY <2>3, <2>4, <2>5 DEF Steady
<1> QED
  BY <1>2, <1>3, <1>4

LEMMA TimerStopStops ==
    ASSUME NEW b \in KernelState, NEW t \in Thread
    PROVE  Stops(b, TimerStop(b, t), t)
BY DEF TimerStop, KernelState, Stops

(* rt_thread_resume of a thread that waits.                                *)
LEMMA ResumeStops ==
    ASSUME NEW b \in KernelState,
           \A p \in Prio : Distinct(b.ready[p]),
           \A o \in Object : Distinct(b.wait[o]),
           Distinct(b.timers),
           NEW t \in Thread, b.stat[t] = "SUSPEND"
    PROVE  Stops(b, ThreadResume(b, t), t)
<1> DEFINE u == Unlink(b, t)
           s == TimerStop(u, t)
<1>1. u \in KernelState /\ Steady(b, u)
  BY UnlinkKeeps, UnlinkSteady
<1>2. u.timers = b.timers
  BY <1>1 DEF Steady
<1>3. ThreadResume(b, t) = InsertThread(s, t)
  BY DEF ThreadResume
<1> HIDE DEF u
<1>4. s \in KernelState /\ Stops(u, s, t)
  BY <1>1, <1>2, TimerStopKeeps, TimerStopStops
<1> HIDE DEF s
<1>5. Steady(s, InsertThread(s, t))
  BY <1>4, InsertSteady
<1> QED
  BY <1>1, <1>3, <1>4, <1>5 DEF Steady, Stops

(* rt_thread_suspend of the running thread: its timer was not armed.       *)
LEMMA SuspendStops ==
    ASSUME NEW b, Sound(b), NEW c \in Thread, b.stat[c] = "RUNNING"
    PROVE  /\ Stops(b, ThreadSuspend(b, c), c)
           /\ ThreadSuspend(b, c).timers = b.timers
<1> DEFINE r == RemoveThread(b, c)
           d == [r EXCEPT !.stat[c] = "SUSPEND"]
<1>1. Linked(b) /\ c \notin Range(b.timers)
  BY DEF Sound, Timed
<1>2. Steady(b, r) /\ r \in KernelState
  BY <1>1, RemoveSteady, RemoveDetaches DEF Detached
<1>3. ThreadSuspend(b, c) = TimerStop(d, c)
  BY DEF ThreadSuspend
<1> HIDE DEF r
<1>4. d \in KernelState /\ Steady(r, d)
  BY <1>2 DEF KernelState, Stat, Steady
<1> HIDE DEF d
<1>5. Stops(d, ThreadSuspend(b, c), c)
  BY <1>3, <1>4, TimerStopStops
<1> QED
  BY <1>1, <1>2, <1>4, <1>5, WithoutAbsent DEF Steady, Stops

(* rt_timer_start of a timer that is not armed.                            *)
LEMMA TimerStartIs ==
    ASSUME NEW b \in KernelState, NEW t \in Thread, NEW n \in Nat,
           t \notin Range(b.timers)
    PROVE  LET s == TimerStart(b, t, n)
           IN  /\ s.tick = b.tick /\ s.prio = b.prio
               /\ s.due = [b.due EXCEPT ![t] = Later(b, n)]
               /\ s.timers = InsertAt(b.timers,
                                TimerPlace(b.timers, b.due, Later(b, n)), t)
<1>1. Without(b.timers, t) = b.timers
  BY WithoutAbsent
<1> QED
  BY <1>1 DEF TimerStart, KernelState

(* A turn of rt_timer_check takes the first timer off the list.            *)
LEMMA TimerFireIs ==
    ASSUME NEW b, Sound(b), b.timers # <<>>
    PROVE  LET t == Head(b.timers)
               s == TimerFire(b)
           IN  /\ s.tick = b.tick /\ s.prio = b.prio
               /\ s.due = [b.due EXCEPT ![t] = 0]
               /\ s.timers = Tail(b.timers)
<1> DEFINE t == Head(b.timers)
           d == [b EXCEPT !.timers = Tail(@), !.due[t] = 0]
           e == [d EXCEPT !.error[t] = "TIMEOUT"]
           u == Unlink(e, t)
           i == InsertThread(u, t)
<1>1. /\ b \in KernelState /\ b.timers \in Seq(Thread)
  BY DEF Sound, Linked, KernelState
<1>2. t \in Thread /\ Tail(b.timers) \in Seq(Thread)
  BY <1>1, HeadIn, TailProperties
<1>3. TimerFire(b) = Schedule(i)
  BY DEF TimerFire, ThreadTimeout
<1> HIDE DEF t
<1>4. 0 \in Tick /\ "TIMEOUT" \in Error
  BY KernelAssumption DEF Tick, Error
<1>5. /\ d \in KernelState /\ d.timers = Tail(b.timers)
      /\ d.due = [b.due EXCEPT ![t] = 0] /\ d.tick = b.tick /\ d.prio = b.prio
      /\ d.ready = b.ready /\ d.wait = b.wait /\ d.cur = b.cur /\ d.stat = b.stat
      /\ d.group = b.group /\ d.mask = b.mask /\ d.lock = b.lock
  BY <1>1, <1>2, <1>4 DEF KernelState
<1> HIDE DEF d
<1>6. /\ e \in KernelState /\ Steady(d, e)
      /\ e.ready = b.ready /\ e.wait = b.wait /\ e.cur = b.cur
      /\ e.stat = b.stat /\ e.group = b.group /\ e.mask = b.mask
      /\ e.lock = b.lock
  BY <1>2, <1>4, <1>5 DEF KernelState, Steady
<1> HIDE DEF e
<1>7. Linked(e)
  <2>1. e.prio = b.prio
    BY <1>5, <1>6 DEF Steady
  <2>2. ReadyAgrees(e)
    BY <1>6, <2>1 DEF Sound, Linked, ReadyAgrees
  <2>3. WaitersSuspended(e)
    BY <1>6 DEF Sound, Linked, WaitersSuspended
  <2> QED
    BY <1>6, <2>2, <2>3 DEF Linked
<1>8. b.stat[t] = "SUSPEND" /\ e.stat[t] = "SUSPEND"
  <2>1. t \in Range(b.timers)
    BY <1>1, HeadIn DEF t
  <2> QED
    BY <1>2, <1>6, <2>1 DEF Sound, Timed
<1>9. /\ Detached(u, t) /\ u \in KernelState /\ Steady(e, u)
      /\ \A o \in Object : Range(u.wait[o]) = Range(e.wait[o]) \ {t}
      /\ u = [e EXCEPT !.ready = u.ready, !.wait = u.wait]
  <2>1. e.stat[t] # "READY" /\ e \in KernelState /\ Linked(e) /\ t \in Thread
    BY <1>2, <1>6, <1>7, <1>8
  <2>2. /\ Detached(u, t)
        /\ u = [e EXCEPT !.ready = u.ready, !.wait = u.wait]
        /\ \A o \in Object : Range(u.wait[o]) = Range(e.wait[o]) \ {t}
    BY <2>1, UnlinkDetaches
  <2>3. Steady(e, u)
    BY <2>1, UnlinkSteady
  <2> HIDE DEF u
  <2> QED
    BY <2>2, <2>3 DEF Detached
<1> HIDE DEF u
<1>10. u.cur = e.cur /\ u.stat = e.stat /\ u.lock = e.lock
  BY <1>6, <1>9 DEF KernelState
<1>11. Steady(u, i)
  BY <1>2, <1>9, InsertSteady
<1>12. Sound(i)
  <2>1. /\ Distinct(Tail(b.timers))
        /\ Range(Tail(b.timers)) = Range(b.timers) \ {t}
    BY <1>1, TailProperties DEF Sound, Timed, t
  <2>2. /\ Distinct(u.timers) /\ Range(u.timers) = Range(b.timers) \ {t}
    BY <1>5, <1>6, <1>9, <2>1 DEF Steady
  <2>3. u.cur = b.cur /\ u.stat = b.stat /\ u.lock = b.lock
    BY <1>6, <1>10
  <2>4. \A o \in Object : Range(u.wait[o]) = Range(b.wait[o]) \ {t}
    BY <1>6, <1>9
  <2>5. Wakes(b, InsertThread(u, t))
    BY <1>2, <1>8, <1>9, <2>2, <2>3, <2>4, InsertWakes
  <2> QED
    BY <2>5 DEF Wakes
<1> HIDE DEF i
<1>13. Steady(i, Schedule(i))
  BY <1>12, ScheduleSteady
<1> QED
  BY <1>3, <1>5, <1>6, <1>9, <1>11, <1>13 DEF Steady, t

(* rt_tick_increase up to its call of rt_timer_check.                      *)
LEMMA TickIncreaseIs ==
    ASSUME NEW b, Sound(b)
    PROVE  LET s == TickIncrease(b)
           IN  /\ s.tick = Later(b, 1) /\ s.prio = b.prio
               /\ s.due = b.due /\ s.timers = b.timers
<1> DEFINE c == b.cur
           n == [b EXCEPT !.tick = Later(b, 1)]
<1>1. /\ b \in KernelState /\ c \in Thread
      /\ InitTick \in [Thread -> Nat \ {0}]
  BY KernelAssumption DEF Sound, Linked, KernelState
<1>2. Later(b, 1) \in Tick
  <2>1. b.tick + 1 \in Int
    BY <1>1, KernelAssumption DEF KernelState, Tick
  <2> QED
    BY <2>1, TickWraps DEF Later
<1>3. CASE b.remaining[c] = 1
  <2> DEFINE y == [n EXCEPT !.remaining[c] = InitTick[c], !.yield[c] = TRUE]
  <2>1. TickIncrease(b) = Schedule(y)
    BY <1>3 DEF TickIncrease, ThreadYield
  <2>2. /\ y \in KernelState
        /\ y.cur = b.cur /\ y.stat = b.stat /\ y.prio = b.prio
        /\ y.mask = b.mask /\ y.ready = b.ready /\ y.group = b.group
        /\ y.wait = b.wait /\ y.timers = b.timers /\ y.lock = b.lock
        /\ y.due = b.due /\ y.tick = Later(b, 1)
    BY <1>1, <1>2 DEF KernelState
  <2> HIDE DEF y
  <2>3. Sound(y)
    BY <2>2, PlainUpdate
  <2>4. Steady(y, Schedule(y))
    BY <2>3, ScheduleSteady
  <2> QED
    BY <2>1, <2>2, <2>4 DEF Steady
<1>4. CASE b.remaining[c] # 1
  <2>1. TickIncrease(b) = [n EXCEPT !.remaining[c] = @ - 1]
    BY <1>4 DEF TickIncrease
  <2> QED
    BY <1>1, <2>1 DEF KernelState
<1> QED
  BY <1>3, <1>4

(* The common part of the blocking calls: the time is counted from here.   *)
LEMMA BlockIs ==
    ASSUME NEW b, Sound(b), NEW c \in Thread, b.stat[c] = "RUNNING",
           c # Idle, b.lock = 0,
           NEW o \in Object, NEW flag, NEW time \in Int
    PROVE  LET s == Block(b, o, c, flag, time)
           IN  /\ s.tick = b.tick /\ s.prio = b.prio
               /\ c \notin Range(b.timers)
               /\ IF time > 0
                  THEN /\ s.due = [b.due EXCEPT ![c] = Later(b, time)]
                       /\ s.timers =
                             InsertAt(b.timers, TimerPlace(b.timers,
                                 [b.due EXCEPT ![c] = 0], Later(b, time)), c)
                  ELSE /\ s.due = [b.due EXCEPT ![c] = 0]
                       /\ s.timers = b.timers
<1> DEFINE e == [b EXCEPT !.error[c] = "OK"]
           q == ThreadSuspend(e, c)
           s == Join(q, o, c, flag)
<1>1. Block(b, o, c, flag, time) =
          IF time > 0 THEN TimerStart(s, c, time) ELSE s
  BY DEF Block, IpcListSuspend
<1>2. /\ e \in KernelState /\ Steady(b, e)
      /\ e.cur = b.cur /\ e.stat = b.stat /\ e.prio = b.prio
      /\ e.mask = b.mask /\ e.ready = b.ready /\ e.group = b.group
      /\ e.wait = b.wait /\ e.timers = b.timers /\ e.lock = b.lock
  BY DEF Sound, Linked, KernelState, Error, Steady
<1> HIDE DEF e
<1>3. Sound(e) /\ e.stat[c] = "RUNNING" /\ e.lock = 0
  BY <1>2, PlainUpdate
<1>4. /\ Stops(e, q, c) /\ q.timers = e.timers
  BY <1>3, SuspendStops
<1>5. /\ Suspends(e, q, c) /\ c \notin Range(q.timers)
      /\ \A x \in Object : c \notin Range(q.wait[x])
  BY <1>3, SuspendRunning
<1> HIDE DEF q
<1>6. Sound(q) /\ q \in KernelState /\ q.stat[c] = "SUSPEND"
  BY <1>2, <1>5 DEF Suspends, Sound, Linked, KernelState
<1>7. Sound(s) /\ s \in KernelState
  BY <1>5, <1>6, JoinSound DEF Sound, Linked
<1>8. Steady(q, s)
  BY <1>6 DEF Join, KernelState, Steady
<1> HIDE DEF s
<1>9. /\ s.tick = b.tick /\ s.prio = b.prio /\ s.timers = b.timers
      /\ s.due = [b.due EXCEPT ![c] = 0] /\ c \notin Range(s.timers)
  BY <1>2, <1>4, <1>5, <1>8 DEF Steady, Stops
<1>10. CASE time > 0
  <2>1. time \in Nat /\ Later(s, time) = Later(b, time)
    BY <1>9, <1>10 DEF Later
  <2> DEFINE z == TimerStart(s, c, time)
  <2>2. /\ z.tick = s.tick /\ z.prio = s.prio
        /\ z.due = [s.due EXCEPT ![c] = Later(s, time)]
        /\ z.timers = InsertAt(s.timers,
                               TimerPlace(s.timers, s.due, Later(s, time)), c)
    BY <1>7, <1>9, <2>1, TimerStartIs
  <2> HIDE DEF z
  <2>3. [s.due EXCEPT ![c] = Later(b, time)] = [b.due EXCEPT ![c] = Later(b, time)]
    BY <1>9 DEF Sound, Linked, KernelState
  <2> QED
    BY <1>1, <1>9, <1>10, <2>1, <2>2, <2>3 DEF z
<1>11. CASE ~(time > 0)
  BY <1>1, <1>9, <1>11
<1> QED
  BY <1>10, <1>11

-----------------------------------------------------------------------------
(* What the operations do to the timer list.                               *)

(* At most one timer has been taken off, and no other one has changed.     *)
Fewer(b, s) ==
    /\ s.tick = b.tick
    /\ s.timers = b.timers \/ \E t \in Thread : s.timers = Without(b.timers, t)
    /\ \A t \in Thread : t \in Range(s.timers) =>
          t \in Range(b.timers) /\ s.due[t] = b.due[t]

(* The timer of t, which was not armed, is set to expire in n ticks.       *)
Arms(b, s, t, n) ==
    /\ t \notin Range(b.timers)
    /\ s.tick = b.tick
    /\ s.due = [b.due EXCEPT ![t] = Later(b, n)]
    /\ s.timers = InsertAt(b.timers,
                     TimerPlace(b.timers, [b.due EXCEPT ![t] = 0], Later(b, n)), t)

LEMMA SteadyFewer ==
    ASSUME NEW b, NEW s, Steady(b, s)
    PROVE  Fewer(b, s)
BY DEF Steady, Fewer

LEMMA StopsFewer ==
    ASSUME NEW b \in KernelState, Distinct(b.timers), NEW s, NEW t \in Thread,
           Stops(b, s, t)
    PROVE  Fewer(b, s)
<1>1. b.timers \in Seq(Thread) /\ b.due \in [Thread -> Tick]
  BY DEF KernelState
<1>2. Range(s.timers) = Range(b.timers) \ {t}
  BY <1>1, WithoutProperties DEF Stops
<1> QED
  BY <1>1, <1>2 DEF Stops, Fewer

-----------------------------------------------------------------------------
(* The order of the timer list, by the ticks left at tick now.             *)
Ordered(list, due, now) ==
    \A i \in 1 .. Len(list) :
        /\ Minus(due[list[i]], now) < HalfTick
        /\ \A j \in 1 .. i :
              Minus(due[list[j]], now) <= Minus(due[list[i]], now)

LEMMA HalfIs == HalfTick \in Nat /\ HalfTick > 1 /\ HalfTick + HalfTick < TickMod
BY KernelAssumption DEF HalfTick

LEMMA MinusIs ==
    ASSUME NEW a \in Tick, NEW b \in Tick
    PROVE  /\ Minus(a, b) \in Tick
           /\ Minus(a, b) = IF b <= a THEN a - b ELSE a - b + TickMod
<1>1. /\ TickMod \in Nat /\ TickMod > 0
      /\ a \in Int /\ b \in Int /\ 0 <= a /\ a < TickMod /\ 0 <= b /\ b < TickMod
  BY KernelAssumption DEF Tick
<1>2. PICK c \in Int : c = a - b
  BY <1>1
<1>3. CASE b <= a
  <2>1. c \in 0 .. TickMod - 1 /\ c = 0 * TickMod + c
    BY <1>1, <1>2, <1>3
  <2>2. c % TickMod = c
    BY <1>1, <2>1, RemainderUnique
  <2> QED
    BY <1>2, <1>3, <2>1, <2>2 DEF Minus, Tick
<1>4. CASE ~(b <= a)
  <2>1. PICK d \in 0 .. TickMod - 1 : d = c + TickMod
    BY <1>1, <1>2, <1>4
  <2>2. c = (-1) * TickMod + d
    BY <1>1, <2>1
  <2>3. c % TickMod = d
    BY <1>1, <2>1, <2>2, RemainderUnique
  <2> QED
    BY <1>2, <1>4, <2>1, <2>3 DEF Minus, Tick
<1> QED
  BY <1>3, <1>4

LEMMA AfterIs ==
    ASSUME NEW a \in Tick, NEW n \in Nat, n < HalfTick
    PROVE  /\ (a + n) % TickMod \in Tick
           /\ (a + n) % TickMod = IF a + n < TickMod THEN a + n ELSE a + n - TickMod
<1>1. /\ TickMod \in Nat /\ TickMod > 0 /\ a \in Int /\ 0 <= a /\ a < TickMod
      /\ n < TickMod
  BY KernelAssumption, HalfIs DEF Tick
<1>2. PICK c \in Int : c = a + n
  BY <1>1
<1>3. CASE c < TickMod
  <2>1. c \in 0 .. TickMod - 1 /\ c = 0 * TickMod + c
    BY <1>1, <1>2, <1>3
  <2>2. c % TickMod = c
    BY <1>1, <2>1, RemainderUnique
  <2> QED
    BY <1>2, <1>3, <2>1, <2>2 DEF Tick
<1>4. CASE ~(c < TickMod)
  <2>1. PICK d \in 0 .. TickMod - 1 : d = c - TickMod
    BY <1>1, <1>2, <1>4
  <2>2. PICK q \in Int : q = 1
    OBVIOUS
  <2>3. c = q * TickMod + d
    BY <1>1, <2>1, <2>2
  <2>4. c % TickMod = d
    BY <1>1, <2>1, <2>3, RemainderUnique
  <2> QED
    BY <1>1, <1>2, <1>4, <2>1, <2>4 DEF Tick
<1> QED
  BY <1>3, <1>4

(* The test of the scan: a timer set for n ticks goes in front of another  *)
(* exactly when that has more of them left.                                *)
LEMMA ScanIs ==
    ASSUME NEW now \in Tick, NEW n \in Nat, n < HalfTick, NEW x \in Tick,
           Minus(x, now) < HalfTick, NEW when, when = (now + n) % TickMod
    PROVE  /\ Minus(when, now) = n
           /\ x # when /\ Minus(x, when) < HalfTick <=> n < Minus(x, now)
<1>1. /\ when \in Tick
      /\ when = IF now + n < TickMod THEN now + n ELSE now + n - TickMod
  BY AfterIs
<1>2. /\ HalfTick \in Nat /\ HalfTick + HalfTick < TickMod /\ TickMod \in Nat
      /\ now \in Int /\ 0 <= now /\ now < TickMod
      /\ x \in Int /\ 0 <= x /\ x < TickMod
      /\ when \in Int /\ 0 <= when /\ when < TickMod
  BY <1>1, HalfIs, KernelAssumption DEF Tick
<1>3. /\ Minus(when, now) = IF now <= when THEN when - now ELSE when - now + TickMod
      /\ Minus(x, now) = IF now <= x THEN x - now ELSE x - now + TickMod
      /\ Minus(x, when) = IF when <= x THEN x - when ELSE x - when + TickMod
  BY <1>1, MinusIs
<1> QED
  BY <1>1, <1>2, <1>3

(* One tick later, and what the test of rt_timer_check says then.          *)
LEMMA TickIs ==
    ASSUME NEW now \in Tick, NEW next \in Tick, Minus(next, 1) = now,
           NEW x \in Tick, Minus(x, now) < HalfTick
    PROVE  /\ Minus(next, x) < HalfTick => Minus(x, now) < 2 /\ Minus(next, x) <= 1
           /\ ~(Minus(next, x) < HalfTick) => Minus(x, now) >= 2
           /\ Minus(x, now) > 0 => Minus(x, next) = Minus(x, now) - 1
<1>1. /\ HalfTick \in Nat /\ HalfTick + HalfTick < TickMod /\ TickMod \in Nat
      /\ HalfTick > 1 /\ 1 \in Tick
      /\ now \in Int /\ 0 <= now /\ now < TickMod
      /\ next \in Int /\ 0 <= next /\ next < TickMod
      /\ x \in Int /\ 0 <= x /\ x < TickMod
  BY HalfIs, KernelAssumption DEF Tick
<1>2. /\ Minus(next, 1) = IF 1 <= next THEN next - 1 ELSE next - 1 + TickMod
      /\ Minus(x, now) = IF now <= x THEN x - now ELSE x - now + TickMod
      /\ Minus(next, x) = IF x <= next THEN next - x ELSE next - x + TickMod
      /\ Minus(x, next) = IF next <= x THEN x - next ELSE x - next + TickMod
  BY <1>1, MinusIs
<1> QED
  BY <1>1, <1>2

LEMMA NextTick ==
    ASSUME NEW b \in KernelState
    PROVE  /\ Later(b, 1) \in Tick /\ Minus(Later(b, 1), 1) = b.tick
           /\ Minus(b.tick, 1) \in Tick
<1>1. b.tick \in Tick /\ 1 \in Tick /\ 1 \in Nat /\ 1 < HalfTick
  BY HalfIs, KernelAssumption DEF KernelState, Tick
<1>2. /\ Later(b, 1) \in Tick
      /\ Later(b, 1) = IF b.tick + 1 < TickMod THEN b.tick + 1 ELSE b.tick + 1 - TickMod
  BY <1>1, AfterIs DEF Later
<1>3. Minus(Later(b, 1), 1) = IF 1 <= Later(b, 1) THEN Later(b, 1) - 1
                              ELSE Later(b, 1) - 1 + TickMod
  BY <1>1, <1>2, MinusIs
<1>4. Minus(b.tick, 1) \in Tick
  BY <1>1, MinusIs
<1>5. TickMod \in Nat /\ b.tick \in Int /\ 0 <= b.tick /\ b.tick < TickMod
  BY <1>1, KernelAssumption DEF Tick
<1> QED
  BY <1>2, <1>3, <1>4, <1>5

(* A list that keeps the order of another is ordered too.                  *)
(* The places f pick u out of list, in the same order and with the same    *)
(* times.                                                                  *)
Picks(f, list, due, u, d) ==
    /\ Len(u) \in Nat
    /\ \A i \in 1 .. Len(u) : f[i] \in 1 .. Len(list) /\ d[u[i]] = due[list[f[i]]]
    /\ \A i, j \in 1 .. Len(u) : j <= i => f[j] \in 1 .. f[i]

LEMMA OrderedPart ==
    ASSUME NEW list, NEW due, NEW now, Ordered(list, due, now),
           NEW u, NEW d, NEW f, Picks(f, list, due, u, d)
    PROVE  Ordered(u, d, now)
<1> SUFFICES ASSUME NEW i \in 1 .. Len(u)
             PROVE  /\ Minus(d[u[i]], now) < HalfTick
                    /\ \A j \in 1 .. i :
                          Minus(d[u[j]], now) <= Minus(d[u[i]], now)
  BY DEF Ordered
<1>1. f[i] \in 1 .. Len(list) /\ d[u[i]] = due[list[f[i]]]
  BY DEF Picks
<1>2. Minus(d[u[i]], now) < HalfTick
  BY <1>1 DEF Ordered
<1>3. ASSUME NEW j \in 1 .. i
      PROVE  Minus(d[u[j]], now) <= Minus(d[u[i]], now)
  <2>1. j \in 1 .. Len(u) /\ j <= i
    BY DEF Picks
  <2>2. f[j] \in 1 .. f[i] /\ d[u[j]] = due[list[f[j]]]
    BY <2>1 DEF Picks
  <2> QED
    BY <1>1, <2>2 DEF Ordered
<1> QED
  BY <1>2, <1>3

LEMMA OrderedWithout ==
    ASSUME NEW list \in Seq(Thread), NEW due, NEW now, Ordered(list, due, now),
           NEW t, NEW d,
           \A x \in Range(Without(list, t)) : d[x] = due[x]
    PROVE  Ordered(Without(list, t), d, now)
<1> DEFINE at == CHOOSE i \in 1 .. Len(list) : list[i] = t
<1>1. CASE \E i \in 1 .. Len(list) : list[i] = t
  <2>1. at \in 1 .. Len(list) /\ Without(list, t) = RemoveAt(list, at)
    BY <1>1 DEF Without
  <2> HIDE DEF at
  <2>2. PICK u : u = RemoveAt(list, at)
    OBVIOUS
  <2>3. /\ u \in Seq(Thread) /\ Len(u) = Len(list) - 1 /\ Len(list) \in Nat
        /\ \A j \in 1 .. Len(list) - 1 : u[j] = IF j < at THEN list[j] ELSE list[j + 1]
    BY <2>1, <2>2, RemoveAtProperties, LenProperties
  <2>4. PICK f : f = [j \in 1 .. Len(u) |-> IF j < at THEN j ELSE j + 1]
    OBVIOUS
  <2>5. \A j \in 1 .. Len(u) : f[j] \in 1 .. Len(list) /\ u[j] = list[f[j]]
    BY <2>1, <2>3, <2>4
  <2>6. \A i, j \in 1 .. Len(u) : j <= i => f[j] \in 1 .. f[i]
    BY <2>1, <2>3, <2>4
  <2>7. \A j \in 1 .. Len(u) : u[j] \in Range(Without(list, t))
    BY <2>1, <2>2, <2>3, RangeIs
  <2>8. \A j \in 1 .. Len(u) : f[j] \in 1 .. Len(list) /\ d[u[j]] = due[list[f[j]]]
    BY <2>5, <2>7
  <2>9. Len(u) \in Nat
    BY <2>1, <2>3
  <2>10. Ordered(u, d, now)
    <3>1. Picks(f, list, due, u, d)
      BY <2>6, <2>8, <2>9 DEF Picks
    <3> QED
      BY <3>1, OrderedPart
  <2> QED
    BY <2>1, <2>2, <2>10
<1>2. CASE ~ \E i \in 1 .. Len(list) : list[i] = t
  <2>1. Without(list, t) = list /\ Len(list) \in Nat
    BY <1>2, LenProperties DEF Without
  <2>2. PICK f : f = [j \in 1 .. Len(list) |-> j]
    OBVIOUS
  <2>3. \A j \in 1 .. Len(list) : f[j] \in 1 .. Len(list) /\ d[list[j]] = due[list[f[j]]]
    BY <2>1, <2>2, RangeIs
  <2>4. \A i, j \in 1 .. Len(list) : j <= i => f[j] \in 1 .. f[i]
    BY <2>1, <2>2
  <2>5. Picks(f, list, due, list, d)
    BY <2>1, <2>3, <2>4 DEF Picks
  <2> QED
    BY <2>1, <2>5, OrderedPart
<1> QED
  BY <1>1, <1>2

LEMMA OrderedFewer ==
    ASSUME NEW b \in KernelState, NEW s, NEW now, Ordered(b.timers, b.due, now),
           Fewer(b, s)
    PROVE  Ordered(s.timers, s.due, now)
<1>1. b.timers \in Seq(Thread)
  BY DEF KernelState
<1>2. PICK t : s.timers = b.timers \/ s.timers = Without(b.timers, t)
  BY DEF Fewer
<1>3. PICK w : w = Without(b.timers, t)
  OBVIOUS
<1>4. w \in Seq(Thread)
  BY <1>1, <1>3, WithoutType
<1>5. \A x \in Range(s.timers) : s.due[x] = b.due[x]
  <2>1. \A x \in Range(s.timers) : x \in Thread
    BY <1>1, <1>2, <1>3, <1>4, RangeIs, ElementOfSeq
  <2> QED
    BY <2>1 DEF Fewer
<1>6. CASE s.timers = w
  BY <1>1, <1>3, <1>5, <1>6, OrderedWithout
<1>7. CASE s.timers = b.timers
  <2>1. Len(b.timers) \in Nat
    BY <1>1, LenProperties
  <2>2. \A i \in 1 .. Len(b.timers) : b.timers[i] \in Range(s.timers)
    BY <1>1, <1>7, RangeIs
  <2>3. PICK list, d : list = b.timers /\ d = s.due
    OBVIOUS
  <2>4. \A i \in 1 .. Len(list) : d[list[i]] = b.due[list[i]]
    BY <1>5, <2>2, <2>3
  <2>5. Ordered(list, b.due, now) /\ Len(list) \in Nat
    BY <2>1, <2>3
  <2>6. Ordered(list, d, now)
    BY <2>4, <2>5 DEF Ordered
  <2> QED
    BY <1>7, <2>3, <2>6
<1> QED
  BY <1>2, <1>3, <1>6, <1>7

(* A timer that fires is the first of the list.                            *)
LEMMA OrderedTail ==
    ASSUME NEW b \in KernelState, NEW now, Ordered(b.timers, b.due, now),
           b.timers # <<>>, Distinct(b.timers)
    PROVE  Ordered(Tail(b.timers), [b.due EXCEPT ![Head(b.timers)] = 0], now)
<1>1. b.timers \in Seq(Thread) /\ b.due \in [Thread -> Tick]
  BY DEF KernelState
<1>2. PICK list, u, h, d : /\ list = b.timers /\ u = Tail(list) /\ h = Head(list)
                           /\ d = [b.due EXCEPT ![h] = 0]
  OBVIOUS
<1>3. /\ Len(list) \in Nat /\ Len(list) > 0 /\ Len(u) = Len(list) - 1
      /\ \A i \in 1 .. Len(u) : u[i] = list[i + 1]
      /\ h = list[1]
  BY <1>1, <1>2, HeadTailProperties, LenProperties, EmptySeq
<1>4. PICK f : f = [j \in 1 .. Len(u) |-> j + 1]
  OBVIOUS
<1>5. \A j \in 1 .. Len(u) : f[j] \in 1 .. Len(list) /\ u[j] = list[f[j]]
  BY <1>3, <1>4
<1>6. \A j \in 1 .. Len(u) : u[j] \in Thread /\ u[j] # h
  <2> SUFFICES ASSUME NEW j \in 1 .. Len(u)
               PROVE  u[j] \in Thread /\ u[j] # h
    OBVIOUS
  <2>1. 1 \in 1 .. Len(list) /\ f[j] \in 1 .. Len(list) /\ f[j] # 1
    BY <1>3, <1>4, <1>5
  <2>2. list[f[j]] # list[1]
    BY <1>2, <2>1 DEF Distinct
  <2> QED
    BY <1>1, <1>2, <1>3, <1>5, <2>1, <2>2, ElementOfSeq
<1>7. \A j \in 1 .. Len(u) : f[j] \in 1 .. Len(list) /\ d[u[j]] = b.due[list[f[j]]]
  BY <1>1, <1>2, <1>5, <1>6
<1>8. \A i, j \in 1 .. Len(u) : j <= i => f[j] \in 1 .. f[i]
  BY <1>3, <1>4
<1>9. Len(u) \in Nat /\ Ordered(list, b.due, now)
  BY <1>2, <1>3
<1>10. Ordered(u, d, now)
  <2>1. Picks(f, list, b.due, u, d)
    BY <1>7, <1>8, <1>9 DEF Picks
  <2> QED
    BY <1>9, <2>1, OrderedPart
<1> QED
  BY <1>2, <1>10

(* rt_timer_start: the scan stops where the new timer belongs.             *)
LEMMA ScanFinds ==
    ASSUME NEW list \in Seq(Thread), NEW due \in [Thread -> Tick],
           NEW now \in Tick, Ordered(list, due, now),
           NEW n \in Nat, n < HalfTick, NEW when, when = (now + n) % TickMod,
           NEW at, at = TimerPlace(list, due, when)
    PROVE  /\ at \in 1 .. Len(list) + 1
           /\ \A i \in 1 .. Len(list) :
                 IF i < at THEN Minus(due[list[i]], now) <= n
                 ELSE n < Minus(due[list[i]], now)
<1> DEFINE later == {i \in 1 .. Len(list) :
                       /\ due[list[i]] # when
                       /\ Minus(due[list[i]], when) < HalfTick}
<1>1. Len(list) \in Nat
  BY LenProperties
<1>2. \A i \in 1 .. Len(list) : due[list[i]] \in Tick /\ Minus(due[list[i]], now) < HalfTick
  BY <1>1, ElementOfSeq DEF Ordered
<1>3. ASSUME NEW i \in 1 .. Len(list)
      PROVE  i \in later <=> n < Minus(due[list[i]], now)
  <2>1. PICK x \in Tick : x = due[list[i]] /\ Minus(x, now) < HalfTick
    BY <1>2
  <2>2. x # when /\ Minus(x, when) < HalfTick <=> n < Minus(x, now)
    BY <2>1, ScanIs
  <2> QED
    BY <2>1, <2>2
<1>4. ASSUME NEW i \in 1 .. Len(list)
      PROVE  Minus(due[list[i]], now) \in Int
  <2>1. Minus(due[list[i]], now) \in Tick
    BY <1>2, MinusIs
  <2> QED
    BY <2>1 DEF Tick
<1>5. at = IF later = {} THEN Len(list) + 1
           ELSE CHOOSE i \in later : \A j \in later : i <= j
  BY DEF TimerPlace
<1>6. later \subseteq 1 .. Len(list)
  OBVIOUS
<1> HIDE DEF later
<1>7. CASE later = {}
  <2>1. \A i \in 1 .. Len(list) : ~(n < Minus(due[list[i]], now))
    BY <1>3, <1>7
  <2> QED
    <3>1. at = Len(list) + 1
      BY <1>5, <1>7
    <3>2. \A i \in 1 .. Len(list) : i < at
      BY <1>1, <3>1
    <3> QED
      BY <1>1, <1>4, <2>1, <3>1, <3>2
<1>8. CASE later # {}
  <2>1. later \in SUBSET Nat
    BY <1>1, <1>6
  <2>2. at \in later /\ \A j \in later : at <= j
    <3>1. /\ (CHOOSE i \in later : \A j \in later : i <= j) \in later
          /\ \A m \in later : (CHOOSE i \in later : \A j \in later : i <= j) <= m
      BY <1>8, <2>1, LeastIn
    <3> QED
      BY <1>5, <1>8, <3>1
  <2>3. at \in 1 .. Len(list)
    BY <1>6, <2>2
  <2>4. ASSUME NEW i \in 1 .. Len(list), i < at
        PROVE  Minus(due[list[i]], now) <= n
    <3>1. i \notin later
      BY <1>1, <2>2, <2>3, <2>4
    <3> QED
      BY <1>3, <1>4, <3>1
  <2>5. ASSUME NEW i \in 1 .. Len(list), ~(i < at)
        PROVE  n < Minus(due[list[i]], now)
    <3>1. n < Minus(due[list[at]], now)
      BY <1>3, <2>2, <2>3
    <3>2. at \in 1 .. i
      BY <1>1, <2>3, <2>5
    <3>3. Minus(due[list[at]], now) <= Minus(due[list[i]], now)
      BY <3>2 DEF Ordered
    <3> QED
      BY <1>4, <2>3, <3>1, <3>3
  <2> QED
    BY <1>1, <2>3, <2>4, <2>5
<1> QED
  BY <1>7, <1>8

(* A timer that is put where the scan stops keeps the list ordered.        *)
LEMMA InsertOrders ==
    ASSUME NEW list \in Seq(Thread), NEW due \in [Thread -> Tick],
           NEW now \in Tick, Ordered(list, due, now),
           NEW n \in Nat, n < HalfTick, NEW when, when = (now + n) % TickMod,
           NEW t \in Thread, t \notin Range(list),
           NEW at, at = TimerPlace(list, due, when)
    PROVE  Ordered(InsertAt(list, at, t), [due EXCEPT ![t] = when], now)
<1>1. PICK u, d : u = InsertAt(list, at, t) /\ d = [due EXCEPT ![t] = when]
  OBVIOUS
<1>2. /\ at \in 1 .. Len(list) + 1
      /\ \A i \in 1 .. Len(list) :
            IF i < at THEN Minus(due[list[i]], now) <= n
            ELSE n < Minus(due[list[i]], now)
  BY ScanFinds
<1>3. Len(list) \in Nat
  BY LenProperties
<1>4. /\ Len(u) = Len(list) + 1
      /\ \A j \in 1 .. Len(list) + 1 :
            u[j] = IF j < at THEN list[j] ELSE IF j = at THEN t ELSE list[j - 1]
  BY <1>1, <1>2, InsertGives
<1>5. \A i \in 1 .. Len(list) : list[i] \in Thread /\ list[i] # t
  BY <1>3, RangeIs, ElementOfSeq
<1>6. PICK left : left = [i \in 1 .. Len(list) |-> Minus(due[list[i]], now)]
  OBVIOUS
<1>7. ASSUME NEW i \in 1 .. Len(list)
      PROVE  /\ left[i] \in Nat /\ left[i] < HalfTick
             /\ \A j \in 1 .. i : left[j] <= left[i]
             /\ i < at => left[i] <= n
             /\ ~(i < at) => n < left[i]
  <2>1. PICK x \in Tick : x = due[list[i]]
    BY <1>5
  <2>2. Minus(x, now) \in Tick
    BY <2>1, MinusIs
  <2>3. left[i] = Minus(x, now) /\ left[i] \in Nat
    BY <1>6, <2>1, <2>2, KernelAssumption DEF Tick
  <2>4. left[i] < HalfTick /\ \A j \in 1 .. i : left[j] <= left[i]
    BY <1>3, <1>6, <2>1, <2>3 DEF Ordered
  <2> QED
    BY <1>2, <1>6, <2>1, <2>3, <2>4
<1>8. PICK gap : gap = [j \in 1 .. Len(u) |->
                          IF j < at THEN left[j] ELSE IF j = at THEN n ELSE left[j - 1]]
  OBVIOUS
<1>9. \A j \in 1 .. Len(u) : Minus(d[u[j]], now) = gap[j]
  <2> SUFFICES ASSUME NEW j \in 1 .. Len(u)
               PROVE  Minus(d[u[j]], now) = gap[j]
    OBVIOUS
  <2>1. CASE j < at
    <3>1. j \in 1 .. Len(list) /\ u[j] = list[j] /\ gap[j] = left[j]
      BY <1>2, <1>3, <1>4, <1>8, <2>1
    <3>2. d[u[j]] = due[list[j]]
      BY <1>1, <1>5, <3>1
    <3> QED
      BY <1>6, <3>1, <3>2
  <2>2. CASE j = at
    <3>1. u[j] = t /\ gap[j] = n
      BY <1>2, <1>3, <1>4, <1>8, <2>2
    <3>2. d[u[j]] = when
      BY <1>1, <3>1
    <3>3. PICK x \in Tick : x = now
      OBVIOUS
    <3>4. Minus(x, now) < HalfTick
      BY <3>3, MinusIs, HalfIs, KernelAssumption DEF Tick
    <3>5. Minus(when, now) = n
      BY <3>3, <3>4, ScanIs
    <3> QED
      BY <3>1, <3>2, <3>5
  <2>3. CASE j > at
    <3>1. PICK i \in 1 .. Len(list) : i = j - 1
      BY <1>2, <1>3, <1>4, <2>3
    <3>2. u[j] = list[i] /\ gap[j] = left[i]
      BY <1>2, <1>3, <1>4, <1>8, <2>3, <3>1
    <3>3. d[u[j]] = due[list[i]]
      BY <1>1, <1>5, <3>2
    <3> QED
      BY <1>6, <3>2, <3>3
  <2> QED
    BY <1>2, <1>3, <1>4, <2>1, <2>2, <2>3
<1>10. HalfTick \in Nat
  BY HalfIs
<1>11. ASSUME NEW i \in 1 .. Len(u)
       PROVE  /\ gap[i] < HalfTick
              /\ \A j \in 1 .. i : j \in 1 .. Len(u) /\ gap[j] <= gap[i]
  <2>1. gap[i] < HalfTick
    BY <1>2, <1>3, <1>4, <1>7, <1>8
  <2>2. ASSUME NEW j \in 1 .. i
        PROVE  gap[j] <= gap[i]
    <3>0. j \in 1 .. Len(u) /\ j <= i
      BY <1>3, <1>4
    <3>1. CASE i < at
      <4>1. i \in 1 .. Len(list) /\ gap[i] = left[i] /\ gap[j] = left[j]
        BY <1>2, <1>3, <1>4, <1>8, <3>0, <3>1
      <4> QED
        BY <1>7, <4>1
    <3>2. CASE i = at
      <4>1. gap[i] = n
        BY <1>8, <3>2
      <4>2. CASE j = i
        BY <4>1, <4>2
      <4>3. CASE j < i
        <5>1. j \in 1 .. Len(list) /\ j < at /\ gap[j] = left[j]
          BY <1>2, <1>3, <1>4, <1>8, <3>0, <3>2, <4>3
        <5> QED
          BY <1>7, <4>1, <5>1
      <4> QED
        BY <3>0, <4>2, <4>3
    <3>3. CASE i > at
      <4>1. PICK x \in 1 .. Len(list) : x = i - 1
        BY <1>2, <1>3, <1>4, <3>3
      <4>2. gap[i] = left[x] /\ ~(x < at) /\ left[x] \in Nat /\ n < left[x]
        BY <1>2, <1>3, <1>4, <1>7, <1>8, <3>3, <4>1
      <4>3. CASE j < at
        <5>1. j \in 1 .. x /\ gap[j] = left[j]
          BY <1>2, <1>3, <1>4, <1>8, <3>0, <3>3, <4>1, <4>3
        <5> QED
          BY <1>7, <4>2, <5>1
      <4>4. CASE j = at
        <5>1. gap[j] = n
          BY <1>8, <3>0, <4>4
        <5> QED
          BY <4>2, <5>1
      <4>5. CASE j > at
        <5>1. PICK y \in 1 .. x : y = j - 1
          BY <1>2, <1>3, <1>4, <3>0, <3>3, <4>1, <4>5
        <5>2. gap[j] = left[y]
          BY <1>2, <1>3, <1>8, <3>0, <4>5, <5>1
        <5> QED
          BY <1>7, <4>2, <5>2
      <4> QED
        BY <1>2, <1>3, <3>0, <4>3, <4>4, <4>5
    <3> QED
      BY <1>2, <1>3, <1>4, <3>1, <3>2, <3>3
  <2> QED
    BY <1>3, <1>4, <2>1, <2>2
<1>12. Ordered(u, d, now)
  BY <1>9, <1>11 DEF Ordered
<1> QED
  BY <1>1, <1>12

LEMMA OrderedArms ==
    ASSUME NEW b \in KernelState, Ordered(b.timers, b.due, b.tick), NEW s,
           NEW t \in Thread, NEW n \in Nat, n < HalfTick, Arms(b, s, t, n)
    PROVE  Ordered(s.timers, s.due, s.tick)
<1>1. b.timers \in Seq(Thread) /\ b.due \in [Thread -> Tick] /\ b.tick \in Tick
  BY DEF KernelState
<1>2. PICK list, d, now : list = b.timers /\ d = [b.due EXCEPT ![t] = 0] /\ now = b.tick
  OBVIOUS
<1>3. 0 \in Tick
  BY KernelAssumption DEF Tick
<1>4. list \in Seq(Thread) /\ d \in [Thread -> Tick] /\ now \in Tick
  BY <1>1, <1>2, <1>3
<1>5. t \notin Range(list)
  BY <1>2 DEF Arms
<1>6. Len(list) \in Nat
  BY <1>4, LenProperties
<1>7. \A i \in 1 .. Len(list) : list[i] \in Thread /\ list[i] # t
  BY <1>4, <1>5, <1>6, RangeIs, ElementOfSeq
<1>8. \A i \in 1 .. Len(list) : d[list[i]] = b.due[list[i]]
  BY <1>1, <1>2, <1>7
<1>9. Ordered(list, b.due, now)
  BY <1>2
<1>10. Ordered(list, d, now)
  BY <1>6, <1>8, <1>9 DEF Ordered
<1>11. PICK when : when = Later(b, n)
  OBVIOUS
<1>12. when = (now + n) % TickMod
  BY <1>2, <1>11 DEF Later
<1>13. PICK at : at = TimerPlace(list, d, when)
  OBVIOUS
<1>14. Ordered(InsertAt(list, at, t), [d EXCEPT ![t] = when], now)
  BY <1>4, <1>5, <1>10, <1>12, <1>13, InsertOrders
<1>15. [d EXCEPT ![t] = when] = [b.due EXCEPT ![t] = when]
  BY <1>1, <1>2
<1> QED
  BY <1>2, <1>11, <1>13, <1>14, <1>15 DEF Arms

(* rt_timer_check ends when the first timer has not expired: none has then,*)
(* so they all have one tick less than when the interrupt came.            *)
LEMMA OrderedReturn ==
    ASSUME NEW b \in KernelState, Ordered(b.timers, b.due, Minus(b.tick, 1)),
           ~TimerExpired(b)
    PROVE  Ordered(b.timers, b.due, b.tick)
<1>1. b.timers \in Seq(Thread) /\ b.due \in [Thread -> Tick] /\ b.tick \in Tick
  BY DEF KernelState
<1>2. PICK list, due, next, now : /\ list = b.timers /\ due = b.due
                                  /\ next = b.tick /\ now = Minus(next, 1)
  OBVIOUS
<1>3. list \in Seq(Thread) /\ due \in [Thread -> Tick] /\ next \in Tick /\ now \in Tick
  BY <1>1, <1>2, NextTick
<1>4. Ordered(list, due, now) /\ Len(list) \in Nat
  BY <1>2, <1>3, LenProperties
<1>5. ASSUME NEW i \in 1 .. Len(list)
      PROVE  /\ Minus(due[list[i]], now) \in Nat
             /\ Minus(due[list[i]], next) \in Nat
             /\ Minus(due[list[i]], now) < HalfTick
             /\ Minus(due[list[i]], next) = Minus(due[list[i]], now) - 1
  <2>1. PICK x \in Tick : x = due[list[i]]
    BY <1>3, <1>4, ElementOfSeq
  <2>2. PICK h \in Tick : h = due[list[1]]
    BY <1>3, <1>4, ElementOfSeq
  <2>3. 1 \in 1 .. i /\ 1 \in 1 .. Len(list) /\ list # <<>>
    BY <1>3, <1>4, EmptySeq
  <2>4. Minus(h, now) < HalfTick /\ Minus(x, now) < HalfTick /\ Minus(h, now) <= Minus(x, now)
    BY <1>4, <2>1, <2>2, <2>3 DEF Ordered
  <2>5. ~(Minus(next, h) < HalfTick)
    <3>1. Head(list) = list[1]
      BY <1>3, <2>3, HeadTailProperties
    <3> QED
      BY <1>2, <2>2, <2>3, <3>1 DEF TimerExpired
  <2>6. Minus(h, now) >= 2
    BY <1>2, <1>3, <2>4, <2>5, TickIs
  <2>7. /\ Minus(h, now) \in Tick /\ Minus(x, now) \in Tick /\ Minus(x, next) \in Tick
    BY <1>3, MinusIs
  <2>8. /\ Minus(h, now) \in Nat /\ Minus(x, now) \in Nat /\ Minus(x, next) \in Nat
    BY <2>7, KernelAssumption DEF Tick
  <2>9. Minus(x, now) > 0
    BY <2>4, <2>6, <2>8
  <2>10. Minus(x, next) = Minus(x, now) - 1
    BY <1>2, <1>3, <2>4, <2>9, TickIs
  <2> QED
    BY <2>1, <2>4, <2>8, <2>10
<1>6. ASSUME NEW i \in 1 .. Len(list), NEW j \in 1 .. i
      PROVE  Minus(due[list[j]], next) <= Minus(due[list[i]], next)
  <2>1. j \in 1 .. Len(list)
    BY <1>4
  <2>2. Minus(due[list[j]], now) <= Minus(due[list[i]], now)
    BY <1>4 DEF Ordered
  <2> QED
    BY <1>5, <2>1, <2>2
<1>7. \A i \in 1 .. Len(list) : Minus(due[list[i]], next) < HalfTick
  BY <1>5, HalfIs
<1>8. Ordered(list, due, next)
  BY <1>6, <1>7 DEF Ordered
<1> QED
  BY <1>2, <1>8

(* A timer that rt_timer_check finds expired is due now, or was due at the *)
(* tick before: a timer that was set for no tick at all.                   *)
LEMMA FiresInTime ==
    ASSUME NEW b \in KernelState, Ordered(b.timers, b.due, Minus(b.tick, 1)),
           TimerExpired(b)
    PROVE  Minus(b.tick, b.due[Head(b.timers)]) <= 1
<1>1. b.timers \in Seq(Thread) /\ b.due \in [Thread -> Tick] /\ b.tick \in Tick
  BY DEF KernelState
<1>2. b.timers # <<>> /\ Len(b.timers) \in Nat /\ Len(b.timers) > 0
  BY <1>1, LenProperties, EmptySeq DEF TimerExpired
<1>3. Head(b.timers) = b.timers[1] /\ 1 \in 1 .. Len(b.timers) /\ b.timers[1] \in Thread
  BY <1>1, <1>2, HeadTailProperties, ElementOfSeq
<1>4. PICK x \in Tick : x = b.due[Head(b.timers)]
  BY <1>1, <1>3
<1>5. PICK next \in Tick, now \in Tick : next = b.tick /\ now = Minus(next, 1)
  BY <1>1, NextTick
<1>6. Minus(x, now) < HalfTick
  BY <1>3, <1>4, <1>5 DEF Ordered
<1>7. Minus(next, x) < HalfTick
  BY <1>4, <1>5 DEF TimerExpired
<1> QED
  BY <1>4, <1>5, <1>6, <1>7, TickIs

-----------------------------------------------------------------------------
(* What rt_schedule does to the states: with the scheduler unlocked, no    *)
(* ready thread is left with a higher priority than the one that runs.     *)
Top(s) ==
    \A t \in Thread : s.stat[t] = "READY" => s.prio[s.cur] <= s.prio[t]

LEMMA HighestIsLeast ==
    ASSUME NEW b, Sound(b), b.group # {}, NEW h, h = HighestReady(b)
    PROVE  /\ h \in Prio
           /\ Head(b.ready[h]) \in Thread
           /\ b.stat[Head(b.ready[h])] = "READY" /\ b.prio[Head(b.ready[h])] = h
           /\ \A t \in Thread : b.stat[t] = "READY" => h <= b.prio[t]
<1>1. /\ b \in KernelState /\ b.group \in SUBSET Nat /\ b.group \in SUBSET Prio
      /\ b.group = {p \in Prio : b.ready[p] # <<>>}
      /\ \A p \in Prio, t \in Thread :
            t \in Range(b.ready[p]) <=> b.stat[t] = "READY" /\ b.prio[t] = p
  BY KernelAssumption DEF Sound, Linked, ReadyAgrees, Prio
<1>2. h \in b.group /\ \A p \in b.group : h <= p
  BY <1>1, LeastIn DEF HighestReady
<1>3. h \in Prio /\ b.ready[h] # <<>> /\ b.ready[h] \in Seq(Thread)
  BY <1>1, <1>2 DEF KernelState
<1>4. Head(b.ready[h]) \in Range(b.ready[h]) /\ Head(b.ready[h]) \in Thread
  BY <1>3, HeadIn
<1>5. ASSUME NEW t \in Thread, b.stat[t] = "READY"
      PROVE  h <= b.prio[t]
  <2>1. /\ b.prio[t] \in Prio /\ t \in Range(b.ready[b.prio[t]])
        /\ b.ready[b.prio[t]] \in Seq(Thread)
    BY <1>1, <1>5 DEF KernelState
  <2>2. b.ready[b.prio[t]] # <<>>
    BY <2>1, EmptyRange
  <2> QED
    BY <1>1, <1>2, <2>1, <2>2
<1> QED
  BY <1>1, <1>3, <1>4, <1>5

LEMMA SwitchStates ==
    ASSUME NEW b, Sound(b), NEW to \in Thread, b.stat[to] = "READY",
           NEW s, s = SwitchTo(b, to)
    PROVE  /\ s.cur = to /\ s.stat[to] = "RUNNING"
           /\ \A u \in Thread \ {to, b.cur} : s.stat[u] = b.stat[u]
           /\ \A u \in Thread : s.stat[u] = "INIT" <=> b.stat[u] = "INIT"
           /\ s.stat[b.cur] = "READY" => b.stat[b.cur] = "RUNNING"
<1>1. PICK q : q = Requeue(b, to)
  OBVIOUS
<1> DEFINE r == RemoveThread(q, to)
<1>2. /\ Linked(q) /\ q.cur = to
      /\ \A u \in Thread :
            /\ q.stat[u] # "RUNNING"
            /\ u # b.cur => q.stat[u] = b.stat[u]
            /\ q.stat[u] = "SUSPEND" <=> b.stat[u] = "SUSPEND"
            /\ q.stat[u] = "INIT" <=> b.stat[u] = "INIT"
  BY <1>1, RequeueLinks
<1>3. /\ r = [q EXCEPT !.ready = r.ready, !.wait = r.wait, !.group = r.group]
      /\ r \in KernelState /\ q \in KernelState
  <2>1. Linked(q)
    BY <1>2
  <2>2. /\ Detached(r, to)
        /\ r = [q EXCEPT !.ready = r.ready, !.wait = r.wait, !.group = r.group]
    BY <2>1, RemoveDetaches
  <2> HIDE DEF r
  <2> QED
    BY <2>1, <2>2 DEF Linked, Detached
<1>4. s = [r EXCEPT !.stat[to] = "RUNNING"]
  BY <1>1 DEF SwitchTo
<1> HIDE DEF r
<1>5. r.stat = q.stat /\ r.cur = to /\ r.stat \in [Thread -> Stat]
  BY <1>2, <1>3 DEF KernelState
<1>6. s.cur = to /\ s.stat = [q.stat EXCEPT ![to] = "RUNNING"]
  BY <1>3, <1>4, <1>5 DEF KernelState
<1>7. /\ s.stat[to] = "RUNNING"
      /\ \A u \in Thread \ {to} : s.stat[u] = q.stat[u]
  BY <1>5, <1>6
<1>8. b.stat[b.cur] \in {"RUNNING", "SUSPEND"} /\ b.cur \in Thread
  BY DEF Sound, Linked, KernelState, OneRuns
<1>9. \A u \in Thread : s.stat[u] = "INIT" <=> b.stat[u] = "INIT"
  BY <1>2, <1>7
<1> QED
  BY <1>2, <1>6, <1>7, <1>8, <1>9

LEMMA ScheduleTop ==
    ASSUME NEW b, Sound(b), NEW s, s = Schedule(b)
    PROVE  /\ b.lock = 0 => Top(s)
           /\ \A u \in Thread : s.stat[u] = "INIT" <=> b.stat[u] = "INIT"
           /\ \A u \in Thread : s.stat[u] = "READY" =>
                 b.stat[u] = "READY" \/ (u = b.cur /\ b.stat[u] = "RUNNING")
<1>1. /\ b.cur \in Thread /\ b.stat[b.cur] \in {"RUNNING", "SUSPEND"}
      /\ b \in KernelState /\ \A u \in Thread : b.prio[u] \in Nat
  <2>1. /\ b.cur \in Thread /\ b.stat[b.cur] \in {"RUNNING", "SUSPEND"}
        /\ b \in KernelState /\ b.prio \in [Thread -> Prio]
    BY DEF Sound, Linked, OneRuns, KernelState
  <2>2. Prio \subseteq Nat
    BY KernelAssumption DEF Prio
  <2> QED
    BY <2>1, <2>2
<1>2. s.prio = b.prio
  BY ScheduleSteady DEF Steady
<1>3. CASE b.lock # 0
  BY <1>3 DEF Schedule
<1>4. CASE b.group = {}
  <2>1. s = b
    BY <1>4 DEF Schedule
  <2>2. ASSUME NEW t \in Thread, b.stat[t] = "READY"
        PROVE  FALSE
    <3>1. /\ b.prio[t] \in Prio /\ t \in Range(b.ready[b.prio[t]])
          /\ b.ready[b.prio[t]] \in Seq(Thread)
      BY <1>1, <2>2 DEF Sound, Linked, ReadyAgrees, KernelState
    <3>2. b.ready[b.prio[t]] # <<>>
      BY <3>1, EmptyRange
    <3> QED
      BY <1>4, <3>1, <3>2 DEF Sound, Linked, ReadyAgrees
  <2> QED
    BY <2>1, <2>2 DEF Top
<1>5. CASE b.lock = 0 /\ b.group # {}
  <2>1. PICK h : h = HighestReady(b)
    OBVIOUS
  <2>2. /\ h \in Nat
        /\ Head(b.ready[h]) \in Thread
        /\ b.stat[Head(b.ready[h])] = "READY" /\ b.prio[Head(b.ready[h])] = h
        /\ \A t \in Thread : b.stat[t] = "READY" => h <= b.prio[t]
    BY <1>5, <2>1, HighestIsLeast, KernelAssumption DEF Prio
  <2>3. CASE KeepsCpu(b)
    <3>1. s = [RemoveThread(b, b.cur) EXCEPT !.yield[b.cur] = FALSE]
      BY <1>5, <2>3 DEF Schedule
    <3>2. b.stat[b.cur] = "RUNNING" /\ b.prio[b.cur] <= h
      BY <1>1, <2>1, <2>2, <2>3 DEF KeepsCpu
    <3>3. s.cur = b.cur /\ s.stat = b.stat
      BY <1>1, <3>1, <3>2, KeepWakes
    <3>4. Top(s)
      BY <1>1, <1>2, <2>2, <3>2, <3>3 DEF Top
    <3> QED
      BY <3>3, <3>4
  <2>4. CASE ~KeepsCpu(b)
    <3>1. PICK to : to = Head(b.ready[h])
      OBVIOUS
    <3>2. s = SwitchTo(b, to) /\ to \in Thread /\ b.stat[to] = "READY" /\ b.prio[to] = h
      BY <1>5, <2>1, <2>2, <2>4, <3>1 DEF Schedule
    <3>3. /\ s.cur = to /\ s.stat[to] = "RUNNING"
          /\ \A u \in Thread \ {to, b.cur} : s.stat[u] = b.stat[u]
          /\ \A u \in Thread : s.stat[u] = "INIT" <=> b.stat[u] = "INIT"
          /\ s.stat[b.cur] = "READY" => b.stat[b.cur] = "RUNNING"
      BY <3>2, SwitchStates
    <3>4. ASSUME NEW t \in Thread, s.stat[t] = "READY"
          PROVE  /\ b.stat[t] = "READY" \/ (t = b.cur /\ b.stat[t] = "RUNNING")
                 /\ h <= b.prio[t]
      <4>1. t # to
        BY <3>3, <3>4
      <4>2. CASE t = b.cur
        <5>1. b.stat[t] = "RUNNING"
          BY <3>3, <3>4, <4>2
        <5>2. ~(b.prio[b.cur] < h)
          BY <2>1, <2>4, <4>2, <5>1 DEF KeepsCpu
        <5> QED
          BY <1>1, <2>2, <4>2, <5>1, <5>2
      <4>3. CASE t # b.cur
        <5>1. b.stat[t] = "READY"
          BY <3>3, <3>4, <4>1, <4>3
        <5> QED
          BY <2>2, <5>1
      <4> QED
        BY <4>2, <4>3
    <3>5. Top(s)
      BY <1>2, <3>2, <3>3, <3>4 DEF Top
    <3> QED
      BY <3>3, <3>4, <3>5
  <2> QED
    BY <2>3, <2>4
<1> QED
  BY <1>3, <1>4, <1>5

-----------------------------------------------------------------------------
(* What the operations do to the order of the suspend lists, as far as the *)
(* threads in them have the priorities they were started with.             *)

InOrder(s) ==
    \A i, j \in 1 .. Len(s) : i <= j => InitPrio[s[i]] <= InitPrio[s[j]]

ListsInOrder(b) == \A o \in Object : InOrder(b.wait[o])

(* rt_thread_init has made the thread and rt_thread_startup has not        *)
(* started it, or it is closed.                                            *)
Dormant(b, t) == b.stat[t] \in {"INIT", "CLOSE"}

(* The lists stay in their order, and no thread that was started becomes   *)
(* dormant.                                                                *)
Settles(b, s) ==
    /\ \A t \in Thread : Dormant(s, t) => Dormant(b, t)
    /\ ListsInOrder(b) => ListsInOrder(s)

(* t stands before u in the list s.                                        *)
Before(s, t, u) == \E i, j \in 1 .. Len(s) : i < j /\ s[i] = t /\ s[j] = u

(* Besides, nobody is put before another: threads may leave the lists.     *)
Thins(b, s) ==
    /\ Settles(b, s)
    /\ \A o \in Object, t, u \in Thread :
          Before(s.wait[o], t, u) => Before(b.wait[o], t, u)

LEMMA InOrderWithout ==
    ASSUME NEW s \in Seq(Thread), InOrder(s), NEW t
    PROVE  InOrder(Without(s, t))
<1>1. Len(s) \in Nat
  BY LenProperties
<1>2. CASE \E i \in 1 .. Len(s) : s[i] = t
  <2> DEFINE at == CHOOSE i \in 1 .. Len(s) : s[i] = t
  <2>1. at \in 1 .. Len(s) /\ Without(s, t) = RemoveAt(s, at)
    BY <1>2 DEF Without
  <2> HIDE DEF at
  <2>2. PICK u : u = RemoveAt(s, at)
    OBVIOUS
  <2>3. /\ Len(u) = Len(s) - 1
        /\ \A j \in 1 .. Len(s) - 1 : u[j] = IF j < at THEN s[j] ELSE s[j + 1]
    BY <2>1, <2>2, RemoveAtProperties
  <2>4. ASSUME NEW i \in 1 .. Len(u), NEW j \in 1 .. Len(u), i <= j
        PROVE  InitPrio[u[i]] <= InitPrio[u[j]]
    <3>1. PICK a \in 1 .. Len(s) : u[i] = s[a] /\ (IF i < at THEN a = i ELSE a = i + 1)
      BY <1>1, <2>1, <2>3
    <3>2. PICK c \in 1 .. Len(s) : u[j] = s[c] /\ (IF j < at THEN c = j ELSE c = j + 1)
      BY <1>1, <2>1, <2>3
    <3>3. a <= c
      BY <1>1, <2>1, <2>3, <2>4, <3>1, <3>2
    <3> QED
      BY <3>1, <3>2, <3>3 DEF InOrder
  <2> QED
    BY <2>1, <2>2, <2>4 DEF InOrder
<1>3. CASE ~ \E i \in 1 .. Len(s) : s[i] = t
  BY <1>3 DEF Without
<1> QED
  BY <1>2, <1>3

(* The order of the others is that of the list before, and no other.       *)
LEMMA BeforeWithout ==
    ASSUME NEW s \in Seq(Thread), NEW t, NEW x, NEW y
    PROVE  /\ Before(Without(s, t), x, y) => Before(s, x, y)
           /\ Before(s, x, y) /\ x # t /\ y # t => Before(Without(s, t), x, y)
<1>1. Len(s) \in Nat
  BY LenProperties
<1>2. CASE \E i \in 1 .. Len(s) : s[i] = t
  <2> DEFINE at == CHOOSE i \in 1 .. Len(s) : s[i] = t
  <2>1. at \in 1 .. Len(s) /\ s[at] = t /\ Without(s, t) = RemoveAt(s, at)
    BY <1>2 DEF Without
  <2> HIDE DEF at
  <2>2. PICK u : u = RemoveAt(s, at)
    OBVIOUS
  <2>3. /\ Len(u) = Len(s) - 1
        /\ \A j \in 1 .. Len(s) - 1 : u[j] = IF j < at THEN s[j] ELSE s[j + 1]
    BY <2>1, <2>2, RemoveAtProperties
  <2>4. ASSUME Before(u, x, y)
        PROVE  Before(s, x, y)
    <3>1. PICK i, j \in 1 .. Len(u) : i < j /\ u[i] = x /\ u[j] = y
      BY <2>4 DEF Before
    <3>2. PICK a \in 1 .. Len(s) : u[i] = s[a] /\ (IF i < at THEN a = i ELSE a = i + 1)
      BY <1>1, <2>1, <2>3
    <3>3. PICK c \in 1 .. Len(s) : u[j] = s[c] /\ (IF j < at THEN c = j ELSE c = j + 1)
      BY <1>1, <2>1, <2>3
    <3>4. a < c
      BY <1>1, <2>1, <2>3, <3>1, <3>2, <3>3
    <3> QED
      BY <3>1, <3>2, <3>3, <3>4 DEF Before
  <2>5. ASSUME Before(s, x, y), x # t, y # t
        PROVE  Before(u, x, y)
    <3>1. PICK i, j \in 1 .. Len(s) : i < j /\ s[i] = x /\ s[j] = y
      BY <2>5 DEF Before
    <3>2. i # at /\ j # at
      BY <2>1, <2>5, <3>1
    <3>3. PICK a \in 1 .. Len(u) : u[a] = s[i] /\ (IF i < at THEN a = i ELSE a = i - 1)
      <4>1. CASE i < at
        BY <1>1, <2>1, <2>3, <4>1
      <4>2. CASE i > at
        <5>1. PICK a \in 1 .. Len(u) : a = i - 1
          BY <1>1, <2>1, <2>3, <4>2
        <5>2. ~(a < at) /\ a + 1 = i /\ ~(i < at)
          BY <1>1, <2>1, <2>3, <4>2, <5>1
        <5>3. u[a] = s[i]
          BY <1>1, <2>3, <5>1, <5>2
        <5> QED
          BY <5>1, <5>2, <5>3
      <4> QED
        BY <2>1, <3>2, <4>1, <4>2
    <3>4. PICK c \in 1 .. Len(u) : u[c] = s[j] /\ (IF j < at THEN c = j ELSE c = j - 1)
      <4>1. CASE j < at
        BY <1>1, <2>1, <2>3, <4>1
      <4>2. CASE j > at
        <5>1. PICK c \in 1 .. Len(u) : c = j - 1
          BY <1>1, <2>1, <2>3, <4>2
        <5>2. ~(c < at) /\ c + 1 = j /\ ~(j < at)
          BY <1>1, <2>1, <2>3, <4>2, <5>1
        <5>3. u[c] = s[j]
          BY <1>1, <2>3, <5>1, <5>2
        <5> QED
          BY <5>1, <5>2, <5>3
      <4> QED
        BY <2>1, <3>2, <4>1, <4>2
    <3>5. a < c
      BY <1>1, <2>1, <2>3, <3>1, <3>2, <3>3, <3>4
    <3> QED
      BY <3>1, <3>3, <3>4, <3>5 DEF Before
  <2> QED
    BY <2>1, <2>2, <2>4, <2>5
<1>3. CASE ~ \E i \in 1 .. Len(s) : s[i] = t
  BY <1>3 DEF Without
<1> QED
  BY <1>2, <1>3

LEMMA ThinsSame ==
    ASSUME NEW b, NEW s, s.wait = b.wait,
           \A t \in Thread : Dormant(s, t) => Dormant(b, t)
    PROVE  Thins(b, s)
BY DEF Thins, Settles, ListsInOrder

LEMMA ThinsTransitive ==
    ASSUME NEW b, NEW s, NEW z, Thins(b, s), Thins(s, z)
    PROVE  Thins(b, z)
BY DEF Thins, Settles

LEMMA WithoutThins ==
    ASSUME NEW b \in KernelState, NEW s, NEW t,
           \A o \in Object : s.wait[o] = Without(b.wait[o], t),
           \A u \in Thread : Dormant(s, u) => Dormant(b, u)
    PROVE  Thins(b, s)
<1>1. \A o \in Object : b.wait[o] \in Seq(Thread)
  BY DEF KernelState
<1>2. ASSUME ListsInOrder(b), NEW o \in Object
      PROVE  InOrder(s.wait[o])
  <2>1. InOrder(b.wait[o])
    BY <1>2 DEF ListsInOrder
  <2>2. InOrder(Without(b.wait[o], t))
    BY <1>1, <2>1, InOrderWithout
  <2> QED
    BY <2>2
<1>3. ASSUME NEW o \in Object, NEW x \in Thread, NEW y \in Thread,
             Before(s.wait[o], x, y)
      PROVE  Before(b.wait[o], x, y)
  BY <1>1, <1>3, BeforeWithout
<1> QED
  BY <1>2, <1>3 DEF Thins, Settles, ListsInOrder

LEMMA UnlinkThins ==
    ASSUME NEW b \in KernelState, NEW t \in Thread
    PROVE  Thins(b, Unlink(b, t)) /\ Unlink(b, t).stat = b.stat
<1> DEFINE u == Unlink(b, t)
<1>1. u.stat = b.stat /\ \A o \in Object : u.wait[o] = Without(b.wait[o], t)
  BY DEF Unlink, KernelState
<1> HIDE DEF u
<1>2. Thins(b, u)
  BY <1>1, WithoutThins DEF Dormant
<1> QED
  BY <1>1, <1>2 DEF u

LEMMA RemoveThins ==
    ASSUME NEW b \in KernelState, NEW t \in Thread
    PROVE  Thins(b, RemoveThread(b, t)) /\ RemoveThread(b, t).stat = b.stat
<1> DEFINE r == RemoveThread(b, t)
<1>1. r.stat = b.stat /\ \A o \in Object : r.wait[o] = Without(b.wait[o], t)
  BY DEF RemoveThread, Unlink, KernelState
<1> HIDE DEF r
<1>2. Thins(b, r)
  BY <1>1, WithoutThins DEF Dormant
<1> QED
  BY <1>1, <1>2 DEF r

LEMMA InsertThins ==
    ASSUME NEW b \in KernelState, NEW t \in Thread
    PROVE  Thins(b, InsertThread(b, t))
<1> DEFINE s == InsertThread(b, t)
<1>1. /\ s.wait = b.wait
      /\ s.stat \in {[b.stat EXCEPT ![t] = "RUNNING"], [b.stat EXCEPT ![t] = "READY"]}
  BY DEF InsertThread, KernelState
<1> HIDE DEF s
<1>2. \A u \in Thread : Dormant(s, u) => Dormant(b, u)
  BY <1>1 DEF KernelState, Dormant
<1>3. Thins(b, s)
  BY <1>1, <1>2, ThinsSame
<1> QED
  BY <1>3 DEF s

LEMMA RequeueThins ==
    ASSUME NEW b, Sound(b), NEW to \in Thread, b.stat[to] = "READY",
           NEW q, q = Requeue(b, to)
    PROVE  Thins(b, q)
<1>1. q.wait = b.wait /\ \A t \in Thread : Dormant(q, t) => Dormant(b, t)
  BY RequeueLinks DEF Dormant
<1> QED
  BY <1>1, ThinsSame

(* rt_schedule: the thread that runs next is taken off its ready list.     *)
LEMMA ScheduleThins ==
    ASSUME NEW b, Sound(b)
    PROVE  Thins(b, Schedule(b))
<1>1. b \in KernelState /\ b.cur \in Thread
  BY DEF Sound, Linked, KernelState
<1>2. CASE b.lock # 0 \/ b.group = {}
  BY <1>2, ThinsSame DEF Schedule
<1>3. CASE ~(b.lock # 0 \/ b.group = {}) /\ KeepsCpu(b)
  <2>1. PICK r : r = RemoveThread(b, b.cur)
    OBVIOUS
  <2>2. Thins(b, r) /\ r \in KernelState
    BY <1>1, <2>1, RemoveThins, RemoveDetaches DEF Detached, Sound
  <2>3. Schedule(b) = [r EXCEPT !.yield[b.cur] = FALSE]
    BY <1>3, <2>1 DEF Schedule
  <2>4. PICK z : z = Schedule(b)
    OBVIOUS
  <2>5. z.wait = r.wait /\ z.stat = r.stat
    BY <2>2, <2>3, <2>4 DEF KernelState
  <2>6. Thins(r, z)
    BY <2>5, ThinsSame DEF Dormant
  <2> QED
    BY <2>2, <2>4, <2>6, ThinsTransitive
<1>4. CASE ~(b.lock # 0 \/ b.group = {}) /\ ~KeepsCpu(b)
  <2>1. PICK to : to = Head(b.ready[HighestReady(b)])
    OBVIOUS
  <2>2. to \in Thread /\ b.stat[to] = "READY"
    BY <1>4, <2>1, HighestIsReady
  <2>3. PICK q : q = Requeue(b, to)
    OBVIOUS
  <2>4. Thins(b, q) /\ Linked(q)
    BY <1>1, <2>2, <2>3, RequeueThins, RequeueLinks
  <2>5. PICK r : r = RemoveThread(q, to)
    OBVIOUS
  <2>6. Thins(q, r) /\ r \in KernelState
    BY <2>2, <2>4, <2>5, RemoveThins, RemoveDetaches DEF Detached, Linked
  <2>7. PICK z : z = Schedule(b)
    OBVIOUS
  <2>8. z = [r EXCEPT !.stat[to] = "RUNNING"]
    BY <1>4, <2>1, <2>3, <2>5, <2>7 DEF Schedule, SwitchTo
  <2>9. z.wait = r.wait /\ \A t \in Thread : Dormant(z, t) => Dormant(r, t)
    BY <2>6, <2>8 DEF KernelState, Dormant
  <2>10. Thins(r, z)
    BY <2>9, ThinsSame
  <2>11. Thins(b, r)
    BY <2>4, <2>6, ThinsTransitive
  <2> QED
    BY <2>7, <2>10, <2>11, ThinsTransitive
<1> QED
  BY <1>2, <1>3, <1>4

(* rt_thread_resume of a thread that waits.                                *)
LEMMA ResumeThins ==
    ASSUME NEW b \in KernelState,
           \A p \in Prio : Distinct(b.ready[p]),
           \A o \in Object : Distinct(b.wait[o]),
           Distinct(b.timers),
           NEW t \in Thread
    PROVE  Thins(b, ThreadResume(b, t))
<1>1. CASE b.stat[t] # "SUSPEND"
  BY <1>1, ThinsSame DEF ThreadResume
<1>2. CASE b.stat[t] = "SUSPEND"
  <2>1. PICK u : u = Unlink(b, t)
    OBVIOUS
  <2>2. u \in KernelState /\ Thins(b, u) /\ u.timers = b.timers
    BY <2>1, UnlinkKeeps, UnlinkThins, UnlinkSteady DEF Steady
  <2>3. PICK s : s = TimerStop(u, t)
    OBVIOUS
  <2>4. s \in KernelState
    BY <2>2, <2>3, TimerStopKeeps
  <2>5. s.wait = u.wait /\ s.stat = u.stat
    BY <2>2, <2>3 DEF TimerStop, KernelState
  <2>6. Thins(u, s)
    BY <2>5, ThinsSame DEF Dormant
  <2>7. Thins(s, InsertThread(s, t))
    BY <2>4, InsertThins
  <2>8. ThreadResume(b, t) = InsertThread(s, t)
    BY <1>2, <2>1, <2>3 DEF ThreadResume
  <2>9. Thins(b, s)
    BY <2>2, <2>6, ThinsTransitive
  <2> QED
    BY <2>7, <2>8, <2>9, ThinsTransitive
<1> QED
  BY <1>1, <1>2

(* rt_thread_suspend of the running thread.                                *)
LEMMA SuspendThins ==
    ASSUME NEW b, Sound(b), NEW c \in Thread
    PROVE  Thins(b, ThreadSuspend(b, c))
<1>1. b \in KernelState /\ Linked(b) /\ Distinct(b.timers)
  BY DEF Sound, Linked, Timed
<1>2. CASE b.stat[c] \notin {"READY", "RUNNING"}
  BY <1>2, ThinsSame DEF ThreadSuspend
<1>3. CASE b.stat[c] \in {"READY", "RUNNING"}
  <2>1. PICK r : r = RemoveThread(b, c)
    OBVIOUS
  <2>2. Thins(b, r) /\ r \in KernelState
    BY <1>1, <2>1, RemoveThins, RemoveDetaches DEF Detached
  <2>3. PICK d : d = [r EXCEPT !.stat[c] = "SUSPEND"]
    OBVIOUS
  <2>4. /\ d \in KernelState /\ d.wait = r.wait
        /\ \A t \in Thread : Dormant(d, t) => Dormant(r, t)
    BY <2>2, <2>3 DEF KernelState, Stat, Dormant
  <2>5. PICK s : s = TimerStop(d, c)
    OBVIOUS
  <2>6. s.wait = d.wait /\ s.stat = d.stat
    BY <2>4, <2>5 DEF TimerStop, KernelState
  <2>7. s.wait = r.wait /\ \A t \in Thread : Dormant(s, t) => Dormant(r, t)
    BY <2>4, <2>6 DEF Dormant
  <2>8. Thins(r, s)
    BY <2>7, ThinsSame
  <2>9. ThreadSuspend(b, c) = s
    BY <1>3, <2>1, <2>3, <2>5 DEF ThreadSuspend
  <2> QED
    BY <2>2, <2>8, <2>9, ThinsTransitive
<1> QED
  BY <1>2, <1>3

(* The tick interrupt and a turn of the loop of rt_timer_check.            *)
LEMMA TickIncreaseThins ==
    ASSUME NEW b, Sound(b)
    PROVE  Thins(b, TickIncrease(b))
<1>1. PICK y : /\ Wakes(b, y) /\ y.stat = b.stat /\ y.wait = b.wait
               /\ TickIncrease(b) \in {y, Schedule(y)}
  BY TickIncreaseSchedules
<1>2. Thins(b, y)
  BY <1>1, ThinsSame DEF Dormant
<1>3. Thins(y, Schedule(y))
  BY <1>1, ScheduleThins DEF Wakes
<1>4. Thins(b, Schedule(y))
  BY <1>2, <1>3, ThinsTransitive
<1> QED
  BY <1>1, <1>2, <1>4

LEMMA TimerFireThins ==
    ASSUME NEW b, Sound(b), b.timers # <<>>
    PROVE  Thins(b, TimerFire(b))
<1>1. PICK i : /\ Wakes(b, i) /\ TimerFire(b) = Schedule(i)
               /\ \A o \in Object : i.wait[o] = Without(b.wait[o], Head(b.timers))
               /\ \A v \in Thread : i.stat[v] \in {b.stat[v], "READY", "RUNNING"}
  BY TimerFireSchedules
<1>2. \A v \in Thread : Dormant(i, v) => Dormant(b, v)
  BY <1>1 DEF Dormant
<1>3. b \in KernelState
  BY DEF Sound, Linked
<1>4. Thins(b, i)
  BY <1>1, <1>2, <1>3, WithoutThins
<1>5. Thins(i, Schedule(i))
  BY <1>1, ScheduleThins DEF Wakes
<1> QED
  BY <1>1, <1>4, <1>5, ThinsTransitive

(* rt_thread_startup of a thread that has its initial priority.            *)
LEMMA StartupThins ==
    ASSUME NEW b, Sound(b), NEW u \in Thread, b.stat[u] = "INIT",
           b.prio[u] = InitPrio[u]
    PROVE  Thins(b, ThreadStartup(b, u)) /\ ThreadStartup(b, u).prio = b.prio
<1>1. PICK e : e = [b EXCEPT !.prio[u] = InitPrio[u],
                             !.mask[u] = InitPrio[u],
                             !.stat[u] = "SUSPEND"]
  OBVIOUS
<1>2. ThreadStartup(b, u) = ThreadResume(e, u)
  BY <1>1 DEF ThreadStartup
<1>3. b \in KernelState /\ InitPrio[u] \in Prio
  BY KernelAssumption DEF Sound, Linked
<1>4. /\ e \in KernelState
      /\ e.stat = [b.stat EXCEPT ![u] = "SUSPEND"]
      /\ e.prio = [b.prio EXCEPT ![u] = InitPrio[u]]
      /\ e.ready = b.ready /\ e.wait = b.wait /\ e.timers = b.timers
  BY <1>1, <1>3 DEF KernelState, Stat
<1>5. e.prio = b.prio
  <2>1. b.prio \in [Thread -> Prio]
    BY <1>3 DEF KernelState
  <2> QED
    BY <1>4, <2>1
<1>6. \A t \in Thread : Dormant(e, t) => Dormant(b, t)
  BY <1>3, <1>4 DEF KernelState, Dormant
<1>7. Thins(b, e)
  BY <1>4, <1>6, ThinsSame
<1>8. /\ \A p \in Prio : Distinct(e.ready[p])
      /\ \A o \in Object : Distinct(e.wait[o])
      /\ Distinct(e.timers) /\ e.stat[u] = "SUSPEND"
  BY <1>3, <1>4 DEF Sound, Linked, ReadyAgrees, WaitersSuspended, Timed, KernelState
<1>9. Thins(e, ThreadResume(e, u))
  BY <1>4, <1>8, ResumeThins
<1>10. Stops(e, ThreadResume(e, u), u)
  BY <1>4, <1>8, ResumeStops
<1>11. ThreadResume(e, u).prio = b.prio
  BY <1>5, <1>10 DEF Stops
<1>12. Thins(b, ThreadResume(e, u))
  BY <1>7, <1>9, ThinsTransitive
<1> QED
  BY <1>2, <1>11, <1>12

(* rt_thread_control(RT_THREAD_CTRL_CHANGE_PRIORITY).                      *)
LEMMA ChangePriorityThins ==
    ASSUME NEW b, Sound(b), NEW t \in Thread, NEW p \in Prio
    PROVE  /\ Thins(b, ChangePriority(b, t, p))
           /\ ChangePriority(b, t, p).prio = [b.prio EXCEPT ![t] = p]
<1>1. b \in KernelState /\ Linked(b)
  BY DEF Sound, Linked
<1>2. PICK s : s = ChangePriority(b, t, p)
  OBVIOUS
<1>3. CASE b.stat[t] = "READY"
  <2>1. PICK r : r = RemoveThread(b, t)
    OBVIOUS
  <2>2. Thins(b, r) /\ r \in KernelState /\ r.prio = b.prio
    <3>1. Thins(b, RemoveThread(b, t))
      BY <1>1, RemoveThins
    <3>2. Detached(RemoveThread(b, t), t) /\ Steady(b, RemoveThread(b, t))
      BY <1>1, RemoveDetaches, RemoveSteady
    <3> QED
      BY <2>1, <3>1, <3>2 DEF Detached, Steady
  <2>3. PICK d : d = [r EXCEPT !.prio[t] = p, !.mask[t] = p]
    OBVIOUS
  <2>4. /\ d \in KernelState /\ d.wait = r.wait /\ d.stat = r.stat
        /\ d.prio = [r.prio EXCEPT ![t] = p]
    BY <2>2, <2>3 DEF KernelState
  <2>5. Thins(r, d)
    BY <2>4, ThinsSame DEF Dormant
  <2>6. s = InsertThread(d, t)
    BY <1>2, <1>3, <2>1, <2>3 DEF ChangePriority
  <2>7. Thins(d, s) /\ s.prio = d.prio
    BY <2>4, <2>6, InsertThins, InsertSteady DEF Steady
  <2>8. Thins(b, d)
    BY <2>2, <2>5, ThinsTransitive
  <2>9. Thins(b, s)
    BY <2>7, <2>8, ThinsTransitive
  <2> QED
    BY <1>2, <2>2, <2>4, <2>7, <2>9
<1>4. CASE b.stat[t] # "READY"
  <2>1. s = [b EXCEPT !.prio[t] = p, !.mask[t] = p]
    BY <1>2, <1>4 DEF ChangePriority
  <2>2. s.wait = b.wait /\ s.stat = b.stat /\ s.prio = [b.prio EXCEPT ![t] = p]
    BY <1>1, <2>1 DEF KernelState
  <2>3. Thins(b, s)
    BY <2>2, ThinsSame DEF Dormant
  <2> QED
    BY <1>2, <2>2, <2>3
<1> QED
  BY <1>3, <1>4

(* The scan of rt_ipc_list_suspend under RT_IPC_FLAG_PRIO, for a caller    *)
(* and waiters with their initial priorities: it stops behind all those of *)
(* the caller's or a higher priority and before all the others.            *)
LEMMA PlaceFinds ==
    ASSUME NEW b \in KernelState, NEW o \in Object, NEW c \in Thread,
           InOrder(b.wait[o]), b.prio[c] = InitPrio[c],
           \A t \in Range(b.wait[o]) : b.prio[t] = InitPrio[t],
           NEW at, at = WaitPlace(b, o, c, "PRIO")
    PROVE  /\ at \in 1 .. Len(b.wait[o]) + 1
           /\ \A i \in 1 .. Len(b.wait[o]) :
                 IF i < at THEN InitPrio[b.wait[o][i]] <= InitPrio[c]
                 ELSE InitPrio[c] < InitPrio[b.wait[o][i]]
<1>1. PICK s : s = b.wait[o]
  OBVIOUS
<1>2. s \in Seq(Thread) /\ Len(s) \in Nat
  BY <1>1, LenProperties DEF KernelState
<1>3. InitPrio[c] \in Nat /\ \A i \in 1 .. Len(s) : InitPrio[s[i]] \in Nat
  <2>1. \A t \in Thread : InitPrio[t] \in Nat
    BY KernelAssumption DEF Prio
  <2> QED
    BY <1>2, <2>1, ElementOfSeq
<1> DEFINE lower == {i \in 1 .. Len(s) : b.prio[c] < b.prio[s[i]]}
<1>4. \A i \in 1 .. Len(s) : i \in lower <=> InitPrio[c] < InitPrio[s[i]]
  <2>1. \A i \in 1 .. Len(s) : b.prio[s[i]] = InitPrio[s[i]]
    BY <1>1, <1>2, RangeIs
  <2> QED
    BY <2>1
<1>5. at = IF lower = {} THEN Len(s) + 1
           ELSE CHOOSE i \in lower : \A j \in lower : i <= j
  BY <1>1 DEF WaitPlace
<1>6. lower \subseteq 1 .. Len(s)
  OBVIOUS
<1> HIDE DEF lower
<1>7. CASE lower = {}
  <2>1. at = Len(s) + 1
    BY <1>5, <1>7
  <2>2. \A i \in 1 .. Len(s) : i < at /\ ~(InitPrio[c] < InitPrio[s[i]])
    BY <1>2, <1>4, <1>7, <2>1
  <2> QED
    BY <1>1, <1>2, <1>3, <2>1, <2>2
<1>8. CASE lower # {}
  <2>1. lower \in SUBSET Nat
    BY <1>2, <1>6
  <2>2. at \in lower /\ \A j \in lower : at <= j
    BY <1>5, <1>8, <2>1, LeastIn
  <2>3. at \in 1 .. Len(s)
    BY <1>6, <2>2
  <2>4. ASSUME NEW i \in 1 .. Len(s), i < at
        PROVE  InitPrio[s[i]] <= InitPrio[c]
    <3>1. i \notin lower
      BY <1>2, <2>2, <2>3, <2>4
    <3> QED
      BY <1>3, <1>4, <3>1
  <2>5. ASSUME NEW i \in 1 .. Len(s), ~(i < at)
        PROVE  InitPrio[c] < InitPrio[s[i]]
    <3>1. InitPrio[c] < InitPrio[s[at]]
      BY <1>4, <2>2, <2>3
    <3>2. at <= i
      BY <1>2, <2>3, <2>5
    <3>3. InitPrio[s[at]] <= InitPrio[s[i]]
      BY <1>1, <2>3, <3>2 DEF InOrder
    <3> QED
      BY <1>3, <2>3, <3>1, <3>3
  <2> QED
    BY <1>1, <1>2, <2>3, <2>4, <2>5
<1> QED
  BY <1>7, <1>8

LEMMA InOrderInsert ==
    ASSUME NEW s \in Seq(Thread), InOrder(s), NEW c \in Thread,
           NEW at \in 1 .. Len(s) + 1,
           \A i \in 1 .. Len(s) :
              IF i < at THEN InitPrio[s[i]] <= InitPrio[c]
              ELSE InitPrio[c] < InitPrio[s[i]]
    PROVE  InOrder(InsertAt(s, at, c))
<1>1. PICK u : u = InsertAt(s, at, c)
  OBVIOUS
<1>2. /\ Len(s) \in Nat /\ Len(u) = Len(s) + 1
      /\ \A j \in 1 .. Len(s) + 1 :
            u[j] = IF j < at THEN s[j] ELSE IF j = at THEN c ELSE s[j - 1]
  BY <1>1, InsertAtIs, LenProperties
<1>3. InitPrio[c] \in Nat /\ \A i \in 1 .. Len(s) : InitPrio[s[i]] \in Nat
  <2>1. \A t \in Thread : InitPrio[t] \in Nat
    BY KernelAssumption DEF Prio
  <2> QED
    BY <2>1, ElementOfSeq
<1>4. ASSUME NEW i \in 1 .. Len(u), NEW j \in 1 .. Len(u), i <= j
      PROVE  InitPrio[u[i]] <= InitPrio[u[j]]
  <2>1. i \in 1 .. Len(s) + 1 /\ j \in 1 .. Len(s) + 1
    BY <1>2
  <2>2. CASE i < at /\ j < at
    <3>1. u[i] = s[i] /\ u[j] = s[j] /\ i \in 1 .. Len(s) /\ j \in 1 .. Len(s)
      BY <1>2, <2>1, <2>2
    <3> QED
      BY <1>4, <3>1 DEF InOrder
  <2>3. CASE i < at /\ j = at
    <3>1. u[i] = s[i] /\ u[j] = c /\ i \in 1 .. Len(s)
      BY <1>2, <2>1, <2>3
    <3> QED
      BY <2>3, <3>1
  <2>4. CASE i < at /\ j > at
    <3>1. /\ u[i] = s[i] /\ u[j] = s[j - 1] /\ i \in 1 .. Len(s)
          /\ j - 1 \in 1 .. Len(s) /\ i <= j - 1
      BY <1>2, <2>1, <2>4
    <3> QED
      BY <3>1 DEF InOrder
  <2>5. CASE i = at /\ j = at
    BY <1>2, <1>3, <2>1, <2>5
  <2>6. CASE i = at /\ j > at
    <3>1. /\ u[i] = c /\ u[j] = s[j - 1] /\ j - 1 \in 1 .. Len(s) /\ ~(j - 1 < at)
      BY <1>2, <2>1, <2>6
    <3>2. InitPrio[c] < InitPrio[s[j - 1]] /\ InitPrio[s[j - 1]] \in Nat
      BY <1>3, <3>1
    <3> QED
      BY <1>3, <3>1, <3>2
  <2>7. CASE i > at /\ j > at
    <3>1. /\ u[i] = s[i - 1] /\ u[j] = s[j - 1] /\ i - 1 \in 1 .. Len(s)
          /\ j - 1 \in 1 .. Len(s) /\ i - 1 <= j - 1
      BY <1>2, <1>4, <2>1, <2>7
    <3> QED
      BY <3>1 DEF InOrder
  <2> QED
    BY <1>2, <1>4, <2>1, <2>2, <2>3, <2>4, <2>5, <2>6, <2>7
<1> QED
  BY <1>1, <1>4 DEF InOrder

(* c and the threads that wait for o have their initial priorities.        *)
Plain(b, o, c) ==
    b.prio[c] = InitPrio[c] /\ \A t \in Range(b.wait[o]) : b.prio[t] = InitPrio[t]

LEMMA JoinSettles ==
    ASSUME NEW b \in KernelState, NEW o \in Object, NEW c \in Thread, Plain(b, o, c)
    PROVE  Settles(b, Join(b, o, c, "PRIO"))
<1>1. PICK s : s = Join(b, o, c, "PRIO")
  OBVIOUS
<1>2. PICK at : at = WaitPlace(b, o, c, "PRIO")
  OBVIOUS
<1>3. PICK w : w = InsertAt(b.wait[o], at, c)
  OBVIOUS
<1>4. s.stat = b.stat /\ s.wait = [b.wait EXCEPT ![o] = w]
  BY <1>1, <1>2, <1>3 DEF Join, KernelState
<1>5. b.wait[o] \in Seq(Thread) /\ b.wait \in [Object -> Seq(Thread)]
  BY DEF KernelState
<1>6. ASSUME ListsInOrder(b), NEW x \in Object
      PROVE  InOrder(s.wait[x])
  <2>1. CASE x = o
    <3>1. InOrder(b.wait[o])
      BY <1>6 DEF ListsInOrder
    <3>2. /\ at \in 1 .. Len(b.wait[o]) + 1
          /\ \A i \in 1 .. Len(b.wait[o]) :
                IF i < at THEN InitPrio[b.wait[o][i]] <= InitPrio[c]
                ELSE InitPrio[c] < InitPrio[b.wait[o][i]]
      BY <1>2, <3>1, PlaceFinds DEF Plain
    <3>3. InOrder(w)
      BY <1>3, <1>5, <3>1, <3>2, InOrderInsert
    <3> QED
      BY <1>4, <1>5, <2>1, <3>3
  <2>2. CASE x # o
    BY <1>4, <1>5, <1>6, <2>2 DEF ListsInOrder
  <2> QED
    BY <2>1, <2>2
<1> QED
  BY <1>1, <1>4, <1>6 DEF Settles, ListsInOrder, Dormant

(* The common part of the blocking calls, under RT_IPC_FLAG_PRIO.          *)
LEMMA BlockSettles ==
    ASSUME NEW b, Sound(b), NEW c \in Thread, b.stat[c] = "RUNNING",
           c # Idle, b.lock = 0,
           NEW o \in Object, NEW time \in Int, Plain(b, o, c)
    PROVE  Settles(b, Block(b, o, c, "PRIO", time))
<1>1. PICK e, q, s, z : /\ e = [b EXCEPT !.error[c] = "OK"]
                        /\ q = ThreadSuspend(e, c)
                        /\ s = Join(q, o, c, "PRIO")
                        /\ z = Block(b, o, c, "PRIO", time)
  OBVIOUS
<1>2. z = IF time > 0 THEN TimerStart(s, c, time) ELSE s
  BY <1>1 DEF Block, IpcListSuspend
<1>3. /\ e \in KernelState
      /\ e.cur = b.cur /\ e.stat = b.stat /\ e.prio = b.prio
      /\ e.mask = b.mask /\ e.ready = b.ready /\ e.group = b.group
      /\ e.wait = b.wait /\ e.timers = b.timers /\ e.lock = b.lock
  BY <1>1 DEF Sound, Linked, KernelState, Error
<1>4. Sound(e) /\ e.stat[c] = "RUNNING" /\ e.lock = 0
  BY <1>3, PlainUpdate
<1>5. Thins(b, e) /\ Thins(e, q)
  BY <1>1, <1>3, <1>4, ThinsSame, SuspendThins DEF Dormant
<1>6. q.prio = b.prio
  <2>1. Stops(e, ThreadSuspend(e, c), c)
    BY <1>4, SuspendStops
  <2> QED
    BY <1>1, <1>3, <2>1 DEF Stops
<1>7. /\ Suspends(e, q, c)
      /\ \A x \in Object : c \notin Range(q.wait[x])
  BY <1>1, <1>4, SuspendRunning
<1>8. Sound(q) /\ q \in KernelState /\ q.stat[c] = "SUSPEND"
  BY <1>3, <1>7 DEF Suspends, Sound, Linked, KernelState
<1>9. Plain(q, o, c)
  <2>1. Range(q.wait[o]) \subseteq Thread
    BY <1>8, RangeOfSeq DEF KernelState, Range
  <2>2. \A t \in Range(q.wait[o]) : t \in Range(b.wait[o])
    BY <1>3, <1>7, <2>1 DEF Suspends
  <2> QED
    BY <1>6, <2>2 DEF Plain
<1>10. Settles(q, s)
  BY <1>1, <1>8, <1>9, JoinSettles
<1>11. s \in KernelState
  BY <1>1, <1>7, <1>8, JoinSound DEF Sound, Linked
<1>12. z.wait = s.wait /\ z.stat = s.stat
  BY <1>2, <1>11 DEF TimerStart, KernelState
<1>13. Thins(s, z)
  BY <1>12, ThinsSame DEF Dormant
<1>14. Thins(b, q)
  BY <1>5, ThinsTransitive
<1>15. Settles(b, z)
  BY <1>10, <1>13, <1>14 DEF Thins, Settles
<1> QED
  BY <1>1, <1>15

(* The same, for two threads in one list: who stands before whom when c    *)
(* has been linked, and was not so before.                                 *)
Placed(b, o, c, flag, x, y) ==
    \/ y = c /\ x \in Range(b.wait[o]) /\ (flag = "FIFO" \/ InitPrio[x] <= InitPrio[c])
    \/ x = c /\ flag = "PRIO" /\ y \in Range(b.wait[o]) /\ InitPrio[c] < InitPrio[y]

LEMMA BeforeInRange ==
    ASSUME NEW s \in Seq(Thread), NEW x, NEW y, Before(s, x, y)
    PROVE  x \in Range(s) /\ y \in Range(s)
BY RangeIs DEF Before

LEMMA InsertBefore ==
    ASSUME NEW s \in Seq(Thread), NEW c \in Thread, NEW at \in 1 .. Len(s) + 1,
           NEW u, u = InsertAt(s, at, c),
           NEW x, NEW y, Before(u, x, y)
    PROVE  \/ Before(s, x, y)
           \/ y = c /\ \E i \in 1 .. Len(s) : i < at /\ s[i] = x
           \/ x = c /\ \E i \in 1 .. Len(s) : ~(i < at) /\ s[i] = y
<1>1. /\ Len(s) \in Nat /\ Len(u) = Len(s) + 1
      /\ \A j \in 1 .. Len(s) + 1 :
            u[j] = IF j < at THEN s[j] ELSE IF j = at THEN c ELSE s[j - 1]
  BY InsertGives, LenProperties
<1>2. PICK i, j \in 1 .. Len(s) + 1 : i < j /\ u[i] = x /\ u[j] = y
  BY <1>1 DEF Before
<1>3. CASE i < at /\ j < at
  <2>1. i \in 1 .. Len(s) /\ j \in 1 .. Len(s) /\ s[i] = x /\ s[j] = y
    BY <1>1, <1>2, <1>3
  <2> QED
    BY <1>2, <2>1 DEF Before
<1>4. CASE j = at
  <2>1. i \in 1 .. Len(s) /\ i < at /\ s[i] = x /\ y = c
    BY <1>1, <1>2, <1>4
  <2> QED
    BY <2>1
<1>5. CASE i = at
  <2>1. PICK b \in 1 .. Len(s) : b = j - 1
    BY <1>1, <1>2, <1>5
  <2>2. ~(b < at) /\ u[j] = s[b] /\ u[i] = c
    BY <1>1, <1>2, <1>5, <2>1
  <2> QED
    BY <1>2, <2>2
<1>6. CASE i < at /\ j > at
  <2>1. PICK b \in 1 .. Len(s) : b = j - 1
    BY <1>1, <1>2, <1>6
  <2>2. i \in 1 .. Len(s) /\ u[i] = s[i] /\ u[j] = s[b] /\ i < b
    BY <1>1, <1>2, <1>6, <2>1
  <2> QED
    BY <1>2, <2>2 DEF Before
<1>7. CASE i > at
  <2>1. PICK a \in 1 .. Len(s) : a = i - 1
    BY <1>1, <1>2, <1>7
  <2>2. PICK b \in 1 .. Len(s) : b = j - 1
    BY <1>1, <1>2, <1>7
  <2>3. u[i] = s[a] /\ u[j] = s[b] /\ a < b
    BY <1>1, <1>2, <1>7, <2>1, <2>2
  <2> QED
    BY <1>2, <2>3 DEF Before
<1> QED
  BY <1>1, <1>2, <1>3, <1>4, <1>5, <1>6, <1>7

LEMMA JoinPlaces ==
    ASSUME NEW b \in KernelState, NEW o \in Object, NEW c \in Thread,
           Plain(b, o, c),
           NEW flag \in {"FIFO", "PRIO"}, flag = "PRIO" => InOrder(b.wait[o]),
           NEW x \in Thread, NEW y \in Thread,
           NEW s, s = Join(b, o, c, flag), Before(s.wait[o], x, y)
    PROVE  Before(b.wait[o], x, y) \/ Placed(b, o, c, flag, x, y)
<1>1. PICK at : at = WaitPlace(b, o, c, flag)
  OBVIOUS
<1>2. PICK w : w = InsertAt(b.wait[o], at, c)
  OBVIOUS
<1>3. b.wait[o] \in Seq(Thread) /\ s.wait[o] = w
  BY <1>1, <1>2 DEF Join, KernelState
<1>4. Len(b.wait[o]) \in Nat
  BY <1>3, LenProperties
<1>5. /\ at \in 1 .. Len(b.wait[o]) + 1
      /\ \A i \in 1 .. Len(b.wait[o]) :
            IF i < at THEN flag = "FIFO" \/ InitPrio[b.wait[o][i]] <= InitPrio[c]
            ELSE flag = "PRIO" /\ InitPrio[c] < InitPrio[b.wait[o][i]]
  <2>1. CASE flag = "FIFO"
    <3>1. at = Len(b.wait[o]) + 1
      BY <1>1, <2>1 DEF WaitPlace
    <3> QED
      BY <1>4, <2>1, <3>1
  <2>2. CASE flag = "PRIO"
    <3>1. /\ at \in 1 .. Len(b.wait[o]) + 1
          /\ \A i \in 1 .. Len(b.wait[o]) :
                IF i < at THEN InitPrio[b.wait[o][i]] <= InitPrio[c]
                ELSE InitPrio[c] < InitPrio[b.wait[o][i]]
      BY <1>1, <2>2, PlaceFinds DEF Plain
    <3> QED
      BY <2>2, <3>1
  <2> QED
    BY <2>1, <2>2
<1>6. Before(w, x, y)
  BY <1>3
<1>7. \/ Before(b.wait[o], x, y)
      \/ y = c /\ \E i \in 1 .. Len(b.wait[o]) : i < at /\ b.wait[o][i] = x
      \/ x = c /\ \E i \in 1 .. Len(b.wait[o]) : ~(i < at) /\ b.wait[o][i] = y
  BY <1>2, <1>3, <1>5, <1>6, InsertBefore
<1>8. ASSUME y = c, NEW i \in 1 .. Len(b.wait[o]), i < at, b.wait[o][i] = x
      PROVE  Placed(b, o, c, flag, x, y)
  BY <1>3, <1>5, <1>8, RangeIs DEF Placed
<1>9. ASSUME x = c, NEW i \in 1 .. Len(b.wait[o]), ~(i < at), b.wait[o][i] = y
      PROVE  Placed(b, o, c, flag, x, y)
  BY <1>3, <1>5, <1>9, RangeIs DEF Placed
<1> QED
  BY <1>7, <1>8, <1>9

LEMMA BlockPlaces ==
    ASSUME NEW b, Sound(b), NEW c \in Thread, b.stat[c] = "RUNNING",
           c # Idle, b.lock = 0,
           NEW o \in Object, NEW time \in Int, Plain(b, o, c),
           NEW flag \in {"FIFO", "PRIO"}, flag = "PRIO" => ListsInOrder(b),
           NEW z, z = Block(b, o, c, flag, time)
    PROVE  /\ z.prio = b.prio
           /\ \A x, y \in Thread : Before(z.wait[o], x, y) =>
                 Before(b.wait[o], x, y) \/ Placed(b, o, c, flag, x, y)
<1>1. PICK e, q, s : /\ e = [b EXCEPT !.error[c] = "OK"]
                     /\ q = ThreadSuspend(e, c)
                     /\ s = Join(q, o, c, flag)
  OBVIOUS
<1>2. z = IF time > 0 THEN TimerStart(s, c, time) ELSE s
  BY <1>1 DEF Block, IpcListSuspend
<1>3. /\ e \in KernelState
      /\ e.cur = b.cur /\ e.stat = b.stat /\ e.prio = b.prio
      /\ e.mask = b.mask /\ e.ready = b.ready /\ e.group = b.group
      /\ e.wait = b.wait /\ e.timers = b.timers /\ e.lock = b.lock
  BY <1>1 DEF Sound, Linked, KernelState, Error
<1>4. Sound(e) /\ e.stat[c] = "RUNNING" /\ e.lock = 0
  BY <1>3, PlainUpdate
<1>5. Thins(b, e) /\ Thins(e, q)
  BY <1>1, <1>3, <1>4, ThinsSame, SuspendThins DEF Dormant
<1>6. q.prio = b.prio
  <2>1. Stops(e, ThreadSuspend(e, c), c)
    BY <1>4, SuspendStops
  <2> QED
    BY <1>1, <1>3, <2>1 DEF Stops
<1>7. /\ Suspends(e, q, c)
      /\ \A x \in Object : c \notin Range(q.wait[x])
  BY <1>1, <1>4, SuspendRunning
<1>8. Sound(q) /\ q \in KernelState /\ q.stat[c] = "SUSPEND"
  BY <1>3, <1>7 DEF Suspends, Sound, Linked, KernelState
<1>9. \A t \in Range(q.wait[o]) : t \in Range(b.wait[o])
  <2>1. Range(q.wait[o]) \subseteq Thread
    BY <1>8, RangeOfSeq DEF KernelState, Range
  <2> QED
    BY <1>3, <1>7, <2>1 DEF Suspends
<1>10. Plain(q, o, c)
  BY <1>6, <1>9 DEF Plain
<1>11. flag = "PRIO" => InOrder(q.wait[o])
  BY <1>5 DEF Thins, Settles, ListsInOrder
<1>12. s \in KernelState
  BY <1>1, <1>7, <1>8, JoinSound DEF Sound, Linked
<1>13. z.wait = s.wait /\ z.prio = s.prio
  BY <1>2, <1>12 DEF TimerStart, KernelState
<1>14. s.prio = q.prio
  BY <1>1 DEF Join
<1>15. ASSUME NEW x \in Thread, NEW y \in Thread, Before(z.wait[o], x, y)
       PROVE  Before(b.wait[o], x, y) \/ Placed(b, o, c, flag, x, y)
  <2>1. Before(s.wait[o], x, y)
    BY <1>13, <1>15
  <2>2. Before(q.wait[o], x, y) \/ Placed(q, o, c, flag, x, y)
    BY <1>1, <1>8, <1>10, <1>11, <2>1, JoinPlaces
  <2>3. Before(q.wait[o], x, y) => Before(b.wait[o], x, y)
    BY <1>5 DEF Thins
  <2>4. Placed(q, o, c, flag, x, y) => Placed(b, o, c, flag, x, y)
    BY <1>9 DEF Placed
  <2> QED
    BY <2>2, <2>3, <2>4
<1> QED
  BY <1>6, <1>13, <1>14, <1>15

-----------------------------------------------------------------------------
(* A suspended thread is inside a blocking call, and the current thread is *)
(* suspended only until the rt_schedule of that call.                      *)
PcAgrees ==
    /\ \A t \in Thread : k.stat[t] = "SUSPEND" =>
          pc[t] \in {"nap", "wait", "napped", "woken"}
    /\ k.stat[k.cur] = "SUSPEND" => pc[k.cur] \in {"nap", "wait"}

KernelInv ==
    /\ Sound(k)
    /\ pc \in [Thread -> Location]
    /\ irq \in {"on", "off", "tick"}
    /\ PcAgrees
    /\ NoneStranded

(* The suspend lists only lose members.                                    *)
Shrinks ==
    \A o \in Object, t \in Thread :
        t \in Range(k'.wait[o]) => t \in Range(k.wait[o])

LEMMA KernelInvGives ==
    ASSUME KernelInv
    PROVE  KernelTypeOK /\ SchedulerConsistent
BY DEF KernelInv, KernelTypeOK, SchedulerConsistent, Consistent, Sound, Linked

(* A wakeup strands nobody and lets the suspend lists shrink.              *)
LEMMA WakesSettles ==
    ASSUME KernelInv, Wakes(k, k')
    PROVE  NoneStranded' /\ Shrinks
<1>1. Sound(k')
  BY DEF Wakes
<1>2. \A t \in Thread : k'.stat[t] = "SUSPEND" =>
        /\ k.stat[t] = "SUSPEND"
        /\ t \in Range(k'.timers) <=> t \in Range(k.timers)
        /\ \A o \in Object : t \in Range(k'.wait[o]) <=> t \in Range(k.wait[o])
  BY DEF Wakes
<1>3. NoneStranded'
  <2>1. \A t \in Thread : t \in Range(k'.timers) => k'.stat[t] = "SUSPEND"
    BY <1>1 DEF Sound, Timed
  <2>2. \A t \in Thread : k.stat[t] = "SUSPEND" =>
          t \in Range(k.timers) \/ \E o \in Object : t \in Range(k.wait[o])
    BY DEF KernelInv, NoneStranded
  <2> QED
    BY <1>2, <2>1, <2>2 DEF NoneStranded
<1>4. Shrinks
  <2>1. \A o \in Object, t \in Thread :
          t \in Range(k'.wait[o]) => k'.stat[t] = "SUSPEND"
    BY <1>1 DEF Sound, Linked, WaitersSuspended
  <2> QED
    BY <1>2, <2>1 DEF Shrinks
<1> QED
  BY <1>3, <1>4

(* A wakeup in which no thread goes on: an interrupt, or a masked loop.    *)
LEMMA WakeStep ==
    ASSUME KernelInv, Wakes(k, k'), UNCHANGED pc, irq' \in {"on", "off", "tick"}
    PROVE  KernelInv' /\ Shrinks
<1>1. NoneStranded' /\ Shrinks
  BY WakesSettles
<1>2. PcAgrees'
  <2>1. k'.cur \in Thread
    BY DEF Wakes, Sound, Linked, KernelState
  <2>2. \A t \in Thread : k'.stat[t] = "SUSPEND" => k.stat[t] = "SUSPEND"
    BY DEF Wakes
  <2>3. k'.stat[k'.cur] = "SUSPEND" => k'.cur = k.cur
    BY DEF Wakes
  <2> QED
    BY <2>1, <2>2, <2>3 DEF KernelInv, PcAgrees
<1> QED
  BY <1>1, <1>2 DEF KernelInv, Wakes

(* The thread that executes in its own code is running.                    *)
LEMMA AtRuns ==
    ASSUME KernelInv, NEW t \in Thread, NEW loc, At(t, loc),
           loc \notin {"nap", "wait"}
    PROVE  k.cur = t /\ k.stat[t] = "RUNNING"
BY DEF At, KernelInv, PcAgrees, Sound, OneRuns

(* A wakeup by the running thread, which goes on to another place.         *)
LEMMA RunningStep ==
    ASSUME KernelInv, Wakes(k, k'), NEW t \in Thread,
           k.cur = t, k.stat[t] = "RUNNING",
           NEW loc \in Location, Goto(t, loc), irq' \in {"on", "off", "tick"}
    PROVE  KernelInv' /\ Shrinks
<1>1. NoneStranded' /\ Shrinks
  BY WakesSettles
<1>2. /\ pc' \in [Thread -> Location]
      /\ \A u \in Thread \ {t} : pc'[u] = pc[u]
  BY DEF Goto, KernelInv
<1>3. Sound(k') /\ k'.cur \in Thread
  BY DEF Wakes, Sound, Linked, KernelState
<1>4. \A u \in Thread : k'.stat[u] = "SUSPEND" => k.stat[u] = "SUSPEND" /\ u # t
  BY DEF Wakes
<1>5. PcAgrees'
  <2>1. \A u \in Thread : k'.stat[u] = "SUSPEND" =>
           pc'[u] \in {"nap", "wait", "napped", "woken"}
    BY <1>2, <1>4 DEF KernelInv, PcAgrees
  <2>2. k'.stat[k'.cur] # "SUSPEND"
    BY <1>3, <1>4 DEF Wakes
  <2> QED
    BY <2>1, <2>2 DEF PcAgrees
<1> QED
  BY <1>1, <1>2, <1>3, <1>5 DEF KernelInv

(* The running thread suspends itself and is linked somewhere.             *)
LEMMA SuspendingStep ==
    ASSUME KernelInv, NEW t \in Thread, Suspends(k, k', t),
           k.cur = t, NEW loc \in {"nap", "wait"}, Goto(t, loc), UNCHANGED irq,
           t \in Range(k'.timers) \/ \E o \in Object : t \in Range(k'.wait[o])
    PROVE  KernelInv'
<1>1. /\ Sound(k') /\ k'.cur = t
      /\ k'.stat = [k.stat EXCEPT ![t] = "SUSPEND"]
  BY DEF Suspends
<1>2. /\ pc' \in [Thread -> Location] /\ pc'[t] = loc
      /\ \A u \in Thread \ {t} : pc'[u] = pc[u]
  BY DEF Goto, KernelInv, Location
<1>3. \A u \in Thread \ {t} : k'.stat[u] = k.stat[u]
  BY <1>1 DEF KernelInv, Sound, Linked, KernelState
<1>4. PcAgrees'
  BY <1>1, <1>2, <1>3 DEF KernelInv, PcAgrees
<1>5. NoneStranded'
  <2>1. \A u \in Thread : u \in Range(k'.timers) => k'.stat[u] = "SUSPEND"
    BY <1>1 DEF Sound, Timed
  <2>2. ASSUME NEW u \in Thread \ {t}, k'.stat[u] = "SUSPEND"
        PROVE  u \in Range(k'.timers) \/ \E o \in Object : u \in Range(k'.wait[o])
    BY <1>3, <2>2 DEF KernelInv, NoneStranded, Suspends
  <2> QED
    BY <2>1, <2>2 DEF NoneStranded
<1> QED
  BY <1>1, <1>2, <1>4, <1>5 DEF KernelInv

-----------------------------------------------------------------------------
(* The state that rtthread_startup leaves.                                 *)
LEMMA StartedSound == Sound(Started)
<1> DEFINE s == Started
<1>1. /\ Idle \in Thread /\ Main \in Thread /\ Idle # Main
      /\ MaxPrio \in Prio /\ MaxPrio \in Nat
      /\ InitPrio \in [Thread -> Prio] /\ InitPrio[Idle] = MaxPrio
      /\ InitTick \in [Thread -> Nat \ {0}]
      /\ 0 \in Tick
  BY KernelAssumption DEF Prio, Tick
<1>2. /\ s.cur = Main
      /\ s.stat = [t \in Thread |-> IF t = Main THEN "RUNNING"
                                    ELSE IF t = Idle THEN "READY" ELSE "INIT"]
      /\ s.prio = InitPrio /\ s.mask = InitPrio
      /\ s.ready = [p \in Prio |-> IF p = MaxPrio THEN <<Idle>> ELSE <<>>]
      /\ s.group = {MaxPrio}
      /\ s.wait = [o \in Object |-> <<>>]
      /\ s.timers = <<>> /\ s.lock = 0
  BY DEF Started
<1>3. s \in KernelState
  <2>1. <<Idle>> \in Seq(Thread) /\ <<>> \in Seq(Thread)
    BY <1>1
  <2>2. {MaxPrio} \in SUBSET Prio
    BY <1>1
  <2> QED
    BY <1>1, <2>1, <2>2 DEF Started, KernelState, Stat, Error
<1>4. /\ Range(<<Idle>>) = {Idle} /\ Range(<<>>) = {}
      /\ Distinct(<<Idle>>) /\ Distinct(<<>>) /\ <<Idle>> # <<>>
  BY DEF Range, Distinct
<1> HIDE DEF s
<1>5. ReadyAgrees(s)
  <2>1. \A p \in Prio : Distinct(s.ready[p])
    BY <1>2, <1>4
  <2>2. ASSUME NEW p \in Prio, NEW t \in Thread
        PROVE  t \in Range(s.ready[p]) <=> s.stat[t] = "READY" /\ s.prio[t] = p
    BY <1>1, <1>2, <1>4
  <2>3. s.group = {p \in Prio : s.ready[p] # <<>>}
    BY <1>1, <1>2, <1>4
  <2> QED
    BY <1>2, <2>1, <2>2, <2>3 DEF ReadyAgrees
<1>6. WaitersSuspended(s)
  BY <1>2, <1>4 DEF WaitersSuspended
<1>7. OneRuns(s) /\ Timed(s) /\ Alive(s)
  BY <1>1, <1>2, <1>4 DEF OneRuns, Timed, Alive
<1> QED
  BY <1>3, <1>5, <1>6, <1>7 DEF Sound, Linked, s

LEMMA KernelInitInv ==
    ASSUME KernelInit
    PROVE  KernelInv /\ \A o \in Object : k.wait[o] = <<>>
<1>1. Sound(k) /\ k = Started
  BY StartedSound DEF KernelInit
<1>2. /\ \A t \in Thread : k.stat[t] # "SUSPEND"
      /\ k.timers = <<>> /\ k.cur \in Thread
      /\ \A o \in Object : k.wait[o] = <<>>
  BY <1>1, KernelAssumption DEF Started
<1>3. PcAgrees
  BY <1>2 DEF PcAgrees
<1>4. NoneStranded
  <2>1. \A t \in Thread : t \in Range(k.timers) => k.stat[t] = "SUSPEND"
    BY <1>1 DEF Sound, Timed
  <2> QED
    BY <1>2, <2>1 DEF NoneStranded
<1>5. pc \in [Thread -> Location] /\ irq = "on"
  BY DEF KernelInit, Location
<1> QED
  BY <1>1, <1>2, <1>3, <1>4, <1>5 DEF KernelInv

-----------------------------------------------------------------------------
(* The steps of module Processor.                                          *)

LEMMA RtScheduleKeeps ==
    ASSUME KernelInv, NEW t \in Worker, RtSchedule(t)
    PROVE  KernelInv' /\ Shrinks
<1>1. PICK loc \in {"sched", "nap", "wait"} :
         /\ At(t, loc)
         /\ k' = Schedule(k)
         /\ Goto(t, CASE loc = "sched" -> "run"
                      [] loc = "nap"   -> "napped"
                      [] loc = "wait"  -> "woken")
         /\ UNCHANGED irq
  BY DEF RtSchedule
<1>2. /\ Wakes(k, k')
      /\ k.lock = 0 => k'.stat[k'.cur] = "RUNNING"
  BY <1>1, ScheduleWakes DEF KernelInv
<1>3. t \in Thread /\ k.cur = t /\ pc[t] = loc
  BY <1>1 DEF At, Worker
<1>4. CASE k.stat[t] # "SUSPEND"
  <2>1. k.stat[t] = "RUNNING"
    BY <1>3, <1>4 DEF KernelInv, Sound, OneRuns
  <2> DEFINE to == CASE loc = "sched" -> "run"
                     [] loc = "nap"   -> "napped"
                     [] loc = "wait"  -> "woken"
  <2>2. to \in Location /\ Goto(t, to)
    BY <1>1 DEF Location
  <2> HIDE DEF to
  <2>3. irq' \in {"on", "off", "tick"}
    BY <1>1 DEF KernelInv
  <2> QED
    BY <1>2, <1>3, <2>1, <2>2, <2>3, RunningStep
<1>5. CASE k.stat[t] = "SUSPEND"
  <2>1. loc \in {"nap", "wait"} /\ k.lock = 0
    BY <1>3, <1>5 DEF KernelInv, PcAgrees, Sound, Alive
  <2>2. /\ pc' \in [Thread -> Location] /\ pc'[t] \in {"napped", "woken"}
        /\ \A u \in Thread \ {t} : pc'[u] = pc[u]
    BY <1>1, <1>3, <2>1 DEF KernelInv, Goto, Location
  <2>3. PcAgrees'
    <3>1. \A u \in Thread : k'.stat[u] = "SUSPEND" => k.stat[u] = "SUSPEND"
      BY <1>2 DEF Wakes
    <3> QED
      BY <1>2, <2>1, <2>2, <3>1 DEF KernelInv, PcAgrees
  <2>4. NoneStranded' /\ Shrinks
    BY <1>2, WakesSettles
  <2> QED
    BY <1>1, <1>2, <2>2, <2>3, <2>4 DEF KernelInv, Wakes
<1> QED
  BY <1>4, <1>5

LEMMA TickKeeps ==
    ASSUME KernelInv, TickIsr
    PROVE  KernelInv' /\ Shrinks
<1>1. CASE TickInterrupt
  <2>1. Wakes(k, k') /\ UNCHANGED pc /\ irq' \in {"on", "off", "tick"}
    BY <1>1, TickIncreaseWakes DEF TickInterrupt, KernelInv
  <2> QED
    BY <2>1, WakeStep
<1>2. CASE TimerCheck
  <2>1. k.timers # <<>>
    BY <1>2 DEF TimerCheck, TimerExpired
  <2>2. Wakes(k, k') /\ UNCHANGED pc /\ irq' \in {"on", "off", "tick"}
    BY <1>2, <2>1, TimerFireWakes DEF TimerCheck, KernelInv
  <2> QED
    BY <2>2, WakeStep
<1>3. CASE TickReturn
  <2>1. Wakes(k, k') /\ UNCHANGED pc /\ irq' \in {"on", "off", "tick"}
    BY <1>3, WakesNone DEF TickReturn, KernelInv
  <2> QED
    BY <2>1, WakeStep
<1> QED
  BY <1>1, <1>2, <1>3 DEF TickIsr

(* An update of fields that the lists do not depend on, by the running     *)
(* thread; the nesting of rt_enter_critical may change with it.            *)
LEMMA PlainStep ==
    ASSUME KernelInv, NEW t \in Thread, k.cur = t, k.stat[t] = "RUNNING",
           k' \in KernelState,
           k'.cur = k.cur, k'.stat = k.stat, k'.prio = k.prio,
           k'.mask = k.mask, k'.ready = k.ready, k'.group = k.group,
           k'.wait = k.wait, k'.timers = k.timers,
           NEW loc \in Location, Goto(t, loc) \/ UNCHANGED pc, UNCHANGED irq
    PROVE  KernelInv' /\ Shrinks
<1>1. Sound(k')
  <2>1. ReadyAgrees(k')
    BY DEF KernelInv, Sound, Linked, ReadyAgrees
  <2>2. WaitersSuspended(k')
    BY DEF KernelInv, Sound, Linked, WaitersSuspended
  <2>3. OneRuns(k') /\ Timed(k') /\ Alive(k')
    BY DEF KernelInv, Sound, OneRuns, Timed, Alive
  <2> QED
    BY <2>1, <2>2, <2>3 DEF Sound, Linked
<1>2. /\ pc' \in [Thread -> Location]
      /\ \A u \in Thread \ {t} : pc'[u] = pc[u]
  BY DEF Goto, KernelInv
<1>3. PcAgrees'
  BY <1>2 DEF KernelInv, PcAgrees
<1>4. NoneStranded' /\ Shrinks
  BY DEF KernelInv, NoneStranded, Shrinks
<1> QED
  BY <1>1, <1>2, <1>3, <1>4 DEF KernelInv

LEMMA CpuKeeps ==
    ASSUME KernelInv, NEW t \in Worker, CpuStep(t)
    PROVE  KernelInv' /\ Shrinks
<1>1. t \in Thread
  BY DEF Worker
<1>2. CASE RtSchedule(t)
  BY <1>2, RtScheduleKeeps
<1>3. CASE \E u \in Worker : Startup(t, u)
  <2>1. PICK u \in Worker : Startup(t, u)
    BY <1>3
  <2>2. At(t, "run") /\ k.stat[u] = "INIT" /\ k' = ThreadStartup(k, u)
        /\ Goto(t, "sched") /\ UNCHANGED irq /\ u \in Thread
    BY <2>1 DEF Startup, Worker
  <2>3. k.cur = t /\ k.stat[t] = "RUNNING"
    BY <1>1, <2>2, AtRuns
  <2>4. Wakes(k, k')
    BY <2>2, StartupWakes DEF KernelInv
  <2>5. "sched" \in Location /\ irq' \in {"on", "off", "tick"}
    BY <2>2 DEF Location, KernelInv
  <2> QED
    BY <1>1, <2>2, <2>3, <2>4, <2>5, RunningStep
<1>4. CASE Yield(t)
  <2> DEFINE y == [k EXCEPT !.remaining[t] = InitTick[t], !.yield[t] = TRUE]
  <2>1. k' = Schedule(y) /\ UNCHANGED <<pc, irq>>
    BY <1>4 DEF Yield, ThreadYield
  <2>2. /\ y \in KernelState
        /\ y.cur = k.cur /\ y.stat = k.stat /\ y.prio = k.prio
        /\ y.mask = k.mask /\ y.ready = k.ready /\ y.group = k.group
        /\ y.wait = k.wait /\ y.timers = k.timers /\ y.lock = k.lock
    BY <1>1, KernelAssumption DEF KernelInv, Sound, Linked, KernelState
  <2> HIDE DEF y
  <2>3. Sound(k)
    BY DEF KernelInv
  <2>4. Sound(y) /\ Wakes(k, y)
    BY <2>2, <2>3, PlainUpdate
  <2>5. Wakes(y, k')
    BY <2>1, <2>4, ScheduleWakes
  <2>6. Wakes(k, k')
    BY <2>4, <2>5, WakesTransitive
  <2>7. UNCHANGED pc /\ irq' \in {"on", "off", "tick"}
    BY <2>1 DEF KernelInv
  <2> QED
    BY <2>6, <2>7, WakeStep
<1>5. CASE Napped(t)
  <2>1. /\ At(t, "napped") /\ Goto(t, "run") /\ UNCHANGED irq
        /\ k' = [k EXCEPT !.error[t] = IF @ = "TIMEOUT" THEN "OK" ELSE @]
    BY <1>5 DEF Napped
  <2>2. k.cur = t /\ k.stat[t] = "RUNNING"
    BY <1>1, <2>1, AtRuns
  <2>3. /\ k' \in KernelState
        /\ k'.cur = k.cur /\ k'.stat = k.stat /\ k'.prio = k.prio
        /\ k'.mask = k.mask /\ k'.ready = k.ready /\ k'.group = k.group
        /\ k'.wait = k.wait /\ k'.timers = k.timers
    <3> DEFINE e == [k.error EXCEPT ![t] = IF @ = "TIMEOUT" THEN "OK" ELSE @]
    <3>1. k \in KernelState
      BY DEF KernelInv, Sound, Linked
    <3>2. e \in [Thread -> Error]
      BY <1>1, <3>1 DEF KernelState, Error
    <3>3. k' = [k EXCEPT !.error = e]
      BY <2>1, <3>1 DEF KernelState
    <3> HIDE DEF e
    <3> QED
      BY <3>1, <3>2, <3>3 DEF KernelState
  <2>4. "run" \in Location
    BY DEF Location
  <2> QED
    BY <1>1, <2>1, <2>2, <2>3, <2>4, PlainStep
<1>6. CASE EnterCritical(t)
  <2>1. At(t, "run") /\ k' = [k EXCEPT !.lock = @ + 1] /\ UNCHANGED <<pc, irq>>
    BY <1>6 DEF EnterCritical
  <2>2. k.cur = t /\ k.stat[t] = "RUNNING"
    BY <1>1, <2>1, AtRuns
  <2>3. /\ k' \in KernelState
        /\ k'.cur = k.cur /\ k'.stat = k.stat /\ k'.prio = k.prio
        /\ k'.mask = k.mask /\ k'.ready = k.ready /\ k'.group = k.group
        /\ k'.wait = k.wait /\ k'.timers = k.timers
    <3>1. k \in KernelState
      BY DEF KernelInv, Sound, Linked
    <3>2. k.lock + 1 \in Nat
      BY <3>1 DEF KernelState
    <3> QED
      BY <2>1, <3>1, <3>2 DEF KernelState
  <2>4. "run" \in Location
    BY DEF Location
  <2> QED
    BY <1>1, <2>1, <2>2, <2>3, <2>4, PlainStep
<1>7. CASE ExitCritical(t)
  <2>1. /\ At(t, "run") /\ k.lock > 0 /\ k' = [k EXCEPT !.lock = @ - 1]
        /\ Goto(t, "sched") \/ UNCHANGED pc
        /\ UNCHANGED irq
    BY <1>7 DEF ExitCritical
  <2>2. k.cur = t /\ k.stat[t] = "RUNNING"
    BY <1>1, <2>1, AtRuns
  <2>3. /\ k' \in KernelState
        /\ k'.cur = k.cur /\ k'.stat = k.stat /\ k'.prio = k.prio
        /\ k'.mask = k.mask /\ k'.ready = k.ready /\ k'.group = k.group
        /\ k'.wait = k.wait /\ k'.timers = k.timers
    <3>1. k \in KernelState
      BY DEF KernelInv, Sound, Linked
    <3>2. k.lock \in Nat /\ k.lock > 0
      BY <2>1, <3>1 DEF KernelState
    <3>3. k.lock - 1 \in Nat
      BY <3>2
    <3> QED
      BY <2>1, <3>1, <3>3 DEF KernelState
  <2>4. "sched" \in Location
    BY DEF Location
  <2> QED
    BY <1>1, <2>1, <2>2, <2>3, <2>4, PlainStep
<1> QED
  BY <1>2, <1>3, <1>4, <1>5, <1>6, <1>7 DEF CpuStep

(* rt_thread_sleep suspends the caller, then arms its timer.               *)
LEMMA SleepKeeps ==
    ASSUME KernelInv, NEW t \in Worker, Sleep(t)
    PROVE  KernelInv' /\ Shrinks
<1>1. PICK n \in SleepTimes : k' = TimerStart(ThreadSuspend(k, t), t, n)
  BY DEF Sleep
<1>2. /\ At(t, "run") /\ k.lock = 0 /\ Goto(t, "nap") /\ UNCHANGED irq
      /\ t \in Thread /\ t # Idle /\ n \in Nat
  BY ProcessorAssumption DEF Sleep, MayBlock, Worker
<1>3. k.cur = t /\ k.stat[t] = "RUNNING" /\ Sound(k)
  BY <1>2, AtRuns DEF KernelInv
<1> DEFINE s == ThreadSuspend(k, t)
<1>4. /\ Suspends(k, s, t)
      /\ \A o \in Object : t \notin Range(s.wait[o])
  BY <1>2, <1>3, SuspendRunning
<1>5. k' = TimerStart(s, t, n)
  BY <1>1
<1> HIDE DEF s
<1>6. s.stat[t] = "SUSPEND" /\ Sound(s)
  BY <1>2, <1>3, <1>4 DEF Suspends, Sound, Linked, KernelState
<1>7. /\ Sound(k')
      /\ k'.cur = s.cur /\ k'.lock = s.lock /\ k'.stat = s.stat
      /\ k'.wait = s.wait
      /\ Range(k'.timers) = Range(s.timers) \cup {t}
  BY <1>2, <1>5, <1>6, TimerStartSound
<1>8. Suspends(k, k', t) /\ t \in Range(k'.timers)
  BY <1>4, <1>7 DEF Suspends
<1>9. KernelInv'
  BY <1>2, <1>3, <1>8, SuspendingStep
<1>10. Shrinks
  BY <1>4, <1>7 DEF Shrinks, Suspends
<1> QED
  BY <1>9, <1>10

LEMMA KernelNextKeeps ==
    ASSUME KernelInv, KernelNext
    PROVE  KernelInv' /\ Shrinks
BY TickKeeps, CpuKeeps, SleepKeeps DEF KernelNext

-----------------------------------------------------------------------------
(* What the operations of module Kernel do to thread->error and to the     *)
(* members of the suspend lists, and what every step of module Processor   *)
(* does to a thread inside a blocking call: by these an IPC object tells a *)
(* grant from a refusal.                                                   *)

(* s has the errors and the waiters of b.                                  *)
Calm(b, s) ==
    /\ s.error = b.error
    /\ \A o \in Object : Range(s.wait[o]) = Range(b.wait[o])

(* A thread that is not suspended is in no suspend list: removing it from  *)
(* its ready list leaves the waiters alone.                                *)
LEMMA RemoveCalm ==
    ASSUME NEW b, Linked(b), NEW t \in Thread, b.stat[t] # "SUSPEND"
    PROVE  Calm(b, RemoveThread(b, t))
<1> DEFINE r == RemoveThread(b, t)
<1>1. /\ r = [b EXCEPT !.ready = r.ready, !.wait = r.wait, !.group = r.group]
      /\ \A o \in Object : Range(r.wait[o]) = Range(b.wait[o]) \ {t}
  BY RemoveDetaches
<1> HIDE DEF r
<1>2. r.error = b.error
  BY <1>1 DEF Linked, KernelState
<1>3. \A o \in Object : t \notin Range(b.wait[o])
  BY DEF Linked, WaitersSuspended
<1> QED
  BY <1>1, <1>2, <1>3 DEF Calm, r

LEMMA InsertCalm ==
    ASSUME NEW b \in KernelState, NEW t \in Thread
    PROVE  InsertThread(b, t).error = b.error /\ InsertThread(b, t).wait = b.wait
BY DEF InsertThread, KernelState

(* rt_schedule.                                                            *)
LEMMA ScheduleCalm ==
    ASSUME NEW b, Sound(b)
    PROVE  Calm(b, Schedule(b))
<1>1. /\ b \in KernelState /\ Linked(b) /\ b.cur \in Thread
      /\ ReadyAgrees(b)
  BY DEF Sound, Linked, KernelState
<1>2. CASE b.lock # 0 \/ b.group = {}
  BY <1>2 DEF Schedule, Calm
<1>3. CASE ~(b.lock # 0 \/ b.group = {}) /\ KeepsCpu(b)
  <2> DEFINE r == RemoveThread(b, b.cur)
  <2>1. Calm(b, r)
    BY <1>1, <1>3, RemoveCalm DEF KeepsCpu
  <2>2. r \in KernelState
    BY <1>1, RemoveDetaches DEF Detached
  <2>3. Schedule(b) = [r EXCEPT !.yield[b.cur] = FALSE]
    BY <1>3 DEF Schedule
  <2> HIDE DEF r
  <2>4. Schedule(b).error = r.error /\ Schedule(b).wait = r.wait
    BY <2>2, <2>3 DEF KernelState
  <2> QED
    BY <2>1, <2>4 DEF Calm
<1>4. CASE ~(b.lock # 0 \/ b.group = {}) /\ ~KeepsCpu(b)
  <2> DEFINE to == Head(b.ready[HighestReady(b)])
             q == Requeue(b, to)
             r == RemoveThread(q, to)
  <2>1. to \in Thread /\ b.stat[to] = "READY"
    BY <1>1, <1>4, HighestIsReady
  <2>2. Schedule(b) = [r EXCEPT !.stat[to] = "RUNNING"]
    BY <1>4 DEF Schedule, SwitchTo
  <2> HIDE DEF to
  <2>3. /\ Linked(q) /\ q.wait = b.wait
        /\ q.stat[to] # "SUSPEND"
    BY <2>1, RequeueLinks
  <2>4. q.error = b.error
    <3> DEFINE here == [b EXCEPT !.cur = to]
               h == [here EXCEPT !.yield[b.cur] = FALSE]
    <3>1. here \in KernelState /\ here.error = b.error
      BY <1>1, <2>1 DEF KernelState
    <3>2. h \in KernelState /\ h.error = b.error
      BY <1>1, <2>1 DEF KernelState
    <3>3. q = IF b.stat[b.cur] = "RUNNING" THEN InsertThread(h, b.cur) ELSE here
      BY DEF Requeue
    <3> HIDE DEF here, h
    <3> QED
      BY <1>1, <3>1, <3>2, <3>3, InsertCalm
  <2> HIDE DEF q
  <2>5. Calm(q, r)
    BY <2>1, <2>3, RemoveCalm
  <2>6. r \in KernelState
    BY <2>1, <2>3, RemoveDetaches DEF Detached
  <2> HIDE DEF r
  <2>7. Schedule(b).error = r.error /\ Schedule(b).wait = r.wait
    BY <2>2, <2>6 DEF KernelState
  <2> QED
    BY <2>3, <2>4, <2>5, <2>7 DEF Calm
<1> QED
  BY <1>2, <1>3, <1>4

(* rt_thread_resume ends the wait of one thread.                           *)
LEMMA ResumeEffect ==
    ASSUME NEW b, Linked(b), Distinct(b.timers),
           NEW t \in Thread, b.stat[t] = "SUSPEND"
    PROVE  /\ ThreadResume(b, t).error = b.error
           /\ \A o \in Object :
                 Range(ThreadResume(b, t).wait[o]) = Range(b.wait[o]) \ {t}
<1> DEFINE u == Unlink(b, t)
           s == TimerStop(u, t)
<1>1. b \in KernelState
  BY DEF Linked
<1>2. /\ Detached(u, t)
      /\ u = [b EXCEPT !.ready = u.ready, !.wait = u.wait]
      /\ \A o \in Object : Range(u.wait[o]) = Range(b.wait[o]) \ {t}
  BY UnlinkDetaches
<1>3. ThreadResume(b, t) = InsertThread(s, t)
  BY DEF ThreadResume
<1> HIDE DEF u
<1>4. u \in KernelState /\ u.error = b.error /\ u.timers = b.timers
  BY <1>1, <1>2 DEF Detached, KernelState
<1>5. s \in KernelState /\ s = [u EXCEPT !.timers = s.timers, !.due = s.due]
  BY <1>4, TimerStopKeeps
<1> HIDE DEF s
<1>6. s.error = b.error /\ s.wait = u.wait
  BY <1>4, <1>5 DEF KernelState
<1> QED
  BY <1>2, <1>3, <1>5, <1>6, InsertCalm

(* A thread that suspends itself was in no suspend list.                   *)
LEMMA SuspendCalm ==
    ASSUME NEW b, Sound(b), NEW c \in Thread, b.stat[c] = "RUNNING"
    PROVE  Calm(b, ThreadSuspend(b, c))
<1> DEFINE r == RemoveThread(b, c)
           d == [r EXCEPT !.stat[c] = "SUSPEND"]
           s == TimerStop(d, c)
<1>1. Linked(b) /\ b \in KernelState /\ Distinct(b.timers)
  BY DEF Sound, Linked, Timed
<1>2. /\ Detached(r, c)
      /\ r = [b EXCEPT !.ready = r.ready, !.wait = r.wait, !.group = r.group]
  BY <1>1, RemoveDetaches
<1>3. Calm(b, r)
  BY <1>1, RemoveCalm
<1>4. ThreadSuspend(b, c) = s
  BY DEF ThreadSuspend
<1> HIDE DEF r
<1>5. r \in KernelState /\ r.timers = b.timers
  BY <1>1, <1>2 DEF Detached, KernelState
<1>6. /\ d \in KernelState /\ d.timers = b.timers
      /\ d.error = r.error /\ d.wait = r.wait
  BY <1>5 DEF KernelState, Stat
<1> HIDE DEF d
<1>7. s \in KernelState /\ s = [d EXCEPT !.timers = s.timers, !.due = s.due]
  BY <1>1, <1>6, TimerStopKeeps
<1> HIDE DEF s
<1>8. s.error = d.error /\ s.wait = d.wait
  BY <1>6, <1>7 DEF KernelState
<1> QED
  BY <1>3, <1>4, <1>6, <1>8 DEF Calm

LEMMA TimerStartCalm ==
    ASSUME NEW b, Sound(b), NEW t \in Thread, NEW n \in Nat
    PROVE  /\ TimerStart(b, t, n).error = b.error
           /\ TimerStart(b, t, n).wait = b.wait
<1> DEFINE s == TimerStart(b, t, n)
<1>1. b \in KernelState /\ Distinct(b.timers)
  BY DEF Sound, Linked, Timed
<1>2. s \in KernelState /\ s = [b EXCEPT !.due = s.due, !.timers = s.timers]
  BY <1>1, TimerStartKeeps
<1> HIDE DEF s
<1>3. s.error = b.error /\ s.wait = b.wait
  BY <1>1, <1>2 DEF KernelState
<1> QED
  BY <1>3 DEF s

(* The common part of the blocking calls.                                  *)
LEMMA BlockEffect ==
    ASSUME NEW b, Sound(b), NEW c \in Thread, b.stat[c] = "RUNNING",
           c # Idle, b.lock = 0,
           NEW o \in Object, NEW flag, NEW time \in Int
    PROVE  LET s == Block(b, o, c, flag, time)
           IN  /\ s.error = [b.error EXCEPT ![c] = "OK"]
               /\ \A x \in Object : Range(s.wait[x]) =
                     Range(b.wait[x]) \cup (IF x = o THEN {c} ELSE {})
<1> DEFINE e == [b EXCEPT !.error[c] = "OK"]
           q == ThreadSuspend(e, c)
           s == Join(q, o, c, flag)
           z == TimerStart(s, c, time)
<1>1. Block(b, o, c, flag, time) = IF time > 0 THEN z ELSE s
  BY DEF Block, IpcListSuspend
<1>2. /\ e \in KernelState
      /\ e.cur = b.cur /\ e.stat = b.stat /\ e.prio = b.prio
      /\ e.mask = b.mask /\ e.ready = b.ready /\ e.group = b.group
      /\ e.wait = b.wait /\ e.timers = b.timers /\ e.lock = b.lock
      /\ e.error = [b.error EXCEPT ![c] = "OK"]
  BY DEF Sound, Linked, KernelState, Error
<1> HIDE DEF e
<1>3. Sound(e) /\ e.stat[c] = "RUNNING" /\ e.lock = 0
  BY <1>2, PlainUpdate
<1>4. /\ Suspends(e, q, c)
      /\ \A x \in Object : c \notin Range(q.wait[x])
  BY <1>3, SuspendRunning
<1>5. Calm(e, q)
  BY <1>3, SuspendCalm
<1> HIDE DEF q
<1>6. Sound(q) /\ q \in KernelState /\ q.stat[c] = "SUSPEND"
  BY <1>2, <1>4 DEF Suspends, Sound, Linked, KernelState
<1>7. /\ Sound(s)
      /\ \A x \in Object : Range(s.wait[x]) =
            Range(q.wait[x]) \cup (IF x = o THEN {c} ELSE {})
  BY <1>4, <1>6, JoinSound
<1>8. s.error = q.error
  BY <1>6 DEF Join, KernelState
<1> HIDE DEF s
<1>9. time > 0 => z.error = s.error /\ z.wait = s.wait
  <2>1. SUFFICES ASSUME time > 0 PROVE z.error = s.error /\ z.wait = s.wait
    OBVIOUS
  <2>2. time \in Nat
    BY <2>1
  <2> QED
    BY <1>7, <2>2, TimerStartCalm
<1> HIDE DEF z
<1> QED
  BY <1>1, <1>2, <1>5, <1>7, <1>8, <1>9 DEF Calm

(* Thread c has blocked in list o, from state b to s.                      *)
Blocked(b, s, c, o) ==
    /\ Suspends(b, s, c) /\ c \in Range(s.wait[o])
    /\ s.error = [b.error EXCEPT ![c] = "OK"]
    /\ \A x \in Object : Range(s.wait[x]) =
           Range(b.wait[x]) \cup (IF x = o THEN {c} ELSE {})
    /\ s.stat = [b.stat EXCEPT ![c] = "SUSPEND"] /\ s.lock = 0

LEMMA BlockGives ==
    ASSUME NEW b, Sound(b), NEW c \in Thread, b.stat[c] = "RUNNING",
           c # Idle, b.lock = 0,
           NEW o \in Object, NEW flag, NEW time \in Int,
           NEW s, s = Block(b, o, c, flag, time)
    PROVE  Blocked(b, s, c, o)
<1>1. Suspends(b, s, c) /\ c \in Range(s.wait[o])
  BY BlockSuspends
<1>2. /\ s.error = [b.error EXCEPT ![c] = "OK"]
      /\ \A x \in Object : Range(s.wait[x]) =
            Range(b.wait[x]) \cup (IF x = o THEN {c} ELSE {})
  BY BlockEffect
<1>3. s.stat = [b.stat EXCEPT ![c] = "SUSPEND"] /\ s.lock = 0
  BY <1>1 DEF Suspends
<1> QED
  BY <1>1, <1>2, <1>3 DEF Blocked

(* A turn of rt_timer_check refuses the call of one thread.                *)
LEMMA TimerFireEffect ==
    ASSUME NEW b, Sound(b), b.timers # <<>>
    PROVE  LET t == Head(b.timers)
               s == TimerFire(b)
           IN  /\ t \in Thread /\ b.stat[t] = "SUSPEND"
               /\ s.stat[t] # "SUSPEND"
               /\ s.error = [b.error EXCEPT ![t] = "TIMEOUT"]
               /\ \A o \in Object : Range(s.wait[o]) = Range(b.wait[o]) \ {t}
<1> DEFINE t == Head(b.timers)
           e == [[b EXCEPT !.timers = Tail(@), !.due[t] = 0]
                    EXCEPT !.error[t] = "TIMEOUT"]
           u == Unlink(e, t)
           i == InsertThread(u, t)
<1>1. /\ b \in KernelState /\ b.timers \in Seq(Thread) /\ Distinct(b.timers)
  BY DEF Sound, Linked, Timed, KernelState
<1>2. /\ t \in Thread /\ t \in Range(b.timers)
      /\ Tail(b.timers) \in Seq(Thread)
      /\ Distinct(Tail(b.timers))
      /\ Range(Tail(b.timers)) = Range(b.timers) \ {t}
  BY <1>1, HeadIn, TailProperties
<1>3. b.stat[t] = "SUSPEND"
  BY <1>2 DEF Sound, Timed
<1>4. TimerFire(b) = Schedule(i)
  BY DEF TimerFire, ThreadTimeout
<1> HIDE DEF t
<1>5. /\ e \in KernelState
      /\ e.cur = b.cur /\ e.stat = b.stat /\ e.prio = b.prio
      /\ e.mask = b.mask /\ e.ready = b.ready /\ e.group = b.group
      /\ e.wait = b.wait /\ e.timers = Tail(b.timers) /\ e.lock = b.lock
      /\ e.error = [b.error EXCEPT ![t] = "TIMEOUT"]
  <2>1. 0 \in Tick /\ "TIMEOUT" \in Error
    BY KernelAssumption DEF Tick, Error
  <2> QED
    BY <1>1, <1>2, <2>1 DEF KernelState
<1> HIDE DEF e
<1>6. Linked(e)
  <2>1. ReadyAgrees(e)
    BY <1>5 DEF Sound, Linked, ReadyAgrees
  <2>2. WaitersSuspended(e)
    BY <1>5 DEF Sound, Linked, WaitersSuspended
  <2> QED
    BY <1>5, <2>1, <2>2 DEF Linked
<1>7. /\ Detached(u, t)
      /\ u = [e EXCEPT !.ready = u.ready, !.wait = u.wait]
      /\ \A o \in Object : Range(u.wait[o]) = Range(e.wait[o]) \ {t}
  <2>1. e.stat[t] # "READY"
    BY <1>3, <1>5
  <2> QED
    BY <1>2, <1>6, <2>1, UnlinkDetaches
<1> HIDE DEF u
<1>8. /\ u.cur = b.cur /\ u.stat = b.stat /\ u.lock = b.lock
      /\ u.timers = Tail(b.timers) /\ u.error = e.error
  BY <1>5, <1>7 DEF KernelState
<1>14. u \in KernelState
  BY <1>7 DEF Detached
<1>9. /\ Distinct(u.timers) /\ Range(u.timers) = Range(b.timers) \ {t}
      /\ \A o \in Object : Range(u.wait[o]) = Range(b.wait[o]) \ {t}
  BY <1>2, <1>5, <1>7, <1>8
<1>10. Wakes(b, i) /\ i.stat[t] # "SUSPEND"
  <2>1. t \in Thread /\ b.stat[t] = "SUSPEND" /\ Detached(u, t)
    BY <1>2, <1>3, <1>7
  <2>2. u.cur = b.cur /\ u.stat = b.stat /\ u.lock = b.lock
    BY <1>8
  <2>3. Wakes(b, InsertThread(u, t)) /\ InsertThread(u, t).stat[t] # "SUSPEND"
    BY <2>1, <2>2, <1>9, InsertWakes
  <2> QED
    BY <2>3
<1>11. i.error = u.error /\ i.wait = u.wait
  BY <1>2, <1>14, InsertCalm
<1> HIDE DEF i
<1>12. Calm(i, Schedule(i))
  BY <1>10, ScheduleCalm DEF Wakes
<1>13. /\ TimerFire(b).error = [b.error EXCEPT ![t] = "TIMEOUT"]
       /\ \A o \in Object : Range(TimerFire(b).wait[o]) = Range(b.wait[o]) \ {t}
  BY <1>4, <1>5, <1>8, <1>9, <1>11, <1>12 DEF Calm
<1>15. TimerFire(b).stat[t] # "SUSPEND"
  BY <1>2, <1>4, <1>10, ScheduleWakes DEF Wakes
<1> QED
  BY <1>2, <1>3, <1>13, <1>15 DEF t

(* rt_tick_increase ends nobody's wait.                                    *)
LEMMA TickIncreaseCalm ==
    ASSUME NEW b, Sound(b)
    PROVE  Calm(b, TickIncrease(b))
<1> DEFINE c == b.cur
           n == [b EXCEPT !.tick = Later(b, 1)]
<1>1. /\ b \in KernelState /\ c \in Thread
      /\ InitTick \in [Thread -> Nat \ {0}]
  BY KernelAssumption DEF Sound, Linked, KernelState
<1>2. Later(b, 1) \in Tick
  <2>1. b.tick + 1 \in Int
    BY <1>1, KernelAssumption DEF KernelState, Tick
  <2> QED
    BY <2>1, TickWraps DEF Later
<1>3. CASE b.remaining[c] = 1
  <2> DEFINE y == [n EXCEPT !.remaining[c] = InitTick[c], !.yield[c] = TRUE]
  <2>1. TickIncrease(b) = Schedule(y)
    BY <1>3 DEF TickIncrease, ThreadYield
  <2>2. /\ y \in KernelState
        /\ y.cur = b.cur /\ y.stat = b.stat /\ y.prio = b.prio
        /\ y.mask = b.mask /\ y.ready = b.ready /\ y.group = b.group
        /\ y.wait = b.wait /\ y.timers = b.timers /\ y.lock = b.lock
        /\ y.error = b.error
    BY <1>1, <1>2 DEF KernelState
  <2> HIDE DEF y
  <2>3. Sound(y)
    BY <2>2, PlainUpdate
  <2>4. Calm(y, Schedule(y))
    BY <2>3, ScheduleCalm
  <2> QED
    BY <2>1, <2>2, <2>4 DEF Calm
<1>4. CASE b.remaining[c] # 1
  <2>1. TickIncrease(b) = [n EXCEPT !.remaining[c] = @ - 1]
    BY <1>4 DEF TickIncrease
  <2>2. TickIncrease(b).error = b.error /\ TickIncrease(b).wait = b.wait
    BY <1>1, <2>1 DEF KernelState
  <2> QED
    BY <2>2 DEF Calm
<1> QED
  BY <1>3, <1>4

(* rt_thread_startup.                                                      *)
LEMMA StartupCalm ==
    ASSUME NEW b, Sound(b), NEW u \in Thread, b.stat[u] = "INIT"
    PROVE  Calm(b, ThreadStartup(b, u))
<1> DEFINE e == [b EXCEPT !.prio[u] = InitPrio[u],
                          !.mask[u] = InitPrio[u],
                          !.stat[u] = "SUSPEND"]
<1>1. ThreadStartup(b, u) = ThreadResume(e, u)
  BY DEF ThreadStartup
<1>2. b \in KernelState /\ InitPrio[u] \in Prio
  BY KernelAssumption DEF Sound, Linked
<1>3. /\ e \in KernelState
      /\ e.stat = [b.stat EXCEPT ![u] = "SUSPEND"]
      /\ e.prio = [b.prio EXCEPT ![u] = InitPrio[u]]
      /\ e.mask = [b.mask EXCEPT ![u] = InitPrio[u]]
      /\ e.ready = b.ready /\ e.group = b.group
      /\ e.wait = b.wait /\ e.timers = b.timers /\ e.error = b.error
  BY <1>2 DEF KernelState, Stat
<1> HIDE DEF e
<1>4. /\ e.stat[u] = "SUSPEND"
      /\ \A t \in Thread \ {u} :
            e.stat[t] = b.stat[t] /\ e.prio[t] = b.prio[t]
  BY <1>2, <1>3 DEF KernelState
<1>5. ReadyAgrees(e)
  <2>1. e.mask = e.prio
    BY <1>2, <1>3 DEF Sound, Linked, ReadyAgrees, KernelState
  <2>2. \A p \in Prio, t \in Thread :
          t \in Range(e.ready[p]) <=> e.stat[t] = "READY" /\ e.prio[t] = p
    BY <1>3, <1>4 DEF Sound, Linked, ReadyAgrees
  <2> QED
    BY <1>3, <2>1, <2>2 DEF Sound, Linked, ReadyAgrees
<1>6. WaitersSuspended(e)
  BY <1>3, <1>4 DEF Sound, Linked, WaitersSuspended
<1>7. Linked(e) /\ Distinct(e.timers)
  BY <1>3, <1>5, <1>6 DEF Linked, Sound, Timed
<1>8. /\ ThreadResume(e, u).error = e.error
      /\ \A o \in Object :
            Range(ThreadResume(e, u).wait[o]) = Range(e.wait[o]) \ {u}
  BY <1>4, <1>7, ResumeEffect
<1>9. \A o \in Object : u \notin Range(b.wait[o])
  BY DEF Sound, Linked, WaitersSuspended
<1> QED
  BY <1>1, <1>3, <1>8, <1>9 DEF Calm

-----------------------------------------------------------------------------
(* The steps of module Processor, seen from a blocking call: thread t is   *)
(* inside one from its suspension to its return.                           *)
Inside(t) == pc[t] \in {"wait", "woken"}

(* The call of t goes on as it was.                                        *)
GoesOn(t) ==
    /\ k'.stat[t] = "SUSPEND" => k.stat[t] = "SUSPEND"
    /\ k'.error[t] = k.error[t]
    /\ \A o \in Object : t \in Range(k'.wait[o]) <=> t \in Range(k.wait[o])

(* The timer of t has just ended its wait.                                 *)
Refused(t) ==
    /\ k.stat[t] = "SUSPEND" /\ k'.stat[t] # "SUSPEND"
    /\ k'.error[t] = "TIMEOUT"
    /\ \A o \in Object : Range(k'.wait[o]) = Range(k.wait[o]) \ {t}

(* No call starts or ends, and at most one is refused.                     *)
CallsGoOn ==
    /\ \A t \in Thread : Inside(t)' <=> Inside(t)
    /\ \E h \in Thread :
          /\ Inside(h) => GoesOn(h) \/ Refused(h)
          /\ \A t \in Thread \ {h} : Inside(t) => GoesOn(t)

LEMMA AllGoOn ==
    ASSUME \A t \in Thread : Inside(t)' <=> Inside(t),
           \A t \in Thread : Inside(t) => GoesOn(t)
    PROVE  CallsGoOn
BY KernelAssumption DEF CallsGoOn

LEMMA CalmGoesOn ==
    ASSUME Wakes(k, k'), Calm(k, k'), NEW t \in Thread
    PROVE  GoesOn(t)
BY DEF Wakes, Calm, GoesOn

(* rt_schedule moves the caller from the suspension to the wakeup of its   *)
(* call, and no other place is inside one.                                 *)
LEMMA GotoInside ==
    ASSUME pc \in [Thread -> Location], NEW t \in Thread, NEW loc \in Location,
           Goto(t, loc),
           loc \in {"wait", "woken"} <=> Inside(t)
    PROVE  \A u \in Thread : Inside(u)' <=> Inside(u)
BY DEF Goto, Inside

(* A step of the running thread t in its own code, by which nobody else is *)
(* woken or refused.                                                       *)
LEMMA OutsideStep ==
    ASSUME KernelInv, NEW t \in Thread, pc[t] \in Location \ {"wait", "woken"},
           NEW loc \in Location \ {"wait", "woken"}, Goto(t, loc) \/ UNCHANGED pc,
           \A u \in Thread \ {t} : GoesOn(u)
    PROVE  CallsGoOn
<1>1. \A u \in Thread : Inside(u)' <=> Inside(u)
  <2>1. CASE Goto(t, loc)
    BY <2>1, GotoInside DEF KernelInv, Inside
  <2>2. CASE UNCHANGED pc
    BY <2>2 DEF Inside
  <2> QED
    BY <2>1, <2>2
<1>2. ~Inside(t)
  BY DEF Inside
<1> QED
  BY <1>1, <1>2, AllGoOn

LEMMA TickGoesOn ==
    ASSUME KernelInv, TickIsr
    PROVE  CallsGoOn
<1>1. Sound(k) /\ UNCHANGED pc
  BY DEF KernelInv, TickIsr, TickInterrupt, TimerCheck, TickReturn
<1>2. CASE TickInterrupt
  <2>1. Wakes(k, k') /\ Calm(k, k')
    BY <1>1, <1>2, TickIncreaseWakes, TickIncreaseCalm DEF TickInterrupt
  <2> QED
    BY <1>1, <2>1, CalmGoesOn, AllGoOn DEF Inside
<1>3. CASE TimerCheck
  <2> DEFINE h == Head(k.timers)
  <2>1. k.timers # <<>> /\ k' = TimerFire(k)
    BY <1>3 DEF TimerCheck, TimerExpired
  <2>2. /\ Wakes(k, k') /\ h \in Thread
        /\ k.stat[h] = "SUSPEND" /\ k'.stat[h] # "SUSPEND"
        /\ k'.error = [k.error EXCEPT ![h] = "TIMEOUT"]
        /\ \A o \in Object : Range(k'.wait[o]) = Range(k.wait[o]) \ {h}
    BY <1>1, <2>1, TimerFireWakes, TimerFireEffect
  <2> HIDE DEF h
  <2>3. k.error \in [Thread -> Error]
    BY <1>1 DEF Sound, Linked, KernelState
  <2>4. Refused(h) /\ \A t \in Thread \ {h} : GoesOn(t)
    BY <2>2, <2>3 DEF GoesOn, Refused, Wakes
  <2> QED
    BY <1>1, <2>2, <2>4 DEF CallsGoOn, Inside
<1>4. CASE TickReturn
  <2>1. UNCHANGED k
    BY <1>4 DEF TickReturn
  <2>2. Wakes(k, k') /\ Calm(k, k')
    BY <1>1, <2>1, WakesNone DEF Calm
  <2> QED
    BY <1>1, <2>2, CalmGoesOn, AllGoOn DEF Inside
<1> QED
  BY <1>2, <1>3, <1>4 DEF TickIsr

LEMMA CpuGoesOn ==
    ASSUME KernelInv, NEW t \in Worker, CpuStep(t)
    PROVE  CallsGoOn
<1>1. /\ Sound(k) /\ k \in KernelState /\ t \in Thread
      /\ pc \in [Thread -> Location]
      /\ k.error \in [Thread -> Error]
  BY DEF KernelInv, Sound, Linked, Worker, KernelState
<1>2. CASE RtSchedule(t)
  <2>1. PICK loc \in {"sched", "nap", "wait"} :
           /\ pc[t] = loc
           /\ k' = Schedule(k)
           /\ Goto(t, CASE loc = "sched" -> "run"
                        [] loc = "nap"   -> "napped"
                        [] loc = "wait"  -> "woken")
    BY <1>2 DEF RtSchedule, At
  <2>2. Wakes(k, k') /\ Calm(k, k')
    BY <1>1, <2>1, ScheduleWakes, ScheduleCalm
  <2>3. \A u \in Thread : Inside(u)' <=> Inside(u)
    BY <1>1, <2>1 DEF Goto, Inside
  <2> QED
    BY <2>2, <2>3, CalmGoesOn, AllGoOn
<1>3. CASE \E u \in Worker : Startup(t, u)
  <2>1. PICK u \in Worker : Startup(t, u)
    BY <1>3
  <2>2. /\ pc[t] = "run" /\ k.stat[u] = "INIT" /\ k' = ThreadStartup(k, u)
        /\ Goto(t, "sched") /\ u \in Thread
    BY <2>1 DEF Startup, At, Worker
  <2>3. Wakes(k, k') /\ Calm(k, k')
    BY <1>1, <2>2, StartupWakes, StartupCalm
  <2>4. \A v \in Thread : GoesOn(v)
    BY <2>3, CalmGoesOn
  <2> QED
    BY <1>1, <2>2, <2>4, OutsideStep DEF Location
<1>4. CASE Yield(t)
  <2> DEFINE y == [k EXCEPT !.remaining[t] = InitTick[t], !.yield[t] = TRUE]
  <2>1. k' = Schedule(y) /\ UNCHANGED pc
    BY <1>4 DEF Yield, ThreadYield
  <2>2. /\ y \in KernelState
        /\ y.cur = k.cur /\ y.stat = k.stat /\ y.prio = k.prio
        /\ y.mask = k.mask /\ y.ready = k.ready /\ y.group = k.group
        /\ y.wait = k.wait /\ y.timers = k.timers /\ y.lock = k.lock
        /\ y.error = k.error
    BY <1>1, KernelAssumption DEF KernelState
  <2> HIDE DEF y
  <2>3. Sound(y) /\ Wakes(k, y)
    BY <1>1, <2>2, PlainUpdate
  <2>4. Wakes(y, k') /\ Calm(y, k')
    BY <2>1, <2>3, ScheduleWakes, ScheduleCalm
  <2>5. Wakes(k, k') /\ Calm(k, k')
    BY <2>2, <2>3, <2>4, WakesTransitive DEF Calm
  <2> QED
    BY <2>1, <2>5, CalmGoesOn, AllGoOn DEF Inside
<1>5. CASE Napped(t) \/ EnterCritical(t) \/ ExitCritical(t)
  <2>1. /\ pc[t] \in {"run", "napped"}
        /\ \E loc \in {"run", "sched"} : Goto(t, loc) \/ UNCHANGED pc
        /\ \A u \in Thread \ {t} : k'.error[u] = k.error[u]
        /\ k'.stat = k.stat /\ k'.wait = k.wait
    <3>1. CASE Napped(t)
      <4> DEFINE e == [k.error EXCEPT ![t] = IF @ = "TIMEOUT" THEN "OK" ELSE @]
      <4>1. pc[t] = "napped" /\ Goto(t, "run") /\ k' = [k EXCEPT !.error = e]
        BY <1>1, <3>1 DEF Napped, At, KernelState
      <4>2. \A u \in Thread \ {t} : e[u] = k.error[u]
        BY <1>1
      <4> HIDE DEF e
      <4>3. k'.error = e /\ k'.stat = k.stat /\ k'.wait = k.wait
        BY <1>1, <4>1 DEF KernelState
      <4> QED
        BY <4>1, <4>2, <4>3
    <3>2. CASE EnterCritical(t)
      <4>1. k'.error = k.error /\ k'.stat = k.stat /\ k'.wait = k.wait
        BY <1>1, <3>2 DEF EnterCritical, KernelState
      <4>2. pc[t] = "run" /\ UNCHANGED pc
        BY <3>2 DEF EnterCritical, At
      <4> QED
        BY <4>1, <4>2
    <3>3. CASE ExitCritical(t)
      <4>1. k'.error = k.error /\ k'.stat = k.stat /\ k'.wait = k.wait
        BY <1>1, <3>3 DEF ExitCritical, KernelState
      <4>2. pc[t] = "run" /\ (Goto(t, "sched") \/ UNCHANGED pc)
        BY <3>3 DEF ExitCritical, At
      <4> QED
        BY <4>1, <4>2
    <3> QED
      BY <1>5, <3>1, <3>2, <3>3
  <2>2. \A u \in Thread \ {t} : GoesOn(u)
    BY <2>1 DEF GoesOn
  <2>3. PICK loc \in {"run", "sched"} : Goto(t, loc) \/ UNCHANGED pc
    BY <2>1
  <2> QED
    BY <1>1, <2>1, <2>2, <2>3, OutsideStep DEF Location
<1> QED
  BY <1>2, <1>3, <1>4, <1>5 DEF CpuStep

LEMMA SleepGoesOn ==
    ASSUME KernelInv, NEW t \in Worker, Sleep(t)
    PROVE  CallsGoOn
<1>1. PICK n \in SleepTimes : k' = TimerStart(ThreadSuspend(k, t), t, n)
  BY DEF Sleep
<1>2. /\ At(t, "run") /\ k.lock = 0 /\ Goto(t, "nap")
      /\ t \in Thread /\ t # Idle /\ n \in Nat
  BY ProcessorAssumption DEF Sleep, MayBlock, Worker
<1>3. k.cur = t /\ k.stat[t] = "RUNNING" /\ Sound(k)
  BY <1>2, AtRuns DEF KernelInv
<1> DEFINE s == ThreadSuspend(k, t)
<1>4. Suspends(k, s, t) /\ Calm(k, s)
  BY <1>2, <1>3, SuspendRunning, SuspendCalm
<1>5. k' = TimerStart(s, t, n)
  BY <1>1
<1> HIDE DEF s
<1>6. s.stat[t] = "SUSPEND" /\ Sound(s)
  BY <1>2, <1>3, <1>4 DEF Suspends, Sound, Linked, KernelState
<1>7. /\ k'.stat = s.stat /\ k'.wait = s.wait /\ k'.error = s.error
  BY <1>2, <1>5, <1>6, TimerStartSound, TimerStartCalm
<1>8. \A u \in Thread \ {t} : k'.stat[u] = k.stat[u]
  BY <1>3, <1>4, <1>7 DEF Suspends, Sound, Linked, KernelState
<1>9. \A u \in Thread \ {t} : GoesOn(u)
  BY <1>4, <1>7, <1>8 DEF GoesOn, Calm
<1> QED
  BY <1>2, <1>9, OutsideStep DEF At, Location

(* No step of the processor starts or ends a call of another module: the   *)
(* threads inside one are left alone, or one of them is refused.           *)
LEMMA KernelNextGoesOn ==
    ASSUME KernelInv, KernelNext
    PROVE  CallsGoOn
BY TickGoesOn, CpuGoesOn, SleepGoesOn DEF KernelNext

-----------------------------------------------------------------------------
(* The calls that wait in a suspend list and test their object again when  *)
(* they run.  w[t] is the set of lists that the call of t may wait in: one *)
(* list, or none when t is in no such call.                                *)
WaitsAgree(b, p, w) ==
    /\ w \in [Thread -> SUBSET Object]
    /\ \A t \in Thread : w[t] # {} <=> p[t] \in {"wait", "woken"}
    /\ \A o \in Object, t \in Thread :
          t \in Range(b.wait[o]) => w[t] = {o} /\ b.error[t] = "OK"
    /\ \A t \in Thread : w[t] # {} /\ b.stat[t] = "SUSPEND" =>
          \E o \in Object : t \in Range(b.wait[o])

(* The threads that were woken from list o and will test their object.     *)
Pending(b, w, o) ==
    {t \in Thread : /\ w[t] = {o}
                    /\ b.error[t] = "OK"
                    /\ t \notin Range(b.wait[o])}

LEMMA PendingFinite ==
    ASSUME NEW S \in SUBSET Thread
    PROVE  IsFiniteSet(S) /\ Cardinality(S) \in Nat
BY FS_Subset, FS_CardinalityType, KernelAssumption

(* A step in which the threads of U are woken and the calls of the threads *)
(* of L end.                                                               *)
CallsSettle(L, U) ==
    /\ \A t \in L : k.stat[t] # "SUSPEND"
    /\ \A t \in Thread : pc'[t] \in {"wait", "woken"}
                             <=> pc[t] \in {"wait", "woken"} /\ t \notin L
    /\ \A t \in Thread : k'.stat[t] = "SUSPEND" =>
                             k.stat[t] = "SUSPEND" /\ t \notin U
    /\ \A t \in U : \E o \in Object : t \in Range(k.wait[o])
    /\ \A o \in Object, t \in Thread :
           t \in Range(k'.wait[o]) <=> t \in Range(k.wait[o]) /\ t \notin U
    /\ \A t \in Thread : k'.error[t] = k.error[t] \/ t \in U \cup L

Ended(w, L) == [t \in Thread |-> IF t \in L THEN {} ELSE w[t]]

LEMMA WaitsEnd ==
    ASSUME KernelInv, NEW w, WaitsAgree(k, pc, w),
           NEW L \in SUBSET Thread, NEW U \in SUBSET Thread, CallsSettle(L, U)
    PROVE  /\ WaitsAgree(k', pc', Ended(w, L))
           /\ \A o \in Object, t \in Thread :
                 t \in Pending(k', Ended(w, L), o) <=>
                     \/ t \in Pending(k, w, o) /\ t \notin L
                     \/ t \in U /\ t \in Range(k.wait[o]) /\ k'.error[t] = "OK"
<1> DEFINE v == Ended(w, L)
<1>1. /\ v \in [Thread -> SUBSET Object]
      /\ \A t \in L : v[t] = {}
      /\ \A t \in Thread : t \notin L => v[t] = w[t]
  BY DEF WaitsAgree, Ended
<1> HIDE DEF v
<1>2. \A o \in Object, t \in Thread :
          t \in Range(k.wait[o]) => t \notin L /\ w[t] = {o} /\ k.error[t] = "OK"
  BY DEF WaitsAgree, CallsSettle, KernelInv, Sound, Linked, WaitersSuspended
<1>3. WaitsAgree(k', pc', v)
  <2>1. \A t \in Thread : v[t] # {} <=> pc'[t] \in {"wait", "woken"}
    BY <1>1 DEF WaitsAgree, CallsSettle
  <2>2. ASSUME NEW o \in Object, NEW t \in Thread, t \in Range(k'.wait[o])
        PROVE  v[t] = {o} /\ k'.error[t] = "OK"
    BY <1>1, <1>2, <2>2 DEF CallsSettle
  <2>3. ASSUME NEW t \in Thread, v[t] # {}, k'.stat[t] = "SUSPEND"
        PROVE  \E o \in Object : t \in Range(k'.wait[o])
    BY <1>1, <2>3 DEF WaitsAgree, CallsSettle
  <2> QED
    BY <1>1, <2>1, <2>2, <2>3 DEF WaitsAgree
<1>4. ASSUME NEW o \in Object, NEW t \in Thread
      PROVE  t \in Pending(k', v, o) <=>
                 \/ t \in Pending(k, w, o) /\ t \notin L
                 \/ t \in U /\ t \in Range(k.wait[o]) /\ k'.error[t] = "OK"
  <2>1. CASE t \in L
    BY <1>1, <1>2, <2>1 DEF Pending
  <2>2. CASE t \in U /\ t \notin L
    <3>1. PICK x \in Object : t \in Range(k.wait[x])
      BY <2>2 DEF CallsSettle
    <3>2. w[t] = {x} /\ t \notin Range(k'.wait[x])
      BY <1>2, <2>2, <3>1 DEF CallsSettle
    <3>3. o # x => t \notin Range(k.wait[o])
      BY <1>2, <3>2
    <3> QED
      BY <1>1, <2>2, <3>1, <3>2, <3>3 DEF Pending, CallsSettle
  <2>3. CASE t \notin U /\ t \notin L
    BY <1>1, <2>3 DEF Pending, CallsSettle
  <2> QED
    BY <2>1, <2>2, <2>3
<1> QED
  BY <1>3, <1>4 DEF v

(* The running thread t suspends itself on list o, perhaps once more.      *)
Begins(w, v, t, o) ==
    /\ KernelInv /\ WaitsAgree(k, pc, w)
    /\ t \in Thread /\ o \in Object
    /\ w[t] \subseteq {o} /\ v = [w EXCEPT ![t] = {o}]
    /\ k.stat[t] = "RUNNING"
    /\ k'.stat = [k.stat EXCEPT ![t] = "SUSPEND"]
    /\ k'.error = [k.error EXCEPT ![t] = "OK"]
    /\ \A x \in Object : Range(k'.wait[x]) =
           Range(k.wait[x]) \cup (IF x = o THEN {t} ELSE {})
    /\ Goto(t, "wait")

LEMMA WaitsBegin ==
    ASSUME NEW w, NEW v, NEW t, NEW o, Begins(w, v, t, o)
    PROVE  /\ WaitsAgree(k', pc', v)
           /\ \A x \in Object, u \in Thread : u \in Pending(k', v, x)
                    <=> u \in Pending(k, w, x) /\ u # t
<1> /\ KernelInv /\ WaitsAgree(k, pc, w) /\ t \in Thread /\ o \in Object
    /\ w[t] \subseteq {o} /\ v = [w EXCEPT ![t] = {o}]
  BY DEF Begins
<1>1. /\ v \in [Thread -> SUBSET Object] /\ v[t] = {o}
      /\ \A u \in Thread \ {t} : v[u] = w[u]
  BY DEF WaitsAgree
<1>2. /\ pc'[t] = "wait"
      /\ \A u \in Thread \ {t} : pc'[u] = pc[u]
  BY DEF Goto, KernelInv, Begins
<1>3. /\ k.error \in [Thread -> Error] /\ k.stat \in [Thread -> Stat]
  BY DEF KernelInv, Sound, Linked, KernelState
<1>4. /\ k'.error[t] = "OK" /\ k'.stat[t] = "SUSPEND"
      /\ \A u \in Thread \ {t} :
            k'.error[u] = k.error[u] /\ k'.stat[u] = k.stat[u]
  BY <1>3 DEF Begins
<1>5. /\ t \in Range(k'.wait[o])
      /\ \A x \in Object : t \notin Range(k.wait[x])
      /\ \A x \in Object : \A u \in Thread \ {t} :
            u \in Range(k'.wait[x]) <=> u \in Range(k.wait[x])
      /\ \A x \in Object \ {o} : t \notin Range(k'.wait[x])
  BY DEF KernelInv, Sound, Linked, WaitersSuspended, Begins
<1>6. WaitsAgree(k', pc', v)
  <2>1. \A u \in Thread : v[u] # {} <=> pc'[u] \in {"wait", "woken"}
    BY <1>1, <1>2 DEF WaitsAgree
  <2>2. ASSUME NEW x \in Object, NEW u \in Thread, u \in Range(k'.wait[x])
        PROVE  v[u] = {x} /\ k'.error[u] = "OK"
    BY <1>1, <1>4, <1>5, <2>2 DEF WaitsAgree
  <2>3. ASSUME NEW u \in Thread, v[u] # {}, k'.stat[u] = "SUSPEND"
        PROVE  \E x \in Object : u \in Range(k'.wait[x])
    BY <1>1, <1>4, <1>5, <2>3 DEF WaitsAgree
  <2> QED
    BY <1>1, <2>1, <2>2, <2>3 DEF WaitsAgree
<1>7. ASSUME NEW x \in Object, NEW u \in Thread
      PROVE  u \in Pending(k', v, x) <=> u \in Pending(k, w, x) /\ u # t
  BY <1>1, <1>4, <1>5 DEF Pending
<1> QED
  BY <1>6, <1>7

(* A step of the processor wakes nobody with RT_EOK and ends no call.      *)
LEMMA KernelNextWaits ==
    ASSUME KernelInv, KernelNext, NEW w, WaitsAgree(k, pc, w)
    PROVE  /\ WaitsAgree(k', pc', w)
           /\ \A o \in Object : /\ Pending(k', w, o) = Pending(k, w, o)
                                /\ k'.wait[o] # <<>> => k.wait[o] # <<>>
<1>1. CallsGoOn /\ KernelInv' /\ Shrinks
  BY KernelNextGoesOn, KernelNextKeeps
<1>2. PICK h \in Thread :
         /\ Inside(h) => GoesOn(h) \/ Refused(h)
         /\ \A t \in Thread \ {h} : Inside(t) => GoesOn(t)
  BY <1>1 DEF CallsGoOn
<1>3. \A t \in Thread : w[t] # {} <=> Inside(t)
  BY DEF WaitsAgree, Inside
<1>4. \A t \in Thread : w[t] # {} => GoesOn(t) \/ (t = h /\ Refused(t))
  BY <1>2, <1>3
<1>5. WaitsAgree(k', pc', w)
  <2>1. \A t \in Thread : w[t] # {} <=> pc'[t] \in {"wait", "woken"}
    BY <1>1, <1>3 DEF CallsGoOn, Inside
  <2>2. ASSUME NEW o \in Object, NEW t \in Thread, t \in Range(k'.wait[o])
        PROVE  w[t] = {o} /\ k'.error[t] = "OK"
    <3>1. w[t] = {o} /\ k.error[t] = "OK"
      BY <1>1, <2>2 DEF Shrinks, WaitsAgree
    <3>2. GoesOn(t)
      BY <1>4, <2>2, <3>1 DEF Refused
    <3> QED
      BY <3>1, <3>2 DEF GoesOn
  <2>3. ASSUME NEW t \in Thread, w[t] # {}, k'.stat[t] = "SUSPEND"
        PROVE  \E o \in Object : t \in Range(k'.wait[o])
    <3>1. GoesOn(t)
      BY <1>4, <2>3 DEF Refused
    <3> QED
      BY <2>3, <3>1 DEF GoesOn, WaitsAgree
  <2> QED
    BY <2>1, <2>2, <2>3 DEF WaitsAgree
<1>6. ASSUME NEW o \in Object
      PROVE  Pending(k', w, o) = Pending(k, w, o)
  <2>1. ASSUME NEW t \in Thread, w[t] = {o}
        PROVE  t \in Pending(k', w, o) <=> t \in Pending(k, w, o)
    <3>1. CASE GoesOn(t)
      BY <3>1 DEF GoesOn, Pending
    <3>2. CASE Refused(t)
      <4>1. t \notin Pending(k', w, o)
        BY <3>2 DEF Refused, Pending
      <4>2. \E x \in Object : t \in Range(k.wait[x])
        BY <2>1, <3>2 DEF Refused, WaitsAgree
      <4>3. t \in Range(k.wait[o])
        BY <2>1, <4>2 DEF WaitsAgree
      <4> QED
        BY <4>1, <4>3 DEF Pending
    <3> QED
      BY <1>4, <2>1, <3>1, <3>2
  <2> QED
    BY <2>1 DEF Pending
<1>7. ASSUME NEW o \in Object, k'.wait[o] # <<>>
      PROVE  k.wait[o] # <<>>
  <2>1. k'.wait[o] \in Seq(Thread) /\ k.wait[o] \in Seq(Thread)
    BY <1>1 DEF KernelInv, Sound, Linked, KernelState
  <2>2. PICK t \in Range(k'.wait[o]) : TRUE
    BY <1>7, <2>1, EmptyRange
  <2>3. t \in Thread
    BY <2>1, <2>2, RangeOfSeq
  <2>4. t \in Range(k.wait[o])
    BY <1>1, <2>2, <2>3 DEF Shrinks
  <2> QED
    BY <2>1, <2>4, EmptyRange
<1> QED
  BY <1>5, <1>6, <1>7

(* A thread that has locked the scheduler is in no such call: no other     *)
(* thread runs before it unlocks it, and it may not block until then.      *)
LockRuns == k.lock # 0 => ~Inside(k.cur)

LEMMA WakesLock ==
    ASSUME LockRuns, Wakes(k, k'), k.cur \in Thread,
           \A t \in Thread : Inside(t)' => Inside(t)
    PROVE  LockRuns'
BY DEF LockRuns, Wakes, Inside

LEMMA KernelNextLocks ==
    ASSUME KernelInv, KernelNext, LockRuns
    PROVE  LockRuns'
<1>1. Sound(k) /\ k.cur \in Thread /\ k \in KernelState /\ pc \in [Thread -> Location]
  BY DEF KernelInv, Sound, Linked, KernelState
<1>2. CASE TickIsr
  <2>1. UNCHANGED pc /\ Wakes(k, k')
    BY <1>1, <1>2, TickIncreaseWakes, TimerFireWakes, WakesNone
       DEF TickIsr, TickInterrupt, TimerCheck, TickReturn, TimerExpired
  <2> QED
    BY <1>1, <2>1, WakesLock DEF Inside
<1>3. ASSUME NEW t \in Worker, Sleep(t)
      PROVE  LockRuns'
  <2>1. /\ irq = "on" /\ k.cur = t /\ pc[t] = "run" /\ k.lock = 0 /\ t \in Thread
        /\ Goto(t, "nap")
    BY <1>3 DEF Sleep, At, MayBlock, Worker
  <2>2. CallsGoOn /\ KernelInv'
    BY <1>3, SleepGoesOn, SleepKeeps
  <2>3. k'.stat[t] = "SUSPEND" /\ k'.cur = t /\ k'.lock = 0
    <3>1. PICK n \in SleepTimes : k' = TimerStart(ThreadSuspend(k, t), t, n)
      BY <1>3 DEF Sleep
    <3>2. k.stat[t] = "RUNNING" /\ t # Idle /\ n \in Nat
      BY <2>1, ProcessorAssumption DEF KernelInv, PcAgrees, Sound, OneRuns, Worker
    <3>3. PICK s : s = ThreadSuspend(k, t)
      OBVIOUS
    <3>4. Suspends(k, s, t)
      BY <1>1, <2>1, <3>2, <3>3, SuspendRunning
    <3>5. Sound(s) /\ s.stat[t] = "SUSPEND" /\ s.cur = t /\ s.lock = 0
      BY <1>1, <2>1, <3>4 DEF Suspends, KernelState
    <3>6. k'.stat = s.stat /\ k'.cur = s.cur /\ k'.lock = s.lock
      BY <2>1, <3>1, <3>2, <3>3, <3>5, TimerStartSound
    <3> QED
      BY <3>5, <3>6
  <2> QED
    BY <2>3 DEF LockRuns
<1>4. ASSUME NEW t \in Worker, CpuStep(t)
      PROVE  LockRuns'
  <2>1. t \in Thread
    BY DEF Worker
  <2>2. CASE RtSchedule(t)
    <3>1. PICK loc \in {"sched", "nap", "wait"} :
             /\ k.cur = t /\ pc[t] = loc /\ k' = Schedule(k)
             /\ Goto(t, CASE loc = "sched" -> "run"
                          [] loc = "nap"   -> "napped"
                          [] loc = "wait"  -> "woken")
      BY <2>2 DEF RtSchedule, At
    <3>2. Wakes(k, k')
      BY <1>1, <3>1, ScheduleWakes
    <3>3. CASE k.lock = 0
      BY <3>2, <3>3 DEF LockRuns, Wakes
    <3>4. CASE k.lock # 0
      <4>1. k'.cur = t /\ loc # "wait"
        BY <3>1, <3>2, <3>4 DEF LockRuns, Wakes, Inside
      <4>2. pc'[t] \in {"run", "napped"}
        BY <1>1, <2>1, <3>1, <4>1 DEF Goto
      <4> QED
        BY <4>1, <4>2 DEF LockRuns, Inside
    <3> QED
      BY <3>3, <3>4
  <2>3. CASE \E u \in Worker : Startup(t, u)
    <3>1. PICK u \in Thread : k.stat[u] = "INIT" /\ k' = ThreadStartup(k, u)
                              /\ Goto(t, "sched")
      BY <2>3 DEF Startup, Worker
    <3>2. Wakes(k, k')
      BY <1>1, <3>1, StartupWakes
    <3> QED
      BY <1>1, <2>1, <3>1, <3>2, WakesLock DEF Goto, Inside
  <2>4. CASE Yield(t)
    <3>1. PICK y : y = [k EXCEPT !.remaining[t] = InitTick[t], !.yield[t] = TRUE]
      OBVIOUS
    <3>2. k' = Schedule(y) /\ UNCHANGED pc
      BY <2>4, <3>1 DEF Yield, ThreadYield
    <3>3. /\ y \in KernelState
          /\ y.cur = k.cur /\ y.stat = k.stat /\ y.prio = k.prio
          /\ y.mask = k.mask /\ y.ready = k.ready /\ y.group = k.group
          /\ y.wait = k.wait /\ y.timers = k.timers /\ y.lock = k.lock
      BY <1>1, <2>1, <3>1, KernelAssumption DEF KernelState
    <3>4. Sound(y) /\ Wakes(k, y)
      BY <1>1, <3>3, PlainUpdate
    <3>5. Wakes(k, k')
      BY <3>2, <3>4, ScheduleWakes, WakesTransitive
    <3> QED
      BY <1>1, <3>2, <3>5, WakesLock DEF Inside
  <2>5. CASE Napped(t) \/ EnterCritical(t) \/ ExitCritical(t)
    <3>1. /\ k.cur = t /\ k'.cur = t /\ pc[t] \in {"run", "napped"}
          /\ \/ Goto(t, "run") \/ Goto(t, "sched") \/ UNCHANGED pc
      BY <1>1, <2>5 DEF Napped, EnterCritical, ExitCritical, At, KernelState
    <3>2. pc'[t] \in {"run", "napped", "sched"}
      BY <1>1, <2>1, <3>1 DEF Goto
    <3> QED
      BY <3>1, <3>2 DEF LockRuns, Inside
  <2> QED
    BY <1>4, <2>2, <2>3, <2>4, <2>5 DEF CpuStep
<1> QED
  BY <1>2, <1>3, <1>4 DEF KernelNext

-----------------------------------------------------------------------------
(* A wakeup of u, the first thread of a suspend list.                      *)
Frees(b, s, u) ==
    /\ Wakes(b, s)
    /\ s.stat[u] # "SUSPEND"
    /\ \A o \in Object : Range(s.wait[o]) = Range(b.wait[o]) \ {u}
    /\ Fewer(b, s)

LEMMA HeadIsWaiting ==
    ASSUME NEW b, Sound(b), NEW o \in Object, b.wait[o] # <<>>
    PROVE  LET u == Head(b.wait[o])
           IN  u \in Thread /\ u \in Range(b.wait[o]) /\ b.stat[u] = "SUSPEND"
<1>1. b.wait[o] \in Seq(Thread)
  BY DEF Sound, Linked, KernelState
<1> QED
  BY <1>1, HeadIn DEF Sound, Linked, WaitersSuspended

LEMMA ResumeFrees ==
    ASSUME NEW b, Sound(b), NEW u \in Thread, b.stat[u] = "SUSPEND"
    PROVE  /\ Frees(b, ThreadResume(b, u), u)
           /\ ThreadResume(b, u).error = b.error
<1>1. /\ b \in KernelState /\ Linked(b) /\ Distinct(b.timers)
      /\ \A p \in Prio : Distinct(b.ready[p])
      /\ \A o \in Object : Distinct(b.wait[o])
  BY DEF Sound, Linked, ReadyAgrees, WaitersSuspended, Timed
<1> DEFINE s == ThreadResume(b, u)
<1>2. Wakes(b, s) /\ s.stat[u] # "SUSPEND"
  BY ResumeWakes
<1>3. /\ s.error = b.error
      /\ \A o \in Object : Range(s.wait[o]) = Range(b.wait[o]) \ {u}
  BY <1>1, ResumeEffect
<1>4. Stops(b, s, u)
  BY <1>1, ResumeStops
<1> HIDE DEF s
<1>5. Fewer(b, s)
  BY <1>1, <1>4, StopsFewer
<1> QED
  BY <1>2, <1>3, <1>5 DEF Frees, s

(* rt_schedule after a wakeup.                                             *)
LEMMA ScheduleFrees ==
    ASSUME NEW b, NEW s, NEW u \in Thread, Frees(b, s, u)
    PROVE  Frees(b, Schedule(s), u) /\ Schedule(s).error = s.error
<1> DEFINE z == Schedule(s)
<1>1. Sound(s)
  BY DEF Frees, Wakes
<1>2. Wakes(s, z) /\ Calm(s, z) /\ Steady(s, z)
  BY <1>1, ScheduleWakes, ScheduleCalm, ScheduleSteady
<1> HIDE DEF z
<1>3. Wakes(b, z)
  BY <1>2, WakesTransitive DEF Frees
<1>4. z.stat[u] # "SUSPEND"
  BY <1>2 DEF Frees, Wakes
<1>5. Fewer(b, z)
  BY <1>2 DEF Frees, Fewer, Steady
<1>6. \A o \in Object : Range(z.wait[o]) = Range(b.wait[o]) \ {u}
  BY <1>2 DEF Frees, Calm
<1> QED
  BY <1>2, <1>3, <1>4, <1>5, <1>6 DEF Frees, Calm, z

(* rt_ipc_list_resume by a thread, and by a handler, which schedules.      *)
LEMMA HeadResumed ==
    ASSUME NEW b, Sound(b), NEW o \in Object, b.wait[o] # <<>>
    PROVE  LET u == Head(b.wait[o])
               s == IpcListResume(b, o)
               z == Schedule(IpcListResume(b, o))
           IN  /\ Frees(b, s, u) /\ s.error = b.error
               /\ Frees(b, z, u) /\ z.error = b.error
<1> DEFINE u == Head(b.wait[o])
           s == IpcListResume(b, o)
<1>1. u \in Thread /\ b.stat[u] = "SUSPEND"
  BY HeadIsWaiting
<1>2. s = ThreadResume(b, u)
  BY DEF IpcListResume
<1> HIDE DEF u, s
<1>3. Frees(b, s, u) /\ s.error = b.error
  BY <1>1, <1>2, ResumeFrees
<1>4. Frees(b, Schedule(s), u) /\ Schedule(s).error = b.error
  BY <1>1, <1>3, ScheduleFrees
<1> QED
  BY <1>3, <1>4 DEF u, s

(* A turn of the loop of rt_ipc_list_resume_all.                           *)
LEMMA HeadAborted ==
    ASSUME NEW b, Sound(b), NEW o \in Object, b.wait[o] # <<>>
    PROVE  LET u == Head(b.wait[o])
               s == IpcListAbort(b, o)
           IN  Frees(b, s, u) /\ s.error = [b.error EXCEPT ![u] = "ERROR"]
<1> DEFINE u == Head(b.wait[o])
           e == [b EXCEPT !.error[u] = "ERROR"]
           s == IpcListAbort(b, o)
<1>1. u \in Thread /\ b.stat[u] = "SUSPEND"
  BY HeadIsWaiting
<1>2. s = ThreadResume(e, u)
  BY DEF IpcListAbort
<1> HIDE DEF u, s
<1>3. /\ e \in KernelState
      /\ e.cur = b.cur /\ e.stat = b.stat /\ e.prio = b.prio
      /\ e.mask = b.mask /\ e.ready = b.ready /\ e.group = b.group
      /\ e.wait = b.wait /\ e.timers = b.timers /\ e.lock = b.lock
      /\ e.tick = b.tick /\ e.due = b.due
      /\ e.error = [b.error EXCEPT ![u] = "ERROR"]
  BY <1>1 DEF Sound, Linked, KernelState, Error
<1> HIDE DEF e
<1>4. Sound(e) /\ Wakes(b, e)
  BY <1>3, PlainUpdate
<1>5. Frees(e, s, u) /\ s.error = e.error
  BY <1>1, <1>2, <1>3, <1>4, ResumeFrees
<1>6. Wakes(b, s)
  BY <1>4, <1>5, WakesTransitive DEF Frees
<1>7. Fewer(b, s)
  BY <1>3, <1>5 DEF Frees, Fewer
<1> QED
  BY <1>3, <1>5, <1>6, <1>7 DEF Frees, s, u

-----------------------------------------------------------------------------
(* What the steps of module Processor do to the timer list.                *)
LEMMA StartupFewer ==
    ASSUME NEW b, Sound(b), NEW u \in Thread
    PROVE  /\ Fewer(b, ThreadStartup(b, u))
           /\ u \notin Range(b.timers) => ThreadStartup(b, u).timers = b.timers
<1> DEFINE e == [b EXCEPT !.prio[u] = InitPrio[u],
                          !.mask[u] = InitPrio[u],
                          !.stat[u] = "SUSPEND"]
<1>1. ThreadStartup(b, u) = ThreadResume(e, u)
  BY DEF ThreadStartup
<1>2. b \in KernelState /\ InitPrio[u] \in Prio
  BY KernelAssumption DEF Sound, Linked
<1>3. /\ e \in KernelState /\ e.stat[u] = "SUSPEND"
      /\ e.ready = b.ready /\ e.wait = b.wait
      /\ e.timers = b.timers /\ e.due = b.due /\ e.tick = b.tick
  BY <1>2 DEF KernelState, Stat
<1> HIDE DEF e
<1>4. /\ \A p \in Prio : Distinct(e.ready[p])
      /\ \A o \in Object : Distinct(e.wait[o])
      /\ Distinct(e.timers)
  BY <1>3 DEF Sound, Linked, ReadyAgrees, WaitersSuspended, Timed
<1>5. Stops(e, ThreadResume(e, u), u)
  BY <1>3, <1>4, ResumeStops
<1>6. Fewer(e, ThreadResume(e, u))
  BY <1>3, <1>4, <1>5, StopsFewer
<1>7. u \notin Range(e.timers) => ThreadResume(e, u).timers = e.timers
  BY <1>5, WithoutAbsent DEF Stops
<1> QED
  BY <1>1, <1>3, <1>6, <1>7 DEF Fewer

LEMMA CpuFewer ==
    ASSUME KernelInv, NEW t \in Worker, CpuStep(t)
    PROVE  Fewer(k, k') /\ k'.timers = k.timers /\ irq = "on" /\ irq' = "on"
<1>1. Sound(k) /\ k \in KernelState /\ t \in Thread
  BY DEF KernelInv, Sound, Linked, Worker
<1>2. irq = "on" /\ irq' = "on"
  BY DEF CpuStep, RtSchedule, Startup, Yield, Napped, EnterCritical,
         ExitCritical, At
<1>3. CASE RtSchedule(t)
  <2>1. k' = Schedule(k)
    BY <1>3 DEF RtSchedule
  <2> QED
    BY <1>1, <1>2, <2>1, ScheduleSteady, SteadyFewer DEF Steady
<1>4. CASE \E u \in Worker : Startup(t, u)
  <2>1. PICK u \in Thread : k.stat[u] = "INIT" /\ k' = ThreadStartup(k, u)
    BY <1>4 DEF Startup, Worker
  <2>2. u \notin Range(k.timers)
    BY <2>1 DEF KernelInv, NoneStranded
  <2> QED
    BY <1>1, <1>2, <2>1, <2>2, StartupFewer
<1>5. CASE Yield(t)
  <2> DEFINE y == [k EXCEPT !.remaining[t] = InitTick[t], !.yield[t] = TRUE]
  <2>1. k' = Schedule(y)
    BY <1>5 DEF Yield, ThreadYield
  <2>2. /\ y \in KernelState
        /\ y.cur = k.cur /\ y.stat = k.stat /\ y.prio = k.prio
        /\ y.mask = k.mask /\ y.ready = k.ready /\ y.group = k.group
        /\ y.wait = k.wait /\ y.timers = k.timers /\ y.lock = k.lock
        /\ y.tick = k.tick /\ y.due = k.due
    BY <1>1, KernelAssumption DEF KernelState
  <2> HIDE DEF y
  <2>3. Sound(y)
    BY <1>1, <2>2, PlainUpdate
  <2>4. Steady(y, k')
    BY <2>1, <2>3, ScheduleSteady
  <2>5. Steady(k, k')
    BY <2>2, <2>4 DEF Steady
  <2> QED
    BY <1>2, <2>5, SteadyFewer DEF Steady
<1>6. CASE Napped(t) \/ EnterCritical(t) \/ ExitCritical(t)
  <2>1. CASE Napped(t)
    <3>1. Steady(k, k')
      BY <1>1, <2>1 DEF Napped, KernelState, Steady
    <3> QED
      BY <1>2, <3>1, SteadyFewer DEF Steady
  <2>2. CASE EnterCritical(t) \/ ExitCritical(t)
    <3>1. Steady(k, k')
      BY <1>1, <2>2 DEF EnterCritical, ExitCritical, KernelState, Steady
    <3> QED
      BY <1>2, <3>1, SteadyFewer DEF Steady
  <2> QED
    BY <1>6, <2>1, <2>2
<1> QED
  BY <1>3, <1>4, <1>5, <1>6 DEF CpuStep

(* rt_thread_sleep sets the timer of the caller.                           *)
LEMMA SleepArms ==
    ASSUME KernelInv, NEW t \in Worker, Sleep(t)
    PROVE  /\ irq = "on" /\ irq' = "on" /\ pc[t] = "run"
           /\ \E n \in SleepTimes : Arms(k, k', t, n)
<1>1. PICK n \in SleepTimes : k' = TimerStart(ThreadSuspend(k, t), t, n)
  BY DEF Sleep
<1>2. /\ At(t, "run") /\ k.lock = 0 /\ irq' = irq
      /\ t \in Thread /\ t # Idle /\ n \in Nat
  BY ProcessorAssumption DEF Sleep, MayBlock, Worker
<1>3. k.stat[t] = "RUNNING" /\ Sound(k) /\ k \in KernelState
  BY <1>2, AtRuns DEF KernelInv, Sound, Linked
<1> DEFINE s == ThreadSuspend(k, t)
<1>4. /\ Stops(k, s, t) /\ s.timers = k.timers
  BY <1>2, <1>3, SuspendStops
<1>5. /\ Sound(s) /\ t \notin Range(s.timers)
  BY <1>2, <1>3, SuspendRunning DEF Suspends
<1>6. k' = TimerStart(s, t, n)
  BY <1>1
<1> HIDE DEF s
<1>7. s \in KernelState /\ s.tick = k.tick /\ s.due = [k.due EXCEPT ![t] = 0]
  BY <1>4, <1>5 DEF Sound, Linked, Stops
<1>8. Later(s, n) = Later(k, n)
  BY <1>7 DEF Later
<1>9. /\ k'.tick = s.tick
      /\ k'.due = [s.due EXCEPT ![t] = Later(s, n)]
      /\ k'.timers = InsertAt(s.timers, TimerPlace(s.timers, s.due, Later(s, n)), t)
  BY <1>2, <1>5, <1>6, <1>7, TimerStartIs
<1>10. k'.due = [k.due EXCEPT ![t] = Later(k, n)]
  <2>1. k.due \in [Thread -> Tick]
    BY <1>3 DEF KernelState
  <2> QED
    BY <1>2, <1>7, <1>8, <1>9, <2>1
<1>11. Arms(k, k', t, n)
  BY <1>4, <1>5, <1>7, <1>8, <1>9, <1>10 DEF Arms
<1> QED
  BY <1>2, <1>11 DEF At

(* The common part of the blocking calls.                                  *)
LEMMA BlockArms ==
    ASSUME NEW b, Sound(b), NEW c \in Thread, b.stat[c] = "RUNNING",
           c # Idle, b.lock = 0,
           NEW o \in Object, NEW flag, NEW time \in Int
    PROVE  LET s == Block(b, o, c, flag, time)
           IN  IF time > 0 THEN Arms(b, s, c, time)
               ELSE Fewer(b, s) /\ s.timers = b.timers
<1> DEFINE s == Block(b, o, c, flag, time)
<1>1. /\ s.tick = b.tick /\ c \notin Range(b.timers)
      /\ IF time > 0
         THEN /\ s.due = [b.due EXCEPT ![c] = Later(b, time)]
              /\ s.timers = InsertAt(b.timers, TimerPlace(b.timers,
                               [b.due EXCEPT ![c] = 0], Later(b, time)), c)
         ELSE /\ s.due = [b.due EXCEPT ![c] = 0]
              /\ s.timers = b.timers
  BY BlockIs
<1> HIDE DEF s
<1>2. b.due \in [Thread -> Tick]
  BY DEF Sound, Linked, KernelState
<1>3. CASE time > 0
  BY <1>1, <1>3 DEF Arms, s
<1>4. CASE ~(time > 0)
  BY <1>1, <1>2, <1>4 DEF Fewer, s
<1> QED
  BY <1>3, <1>4

(* Only the timer of t is new on the list.                                 *)
LEMMA ArmsOne ==
    ASSUME NEW b \in KernelState, NEW s, NEW t \in Thread, NEW n \in Int, Arms(b, s, t, n)
    PROVE  \A u \in Thread : u \in Range(s.timers) =>
              IF u = t THEN s.due[u] = Later(b, n)
              ELSE u \in Range(b.timers) /\ s.due[u] = b.due[u]
<1> DEFINE d == [b.due EXCEPT ![t] = 0]
           at == TimerPlace(b.timers, d, Later(b, n))
<1>1. /\ b.timers \in Seq(Thread) /\ b.due \in [Thread -> Tick] /\ 0 \in Tick
      /\ b.tick \in Tick
  BY KernelAssumption DEF KernelState, Tick
<1>2. d \in [Thread -> Tick]
  BY <1>1
<1> HIDE DEF d
<1>3. at \in 1 .. Len(b.timers) + 1
  BY <1>1, <1>2, TimerPlaceInside
<1>4. s.timers = InsertAt(b.timers, at, t)
  BY DEF Arms, d
<1> HIDE DEF at
<1>5. Range(s.timers) = Range(b.timers) \cup {t}
  BY <1>1, <1>3, <1>4, InsertAtProperties
<1>6. s.due = [b.due EXCEPT ![t] = Later(b, n)]
  BY DEF Arms
<1> QED
  BY <1>1, <1>5, <1>6

LEMMA ArmsAdds ==
    ASSUME NEW b \in KernelState, NEW s, NEW t \in Thread, NEW n \in Int, Arms(b, s, t, n)
    PROVE  Range(b.timers) \subseteq Range(s.timers)
<1>1. PICK d, at : d = [b.due EXCEPT ![t] = 0] /\ at = TimerPlace(b.timers, d, Later(b, n))
  OBVIOUS
<1>2. /\ b.timers \in Seq(Thread) /\ d \in [Thread -> Tick]
  BY <1>1, KernelAssumption DEF KernelState, Tick
<1>3. at \in 1 .. Len(b.timers) + 1
  BY <1>1, <1>2, TimerPlaceInside
<1>4. s.timers = InsertAt(b.timers, at, t)
  BY <1>1 DEF Arms
<1> QED
  BY <1>2, <1>3, <1>4, InsertAtProperties

(* No step of module Processor sets the timer of a thread in a call.       *)
LEMMA KernelNextTimers ==
    ASSUME KernelInv, KernelNext, NEW t \in Thread, Inside(t),
           t \in Range(k'.timers)
    PROVE  t \in Range(k.timers) /\ k'.due[t] = k.due[t]
<1>1. /\ Sound(k) /\ k \in KernelState
      /\ k.timers \in Seq(Thread) /\ k.due \in [Thread -> Tick]
      /\ Distinct(k.timers)
  BY DEF KernelInv, Sound, Linked, KernelState, Timed
<1>2. CASE TickInterrupt
  <2>1. k' = TickIncrease(k)
    BY <1>2 DEF TickInterrupt
  <2> QED
    BY <1>1, <2>1, TickIncreaseIs
<1>3. CASE TimerCheck
  <2>1. k' = TimerFire(k) /\ k.timers # <<>>
    BY <1>3 DEF TimerCheck, TimerExpired
  <2>2. /\ k'.due = [k.due EXCEPT ![Head(k.timers)] = 0]
        /\ k'.timers = Tail(k.timers)
    BY <1>1, <2>1, TimerFireIs
  <2>3. Range(Tail(k.timers)) = Range(k.timers) \ {Head(k.timers)}
    BY <1>1, <2>1, TailProperties
  <2> QED
    BY <1>1, <2>2, <2>3
<1>4. CASE TickReturn
  BY <1>4 DEF TickReturn
<1>5. ASSUME NEW u \in Worker, CpuStep(u)
      PROVE  t \in Range(k.timers) /\ k'.due[t] = k.due[t]
  BY <1>5, CpuFewer DEF Fewer
<1>6. ASSUME NEW u \in Worker, Sleep(u)
      PROVE  t \in Range(k.timers) /\ k'.due[t] = k.due[t]
  <2>1. pc[u] = "run" /\ \E n \in SleepTimes : Arms(k, k', u, n)
    BY <1>6, SleepArms
  <2>2. t # u /\ u \in Thread
    BY <2>1 DEF Inside, Worker
  <2>3. PICK n \in Int : Arms(k, k', u, n)
    BY <2>1, ProcessorAssumption
  <2>4. \A v \in Thread : v \in Range(k'.timers) =>
           IF v = u THEN k'.due[v] = Later(k, n)
           ELSE v \in Range(k.timers) /\ k'.due[v] = k.due[v]
    BY <1>1, <2>2, <2>3, ArmsOne
  <2> QED
    BY <2>2, <2>4
<1> QED
  BY <1>2, <1>3, <1>4, <1>5, <1>6 DEF KernelNext, TickIsr

-----------------------------------------------------------------------------
(* Preemption.  The rule says nothing in a masked loop, while the scheduler *)
(* is locked, and when the current thread is about to call rt_schedule.    *)
Away == {"sched", "nap", "wait"}

(* Thread t does not wait in a ready list for a thread of lower priority.  *)
Behind(t) ==
    irq # "off" /\ k.lock = 0 /\ pc[k.cur] \notin Away /\ k.stat[t] = "READY" =>
        k.prio[k.cur] <= k.prio[t]

(* The threads that rt_sem_detach has woken are exempt.                    *)
Preempts == \A t \in Thread : Aborted(t) \/ Behind(t)

(* What a step does to the rule for thread t.                              *)
StaysBehind(t) ==
    /\ Behind(t) => Behind(t)'
    /\ Aborted(t) => Aborted(t)' \/ Behind(t)'

LEMMA PreemptsGives ==
    ASSUME Preempts
    PROVE  HighestRuns
BY DEF Preempts, Behind, Away, HighestRuns

LEMMA PreemptsStays ==
    ASSUME Preempts, \A t \in Thread : StaysBehind(t)
    PROVE  Preempts'
BY DEF Preempts, StaysBehind

LEMMA PreemptsInit ==
    ASSUME KernelInit
    PROVE  \A t \in Thread : Behind(t)
<1>1. /\ k.cur = Main /\ k.prio = InitPrio
      /\ \A t \in Thread : k.stat[t] = "READY" => t = Idle
  BY DEF KernelInit, Started
<1>2. InitPrio[Main] <= InitPrio[Idle]
  <2>1. InitPrio[Main] \in 0 .. MaxPrio /\ InitPrio[Idle] = MaxPrio
    BY KernelAssumption DEF Prio
  <2> QED
    BY <2>1, KernelAssumption
<1> QED
  BY <1>1, <1>2 DEF Behind

(* rt_thread_resume changes the state of the thread it is given alone.     *)
LEMMA ResumeStates ==
    ASSUME NEW b, b \in KernelState, NEW t \in Thread
    PROVE  /\ ThreadResume(b, t).cur = b.cur
           /\ ThreadResume(b, t).prio = b.prio
           /\ ThreadResume(b, t).lock = b.lock
           /\ \A u \in Thread \ {t} : ThreadResume(b, t).stat[u] = b.stat[u]
<1> DEFINE u == Unlink(b, t)
           s == TimerStop(u, t)
<1>1. /\ u.cur = b.cur /\ u.prio = b.prio /\ u.lock = b.lock
      /\ u.stat = b.stat
      /\ s.cur = u.cur /\ s.prio = u.prio /\ s.lock = u.lock
      /\ s.stat = u.stat
  BY DEF Unlink, TimerStop, KernelState
<1> HIDE DEF s
<1>2. /\ InsertThread(s, t).cur = s.cur /\ InsertThread(s, t).prio = s.prio
      /\ InsertThread(s, t).lock = s.lock
      /\ InsertThread(s, t).stat \in {[s.stat EXCEPT ![t] = "RUNNING"],
                                      [s.stat EXCEPT ![t] = "READY"]}
  BY DEF InsertThread
<1>3. b.stat \in [Thread -> Stat]
  BY DEF KernelState
<1>4. ThreadResume(b, t) \in {b, InsertThread(s, t)}
  BY DEF ThreadResume, s
<1> QED
  BY <1>1, <1>2, <1>3, <1>4

(* A step that ends with rt_schedule.                                      *)
LEMMA ScheduleBehind ==
    ASSUME NEW b, Sound(b), k' = Schedule(b)
    PROVE  \A t \in Thread : Behind(t)' /\ StaysBehind(t)
<1>1. PICK s : s = Schedule(b)
  OBVIOUS
<1>2. b.lock = 0 => Top(s)
  BY <1>1, ScheduleTop
<1>3. s.lock = b.lock
  BY <1>1, ScheduleWakes DEF Wakes
<1>4. k'.lock = 0 => Top(k')
  BY <1>1, <1>2, <1>3
<1>5. \A t \in Thread : Behind(t)'
  BY <1>4 DEF Behind, Top
<1> QED
  BY <1>5 DEF StaysBehind

(* A step after which the current thread still has to call rt_schedule.    *)
LEMMA AwayBehind ==
    ASSUME pc'[k'.cur] \in Away
    PROVE  \A t \in Thread : Behind(t)' /\ StaysBehind(t)
BY DEF Behind, StaysBehind

(* A step that does not make t ready.                                      *)
LEMMA SameBehind ==
    ASSUME NEW t \in Thread,
           k'.cur = k.cur, k'.prio = k.prio, k'.lock = k.lock,
           irq' # "off" => irq # "off",
           pc'[k.cur] \notin Away => pc[k.cur] \notin Away,
           k'.stat[t] = "READY" => k.stat[t] = "READY",
           Aborted(t) => Aborted(t)' \/ k'.stat[t] # "READY"
    PROVE  StaysBehind(t)
BY DEF Behind, StaysBehind

(* A step of the running thread that leaves the states of all threads and  *)
(* the errors of the others alone.                                         *)
LEMMA StillBehind ==
    ASSUME KernelInv, k'.cur = k.cur, k'.prio = k.prio,
           k'.stat = k.stat, k'.lock = k.lock,
           NEW c \in Thread, c = k.cur, pc[c] \notin Away,
           \A t \in Thread \ {c} : k'.error[t] = k.error[t] /\ pc'[t] = pc[t],
           irq' # "off" => irq # "off"
    PROVE  \A t \in Thread : StaysBehind(t)
<1>1. k.stat[c] # "READY"
  BY DEF KernelInv, Sound, OneRuns
<1>2. \A t \in Thread : Aborted(t) => Aborted(t)' \/ k'.stat[t] # "READY"
  BY <1>1 DEF Aborted
<1> QED
  BY <1>2, SameBehind

LEMMA KernelNextBehind ==
    ASSUME KernelInv, KernelNext
    PROVE  \A t \in Thread : StaysBehind(t)
<1>1. /\ Sound(k) /\ k \in KernelState /\ k.cur \in Thread
      /\ pc \in [Thread -> Location]
  BY DEF KernelInv, Sound, Linked, KernelState
<1>2. CASE TickInterrupt
  <2>1. k' = TickIncrease(k) /\ irq = "on" /\ irq' = "tick" /\ pc' = pc
    BY <1>2 DEF TickInterrupt
  <2>2. PICK y : /\ Wakes(k, y)
                 /\ y.cur = k.cur /\ y.stat = k.stat /\ y.prio = k.prio
                 /\ y.error = k.error /\ y.lock = k.lock
                 /\ TickIncrease(k) \in {y, Schedule(y)}
    BY <1>1, TickIncreaseSchedules
  <2>3. CASE k' = Schedule(y)
    BY <2>2, <2>3, ScheduleBehind DEF Wakes
  <2>4. CASE k' = y
    <3>1. \A t \in Thread : /\ k'.stat[t] = "READY" => k.stat[t] = "READY"
                            /\ Aborted(t) => Aborted(t)'
      BY <2>1, <2>2, <2>4 DEF Aborted
    <3>2. /\ k'.cur = k.cur /\ k'.prio = k.prio /\ k'.lock = k.lock
          /\ irq # "off"
      BY <2>1, <2>2, <2>4
    <3> QED
      BY <2>1, <3>1, <3>2, SameBehind
  <2> QED
    BY <2>1, <2>2, <2>3, <2>4
<1>3. CASE TimerCheck
  <2>1. k' = TimerFire(k) /\ k.timers # <<>>
    BY <1>3 DEF TimerCheck, TimerExpired
  <2>2. PICK i : Wakes(k, i) /\ k' = Schedule(i)
    BY <1>1, <2>1, TimerFireSchedules
  <2> QED
    BY <2>2, ScheduleBehind DEF Wakes
<1>4. CASE TickReturn
  <2>1. k' = k /\ pc' = pc /\ irq = "tick"
    BY <1>4 DEF TickReturn
  <2>2. \A t \in Thread : Aborted(t)' <=> Aborted(t)
    BY <2>1 DEF Aborted
  <2> QED
    BY <2>1, <2>2, SameBehind
<1>5. ASSUME NEW t \in Worker, CpuStep(t)
      PROVE  \A x \in Thread : StaysBehind(x)
  <2>0. t \in Thread
    BY DEF Worker
  <2>1. CASE RtSchedule(t)
    BY <1>1, <2>1, ScheduleBehind DEF RtSchedule
  <2>2. CASE \E u \in Worker : Startup(t, u)
    <3>1. PICK u \in Thread : /\ k' = ThreadStartup(k, u) /\ k.cur = t
                              /\ Goto(t, "sched")
      BY <2>2 DEF Startup, Worker, At
    <3>2. k'.cur = k.cur
      BY <1>1, <3>1 DEF ThreadStartup, ThreadResume, InsertThread, TimerStop,
                        Unlink, KernelState
    <3>3. pc'[t] = "sched"
      BY <1>1, <2>0, <3>1 DEF Goto
    <3> QED
      BY <3>1, <3>2, <3>3, AwayBehind DEF Away
  <2>3. CASE Yield(t)
    <3>1. PICK y : y = [k EXCEPT !.remaining[t] = InitTick[t], !.yield[t] = TRUE]
      OBVIOUS
    <3>2. k' = Schedule(y)
      BY <2>3, <3>1 DEF Yield, ThreadYield
    <3>3. /\ y \in KernelState
          /\ y.cur = k.cur /\ y.stat = k.stat /\ y.prio = k.prio
          /\ y.mask = k.mask /\ y.ready = k.ready /\ y.group = k.group
          /\ y.wait = k.wait /\ y.timers = k.timers /\ y.lock = k.lock
      BY <1>1, <3>1, <2>0, KernelAssumption DEF KernelState
    <3>4. Sound(y)
      BY <1>1, <3>3, PlainUpdate
    <3> QED
      BY <3>2, <3>4, ScheduleBehind
  <2>4. CASE Napped(t)
    <3>1. /\ k'.cur = k.cur /\ k'.prio = k.prio /\ k'.stat = k.stat
          /\ k'.lock = k.lock /\ t = k.cur
          /\ pc[t] \notin Away /\ irq' = irq
      BY <1>1, <2>4 DEF Napped, At, Away, KernelState
    <3>2. \A u \in Thread \ {t} : k'.error[u] = k.error[u] /\ pc'[u] = pc[u]
      BY <1>1, <2>0, <2>4 DEF Napped, Goto, KernelState
    <3> QED
      BY <2>0, <3>1, <3>2, StillBehind
  <2>5. CASE EnterCritical(t)
    <3>1. k'.lock = k.lock + 1 /\ k.lock \in Nat
      BY <1>1, <2>5 DEF EnterCritical, KernelState
    <3>2. k'.lock # 0
      BY <3>1
    <3> QED
      BY <3>2 DEF Behind, StaysBehind
  <2>6. CASE ExitCritical(t)
    <3>1. /\ k'.lock = k.lock - 1 /\ k.lock \in Nat /\ k.lock > 0
          /\ k'.cur = k.cur /\ k.cur = t
          /\ k.lock = 1 => Goto(t, "sched")
      BY <1>1, <2>6 DEF ExitCritical, At, KernelState
    <3>2. CASE k.lock = 1
      <4>1. pc'[k'.cur] = "sched"
        BY <1>1, <3>1, <3>2 DEF Goto
      <4> QED
        BY <4>1, AwayBehind DEF Away
    <3>3. CASE k.lock # 1
      <4>1. k'.lock # 0
        BY <3>1, <3>3
      <4> QED
        BY <4>1 DEF Behind, StaysBehind
    <3> QED
      BY <3>2, <3>3
  <2> QED
    BY <1>5, <2>1, <2>2, <2>3, <2>4, <2>5, <2>6 DEF CpuStep
<1>6. ASSUME NEW t \in Worker, Sleep(t)
      PROVE  \A x \in Thread : StaysBehind(x)
  <2>1. PICK n \in SleepTimes : k' = TimerStart(ThreadSuspend(k, t), t, n)
    BY <1>6 DEF Sleep
  <2>2. At(t, "run") /\ k.cur = t /\ Goto(t, "nap") /\ t \in Thread
    BY <1>6 DEF Sleep, At, Worker
  <2>3. k'.cur = k.cur
    BY <1>1, <2>1 DEF TimerStart, ThreadSuspend, TimerStop, RemoveThread, Unlink,
                      KernelState
  <2>4. pc'[k'.cur] = "nap"
    BY <1>1, <2>2, <2>3 DEF Goto
  <2> QED
    BY <2>4, AwayBehind DEF Away
<1> QED
  BY <1>2, <1>3, <1>4, <1>5, <1>6 DEF KernelNext, TickIsr

-----------------------------------------------------------------------------
(* The timer list is in the order of the ticks left.  In rt_timer_check,   *)
(* which runs after rt_tick_increase, these count from the tick before.    *)
TimersInOrder ==
    /\ irq = "tick" => Ordered(k.timers, k.due, Minus(k.tick, 1))
    /\ irq # "tick" => Ordered(k.timers, k.due, k.tick)

(* What property NoEarlyTimeout asks of a step.                            *)
InTime ==
    \A t \in Range(k.timers) :
        k'.error[t] = "TIMEOUT" /\ t \notin Range(k'.timers) =>
            Minus(k.tick, k.due[t]) <= 1

LEMMA TimersInOrderGives ==
    ASSUME TimersInOrder
    PROVE  TimersAhead
BY DEF TimersInOrder, Ordered, TimersAhead, TicksLeft

LEMMA TimersInOrderInit ==
    ASSUME KernelInit
    PROVE  TimersInOrder
<1>1. k.timers = <<>> /\ Len(k.timers) = 0
  BY DEF KernelInit, Started
<1> QED
  BY <1>1 DEF TimersInOrder, Ordered

LEMMA NobodyLeaves ==
    ASSUME Range(k.timers) \subseteq Range(k'.timers)
    PROVE  InTime
BY DEF InTime

(* A step of a thread that stops a timer at most.                          *)
LEMMA FewerKept ==
    ASSUME KernelInv, TimersInOrder, Fewer(k, k'), irq # "tick", irq' # "tick"
    PROVE  TimersInOrder'
<1>1. k \in KernelState /\ Ordered(k.timers, k.due, k.tick)
  BY DEF KernelInv, Sound, Linked, TimersInOrder
<1>2. PICK s : s = k'
  OBVIOUS
<1>3. Fewer(k, s)
  BY <1>2
<1>4. Ordered(s.timers, s.due, k.tick) /\ s.tick = k.tick
  BY <1>1, <1>3, OrderedFewer DEF Fewer
<1> QED
  BY <1>2, <1>4 DEF TimersInOrder

(* A step of a thread that sets its own timer.                             *)
LEMMA ArmsKept ==
    ASSUME KernelInv, TimersInOrder, NEW t \in Thread, NEW n \in Nat, n < HalfTick,
           Arms(k, k', t, n), irq # "tick", irq' # "tick"
    PROVE  TimersInOrder' /\ Range(k.timers) \subseteq Range(k'.timers)
<1>1. k \in KernelState /\ Ordered(k.timers, k.due, k.tick)
  BY DEF KernelInv, Sound, Linked, TimersInOrder
<1>2. PICK s : s = k'
  OBVIOUS
<1>3. Arms(k, s, t, n)
  BY <1>2
<1>4. Ordered(s.timers, s.due, s.tick)
  BY <1>1, <1>3, OrderedArms
<1>5. Range(k.timers) \subseteq Range(s.timers)
  BY <1>1, <1>3, ArmsAdds
<1> QED
  BY <1>2, <1>4, <1>5 DEF TimersInOrder

(* Every step of module Processor keeps the order and ends no wait early.  *)
LEMMA KernelNextTimely ==
    ASSUME KernelInv, KernelNext, TimersInOrder
    PROVE  TimersInOrder' /\ InTime
<1>1. /\ Sound(k) /\ k \in KernelState
      /\ k.timers \in Seq(Thread) /\ k.due \in [Thread -> Tick]
      /\ Distinct(k.timers)
  BY DEF KernelInv, Sound, Linked, KernelState, Timed
<1>2. CASE TickInterrupt
  <2>1. k' = TickIncrease(k) /\ irq # "tick" /\ irq' = "tick"
    BY <1>2 DEF TickInterrupt
  <2>2. k'.tick = Later(k, 1) /\ k'.due = k.due /\ k'.timers = k.timers
    BY <1>1, <2>1, TickIncreaseIs
  <2>3. Minus(k'.tick, 1) = k.tick
    BY <1>1, <2>2, NextTick
  <2>4. TimersInOrder'
    BY <2>1, <2>2, <2>3 DEF TimersInOrder
  <2> QED
    BY <2>2, <2>4, NobodyLeaves
<1>3. CASE TimerCheck
  <2>1. /\ k' = TimerFire(k) /\ k.timers # <<>> /\ TimerExpired(k)
        /\ irq = "tick" /\ irq' = "tick"
    BY <1>3 DEF TimerCheck, TimerExpired
  <2>2. PICK h : h = Head(k.timers)
    OBVIOUS
  <2>3. /\ k'.due = [k.due EXCEPT ![h] = 0]
        /\ k'.timers = Tail(k.timers) /\ k'.tick = k.tick
    BY <1>1, <2>1, <2>2, TimerFireIs
  <2>4. Range(Tail(k.timers)) = Range(k.timers) \ {h}
    BY <1>1, <2>1, <2>2, TailProperties
  <2>5. PICK now : now = Minus(k.tick, 1)
    OBVIOUS
  <2>6. Ordered(k.timers, k.due, now)
    BY <2>1, <2>5 DEF TimersInOrder
  <2>7. Ordered(Tail(k.timers), [k.due EXCEPT ![h] = 0], now)
    BY <1>1, <2>1, <2>2, <2>6, OrderedTail
  <2>8. TimersInOrder'
    BY <2>1, <2>3, <2>5, <2>7 DEF TimersInOrder
  <2>9. Minus(k.tick, k.due[h]) <= 1
    BY <1>1, <2>1, <2>2, <2>5, <2>6, FiresInTime
  <2>10. InTime
    BY <2>3, <2>4, <2>9 DEF InTime
  <2> QED
    BY <2>8, <2>10
<1>4. CASE TickReturn
  <2>1. k' = k /\ ~TimerExpired(k) /\ irq = "tick" /\ irq' = "on"
    BY <1>4 DEF TickReturn
  <2>2. Ordered(k.timers, k.due, k.tick)
    BY <1>1, <2>1, OrderedReturn DEF TimersInOrder
  <2>3. TimersInOrder'
    BY <2>1, <2>2 DEF TimersInOrder
  <2> QED
    BY <2>1, <2>3, NobodyLeaves
<1>5. ASSUME NEW u \in Worker, CpuStep(u)
      PROVE  TimersInOrder' /\ InTime
  <2>1. Fewer(k, k') /\ k'.timers = k.timers /\ irq = "on" /\ irq' = "on"
    BY <1>5, CpuFewer
  <2>2. TimersInOrder'
    BY <2>1, FewerKept
  <2> QED
    BY <2>1, <2>2, NobodyLeaves
<1>6. ASSUME NEW u \in Worker, Sleep(u)
      PROVE  TimersInOrder' /\ InTime
  <2>1. /\ irq = "on" /\ irq' = "on"
        /\ \E n \in SleepTimes : Arms(k, k', u, n)
    BY <1>6, SleepArms
  <2>2. PICK n \in SleepTimes : Arms(k, k', u, n)
    BY <2>1
  <2>3. n \in Nat /\ n < HalfTick /\ u \in Thread
    BY ProcessorAssumption DEF Worker
  <2>4. TimersInOrder' /\ Range(k.timers) \subseteq Range(k'.timers)
    BY <2>1, <2>2, <2>3, ArmsKept
  <2> QED
    BY <2>4, NobodyLeaves
<1> QED
  BY <1>2, <1>3, <1>4, <1>5, <1>6 DEF KernelNext, TickIsr

-----------------------------------------------------------------------------
(* While threads wait in list o, the n things they wait for have a woken   *)
(* thread each that will test its object again.                            *)
Served(b, w, o, n) == b.wait[o] # <<>> => n <= Cardinality(Pending(b, w, o))

LEMMA ServedFewer ==
    ASSUME NEW b, NEW s, NEW w, NEW v, NEW o, NEW n \in Int,
           Served(b, w, o, n), s.wait[o] # <<>> => b.wait[o] # <<>>,
           Pending(b, w, o) \subseteq Pending(s, v, o)
    PROVE  Served(s, v, o, n)
<1>1. /\ Pending(s, v, o) \in SUBSET Thread
      /\ IsFiniteSet(Pending(s, v, o))
  BY PendingFinite DEF Pending
<1>2. /\ Cardinality(Pending(b, w, o)) \in Nat
      /\ Cardinality(Pending(s, v, o)) \in Nat
  BY PendingFinite DEF Pending
<1>3. Cardinality(Pending(b, w, o)) <= Cardinality(Pending(s, v, o))
  BY <1>1, FS_Subset
<1> QED
  BY <1>2, <1>3 DEF Served

(* One thread has taken what it was woken for.                             *)
LEMMA ServedOneLess ==
    ASSUME NEW b, NEW s, NEW w, NEW v, NEW o, NEW n \in Int, NEW t,
           Served(b, w, o, n), s.wait[o] # <<>> => b.wait[o] # <<>>,
           Pending(b, w, o) \ {t} \subseteq Pending(s, v, o)
    PROVE  Served(s, v, o, n - 1)
<1> DEFINE P == Pending(b, w, o)
           Q == Pending(s, v, o)
<1>1. P \in SUBSET Thread /\ Q \in SUBSET Thread
  BY DEF Pending
<1>2. Served(b, w, o, n) <=> (b.wait[o] # <<>> => n <= Cardinality(P))
  BY DEF Served
<1>3. Served(s, v, o, n - 1) <=> (s.wait[o] # <<>> => n - 1 <= Cardinality(Q))
  BY DEF Served
<1> HIDE DEF P, Q
<1>4. /\ IsFiniteSet(P) /\ IsFiniteSet(Q)
      /\ Cardinality(P) \in Nat /\ Cardinality(Q) \in Nat
  BY <1>1, PendingFinite
<1>5. Cardinality(P \ {t}) >= Cardinality(P) - 1
  <2>1. Cardinality(P \ {t}) =
            IF t \in P THEN Cardinality(P) - 1 ELSE Cardinality(P)
    BY <1>4, FS_RemoveElement
  <2> QED
    BY <1>4, <2>1
<1>6. Cardinality(P \ {t}) <= Cardinality(Q) /\ Cardinality(P \ {t}) \in Nat
  <2>1. P \ {t} \in SUBSET Q
    BY DEF P, Q
  <2>2. P \ {t} \in SUBSET Thread
    BY <1>1
  <2> QED
    BY <1>4, <2>1, <2>2, FS_Subset, PendingFinite
<1>7. n <= Cardinality(P) => n - 1 <= Cardinality(Q)
  BY <1>4, <1>5, <1>6
<1> QED
  BY <1>2, <1>3, <1>7

(* One more thread has been woken.                                         *)
LEMMA ServedOneMore ==
    ASSUME NEW b, NEW s, NEW w, NEW v, NEW o, NEW n \in Int, NEW u,
           Served(b, w, o, n), b.wait[o] # <<>>, u \notin Pending(b, w, o),
           Pending(b, w, o) \cup {u} \subseteq Pending(s, v, o)
    PROVE  Served(s, v, o, n + 1)
<1> DEFINE P == Pending(b, w, o)
           Q == Pending(s, v, o)
<1>1. P \in SUBSET Thread /\ Q \in SUBSET Thread /\ u \notin P
  BY DEF Pending
<1>2. n <= Cardinality(P)
  BY DEF Served
<1>3. n + 1 <= Cardinality(Q) => Served(s, v, o, n + 1)
  BY DEF Served
<1> HIDE DEF P, Q
<1>4. /\ IsFiniteSet(P) /\ IsFiniteSet(Q)
      /\ Cardinality(P) \in Nat /\ Cardinality(Q) \in Nat
  BY <1>1, PendingFinite
<1>5. Cardinality(P \cup {u}) = Cardinality(P) + 1
  BY <1>1, <1>4, FS_AddElement
<1>6. Cardinality(P \cup {u}) <= Cardinality(Q)
  <2>1. P \cup {u} \in SUBSET Q
    BY DEF P, Q
  <2> QED
    BY <1>4, <2>1, FS_Subset
<1> QED
  BY <1>2, <1>3, <1>4, <1>5, <1>6

LEMMA KernelInvLists ==
    ASSUME KernelInv
    PROVE  /\ Sound(k) /\ k \in KernelState
           /\ \A o \in Object : k.wait[o] \in Seq(Thread)
           /\ \A o \in Object, t \in Thread :
                 t \in Range(k.wait[o]) => k.stat[t] = "SUSPEND"
BY DEF KernelInv, Sound, Linked, KernelState, WaitersSuspended

LEMMA ShrinksEmpty ==
    ASSUME KernelInv, KernelInv', Shrinks, NEW o \in Object, k'.wait[o] # <<>>
    PROVE  k.wait[o] # <<>>
<1>1. k'.wait[o] \in Seq(Thread) /\ k.wait[o] \in Seq(Thread)
  BY DEF KernelInv, Sound, Linked, KernelState
<1>2. PICK t \in Range(k'.wait[o]) : TRUE
  BY <1>1, EmptyRange
<1>3. t \in Thread
  BY <1>1, <1>2, RangeOfSeq
<1>4. t \in Range(k.wait[o])
  BY <1>2, <1>3 DEF Shrinks
<1> QED
  BY <1>1, <1>4, EmptyRange

(* A step that leaves the lists alone, in which the calls of the threads   *)
(* of L end.                                                               *)
LEMMA QuietServes ==
    ASSUME KernelInv, NEW w, WaitsAgree(k, pc, w), NEW L \in SUBSET Thread,
           \A t \in L : k.stat[t] # "SUSPEND",
           \A t \in Thread : pc'[t] \in {"wait", "woken"}
                                 <=> pc[t] \in {"wait", "woken"} /\ t \notin L,
           k'.stat = k.stat, k'.wait = k.wait,
           \A t \in Thread \ L : k'.error[t] = k.error[t]
    PROVE  /\ WaitsAgree(k', pc', Ended(w, L))
           /\ \A o \in Object : Pending(k', Ended(w, L), o) = Pending(k, w, o) \ L
<1>1. CallsSettle(L, {})
  BY DEF CallsSettle
<1>2. /\ WaitsAgree(k', pc', Ended(w, L))
      /\ \A o \in Object, t \in Thread :
            t \in Pending(k', Ended(w, L), o) <=>
               \/ t \in Pending(k, w, o) /\ t \notin L
               \/ t \in {} /\ t \in Range(k.wait[o]) /\ k'.error[t] = "OK"
  BY <1>1, WaitsEnd
<1> QED
  BY <1>2 DEF Pending

(* A step in which the first thread u of list is woken.                    *)
LEMMA FreesServes ==
    ASSUME KernelInv, NEW w, WaitsAgree(k, pc, w), NEW L \in SUBSET Thread,
           NEW list \in Object, k.wait[list] # <<>>,
           Frees(k, k', Head(k.wait[list])),
           \A t \in L : k.stat[t] # "SUSPEND",
           \A t \in Thread : pc'[t] \in {"wait", "woken"}
                                 <=> pc[t] \in {"wait", "woken"} /\ t \notin L,
           \A t \in Thread \ {Head(k.wait[list])} : k'.error[t] = k.error[t]
    PROVE  /\ WaitsAgree(k', pc', Ended(w, L))
           /\ Head(k.wait[list]) \notin Pending(k, w, list)
           /\ \A o \in Object :
                 Pending(k', Ended(w, L), o) =
                     (Pending(k, w, o) \ L) \cup
                     IF o = list /\ k'.error[Head(k.wait[list])] = "OK"
                     THEN {Head(k.wait[list])} ELSE {}
<1>1. PICK u : u = Head(k.wait[list])
  OBVIOUS
<1>2. u \in Thread /\ u \in Range(k.wait[list]) /\ k.stat[u] = "SUSPEND"
  BY <1>1, HeadIsWaiting DEF KernelInv
<1>3. \A o \in Object : u \in Range(k.wait[o]) => o = list
  BY <1>2 DEF KernelInv, Sound, Linked, WaitersSuspended
<1>4. CallsSettle(L, {u})
  <2>1. \A t \in Thread : k'.stat[t] = "SUSPEND" => k.stat[t] = "SUSPEND" /\ t # u
    BY <1>1 DEF Frees, Wakes
  <2>2. \A o \in Object : Range(k'.wait[o]) = Range(k.wait[o]) \ {u}
    BY <1>1 DEF Frees
  <2> QED
    BY <1>1, <1>2, <2>1, <2>2 DEF CallsSettle
<1>5. /\ WaitsAgree(k', pc', Ended(w, L))
      /\ \A o \in Object, t \in Thread :
            t \in Pending(k', Ended(w, L), o) <=>
               \/ t \in Pending(k, w, o) /\ t \notin L
               \/ t \in {u} /\ t \in Range(k.wait[o]) /\ k'.error[t] = "OK"
  BY <1>2, <1>4, WaitsEnd
<1>6. u \notin Pending(k, w, list)
  BY <1>2 DEF Pending
<1>7. ASSUME NEW o \in Object
      PROVE  Pending(k', Ended(w, L), o) = (Pending(k, w, o) \ L) \cup
                IF o = list /\ k'.error[u] = "OK" THEN {u} ELSE {}
  <2>1. \A v : Pending(k', v, o) \subseteq Thread /\ Pending(k, v, o) \subseteq Thread
    BY DEF Pending
  <2>2. \A t \in Thread : t \in {u} /\ t \in Range(k.wait[o]) /\ k'.error[t] = "OK"
                            <=> t = u /\ o = list /\ k'.error[u] = "OK"
    BY <1>2, <1>3
  <2> QED
    BY <1>2, <1>5, <2>1, <2>2
<1> QED
  BY <1>1, <1>5, <1>6, <1>7

(* Something is put where the threads of list wait for it, and the first   *)
(* of them is woken; the call of t ends if it waited in the other list.    *)
LEMMA GiveServes ==
    ASSUME KernelInv, NEW w, WaitsAgree(k, pc, w), NEW t \in Thread,
           NEW L \in SUBSET {t}, NEW list \in Object,
           \A x \in L : k.stat[x] # "SUSPEND" /\ w[x] # {list},
           \A x \in Thread : pc'[x] \in {"wait", "woken"}
                                 <=> pc[x] \in {"wait", "woken"} /\ x \notin L,
           IF k.wait[list] # <<>>
           THEN Frees(k, k', Head(k.wait[list])) /\ k'.error = k.error
           ELSE UNCHANGED k
    PROVE  /\ WaitsAgree(k', pc', Ended(w, L))
           /\ \A n \in Int : Served(k, w, list, n) =>
                             Served(k', Ended(w, L), list, n + 1)
           /\ \A o \in Object \ {list} : \A n \in Int : Served(k, w, o, n) =>
                    Served(k', Ended(w, L), o, IF L = {} THEN n ELSE n - 1)
<1> DEFINE v == Ended(w, L)
<1>1. L \in SUBSET Thread
  OBVIOUS
<1>2. /\ WaitsAgree(k', pc', v)
      /\ \A o \in Object : Pending(k, w, o) \ L \subseteq Pending(k', v, o)
      /\ \A o \in Object : k'.wait[o] # <<>> => k.wait[o] # <<>>
      /\ k.wait[list] # <<>> =>
            /\ Head(k.wait[list]) \notin Pending(k, w, list)
            /\ Pending(k, w, list) \cup {Head(k.wait[list])}
                   \subseteq Pending(k', v, list)
  <2>1. CASE k.wait[list] = <<>>
    <3>1. /\ WaitsAgree(k', pc', v)
          /\ \A o \in Object : Pending(k', v, o) = Pending(k, w, o) \ L
      BY <1>1, <2>1, QuietServes
    <3> QED
      BY <2>1, <3>1
  <2>2. CASE k.wait[list] # <<>>
    <3>1. PICK u : u = Head(k.wait[list])
      OBVIOUS
    <3>2. /\ Frees(k, k', u) /\ k'.error = k.error
          /\ u \in Thread /\ u \in Range(k.wait[list])
      BY <2>2, <3>1, HeadIsWaiting DEF KernelInv
    <3>3. k'.error[u] = "OK"
      BY <3>2 DEF WaitsAgree
    <3>4. /\ WaitsAgree(k', pc', v)
          /\ u \notin Pending(k, w, list)
          /\ \A o \in Object :
                Pending(k', v, o) = (Pending(k, w, o) \ L) \cup
                    IF o = list /\ k'.error[u] = "OK" THEN {u} ELSE {}
      BY <1>1, <2>2, <3>1, <3>2, FreesServes
    <3>5. \A x \in L : x \notin Pending(k, w, list)
      BY DEF Pending
    <3>6. \A o \in Object : k'.wait[o] # <<>> => k.wait[o] # <<>>
      <4>1. \A o \in Object : Range(k'.wait[o]) = Range(k.wait[o]) \ {u}
        BY <3>2 DEF Frees
      <4>2. \A o \in Object : k.wait[o] \in Seq(Thread) /\ k'.wait[o] \in Seq(Thread)
        BY <3>2 DEF Frees, Wakes, KernelInv, Sound, Linked, KernelState
      <4> QED
        BY <4>1, <4>2, EmptyRange
    <3> HIDE DEF v
    <3> QED
      BY <2>2, <3>1, <3>3, <3>4, <3>5, <3>6
  <2> QED
    BY <2>1, <2>2
<1> HIDE DEF v
<1>3. ASSUME NEW n \in Int, Served(k, w, list, n)
      PROVE  Served(k', v, list, n + 1)
  <2>1. CASE k.wait[list] = <<>>
    BY <1>2, <2>1 DEF Served
  <2>2. CASE k.wait[list] # <<>>
    BY <1>2, <1>3, <2>2, ServedOneMore
  <2> QED
    BY <2>1, <2>2
<1>4. ASSUME NEW o \in Object \ {list}, NEW n \in Int, Served(k, w, o, n)
      PROVE  Served(k', v, o, IF L = {} THEN n ELSE n - 1)
  <2>1. Pending(k, w, o) \ {t} \subseteq Pending(k', v, o)
    BY <1>2
  <2>2. k'.wait[o] # <<>> => k.wait[o] # <<>>
    BY <1>2
  <2>3. CASE L = {}
    <3>1. Pending(k, w, o) \subseteq Pending(k', v, o)
      BY <1>2, <2>3
    <3>2. Served(k', v, o, n)
      BY <1>4, <2>2, <3>1, ServedFewer
    <3> QED
      BY <2>3, <3>2
  <2>4. CASE L # {}
    <3>1. Served(k', v, o, n - 1)
      BY <1>4, <2>1, <2>2, ServedOneLess
    <3> QED
      BY <2>4, <3>1
  <2> QED
    BY <2>3, <2>4
<1> QED
  BY <1>2, <1>3, <1>4 DEF v

(* A step of the running thread that touches no list, and that ends its    *)
(* call when it was in one.                                                *)
RunsOn(t, w, L, loc) ==
    /\ KernelInv /\ WaitsAgree(k, pc, w)
    /\ t \in Thread /\ L = IF pc[t] = "woken" THEN {t} ELSE {}
    /\ k.cur = t /\ k.stat[t] = "RUNNING" /\ pc[t] # "wait"
    /\ irq' \in {"on", "off", "tick"}
    /\ loc \in Location \ {"wait", "woken"}
    /\ Goto(t, loc) \/ (UNCHANGED pc /\ pc[t] # "woken")
    /\ k' = k \/ (k' = [k EXCEPT !.error[t] = "TIMEOUT"] /\ t \in L)

LEMMA QuietStep ==
    ASSUME NEW t, NEW w, NEW L, NEW loc, RunsOn(t, w, L, loc)
    PROVE  /\ KernelInv' /\ Wakes(k, k') /\ k'.wait = k.wait
           /\ k'.timers = k.timers /\ k'.due = k.due
           /\ WaitsAgree(k', pc', Ended(w, L))
           /\ \A o \in Object : Pending(k', Ended(w, L), o) = Pending(k, w, o) \ L
<1>1. /\ KernelInv /\ Sound(k) /\ k \in KernelState /\ pc \in [Thread -> Location]
      /\ WaitsAgree(k, pc, w)
      /\ t \in Thread /\ k.cur = t /\ k.stat[t] = "RUNNING" /\ pc[t] # "wait"
      /\ L \in SUBSET Thread /\ L = (IF pc[t] = "woken" THEN {t} ELSE {})
      /\ irq' \in {"on", "off", "tick"} /\ loc \in Location \ {"wait", "woken"}
      /\ Goto(t, loc) \/ (UNCHANGED pc /\ pc[t] # "woken")
  BY DEF RunsOn, KernelInv, Sound, Linked
<1>2. /\ k' \in KernelState
      /\ k'.cur = k.cur /\ k'.stat = k.stat /\ k'.prio = k.prio /\ k'.mask = k.mask
      /\ k'.ready = k.ready /\ k'.group = k.group /\ k'.wait = k.wait
      /\ k'.timers = k.timers /\ k'.lock = k.lock /\ k'.due = k.due /\ k'.tick = k.tick
      /\ \A u \in Thread \ L : k'.error[u] = k.error[u]
  <2>1. CASE k' = k
    BY <1>1, <2>1
  <2>2. CASE k' = [k EXCEPT !.error[t] = "TIMEOUT"] /\ t \in L
    BY <1>1, <2>2 DEF KernelState, Error
  <2> QED
    BY <2>1, <2>2 DEF RunsOn
<1>3. Wakes(k, k')
  BY <1>1, <1>2, PlainUpdate
<1>4. KernelInv'
  BY <1>1, <1>3, RunningStep, WakeStep
<1>5. \A u \in Thread : pc'[u] \in {"wait", "woken"}
                            <=> pc[u] \in {"wait", "woken"} /\ u \notin L
  BY <1>1 DEF Goto
<1>6. \A u \in L : k.stat[u] # "SUSPEND"
  BY <1>1
<1> QED
  BY <1>1, <1>2, <1>3, <1>4, <1>5, <1>6, QuietServes


-----------------------------------------------------------------------------
(* The priorities and the order of the suspend lists: a step of the        *)
(* processor changes no priority when the threads that are not started yet *)
(* have theirs.                                                            *)
Mild(b, s) == Thins(b, s) /\ s.prio = b.prio

LEMMA MildSame ==
    ASSUME NEW b, NEW s, s.wait = b.wait, s.stat = b.stat, s.prio = b.prio
    PROVE  Mild(b, s)
BY ThinsSame DEF Mild, Dormant

LEMMA ScheduleMild ==
    ASSUME NEW b, Sound(b)
    PROVE  Mild(b, Schedule(b))
BY ScheduleThins, ScheduleSteady DEF Mild, Steady

LEMMA CpuMild ==
    ASSUME KernelInv, NEW t \in Worker, CpuStep(t),
           \A u \in Thread : k.stat[u] = "INIT" => k.prio[u] = InitPrio[u]
    PROVE  Mild(k, k')
<1>1. Sound(k) /\ k \in KernelState /\ t \in Thread
  BY DEF KernelInv, Sound, Linked, Worker
<1>2. CASE RtSchedule(t)
  <2>1. k' = Schedule(k)
    BY <1>2 DEF RtSchedule
  <2> QED
    BY <1>1, <2>1, ScheduleMild
<1>3. CASE \E u \in Worker : Startup(t, u)
  <2>1. PICK u \in Thread : k.stat[u] = "INIT" /\ k' = ThreadStartup(k, u)
    BY <1>3 DEF Startup, Worker
  <2> QED
    BY <1>1, <2>1, StartupThins DEF Mild
<1>4. CASE Yield(t)
  <2>1. PICK y : y = [k EXCEPT !.remaining[t] = InitTick[t], !.yield[t] = TRUE]
    OBVIOUS
  <2>2. k' = Schedule(y)
    BY <1>4, <2>1 DEF Yield, ThreadYield
  <2>3. /\ y \in KernelState
        /\ y.cur = k.cur /\ y.stat = k.stat /\ y.prio = k.prio
        /\ y.mask = k.mask /\ y.ready = k.ready /\ y.group = k.group
        /\ y.wait = k.wait /\ y.timers = k.timers /\ y.lock = k.lock
    BY <1>1, <2>1, KernelAssumption DEF KernelState
  <2>4. Sound(y)
    BY <1>1, <2>3, PlainUpdate
  <2>5. Mild(k, y) /\ Mild(y, k')
    BY <2>2, <2>3, <2>4, MildSame, ScheduleMild
  <2> QED
    BY <2>5, ThinsTransitive DEF Mild
<1>5. CASE Napped(t) \/ EnterCritical(t) \/ ExitCritical(t)
  <2>1. k'.wait = k.wait /\ k'.stat = k.stat /\ k'.prio = k.prio
    BY <1>1, <1>5 DEF Napped, EnterCritical, ExitCritical, KernelState
  <2> QED
    BY <2>1, MildSame
<1> QED
  BY <1>2, <1>3, <1>4, <1>5 DEF CpuStep

LEMMA SleepMild ==
    ASSUME KernelInv, NEW t \in Worker, Sleep(t)
    PROVE  Mild(k, k')
<1>1. PICK n \in SleepTimes : k' = TimerStart(ThreadSuspend(k, t), t, n)
  BY DEF Sleep
<1>2. /\ At(t, "run") /\ k.lock = 0 /\ t \in Thread /\ t # Idle
  BY DEF Sleep, MayBlock, Worker
<1>3. k.stat[t] = "RUNNING" /\ Sound(k)
  BY <1>2, AtRuns DEF KernelInv
<1>4. PICK s : s = ThreadSuspend(k, t)
  OBVIOUS
<1>5. Thins(k, s) /\ s.prio = k.prio
  BY <1>2, <1>3, <1>4, SuspendThins, SuspendStops DEF Stops
<1>6. s \in KernelState
  BY <1>2, <1>3, <1>4, SuspendRunning DEF Suspends, Sound, Linked
<1>7. k'.wait = s.wait /\ k'.stat = s.stat /\ k'.prio = s.prio
  BY <1>1, <1>4, <1>6 DEF TimerStart, KernelState
<1>8. Mild(s, k')
  BY <1>7, MildSame
<1> QED
  BY <1>5, <1>8, ThinsTransitive DEF Mild

LEMMA KernelNextMild ==
    ASSUME KernelInv, KernelNext,
           \A u \in Thread : k.stat[u] = "INIT" => k.prio[u] = InitPrio[u]
    PROVE  Mild(k, k')
<1>1. Sound(k)
  BY DEF KernelInv
<1>2. CASE TickInterrupt
  BY <1>1, <1>2, TickIncreaseThins, TickIncreaseIs DEF TickInterrupt, Mild
<1>3. CASE TimerCheck
  BY <1>1, <1>3, TimerFireThins, TimerFireIs DEF TimerCheck, TimerExpired, Mild
<1>4. CASE TickReturn
  BY <1>4, MildSame DEF TickReturn
<1> QED
  BY <1>2, <1>3, <1>4, CpuMild, SleepMild DEF KernelNext, TickIsr
=============================================================================
