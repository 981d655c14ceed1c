-------------------------- MODULE MeasurementProofs --------------------------
(***************************************************************************)
(* The operations of timer.c keep a pool well formed, for any pool, any time *)
(* and any timer that is in the list; the engine keeps its types; and the    *)
(* loss count of a UDP receiver and the numbering of a UDP sender            *)
(* (LossIsExact) are right for any tests, any number of streams and          *)
(* datagrams, any order of arrival and any interleaving with the engine's    *)
(* thread.                                                                 *)
(*                                                                         *)
(* First what list_add and list_remove do to a sorted list, then the       *)
(* operations built from them.  Each lemma says which timers are in the list *)
(* afterwards and that the others are as they were: what the callers in the *)
(* engine rely on.  The types of the engine's variables come next.  The    *)
(* invariants that rest on both are in EngineProofs.                       *)
(*                                                                         *)
(* LossIsExact speaks of a worker between two datagrams.  The inductive       *)
(* invariant says what the counters mean while a datagram is being counted:   *)
(* one that closes a gap has been received and is still booked as lost.       *)
(***************************************************************************)
EXTENDS Measurement, FiniteSetTheorems, SequenceTheorems, TLAPS

\* The callbacks of the engine, and none in a timer that has not been used.
Kinds == {"test", "stats", "reporter", "omit", "none"}
TimerType == [proc : Kinds, usecs : Nat, periodic : BOOLEAN, time : Times]
Pools == [list : Seq(Nat), free : Seq(Nat), of : Seq(TimerType)]

\* What a sequence contains.
In(q) == {q[i] : i \in DOMAIN q}

\* The times of a pool's timers never decrease along the sequence q, and no timer
\* is in it twice.
Ordered(of, q) ==
    \A i, j \in DOMAIN q : i < j => ~Earlier(of[q[j]].time, of[q[i]].time) /\ q[i] # q[j]

-----------------------------------------------------------------------------
\* Times are totally ordered.
LEMMA TimesOrdered ==
    ASSUME NEW t \in Times, NEW u \in Times, NEW v \in Times
    PROVE  /\ ~Earlier(t, t)
           /\ Earlier(t, u) => ~Earlier(u, t)
           /\ ~Earlier(u, t) /\ ~Earlier(v, u) => ~Earlier(v, t)
<1>1. /\ t.secs \in Nat /\ t.usecs \in Int /\ u.secs \in Nat /\ u.usecs \in Int
      /\ v.secs \in Nat /\ v.usecs \in Int
  BY TimerConstants DEF Times
<1> QED BY <1>1 DEF Earlier

\* A time stays a time when microseconds are added.
LEMMA TimesAdd ==
    ASSUME NEW t \in Times, NEW k \in Nat
    PROVE  TimeAddUsecs(t, k) \in Times
<1>1. PICK x \in Nat : x = t.usecs + k
  BY TimerConstants DEF Times
<1>2. x \div UsecsPerSec \in Nat /\ x % UsecsPerSec \in 0..(UsecsPerSec - 1)
  BY <1>1, TimerConstants
<1>3. t.secs + x \div UsecsPerSec \in Nat
  BY <1>2 DEF Times
<1> QED BY <1>1, <1>2, <1>3 DEF Times, TimeAddUsecs

\* A set of places that is not empty has a first one.
LEMMA FirstPlace ==
    ASSUME NEW T, T \subseteq Nat, T # {}
    PROVE  \E i \in T : \A j \in T : i <= j
<1>1. PICK i \in T : \A j \in T : ~(<<j, i>> \in OpToRel(<, Nat))
  BY WFMin, NatLessThanWellFounded, Zenon
<1>2. ASSUME NEW j \in T PROVE i <= j
  <2>1. i \in Nat /\ j \in Nat /\ ~(<<j, i>> \in OpToRel(<, Nat))
    BY <1>1, Zenon
  <2>2. j < i => <<j, i>> \in {ss \in Nat \X Nat : ss[1] < ss[2]}
    BY <2>1, Zenon
  <2>3. ~(j < i)
    BY <2>1, <2>2, Zenon DEF OpToRel
  <2>4. i \in Nat /\ j \in Nat
    BY <2>1, Zenon
  <2> QED BY <2>3, <2>4
<1> QED BY <1>2

\* The sequences that list_add and list_remove make.
Insert(q, k, e) == SubSeq(q, 1, k - 1) \o <<e>> \o SubSeq(q, k, Len(q))
Remove(q, k) == SubSeq(q, 1, k - 1) \o SubSeq(q, k + 1, Len(q))

\* A sequence with one more element at a place.
LEMMA Inserted ==
    ASSUME NEW q \in Seq(Nat), NEW e \in Nat, NEW k \in 1..(Len(q) + 1)
    PROVE  /\ Insert(q, k, e) \in Seq(Nat) /\ Len(Insert(q, k, e)) = Len(q) + 1
           /\ \A i \in 1..(Len(q) + 1) :
                Insert(q, k, e)[i] = IF i < k THEN q[i] ELSE IF i = k THEN e ELSE q[i - 1]
<1> DEFINE a == SubSeq(q, 1, k - 1)
           b == SubSeq(q, k, Len(q))
<1>0. Len(q) \in Nat /\ k \in Nat
  BY LenProperties
<1>1. /\ a \in Seq(Nat) /\ Len(a) = k - 1 /\ \A i \in 1..(k - 1) : a[i] = q[i]
  <2>1. \A i \in 1..(k - 1) : q[i] \in Nat
    OBVIOUS
  <2> QED BY <2>1, SubSeqProperties
<1>2. /\ b \in Seq(Nat) /\ Len(b) = Len(q) - k + 1 /\ \A i \in 1..(Len(q) - k + 1) : b[i] = q[k + i - 1]
  <2>1. \A i \in k..Len(q) : q[i] \in Nat
    OBVIOUS
  <2> QED BY <2>1, SubSeqProperties
<1>3. <<e>> \in Seq(Nat) /\ Len(<<e>>) = 1 /\ <<e>>[1] = e
  OBVIOUS
<1> HIDE DEF a, b
<1>4. /\ a \o <<e>> \in Seq(Nat) /\ Len(a \o <<e>>) = k
      /\ \A i \in 1..k : (a \o <<e>>)[i] = IF i < k THEN q[i] ELSE e
  BY <1>1, <1>3, ConcatProperties
<1>5. PICK c \in Seq(Nat) : c = a \o <<e>>
  BY <1>4, Zenon
<1>6. /\ c \o b \in Seq(Nat) /\ Len(c \o b) = Len(q) + 1
      /\ \A i \in 1..(Len(q) + 1) : (c \o b)[i] = IF i <= k THEN c[i] ELSE b[i - k]
  <2>1. /\ Len(c) = k /\ k + (Len(q) - k + 1) = Len(q) + 1
    BY <1>0, <1>4, <1>5
  <2>2. /\ c \o b \in Seq(Nat) /\ Len(c \o b) = Len(c) + Len(b)
        /\ \A i \in 1..(Len(c) + Len(b)) : (c \o b)[i] = IF i <= Len(c) THEN c[i] ELSE b[i - Len(c)]
    BY <1>2, ConcatProperties, Zenon
  <2> QED BY <1>2, <2>1, <2>2, Zenon
<1>7. ASSUME NEW i \in 1..(Len(q) + 1)
      PROVE  (c \o b)[i] = IF i < k THEN q[i] ELSE IF i = k THEN e ELSE q[i - 1]
  <2>1. CASE i <= k
    BY <1>4, <1>5, <1>6, <2>1
  <2>2. CASE ~(i <= k)
    <3>1. i - k \in 1..(Len(q) - k + 1) /\ k + (i - k) - 1 = i - 1
      BY <2>2
    <3> QED BY <1>2, <1>6, <2>2, <3>1
  <2> QED BY <2>1, <2>2, Zenon
<1> QED BY <1>5, <1>6, <1>7, Zenon DEF a, b, Insert

\* A sequence without the element at a place.
LEMMA Removed ==
    ASSUME NEW q \in Seq(Nat), NEW k \in 1..Len(q)
    PROVE  /\ Remove(q, k) \in Seq(Nat) /\ Len(Remove(q, k)) = Len(q) - 1
           /\ \A i \in 1..(Len(q) - 1) : Remove(q, k)[i] = IF i < k THEN q[i] ELSE q[i + 1]
<1> DEFINE a == SubSeq(q, 1, k - 1)
           b == SubSeq(q, k + 1, Len(q))
<1>0. Len(q) \in Nat /\ k \in Nat
  BY LenProperties
<1>1. /\ a \in Seq(Nat) /\ Len(a) = k - 1 /\ \A i \in 1..(k - 1) : a[i] = q[i]
  <2>1. \A i \in 1..(k - 1) : q[i] \in Nat
    OBVIOUS
  <2> QED BY <2>1, SubSeqProperties
<1>2. /\ b \in Seq(Nat) /\ Len(b) = Len(q) - k /\ \A i \in 1..(Len(q) - k) : b[i] = q[k + i]
  <2>1. \A i \in (k + 1)..Len(q) : q[i] \in Nat
    OBVIOUS
  <2> QED BY <2>1, SubSeqProperties
<1> HIDE DEF a, b
<1>3. /\ a \o b \in Seq(Nat) /\ Len(a \o b) = Len(q) - 1
      /\ \A i \in 1..(Len(q) - 1) : (a \o b)[i] = IF i <= k - 1 THEN a[i] ELSE b[i - (k - 1)]
  <2>1. (k - 1) + (Len(q) - k) = Len(q) - 1
    BY <1>0
  <2>2. /\ a \o b \in Seq(Nat) /\ Len(a \o b) = Len(a) + Len(b)
        /\ \A i \in 1..(Len(a) + Len(b)) : (a \o b)[i] = IF i <= Len(a) THEN a[i] ELSE b[i - Len(a)]
    BY <1>1, <1>2, ConcatProperties, Zenon
  <2> QED BY <1>1, <1>2, <2>1, <2>2, Zenon
<1>4. ASSUME NEW i \in 1..(Len(q) - 1)
      PROVE  (a \o b)[i] = IF i < k THEN q[i] ELSE q[i + 1]
  <2>1. CASE i < k
    BY <1>1, <1>3, <2>1
  <2>2. CASE ~(i < k)
    <3>1. i - (k - 1) \in 1..(Len(q) - k) /\ k + (i - (k - 1)) = i + 1 /\ ~(i <= k - 1)
      BY <1>0, <2>2
    <3> QED BY <1>2, <1>3, <2>2, <3>1, Zenon
  <2> QED BY <2>1, <2>2, Zenon
<1> QED BY <1>3, <1>4, Zenon DEF a, b, Remove

-----------------------------------------------------------------------------
\* list_add puts a timer where the order wants it and leaves the others alone.
LEMMA AddKeeps ==
    ASSUME NEW p \in Pools, In(p.list) \subseteq DOMAIN p.of, Ordered(p.of, p.list),
           NEW t \in DOMAIN p.of, t \notin In(p.list)
    PROVE  LET r == ListAdd(p, t)
           IN  /\ r \in Pools /\ r.of = p.of /\ r.free = p.free
               /\ Ordered(p.of, r.list) /\ In(r.list) = In(p.list) \cup {t}
<1> DEFINE q == p.list
           n == Len(q)
           Time(u) == p.of[u].time
           later == {i \in DOMAIN q : Earlier(Time(t), Time(q[i]))}
           k == IF later = {} THEN n + 1 ELSE CHOOSE i \in later : \A j \in later : i <= j
           l == SubSeq(q, 1, k - 1) \o <<t>> \o SubSeq(q, k, n)
<1>1. /\ q \in Seq(Nat) /\ n \in Nat /\ DOMAIN q = 1..n /\ p.of \in Seq(TimerType)
      /\ t \in Nat /\ \A u \in DOMAIN p.of : Time(u) \in Times
  <2>1. q \in Seq(Nat) /\ p.of \in Seq(TimerType)
    BY DEF Pools
  <2>2. n \in Nat /\ DOMAIN q = 1..n /\ t \in Nat
    BY <2>1
  <2>3. ASSUME NEW u \in DOMAIN p.of PROVE Time(u) \in Times
    <3>1. p.of[u] \in TimerType
      BY <2>1
    <3> QED BY <3>1 DEF TimerType
  <2> QED BY <2>1, <2>2, <2>3
<1>2. ASSUME NEW i \in 1..n PROVE q[i] \in Nat /\ q[i] # t /\ q[i] \in DOMAIN p.of
  <2>1. q[i] \in In(q)
    BY <1>1 DEF In
  <2> QED BY <1>1, <2>1
<1> HIDE DEF Time
<1>3. /\ k \in 1..(n + 1)
      /\ \A i \in 1..n : i < k => ~Earlier(Time(t), Time(q[i]))
      /\ k <= n => Earlier(Time(t), Time(q[k]))
  <2>0. later \subseteq 1..n /\ \A i \in 1..n : i \in later <=> Earlier(Time(t), Time(q[i]))
    BY <1>1
  <2> HIDE DEF later
  <2>1. CASE later = {}
    <3>1. k = n + 1
      BY <2>1
    <3> HIDE DEF k
    <3> QED BY <1>1, <2>0, <2>1, <3>1
  <2>2. CASE later # {}
    <3>1. \E i \in later : \A j \in later : i <= j
      <4>1. later \subseteq Nat
        BY <1>1, <2>0
      <4> QED BY <2>2, <4>1, FirstPlace, Zenon
    <3>2. k \in later /\ \A j \in later : k <= j
      BY <2>2, <3>1
    <3> HIDE DEF k
    <3>3. k \in 1..n /\ Earlier(Time(t), Time(q[k]))
      BY <2>0, <3>2
    <3>4. ASSUME NEW i \in 1..n, i < k PROVE ~Earlier(Time(t), Time(q[i]))
      BY <1>1, <2>0, <3>2, <3>3, <3>4
    <3> QED BY <1>1, <3>3, <3>4
  <2> QED BY <2>1, <2>2
<1>4. ListAdd(p, t) = [p EXCEPT !.list = l]
  BY DEF ListAdd, Time
<1> HIDE DEF k, later
<1>5. /\ l \in Seq(Nat) /\ Len(l) = n + 1
      /\ \A i \in 1..(n + 1) : l[i] = IF i < k THEN q[i] ELSE IF i = k THEN t ELSE q[i - 1]
  <2>1. q \in Seq(Nat) /\ t \in Nat /\ k \in 1..(Len(q) + 1)
    BY <1>1, <1>3
  <2>2. l = Insert(q, k, t)
    BY DEF Insert
  <2> HIDE DEF q, l
  <2>3. Insert(q, k, t) \in Seq(Nat)
    BY <2>1, Inserted
  <2>4. Len(Insert(q, k, t)) = Len(q) + 1
    BY <2>1, Inserted
  <2>5. \A i \in 1..(Len(q) + 1) :
           Insert(q, k, t)[i] = IF i < k THEN q[i] ELSE IF i = k THEN t ELSE q[i - 1]
    BY <2>1, Inserted, ZenonT(30)
  <2> QED BY <2>2, <2>3, <2>4, <2>5
<1> HIDE DEF l
<1>6. ListAdd(p, t) \in Pools /\ ListAdd(p, t).of = p.of /\ ListAdd(p, t).free = p.free
      /\ ListAdd(p, t).list = l
  BY <1>4, <1>5, Zenon DEF Pools
<1>7. DOMAIN l = 1..(n + 1)
  BY <1>5, LenProperties
<1>8. In(l) = In(q) \cup {t}
  <2> HIDE DEF n, q
  <2>1. ASSUME NEW i \in 1..(n + 1) PROVE l[i] \in In(q) \cup {t}
    <3>1. CASE i < k
      <4>1. i \in 1..n /\ l[i] = q[i]
        BY <1>1, <1>3, <1>5, <3>1
      <4> QED BY <1>1, <4>1, Zenon DEF In
    <3>2. CASE i = k
      BY <1>1, <1>3, <1>5, <3>2
    <3>3. CASE ~(i < k) /\ i # k
      <4>1. i - 1 \in 1..n /\ l[i] = q[i - 1]
        BY <1>1, <1>3, <1>5, <3>3
      <4> QED BY <1>1, <4>1, Zenon DEF In
    <3> QED BY <3>1, <3>2, <3>3
  <2>2. t \in In(l)
    <3>1. k \in 1..(n + 1) /\ l[k] = t
      BY <1>1, <1>3, <1>5
    <3> QED BY <1>7, <3>1 DEF In
  <2>3. ASSUME NEW i \in 1..n PROVE q[i] \in In(l)
    <3>1. CASE i < k
      <4>1. i \in 1..(n + 1) /\ l[i] = q[i]
        BY <1>1, <1>3, <1>5, <3>1
      <4> QED BY <1>7, <4>1 DEF In
    <3>2. CASE ~(i < k)
      <4>0. i + 1 \in 1..(n + 1) /\ (i + 1) - 1 = i /\ ~(i + 1 < k) /\ i + 1 # k
        BY <1>1, <1>3, <3>2
      <4>1. PICK j \in 1..(n + 1) : j = i + 1
        BY <4>0
      <4>2. l[j] = q[i]
        BY <1>5, <4>0, <4>1
      <4> QED BY <1>7, <4>2 DEF In
    <3> QED BY <3>1, <3>2
  <2> QED BY <1>1, <1>7, <2>1, <2>2, <2>3, Zenon DEF In
<1>9. ASSUME NEW i \in 1..(n + 1), NEW j \in 1..(n + 1), i < j
      PROVE  ~Earlier(Time(l[j]), Time(l[i])) /\ l[i] # l[j]
  <2> HIDE DEF n, q
  <2>0. ASSUME NEW a \in 1..n, NEW b \in 1..n, a < b
        PROVE  ~Earlier(Time(q[b]), Time(q[a])) /\ q[a] # q[b]
    BY <1>1, <2>0, Zenon DEF Ordered, Time, q
  <2>1. CASE j < k
    <3>1. i \in 1..n /\ j \in 1..n /\ l[i] = q[i] /\ l[j] = q[j]
      BY <1>1, <1>3, <1>5, <1>9, <2>1
    <3> QED BY <1>9, <2>0, <3>1
  <2>2. CASE j = k
    <3>1. i \in 1..n /\ i < k /\ l[i] = q[i] /\ l[j] = t
      BY <1>1, <1>3, <1>5, <1>9, <2>2
    <3> QED BY <1>2, <1>3, <3>1
  <2>3. CASE k < j /\ i < k
    <3>1. i \in 1..n /\ j - 1 \in 1..n /\ i < j - 1 /\ l[i] = q[i] /\ l[j] = q[j - 1]
      BY <1>1, <1>3, <1>5, <1>9, <2>3, SMTT(30)
    <3> QED BY <2>0, <3>1
  <2>4. CASE k < j /\ i = k
    <3>1. j - 1 \in 1..n /\ k \in 1..n /\ (k = j - 1 \/ k < j - 1) /\ l[i] = t /\ l[j] = q[j - 1]
      BY <1>1, <1>3, <1>5, <1>9, <2>4, SMTT(30)
    <3>2. ~Earlier(Time(q[j - 1]), Time(q[k])) \/ k = j - 1
      BY <2>0, <3>1
    <3>3. Earlier(Time(t), Time(q[k]))
      BY <1>1, <1>3, <3>1
    <3>4. Time(t) \in Times /\ Time(q[k]) \in Times /\ Time(q[j - 1]) \in Times
      BY <1>1, <1>2, <3>1, Zenon
    <3>5. ~Earlier(Time(q[k]), Time(t))
      BY <3>3, <3>4, TimesOrdered
    <3>6. ~Earlier(Time(q[j - 1]), Time(t))
      BY <3>2, <3>4, <3>5, TimesOrdered
    <3> QED BY <1>2, <3>1, <3>6
  <2>5. CASE k < j /\ k < i
    <3>1. i - 1 \in 1..n /\ j - 1 \in 1..n /\ i - 1 < j - 1 /\ l[i] = q[i - 1] /\ l[j] = q[j - 1]
      BY <1>1, <1>3, <1>5, <1>9, <2>5, SMTT(30)
    <3> QED BY <2>0, <3>1
  <2>6. j < k \/ j = k \/ (k < j /\ i < k) \/ (k < j /\ i = k) \/ (k < j /\ k < i)
    BY <1>1, <1>3, <1>9
  <2> QED BY <2>1, <2>2, <2>3, <2>4, <2>5, <2>6
<1>10. Ordered(p.of, l)
  BY <1>7, <1>9 DEF Ordered, Time
<1> QED BY <1>6, <1>8, <1>10

\* No timer is in q twice, and the times of the others than t never decrease.
OrderedBut(of, q, t) ==
    \A i, j \in DOMAIN q : i < j =>
        /\ q[i] # q[j]
        /\ q[i] # t /\ q[j] # t => ~Earlier(of[q[j]].time, of[q[i]].time)

\* list_remove takes out one timer, whatever its own time is.
LEMMA RemoveKeeps ==
    ASSUME NEW p \in Pools, NEW t \in In(p.list), OrderedBut(p.of, p.list, t)
    PROVE  LET r == ListRemove(p, t)
           IN  /\ r \in Pools /\ r.of = p.of /\ r.free = p.free
               /\ Ordered(p.of, r.list) /\ In(r.list) = In(p.list) \ {t}
<1> DEFINE q == p.list
           n == Len(q)
           k == PlaceOf(p, t)
           l == Remove(q, k)
<1>1. q \in Seq(Nat) /\ n \in Nat /\ DOMAIN q = 1..n
  BY DEF Pools
<1>2. k \in 1..n /\ q[k] = t
  <2>1. \E i \in DOMAIN q : q[i] = t
    BY DEF In
  <2> QED BY <1>1, <2>1 DEF PlaceOf
<1>3. ListRemove(p, t) = [p EXCEPT !.list = l]
  BY DEF ListRemove, Remove
<1> HIDE DEF k
<1>4. /\ l \in Seq(Nat) /\ Len(l) = n - 1
      /\ \A i \in 1..(n - 1) : l[i] = IF i < k THEN q[i] ELSE q[i + 1]
  <2> HIDE DEF q
  <2>1. Remove(q, k) \in Seq(Nat) /\ Len(Remove(q, k)) = Len(q) - 1
    BY <1>1, <1>2, Removed, Zenon
  <2>2. \A i \in 1..(Len(q) - 1) : Remove(q, k)[i] = IF i < k THEN q[i] ELSE q[i + 1]
    BY <1>1, <1>2, Removed, Zenon
  <2> QED BY <2>1, <2>2, SMTT(30)
<1> HIDE DEF l
<1>5. /\ ListRemove(p, t) \in Pools /\ ListRemove(p, t).of = p.of /\ ListRemove(p, t).free = p.free
      /\ ListRemove(p, t).list = l
  BY <1>3, <1>4, Zenon DEF Pools
<1>6. DOMAIN l = 1..(n - 1)
  BY <1>4, LenProperties
<1>7. ASSUME NEW i \in 1..n, NEW j \in 1..n, i < j
      PROVE  /\ q[i] # q[j]
             /\ q[i] # t /\ q[j] # t => ~Earlier(p.of[q[j]].time, p.of[q[i]].time)
  BY <1>1, <1>7, Zenon DEF OrderedBut
\* Where an element of the new list was.
<1>8. ASSUME NEW i \in 1..(n - 1)
      PROVE  \E a \in 1..n : a # k /\ l[i] = q[a] /\ (i < k => a = i) /\ (~(i < k) => a = i + 1)
  <2>1. CASE i < k
    BY <1>1, <1>2, <1>4, <2>1
  <2>2. CASE ~(i < k)
    <3>1. i + 1 \in 1..n /\ i + 1 # k /\ l[i] = q[i + 1]
      BY <1>1, <1>2, <1>4, <2>2
    <3> QED BY <2>2, <3>1
  <2> QED BY <2>1, <2>2
<1>9. ASSUME NEW a \in 1..n, a # k PROVE q[a] # t
  <2>1. a < k \/ k < a
    BY <1>1, <1>2, <1>9
  <2> QED BY <1>2, <1>7, <1>9, <2>1
<1>10. In(l) = In(q) \ {t}
  <2>1. ASSUME NEW i \in 1..(n - 1) PROVE l[i] \in In(q) \ {t}
    BY <1>1, <1>8, <1>9, Zenon DEF In
  <2>2. ASSUME NEW a \in 1..n, q[a] # t PROVE q[a] \in In(l)
    <3>1. CASE a < k
      <4>1. a \in 1..(n - 1) /\ l[a] = q[a]
        BY <1>1, <1>2, <1>4, <3>1
      <4> QED BY <1>6, <4>1 DEF In
    <3>2. CASE k < a
      <4>1. a - 1 \in 1..(n - 1) /\ ~(a - 1 < k) /\ (a - 1) + 1 = a
        BY <1>1, <1>2, <3>2
      <4>2. PICK b \in 1..(n - 1) : b = a - 1
        BY <4>1
      <4>3. l[b] = q[a]
        BY <1>4, <4>1, <4>2
      <4> QED BY <1>6, <4>3 DEF In
    <3>3. a < k \/ k < a
      BY <1>1, <1>2, <2>2, SMTT(30)
    <3> QED BY <3>1, <3>2, <3>3
  <2> QED BY <1>1, <1>6, <2>1, <2>2, Zenon DEF In
<1>11. ASSUME NEW i \in 1..(n - 1), NEW j \in 1..(n - 1), i < j
       PROVE  ~Earlier(p.of[l[j]].time, p.of[l[i]].time) /\ l[i] # l[j]
  <2>1. PICK a \in 1..n : a # k /\ l[i] = q[a] /\ (i < k => a = i) /\ (~(i < k) => a = i + 1)
    BY <1>8
  <2>2. PICK b \in 1..n : b # k /\ l[j] = q[b] /\ (j < k => b = j) /\ (~(j < k) => b = j + 1)
    BY <1>8
  <2>3. a < b
    BY <1>1, <1>2, <1>11, <2>1, <2>2
  <2>4. q[a] # t /\ q[b] # t
    BY <1>9, <2>1, <2>2, Zenon
  <2> QED BY <1>7, <2>1, <2>2, <2>3, <2>4, Zenon
<1>12. Ordered(p.of, l)
  BY <1>6, <1>11 DEF Ordered
<1> QED BY <1>5, <1>10, <1>12

\* list_resort keeps what is in the list, and puts t into its place.
LEMMA ResortKeeps ==
    ASSUME NEW p \in Pools, In(p.list) \subseteq DOMAIN p.of, NEW t \in In(p.list),
           OrderedBut(p.of, p.list, t)
    PROVE  LET r == ListResort(p, t)
           IN  /\ r \in Pools /\ r.of = p.of /\ r.free = p.free
               /\ Ordered(p.of, r.list) /\ In(r.list) = In(p.list)
<1>1. PICK m : m = ListRemove(p, t)
  OBVIOUS
<1>2. /\ m \in Pools /\ m.of = p.of /\ m.free = p.free
      /\ Ordered(m.of, m.list) /\ In(m.list) = In(p.list) \ {t}
  BY <1>1, RemoveKeeps
<1>3. t \in DOMAIN m.of /\ In(m.list) \subseteq DOMAIN m.of /\ t \notin In(m.list)
  BY <1>2
<1>4. PICK r : r = ListAdd(m, t)
  OBVIOUS
<1>5. /\ r \in Pools /\ r.of = m.of /\ r.free = m.free
      /\ Ordered(m.of, r.list) /\ In(r.list) = In(m.list) \cup {t}
  BY <1>2, <1>3, <1>4, AddKeeps
<1>6. ListResort(p, t) = r
  BY <1>1, <1>4, Zenon DEF ListResort
<1> QED BY <1>2, <1>5, <1>6

-----------------------------------------------------------------------------
\* The operations of timer.c on a well-formed pool.

\* WellFormed in the words of the lemmas above.
LEMMA PoolParts ==
    ASSUME NEW p
    PROVE  WellFormed(p) <=>
             /\ Ordered(p.of, p.list)
             /\ \A i, j \in DOMAIN p.free : i # j => p.free[i] # p.free[j]
             /\ In(p.list) \cap In(p.free) = {}
             /\ In(p.list) \cup In(p.free) = DOMAIN p.of
BY DEF WellFormed, Ordered, In

\* tmr_cancel moves a timer from the list to the free list.
LEMMA CancelKeeps ==
    ASSUME NEW p \in Pools, WellFormed(p), NEW t \in In(p.list)
    PROVE  LET r == TmrCancel(p, t)
           IN  /\ r \in Pools /\ WellFormed(r) /\ r.of = p.of
               /\ In(r.list) = In(p.list) \ {t}
<1>1. /\ Ordered(p.of, p.list)
      /\ \A i, j \in DOMAIN p.free : i # j => p.free[i] # p.free[j]
      /\ In(p.list) \cap In(p.free) = {} /\ In(p.list) \cup In(p.free) = DOMAIN p.of
  BY PoolParts, Zenon
<1>2. OrderedBut(p.of, p.list, t)
  BY <1>1 DEF Ordered, OrderedBut
<1>3. PICK m : m = ListRemove(p, t)
  OBVIOUS
<1>4. /\ m \in Pools /\ m.of = p.of /\ m.free = p.free
      /\ Ordered(p.of, m.list) /\ In(m.list) = In(p.list) \ {t}
  BY <1>2, <1>3, RemoveKeeps, Zenon
<1>5. t \in Nat /\ p.free \in Seq(Nat) /\ t \notin In(p.free)
  <2>1. p.list \in Seq(Nat) /\ p.free \in Seq(Nat)
    BY DEF Pools
  <2>2. PICK i \in DOMAIN p.list : t = p.list[i]
    BY DEF In
  <2> QED BY <1>1, <2>1, <2>2
<1> DEFINE f == <<t>> \o p.free
<1>6. /\ f \in Seq(Nat) /\ DOMAIN f = 1..(Len(p.free) + 1) /\ Len(p.free) \in Nat
      /\ \A i \in 1..(Len(p.free) + 1) : f[i] = IF i = 1 THEN t ELSE p.free[i - 1]
  <2>1. <<t>> \in Seq(Nat) /\ Len(<<t>>) = 1 /\ <<t>>[1] = t
    BY <1>5
  <2>2. /\ f \in Seq(Nat) /\ Len(f) = Len(<<t>>) + Len(p.free)
        /\ \A i \in 1..(Len(<<t>>) + Len(p.free)) :
             f[i] = IF i <= Len(<<t>>) THEN <<t>>[i] ELSE p.free[i - Len(<<t>>)]
    BY <1>5, <2>1, ConcatProperties, Zenon
  <2>3. DOMAIN f = 1..Len(f) /\ Len(p.free) \in Nat
    BY <1>5, <2>2, LenProperties
  <2> HIDE DEF f
  <2> QED BY <2>1, <2>2, <2>3
<1> HIDE DEF f
<1>7. TmrCancel(p, t) = [m EXCEPT !.free = f]
  BY <1>3, <1>4 DEF TmrCancel, f
<1>8. PICK r : r = TmrCancel(p, t)
  OBVIOUS
<1>9. r \in Pools /\ r.of = p.of /\ r.list = m.list /\ r.free = f
  BY <1>4, <1>6, <1>7, <1>8, Zenon DEF Pools
<1>10. DOMAIN p.free = 1..Len(p.free)
  BY <1>5, LenProperties
<1>11. ASSUME NEW i \in 1..(Len(p.free) + 1)
       PROVE  \/ i = 1 /\ f[i] = t
              \/ i # 1 /\ i - 1 \in DOMAIN p.free /\ f[i] = p.free[i - 1]
  BY <1>6, <1>10
<1>12. ASSUME NEW i \in DOMAIN f, NEW j \in DOMAIN f, i # j PROVE f[i] # f[j]
  <2>1. i \in 1..(Len(p.free) + 1) /\ j \in 1..(Len(p.free) + 1) /\ (i - 1 = j - 1 => i = j)
    BY <1>6, <1>12
  <2>2. \A x \in DOMAIN p.free : p.free[x] # t
    BY <1>5 DEF In
  <2> QED BY <1>1, <1>11, <1>12, <2>1, <2>2
<1>13. In(f) = In(p.free) \cup {t}
  <2>1. ASSUME NEW i \in DOMAIN f PROVE f[i] \in In(p.free) \cup {t}
    BY <1>6, <1>11, Zenon DEF In
  <2>2. t \in In(f)
    <3>1. 1 \in DOMAIN f /\ f[1] = t
      BY <1>6
    <3> QED BY <3>1 DEF In
  <2>3. ASSUME NEW x \in DOMAIN p.free PROVE p.free[x] \in In(f)
    <3>1. x + 1 \in 1..(Len(p.free) + 1) /\ x + 1 # 1 /\ (x + 1) - 1 = x
      BY <1>6, <1>10
    <3>2. PICK y \in 1..(Len(p.free) + 1) : y = x + 1
      BY <3>1
    <3>3. f[y] = p.free[x]
      BY <1>6, <3>1, <3>2, Zenon
    <3>4. y \in DOMAIN f
      BY <1>6, <3>2, Zenon
    <3> QED BY <3>3, <3>4, Zenon DEF In
  <2> QED BY <2>1, <2>2, <2>3, Zenon DEF In
<1>14. In(m.list) \cap In(f) = {} /\ In(m.list) \cup In(f) = DOMAIN p.of
  BY <1>1, <1>4, <1>13, Zenon
<1>15. WellFormed(r)
  BY <1>4, <1>9, <1>12, <1>14, PoolParts, Zenon
<1> QED BY <1>4, <1>8, <1>9, <1>15, Zenon

\* A timer gets a new time and its place in the list.
LEMMA RetimeKeeps ==
    ASSUME NEW p \in Pools, WellFormed(p), NEW t \in In(p.list), NEW time \in Times
    PROVE  LET r == ListResort([p EXCEPT !.of[t].time = time], t)
           IN  /\ r \in Pools /\ WellFormed(r) /\ In(r.list) = In(p.list)
               /\ DOMAIN r.of = DOMAIN p.of
               /\ \A u \in DOMAIN p.of : r.of[u].proc = p.of[u].proc /\ r.of[u].periodic = p.of[u].periodic
                                         /\ r.of[u].usecs = p.of[u].usecs
<1>1. /\ Ordered(p.of, p.list)
      /\ \A i, j \in DOMAIN p.free : i # j => p.free[i] # p.free[j]
      /\ In(p.list) \cap In(p.free) = {} /\ In(p.list) \cup In(p.free) = DOMAIN p.of
  BY PoolParts
<1>2. /\ p.list \in Seq(Nat) /\ p.free \in Seq(Nat) /\ p.of \in Seq(TimerType)
      /\ t \in DOMAIN p.of
  BY <1>1 DEF Pools
<1>3. PICK of : of = [p.of EXCEPT ![t].time = time]
  BY Zenon
<1>4. /\ DOMAIN of = DOMAIN p.of
      /\ \A u \in DOMAIN p.of : of[u] = IF u = t THEN [p.of[t] EXCEPT !.time = time] ELSE p.of[u]
  BY <1>3
<1>5. \A u \in DOMAIN p.of : p.of[u] \in TimerType
  BY <1>2
<1>6. \A u \in DOMAIN p.of : /\ of[u] \in TimerType /\ of[u].proc = p.of[u].proc
                             /\ of[u].periodic = p.of[u].periodic /\ of[u].usecs = p.of[u].usecs
  BY <1>4, <1>5 DEF TimerType
<1>7. of \in Seq(TimerType)
  <2>1. Len(p.of) \in Nat /\ DOMAIN p.of = 1..Len(p.of)
    BY <1>2, LenProperties
  <2>2. [p.of[t] EXCEPT !.time = time] \in TimerType /\ t \in 1..Len(p.of)
    BY <1>2, <1>5, <2>1, Zenon DEF TimerType
  <2>3. of = [p.of EXCEPT ![t] = [p.of[t] EXCEPT !.time = time]]
    BY <1>2, <1>3
  <2> QED BY <1>2, <2>2, <2>3, ExceptSeq
<1>8. PICK m : m = [p EXCEPT !.of = of]
  BY Zenon
<1>9. m \in Pools /\ m.of = of /\ m.list = p.list /\ m.free = p.free
  BY <1>7, <1>8, Zenon DEF Pools
<1>10. m = [p EXCEPT !.of[t].time = time]
  BY <1>3, <1>8, Zenon DEF Pools
<1>11. OrderedBut(of, p.list, t)
  <2>1. ASSUME NEW i \in DOMAIN p.list, p.list[i] # t PROVE of[p.list[i]] = p.of[p.list[i]]
    <3>1. p.list[i] \in DOMAIN p.of
      BY <1>1 DEF In
    <3> QED BY <1>4, <2>1, <3>1, Zenon
  <2> QED BY <1>1, <2>1 DEF Ordered, OrderedBut
<1>12. In(m.list) \subseteq DOMAIN m.of /\ t \in In(m.list) /\ OrderedBut(m.of, m.list, t)
  BY <1>1, <1>4, <1>9, <1>11
<1>13. PICK r : r = ListResort(m, t)
  OBVIOUS
<1>14. /\ r \in Pools /\ r.of = m.of /\ r.free = m.free
       /\ Ordered(m.of, r.list) /\ In(r.list) = In(m.list)
  BY <1>9, <1>12, <1>13, ResortKeeps
<1>15. WellFormed(r)
  BY <1>1, <1>4, <1>9, <1>14, PoolParts
<1> QED BY <1>4, <1>6, <1>9, <1>10, <1>13, <1>14, <1>15, Zenon

\* The fields of a struct.
LEMMA StructTyped ==
    ASSUME NEW p \in Pools, NEW t \in DOMAIN p.of
    PROVE  p.of[t] \in TimerType /\ p.of[t].usecs \in Nat /\ p.of[t].time \in Times
<1>1. p.of \in Seq(TimerType)
  BY DEF Pools
<1>2. p.of[t] \in TimerType
  BY <1>1
<1> QED BY <1>2 DEF TimerType

\* tmr_reset: the timer's period starts now.
LEMMA ResetKeeps ==
    ASSUME NEW p \in Pools, WellFormed(p), NEW t \in In(p.list), NEW moment \in Times
    PROVE  LET r == TmrReset(p, moment, t)
           IN  /\ r \in Pools /\ WellFormed(r) /\ In(r.list) = In(p.list)
               /\ DOMAIN r.of = DOMAIN p.of
               /\ \A u \in DOMAIN p.of : r.of[u].proc = p.of[u].proc /\ r.of[u].periodic = p.of[u].periodic
<1>1. t \in DOMAIN p.of
  BY PoolParts, Zenon
<1>2. p.of[t].usecs \in Nat
  BY <1>1, StructTyped
<1>3. PICK time \in Times : time = TimeAddUsecs(moment, p.of[t].usecs)
  BY <1>2, TimesAdd
<1>4. PICK r : r = TmrReset(p, moment, t)
  OBVIOUS
<1>5. r = ListResort([p EXCEPT !.of[t].time = time], t)
  BY <1>3, <1>4, Zenon DEF TmrReset
<1> QED BY <1>4, <1>5, RetimeKeeps

\* A timer that has fired: a periodic one stays, any other is freed.
LEMMA FiringKeeps ==
    ASSUME NEW p \in Pools, WellFormed(p), NEW t \in In(p.list)
    PROVE  LET r == AfterFiring(p, t)
           IN  /\ r \in Pools /\ WellFormed(r) /\ DOMAIN r.of = DOMAIN p.of
               /\ In(r.list) = IF p.of[t].periodic THEN In(p.list) ELSE In(p.list) \ {t}
               /\ \A u \in DOMAIN p.of : r.of[u].proc = p.of[u].proc /\ r.of[u].periodic = p.of[u].periodic
<1>1. t \in DOMAIN p.of
  BY PoolParts, Zenon
<1>2. p.of[t].usecs \in Nat /\ p.of[t].time \in Times
  BY <1>1, StructTyped, Zenon
<1>3. PICK time \in Times : time = TimeAddUsecs(p.of[t].time, p.of[t].usecs)
  BY <1>2, TimesAdd
<1>4. PICK r : r = AfterFiring(p, t)
  BY Zenon
<1>5. CASE p.of[t].periodic
  <2>1. [p EXCEPT !.of[t].time = TimeAddUsecs(@, p.of[t].usecs)] = [p EXCEPT !.of[t].time = time]
    BY <1>1, <1>3 DEF Pools
  <2>2. r = ListResort([p EXCEPT !.of[t].time = time], t)
    BY <1>4, <1>5, <2>1, Zenon DEF AfterFiring
  <2> QED BY <1>4, <1>5, <2>2, RetimeKeeps
<1>6. CASE ~p.of[t].periodic
  <2>1. r = TmrCancel(p, t)
    BY <1>4, <1>6, Zenon DEF AfterFiring
  <2> QED BY <1>4, <1>6, <2>1, CancelKeeps
<1> QED BY <1>5, <1>6, Zenon

\* tmr_cancel of a handle that may be NULL.
LEMMA CancelIfSetKeeps ==
    ASSUME NEW p \in Pools, WellFormed(p), NEW t, t # 0 => t \in In(p.list)
    PROVE  LET r == TmrCancelIfSet(p, t)
           IN  /\ r \in Pools /\ WellFormed(r) /\ r.of = p.of
               /\ In(r.list) = In(p.list) \ {t}
<1>1. CASE t = 0
  <2>1. TmrCancelIfSet(p, t) = p
    BY <1>1 DEF TmrCancelIfSet
  <2>2. p.of \in Seq(TimerType)
    BY DEF Pools
  <2>3. 0 \notin DOMAIN p.of
    <3>1. DOMAIN p.of = 1..Len(p.of) /\ Len(p.of) \in Nat
      BY <2>2, LenProperties
    <3> QED BY <3>1
  <2>4. 0 \notin In(p.list)
    BY <2>3, PoolParts, Zenon
  <2> QED BY <1>1, <2>1, <2>4
<1>2. CASE t # 0
  <2>1. TmrCancelIfSet(p, t) = TmrCancel(p, t)
    BY <1>2 DEF TmrCancelIfSet
  <2> QED BY <1>2, <2>1, CancelKeeps
<1> QED BY <1>1, <1>2

\* The timers of a pool are not NULL.
LEMMA NeverNull ==
    ASSUME NEW p \in Pools, WellFormed(p)
    PROVE  0 \notin In(p.list) /\ In(p.list) \subseteq Nat /\ In(p.list) \subseteq DOMAIN p.of
<1>1. p.of \in Seq(TimerType) /\ p.list \in Seq(Nat)
  BY DEF Pools
<1>2. DOMAIN p.of = 1..Len(p.of) /\ Len(p.of) \in Nat
  BY <1>1, LenProperties
<1>3. In(p.list) \subseteq DOMAIN p.of
  BY PoolParts, Zenon
<1> QED BY <1>2, <1>3

\* The first timer, and the one behind a timer: neither the timer itself.
LEMMA NextListed ==
    ASSUME NEW p \in Pools, WellFormed(p), NEW t \in In(p.list)
    PROVE  ListNext(p, t) \in In(p.list) \cup {0} /\ ListNext(p, t) # t
<1>1. p.list \in Seq(Nat) /\ Ordered(p.of, p.list)
  BY PoolParts DEF Pools
<1>2. DOMAIN p.list = 1..Len(p.list) /\ Len(p.list) \in Nat
  BY <1>1, LenProperties
<1>3. PICK i \in DOMAIN p.list : i = PlaceOf(p, t) /\ p.list[i] = t
  BY Zenon DEF PlaceOf, In
<1>4. CASE i = Len(p.list)
  BY <1>3, <1>4, NeverNull, Zenon DEF ListNext
<1>5. CASE i # Len(p.list)
  <2>1. PICK j : j = i + 1
    OBVIOUS
  <2>2. j \in DOMAIN p.list /\ i < j
    BY <1>2, <1>3, <1>5, <2>1, SMTT(30)
  <2>3. p.list[j] # t /\ p.list[j] \in In(p.list)
    BY <1>1, <1>3, <2>2, Zenon DEF Ordered, In
  <2>4. ListNext(p, t) = p.list[j]
    BY <1>3, <1>5, <2>1, Zenon DEF ListNext
  <2> QED BY <2>3, <2>4, Zenon
<1> QED BY <1>4, <1>5, Zenon

\* What stands at the head of the list is an active timer, or none.
LEMMA HeadListed ==
    ASSUME NEW p \in Pools
    PROVE  ListHead(p) \in In(p.list) \cup {0}
<1>1. p.list \in Seq(Nat)
  BY DEF Pools
<1>2. CASE p.list = <<>>
  BY <1>2 DEF ListHead
<1>3. CASE p.list # <<>>
  <2>1. 1 \in DOMAIN p.list /\ Head(p.list) = p.list[1]
    BY <1>1, <1>3, SMTT(30)
  <2> QED BY <1>3, <2>1 DEF ListHead, In
<1> QED BY <1>2, <1>3

\* tmr_create links a struct that is new or was free.
With(L, t) == L \cup {t}

\* tmr_create takes a timer that is not active, from the free list or a new one, and makes
\* it active; the others are as they were.
LEMMA CreateKeeps ==
    ASSUME NEW p \in Pools, WellFormed(p), NEW proc \in Kinds, NEW moment \in Times,
           NEW usecs \in Nat, NEW periodic \in BOOLEAN,
           NEW r, r = TmrCreate(p, proc, moment, usecs, periodic), NEW t, t = NewTimer(p)
    PROVE  /\ r \in Pools /\ WellFormed(r)
           /\ t # 0 /\ t \notin In(p.list) /\ In(r.list) = With(In(p.list), t)
           /\ r.of[t].proc = proc /\ r.of[t].periodic = periodic
           /\ \A u \in In(p.list) : r.of[u] = p.of[u]
<1>0. PICK timer : timer = [proc |-> proc, usecs |-> usecs, periodic |-> periodic,
                            time |-> TimeAddUsecs(moment, usecs)]
  BY Zenon
<1>1. /\ Ordered(p.of, p.list)
      /\ \A i, j \in DOMAIN p.free : i # j => p.free[i] # p.free[j]
      /\ In(p.list) \cap In(p.free) = {} /\ In(p.list) \cup In(p.free) = DOMAIN p.of
  BY PoolParts
<1>2. p.list \in Seq(Nat) /\ p.free \in Seq(Nat) /\ p.of \in Seq(TimerType)
  BY Zenon DEF Pools
<1>3. DOMAIN p.of = 1..Len(p.of) /\ Len(p.of) \in Nat
  BY <1>2, LenProperties, Zenon
<1>4. timer \in TimerType
  BY <1>0, TimesAdd, Zenon DEF TimerType
<1>5. t = NewTimer(p)
  OBVIOUS
<1>6. PICK m : m = IF p.free = <<>> THEN [p EXCEPT !.of = Append(@, timer)]
                   ELSE [p EXCEPT !.of[t] = timer, !.free = Tail(@)]
  BY ZenonT(30)
<1>7. TmrCreate(p, proc, moment, usecs, periodic) = ListAdd(m, t)
  BY <1>0, <1>5, <1>6, Zenon DEF TmrCreate
<1>8. /\ m \in Pools /\ m.list = p.list /\ t \in DOMAIN m.of /\ t # 0 /\ t \notin In(p.list)
      /\ m.of[t] = timer /\ DOMAIN m.of = DOMAIN p.of \cup {t}
      /\ \A u \in DOMAIN p.of : u # t => m.of[u] = p.of[u]
      /\ In(m.free) = In(p.free) \ {t}
      /\ \A i, j \in DOMAIN m.free : i # j => m.free[i] # m.free[j]
  <2>1. CASE p.free = <<>>
    <3>1. t = Len(p.of) + 1 /\ t \notin DOMAIN p.of /\ t # 0
      BY <1>3, <1>5, <2>1 DEF NewTimer
    <3>2. PICK a : a = Append(p.of, timer)
      BY Zenon
    <3>3. /\ a \in Seq(TimerType) /\ Len(a) = Len(p.of) + 1
          /\ \A i \in 1..Len(p.of) : a[i] = p.of[i]
          /\ a[Len(p.of) + 1] = timer
      BY <1>2, <1>3, <1>4, <3>2, AppendProperties
    <3>4. DOMAIN a = 1..(Len(p.of) + 1)
      BY <3>3, LenProperties
    <3>5. m.of = a /\ m.list = p.list /\ m.free = p.free /\ m \in Pools
      BY <1>2, <1>6, <2>1, <3>2, <3>3, Zenon DEF Pools
    <3>6. DOMAIN a = DOMAIN p.of \cup {t} /\ t \in DOMAIN a
      BY <1>3, <3>1, <3>4
    <3>7. a[t] = timer /\ \A u \in DOMAIN p.of : a[u] = p.of[u]
      BY <1>3, <3>1, <3>3, SMTT(30)
    <3>8. t \notin In(p.list) /\ t \notin In(p.free)
      BY <1>1, <3>1, SMTT(30)
    <3> QED BY <1>1, <3>1, <3>5, <3>6, <3>7, <3>8, Zenon
  <2>2. CASE p.free # <<>>
    <3>1. t = p.free[1] /\ 1 \in DOMAIN p.free /\ DOMAIN p.free = 1..Len(p.free) /\ Len(p.free) \in Nat
      BY <1>2, <1>5, <2>2, LenProperties, SMTT(30) DEF NewTimer
    <3>2. t \in In(p.free) /\ t \in DOMAIN p.of /\ t \notin In(p.list) /\ t # 0
      <4>1. t \in In(p.free)
        BY <3>1, Zenon DEF In
      <4>2. t \in DOMAIN p.of /\ t \notin In(p.list)
        BY <1>1, <4>1
      <4> QED BY <1>3, <4>1, <4>2, SMTT(30)
    <3>3. PICK f : f = Tail(p.free)
      BY Zenon
    <3>4. /\ f \in Seq(Nat) /\ Len(f) = Len(p.free) - 1
          /\ \A i \in 1..Len(f) : f[i] = p.free[i + 1]
      BY <1>2, <2>2, <3>3, HeadTailProperties, Zenon
    <3>5. DOMAIN f = 1..(Len(p.free) - 1)
      BY <3>4, LenProperties
    <3>6. PICK o : o = [p.of EXCEPT ![t] = timer]
      BY Zenon
    <3>7. o \in Seq(TimerType)
      BY <1>2, <1>3, <1>4, <3>2, <3>6, ExceptSeq
    <3>8. /\ DOMAIN o = DOMAIN p.of /\ o[t] = timer
          /\ \A u \in DOMAIN p.of : u # t => o[u] = p.of[u]
      BY <3>2, <3>6
    <3>9. m.of = o /\ m.list = p.list /\ m.free = f /\ m \in Pools
      BY <1>2, <1>6, <2>2, <3>3, <3>4, <3>6, <3>7, ZenonT(30) DEF Pools
    <3>10. ASSUME NEW i \in DOMAIN f
           PROVE  \E k \in DOMAIN p.free : k = i + 1 /\ k # 1 /\ f[i] = p.free[k]
      BY <3>1, <3>4, <3>5
    <3>11. ASSUME NEW i \in DOMAIN f, NEW j \in DOMAIN f, i # j PROVE f[i] # f[j]
      <4>1. PICK k \in DOMAIN p.free : k = i + 1 /\ k # 1 /\ f[i] = p.free[k]
        BY <3>10, Zenon
      <4>2. PICK l \in DOMAIN p.free : l = j + 1 /\ l # 1 /\ f[j] = p.free[l]
        BY <3>10, Zenon
      <4>3. k # l
        BY <3>1, <3>5, <3>11, <4>1, <4>2, SMTT(30)
      <4> QED BY <1>1, <4>1, <4>2, <4>3, Zenon
    <3>12. In(f) = In(p.free) \ {t}
      <4>1. ASSUME NEW i \in DOMAIN f PROVE f[i] \in In(p.free) \ {t}
        <5>1. PICK k \in DOMAIN p.free : k # 1 /\ f[i] = p.free[k]
          BY <3>10, Zenon
        <5> QED BY <1>1, <3>1, <5>1, Zenon DEF In
      <4>2. ASSUME NEW k \in DOMAIN p.free, p.free[k] # t PROVE p.free[k] \in In(f)
        <5>1. k # 1
          BY <3>1, <4>2, Zenon
        <5>2. PICK i : i = k - 1
          BY Zenon
        <5>3. i \in DOMAIN f /\ i + 1 = k
          BY <3>1, <3>5, <5>1, <5>2, SMTT(30)
        <5>4. f[i] = p.free[k]
          BY <3>4, <3>5, <5>3, Zenon
        <5> QED BY <5>3, <5>4, Zenon DEF In
      <4> QED BY <4>1, <4>2, Zenon DEF In
    <3> QED BY <3>2, <3>8, <3>9, <3>11, <3>12, Zenon
  <2> QED BY <2>1, <2>2, Zenon
<1>9. In(m.list) \subseteq DOMAIN m.of /\ t \notin In(m.list)
  BY <1>1, <1>8, Zenon
<1>10. \A u \in In(p.list) : m.of[u] = p.of[u]
  <2>1. t \notin In(p.list) /\ \A u \in DOMAIN p.of : u # t => m.of[u] = p.of[u]
    BY <1>8, Zenon
  <2>2. In(p.list) \subseteq DOMAIN p.of
    BY <1>1, Zenon
  <2> QED BY <2>1, <2>2, Zenon
<1>11. Ordered(m.of, m.list)
  <2>1. m.list = p.list
    BY <1>8, Zenon
  <2>2. \A i \in DOMAIN p.list : m.of[p.list[i]] = p.of[p.list[i]]
    BY <1>10, Zenon DEF In
  <2>3. Ordered(m.of, p.list)
    BY <1>1, <2>2, Zenon DEF Ordered
  <2> QED BY <2>1, <2>3, Zenon
<1>12. r = ListAdd(m, t)
  BY <1>7, Zenon
<1>13. /\ r \in Pools /\ r.of = m.of /\ r.free = m.free
       /\ Ordered(m.of, r.list) /\ In(r.list) = In(m.list) \cup {t}
  <2>1. m \in Pools /\ t \in DOMAIN m.of
    BY <1>8, Zenon
  <2>2. PICK q : q = ListAdd(m, t)
    BY Zenon
  <2>3. /\ q \in Pools /\ q.of = m.of /\ q.free = m.free
        /\ Ordered(m.of, q.list) /\ In(q.list) = In(m.list) \cup {t}
    BY <1>9, <1>11, <2>1, <2>2, AddKeeps
  <2> QED BY <1>12, <2>2, <2>3, Zenon
<1>14. In(r.list) \cap In(r.free) = {} /\ In(r.list) \cup In(r.free) = DOMAIN r.of
  BY <1>1, <1>8, <1>13, Zenon
<1>15. WellFormed(r)
  BY <1>8, <1>13, <1>14, PoolParts, SMTT(30)
<1>16. r.of[t].proc = proc /\ r.of[t].periodic = periodic
  <2>1. r.of[t] = timer
    BY <1>8, <1>13, Zenon
  <2>2. timer.proc = proc /\ timer.periodic = periodic
    BY <1>0
  <2> QED BY <2>1, <2>2, Zenon
<1>17. In(r.list) = In(p.list) \cup {t} /\ \A u \in In(p.list) : r.of[u] = p.of[u]
  BY <1>8, <1>10, <1>13, Zenon
<1> QED BY <1>8, <1>13, <1>15, <1>16, <1>17, Zenon DEF With

-----------------------------------------------------------------------------
(* The types of the measurement engine *)

Places == {"create", "cleanup", "loop", "walk", "resched", "join", "stats", "sample_pkts",
           "sample_ooo", "sample_lost", "reset_pkts", "reset_lost", "reset_ooo", "reset_bytes",
           "reset_ival", "reset_timers", "check", "final", "ended", "await", "free", "freed"}
EntryType == [null : BOOLEAN, omitted : BOOLEAN, bytes : Nat, start : Nat, end : Nat,
              pkts : Nat, lost : Nat, ooo : Nat]
Counters == [Streams -> Nat]

Sampling == {"sample_pkts", "sample_ooo", "sample_lost"}
ResettingStream == {"reset_pkts", "reset_lost", "reset_ooo", "reset_bytes", "reset_ival"}

\* The types of each group of variables.
CtlTypes ==
    /\ test \in Tests /\ clock \in Times
    /\ done \in BOOLEAN /\ omitting \in BOOLEAN /\ stopped \in {"no", "apart", "midway"}
    /\ state \in {"TEST_START", "TEST_RUNNING", "TEST_END", "SERVER_ERROR"}
PcTypes ==
    /\ pc \in Places /\ after \in {"loop", "resched", "ended", "final"} /\ at \in 1..(N + 5)
    /\ pc \in Sampling \cup ResettingStream => at <= test.n
    /\ now \in Times
TempTypes == temp \in EntryType /\ sampled \in Nat
WorkTypes ==
    /\ w \in [Streams -> Steps] /\ pk \in Counters /\ moved \in Counters /\ dups \in Counters
ByteTypes == bytes \in Counters /\ ival \in Counters /\ base \in Counters /\ window \in Counters
\* A sender takes back only a number it has given.
UdpTypes ==
    /\ pkts \in Counters /\ lost \in Counters /\ ooo \in Counters
    /\ \A s \in Streams : test.udp /\ Sends(s) /\ w[s] = "call" => pkts[s] >= 1
GoalTypes == testSent \in Nat /\ testRecv \in Nat
EntryTypes ==
    /\ entry \in [Streams -> EntryType] /\ startT \in Counters /\ endT \in Counters /\ kept \in Counters
RateTypes ==
    /\ slot \in 0..(Slots - 1) /\ DOMAIN ring = 0..(Slots - 1) /\ count \in Nat /\ exceeded \in BOOLEAN
HostTypes == delivered \in Counters /\ printed \in Counters

Types == CtlTypes /\ PcTypes /\ TempTypes /\ WorkTypes /\ ByteTypes /\ UdpTypes /\ GoalTypes
         /\ EntryTypes /\ RateTypes /\ HostTypes

-----------------------------------------------------------------------------
\* The test's own numbers.
LEMMA TestFacts ==
    ASSUME CtlTypes
    PROVE  /\ test.n \in 1..N /\ test.n \in Nat /\ N \in Nat /\ test.server \in BOOLEAN /\ test.udp \in BOOLEAN
           /\ test.duration \in Nat /\ test.omit \in Nat /\ test.interval \in Nat /\ test.moves \in Nat
           /\ test.old \in Nat /\ test.wide \in BOOLEAN
<1>1. test \in TestType /\ N \in Nat
  BY MeasurementConstants, Zenon DEF CtlTypes
<1>2. /\ test.n \in Streams /\ test.server \in BOOLEAN /\ test.udp \in BOOLEAN
      /\ test.duration \in Nat /\ test.omit \in Nat /\ test.interval \in Nat /\ test.moves \in Nat
      /\ test.old \in Nat /\ test.wide \in BOOLEAN
  BY <1>1, Zenon DEF TestType
<1> QED BY <1>1, <1>2 DEF Streams

\* Times in microseconds are natural numbers.
LEMMA TimeIsNat == ASSUME NEW t \in Times PROVE TimeInUsecs(t) \in Nat
<1>1. t.secs \in Nat /\ t.usecs \in Nat /\ UsecsPerSec \in Nat
  BY TimerConstants DEF Times
<1>2. PICK a \in Nat, b \in Nat : a = t.secs /\ b = t.usecs
  BY <1>1
<1>3. a * UsecsPerSec + b \in Nat
  BY <1>1, <1>2
<1> QED BY <1>2, <1>3 DEF TimeInUsecs

\* A group whose variables do not change keeps its types.
LEMMA GroupsKept ==
    ASSUME Types
    PROVE  /\ UNCHANGED <<clockVars, ctlVars>> => CtlTypes'
           /\ UNCHANGED <<test, pcVars, now>> => PcTypes'
           /\ UNCHANGED tempVars => TempTypes'
           /\ UNCHANGED workVars => WorkTypes'
           /\ UNCHANGED byteVars => ByteTypes'
           /\ UNCHANGED <<test, w, pkts, lost, ooo>> => UdpTypes'
           /\ UNCHANGED goalVars => GoalTypes'
           /\ UNCHANGED entryVars => EntryTypes'
           /\ UNCHANGED rateVars => RateTypes'
           /\ UNCHANGED hostVars => HostTypes'
<1>1. UNCHANGED <<clockVars, ctlVars>> => CtlTypes'
  BY DEF Types, CtlTypes, clockVars, ctlVars
<1>2. UNCHANGED <<test, pcVars, now>> => PcTypes'
  BY DEF Types, PcTypes, pcVars
<1>3. UNCHANGED tempVars => TempTypes'
  BY DEF Types, TempTypes, tempVars
<1>4. UNCHANGED workVars => WorkTypes'
  BY DEF Types, WorkTypes, workVars, handVars
<1>5. UNCHANGED byteVars => ByteTypes'
  BY DEF Types, ByteTypes, byteVars
<1>6. UNCHANGED <<test, w, pkts, lost, ooo>> => UdpTypes'
  BY DEF Types, UdpTypes, Sends
<1>7. UNCHANGED goalVars => GoalTypes'
  BY DEF Types, GoalTypes, goalVars
<1>8. UNCHANGED entryVars => EntryTypes'
  BY DEF Types, EntryTypes, entryVars
<1>9. UNCHANGED rateVars => RateTypes'
  BY DEF Types, RateTypes, rateVars
<1>10. UNCHANGED hostVars => HostTypes'
  BY DEF Types, HostTypes, hostVars
<1> QED BY <1>1, <1>2, <1>3, <1>4, <1>5, <1>6, <1>7, <1>8, <1>9, <1>10, SMTT(30)

\* A counter of one stream changes.
LEMMA CounterSet ==
    ASSUME NEW f \in Counters, NEW s \in Streams, NEW k \in Nat
    PROVE  [f EXCEPT ![s] = k] \in Counters
BY DEF Counters

\* A counter of a stream that is incremented is still a counter.
LEMMA CounterAdd ==
    ASSUME NEW f \in Counters, NEW s \in Streams, NEW k \in Nat
    PROVE  Add(f, s, k) \in Counters
<1>1. f[s] + k \in Nat
  BY DEF Counters
<1> QED BY <1>1, CounterSet DEF Add

\* A step of a worker keeps the types.
LEMMA WorkerTypes ==
    ASSUME Types, NEW s \in Streams, Worker(s)
    PROVE  Types'
<1>0. UNCHANGED engineVars
  BY DEF Worker, WorkerLoop, Throttled, CallMovesNothing, TcpCall, UdpArrives, UdpNumber, UdpWritten,
         UdpRefused, CountBytes, CountInterval, UdpForward, UdpHighest, UdpBackward, UdpFound, CountTest
<1>1. /\ UNCHANGED <<clockVars, ctlVars>> /\ UNCHANGED <<test, pcVars, now>> /\ UNCHANGED tempVars
      /\ UNCHANGED entryVars /\ UNCHANGED rateVars /\ UNCHANGED hostVars
  BY <1>0, Zenon DEF engineVars, clockVars, tmrVars
<1>2. CtlTypes' /\ PcTypes' /\ TempTypes' /\ EntryTypes' /\ RateTypes' /\ HostTypes'
  BY <1>1, GroupsKept, Zenon
<1>3. w \in [Streams -> Steps] /\ pk \in Counters /\ moved \in Counters /\ dups \in Counters
  BY ZenonT(30) DEF Types, WorkTypes
<1>4. PICK p \in Steps : w' = [w EXCEPT ![s] = p]
  BY <1>3 DEF Worker, WorkerLoop, Throttled, CallMovesNothing, TcpCall, UdpArrives, UdpNumber, UdpWritten,
         UdpRefused, CountBytes, CountInterval, UdpForward, UdpHighest, UdpBackward, UdpFound, CountTest,
         Goto, Steps
<1>5. w' \in [Streams -> Steps]
  <2>1. w \in [Streams -> Steps]
    BY <1>3, Zenon
  <2> QED BY <1>4, <2>1
<1>6. moved' = moved \/ moved' = Add(moved, s, 1)
  BY ZenonT(30) DEF Worker, WorkerLoop, Throttled, CallMovesNothing, TcpCall, UdpArrives, UdpNumber, UdpWritten,
         UdpRefused, CountBytes, CountInterval, UdpForward, UdpHighest, UdpBackward, UdpFound, CountTest,
         handVars
<1>7. dups' = dups \/ dups' = Add(dups, s, 1)
  BY DEF Worker, WorkerLoop, Throttled, CallMovesNothing, TcpCall, UdpArrives, UdpNumber, UdpWritten,
         UdpRefused, CountBytes, CountInterval, UdpForward, UdpHighest, UdpBackward, UdpFound, CountTest,
         handVars
<1>8. pk' = pk \/ \E k \in Nat : pk' = [pk EXCEPT ![s] = k]
  <2>1. CASE UdpArrives(s)
    <3>1. PICK n \in 1..Datagrams : pk' = [pk EXCEPT ![s] = Wire(n)]
      BY <2>1, Zenon DEF UdpArrives
    <3>2. Datagrams \in Nat /\ Wrap \in Nat \ {0}
      BY MeasurementConstants
    <3>3. n \in Nat /\ n % Wrap \in Nat
      BY <3>2
    <3> QED BY <3>1, <3>3, Zenon DEF Wire
  <2>2. CASE ~UdpArrives(s)
    BY <2>2, Zenon DEF Worker, WorkerLoop, Throttled, CallMovesNothing, TcpCall, UdpNumber, UdpWritten,
         UdpRefused, CountBytes, CountInterval, UdpForward, UdpHighest, UdpBackward, UdpFound, CountTest,
         handVars
  <2> QED BY <2>1, <2>2
<1>9. WorkTypes'
  BY <1>3, <1>5, <1>6, <1>7, <1>8, CounterAdd, CounterSet, SMTT(30) DEF WorkTypes
<1>10. ByteTypes'
  <2>1. bytes \in Counters /\ ival \in Counters /\ base \in Counters /\ window \in Counters
    BY SMTT(30) DEF Types, ByteTypes
  <2>2. /\ bytes' = bytes \/ bytes' = Add(bytes, s, 1)
        /\ ival' = ival \/ ival' = Add(ival, s, 1)
        /\ window' = window \/ window' = Add(window, s, 1)
        /\ base' = base
    BY ZenonT(30) DEF Worker, WorkerLoop, Throttled, CallMovesNothing, TcpCall, UdpArrives, UdpNumber, UdpWritten,
         UdpRefused, CountBytes, CountInterval, UdpForward, UdpHighest, UdpBackward, UdpFound, CountTest,
         byteVars
  <2> QED BY <2>1, <2>2, CounterAdd, Zenon DEF ByteTypes
<1>11. GoalTypes'
  <2>1. testSent \in Nat /\ testRecv \in Nat
    BY Zenon DEF Types, GoalTypes
  <2>2. /\ testSent' = testSent \/ testSent' = testSent + 1
        /\ testRecv' = testRecv \/ testRecv' = testRecv + 1
    BY Zenon DEF Worker, WorkerLoop, Throttled, CallMovesNothing, TcpCall, UdpArrives, UdpNumber,
         UdpWritten, UdpRefused, CountBytes, CountInterval, UdpForward, UdpHighest, UdpBackward, UdpFound,
         CountTest, goalVars
  <2>3. testSent' \in Nat /\ testRecv' \in Nat
    BY <2>1, <2>2
  <2> QED BY <2>3, Zenon DEF GoalTypes
<1>12. UdpTypes'
  <2>1. pkts \in Counters /\ lost \in Counters /\ ooo \in Counters
    BY DEF Types, UdpTypes
  <2>2. /\ pkts[s] \in Nat /\ lost[s] \in Nat /\ pk[s] \in Nat
        /\ test.udp /\ Sends(s) /\ w[s] = "call" => pkts[s] >= 1
    BY <1>3, <2>1, SMTT(30) DEF Types, UdpTypes, Counters
  <2>3. \/ pkts' = pkts /\ (w[s] = "call" \/ w'[s] # "call" \/ ~(test.udp /\ Sends(s)))
        \/ UdpNumber(s) \/ UdpRefused(s) \/ UdpHighest(s)
    BY <1>3, ZenonT(30) DEF Worker, WorkerLoop, Throttled, CallMovesNothing, TcpCall, UdpArrives, UdpWritten,
         CountBytes, CountInterval, UdpForward, UdpBackward, UdpFound, CountTest, udpVars, Goto
  <2>4. \E k \in Nat : /\ pkts' = [pkts EXCEPT ![s] = k]
                       /\ test.udp /\ Sends(s) /\ w'[s] = "call" => k >= 1
    <3>1. CASE UdpNumber(s)
      <4>1. pkts[s] + 1 \in Nat /\ pkts[s] + 1 >= 1
        BY <2>2
      <4>2. pkts' = [pkts EXCEPT ![s] = pkts[s] + 1]
        BY <3>1 DEF UdpNumber, Add
      <4> QED BY <4>1, <4>2, Zenon
    <3>2. CASE UdpRefused(s)
      <4>1. w'[s] # "call" /\ pkts[s] + (-1) \in Nat
        BY <1>3, <2>2, <3>2 DEF UdpRefused, Goto
      <4>2. pkts' = [pkts EXCEPT ![s] = pkts[s] + (-1)]
        BY <3>2 DEF UdpRefused, Add
      <4> QED BY <4>1, <4>2, Zenon
    <3>3. CASE UdpHighest(s)
      BY <1>3, <2>1, <2>2, <3>3, Zenon DEF UdpHighest, Goto
    <3>4. CASE pkts' = pkts /\ (w[s] = "call" \/ w'[s] # "call" \/ ~(test.udp /\ Sends(s)))
      <4>1. pkts = [pkts EXCEPT ![s] = pkts[s]]
        BY <2>1 DEF Counters
      <4> QED BY <2>2, <3>4, <4>1, Zenon
    <3> QED BY <2>3, <3>1, <3>2, <3>3, <3>4, Zenon
  <2>5. lost' = lost \/ \E k \in Nat : lost' = [lost EXCEPT ![s] = k]
    <3>1. CASE UdpForward(s)
      <4>1. PICK k : k = lost[s] + (IF pk[s] > pkts[s] + 1 THEN (pk[s] - 1) - pkts[s] ELSE 0)
        BY Zenon
      <4>2. k \in Nat
        <5>1. lost[s] \in Nat /\ pk[s] \in Nat /\ pkts[s] \in Nat
          BY <2>2, Zenon
        <5> QED BY <4>1, <5>1
      <4> QED BY <3>1, <4>1, <4>2, Zenon DEF UdpForward, Add
    <3>2. CASE UdpFound(s)
      <4>1. PICK k : k = lost[s] + (IF lost[s] > 0 THEN -1 ELSE 0)
        BY Zenon
      <4>2. k \in Nat
        <5>1. lost[s] \in Nat
          BY <2>2, Zenon
        <5> QED BY <4>1, <5>1
      <4> QED BY <3>2, <4>1, <4>2, ZenonT(30) DEF UdpFound, Add
    <3>3. CASE ~UdpForward(s) /\ ~UdpFound(s)
      BY <3>3 DEF Worker, WorkerLoop, Throttled, CallMovesNothing, TcpCall, UdpArrives, UdpNumber,
         UdpWritten, UdpRefused, CountBytes, CountInterval, UdpHighest, UdpBackward, CountTest, udpVars
    <3> QED BY <3>1, <3>2, <3>3
  <2>6. ooo' = ooo \/ ooo' = Add(ooo, s, 1)
    BY Zenon DEF Worker, WorkerLoop, Throttled, CallMovesNothing, TcpCall, UdpArrives, UdpNumber, UdpWritten,
         UdpRefused, CountBytes, CountInterval, UdpForward, UdpHighest, UdpBackward, UdpFound, CountTest,
         udpVars
  <2>7. pkts' \in Counters /\ lost' \in Counters /\ ooo' \in Counters
    <3>1. pkts' \in Counters
      BY <2>1, <2>4, CounterSet, ZenonT(30)
    <3>2. lost' \in Counters
      BY <2>1, <2>5, CounterSet, Zenon
    <3>3. ooo' \in Counters
      BY <2>1, <2>6, CounterAdd, Zenon
    <3> QED BY <3>1, <3>2, <3>3
  <2>8. ASSUME NEW t \in Streams, test'.udp, Sends(t)', w'[t] = "call" PROVE pkts'[t] >= 1
    <3>1. test' = test
      BY <1>1
    <3>2. CASE t = s
      BY <2>1, <2>4, <2>8, <3>1, <3>2, Zenon DEF Counters, Sends
    <3>3. CASE t # s
      <4>1. w'[t] = w[t] /\ pkts'[t] = pkts[t]
        BY <1>3, <1>4, <2>1, <2>4, <3>3, Zenon DEF Counters
      <4> QED BY <2>8, <3>1, <4>1, Zenon DEF Types, UdpTypes, Sends
    <3> QED BY <3>2, <3>3
  <2> QED BY <2>7, <2>8, Zenon DEF UdpTypes
<1> QED BY <1>2, <1>9, <1>10, <1>11, <1>12, ZenonT(30) DEF Types

-----------------------------------------------------------------------------
\* Steps that change only where the engine's thread is, and its timers.
LEMMA PlaceTypes ==
    ASSUME Types,
           \/ RunTimers \/ WalkEnds \/ Reschedule \/ ResetTimers \/ GoOn \/ EndTest \/ LeaveLoop
           \/ ConnectionFails \/ FreeTimers \/ ResetPackets \/ ResetLost \/ ResetOutOfOrder
    PROVE  Types'
<1>1. /\ UNCHANGED <<clockVars, ctlVars>> /\ UNCHANGED tempVars /\ UNCHANGED workVars
      /\ UNCHANGED byteVars /\ UNCHANGED <<test, w, pkts, lost, ooo>> /\ UNCHANGED goalVars
      /\ UNCHANGED entryVars /\ UNCHANGED rateVars /\ UNCHANGED hostVars
  BY DEF RunTimers, WalkEnds, Reschedule, ResetTimers, GoOn, EndTest, LeaveLoop, ConnectionFails,
         FreeTimers, ResetPackets, ResetLost, ResetOutOfOrder, ResetBaseline, TestUnchanged, countVars,
         clockVars, workVars, udpVars
<1>2. PcTypes'
  <2>1. PcTypes /\ CtlTypes /\ N \in Nat /\ test' = test
    BY <1>1, TestFacts, Zenon DEF Types, clockVars
  <2>2. NoTime \in Times /\ clock \in Times
    BY TimerConstants, <2>1, SMTT(30) DEF NoTime, Times, CtlTypes
  <2>3. CASE RunTimers \/ WalkEnds \/ Reschedule
    BY <2>1, <2>2, <2>3, Zenon DEF RunTimers, WalkEnds, Reschedule, PcTypes, Places, Sampling, ResettingStream
  <2>4. CASE ResetTimers \/ GoOn \/ EndTest \/ LeaveLoop \/ ConnectionFails \/ FreeTimers
    BY <2>1, <2>4 DEF ResetTimers, GoOn, EndTest, LeaveLoop, ConnectionFails, FreeTimers, tmrVars, PcTypes,
                      Places, Sampling, ResettingStream
  <2>5. CASE ResetPackets \/ ResetLost \/ ResetOutOfOrder
    BY <2>1, <2>5 DEF ResetPackets, ResetLost, ResetOutOfOrder, ResetBaseline, tmrVars, PcTypes, Places,
                      Sampling, ResettingStream
  <2> QED BY <2>3, <2>4, <2>5, Zenon
<1> QED BY <1>1, <1>2, GroupsKept, Zenon DEF Types

\* Steps that also change the clock or the flags of the test.
LEMMA ControlTypes ==
    ASSUME Types,
           \/ Tick \/ RequestStop \/ CreateTimer \/ CreateTimerFails \/ FireTest \/ SendTestEnd
    PROVE  Types'
<1>1. /\ UNCHANGED tempVars /\ UNCHANGED workVars
      /\ UNCHANGED byteVars /\ UNCHANGED <<test, w, pkts, lost, ooo>> /\ UNCHANGED goalVars
      /\ UNCHANGED entryVars /\ UNCHANGED rateVars /\ UNCHANGED hostVars
  BY DEF Tick, RequestStop, CreateTimer, CreateTimerFails, FireTest, SendTestEnd, countVars,
         clockVars, workVars, udpVars
<1>2. PcTypes /\ CtlTypes /\ N \in Nat /\ test' = test
  BY <1>1, TestFacts DEF Types
<1>3. CtlTypes'
  <2>1. CASE Tick
    BY <1>2, <2>1, TimesAdd, Zenon DEF Tick, CtlTypes, ctlVars
  <2>2. CASE RequestStop
    BY <1>2, <2>2, SMTT(30) DEF RequestStop, CtlTypes, clockVars
  <2>3. CASE CreateTimer \/ CreateTimerFails
    BY <1>2, <2>3, Zenon DEF CreateTimer, CreateTimerFails, CtlTypes, clockVars
  <2>4. CASE FireTest \/ SendTestEnd
    BY <1>2, <2>4, Zenon DEF FireTest, SendTestEnd, CtlTypes, clockVars
  <2> QED BY <2>1, <2>2, <2>3, <2>4, Zenon
<1>4. PcTypes'
  <2>1. CASE Tick \/ RequestStop
    <3>1. UNCHANGED <<test, pcVars, now>>
      BY <1>2, <2>1, Zenon DEF Tick, RequestStop, tmrVars, clockVars
    <3> QED BY <3>1, GroupsKept, Zenon
  <2>2. CASE CreateTimer
    <3>1. /\ pc' = pc /\ after' = after /\ pc = "create" /\ at' = at + 1 /\ at <= 4
          /\ now' \in Times
      BY <1>2, <2>2, ZenonT(30) DEF CreateTimer, Plan, PcTypes, CtlTypes
    <3> QED BY <1>2, <3>1, SMTT(30) DEF PcTypes, Places, Sampling, ResettingStream
  <2>3. CASE CreateTimerFails
    BY <1>2, <2>3, Zenon DEF CreateTimerFails, tmrVars, PcTypes, Places, Sampling, ResettingStream
  <2>4. CASE FireTest \/ SendTestEnd
    BY <1>2, <2>4 DEF FireTest, SendTestEnd, tmrVars, PcTypes, Places, Sampling, ResettingStream
  <2> QED BY <2>1, <2>2, <2>3, <2>4, Zenon
<1> QED BY <1>1, <1>3, <1>4, GroupsKept, Zenon DEF Types

\* Steps of a sample that are not yet, or no longer, about a stream's counters.
LEMMA CallbackTypes ==
    ASSUME Types, \/ FireStats \/ FinalSample \/ ReadTestEnd \/ SamplePackets \/ SampleOutOfOrder
    PROVE  Types'
<1>1. /\ UNCHANGED workVars
      /\ UNCHANGED byteVars /\ UNCHANGED <<test, w, pkts, lost, ooo>> /\ UNCHANGED goalVars
      /\ UNCHANGED entryVars /\ UNCHANGED rateVars /\ UNCHANGED hostVars
  BY DEF FireStats, FinalSample, ReadTestEnd, SamplePackets, SampleOutOfOrder, SampleCounter, countVars,
         clockVars, workVars, udpVars
<1>2. PcTypes /\ CtlTypes /\ TempTypes /\ UdpTypes /\ N \in Nat /\ test.n \in 1..N /\ test' = test
  BY <1>1, TestFacts DEF Types
<1>3. CtlTypes'
  BY <1>2, Zenon DEF FireStats, FinalSample, ReadTestEnd, SamplePackets, SampleOutOfOrder, SampleCounter, CtlTypes,
              clockVars, ctlVars
<1>4. PcTypes'
  <2>1. CASE FireStats \/ FinalSample \/ ReadTestEnd
    BY <1>2, <2>1 DEF FireStats, FinalSample, ReadTestEnd, StatsCallback, tmrVars, PcTypes, Places, Sampling,
                      ResettingStream
  <2>2. CASE SamplePackets \/ SampleOutOfOrder
    BY <1>2, <2>2, Zenon DEF SamplePackets, SampleOutOfOrder, SampleCounter, tmrVars, PcTypes, Places, Sampling,
                      ResettingStream
  <2> QED BY <2>1, <2>2, Zenon
<1>5. TempTypes'
  <2>1. CASE FireStats \/ FinalSample \/ ReadTestEnd
    BY <1>2, <2>1 DEF FireStats, FinalSample, ReadTestEnd, StatsCallback, TempTypes
  <2>2. CASE SamplePackets \/ SampleOutOfOrder
    <3>1. at \in Streams
      BY <1>2, <2>2 DEF SamplePackets, SampleOutOfOrder, SampleCounter, PcTypes, Sampling, Streams
    <3>2. pkts[at] \in Nat /\ ooo[at] \in Nat /\ temp \in EntryType
      BY <1>2, <3>1 DEF UdpTypes, Counters, TempTypes
    <3>3. [temp EXCEPT !.pkts = pkts[at]] \in EntryType /\ [temp EXCEPT !.ooo = ooo[at]] \in EntryType
      BY <3>2 DEF EntryType
    <3> QED BY <1>2, <2>2, <3>3 DEF SamplePackets, SampleOutOfOrder, SampleCounter, TempTypes
  <2> QED BY <2>1, <2>2
<1> QED BY <1>1, <1>3, <1>4, <1>5, GroupsKept, Zenon DEF Types

\* A report keeps the types of what the host has been given.
LEMMA ReportTypes == ASSUME Types, Report PROVE HostTypes'
<1>1. /\ delivered \in Counters /\ printed \in Counters /\ entry \in [Streams -> EntryType]
      /\ Live \subseteq Streams
  BY TestFacts DEF Types, HostTypes, EntryTypes, Live, Streams
<1>2. \A s \in Streams : entry[s].bytes \in Nat /\ delivered[s] \in Nat /\ printed[s] \in Nat
  BY <1>1 DEF EntryType, Counters
<1>3. printed' \in Counters
  BY <1>1, <1>2, SMTT(30) DEF Report, PrintIntermediate, Counters
<1>4. delivered' \in Counters
  <2>1. DOMAIN ResultStreams \subseteq Streams
    BY <1>1, Zenon DEF ResultStreams
  <2>2. \A s \in DOMAIN ResultStreams : ResultStreams[s].bytes = entry[s].bytes
    BY DEF ResultStreams
  <2>3. \A s \in DOMAIN ResultStreams : delivered[s] + ResultStreams[s].bytes \in Nat
    BY <1>2, <2>1, <2>2
  <2>4. \/ delivered' = delivered
        \/ delivered' = [s \in Streams |-> IF s \in DOMAIN ResultStreams
                                           THEN delivered[s] + ResultStreams[s].bytes ELSE delivered[s]]
    BY Zenon DEF Report, Deliver
  <2>5. CASE delivered' = delivered
    BY <1>1, <2>5, Zenon
  <2>6. CASE delivered' = [s \in Streams |-> IF s \in DOMAIN ResultStreams
                                           THEN delivered[s] + ResultStreams[s].bytes ELSE delivered[s]]
    BY <1>2, <2>3, <2>6 DEF Counters
  <2> QED BY <2>4, <2>5, <2>6, Zenon
<1> QED BY <1>3, <1>4, Zenon DEF HostTypes

\* Steps that report.
LEMMA ReportingTypes ==
    ASSUME Types, \/ FireReporter \/ DisplayResults \/ FinishTestEnd \/ ReadTerminate
    PROVE  Types'
<1>1. /\ UNCHANGED <<clockVars, ctlVars>> /\ UNCHANGED tempVars /\ UNCHANGED workVars
      /\ UNCHANGED byteVars /\ UNCHANGED <<test, w, pkts, lost, ooo>> /\ UNCHANGED goalVars
      /\ UNCHANGED entryVars /\ UNCHANGED rateVars
  BY Zenon DEF FireReporter, DisplayResults, FinishTestEnd, ReadTerminate, ClosingReport, countVars,
         clockVars, workVars, udpVars
<1>2. PcTypes'
  BY <1>1 DEF FireReporter, DisplayResults, FinishTestEnd, ReadTerminate, ClosingReport, clockVars, tmrVars,
              Types, PcTypes, Places, Sampling, ResettingStream
<1>3. HostTypes'
  <2>1. Report \/ UNCHANGED <<previous, delivered, printed>>
    BY DEF FireReporter, DisplayResults, FinishTestEnd, ReadTerminate, ClosingReport
  <2>2. CASE UNCHANGED <<previous, delivered, printed>>
    BY <2>2 DEF Types, HostTypes
  <2> QED BY <2>1, <2>2, ReportTypes, Zenon
<1> QED BY <1>1, <1>2, <1>3, GroupsKept, Zenon DEF Types

\* The workers are started or joined.
LEMMA ThreadTypes == ASSUME Types, StartWorkers \/ Join PROVE Types'
<1>1. /\ UNCHANGED tempVars /\ UNCHANGED byteVars /\ UNCHANGED goalVars
      /\ UNCHANGED entryVars /\ UNCHANGED rateVars /\ UNCHANGED hostVars
      /\ test' = test /\ UNCHANGED handVars /\ UNCHANGED udpVars
  BY DEF StartWorkers, Join, clockVars
<1>2. PcTypes /\ CtlTypes /\ WorkTypes /\ UdpTypes /\ N \in Nat /\ test.n \in 1..N
  BY TestFacts, Zenon DEF Types
<1>3. CtlTypes'
  BY <1>1, <1>2 DEF StartWorkers, Join, CtlTypes, clockVars, ctlVars
<1>4. PcTypes'
  <2>1. NoTime \in Times
    BY TimerConstants, SMTT(30) DEF NoTime, Times
  <2>2. CASE StartWorkers
    BY <1>1, <1>2, <2>1, <2>2, SMTT(30) DEF StartWorkers, PcTypes, Places, Sampling, ResettingStream
  <2>3. CASE Join
    BY <1>1, <1>2, <2>3, Zenon DEF Join, tmrVars, PcTypes, Places, Sampling, ResettingStream
  <2> QED BY <2>2, <2>3
<1>5. w' \in [Streams -> Steps] /\ \A s \in Streams : w'[s] = "call" => w[s] = "call"
  BY <1>2, Zenon DEF StartWorkers, Join, WorkTypes, Steps
<1>6. WorkTypes'
  BY <1>1, <1>2, <1>5, Zenon DEF WorkTypes, handVars
<1>7. UdpTypes'
  BY <1>1, <1>2, <1>5, Zenon DEF UdpTypes, udpVars, Sends
<1> QED BY <1>1, <1>3, <1>4, <1>6, <1>7, GroupsKept, Zenon DEF Types

\* The time of a sample.
LEMMA SampleTimeTyped == ASSUME CtlTypes, NEW s PROVE SampleTime(s) \in Times
BY TimesAdd DEF CtlTypes, SampleTime

\* A sample takes the counter of the interval.
LEMMA SampleTypes == ASSUME Types, SampleBytes PROVE Types'
<1>1. /\ UNCHANGED workVars /\ UNCHANGED <<test, w, pkts, lost, ooo>> /\ UNCHANGED goalVars
      /\ UNCHANGED rateVars /\ UNCHANGED hostVars
      /\ UNCHANGED ctlVars /\ UNCHANGED <<bytes, base, window, startT, after, now>>
  BY DEF SampleBytes, workVars, udpVars, tmrVars
<1>2. /\ PcTypes /\ CtlTypes /\ TempTypes /\ ByteTypes /\ EntryTypes
      /\ N \in Nat /\ test.n \in 1..N /\ test.udp \in BOOLEAN
  BY TestFacts, Zenon DEF Types
<1>3. at \in Streams /\ at <= test.n /\ at + 1 \in 1..(N + 5)
  BY <1>2 DEF SampleBytes, PcTypes, Streams
<1>4. SampleTime(at) \in Times /\ TimeInUsecs(SampleTime(at)) \in Nat
  BY <1>2, SampleTimeTyped, TimeIsNat, Zenon
<1>5. CtlTypes'
  BY <1>1, <1>2, <1>4, Zenon DEF SampleBytes, CtlTypes, ctlVars
<1>6. PcTypes'
  BY <1>1, <1>2, <1>3, Zenon DEF SampleBytes, PcTypes, Places, Sampling, ResettingStream
<1>7. /\ ival[at] \in Nat /\ startT[at] \in Nat /\ endT[at] \in Nat /\ sampled \in Nat
  BY <1>2, <1>3, SMTT(30) DEF ByteTypes, EntryTypes, Counters, TempTypes
<1>8. TempTypes' /\ ((entry' = entry /\ kept' = kept) \/ AddToIntervalList(at, temp')) /\ temp'.bytes \in Nat
  <2>1. PICK e : /\ e = [null |-> FALSE, omitted |-> omitting, bytes |-> ival[at],
                     start |-> IF entry[at].null THEN startT[at] ELSE endT[at],
                     end |-> TimeInUsecs(SampleTime(at)), pkts |-> 0, lost |-> 0, ooo |-> 0]
                 /\ temp' = e /\ sampled' = sampled + ival[at]
                 /\ (entry' = entry /\ kept' = kept) \/ AddToIntervalList(at, e)
    BY Zenon DEF SampleBytes
  <2>2. e \in EntryType
    BY <1>2, <1>4, <1>7, <2>1, Zenon DEF EntryType, CtlTypes
  <2>3. sampled + ival[at] \in Nat
    BY <1>7, SMTT(30)
  <2> QED BY <2>1, <2>2, <2>3, ZenonT(30) DEF TempTypes, EntryType
<1>9. ByteTypes'
  BY <1>1, <1>2, <1>3, CounterSet, Zenon DEF SampleBytes, ByteTypes
<1>10. EntryTypes'
  <2>1. endT' \in Counters
    BY <1>2, <1>3, <1>4, CounterSet, Zenon DEF SampleBytes, EntryTypes
  <2>2. CASE entry' = entry /\ kept' = kept
    BY <1>1, <1>2, <2>1, <2>2, Zenon DEF EntryTypes
  <2>3. CASE AddToIntervalList(at, temp')
    <3>1. entry' \in [Streams -> EntryType]
      BY <1>2, <1>3, <1>8, <2>3, Zenon DEF AddToIntervalList, EntryTypes, TempTypes
    <3>2. kept' \in Counters
      BY <1>2, <1>3, <1>8, <2>3, CounterAdd, Zenon DEF AddToIntervalList, EntryTypes
    <3> QED BY <1>1, <1>2, <2>1, <3>1, <3>2, Zenon DEF EntryTypes
  <2> QED BY <1>8, <2>2, <2>3
<1> QED BY <1>1, <1>5, <1>6, <1>8, <1>9, <1>10, GroupsKept, Zenon DEF Types

\* The entry of a UDP stream is complete.
LEMMA SampleLostTypes == ASSUME Types, SampleLost PROVE Types'
<1>1. /\ UNCHANGED <<clockVars, ctlVars>> /\ UNCHANGED tempVars /\ UNCHANGED workVars
      /\ UNCHANGED byteVars /\ UNCHANGED <<test, w, pkts, lost, ooo>> /\ UNCHANGED goalVars
      /\ UNCHANGED rateVars /\ UNCHANGED hostVars /\ UNCHANGED <<startT, endT, after, now>>
  BY DEF SampleLost, countVars, clockVars, workVars, udpVars, tmrVars
<1>2. /\ PcTypes /\ TempTypes /\ UdpTypes /\ EntryTypes /\ N \in Nat /\ test.n \in 1..N
  BY TestFacts DEF Types
<1>3. at \in Streams /\ at + 1 \in 1..(N + 5)
  BY <1>2 DEF SampleLost, PcTypes, Sampling, Streams
<1>4. PcTypes'
  BY <1>1, <1>2, <1>3 DEF SampleLost, PcTypes, Places, Sampling, ResettingStream
<1>5. PICK e : e = [temp EXCEPT !.lost = lost[at]] /\ AddToIntervalList(at, e)
  BY DEF SampleLost
<1>6. lost[at] \in Nat
  BY <1>2, <1>3 DEF UdpTypes, Counters
<1>7. e \in EntryType /\ e.bytes \in Nat
  BY <1>2, <1>5, <1>6 DEF TempTypes, EntryType
<1>8. entry' \in [Streams -> EntryType]
  BY <1>2, <1>3, <1>5, <1>7 DEF AddToIntervalList, EntryTypes
<1>9. kept' \in Counters
  BY <1>2, <1>3, <1>5, <1>7, CounterAdd, Zenon DEF AddToIntervalList, EntryTypes
<1>10. EntryTypes'
  BY <1>1, <1>2, <1>8, <1>9 DEF EntryTypes
<1> QED BY <1>1, <1>4, <1>10, GroupsKept, Zenon DEF Types

\* The callback ends with the check of the rate.
LEMMA StatsDoneTypes == ASSUME Types, StatsDone PROVE Types'
<1>1. /\ UNCHANGED <<clockVars, ctlVars>> /\ UNCHANGED workVars
      /\ UNCHANGED byteVars /\ UNCHANGED <<test, w, pkts, lost, ooo>> /\ UNCHANGED goalVars
      /\ UNCHANGED entryVars /\ UNCHANGED hostVars /\ UNCHANGED <<after, now>>
  BY Zenon DEF StatsDone, countVars, clockVars, workVars, udpVars, tmrVars
<1>2. PcTypes /\ RateTypes /\ N \in Nat /\ Slots \in Nat \ {0}
  BY TestFacts, MeasurementConstants, Zenon DEF Types
<1>3. PcTypes'
  BY <1>1, <1>2, SMTT(30) DEF StatsDone, PcTypes, Places, Sampling, ResettingStream
<1>4. TempTypes'
  BY DEF StatsDone, TempTypes, NoEntry, EntryType
<1>5. RateTypes'
  <2>1. CASE UNCHANGED rateVars
    BY <2>1, GroupsKept, Zenon
  <2>2. CASE ~UNCHANGED rateVars
    <3>1. /\ slot' = NextSlot(slot) /\ count' = count + 1
          /\ ring' = [ring EXCEPT ![NextSlot(slot)] = sampled]
      BY <2>2, Zenon DEF StatsDone, CheckTotalRate
    <3>2. exceeded' \in BOOLEAN
      BY <2>2, <1>2, Zenon DEF StatsDone, CheckTotalRate, RateTypes
    <3>3. NextSlot(slot) \in 0..(Slots - 1)
      BY <1>2 DEF RateTypes, NextSlot
    <3> QED BY <1>2, <3>1, <3>2, <3>3 DEF RateTypes
  <2> QED BY <2>1, <2>2, Zenon
<1> QED BY <1>1, <1>3, <1>4, <1>5, GroupsKept, Zenon DEF Types

\* The steps of the omit reset that touch the counters of the test or of a stream.
LEMMA ResetTypes == ASSUME Types, FireOmit \/ ResetBytes \/ ResetInterval PROVE Types'
<1>1. /\ UNCHANGED clockVars /\ UNCHANGED tempVars /\ UNCHANGED workVars
      /\ UNCHANGED <<test, w, pkts, lost, ooo>> /\ UNCHANGED rateVars /\ UNCHANGED hostVars
      /\ UNCHANGED <<after, now, test>> /\ UNCHANGED <<window, entry, kept>>
  BY Zenon DEF FireOmit, ResetBytes, ResetInterval, clockVars, workVars, udpVars, tmrVars, byteVars, entryVars
<1>2. /\ PcTypes /\ CtlTypes /\ ByteTypes /\ GoalTypes /\ EntryTypes
      /\ N \in Nat /\ test.n \in 1..N /\ TimeInUsecs(clock) \in Nat
  BY TestFacts, TimeIsNat DEF Types, CtlTypes
<1>3. CtlTypes'
  BY <1>1, <1>2, ZenonT(30) DEF FireOmit, ResetBytes, ResetInterval, CtlTypes, ctlVars, clockVars
<1>4. PcTypes'
  <2>1. CASE FireOmit
    BY <1>1, <1>2, <2>1 DEF FireOmit, PcTypes, Places, Sampling, ResettingStream
  <2>2. CASE ResetBytes
    BY <1>1, <1>2, <2>2, Zenon DEF ResetBytes, PcTypes, Places, Sampling, ResettingStream
  <2>3. CASE ResetInterval
    BY <1>1, <1>2, <2>3 DEF ResetInterval, PcTypes, Places, Sampling, ResettingStream
  <2> QED BY <2>1, <2>2, <2>3
<1>5. GoalTypes'
  BY <1>2 DEF FireOmit, ResetBytes, ResetInterval, GoalTypes, goalVars
<1>6. ByteTypes' /\ EntryTypes'
  <2>1. CASE FireOmit
    BY <2>1, GroupsKept, Zenon DEF FireOmit
  <2>2. at \in Streams \/ FireOmit
    <3>1. FireOmit \/ pc \in ResettingStream
      BY Zenon DEF ResetBytes, ResetInterval, ResettingStream
    <3>2. at \in 1..(N + 5) /\ (pc \in ResettingStream => at <= test.n)
      BY <1>2, Zenon DEF PcTypes
    <3>3. CASE at <= test.n
      <4>1. at \in 1..N
        BY <1>2, <3>2, <3>3
      <4> QED BY <4>1, Zenon DEF Streams
    <3> QED BY <3>1, <3>2, <3>3, Zenon
  <2>3. CASE at \in Streams /\ ResetBytes
    <3>1. bytes[at] \in Nat
      BY <1>2, <2>3 DEF ByteTypes, Counters
    <3>2. ByteTypes'
      BY <1>1, <1>2, <2>3, <3>1, CounterSet DEF ResetBytes, ByteTypes
    <3> QED BY <3>2, <2>3, GroupsKept DEF ResetBytes
  <2>4. CASE at \in Streams /\ ResetInterval
    <3>1. ByteTypes'
      BY <1>1, <1>2, <2>4, CounterSet, Zenon DEF ResetInterval, ByteTypes
    <3>2. EntryTypes'
      BY <1>1, <1>2, <2>4, CounterSet, Zenon DEF ResetInterval, EntryTypes
    <3> QED BY <3>1, <3>2
  <2> QED BY <2>1, <2>2, <2>3, <2>4
<1> QED BY <1>1, <1>3, <1>4, <1>5, <1>6, GroupsKept, Zenon DEF Types

\* Types hold at first and are kept by every step.
LEMMA InitTypes == Init => Types
<1> SUFFICES ASSUME Init PROVE Types
  OBVIOUS
<1>1. test \in TestType /\ N \in Nat \ {0} /\ Slots \in Nat \ {0}
  BY MeasurementConstants, Zenon DEF Init
<1>2. NoTime \in Times
  BY TimerConstants, SMTT(30) DEF NoTime, Times
<1>3. Zero \in Counters /\ NoEntry \in EntryType
  BY SMTT(30) DEF Zero, Counters, NoEntry, EntryType
<1>4. CtlTypes
  BY <1>2, ZenonT(30) DEF Init, CtlTypes
<1>5. PcTypes
  BY <1>1, <1>2 DEF Init, PcTypes, Places, Sampling, ResettingStream
<1>6. TempTypes /\ GoalTypes
  BY <1>3, Zenon DEF Init, TempTypes, GoalTypes
<1>7. WorkTypes
  BY <1>3, Zenon DEF Init, WorkTypes, Steps
<1>8. ByteTypes /\ HostTypes
  BY <1>3, Zenon DEF Init, ByteTypes, HostTypes
<1>9. UdpTypes
  BY <1>3, Zenon DEF Init, UdpTypes
<1>10. EntryTypes
  BY <1>3 DEF Init, EntryTypes
<1>11. RateTypes
  <2>1. 0 \in 0..(Slots - 1)
    BY <1>1, SMTT(30)
  <2>2. slot = 0 /\ count = 0 /\ exceeded = FALSE /\ ring = [i \in 0..(Slots - 1) |-> 0]
    BY DEF Init
  <2>3. DOMAIN ring = 0..(Slots - 1)
    BY <2>2, Zenon
  <2>4. count \in Nat
    BY <2>2
  <2> QED BY <2>1, <2>2, <2>3, <2>4, Zenon DEF RateTypes
<1> QED BY <1>4, <1>5, <1>6, <1>7, <1>8, <1>9, <1>10, <1>11, Zenon DEF Types

\* Every step keeps the types of the engine.
LEMMA NextTypes == ASSUME Types, [Next]_vars PROVE Types'
<1>1. CASE UNCHANGED vars
  <2>1. /\ UNCHANGED <<clockVars, ctlVars>> /\ UNCHANGED tempVars /\ UNCHANGED workVars
        /\ UNCHANGED byteVars /\ UNCHANGED <<test, w, pkts, lost, ooo>> /\ UNCHANGED goalVars
        /\ UNCHANGED entryVars /\ UNCHANGED rateVars /\ UNCHANGED hostVars /\ UNCHANGED <<test, pcVars, now>>
    BY <1>1, Zenon DEF vars, clockVars, workVars, udpVars, tmrVars
  <2> QED BY <2>1, GroupsKept, Zenon DEF Types
<1>2. CASE Tick \/ RequestStop
  BY <1>2, ControlTypes
<1>3. CASE Peer
  BY <1>3, ReportingTypes, CallbackTypes, PlaceTypes DEF Peer
<1>4. CASE Engine
  BY <1>4, PlaceTypes, ControlTypes, CallbackTypes, ReportingTypes, ThreadTypes, SampleTypes,
     SampleLostTypes, StatsDoneTypes, ResetTypes, Zenon DEF Engine
<1>5. ASSUME NEW s \in Streams, Worker(s) PROVE Types'
  BY <1>5, WorkerTypes
<1> QED BY <1>1, <1>2, <1>3, <1>4, <1>5, Zenon DEF Next

-----------------------------------------------------------------------------
(* The loss count *)

\* The variables the two counts depend on.
lossVars == <<test, w, pk, moved, got, dups, pkts, lost>>

LossTypes ==
    /\ test \in Tests
    /\ w \in [Streams -> Steps]
    /\ pk \in [Streams -> Nat]
    /\ moved \in [Streams -> Nat] /\ dups \in [Streams -> Nat]
    /\ got \in [Streams -> SUBSET (1..Datagrams)]
    /\ pkts \in [Streams -> Int] /\ lost \in [Streams -> Int]

\* cnt_error is the number of missing sequence numbers below the highest, plus k.
Booked(s, k) ==
    /\ lost[s] <= Cardinality(Missing(s)) + k
    /\ dups[s] = 0 => lost[s] = Cardinality(Missing(s)) + k

\* A datagram is in the worker's hands and nothing above the highest but it has come.
Holds(s) == pk[s] \in got[s] /\ \A n \in got[s] : n <= pkts[s] \/ n = pk[s]

ReceiverInv(s) ==
    /\ pkts[s] \in Nat /\ lost[s] \in Nat
    /\ w[s] # "number"
    /\ w[s] \in {"off", "loop", "call", "test"} => got[s] \subseteq 1..pkts[s] /\ Booked(s, 0)
    /\ w[s] \in {"bytes", "ival", "header"} =>
         Holds(s) /\ (pk[s] > pkts[s] => Booked(s, 0)) /\ (pk[s] <= pkts[s] => Booked(s, 1))
    /\ w[s] = "late" => Holds(s) /\ pk[s] <= pkts[s] /\ Booked(s, 1)
    /\ w[s] = "highest" =>
         /\ Holds(s) /\ pk[s] > pkts[s]
         /\ lost[s] <= Cardinality((1..pk[s]) \ got[s])
         /\ dups[s] = 0 => lost[s] = Cardinality((1..pk[s]) \ got[s])

SenderInv(s) ==
    /\ w[s] \notin {"header", "highest", "late"}
    /\ w[s] # "off" => pkts[s] = moved[s] + (IF w[s] = "call" THEN 1 ELSE 0)

Receiver(s) == test.udp /\ ~Sends(s) /\ (test.wide \/ Datagrams < Wrap)
Sender(s) == test.udp /\ Sends(s)

\* Before the workers are started nothing has been counted.
Fresh == \A s \in Streams : /\ w[s] = "off" /\ moved[s] = 0 /\ dups[s] = 0 /\ got[s] = {}
                            /\ pkts[s] = 0 /\ lost[s] = 0

LossInv ==
    /\ LossTypes
    /\ after # "create"
    /\ pc = "create" => Fresh
    /\ \A s \in Live : (Receiver(s) => ReceiverInv(s)) /\ (Sender(s) => SenderInv(s))

-----------------------------------------------------------------------------
\* What is missing of the first numbers is finite.
LEMMA MissingFinite ==
    ASSUME NEW p \in Nat, NEW g
    PROVE  IsFiniteSet((1..p) \ g) /\ Cardinality((1..p) \ g) \in Nat
<1>1. IsFiniteSet(1..p)
  BY FS_Interval
<1>2. IsFiniteSet((1..p) \ g)
  BY <1>1, FS_Subset
<1> QED BY <1>2, FS_CardinalityType

\* A sequence number that arrives late is no longer missing.
LEMMA FoundCounted ==
    ASSUME NEW p \in Nat, NEW g, NEW n \in 1..p, n \notin g
    PROVE  Cardinality((1..p) \ (g \cup {n})) = Cardinality((1..p) \ g) - 1
<1>1. (1..p) \ (g \cup {n}) = ((1..p) \ g) \ {n}
  OBVIOUS
<1>2. n \in (1..p) \ g
  OBVIOUS
<1>3. PICK m : m = (1..p) \ g
  BY Zenon
<1>4. IsFiniteSet(m) /\ n \in m
  BY <1>2, <1>3, MissingFinite, Zenon
<1>5. Cardinality(m \ {n}) = Cardinality(m) - 1
  BY <1>4, FS_RemoveElement
<1> QED BY <1>1, <1>3, <1>5, Zenon

\* The arithmetic of the steps below.
LEMMA PlusNone == ASSUME NEW c \in Nat PROVE c + 0 = c
OBVIOUS

\* A packet number that is not the next one or later is not new.
LEMMA NotAbove == ASSUME NEW a \in Nat, NEW b \in Nat, ~(a >= b + 1) PROVE a <= b
OBVIOUS

\* The next packet number or a later one is new.
LEMMA Above == ASSUME NEW a \in Nat, NEW b \in Nat, a >= b + 1 PROVE a > b
OBVIOUS

\* A datagram's number lies above the highest or among the numbers up to it.
LEMMA NumberAhead == ASSUME NEW n \in Nat, NEW e \in Nat, n > e PROVE n \notin 1..e /\ ~(n <= e)
OBVIOUS

LEMMA NumberBehind ==
    ASSUME NEW m \in Nat, NEW n \in 1..m, NEW e \in Nat, ~(n > e) PROVE n \in 1..e
OBVIOUS

LEMMA NumberIsNat == ASSUME NEW m \in Nat, NEW n \in 1..m PROVE n \in Nat
OBVIOUS

\* A gap adds the same number to what is booked and to what is missing.
LEMMA GapIsInt == ASSUME NEW a \in Nat, NEW b \in Nat PROVE (a - 1) - b \in Int
OBVIOUS

LEMMA NatIsInt == ASSUME NEW c \in Nat PROVE c \in Int
OBVIOUS

LEMMA AddBoth ==
    ASSUME NEW l \in Int, NEW c \in Int, NEW g \in Int, l <= c PROVE l + g <= c + g
OBVIOUS

\* A loss that is booked out, if one is booked.
LEMMA BookedOut ==
    ASSUME NEW l \in Nat, NEW c \in Nat, l <= c + 1
    PROVE  LET out == l + (IF l > 0 THEN -1 ELSE 0)
           IN  out \in Nat /\ out <= c + 0 /\ (l = c + 1 => out = c + 0)
OBVIOUS

\* A found number is missing no more; a duplicate leaves more missing than booked.
LEMMA OneLess == ASSUME NEW c \in Nat, NEW d \in Nat, d = c - 1 PROVE c = d + 1
OBVIOUS

LEMMA OneMore == ASSUME NEW l \in Nat, NEW d \in Nat, l <= d PROVE l <= d + 1
OBVIOUS

\* Nothing is missing and nothing is booked.
LEMMA NothingBooked == 0 \in Nat /\ 0 <= 0 + 0 /\ 0 = 0 + 0
OBVIOUS

\* A sequence number that goes forward leaves the numbers in between missing.
LEMMA GapCounted ==
    ASSUME NEW p \in Nat, NEW n \in Nat, n > p, NEW g, n \in g, \A k \in g : k <= p \/ k = n
    PROVE  Cardinality((1..n) \ g) = Cardinality((1..p) \ g) + ((n - 1) - p)
<1> DEFINE gap == (p + 1)..(n - 1)
<1>1. (1..n) \ g = ((1..p) \ g) \cup gap
  OBVIOUS
<1>2. ((1..p) \ g) \cap gap = {}
  OBVIOUS
<1>3. IsFiniteSet(gap) /\ Cardinality(gap) = (n - 1) - p
  <2>1. /\ p + 1 \in Int /\ n - 1 \in Int
        /\ p + 1 > n - 1 => (n - 1) - p = 0
        /\ (n - 1) - (p + 1) + 1 = (n - 1) - p
    OBVIOUS
  <2>2. /\ IsFiniteSet(gap)
        /\ Cardinality(gap) = IF p + 1 > n - 1 THEN 0 ELSE (n - 1) - (p + 1) + 1
    BY <2>1, FS_Interval, Zenon
  <2> QED BY <2>1, <2>2
<1>4. Cardinality(((1..p) \ g) \cap gap) = 0
  BY <1>2, FS_EmptySet
<1>5. IsFiniteSet((1..p) \ g) /\ Cardinality((1..p) \ g) \in Nat
  BY MissingFinite
<1> HIDE DEF gap
<1>6. Cardinality(((1..p) \ g) \cup gap) =
        Cardinality((1..p) \ g) + Cardinality(gap) - Cardinality(((1..p) \ g) \cap gap)
  BY <1>3, <1>5, FS_Union
<1>7. PICK c \in Nat : c = Cardinality((1..p) \ g)
  BY <1>5
<1>8. Cardinality(((1..p) \ g) \cup gap) = c + ((n - 1) - p) - 0
  BY <1>3, <1>4, <1>6, <1>7
<1>9. c + ((n - 1) - p) - 0 = c + ((n - 1) - p)
  OBVIOUS
<1> QED BY <1>1, <1>7, <1>8, <1>9, Zenon

-----------------------------------------------------------------------------
\* A step that counts nothing.
LEMMA LossKept ==
    ASSUME LossInv, UNCHANGED lossVars, pc' = "create" => pc = "create", after' # "create"
    PROVE  LossInv'
<1>1. LossTypes' /\ (pc' = "create" => Fresh')
  BY Zenon DEF LossInv, LossTypes, Fresh, lossVars
<1>2. ASSUME NEW s \in Live'
      PROVE  (Receiver(s)' => ReceiverInv(s)') /\ (Sender(s)' => SenderInv(s)')
  <2>1. s \in Live /\ (Receiver(s) => ReceiverInv(s)) /\ (Sender(s) => SenderInv(s))
    BY <1>2 DEF LossInv, lossVars, Live
  <2> QED BY <2>1, Zenon DEF lossVars, Receiver, Sender, Sends, ReceiverInv, SenderInv, Holds, Booked, Missing
<1> QED BY <1>1, <1>2 DEF LossInv

\* The engine's thread, time and stop requests count nothing; StartWorkers and Join
\* are the only ones of them that touch a worker.
LEMMA EngineKeeps ==
    ASSUME LossInv, Tick \/ RequestStop \/ Engine \/ Peer
    PROVE  \/ UNCHANGED lossVars /\ (pc' = "create" => pc = "create") /\ after' # "create"
           \/ StartWorkers
           \/ Join
<1> DEFINE Goal == UNCHANGED lossVars /\ (pc' = "create" => pc = "create") /\ after' # "create"
<1> USE DEF lossVars, clockVars, ctlVars, tmrVars, pcVars, tempVars, handVars, workVars, byteVars,
            udpVars, goalVars, entryVars, rateVars, hostVars, engineVars, countVars, TestUnchanged
<1>0. after # "create"
  BY DEF LossInv
<1>1. CASE Tick \/ RequestStop
  BY <1>0, <1>1 DEF Tick, RequestStop
<1>2. CASE CreateTimer \/ CreateTimerFails \/ RunTimers \/ WalkEnds \/ Reschedule
  BY <1>0, <1>2, Zenon DEF CreateTimer, CreateTimerFails, RunTimers, WalkEnds, Reschedule
<1>3. CASE FireTest \/ FireStats \/ FireReporter \/ FireOmit
  BY <1>0, <1>3, Zenon DEF FireTest, FireStats, FireReporter, FireOmit, Fires, StatsCallback
<1>4. CASE SampleBytes \/ SamplePackets \/ SampleOutOfOrder \/ SampleLost \/ StatsDone
  BY <1>0, <1>4 DEF SampleBytes, SamplePackets, SampleOutOfOrder, SampleLost, SampleCounter, StatsDone
<1>5. CASE \/ ResetPackets \/ ResetLost \/ ResetOutOfOrder \/ ResetBytes \/ ResetInterval
           \/ ResetTimers
  BY <1>0, <1>5, Zenon DEF ResetPackets, ResetLost, ResetOutOfOrder, ResetBaseline, ResetBytes,
                    ResetInterval, ResetTimers
<1>6. CASE \/ GoOn \/ EndTest \/ FinalSample \/ SendTestEnd \/ FinishTestEnd \/ LeaveLoop
           \/ FreeTimers
  BY <1>0, <1>6, Zenon DEF GoOn, EndTest, FinalSample, StatsCallback, SendTestEnd, FinishTestEnd,
                    ClosingReport, LeaveLoop, FreeTimers
<1>7. CASE Peer
  BY <1>0, <1>7, Zenon DEF Peer, DisplayResults, ClosingReport, ReadTestEnd, StatsCallback,
                    ReadTerminate, ConnectionFails
<1> QED BY <1>1, <1>2, <1>3, <1>4, <1>5, <1>6, <1>7 DEF Engine

\* The streams of a test are among all streams.
LEMMA LiveStreams == ASSUME LossTypes PROVE Live \subseteq Streams
<1>1. test \in TestType /\ N \in Nat
  BY MeasurementConstants, Zenon DEF LossTypes
<1>2. test.n \in Streams
  BY <1>1, Zenon DEF TestType
<1> QED BY <1>1, <1>2 DEF Live, Streams

\* The workers start from nothing.
LEMMA StartKeeps == LossInv /\ StartWorkers => LossInv'
<1> SUFFICES ASSUME LossInv, StartWorkers PROVE LossInv'
  OBVIOUS
<1> USE DEF StartWorkers, clockVars, handVars, udpVars
<1>1. /\ UNCHANGED <<test, pk, moved, got, dups, pkts, lost, after>> /\ pc' = "loop"
      /\ w' = [s \in Streams |-> IF s \in Live THEN "loop" ELSE "off"]
      /\ after # "create" /\ LossTypes /\ Fresh
  BY DEF LossInv
<1>2. LossTypes'
  BY <1>1, SMTT(30) DEF LossTypes, Steps
<1>3. ASSUME NEW s \in Live'
      PROVE  (Receiver(s)' => ReceiverInv(s)') /\ (Sender(s)' => SenderInv(s)')
  <2>1. s \in Live /\ s \in Streams
    BY <1>1, <1>3, LiveStreams DEF Live
  <2>2. /\ w'[s] = "loop" /\ pkts'[s] = 0 /\ lost'[s] = 0 /\ moved'[s] = 0 /\ got'[s] = {}
    BY <1>1, <2>1 DEF Fresh
  <2>3. Missing(s)' = {}
    BY <2>2 DEF Missing
  <2>4. Cardinality(Missing(s)') = 0
    BY <2>3, FS_EmptySet
  <2>5. Booked(s, 0)'
    <3>1. lost'[s] <= Cardinality(Missing(s)') + 0 /\ lost'[s] = Cardinality(Missing(s)') + 0
      BY <2>2, <2>4, NothingBooked, Zenon
    <3> QED BY <3>1, Zenon DEF Booked
  <2>6. ReceiverInv(s)'
    <3>1. w'[s] \notin {"number", "bytes", "ival", "header", "late", "highest"}
      BY <2>2
    <3>2. pkts'[s] \in Nat /\ lost'[s] \in Nat /\ got'[s] \subseteq 1..pkts'[s]
      BY <2>2
    <3> QED BY <2>5, <3>1, <3>2, Zenon DEF ReceiverInv
  <2>7. SenderInv(s)'
    <3>1. /\ w'[s] \notin {"header", "highest", "late"} /\ w'[s] # "call"
          /\ pkts'[s] = moved'[s] + 0
      BY <2>2
    <3> QED BY <3>1, Zenon DEF SenderInv
  <2> QED BY <2>6, <2>7, Zenon
<1> QED BY <1>1, <1>2, <1>3 DEF LossInv

\* A worker is joined between two datagrams.
LEMMA JoinKeeps == LossInv /\ Join => LossInv'
<1> SUFFICES ASSUME LossInv, Join PROVE LossInv'
  OBVIOUS
<1>1. /\ UNCHANGED <<test, pk, moved, got, dups, pkts, lost, after>> /\ pc' # "create"
      /\ w' = [s \in Streams |-> IF s \in Joined THEN "off" ELSE w[s]]
      /\ \A s \in Joined : CanJoin(s)
      /\ after # "create" /\ LossTypes
  BY DEF LossInv, Join, clockVars, handVars, udpVars
<1>2. LossTypes'
  BY <1>1 DEF LossTypes, Steps
<1>3. ASSUME NEW s \in Live'
      PROVE  (Receiver(s)' => ReceiverInv(s)') /\ (Sender(s)' => SenderInv(s)')
  <2>1. /\ s \in Live /\ s \in Streams
        /\ (Receiver(s) => ReceiverInv(s)) /\ (Sender(s) => SenderInv(s))
    BY <1>1, <1>3, LiveStreams DEF Live, LossInv
  <2>2. w'[s] = w[s] \/ (w'[s] = "off" /\ w[s] \in {"off", "loop", "number", "call"})
    BY <1>1, <2>1, Zenon DEF CanJoin
  <2>3. /\ pk'[s] = pk[s] /\ moved'[s] = moved[s] /\ got'[s] = got[s] /\ dups'[s] = dups[s]
        /\ pkts'[s] = pkts[s] /\ lost'[s] = lost[s] /\ Missing(s)' = Missing(s)
        /\ Receiver(s)' = Receiver(s) /\ Sender(s)' = Sender(s)
    BY <1>1, Zenon DEF Missing, Receiver, Sender, Sends
  <2>4. Receiver(s) => ReceiverInv(s)'
    BY <2>1, <2>2, <2>3, Zenon DEF ReceiverInv, Holds, Booked
  <2>5. Sender(s) => SenderInv(s)'
    BY <2>1, <2>2, <2>3, Zenon DEF SenderInv
  <2> QED BY <2>3, <2>4, <2>5
<1> QED BY <1>1, <1>2, <1>3 DEF LossInv

-----------------------------------------------------------------------------
\* The other workers' counters.
SameElsewhere(s) ==
    \A t \in Streams : t # s =>
        /\ w'[t] = w[t] /\ pk'[t] = pk[t] /\ moved'[t] = moved[t] /\ got'[t] = got[t]
        /\ dups'[t] = dups[t] /\ pkts'[t] = pkts[t] /\ lost'[t] = lost[t]

\* A step of one worker.
LEMMA WorkerKeeps ==
    ASSUME LossInv, NEW s \in Streams, w[s] # "off", UNCHANGED <<test, pc, after>>,
           LossTypes', SameElsewhere(s),
           Receiver(s) /\ ReceiverInv(s) => ReceiverInv(s)',
           Sender(s) /\ SenderInv(s) => SenderInv(s)'
    PROVE  LossInv'
<1>1. pc # "create"
  BY Zenon DEF LossInv, Fresh
<1>2. ASSUME NEW t \in Live'
      PROVE  (Receiver(t)' => ReceiverInv(t)') /\ (Sender(t)' => SenderInv(t)')
  <2>1. /\ t \in Live /\ t \in Streams
        /\ (Receiver(t) => ReceiverInv(t)) /\ (Sender(t) => SenderInv(t))
        /\ (Receiver(t)' <=> Receiver(t)) /\ (Sender(t)' <=> Sender(t))
    BY <1>2, LiveStreams, Zenon DEF Live, LossInv, Receiver, Sender, Sends
  <2>2. CASE t = s
    BY <2>1, <2>2
  <2>3. CASE t # s
    <3>1. /\ w'[t] = w[t] /\ pk'[t] = pk[t] /\ moved'[t] = moved[t] /\ got'[t] = got[t]
          /\ dups'[t] = dups[t] /\ pkts'[t] = pkts[t] /\ lost'[t] = lost[t]
      BY <2>1, <2>3, Zenon DEF SameElsewhere
    <3>2. Missing(t)' = Missing(t)
      BY <3>1, Zenon DEF Missing
    <3>3. Receiver(t) => ReceiverInv(t)'
      BY <2>1, <3>1, <3>2, Zenon DEF ReceiverInv, Holds, Booked
    <3>4. Sender(t) => SenderInv(t)'
      BY <2>1, <3>1, Zenon DEF SenderInv
    <3> QED BY <2>1, <3>3, <3>4, Zenon
  <2> QED BY <2>2, <2>3, Zenon
<1> QED BY <1>1, <1>2 DEF LossInv

\* Only the worker's place changes, and the datagram it has finished with.
LEMMA PlaceKeeps ==
    ASSUME LossInv, NEW s \in Streams,
           \/ WorkerLoop(s) \/ Throttled(s) \/ CallMovesNothing(s) \/ CountBytes(s)
           \/ CountInterval(s) \/ CountTest(s)
    PROVE  LossInv'
<1> USE DEF engineVars, clockVars, pcVars, handVars, udpVars, workVars, Goto
<1>1. PICK p \in Steps : w' = [w EXCEPT ![s] = p]
  BY Zenon DEF WorkerLoop, Throttled, CallMovesNothing, CountBytes, CountInterval, CountTest, Steps
<1>2. /\ UNCHANGED <<test, pc, after, moved, got, dups, pkts, lost>>
      /\ pk' = pk \/ (pk' = [pk EXCEPT ![s] = 0] /\ w[s] = "test")
      /\ LossTypes
  BY DEF WorkerLoop, Throttled, CallMovesNothing, CountBytes, CountInterval, CountTest, LossInv
<1>3. LossTypes' /\ SameElsewhere(s) /\ w'[s] = p /\ (w[s] # "test" => pk'[s] = pk[s])
  BY <1>1, <1>2, SMTT(30) DEF LossTypes, SameElsewhere
<1>4. \/ w[s] \in {"loop", "number", "call", "test"} /\ p \in {"off", "loop", "number", "call"}
         /\ (p = "number" => Sends(s) /\ test.udp)
         /\ (Sends(s) /\ test.udp => p # "call" /\ w[s] # "call")
      \/ w[s] = "bytes" /\ p = "ival"
      \/ w[s] = "ival" /\ p \in {"header", "test"} /\ (p = "test" <=> ~(test.udp /\ ~Sends(s)))
  <2>1. ASSUME NEW q, Goto(s, q) PROVE p = q
    BY <1>2, <1>3, <2>1 DEF LossTypes
  <2>2. CASE WorkerLoop(s)
    BY <2>1, <2>2, Zenon DEF WorkerLoop
  <2>3. CASE Throttled(s)
    BY <2>1, <2>3, Zenon DEF Throttled
  <2>4. CASE CallMovesNothing(s)
    BY <2>1, <2>4, Zenon DEF CallMovesNothing
  <2>5. CASE CountBytes(s)
    BY <2>1, <2>5, Zenon DEF CountBytes
  <2>6. CASE CountInterval(s)
    BY <2>1, <2>6, Zenon DEF CountInterval
  <2>7. CASE CountTest(s)
    BY <2>1, <2>7, Zenon DEF CountTest
  <2> QED BY <2>2, <2>3, <2>4, <2>5, <2>6, <2>7, Zenon
<1>5. Missing(s)' = Missing(s)
  BY <1>2, Zenon DEF Missing
<1>6. Receiver(s) /\ ReceiverInv(s) => ReceiverInv(s)'
  BY <1>2, <1>3, <1>4, <1>5, Zenon DEF ReceiverInv, Receiver, Holds, Booked
<1>7. Sender(s) /\ SenderInv(s) => SenderInv(s)'
  BY <1>2, <1>3, <1>4, Zenon DEF SenderInv, Sender
<1>8. w[s] # "off"
  BY <1>4
<1> QED BY <1>2, <1>3, <1>6, <1>7, <1>8, WorkerKeeps, Zenon

\* A TCP call: neither a sender nor a receiver of datagrams.
LEMMA TcpKeeps ==
    ASSUME LossInv, NEW s \in Streams, TcpCall(s)
    PROVE  LossInv'
<1>1. /\ UNCHANGED <<test, pc, after, pk, got, dups, pkts, lost>> /\ ~test.udp /\ w[s] = "call"
      /\ w' = [w EXCEPT ![s] = IF Sends(s) \/ state = "TEST_RUNNING" THEN "bytes" ELSE "test"]
      /\ moved' = [moved EXCEPT ![s] = moved[s] + 1] /\ LossTypes
  BY DEF TcpCall, Goto, Add, engineVars, clockVars, pcVars, udpVars, LossInv
<1>2. LossTypes' /\ SameElsewhere(s)
  BY <1>1 DEF LossTypes, SameElsewhere, Steps
<1> QED BY <1>1, <1>2, WorkerKeeps DEF Receiver, Sender

\* A sender numbers a datagram, and takes the number back if it is refused.
LEMMA SendKeeps ==
    ASSUME LossInv, NEW s \in Streams, UdpNumber(s) \/ UdpWritten(s) \/ UdpRefused(s)
    PROVE  LossInv'
<1> USE DEF engineVars, clockVars, pcVars, handVars, udpVars, Goto, Add
<1>1. UNCHANGED <<test, pc, after, pk, got, dups, lost>> /\ LossTypes
  BY Zenon DEF UdpNumber, UdpWritten, UdpRefused, LossInv
<1>2. \/ /\ w[s] = "number" /\ w' = [w EXCEPT ![s] = "call"]
         /\ pkts' = [pkts EXCEPT ![s] = pkts[s] + 1] /\ moved' = moved
      \/ /\ w[s] = "call" /\ Sends(s) /\ w' = [w EXCEPT ![s] = "bytes"]
         /\ pkts' = pkts /\ moved' = [moved EXCEPT ![s] = moved[s] + 1]
      \/ /\ w[s] = "call" /\ Sends(s) /\ w' = [w EXCEPT ![s] = "loop"]
         /\ pkts' = [pkts EXCEPT ![s] = pkts[s] - 1] /\ moved' = moved
  BY <1>1 DEF UdpNumber, UdpWritten, UdpRefused, LossTypes
<1>3. LossTypes' /\ SameElsewhere(s)
  BY <1>1, <1>2 DEF LossTypes, SameElsewhere, Steps
<1>4. Sender(s) /\ SenderInv(s) => SenderInv(s)'
  BY <1>1, <1>2, SMTT(30) DEF LossTypes, SenderInv
<1>5. Receiver(s) => ~ReceiverInv(s)
  BY <1>2, Zenon DEF Receiver, ReceiverInv
<1> QED BY <1>1, <1>2, <1>3, <1>4, <1>5, WorkerKeeps, Zenon

\* A datagram arrives: new and ahead of all others, new and late, or a duplicate.
LEMMA ArrivalKeeps ==
    ASSUME LossInv, NEW s \in Streams, UdpArrives(s)
    PROVE  LossInv'
<1>0. /\ UNCHANGED <<test, pc, after, pkts, lost>> /\ LossTypes /\ w[s] = "call" /\ ~Sends(s)
      /\ Datagrams \in Nat
  BY MeasurementConstants DEF UdpArrives, engineVars, clockVars, pcVars, udpVars, LossInv
<1>1. PICK n \in 1..Datagrams :
         /\ \/ n \notin got[s] /\ dups' = dups
            \/ n \in got[s] /\ dups' = [dups EXCEPT ![s] = dups[s] + 1]
         /\ \/ /\ got' = [got EXCEPT ![s] = got[s] \cup {n}]
               /\ w' = [w EXCEPT ![s] = "bytes"]
            \/ got' = got /\ w' = [w EXCEPT ![s] = "test"]
         /\ pk' = [pk EXCEPT ![s] = Wire(n)]
         /\ moved' = [moved EXCEPT ![s] = moved[s] + 1]
  BY Zenon DEF UdpArrives, Goto, Add
<1>2. Wire(n) \in Nat /\ (test.wide \/ Datagrams < Wrap => Wire(n) = n)
  BY <1>0, MeasurementConstants DEF Wire
<1>3. LossTypes' /\ SameElsewhere(s)
  BY <1>0, <1>1, <1>2 DEF LossTypes, SameElsewhere, Steps
<1>4. ASSUME Receiver(s), ReceiverInv(s) PROVE ReceiverInv(s)'
  <2>1. /\ pkts[s] \in Nat /\ lost[s] \in Nat /\ dups[s] \in Nat
        /\ pkts'[s] = pkts[s] /\ lost'[s] = lost[s] /\ pk'[s] = n
    BY <1>0, <1>1, <1>2, <1>4, Zenon DEF ReceiverInv, Receiver, LossTypes
  <2>2. got[s] \subseteq 1..pkts[s]
    BY <1>0, <1>4, Zenon DEF ReceiverInv
  <2>3. Booked(s, 0)
    BY <1>0, <1>4, Zenon DEF ReceiverInv
  <2>4. CASE got' = got /\ w' = [w EXCEPT ![s] = "test"]
    <3>1. w'[s] = "test" /\ got'[s] = got[s] /\ Missing(s)' = Missing(s)
      BY <1>0, <2>1, <2>4 DEF LossTypes, Missing
    <3>2. dups'[s] = 0 => dups[s] = 0
      BY <1>0, <1>1 DEF LossTypes
    <3>3. Booked(s, 0)'
      BY <2>1, <2>3, <3>1, <3>2, Zenon DEF Booked
    <3> QED BY <2>1, <2>2, <3>1, <3>3, Zenon DEF ReceiverInv
  <2>5. CASE got' = [got EXCEPT ![s] = got[s] \cup {n}] /\ w' = [w EXCEPT ![s] = "bytes"]
    <3>1. w'[s] = "bytes" /\ got'[s] = got[s] \cup {n}
      BY <1>0, <2>5, Zenon DEF LossTypes
    <3>2. Holds(s)'
      <4>1. ASSUME NEW k \in got[s] PROVE k <= pkts[s]
        <5>1. k \in 1..pkts[s] /\ pkts[s] \in Nat
          BY <2>1, <2>2, <4>1, Zenon
        <5> QED BY <5>1
      <4> QED BY <2>1, <3>1, <4>1, Zenon DEF Holds
    <3>3. Missing(s)' = (1..pkts[s]) \ (got[s] \cup {n}) /\ Missing(s) = (1..pkts[s]) \ got[s]
      BY <2>1, <3>1, Zenon DEF Missing
    <3>4. PICK c \in Nat, d \in Nat : c = Cardinality(Missing(s)) /\ d = Cardinality(Missing(s)')
      BY <2>1, <3>3, MissingFinite, Zenon
    <3>5. PICK e \in Nat, l \in Nat : e = pkts[s] /\ l = lost[s]
      BY <2>1, Zenon
    <3>6. l <= c /\ (dups[s] = 0 => l = c)
      <4>1. l <= c + 0 /\ (dups[s] = 0 => l = c + 0)
        BY <2>3, <3>4, <3>5, Zenon DEF Booked
      <4> QED BY <4>1, PlusNone, Zenon
    <3>7. n \in Nat
      BY <1>0, NumberIsNat, Zenon
    <3>8. CASE n > e
      <4>1. n \notin 1..e
        BY <3>7, <3>8, NumberAhead, Zenon
      <4>2. Missing(s)' = Missing(s) /\ n \notin got[s]
        BY <2>2, <3>3, <3>5, <4>1, Zenon
      <4>3. dups' = dups
        BY <1>1, <4>2, Zenon
      <4>4. Booked(s, 0)'
        BY <2>1, <2>3, <4>2, <4>3, Zenon DEF Booked
      <4>5. ~(n <= e)
        BY <3>7, <3>8, NumberAhead, Zenon
      <4>6. ~(pk'[s] <= pkts'[s])
        BY <2>1, <3>5, <4>5, Zenon
      <4> QED BY <2>1, <3>1, <3>2, <4>4, <4>6, Zenon DEF ReceiverInv
    <3>9. CASE ~(n > e)
      <4>1. ~(pk'[s] > pkts'[s])
        BY <2>1, <3>5, <3>9, Zenon
      <4>2. n \in 1..e
        BY <1>0, <3>9, NumberBehind, Zenon
      <4>3. l <= d + 1 /\ (dups'[s] = 0 => l = d + 1)
        <5>1. CASE n \notin got[s]
          <6>1. dups' = dups
            BY <1>1, <5>1, Zenon
          <6>2. d = c - 1
            <7>1. Cardinality((1..e) \ (got[s] \cup {n})) = Cardinality((1..e) \ got[s]) - 1
              BY <4>2, <5>1, FoundCounted, Zenon
            <7> QED BY <3>3, <3>4, <3>5, <7>1, Zenon
          <6>3. c = d + 1
            BY <6>2, OneLess, Zenon
          <6> QED BY <3>6, <6>1, <6>3, Zenon
        <5>2. CASE n \in got[s]
          <6>1. dups'[s] # 0
            BY <1>0, <1>1, <5>2 DEF LossTypes
          <6>2. c = d
            BY <3>3, <3>4, <5>2, Zenon
          <6>3. l <= d + 1
            BY <3>6, <6>2, OneMore, Zenon
          <6> QED BY <6>1, <6>3, Zenon
        <5> QED BY <5>1, <5>2, Zenon
      <4>4. Booked(s, 1)'
        BY <2>1, <3>4, <3>5, <4>3, Zenon DEF Booked
      <4> QED BY <2>1, <3>1, <3>2, <4>1, <4>4, Zenon DEF ReceiverInv
    <3> QED BY <3>8, <3>9, Zenon
  <2> QED BY <1>1, <2>4, <2>5, Zenon
<1>5. ~Sender(s)
  BY <1>0 DEF Sender
<1> QED BY <1>0, <1>3, <1>4, <1>5, WorkerKeeps, Zenon

\* A gap is booked as lost, the number becomes the highest, a late one is booked out.
LEMMA HeaderKeeps ==
    ASSUME LossInv, NEW s \in Streams,
           UdpForward(s) \/ UdpHighest(s) \/ UdpBackward(s) \/ UdpFound(s)
    PROVE  LossInv'
<1> USE DEF engineVars, clockVars, pcVars, handVars, udpVars, Goto, Add
<1>0. /\ UNCHANGED <<test, pc, after, pk, moved, got, dups>> /\ LossTypes
      /\ pk[s] \in Nat /\ pkts[s] \in Int /\ lost[s] \in Int
  BY Zenon DEF UdpForward, UdpHighest, UdpBackward, UdpFound, LossInv, LossTypes
<1>1. \/ /\ w[s] = "header" /\ w' = [w EXCEPT ![s] = "highest"] /\ pkts' = pkts
         /\ pk[s] >= pkts[s] + 1
         /\ lost' = [lost EXCEPT ![s] = lost[s] + (IF pk[s] > pkts[s] + 1
                                                   THEN (pk[s] - 1) - pkts[s] ELSE 0)]
      \/ /\ w[s] = "highest" /\ w' = [w EXCEPT ![s] = "test"] /\ lost' = lost
         /\ pkts' = [pkts EXCEPT ![s] = pk[s]]
      \/ /\ w[s] = "header" /\ w' = [w EXCEPT ![s] = "late"] /\ lost' = lost /\ pkts' = pkts
         /\ ~(pk[s] >= pkts[s] + 1)
      \/ /\ w[s] = "late" /\ w' = [w EXCEPT ![s] = "test"] /\ pkts' = pkts
         /\ lost' = [lost EXCEPT ![s] = lost[s] + (IF lost[s] > 0 THEN -1 ELSE 0)]
  BY <1>0, Zenon DEF UdpForward, UdpHighest, UdpBackward, UdpFound
<1>2. LossTypes' /\ SameElsewhere(s) /\ w[s] # "off"
  BY <1>0, <1>1, SMTT(30) DEF LossTypes, SameElsewhere, Steps
<1>3. ~SenderInv(s)
  BY <1>1, Zenon DEF SenderInv
<1>4. ASSUME ReceiverInv(s) PROVE ReceiverInv(s)'
  <2>1. /\ pkts[s] \in Nat /\ lost[s] \in Nat /\ Holds(s)
        /\ pk'[s] = pk[s] /\ got'[s] = got[s] /\ dups'[s] = dups[s]
    BY <1>0, <1>1, <1>4, Zenon DEF ReceiverInv
  <2>2. /\ Missing(s) = (1..pkts[s]) \ got[s] /\ Missing(s)' = (1..pkts'[s]) \ got[s]
        /\ Cardinality((1..pkts[s]) \ got[s]) \in Nat
        /\ Cardinality((1..pk[s]) \ got[s]) \in Nat
    BY <1>0, <2>1, MissingFinite, Zenon DEF Missing
  <2>3. CASE /\ w[s] = "header" /\ w' = [w EXCEPT ![s] = "highest"] /\ pkts' = pkts
             /\ pk[s] >= pkts[s] + 1
             /\ lost' = [lost EXCEPT ![s] = lost[s] + (IF pk[s] > pkts[s] + 1
                                                       THEN (pk[s] - 1) - pkts[s] ELSE 0)]
    <3>1. Cardinality((1..pk[s]) \ got[s]) =
            Cardinality((1..pkts[s]) \ got[s]) + ((pk[s] - 1) - pkts[s])
      <4>1. pk[s] \in got[s] /\ \A k \in got[s] : k <= pkts[s] \/ k = pk[s]
        BY <2>1, Zenon DEF Holds
      <4>2. pk[s] \in Nat /\ pkts[s] \in Nat /\ pk[s] > pkts[s]
        <5>1. pk[s] \in Nat /\ pkts[s] \in Nat /\ pk[s] >= pkts[s] + 1
          BY <1>0, <2>1, <2>3, Zenon
        <5> QED BY <5>1, Above, Zenon
      <4> QED BY <4>1, <4>2, GapCounted, Zenon
    <3>2. lost'[s] = lost[s] + ((pk[s] - 1) - pkts[s]) /\ lost'[s] \in Nat
      BY <1>0, <2>1, <2>3 DEF LossTypes
    <3>3. w'[s] = "highest" /\ Holds(s)' /\ pkts'[s] = pkts[s] /\ pk[s] > pkts[s]
      BY <1>0, <2>1, <2>3 DEF LossTypes, Holds
    <3>4. Booked(s, 0)
      BY <1>4, <2>3, <3>3, Zenon DEF ReceiverInv
    <3>5. PICK c \in Nat, d \in Nat : /\ c = Cardinality((1..pkts[s]) \ got[s])
                                      /\ d = Cardinality((1..pk[s]) \ got[s])
      BY <2>2, Zenon
    <3>6. lost[s] <= c + 0 /\ (dups[s] = 0 => lost[s] = c + 0)
      BY <2>2, <3>4, <3>5, Zenon DEF Booked
    <3>7. d = c + ((pk[s] - 1) - pkts[s])
      BY <3>1, <3>5, Zenon
    <3>8. lost'[s] <= d /\ (dups[s] = 0 => lost'[s] = d)
      <4>0. pk[s] \in Nat /\ pkts[s] \in Nat
        BY <1>0, <2>1, Zenon
      <4>1. PICK g \in Int : g = (pk[s] - 1) - pkts[s]
        BY <4>0, GapIsInt, Zenon
      <4>2. c + 0 = c
        BY PlusNone, Zenon
      <4>3. lost[s] = c => lost[s] + g = c + g
        BY Zenon
      <4>4. lost[s] \in Int /\ c \in Int
        <5>1. c \in Int
          BY NatIsInt, Zenon
        <5> QED BY <1>0, <5>1, Zenon
      <4>5. lost[s] <= c => lost[s] + g <= c + g
        BY <4>4, AddBoth, Zenon
      <4> QED BY <3>2, <3>6, <3>7, <4>1, <4>2, <4>3, <4>5, Zenon
    <3>9. lost'[s] <= Cardinality((1..pk'[s]) \ got'[s])
          /\ (dups'[s] = 0 => lost'[s] = Cardinality((1..pk'[s]) \ got'[s]))
      BY <2>1, <3>5, <3>8, Zenon
    <3> QED BY <2>1, <3>2, <3>3, <3>9, Zenon DEF ReceiverInv
  <2>4. CASE /\ w[s] = "highest" /\ w' = [w EXCEPT ![s] = "test"] /\ lost' = lost
             /\ pkts' = [pkts EXCEPT ![s] = pk[s]]
    <3>1. w'[s] = "test" /\ pkts'[s] = pk[s] /\ lost'[s] = lost[s]
      BY <1>0, <2>4, Zenon DEF LossTypes
    <3>2. got[s] \subseteq 1..pk[s]
      BY <1>0, <1>4, <2>1, <2>4 DEF LossTypes, ReceiverInv, Holds
    <3>3. PICK c \in Nat : c = Cardinality((1..pk[s]) \ got[s])
      BY <2>2, Zenon
    <3>4. lost[s] <= c /\ (dups[s] = 0 => lost[s] = c)
      BY <1>4, <2>4, <3>3, Zenon DEF ReceiverInv
    <3>5. Cardinality(Missing(s)') = c
      BY <2>2, <3>1, <3>3, Zenon
    <3>6. lost[s] <= c + 0 /\ (dups[s] = 0 => lost[s] = c + 0)
      BY <3>4, PlusNone, Zenon
    <3>7. Booked(s, 0)'
      BY <2>1, <3>1, <3>5, <3>6, Zenon DEF Booked
    <3> QED BY <1>0, <2>1, <3>1, <3>2, <3>7, Zenon DEF ReceiverInv
  <2>5. CASE /\ w[s] = "header" /\ w' = [w EXCEPT ![s] = "late"] /\ lost' = lost /\ pkts' = pkts
             /\ ~(pk[s] >= pkts[s] + 1)
    <3>1. w'[s] = "late" /\ pkts'[s] = pkts[s] /\ lost'[s] = lost[s] /\ Missing(s)' = Missing(s)
      BY <1>0, <2>2, <2>5 DEF LossTypes
    <3>a. Holds(s)'
      BY <2>1, <3>1, Zenon DEF Holds
    <3>b. pk[s] <= pkts[s]
      <4>1. pk[s] \in Nat /\ pkts[s] \in Nat /\ ~(pk[s] >= pkts[s] + 1)
        BY <1>0, <2>1, <2>5, Zenon
      <4> QED BY <4>1, NotAbove, Zenon
    <3>2. pk[s] <= pkts[s] /\ Booked(s, 1) /\ Holds(s)'
      BY <1>4, <2>5, <3>a, <3>b, Zenon DEF ReceiverInv
    <3>3. Booked(s, 1)'
      BY <2>1, <3>1, <3>2, Zenon DEF Booked
    <3> QED BY <2>1, <3>1, <3>2, <3>3, Zenon DEF ReceiverInv
  <2>6. CASE /\ w[s] = "late" /\ w' = [w EXCEPT ![s] = "test"] /\ pkts' = pkts
             /\ lost' = [lost EXCEPT ![s] = lost[s] + (IF lost[s] > 0 THEN -1 ELSE 0)]
    <3>1. /\ w'[s] = "test" /\ pkts'[s] = pkts[s] /\ Missing(s)' = Missing(s)
          /\ lost'[s] = lost[s] + (IF lost[s] > 0 THEN -1 ELSE 0)
      BY <1>0, <2>2, <2>6, Zenon DEF LossTypes
    <3>2. got[s] \subseteq 1..pkts[s] /\ Booked(s, 1)
      BY <1>0, <1>4, <2>1, <2>6, SMTT(30) DEF LossTypes, ReceiverInv, Holds
    <3>3. PICK c \in Nat : c = Cardinality(Missing(s))
      BY <2>2, Zenon
    <3>4. lost[s] <= c + 1 /\ (dups[s] = 0 => lost[s] = c + 1)
      BY <3>2, <3>3, Zenon DEF Booked
    <3>5. lost'[s] \in Nat /\ lost'[s] <= c + 0 /\ (dups[s] = 0 => lost'[s] = c + 0)
      <4>1. PICK l \in Nat : l = lost[s]
        BY <2>1, Zenon
      <4>2. l <= c + 1 /\ (dups[s] = 0 => l = c + 1) /\ lost'[s] = l + (IF l > 0 THEN -1 ELSE 0)
        BY <3>1, <3>4, <4>1, Zenon
      <4> QED BY <4>2, BookedOut, Zenon
    <3>6. Booked(s, 0)'
      BY <2>1, <3>1, <3>3, <3>5, Zenon DEF Booked
    <3> QED BY <2>1, <3>1, <3>2, <3>5, <3>6, Zenon DEF ReceiverInv
  <2> QED BY <1>1, <2>3, <2>4, <2>5, <2>6, Zenon
<1> QED BY <1>0, <1>2, <1>3, <1>4, WorkerKeeps, Zenon

-----------------------------------------------------------------------------
\* LossInv is inductive.
LEMMA LossStep == LossInv /\ [Next]_vars => LossInv'
<1> SUFFICES ASSUME LossInv, [Next]_vars PROVE LossInv'
  OBVIOUS
<1>1. CASE Tick \/ RequestStop \/ Engine \/ Peer
  BY <1>1, EngineKeeps, LossKept, StartKeeps, JoinKeeps, Zenon
<1>2. ASSUME NEW s \in Streams, Worker(s) PROVE LossInv'
  BY <1>2, PlaceKeeps, TcpKeeps, SendKeeps, ArrivalKeeps, HeaderKeeps, Zenon DEF Worker
<1>3. CASE UNCHANGED vars
  <2>1. UNCHANGED lossVars /\ UNCHANGED <<pc, after>>
    BY <1>3 DEF vars, lossVars, clockVars, pcVars, workVars, handVars, udpVars
  <2> QED BY <2>1, LossKept DEF LossInv
<1> QED BY <1>1, <1>2, <1>3 DEF Next

\* The streams of a new test have counted nothing.
LEMMA LossBegins == Init => LossInv
<1> SUFFICES ASSUME Init PROVE LossInv
  BY Zenon
<1>1. LossTypes /\ after # "create" /\ Fresh
  BY DEF Init, LossTypes, Fresh, Zero, Steps
<1>2. ASSUME NEW s \in Live PROVE ReceiverInv(s) /\ SenderInv(s)
  <2>1. s \in Streams
    BY <1>1, <1>2, LiveStreams
  <2>2. w[s] = "off" /\ got[s] = {} /\ pkts[s] = 0 /\ lost[s] = 0
    BY <1>1, <2>1 DEF Fresh
  <2>3. Missing(s) = {}
    BY <2>2 DEF Missing
  <2>4. Cardinality(Missing(s)) = 0
    BY <2>3, FS_EmptySet, Zenon
  <2>5. Booked(s, 0)
    BY <2>2, <2>4, NothingBooked, Zenon DEF Booked
  <2>6. ReceiverInv(s)
    <3>1. w[s] \notin {"number", "bytes", "ival", "header", "late", "highest"}
      BY <2>2
    <3>2. pkts[s] \in Nat /\ lost[s] \in Nat /\ got[s] \subseteq 1..pkts[s]
      BY <2>2, NothingBooked, Zenon
    <3> QED BY <2>5, <3>1, <3>2, Zenon DEF ReceiverInv
  <2>7. SenderInv(s)
    BY <2>2, Zenon DEF SenderInv
  <2> QED BY <2>6, <2>7, Zenon
<1> QED BY <1>1, <1>2 DEF LossInv

\* LossInv is what LossIsExact needs.
LEMMA LossMeans == LossInv => LossIsExact
<1> SUFFICES ASSUME LossInv, NEW s \in Live
             PROVE  /\ Sender(s) /\ w[s] # "off" =>
                         pkts[s] = moved[s] + (IF w[s] = "call" THEN 1 ELSE 0)
                    /\ Receiver(s) /\ w[s] \in {"off", "loop", "call", "test"} =>
                         /\ lost[s] <= Cardinality(Missing(s))
                         /\ dups[s] = 0 => lost[s] = Cardinality(Missing(s))
  BY Zenon DEF LossIsExact, Sender, Receiver
<1>1. (Receiver(s) => ReceiverInv(s)) /\ (Sender(s) => SenderInv(s))
  BY DEF LossInv
<1>2. Receiver(s) => Cardinality(Missing(s)) \in Nat
  BY <1>1, MissingFinite, Zenon DEF ReceiverInv, Missing
<1>3. ASSUME Booked(s, 0), Receiver(s)
      PROVE  lost[s] <= Cardinality(Missing(s)) /\ (dups[s] = 0 => lost[s] = Cardinality(Missing(s)))
  <2>1. Cardinality(Missing(s)) + 0 = Cardinality(Missing(s))
    BY <1>2, <1>3, PlusNone, Zenon
  <2> QED BY <1>3, <2>1, Zenon DEF Booked
<1>4. Receiver(s) /\ w[s] \in {"off", "loop", "call", "test"} => Booked(s, 0)
  BY <1>1, Zenon DEF ReceiverInv
<1>5. Sender(s) /\ w[s] # "off" => pkts[s] = moved[s] + (IF w[s] = "call" THEN 1 ELSE 0)
  BY <1>1, Zenon DEF SenderInv
<1> QED BY <1>3, <1>4, <1>5, Zenon

\* LossIsExact for any tests, streams, datagrams and order of arrival: cnt_error of a
\* receiver is the number of datagrams missing below the highest, duplicates can only
\* make it smaller, and a sender numbers without gaps (iperf_udp_recv, iperf_udp_send).
THEOREM LossCountsExact == Spec => []LossIsExact
<1> QED BY LossBegins, LossStep, LossMeans, PTL DEF Spec
=============================================================================
