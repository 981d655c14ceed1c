------------------------- MODULE ServerOutputProofs -------------------------
(***************************************************************************)
(* The server's captured output is handed over honestly, for every mode,   *)
(* every limit and every sequence of lines and intervals.  Inv is          *)
(* inductive:                                                              *)
(*   - Collector: the server's copy is what was put out, or the part of it *)
(*     that fits, and says so;                                             *)
(*   - Frame: the units and the status in the frame tell that truth;       *)
(*   - Reader: what the client has of the units it scanned is that many    *)
(*     units of the frame, and once it has read all of them and applied    *)
(*     the status, what it says is true of what the server put out.        *)
(* One lemma for each action, and the four claims of the run from Inv.     *)
(***************************************************************************)
EXTENDS ServerOutput, SequenceTheorems, WellFoundedInduction, TLAPS

-----------------------------------------------------------------------------
(* How many bytes a sequence of units takes.  Bytes(s) is a recursive function, and *)
(* what holds of every n is shown by looking at the first n it would not hold of.   *)

\* A non-empty set of numbers has a least one.
LEMMA Least ==
    ASSUME NEW T, T \subseteq Nat, T # {}
    PROVE  \E i \in T : \A j \in T : i <= j
<1>1. PICK i \in T : \A j \in T : ~(<<j, i>> \in OpToRel(<, Nat))
  BY WFMin, NatLessThanWellFounded, Zenon
<1>2. ASSUME NEW j \in T PROVE i <= j
  <2>1. i \in Nat /\ j \in Nat /\ ~(<<j, i>> \in OpToRel(<, Nat))
    BY <1>1, Zenon
  <2>2. j < i => <<j, i>> \in {ss \in Nat \X Nat : ss[1] < ss[2]}
    BY <2>1, Zenon
  <2>3. ~(j < i)
    BY <2>1, <2>2, Zenon DEF OpToRel
  <2>4. i \in Nat /\ j \in Nat
    BY <2>1, Zenon
  <2> QED BY <2>3, <2>4
<1> QED BY <1>2

\* The sums of the first n widths, for n up to k.
IsSum(f, s, k) == f = [n \in 0..k |-> IF n = 0 THEN 0 ELSE f[n - 1] + Width(s[n])]

\* A unit takes at least a byte.
LEMMA WidthIsNat == ASSUME NEW u \in Int PROVE Width(u) \in Nat /\ Width(u) >= 1
BY DEF Width

\* The recursion has a solution.
LEMMA SumExists == ASSUME NEW s, NEW L \in Nat PROVE \E f : IsSum(f, s, L)
<1> DEFINE T == {k \in 0..L : ~\E f : IsSum(f, s, k)}
<1> SUFFICES ASSUME T # {} PROVE FALSE
  OBVIOUS
<1>0. T \subseteq Nat
  OBVIOUS
<1>1. PICK k \in T : \A j \in T : k <= j
  BY <1>0, Least, Zenon
<1>2. k \in 0..L /\ ~\E f : IsSum(f, s, k)
  OBVIOUS
<1>3. CASE k = 0
  <2>1. PICK f : f = [n \in 0..0 |-> 0]
    BY Zenon
  <2>2. IsSum(f, s, 0)
    BY <2>1 DEF IsSum
  <2> QED BY <1>2, <1>3, <2>2
<1>4. CASE k # 0
  <2>1. PICK j \in Nat : j = k - 1
    BY <1>2, <1>4
  <2>2. j \in 0..L /\ j \notin T /\ j + 1 = k
    BY <1>1, <1>2, <1>4, <2>1
  <2>3. PICK f : IsSum(f, s, j)
    BY <2>2
  <2>4. /\ \A n \in 0..j : f[n] = IF n = 0 THEN 0 ELSE f[n - 1] + Width(s[n])
    BY <2>3 DEF IsSum
  <2>5. PICK g : g = [n \in 0..k |-> IF n = k THEN f[j] + Width(s[k]) ELSE f[n]]
    BY Zenon
  <2>6. \A n \in 0..j : g[n] = f[n]
    BY <2>1, <2>2, <2>5
  <2>7. ASSUME NEW n \in 0..k PROVE g[n] = IF n = 0 THEN 0 ELSE g[n - 1] + Width(s[n])
    <3>1. CASE n = k
      <4>1. n - 1 = j /\ j \in 0..j /\ n # 0
        BY <1>4, <2>1, <3>1
      <4>2. g[n - 1] = f[j]
        BY <2>6, <4>1
      <4> QED BY <1>4, <2>5, <3>1, <4>1, <4>2
    <3>2. CASE n # k
      <4>1. n \in 0..j /\ (n # 0 => n - 1 \in 0..j)
        BY <2>1, <3>2
      <4>2. g[n] = f[n] /\ (n # 0 => g[n - 1] = f[n - 1])
        BY <2>6, <4>1
      <4> QED BY <2>4, <4>1, <4>2
    <3> QED BY <3>1, <3>2
  <2>8. IsSum(g, s, k)
    <3>1. g = [n \in 0..k |-> g[n]]
      BY <2>5
    <3>2. [n \in 0..k |-> g[n]] = [n \in 0..k |-> IF n = 0 THEN 0 ELSE g[n - 1] + Width(s[n])]
      BY <2>7
    <3> QED BY <3>1, <3>2, Zenon DEF IsSum
  <2> QED BY <1>2, <2>8
<1> QED BY <1>3, <1>4

\* Bytes(s) is the function the recursion defines: it adds the widths up.
LEMMA BytesSum == ASSUME NEW s, Len(s) \in Nat PROVE IsSum(Bytes(s), s, Len(s))
<1>1. Bytes(s) = CHOOSE f : f = [n \in 0..Len(s) |-> IF n = 0 THEN 0 ELSE f[n - 1] + Width(s[n])]
  BY DEF Bytes
<1>2. PICK g : IsSum(g, s, Len(s))
  BY SumExists
<1>3. \E f : f = [n \in 0..Len(s) |-> IF n = 0 THEN 0 ELSE f[n - 1] + Width(s[n])]
  BY <1>2, Zenon DEF IsSum
<1> QED BY <1>1, <1>3, Zenon DEF IsSum

\* The sums, unit by unit.
LEMMA BytesStep ==
    ASSUME NEW s \in Seq(Int)
    PROVE  /\ Bytes(s)[0] = 0
           /\ \A n \in 1..Len(s) : Bytes(s)[n] = Bytes(s)[n - 1] + Width(s[n])
<1>1. Len(s) \in Nat
  BY LenProperties
<1>2. PICK f : f = Bytes(s) /\ IsSum(f, s, Len(s))
  BY <1>1, BytesSum
<1>3. \A n \in 0..Len(s) : f[n] = IF n = 0 THEN 0 ELSE f[n - 1] + Width(s[n])
  BY <1>2 DEF IsSum
<1> QED BY <1>1, <1>2, <1>3

\* Every sum is a number.
LEMMA BytesIsNat == ASSUME NEW s \in Seq(Int) PROVE \A n \in 0..Len(s) : Bytes(s)[n] \in Nat
<1> DEFINE T == {n \in 0..Len(s) : Bytes(s)[n] \notin Nat}
<1>1. Len(s) \in Nat
  BY LenProperties
<1>2. T \subseteq Nat
  BY <1>1
<1> SUFFICES ASSUME T # {} PROVE FALSE
  OBVIOUS
<1>3. PICK n \in T : \A j \in T : n <= j
  BY <1>2, Least, Zenon
<1>4. n \in 0..Len(s) /\ Bytes(s)[n] \notin Nat
  OBVIOUS
<1>5. n # 0
  BY <1>4, BytesStep
<1>6. n \in 1..Len(s) /\ n - 1 \in 0..Len(s) /\ n - 1 < n
  BY <1>1, <1>4, <1>5
<1>7. n - 1 \notin T
  BY <1>2, <1>3, <1>6
<1>8. Bytes(s)[n - 1] \in Nat
  BY <1>6, <1>7
<1>9. s[n] \in Int
  BY <1>6, ElementOfSeq
<1>10. Bytes(s)[n] = Bytes(s)[n - 1] + Width(s[n])
  BY <1>6, BytesStep
<1>11. Width(s[n]) \in Nat
  BY <1>9, WidthIsNat, Zenon
<1> QED BY <1>4, <1>8, <1>10, <1>11

\* The size of a sequence of units is a number.
LEMMA SizeIsNat == ASSUME NEW s \in Seq(Int) PROVE Size(s) \in Nat
BY BytesIsNat, LenProperties DEF Size

\* More units take more bytes.
LEMMA BytesGrow ==
    ASSUME NEW s \in Seq(Int), NEW m \in 0..Len(s), NEW n \in 0..Len(s), m <= n
    PROVE  Bytes(s)[m] <= Bytes(s)[n]
<1> DEFINE T == {k \in 0..Len(s) : m <= k /\ ~(Bytes(s)[m] <= Bytes(s)[k])}
<1>1. Len(s) \in Nat
  BY LenProperties
<1>2. T \subseteq Nat
  BY <1>1
<1> SUFFICES ASSUME T # {} PROVE FALSE
  OBVIOUS
<1>3. PICK k \in T : \A j \in T : k <= j
  BY <1>2, Least, Zenon
<1>4. k \in 0..Len(s) /\ m <= k /\ ~(Bytes(s)[m] <= Bytes(s)[k])
  OBVIOUS
<1>5. Bytes(s)[m] \in Nat /\ Bytes(s)[k] \in Nat
  BY <1>4, BytesIsNat
<1>6. m # k
  BY <1>4, <1>5
<1>7. k \in 1..Len(s) /\ k - 1 \in 0..Len(s) /\ k - 1 < k /\ m <= k - 1
  BY <1>1, <1>4, <1>6
<1>8. k - 1 \notin T
  BY <1>2, <1>3, <1>7
<1>9. Bytes(s)[m] <= Bytes(s)[k - 1]
  BY <1>7, <1>8
<1>10. Bytes(s)[k - 1] \in Nat
  BY <1>7, BytesIsNat
<1>11. s[k] \in Int
  BY <1>7, ElementOfSeq
<1>12. Bytes(s)[k] = Bytes(s)[k - 1] + Width(s[k])
  BY <1>7, BytesStep
<1>13. Width(s[k]) \in Nat
  BY <1>11, WidthIsNat, Zenon
<1> QED BY <1>4, <1>5, <1>9, <1>10, <1>12, <1>13

\* The first n units decide the first n sums.
LEMMA BytesAgree ==
    ASSUME NEW s \in Seq(Int), NEW t \in Seq(Int), NEW n \in Nat,
           n <= Len(s), n <= Len(t), \A i \in 1..n : s[i] = t[i]
    PROVE  Bytes(s)[n] = Bytes(t)[n]
<1> DEFINE T == {k \in 0..n : Bytes(s)[k] # Bytes(t)[k]}
<1>1. T \subseteq Nat /\ Len(s) \in Nat /\ Len(t) \in Nat
  BY LenProperties
<1> SUFFICES ASSUME T # {} PROVE FALSE
  OBVIOUS
<1>2. PICK k \in T : \A j \in T : k <= j
  BY <1>1, Least, Zenon
<1>3. k \in 0..n /\ Bytes(s)[k] # Bytes(t)[k]
  OBVIOUS
<1>4. k # 0
  BY <1>3, BytesStep
<1>5. k \in 1..n /\ k \in 1..Len(s) /\ k \in 1..Len(t) /\ k - 1 \in 0..n /\ k - 1 < k
  BY <1>1, <1>3, <1>4
<1>6. k - 1 \notin T
  BY <1>1, <1>2, <1>5
<1>7. Bytes(s)[k - 1] = Bytes(t)[k - 1]
  BY <1>5, <1>6
<1>8. Bytes(s)[k] = Bytes(s)[k - 1] + Width(s[k]) /\ Bytes(t)[k] = Bytes(t)[k - 1] + Width(t[k])
  BY <1>5, BytesStep
<1>9. s[k] = t[k]
  BY <1>5
<1> QED BY <1>3, <1>7, <1>8, <1>9

\* Units that are at most as wide take at most as many bytes.
LEMMA BytesBelow ==
    ASSUME NEW s \in Seq(Int), NEW t \in Seq(Int), Len(s) = Len(t),
           \A i \in 1..Len(s) : Width(s[i]) <= Width(t[i])
    PROVE  Size(s) <= Size(t)
<1> DEFINE T == {k \in 0..Len(s) : ~(Bytes(s)[k] <= Bytes(t)[k])}
<1>1. T \subseteq Nat /\ Len(s) \in Nat
  BY LenProperties
<1>a. SUFFICES T = {}
  <2>1. Len(s) \notin T /\ Len(s) \in 0..Len(s)
    BY <1>1
  <2> QED BY <2>1 DEF Size
<1> SUFFICES ASSUME T # {} PROVE FALSE
  OBVIOUS
<1>2. PICK k \in T : \A j \in T : k <= j
  BY <1>1, Least, Zenon
<1>3. k \in 0..Len(s) /\ ~(Bytes(s)[k] <= Bytes(t)[k])
  OBVIOUS
<1>4. k # 0
  BY <1>3, BytesStep
<1>5. k \in 1..Len(s) /\ k - 1 \in 0..Len(s) /\ k - 1 < k
  BY <1>1, <1>3, <1>4
<1>6. k - 1 \notin T
  BY <1>1, <1>2, <1>5
<1>7. Bytes(s)[k - 1] <= Bytes(t)[k - 1]
  BY <1>5, <1>6
<1>8. Bytes(s)[k] = Bytes(s)[k - 1] + Width(s[k]) /\ Bytes(t)[k] = Bytes(t)[k - 1] + Width(t[k])
  BY <1>5, BytesStep
<1>9. s[k] \in Int /\ t[k] \in Int /\ Bytes(s)[k - 1] \in Nat /\ Bytes(t)[k - 1] \in Nat
  BY <1>5, ElementOfSeq, BytesIsNat, Zenon
<1>10. Width(s[k]) <= Width(t[k])
  BY <1>5
<1>11. Width(s[k]) \in Nat /\ Width(t[k]) \in Nat
  BY <1>9, WidthIsNat, Zenon
<1> QED BY <1>3, <1>7, <1>8, <1>9, <1>10, <1>11

\* What a prefix takes.
LEMMA SizeOfPrefix ==
    ASSUME NEW s \in Seq(Int), NEW n \in 0..Len(s)
    PROVE  /\ SubSeq(s, 1, n) \in Seq(Int) /\ Len(SubSeq(s, 1, n)) = n
           /\ \A i \in 1..n : SubSeq(s, 1, n)[i] = s[i]
           /\ Size(SubSeq(s, 1, n)) = Bytes(s)[n]
<1>1. PICK p : p = SubSeq(s, 1, n)
  BY Zenon
<1>2. p \in Seq(Int) /\ Len(p) = n /\ (\A i \in 1..n : p[i] = s[i]) /\ n \in Nat /\ n <= Len(s)
  BY <1>1, LenProperties
<1>3. Bytes(p)[n] = Bytes(s)[n]
  BY <1>2, BytesAgree
<1> QED BY <1>1, <1>2, <1>3 DEF Size

\* What one more unit takes.
LEMMA SizeOfAppend ==
    ASSUME NEW s \in Seq(Int), NEW u \in Int
    PROVE  Append(s, u) \in Seq(Int) /\ Size(Append(s, u)) = Size(s) + Width(u)
<1>1. PICK t : t = Append(s, u)
  BY Zenon
<1>2. /\ t \in Seq(Int) /\ Len(t) = Len(s) + 1 /\ t[Len(t)] = u /\ Len(s) \in Nat
      /\ \A i \in 1..Len(s) : t[i] = s[i]
  BY <1>1, LenProperties, AppendProperties
<1>3. Bytes(t)[Len(s)] = Bytes(s)[Len(s)]
  <2>1. Len(s) <= Len(s) /\ Len(s) <= Len(t)
    BY <1>2
  <2> QED BY <1>2, <2>1, BytesAgree, Zenon
<1>4. Bytes(t)[Len(t)] = Bytes(t)[Len(t) - 1] + Width(t[Len(t)])
  BY <1>2, BytesStep
<1>5. Len(t) - 1 = Len(s)
  BY <1>2
<1> QED BY <1>1, <1>2, <1>3, <1>4, <1>5 DEF Size

\* The units of two sequences one after the other.
LEMMA ConcatParts ==
    ASSUME NEW a \in Seq(Int), NEW b \in Seq(Int), NEW c, c = a \o b
    PROVE  /\ Len(c) = Len(a) + Len(b)
           /\ \A i \in 1..Len(a) : c[i] = a[i]
           /\ \A i \in 1..Len(b) : c[Len(a) + i] = b[i]
<1>1. /\ Len(a \o b) = Len(a) + Len(b)
      /\ \A i \in 1..Len(a) + Len(b) :
            (a \o b)[i] = IF i <= Len(a) THEN a[i] ELSE b[i - Len(a)]
  BY ConcatProperties, Zenon
<1>2. /\ Len(c) = Len(a) + Len(b)
      /\ \A i \in 1..Len(a) + Len(b) : c[i] = IF i <= Len(a) THEN a[i] ELSE b[i - Len(a)]
  BY <1>1, Zenon
<1>3. Len(a) \in Nat /\ Len(b) \in Nat
  BY LenProperties
<1>4. ASSUME NEW i \in 1..Len(b) PROVE c[Len(a) + i] = b[i]
  <2>1. PICK j : j = Len(a) + i
    OBVIOUS
  <2>2. j \in 1..Len(a) + Len(b) /\ ~(j <= Len(a)) /\ j - Len(a) = i
    BY <1>3, <2>1
  <2> QED BY <1>2, <2>1, <2>2
<1> QED BY <1>2, <1>3, <1>4

\* What two sequences take one after the other.
LEMMA SizeOfConcat ==
    ASSUME NEW a \in Seq(Int), NEW b \in Seq(Int)
    PROVE  a \o b \in Seq(Int) /\ Size(a \o b) = Size(a) + Size(b)
<1>1. PICK c : c = a \o b
  BY Zenon
<1>2. /\ c \in Seq(Int) /\ Len(c) = Len(a) + Len(b) /\ Len(a) \in Nat /\ Len(b) \in Nat
      /\ \A i \in 1..Len(a) : c[i] = a[i]
      /\ \A i \in 1..Len(b) : c[Len(a) + i] = b[i]
  BY <1>1, LenProperties, ConcatProperties
<1> DEFINE T == {k \in 0..Len(b) : Bytes(c)[Len(a) + k] # Bytes(a)[Len(a)] + Bytes(b)[k]}
<1>3. T \subseteq Nat
  BY <1>2
<1>4. ASSUME T # {} PROVE FALSE
  <2>1. PICK k \in T : \A j \in T : k <= j
    BY <1>3, <1>4, Least, Zenon
  <2>2. k \in 0..Len(b) /\ Bytes(c)[Len(a) + k] # Bytes(a)[Len(a)] + Bytes(b)[k]
    OBVIOUS
  <2>3. Bytes(c)[Len(a)] = Bytes(a)[Len(a)] /\ Bytes(a)[Len(a)] \in Nat
    <3>1. Len(a) <= Len(a) /\ Len(a) <= Len(c) /\ Len(a) \in 0..Len(a)
      BY <1>2
    <3>2. Bytes(c)[Len(a)] = Bytes(a)[Len(a)]
      BY <1>2, <3>1, BytesAgree, Zenon
    <3> QED BY <3>1, <3>2, BytesIsNat
  <2>4. k # 0
    <3>1. Bytes(b)[0] = 0
      BY BytesStep
    <3>2. Len(a) + 0 = Len(a) /\ Bytes(a)[Len(a)] + 0 = Bytes(a)[Len(a)]
      BY <1>2, <2>3
    <3> QED BY <2>2, <2>3, <3>1, <3>2
  <2>5. k \in 1..Len(b) /\ k - 1 \in 0..Len(b) /\ k - 1 < k /\ Len(a) + k \in 1..Len(c)
    BY <1>2, <2>2, <2>4
  <2>6. k - 1 \notin T
    BY <1>3, <2>1, <2>5
  <2>7. Bytes(c)[Len(a) + (k - 1)] = Bytes(a)[Len(a)] + Bytes(b)[k - 1]
    BY <2>5, <2>6
  <2>8. PICK m \in Int : m = Len(a) + k
    BY <1>2, <2>5
  <2>9. m \in 1..Len(c) /\ m - 1 = Len(a) + (k - 1)
    BY <1>2, <2>5, <2>8
  <2>10. Bytes(c)[m] = Bytes(c)[m - 1] + Width(c[m]) /\ Bytes(b)[k] = Bytes(b)[k - 1] + Width(b[k])
    BY <1>2, <2>5, <2>9, BytesStep, Zenon
  <2>11. c[m] = b[k] /\ b[k] \in Int /\ Bytes(b)[k - 1] \in Nat
    BY <1>2, <2>5, <2>8, BytesIsNat, ElementOfSeq
  <2>12. Width(b[k]) \in Nat
    BY <2>11, WidthIsNat, Zenon
  <2> QED BY <2>2, <2>3, <2>7, <2>8, <2>9, <2>10, <2>11, <2>12
<1>5. Bytes(c)[Len(a) + Len(b)] = Bytes(a)[Len(a)] + Bytes(b)[Len(b)]
  BY <1>2, <1>4, SMTT(30)
<1> QED BY <1>1, <1>2, <1>5 DEF Size

\* Nothing takes no bytes.
LEMMA SizeOfEmpty == <<>> \in Seq(Int) /\ Size(<<>>) = 0 /\ Len(<<>>) = 0
<1>1. <<>> \in Seq(Int) /\ Len(<<>>) = 0
  OBVIOUS
<1> QED BY <1>1, BytesStep, Zenon DEF Size

Prefix(a, s) == Len(a) <= Len(s) /\ \A i \in 1..Len(a) : a[i] = s[i]

Positive(s) == \A i \in 1..Len(s) : s[i] > 0

\* How much of a line fits: all of it, or the units before the first that does not.
LEMMA FitsFacts ==
    ASSUME NEW line \in Seq(Int), NEW room \in Nat
    PROVE  /\ Fits(line, room) \in 0..Len(line)
           /\ Bytes(line)[Fits(line, room)] <= room
           /\ Size(line) > room => Fits(line, room) < Len(line)
           /\ Size(line) <= room => Fits(line, room) = Len(line)
<1> DEFINE OK(n) == Bytes(line)[n] <= room /\ (n = Len(line) \/ Bytes(line)[n + 1] > room)
<1>1. Len(line) \in Nat
  BY LenProperties
<1>2. \E n \in 0..Len(line) : OK(n)
  <2> DEFINE T == {n \in 0..Len(line) : n = Len(line) \/ Bytes(line)[n + 1] > room}
  <2>1. T \subseteq Nat
    BY <1>1
  <2>2. T # {}
    <3>1. Len(line) \in T
      BY <1>1
    <3> QED BY <3>1
  <2>3. PICK n \in T : \A j \in T : n <= j
    BY <2>1, <2>2, Least, Zenon
  <2>4. n \in 0..Len(line) /\ (n = Len(line) \/ Bytes(line)[n + 1] > room)
    OBVIOUS
  <2>5. Bytes(line)[n] <= room
    <3>1. CASE n = 0
      <4>1. Bytes(line)[0] = 0
        BY BytesStep
      <4> QED BY <3>1, <4>1
    <3>2. CASE n # 0
      <4>1. n - 1 \in 0..Len(line) /\ n - 1 < n /\ n - 1 # Len(line) /\ (n - 1) + 1 = n
        BY <1>1, <2>4, <3>2
      <4>2. n - 1 \notin T
        <5>1. n \in Nat /\ ~(n <= n - 1)
          BY <2>1
        <5> QED BY <2>3, <5>1, Zenon
      <4>3. ~(Bytes(line)[n] > room)
        BY <4>1, <4>2
      <4>4. Bytes(line)[n] \in Nat
        BY <2>4, BytesIsNat
      <4> QED BY <4>3, <4>4
    <3> QED BY <3>1, <3>2
  <2> QED BY <2>4, <2>5
<1>3. PICK n : n = Fits(line, room)
  OBVIOUS
<1>4. n \in 0..Len(line) /\ Bytes(line)[n] <= room /\ (n = Len(line) \/ Bytes(line)[n + 1] > room)
  BY <1>2, <1>3, Zenon DEF Fits
<1>5. Bytes(line)[n] \in Nat /\ Size(line) \in Nat
  BY <1>4, BytesIsNat, SizeIsNat
<1>6. Size(line) > room => n < Len(line)
  BY <1>1, <1>4, <1>5 DEF Size
<1>7. Size(line) <= room => n = Len(line)
  <2> SUFFICES ASSUME Size(line) <= room, n # Len(line) PROVE FALSE
    OBVIOUS
  <2>1. n + 1 \in 0..Len(line) /\ Len(line) \in 0..Len(line) /\ n + 1 <= Len(line)
    BY <1>1, <1>4
  <2>2. Bytes(line)[n + 1] <= Size(line) /\ Bytes(line)[n + 1] \in Nat
    BY <2>1, BytesGrow, BytesIsNat DEF Size
  <2> QED BY <1>4, <1>5, <2>2
<1> QED BY <1>3, <1>4, <1>6, <1>7

\* A document holds its intervals, and takes at least what they take.
LEMMA DocumentFacts ==
    ASSUME NEW s \in Seq(Int), Positive(s)
    PROVE  /\ Document(s) \in Seq(Int) /\ Positive(Document(s)) /\ Document(s) # <<>>
           /\ Size(Document(s)) - Overhead \in Nat
           /\ Size(s) <= Size(Document(s)) - Overhead
<1>1. Overhead \in Nat \ {0} /\ Len(s) \in Nat
  BY ServerOutputConstants, LenProperties
<1>2. PICK t : t = [i \in 1..Len(s) |-> s[i] + (IF i > 1 THEN 1 ELSE 0)]
  BY Zenon
<1>3. \A i \in 1..Len(s) : s[i] \in Int /\ s[i] > 0
  BY ElementOfSeq DEF Positive
<1>4. \A i \in 1..Len(s) : t[i] \in Int /\ t[i] > 0 /\ s[i] <= t[i]
  BY <1>2, <1>3
<1>5. t \in Seq(Int) /\ Len(t) = Len(s)
  <2>1. t \in [1..Len(s) -> Int]
    BY <1>2, <1>4
  <2> QED BY <1>1, <2>1
<1>6. PICK h : h = <<Overhead>>
  BY Zenon
<1>7. h \in Seq(Int) /\ Len(h) = 1 /\ h[1] = Overhead
  BY <1>1, <1>6
<1>8. PICK d : d = h \o t
  BY Zenon
<1>9. Document(s) = d
  BY <1>2, <1>6, <1>8 DEF Document
<1>10. d \in Seq(Int) /\ Size(d) = Size(h) + Size(t)
  BY <1>5, <1>7, <1>8, SizeOfConcat
<1>11. Size(h) = Overhead
  <2>1. Bytes(h)[1] = Bytes(h)[1 - 1] + Width(h[1]) /\ Bytes(h)[0] = 0
    BY <1>7, BytesStep
  <2>2. Width(h[1]) = Overhead
    BY <1>1, <1>7 DEF Width
  <2> QED BY <1>1, <1>7, <2>1, <2>2 DEF Size
<1>12. Size(s) <= Size(t)
  <2>1. \A i \in 1..Len(s) : Width(s[i]) <= Width(t[i])
    BY <1>3, <1>4 DEF Width
  <2> QED BY <1>5, <2>1, BytesBelow
<1>13. Size(s) \in Nat /\ Size(t) \in Nat
  BY <1>5, SizeIsNat
<1>14. /\ Len(d) = 1 + Len(t)
       /\ \A i \in 1..Len(d) : d[i] = IF i = 1 THEN Overhead ELSE t[i - 1]
  <2>1. /\ Len(h \o t) = Len(h) + Len(t)
        /\ \A i \in 1..Len(h) + Len(t) :
              (h \o t)[i] = IF i <= Len(h) THEN h[i] ELSE t[i - Len(h)]
    BY <1>5, <1>7, ConcatProperties, Zenon
  <2>2. Len(d) = 1 + Len(t) /\ \A i \in 1..Len(d) : d[i] = IF i <= 1 THEN h[i] ELSE t[i - 1]
    BY <1>7, <1>8, <2>1, Zenon
  <2> QED BY <1>7, <2>2
<1>15. Positive(d) /\ d # <<>>
  <2>1. ASSUME NEW i \in 1..Len(d) PROVE d[i] > 0
    <3>1. CASE i = 1
      BY <1>1, <1>14, <3>1
    <3>2. CASE i # 1
      <4>1. i - 1 \in 1..Len(s) /\ d[i] = t[i - 1]
        BY <1>1, <1>5, <1>14, <3>2
      <4> QED BY <1>4, <4>1
    <3> QED BY <3>1, <3>2
  <2>2. Len(d) # 0
    BY <1>1, <1>5, <1>14
  <2> QED BY <2>1, <2>2, SizeOfEmpty DEF Positive
<1> QED BY <1>1, <1>9, <1>10, <1>11, <1>12, <1>13, <1>15

-----------------------------------------------------------------------------
(* The inductive invariant *)

Expected == IF mode.json THEN "JSON" ELSE "TEXT"

Output == [state : OutputStates, format : Formats, reason : Reasons, hasValue : BOOLEAN,
           value : Seq(Int), observed : Nat, exact : BOOLEAN]

StatusType == [state : OutputStates, format : Formats, reason : Reasons, exact : BOOLEAN,
               observed : Nat]

NoFrame == [format |-> "NONE", hasValue |-> FALSE, units |-> <<>>, status |-> <<>>]

Units(s) == s \in Seq(Int) /\ \A i \in 1..Len(s) : s[i] >= Nul

\* An output is typed, has a payload in two states only, and within a budget.
Held(o, limit) ==
    /\ o \in Output
    /\ o.hasValue <=> o.state \in {"COMPLETE", "TRUNCATED"}
    /\ ~o.hasValue => o.value = <<>>
    /\ Positive(o.value)
    /\ Size(o.value) <= limit

ServerTypes ==
    /\ mode \in Modes
    /\ Units(produced) /\ (mode.json => Positive(produced))
    /\ lines \in Nat /\ nodes \in Nat /\ finalized \in BOOLEAN
    /\ spc \in {"running", "sending", "over"}
    /\ local \in OutputStates \cup {"waiting", "notRequested"}
    /\ sent \in 0..Total /\ closed \in BOOLEAN

ClientTypes ==
    /\ rpc \in {"idle", "reading", "done"}
    /\ rd \in 0..sent /\ buf \in 0..rd /\ (rd > 0 => buf < rd)
    /\ values \in Nat /\ left \in 0..Ticks /\ stop \in BOOLEAN /\ ndelay \in BOOLEAN
    /\ result \in {"none", "ok", "failed"}

\* The states of an output whose payload was taken from s, all of it or the units
\* before the first that did not fit.
Partial(o, s) ==
    /\ o.state = "COMPLETE" => o.value = s
    /\ o.state = "TRUNCATED" => ~mode.json /\ Prefix(o.value, s) /\ Len(o.value) < Len(s)

\* The reason a peer insists on.
Explained(state, reason) ==
    /\ state = "COMPLETE" => reason = "NONE"
    /\ state = "TRUNCATED" => reason = "BYTE_LIMIT"
    /\ state \in {"DISCARDED", "INVALID"} => reason # "NONE"

\* What a collector that is still open makes of the output p.
Collected(o, p) ==
    /\ o.state = "MISSING" => o = Cleared /\ p = <<>>
    /\ o.state # "MISSING" => o.format = Expected
    /\ ~mode.json /\ o.state # "MISSING" => o.exact /\ o.observed = Size(p)
    /\ mode.json => ~o.exact
    /\ Partial(o, p) /\ Explained(o.state, o.reason)

\* The intervals leave room for the brackets.
Bracketed(o) ==
    mode.json /\ o.value # <<>> => Size(Document(o.value)) - Overhead + 2 <= mode.sLimit

Collector ==
    /\ Held(out, mode.sLimit)
    /\ finalized <=> spc = "sending"
    /\ ~(mode.budget /\ mode.requested) => out = Cleared
    /\ mode.budget /\ mode.requested /\ spc = "running" => Collected(out, produced)
    /\ ~finalized => Bracketed(out)

\* All that a server put out that produced p, as the peer is to see it.
WholeOf(p) == IF mode.json THEN Document(p) ELSE p

\* The status of a budgeted server tells the truth about the units in the frame.
Told(st, f, p) ==
    /\ st \in StatusType /\ st.format = Expected /\ st.state # "MISSING"
    /\ f.hasValue <=> st.state \in {"COMPLETE", "TRUNCATED"}
    /\ ~f.hasValue => f.units = <<>>
    /\ Positive(f.units)
    /\ st.exact => st.observed = Size(WholeOf(p))
    /\ st.state = "COMPLETE" => f.units = WholeOf(p)
    /\ st.state = "TRUNCATED" =>
          ~mode.json /\ Prefix(f.units, p) /\ Len(f.units) < Len(p)
    /\ Explained(st.state, st.reason)

Framed(f, p) ==
    /\ f.format = Expected /\ mode.requested
    /\ f.hasValue \in BOOLEAN /\ Units(f.units)
    /\ ~mode.budget => f.status = <<>> /\ f.hasValue /\ f.units = WholeOf(p)
    /\ mode.budget => f.status # <<>> /\ Told(f.status[1], f, p)

Frame ==
    /\ spc = "running" => frame = NoFrame /\ sent = 0
    /\ frame = NoFrame \/ Framed(frame, produced)
    /\ (spc = "sending" \/ sent > 0) /\ mode.requested => Framed(frame, produced)
    /\ spc = "sending" /\ mode.budget /\ mode.requested =>
          out.state = frame.status[1].state
    /\ local = "COMPLETE" =>
          spc # "running" /\ frame.hasValue /\ frame.units = WholeOf(produced)

\* What the client has of the k units of f it scanned.
Scanned(o, f, k) ==
    IF f.hasValue
    THEN /\ o.format = f.format /\ o.exact /\ o.state # "MISSING"
         /\ o.observed = Bytes(f.units)[k]
         /\ o.state = "COMPLETE" => o.value = SubSeq(f.units, 1, k)
         /\ o.state = "TRUNCATED" =>
               ~mode.json /\ Prefix(o.value, f.units) /\ Len(o.value) < k
         /\ o.state = "INVALID" => \E i \in 1..k : f.units[i] <= 0
    ELSE o = Cleared

\* What the client may say when it has read the frame.
Honest(o, f, p) ==
    /\ o.exact => o.observed = Size(WholeOf(p))
    /\ Partial(o, WholeOf(p))
    /\ mode.budget /\ o.state = "INVALID" => f.status[1].state = "INVALID"

Reader ==
    /\ Held(rcv, mode.cLimit)
    /\ rpc = "idle" => rd = 0
    /\ rpc # "done" <=> result = "none"
    /\ rpc # "done" /\ rd = 0 => rcv = Cleared
    /\ rpc # "done" => captured = <<>>
    /\ captured = <<>> \/ captured = <<rcv>>
    /\ rpc = "reading" /\ rd > 0 => Scanned(rcv, frame, rd - buf - 1)
    /\ result = "failed" =>
          ~rcv.exact /\ rcv.state = IF mode.requested THEN "INVALID" ELSE "MISSING"
    /\ result = "ok" => rd > 0 /\ ~ndelay
    /\ result = "ok" /\ mode.requested => Honest(rcv, frame, produced)
    /\ result = "ok" /\ ~mode.requested => rcv = Cleared

Inv == ServerTypes /\ ClientTypes /\ Collector /\ Frame /\ Reader

-----------------------------------------------------------------------------
(* The collector's operations *)

LEMMA ModeFacts ==
    ASSUME mode \in Modes
    PROVE  /\ mode.budget \in BOOLEAN /\ mode.json \in BOOLEAN /\ mode.requested \in BOOLEAN
           /\ mode.sLimit \in Nat /\ mode.cLimit \in Nat /\ mode.sLimit > 0 /\ mode.cLimit > 0
BY ServerOutputConstants

\* A cleared output is missing, holds nothing and is within every budget.
LEMMA ClearedFacts ==
    /\ Cleared \in Output /\ Cleared.state = "MISSING" /\ Cleared.format = "NONE"
    /\ Cleared.reason = "NONE" /\ ~Cleared.hasValue /\ Cleared.value = <<>>
    /\ Cleared.observed = 0 /\ ~Cleared.exact
    /\ \A limit \in Nat : Held(Cleared, limit)
<1>1. /\ Cleared \in Output /\ Cleared.state = "MISSING" /\ Cleared.format = "NONE"
      /\ Cleared.reason = "NONE" /\ ~Cleared.hasValue /\ Cleared.value = <<>>
      /\ Cleared.observed = 0 /\ ~Cleared.exact
  BY SizeOfEmpty DEF Cleared, Output, OutputStates, Formats, Reasons
<1>2. ASSUME NEW limit \in Nat PROVE Held(Cleared, limit)
  BY <1>1, SizeOfEmpty DEF Held, Positive
<1> QED BY <1>1, <1>2

\* discard() leaves no payload and gives the reason.
LEMMA DiscardFacts ==
    ASSUME NEW o \in Output, NEW reason \in Reasons, reason # "NONE", NEW limit \in Nat,
           NEW p, NEW r, r = Discard(o, reason)
    PROVE  /\ Held(r, limit) /\ r.format = o.format /\ (r.exact <=> o.exact) /\ r.reason = reason
           /\ r.observed = o.observed
           /\ r.state \in {"DISCARDED", "INVALID"} /\ r.value = <<>> /\ ~r.hasValue
           /\ r.state = "INVALID" => reason = "INVALID_DATA"
           /\ Explained(r.state, r.reason)
           /\ Partial(r, p)
<1>1. /\ r \in Output /\ r.format = o.format /\ (r.exact <=> o.exact) /\ r.reason = reason
      /\ r.observed = o.observed
      /\ r.state = (IF reason = "INVALID_DATA" THEN "INVALID" ELSE "DISCARDED")
      /\ r.value = <<>> /\ ~r.hasValue
  BY SizeOfEmpty, Zenon DEF Discard, Output, OutputStates, Reasons
<1> QED BY <1>1, SizeOfEmpty DEF Held, Positive, Explained, Partial

\* begin() opens the collector, or gives up for want of memory.
LEMMA BeginCollects ==
    ASSUME mode \in Modes, NEW o, NEW p \in Seq(Int), NEW a \in BOOLEAN,
           Held(o, mode.sLimit), Collected(o, p), Bracketed(o),
           NEW r, r = Begin(o, Expected, a)
    PROVE  Held(r, mode.sLimit) /\ Collected(r, p) /\ Bracketed(r) /\ r.state # "MISSING"
<1>0. mode.sLimit \in Nat
  BY ModeFacts
<1>1. CASE o.state # "MISSING"
  BY <1>1 DEF Begin
<1>2. CASE o.state = "MISSING"
  <2>1. o = Cleared /\ p = <<>>
    BY <1>2 DEF Collected
  <2>2. PICK b : b = [o EXCEPT !.format = Expected, !.exact = (Expected = "TEXT")]
    OBVIOUS
  <2>3. b \in Output /\ b.format = Expected /\ b.value = <<>> /\ b.observed = 0
        /\ b.reason = "NONE" /\ (b.exact <=> ~mode.json)
    BY <2>1, <2>2, ClearedFacts, Zenon DEF Expected, Output, Formats
  <2>4. CASE a = TRUE
    <3>1. r = [b EXCEPT !.state = "COMPLETE", !.hasValue = TRUE]
      BY <1>2, <2>2, <2>4 DEF Begin
    <3>2. /\ r \in Output /\ r.state = "COMPLETE" /\ r.hasValue /\ r.value = <<>>
          /\ r.format = Expected /\ r.reason = "NONE" /\ r.observed = 0 /\ (r.exact <=> ~mode.json)
      BY <2>3, <3>1, Zenon DEF Output, OutputStates
    <3> QED BY <1>0, <2>1, <3>2, SizeOfEmpty DEF Held, Positive, Collected, Bracketed, Partial, Explained
  <2>5. CASE a = FALSE
    <3>1. r = Discard(b, "ALLOCATION_FAILURE")
      BY <1>2, <2>2, <2>5 DEF Begin
    <3>2. "ALLOCATION_FAILURE" \in Reasons /\ "ALLOCATION_FAILURE" # "NONE"
      BY DEF Reasons
    <3>3. /\ Held(r, mode.sLimit) /\ r.format = b.format /\ (r.exact <=> b.exact)
          /\ r.observed = b.observed /\ r.state \in {"DISCARDED", "INVALID"} /\ r.value = <<>>
          /\ Explained(r.state, r.reason) /\ Partial(r, p)
      BY <1>0, <2>3, <3>1, <3>2, DiscardFacts
    <3> QED BY <2>1, <2>3, <3>3, SizeOfEmpty DEF Collected, Bracketed
  <2> QED BY <2>4, <2>5, Zenon
<1> QED BY <1>1, <1>2

\* append_format counts every line, and keeps whole scalars while they fit.
LEMMA AppendCollects ==
    ASSUME mode \in Modes, ~mode.json, NEW o, NEW p \in Seq(Int), NEW line \in Seq(Int),
           Held(o, mode.sLimit), Collected(o, p), o.state # "MISSING",
           NEW r, r = AppendFormat(o, line)
    PROVE  Held(r, mode.sLimit) /\ Collected(r, p \o line) /\ r.state # "MISSING"
<1>0. mode.sLimit \in Nat /\ mode.sLimit > 0
  BY ModeFacts
<1>1. /\ o \in Output /\ o.value \in Seq(Int) /\ o.observed \in Nat /\ o.format = Expected
      /\ o.exact /\ o.observed = Size(p) /\ Size(o.value) \in Nat /\ Size(line) \in Nat
      /\ o.hasValue <=> o.state \in {"COMPLETE", "TRUNCATED"}
      /\ ~o.hasValue => o.value = <<>>
      /\ Positive(o.value) /\ Size(o.value) <= mode.sLimit
      /\ Partial(o, p) /\ Explained(o.state, o.reason)
  BY SizeIsNat DEF Held, Collected, Output
<1>2. PICK q : q = p \o line
  BY Zenon
<1>3. q \in Seq(Int) /\ Size(q) = Size(p) + Size(line)
  BY <1>2, SizeOfConcat
<1>4. PICK c : c = [o EXCEPT !.observed = o.observed + Size(line)]
  BY Zenon
<1>a. c = [o EXCEPT !.observed = Size(q)] /\ Size(q) \in Nat
  BY <1>1, <1>3, <1>4, SizeIsNat
<1>5. /\ c \in Output /\ c.state = o.state /\ c.format = o.format /\ c.reason = o.reason
      /\ c.value = o.value /\ c.observed = Size(q) /\ c.exact /\ (c.hasValue <=> o.hasValue)
  BY <1>1, <1>a, Zenon DEF Output
<1>6. PICK room \in Nat : room = mode.sLimit - Size(o.value)
  BY <1>0, <1>1
<1>7. PICK n : n = Fits(line, room)
  OBVIOUS
<1>8. /\ n \in 0..Len(line) /\ Bytes(line)[n] <= room
      /\ Size(line) > room => n < Len(line)
      /\ Size(line) <= room => n = Len(line)
  BY <1>6, <1>7, FitsFacts, Zenon
<1>9. /\ Len(q) = Len(p) + Len(line) /\ Len(p) \in Nat /\ Len(line) \in Nat
      /\ \A i \in 1..Len(p) : q[i] = p[i]
      /\ \A i \in 1..Len(line) : q[Len(p) + i] = line[i]
  BY <1>2, ConcatParts, LenProperties
<1>10. CASE o.state # "COMPLETE"
  <2>1. r = c
    BY <1>4, <1>10 DEF AppendFormat
  <2>2. c.state = "TRUNCATED" => ~mode.json /\ Prefix(c.value, q) /\ Len(c.value) < Len(q)
    <3> SUFFICES ASSUME o.state = "TRUNCATED" PROVE Prefix(o.value, q) /\ Len(o.value) < Len(q)
      BY <1>5
    <3>1. Prefix(o.value, p) /\ Len(o.value) < Len(p) /\ Len(o.value) \in Nat
      BY <1>1, LenProperties, SMTT(30) DEF Partial
    <3> QED BY <1>9, <3>1 DEF Prefix
  <2>3. Held(c, mode.sLimit)
    BY <1>1, <1>5 DEF Held
  <2>4. Partial(c, q) /\ Explained(c.state, c.reason)
    BY <1>1, <1>5, <1>10, <2>2, Zenon DEF Partial
  <2>5. Collected(c, q)
    BY <1>1, <1>5, <2>4, Zenon DEF Collected
  <2> QED BY <1>2, <1>5, <2>1, <2>3, <2>5
<1>11. CASE o.state = "COMPLETE" /\ \E i \in 1..n : line[i] <= 0
  <2>1. r = Discard(c, "INVALID_DATA")
    BY <1>4, <1>6, <1>7, <1>11 DEF AppendFormat
  <2>2. "INVALID_DATA" \in Reasons /\ "INVALID_DATA" # "NONE"
    BY DEF Reasons
  <2>3. /\ Held(r, mode.sLimit) /\ r.format = c.format /\ (r.exact <=> c.exact)
        /\ r.observed = c.observed /\ r.state \in {"DISCARDED", "INVALID"}
        /\ Explained(r.state, r.reason) /\ Partial(r, q)
    <3>1. c \in Output /\ mode.sLimit \in Nat
      BY <1>0, <1>5
    <3> QED BY <2>1, <2>2, <3>1, DiscardFacts, SMTT(30)
  <2> QED BY <1>1, <1>2, <1>5, <2>3 DEF Collected, Expected
<1>12. CASE o.state = "COMPLETE" /\ ~\E i \in 1..n : line[i] <= 0
  <2>0. o.value = p /\ o.reason = "NONE"
    BY <1>1, <1>12 DEF Partial, Explained
  <2>1. PICK l : l = SubSeq(line, 1, n)
    BY Zenon
  <2>2. /\ l \in Seq(Int) /\ Len(l) = n /\ (\A i \in 1..n : l[i] = line[i])
        /\ Size(l) = Bytes(line)[n]
    BY <1>8, <2>1, SizeOfPrefix
  <2>3. PICK v : v = p \o l
    BY Zenon
  <2>4. v \in Seq(Int) /\ Size(v) = Size(p) + Size(l)
    BY <2>2, <2>3, SizeOfConcat
  <2>5. /\ Len(v) = Len(p) + n
        /\ \A i \in 1..Len(p) : v[i] = p[i]
        /\ \A i \in 1..n : v[Len(p) + i] = l[i]
    <3>1. /\ Len(v) = Len(p) + Len(l)
          /\ \A i \in 1..Len(p) : v[i] = p[i]
          /\ \A i \in 1..Len(l) : v[Len(p) + i] = l[i]
      <4>1. l \in Seq(Int)
        BY <2>2
      <4> QED BY <2>3, <4>1, ConcatParts
    <3> QED BY <2>2, <3>1, Zenon
  <2>6. Positive(v)
    <3>1. ASSUME NEW i \in 1..Len(v) PROVE v[i] > 0
      <4>1. CASE i <= Len(p)
        <5>1. Positive(p) /\ i \in 1..Len(p) /\ v[i] = p[i]
          BY <1>1, <1>9, <2>0, <2>5, <4>1, SMTT(30)
        <5> QED BY <5>1 DEF Positive
      <4>2. CASE i > Len(p)
        <5>1. PICK j \in 1..n : i = Len(p) + j
          <6>1. i - Len(p) \in 1..n /\ i = Len(p) + (i - Len(p))
            BY <1>8, <1>9, <2>5, <4>2
          <6> QED BY <6>1
        <5>2. v[i] = line[j] /\ j \in 1..Len(line)
          <6>1. v[i] = l[j] /\ l[j] = line[j]
            BY <2>2, <2>5, <5>1, Zenon
          <6> QED BY <1>8, <1>9, <5>1, <6>1
        <5>3. ~(line[j] <= 0) /\ line[j] \in Int
          BY <1>12, <5>2, ElementOfSeq, SMTT(30)
        <5> QED BY <5>2, <5>3
      <4> QED BY <1>9, <2>5, <4>1, <4>2
    <3> QED BY <3>1 DEF Positive
  <2>7. Size(v) <= mode.sLimit
    <3>1. Size(v) = Size(o.value) + Bytes(line)[n] /\ Bytes(line)[n] \in Nat
      BY <1>8, <2>0, <2>2, <2>4, BytesIsNat
    <3>2. Size(o.value) \in Nat /\ Bytes(line)[n] <= mode.sLimit - Size(o.value)
      BY <1>1, <1>6, <1>8, Zenon
    <3> QED BY <1>0, <3>1, <3>2
  <2>8. PICK k : k = [c EXCEPT !.value = v]
    BY Zenon
  <2>9. /\ k \in Output /\ k.state = "COMPLETE" /\ k.format = Expected /\ k.reason = "NONE"
        /\ k.value = v /\ k.observed = Size(q) /\ k.exact /\ k.hasValue
    BY <1>1, <1>5, <1>12, <2>0, <2>4, <2>8, Zenon DEF Output
  <2>10. CASE Size(line) > room
    <3>1. r = [k EXCEPT !.state = "TRUNCATED", !.reason = "BYTE_LIMIT"]
      BY <1>4, <1>6, <1>7, <1>12, <2>0, <2>1, <2>3, <2>8, <2>10, Zenon DEF AppendFormat
    <3>2. /\ r \in Output /\ r.state = "TRUNCATED" /\ r.format = Expected
          /\ r.reason = "BYTE_LIMIT" /\ r.value = v /\ r.observed = Size(q) /\ r.exact /\ r.hasValue
      BY <2>9, <3>1, Zenon DEF Output, OutputStates, Reasons
    <3>3. Prefix(v, q) /\ Len(v) < Len(q)
      <4>1. n < Len(line)
        BY <1>8, <2>10
      <4>2. ASSUME NEW i \in 1..Len(v) PROVE v[i] = q[i]
        <5>1. CASE i <= Len(p)
          BY <1>9, <2>5, <5>1
        <5>2. CASE i > Len(p)
          <6>1. PICK j \in 1..n : i = Len(p) + j
            <7>1. i - Len(p) \in 1..n /\ i = Len(p) + (i - Len(p))
              BY <1>8, <1>9, <2>5, <5>2
            <7> QED BY <7>1
          <6>2. j \in 1..Len(line) /\ v[i] = l[j] /\ q[i] = line[j] /\ l[j] = line[j]
            <7>1. v[i] = l[j] /\ l[j] = line[j]
              BY <2>2, <2>5, <6>1, Zenon
            <7>2. j \in 1..Len(line)
              BY <1>8, <1>9, <6>1
            <7> QED BY <1>9, <6>1, <7>1, <7>2, Zenon
          <6> QED BY <6>2
        <5> QED BY <1>9, <2>5, <5>1, <5>2
      <4> QED BY <1>8, <1>9, <2>5, <4>1, <4>2 DEF Prefix
    <3> QED BY <1>2, <2>6, <2>7, <3>2, <3>3 DEF Held, Collected, Partial, Explained
  <2>11. CASE ~(Size(line) > room)
    <3>1. r = k
      BY <1>4, <1>6, <1>7, <1>12, <2>0, <2>1, <2>3, <2>8, <2>11, Zenon DEF AppendFormat
    <3>2. n = Len(line)
      BY <1>1, <1>8, <2>11
    <3>3. l = line
      BY <1>9, <2>2, <3>2, SeqEqual
    <3> QED BY <1>2, <2>3, <2>6, <2>7, <2>9, <3>1, <3>3, Zenon DEF Held, Collected, Partial, Explained
  <2> QED BY <2>10, <2>11
<1> QED BY <1>10, <1>11, <1>12

\* Another interval leaves all of them positive.
LEMMA PositiveConcat ==
    ASSUME NEW p \in Seq(Int), Positive(p), NEW size \in Nat \ {0}, NEW q, q = p \o <<size>>
    PROVE  q = Append(p, size) /\ q \in Seq(Int) /\ Positive(q)
<1>1. q = Append(p, size) /\ q \in Seq(Int)
  BY AppendIsConcat
<1>2. /\ Len(q) = Len(p) + 1 /\ q[Len(p) + 1] = size /\ Len(p) \in Nat
      /\ \A i \in 1..Len(p) : q[i] = p[i]
  BY <1>1, LenProperties, AppendProperties
<1>3. ASSUME NEW i \in 1..Len(q) PROVE q[i] > 0
  <2>1. CASE i \in 1..Len(p)
    BY <1>2, <2>1 DEF Positive
  <2>2. CASE i = Len(p) + 1
    BY <1>2, <2>2
  <2> QED BY <1>2, <2>1, <2>2
<1> QED BY <1>1, <1>3 DEF Positive

\* collect_interval keeps an interval that leaves room for the brackets.
LEMMA IntervalCollects ==
    ASSUME mode \in Modes, mode.json, NEW o, NEW p \in Seq(Int), NEW size \in Nat \ {0},
           NEW a \in BOOLEAN, Positive(p),
           Held(o, mode.sLimit), Collected(o, p), Bracketed(o), o.state # "MISSING",
           NEW r, r = CollectInterval(o, size, a)
    PROVE  /\ Held(r, mode.sLimit) /\ Collected(r, p \o <<size>>) /\ Bracketed(r)
           /\ r.state # "MISSING" /\ Positive(p \o <<size>>)
<1>0. mode.sLimit \in Nat /\ mode.sLimit > 0
  BY ModeFacts
<1>1. /\ o \in Output /\ o.value \in Seq(Int) /\ o.format = Expected /\ ~o.exact
      /\ Positive(o.value) /\ Partial(o, p) /\ Explained(o.state, o.reason)
      /\ o.hasValue <=> o.state \in {"COMPLETE", "TRUNCATED"}
  BY DEF Held, Collected, Output
<1>2. PICK q : q = p \o <<size>>
  BY Zenon
<1>3. q = Append(p, size) /\ q \in Seq(Int) /\ Positive(q)
  BY <1>2, PositiveConcat, Zenon
<1>4. CASE o.state # "COMPLETE"
  <2>1. r = o
    BY <1>4 DEF CollectInterval
  <2>2. o.state # "TRUNCATED"
    BY <1>1, Zenon DEF Partial
  <2> QED BY <1>1, <1>2, <1>3, <1>4, <2>1, <2>2 DEF Collected, Partial
<1>5. CASE o.state = "COMPLETE" /\ r # [o EXCEPT !.value = Append(o.value, size)]
  <2>1. PICK why \in {"NODE_LIMIT", "ALLOCATION_FAILURE", "BYTE_LIMIT"} : r = Discard(o, why)
    BY <1>5 DEF CollectInterval
  <2>2. why \in Reasons /\ why # "NONE"
    BY <2>1, Zenon DEF Reasons
  <2>3. /\ Held(r, mode.sLimit) /\ r.format = o.format /\ (r.exact <=> o.exact)
        /\ r.state \in {"DISCARDED", "INVALID"} /\ r.value = <<>>
        /\ Explained(r.state, r.reason) /\ Partial(r, q)
    BY <1>0, <1>1, <2>1, <2>2, DiscardFacts, SMTT(30)
  <2> QED BY <1>1, <1>2, <1>3, <2>3 DEF Collected, Bracketed
<1>6. CASE o.state = "COMPLETE" /\ r = [o EXCEPT !.value = Append(o.value, size)]
  <2>0. o.value = p /\ o.reason = "NONE"
    BY <1>1, <1>6 DEF Partial, Explained
  <2>1. /\ r \in Output /\ r.state = "COMPLETE" /\ r.value = q /\ r.reason = "NONE"
        /\ r.format = Expected /\ ~r.exact /\ r.hasValue
    BY <1>1, <1>3, <1>6, <2>0, Zenon DEF Output
  <2>2. PICK sz : sz = Size(Document(q)) - Overhead
    OBVIOUS
  <2>3. sz \in Nat /\ Size(q) <= sz /\ Size(q) \in Nat
    BY <1>3, <2>2, DocumentFacts, SizeIsNat, Zenon
  <2>4. ~(sz > mode.sLimit - 2)
    <3>1. q # p
      BY <1>3, LenProperties, AppendProperties
    <3>2. ASSUME NEW why \in Reasons PROVE r # Discard(o, why)
      <4>1. Discard(o, why).state # "COMPLETE"
        BY <1>1 DEF Discard, Output
      <4> QED BY <2>1, <4>1
    <3>3. "NODE_LIMIT" \in Reasons /\ "ALLOCATION_FAILURE" \in Reasons /\ "BYTE_LIMIT" \in Reasons
      BY DEF Reasons
    <3> QED BY <1>3, <1>6, <2>0, <2>2, <3>2, <3>3 DEF CollectInterval
  <2>5. sz + 2 <= mode.sLimit /\ Size(q) <= mode.sLimit
    BY <1>0, <2>3, <2>4
  <2> QED BY <1>2, <1>3, <2>1, <2>2, <2>5, Zenon DEF Held, Collected, Bracketed, Partial, Explained
<1> QED BY <1>4, <1>5, <1>6

\* What a server with a budget packages: finalize_json replaces the intervals by the
\* document they make, or by nothing, and the status agrees with the payload.
LEMMA PackagedIsTold ==
    ASSUME mode \in Modes, mode.budget, mode.requested, NEW o, NEW p, Units(p),
           mode.json => Positive(p), NEW a \in BOOLEAN,
           Held(o, mode.sLimit), Collected(o, p), o.state # "MISSING",
           NEW r, r = IF mode.json THEN FinalizeJson(o, a) ELSE o,
           NEW st, st = [state |-> r.state, format |-> r.format, reason |-> r.reason,
                         exact |-> r.exact, observed |-> r.observed],
           NEW f, f = [format |-> r.format, hasValue |-> r.hasValue, units |-> r.value,
                       status |-> <<st>>]
    PROVE  Held(r, mode.sLimit) /\ Framed(f, p) /\ f.status[1].state = r.state
<1>0. mode.sLimit \in Nat /\ mode.sLimit > 0 /\ mode.json \in BOOLEAN /\ p \in Seq(Int)
  BY ModeFacts, Zenon DEF Units
<1>1. /\ o \in Output /\ o.format = Expected /\ Partial(o, p) /\ Explained(o.state, o.reason)
      /\ ~mode.json => o.exact /\ o.observed = Size(p)
      /\ mode.json => ~o.exact
  BY DEF Held, Collected
<1>2. /\ Held(r, mode.sLimit) /\ r.format = Expected /\ r.state # "MISSING"
      /\ Explained(r.state, r.reason)
      /\ r.exact => r.observed = Size(WholeOf(p))
      /\ Partial(r, WholeOf(p))
  <2>1. CASE ~mode.json
    BY <1>0, <1>1, <2>1, Zenon DEF WholeOf
  <2>2. CASE mode.json /\ o.state # "COMPLETE"
    <3>1. r = o /\ o.state # "TRUNCATED"
      BY <1>1, <2>2 DEF FinalizeJson, Partial
    <3> QED BY <1>1, <2>2, <3>1 DEF Partial
  <2>3. CASE mode.json /\ o.state = "COMPLETE"
    <3>0. o.value = p /\ o.hasValue /\ o.reason = "NONE"
      BY <1>1, <2>3 DEF Partial, Held, Explained
    <3>1. PICK doc : doc = Document(p)
      OBVIOUS
    <3>2. doc \in Seq(Int) /\ Positive(doc) /\ Size(doc) \in Nat /\ WholeOf(p) = doc
      BY <1>0, <2>3, <3>1, DocumentFacts, SizeIsNat DEF WholeOf
    <3>3. CASE r = [o EXCEPT !.value = doc, !.observed = Size(doc), !.exact = TRUE] /\ Size(doc) <= mode.sLimit
      <4>1. /\ r \in Output /\ r.state = "COMPLETE" /\ r.value = doc /\ r.observed = Size(doc)
            /\ r.format = Expected /\ r.hasValue /\ r.reason = "NONE"
        BY <1>1, <2>3, <3>0, <3>2, <3>3, Zenon DEF Output
      <4> QED BY <3>2, <3>3, <4>1 DEF Held, Partial, Explained
    <3>4. CASE \E why \in {"NODE_LIMIT", "ALLOCATION_FAILURE", "BYTE_LIMIT"} : r = Discard(o, why)
      <4>1. PICK why \in {"NODE_LIMIT", "ALLOCATION_FAILURE", "BYTE_LIMIT"} : r = Discard(o, why)
        BY <3>4
      <4>2. why \in Reasons /\ why # "NONE"
        BY <4>1 DEF Reasons
      <4>3. /\ Held(r, mode.sLimit) /\ r.format = o.format /\ (r.exact <=> o.exact)
            /\ r.state \in {"DISCARDED", "INVALID"}
            /\ Explained(r.state, r.reason) /\ Partial(r, doc)
        <5>1. o \in Output /\ mode.sLimit \in Nat
          BY <1>0, <1>1
        <5> QED BY <4>1, <4>2, <5>1, DiscardFacts, Zenon
      <4> QED BY <1>1, <2>3, <3>2, <4>3
    <3>5. \/ r = [o EXCEPT !.value = doc, !.observed = Size(doc), !.exact = TRUE] /\ ~(Size(doc) > mode.sLimit)
          \/ \E why \in {"NODE_LIMIT", "ALLOCATION_FAILURE", "BYTE_LIMIT"} : r = Discard(o, why)
      BY <2>3, <3>0, <3>1 DEF FinalizeJson
    <3> QED BY <1>0, <3>2, <3>3, <3>4, <3>5, SMTT(30)
  <2> QED BY <1>0, <2>1, <2>2, <2>3
<1>3. /\ r \in Output /\ (r.hasValue <=> r.state \in {"COMPLETE", "TRUNCATED"})
      /\ (~r.hasValue => r.value = <<>>) /\ Positive(r.value)
  BY <1>2 DEF Held
<1>4. /\ st \in StatusType /\ st.state = r.state /\ st.format = r.format /\ st.reason = r.reason
      /\ (st.exact <=> r.exact) /\ st.observed = r.observed
  BY <1>3 DEF StatusType, Output
<1>5. /\ f.format = r.format /\ (f.hasValue <=> r.hasValue) /\ f.units = r.value
      /\ f.hasValue \in BOOLEAN /\ f.status = <<st>>
  BY <1>3 DEF Output
<1>6. f.status # <<>> /\ f.status[1] = st
  BY <1>5
<1>7. Units(f.units)
  <2>1. \A i \in 1..Len(r.value) : r.value[i] \in Int /\ r.value[i] > 0
    BY <1>3, ElementOfSeq, Zenon DEF Output, Positive
  <2> QED BY <1>3, <1>5, <2>1 DEF Units, Output, Nul
<1>8. r.state = "TRUNCATED" => ~mode.json /\ Prefix(f.units, p) /\ Len(f.units) < Len(p)
  BY <1>2, <1>5, Zenon DEF Partial, WholeOf
<1>9. Told(st, f, p)
  BY <1>2, <1>3, <1>4, <1>5, <1>8 DEF Told, Partial
<1> QED BY <1>2, <1>4, <1>5, <1>6, <1>7, <1>9 DEF Framed

-----------------------------------------------------------------------------
(* The scanner's operations *)

\* The prefix grows by the unit that follows it.
UnitAt(s, k, u, v) == k < Len(s) /\ u = s[k + 1] /\ v = SubSeq(s, 1, k)

Follows(s, k, u, v) ==
    /\ u \in Int /\ v \in Seq(Int) /\ Size(v) = Bytes(s)[k] /\ Len(v) = k
    /\ \A i \in 1..k : v[i] = s[i]
    /\ Append(v, u) = SubSeq(s, 1, k + 1)
    /\ Bytes(s)[k + 1] = Bytes(s)[k] + Width(u) /\ Bytes(s)[k] \in Nat
    /\ Width(u) \in Nat

\* Taking the next unit of s into the prefix of s that is already there.
LEMMA NextUnit ==
    ASSUME NEW s \in Seq(Int), NEW k \in Nat, NEW u, NEW v, UnitAt(s, k, u, v)
    PROVE  Follows(s, k, u, v)
<1>0. k < Len(s) /\ u = s[k + 1] /\ v = SubSeq(s, 1, k)
  BY DEF UnitAt
<1>1. Len(s) \in Nat /\ k + 1 \in 1..Len(s) /\ k \in 0..Len(s) /\ k + 1 \in 0..Len(s)
  BY <1>0, LenProperties
<1>2. u \in Int /\ Width(u) \in Nat
  BY <1>0, <1>1, ElementOfSeq, WidthIsNat, Zenon
<1>3. v \in Seq(Int) /\ Size(v) = Bytes(s)[k] /\ Len(v) = k /\ \A i \in 1..k : v[i] = s[i]
  <2>1. PICK j \in 0..Len(s) : j = k
    BY <1>1
  <2> QED BY <1>0, <2>1, SizeOfPrefix, Zenon
<1>4. Bytes(s)[k] \in Nat
  BY <1>1, BytesIsNat
<1>5. PICK m \in Nat : m = k + 1
  OBVIOUS
<1>6. Bytes(s)[m] = Bytes(s)[m - 1] + Width(s[m]) /\ m - 1 = k
  BY <1>1, <1>5, BytesStep
<1>7. PICK w : w = SubSeq(s, 1, m)
  BY Zenon
<1>8. w \in Seq(Int) /\ Len(w) = m /\ \A i \in 1..m : w[i] = s[i]
  BY <1>1, <1>5, <1>7, SizeOfPrefix
<1>9. PICK x : x = Append(v, u)
  BY Zenon
<1>10. x \in Seq(Int) /\ Len(x) = m /\ x[m] = u /\ \A i \in 1..k : x[i] = v[i]
  BY <1>2, <1>3, <1>5, <1>9, AppendProperties, SMTT(30)
<1>11. x = w
  <2>1. ASSUME NEW i \in 1..m PROVE x[i] = w[i]
    <3>1. CASE i = m
      BY <1>0, <1>5, <1>8, <1>10, <3>1
    <3>2. CASE i # m
      <4>1. i \in 1..k
        BY <1>5, <3>2
      <4> QED BY <1>3, <1>8, <1>10, <4>1, Zenon
    <3> QED BY <3>1, <3>2
  <2> QED BY <1>8, <1>10, <2>1, SeqEqual
<1> QED BY <1>0, <1>2, <1>3, <1>4, <1>5, <1>6, <1>7, <1>9, <1>11 DEF Follows

\* The places up to k are places up to k + 1.
LEMMA OneMore == ASSUME NEW k \in Nat PROVE 1..k \subseteq 1..(k + 1) /\ k + 1 \in 1..(k + 1)
OBVIOUS

\* A byte count grows by a width to a byte count.
LEMMA SumIsNat == ASSUME NEW a \in Nat, NEW b \in Nat, NEW c, c = a + b PROVE c \in Nat
OBVIOUS

\* What both kinds of output do with a unit, but for their own way of dropping one.
Counted(o, u, r) ==
    LET c == [o EXCEPT !.observed = o.observed + Width(u)]
    IN \/ o.state # "COMPLETE" /\ r = c
       \/ o.state = "COMPLETE" /\ ~(Size(o.value) + Width(u) > mode.cLimit)
          /\ r = [c EXCEPT !.value = Append(o.value, u)]

\* A unit that is counted, and kept if all before it were: the client then has what it
\* should have of one more unit.
LEMMA CountedScans ==
    ASSUME mode \in Modes, NEW o, NEW f, NEW k \in Nat, Units(f.units), f.hasValue,
           k < Len(f.units), Held(o, mode.cLimit), Scanned(o, f, k),
           NEW u, u = f.units[k + 1], u # Bad, u # Nul,
           NEW r, Counted(o, u, r), NEW next, next = k + 1
    PROVE  Held(r, mode.cLimit) /\ Scanned(r, f, next)
<1>0. mode.cLimit \in Nat
  BY ModeFacts
<1>c. PICK c : /\ c = [o EXCEPT !.observed = o.observed + Width(u)]
               /\ \/ o.state # "COMPLETE" /\ r = c
                  \/ o.state = "COMPLETE" /\ ~(Size(o.value) + Width(u) > mode.cLimit)
                     /\ r = [c EXCEPT !.value = Append(o.value, u)]
  BY Zenon DEF Counted
<1>1. PICK s : /\ s = f.units /\ s \in Seq(Int) /\ k < Len(s) /\ u = s[k + 1]
               /\ \A i \in 1..Len(s) : s[i] >= Nul
  BY Zenon DEF Units
<1>2. PICK v : v = SubSeq(s, 1, k)
  BY Zenon
<1>3. /\ u \in Int /\ v \in Seq(Int) /\ Size(v) = Bytes(s)[k] /\ Len(v) = k
      /\ \A i \in 1..k : v[i] = s[i]
      /\ Append(v, u) = SubSeq(s, 1, k + 1)
      /\ Bytes(s)[k + 1] = Bytes(s)[k] + Width(u) /\ Bytes(s)[k] \in Nat /\ Width(u) \in Nat
  <2>1. UnitAt(s, k, u, v)
    BY <1>1, <1>2, Zenon DEF UnitAt
  <2>2. Follows(s, k, u, v)
    BY <1>1, <2>1, NextUnit, Zenon
  <2> QED BY <2>2, Zenon DEF Follows
<1>4. /\ o \in Output /\ o.format = f.format /\ o.exact /\ o.observed = Bytes(s)[k]
      /\ o.state # "MISSING" /\ Positive(o.value) /\ Size(o.value) <= mode.cLimit
      /\ o.hasValue <=> o.state \in {"COMPLETE", "TRUNCATED"}
      /\ ~o.hasValue => o.value = <<>>
      /\ o.state = "COMPLETE" => o.value = v
      /\ o.state = "TRUNCATED" => ~mode.json /\ Prefix(o.value, s) /\ Len(o.value) < k
      /\ o.state = "INVALID" => \E i \in 1..k : s[i] <= 0
  BY <1>1, <1>2 DEF Held, Scanned
<1>a. c = [o EXCEPT !.observed = Bytes(s)[k + 1]] /\ Bytes(s)[k + 1] \in Nat
  BY <1>c, <1>3, <1>4
<1>5. /\ c \in Output /\ c.state = o.state /\ c.format = o.format /\ c.value = o.value
      /\ c.observed = Bytes(s)[k + 1] /\ c.exact /\ (c.hasValue <=> o.hasValue)
  BY <1>4, <1>a, Zenon DEF Output
<1>6. CASE o.state # "COMPLETE" /\ r = c
  <2>1. Held(r, mode.cLimit)
    BY <1>4, <1>5, <1>6, ZenonT(30) DEF Held
  <2>2. o.state = "TRUNCATED" => Len(o.value) < k + 1
    <3>1. o.value \in Seq(Int) /\ (o.state = "TRUNCATED" => Len(o.value) < k)
      BY <1>4, Zenon DEF Output
    <3>2. Len(o.value) \in Nat
      BY <3>1, LenProperties, Zenon
    <3> QED BY <3>1, <3>2
  <2>3. o.state = "INVALID" => \E i \in 1..(k + 1) : s[i] <= 0
    <3>1. o.state = "INVALID" => \E i \in 1..k : s[i] <= 0
      BY <1>4, Zenon
    <3> QED BY <3>1, OneMore, Zenon
  <2> QED BY <1>1, <1>4, <1>5, <1>6, <2>1, <2>2, <2>3, SMTT(30) DEF Scanned
<1>7. CASE /\ o.state = "COMPLETE" /\ ~(Size(o.value) + Width(u) > mode.cLimit)
           /\ r = [c EXCEPT !.value = Append(o.value, u)]
  <2>1. PICK w : w = Append(v, u)
    BY Zenon
  <2>2. w \in Seq(Int) /\ Size(w) = Size(v) + Width(u) /\ Size(v) \in Nat
    BY <1>3, <2>1, SizeOfAppend, SizeIsNat, Zenon
  <2>3. Positive(w)
    <3>1. k + 1 \in 1..Len(s)
      BY <1>1, LenProperties
    <3>2. u > 0
      <4>1. u >= Nul
        BY <1>1, <3>1, Zenon
      <4>2. u \in Int
        BY <1>3, Zenon
      <4> QED BY <4>1, <4>2, SMTT(30) DEF Bad, Nul
    <3>3. Len(w) = k + 1 /\ w[k + 1] = u /\ \A i \in 1..k : w[i] = v[i]
      BY <1>3, <2>1, AppendProperties, SMTT(30)
    <3>4. \A i \in 1..k : v[i] > 0
      BY <1>3, <1>4, <1>7 DEF Positive
    <3>5. ASSUME NEW i \in 1..Len(w) PROVE w[i] > 0
      <4>1. CASE i = k + 1
        BY <3>2, <3>3, <4>1, Zenon
      <4>2. CASE i # k + 1
        <5>1. i \in 1..k
          BY <3>3, <4>2
        <5> QED BY <3>3, <3>4, <5>1, Zenon
      <4> QED BY <4>1, <4>2, Zenon
    <3> QED BY <3>5 DEF Positive
  <2>4. /\ r \in Output /\ r.state = "COMPLETE" /\ r.value = w /\ r.format = o.format
        /\ r.observed = Bytes(s)[k + 1] /\ r.exact /\ r.hasValue
    BY <1>4, <1>5, <1>7, <2>1, <2>2, Zenon DEF Output
  <2>5. Size(w) <= mode.cLimit
    BY <1>0, <1>3, <1>4, <1>7, <2>2, SMTT(30)
  <2> QED BY <1>1, <1>3, <1>4, <2>1, <2>3, <2>4, <2>5, ZenonT(30) DEF Held, Scanned
<1> QED BY <1>c, <1>6, <1>7

\* decoded_scalar keeps the prefix, and marks the first scalar that does not fit.
LEMMA DecodedScans ==
    ASSUME mode \in Modes, ~mode.json, NEW o, NEW f, NEW k \in Nat, Units(f.units), f.hasValue,
           k < Len(f.units), Held(o, mode.cLimit), Scanned(o, f, k),
           NEW u, u = f.units[k + 1], u # Bad,
           NEW r, r = DecodedScalar(o, u), NEW next, next = k + 1
    PROVE  Held(r, mode.cLimit) /\ Scanned(r, f, next)
<1>0. mode.cLimit \in Nat
  BY ModeFacts
<1>1. PICK s : /\ s = f.units /\ s \in Seq(Int) /\ k < Len(s) /\ u = s[k + 1]
               /\ \A i \in 1..Len(s) : s[i] >= Nul
  BY Zenon DEF Units
<1>2. PICK v : v = SubSeq(s, 1, k)
  BY ZenonT(30)
<1>3. /\ u \in Int /\ v \in Seq(Int) /\ Size(v) = Bytes(s)[k] /\ Len(v) = k
      /\ \A i \in 1..k : v[i] = s[i]
      /\ Bytes(s)[k + 1] = Bytes(s)[k] + Width(u) /\ Bytes(s)[k] \in Nat /\ Width(u) \in Nat
  <2>1. UnitAt(s, k, u, v)
    BY <1>1, <1>2, Zenon DEF UnitAt
  <2>2. Follows(s, k, u, v)
    BY <1>1, <2>1, NextUnit, Zenon
  <2> QED BY <2>2, Zenon DEF Follows
<1>4. /\ o \in Output /\ o.format = f.format /\ o.exact /\ o.observed = Bytes(s)[k]
      /\ Positive(o.value) /\ Size(o.value) <= mode.cLimit
      /\ o.hasValue <=> o.state \in {"COMPLETE", "TRUNCATED"}
      /\ o.state = "COMPLETE" => o.value = v
  BY <1>1, <1>2 DEF Held, Scanned
<1>5. PICK c : c = [o EXCEPT !.observed = o.observed + Width(u)]
  BY Zenon
<1>6. c = [o EXCEPT !.observed = Bytes(s)[k + 1]] /\ Bytes(s)[k + 1] \in Nat
  BY <1>3, <1>4, <1>5
<1>7. /\ c \in Output /\ c.state = o.state /\ c.format = o.format /\ c.value = o.value
      /\ c.observed = Bytes(s)[k + 1] /\ c.exact /\ (c.hasValue <=> o.hasValue)
  BY <1>4, <1>6, Zenon DEF Output
<1>8. CASE u = Nul
  <2>1. r = [c EXCEPT !.state = "INVALID", !.reason = "INVALID_DATA", !.hasValue = FALSE, !.value = <<>>]
    BY <1>5, <1>8 DEF DecodedScalar
  <2>2. /\ r \in Output /\ r.state = "INVALID" /\ r.format = o.format /\ r.value = <<>>
        /\ r.observed = Bytes(s)[k + 1] /\ r.exact /\ ~r.hasValue
    BY <1>7, <2>1, SizeOfEmpty, Zenon DEF Output, OutputStates, Reasons
  <2>3. \E i \in 1..(k + 1) : s[i] <= 0
    <3>1. s[k + 1] <= 0
      <4>1. s[k + 1] = -1
        BY <1>1, <1>8, Zenon DEF Nul
      <4> QED BY <4>1
    <3>2. k + 1 \in 1..(k + 1)
      BY OneMore, Zenon
    <3> QED BY <3>1, <3>2, Zenon
  <2> QED BY <1>0, <1>1, <1>4, <2>2, <2>3, SizeOfEmpty DEF Held, Scanned, Positive
<1>9. CASE u # Nul /\ o.state = "COMPLETE" /\ Size(o.value) + Width(u) > mode.cLimit
  <2>1. r = [c EXCEPT !.state = "TRUNCATED", !.reason = "BYTE_LIMIT"]
    BY <1>5, <1>9 DEF DecodedScalar
  <2>2. /\ r \in Output /\ r.state = "TRUNCATED" /\ r.format = o.format /\ r.value = v
        /\ r.observed = Bytes(s)[k + 1] /\ r.exact /\ r.hasValue
    BY <1>4, <1>7, <1>9, <2>1, ZenonT(30) DEF Output, OutputStates, Reasons
  <2>3. Prefix(v, s) /\ Len(v) < k + 1
    BY <1>1, <1>3, LenProperties, SMTT(30) DEF Prefix
  <2> QED BY <1>0, <1>1, <1>4, <1>9, <2>2, <2>3 DEF Held, Scanned
<1>10. CASE u # Nul /\ ~(o.state = "COMPLETE" /\ Size(o.value) + Width(u) > mode.cLimit)
  <2>1. \/ o.state # "COMPLETE" /\ r = c
        \/ o.state = "COMPLETE" /\ ~(Size(o.value) + Width(u) > mode.cLimit)
           /\ r = [c EXCEPT !.value = Append(o.value, u)]
    BY <1>5, <1>10 DEF DecodedScalar
  <2>2. Counted(o, u, r)
    BY <1>5, <2>1, Zenon DEF Counted
  <2> QED BY <1>10, <2>2, CountedScans
<1> QED BY <1>8, <1>9, <1>10, Zenon

\* emit() keeps the document whole or drops it.
LEMMA EmittedScans ==
    ASSUME mode \in Modes, NEW o, NEW f, NEW k \in Nat, Units(f.units), f.hasValue,
           Positive(f.units),
           k < Len(f.units), Held(o, mode.cLimit), Scanned(o, f, k),
           NEW u, u = f.units[k + 1], NEW n,
           NEW r, r = EmitJson(o, u, n), NEW next, next = k + 1
    PROVE  Held(r, mode.cLimit) /\ Scanned(r, f, next)
<1>0. mode.cLimit \in Nat
  BY ModeFacts
<1>1. PICK s : s = f.units /\ s \in Seq(Int) /\ Positive(s) /\ k < Len(s) /\ u = s[k + 1]
  BY Zenon DEF Units
<1>2. /\ u \in Int /\ Bytes(s)[k + 1] = Bytes(s)[k] + Width(u) /\ Bytes(s)[k] \in Nat
      /\ Width(u) \in Nat
  <2>1. PICK v : v = SubSeq(s, 1, k)
    BY Zenon
  <2>2. UnitAt(s, k, u, v)
    BY <1>1, <2>1, Zenon DEF UnitAt
  <2>3. Follows(s, k, u, v)
    BY <1>1, <2>2, NextUnit, Zenon
  <2> QED BY <2>3 DEF Follows
<1>3. u # Bad /\ u # Nul
  <2>1. k + 1 \in 1..Len(s)
    BY <1>1, LenProperties, SMTT(30)
  <2> QED BY <1>1, <1>2, <2>1, SMTT(30) DEF Positive, Bad, Nul
<1>4. /\ o \in Output /\ o.format = f.format /\ o.exact /\ o.observed = Bytes(s)[k]
  BY <1>1 DEF Held, Scanned
<1>5. PICK c : c = [o EXCEPT !.observed = o.observed + Width(u)]
  BY Zenon
<1>6. c = [o EXCEPT !.observed = Bytes(s)[k + 1]] /\ Bytes(s)[k + 1] \in Nat
  <2>1. o.observed + Width(u) = Bytes(s)[k + 1]
    <3>1. o.observed = Bytes(s)[k]
      BY <1>4, Zenon
    <3> QED BY <1>2, <3>1, Zenon
  <2>2. Bytes(s)[k + 1] \in Nat
    BY <1>2, SumIsNat, Zenon
  <2> QED BY <1>5, <2>1, <2>2, Zenon
<1>7. CASE \E why \in {"NODE_LIMIT", "BYTE_LIMIT"} :
              r = [c EXCEPT !.state = "DISCARDED", !.reason = why, !.hasValue = FALSE, !.value = <<>>]
  <2>1. PICK why \in {"NODE_LIMIT", "BYTE_LIMIT"} :
              r = [c EXCEPT !.state = "DISCARDED", !.reason = why, !.hasValue = FALSE, !.value = <<>>]
    BY <1>7, Zenon
  <2>2. /\ r \in Output /\ r.state = "DISCARDED" /\ r.format = o.format /\ r.value = <<>>
        /\ r.observed = Bytes(s)[k + 1] /\ r.exact /\ ~r.hasValue
    BY <1>4, <1>6, <2>1, SizeOfEmpty, ZenonT(30) DEF Output, OutputStates, Reasons
  <2> QED BY <1>0, <1>1, <1>4, <2>2, SizeOfEmpty, SMTT(30) DEF Held, Scanned, Positive
<1>8. CASE \/ o.state # "COMPLETE" /\ r = c
           \/ o.state = "COMPLETE" /\ ~(Size(o.value) + Width(u) > mode.cLimit)
              /\ r = [c EXCEPT !.value = Append(o.value, u)]
  <2>1. Counted(o, u, r)
    BY <1>5, <1>8, Zenon DEF Counted
  <2> QED BY <1>3, <2>1, CountedScans
<1> QED BY <1>5, <1>7, <1>8, Zenon DEF EmitJson

\* The states without a payload rank highest.
LEMMA RankFacts ==
    ASSUME NEW s \in OutputStates
    PROVE  (Rank[s] >= Rank["DISCARDED"] <=> s \in {"DISCARDED", "INVALID"})
           /\ (Rank[s] < Rank["DISCARDED"] <=> s \notin {"DISCARDED", "INVALID"})
<1>1. CASE s = "MISSING" BY <1>1 DEF Rank
<1>2. CASE s = "COMPLETE" BY <1>2 DEF Rank
<1>3. CASE s = "TRUNCATED" BY <1>3 DEF Rank
<1>4. CASE s = "DISCARDED" BY <1>4 DEF Rank
<1>5. CASE s = "INVALID" BY <1>5, SMTT(30) DEF Rank
<1> QED BY <1>1, <1>2, <1>3, <1>4, <1>5 DEF OutputStates

\* iperf_output_apply_peer_status accepts what a budgeted server says, and takes the
\* worse of the two states.
LEMMA PeerStatusApplied ==
    ASSUME NEW o \in Output, NEW st \in StatusType,
           o.format = "NONE" \/ o.format = st.format,
           o.state # "INVALID", st.state # "MISSING",
           o.state = "MISSING" => st.state \in {"DISCARDED", "INVALID"},
           Explained(st.state, st.reason), st.state = "TRUNCATED" => st.format = "TEXT",
           o.hasValue <=> o.state \in {"COMPLETE", "TRUNCATED"}, ~o.hasValue => o.value = <<>>,
           NEW r, r = ApplyPeerStatus(o, st)
    PROVE  /\ r \in Output
           /\ r.hasValue <=> r.state \in {"COMPLETE", "TRUNCATED"}
           /\ ~r.hasValue => r.value = <<>>
           /\ r.value = <<>> \/ r.value = o.value
           /\ r.exact => st.exact /\ r.observed = st.observed
           /\ r.state = "INVALID" => st.state = "INVALID"
           /\ r.state \in {"COMPLETE", "TRUNCATED"} =>
                /\ st.state \in {"COMPLETE", "TRUNCATED"} /\ r.value = o.value
                /\ r.state = "COMPLETE" => o.state = "COMPLETE" /\ st.state = "COMPLETE"
                /\ r.state = "TRUNCATED" =>
                      o.state = "TRUNCATED" \/ (o.state = "COMPLETE" /\ st.state = "TRUNCATED")
<1>1. /\ st.state \in OutputStates /\ st.reason \in Reasons /\ st.format \in Formats
      /\ st.exact \in BOOLEAN /\ st.observed \in Nat /\ o.observed \in Nat
  BY DEF StatusType, Output
<1>2. /\ Rank[st.state] >= Rank["DISCARDED"] <=> st.state \in {"DISCARDED", "INVALID"}
      /\ Rank[st.state] < Rank["DISCARDED"] <=> st.state \notin {"DISCARDED", "INVALID"}
  BY <1>1, RankFacts
<1>3. PICK w : w = IF o.state # "INVALID" /\ Rank[st.state] >= Rank["DISCARDED"]
                   THEN [Discard(o, st.reason) EXCEPT !.state = st.state]
                   ELSE IF o.state = "COMPLETE" /\ st.state = "TRUNCATED"
                   THEN [o EXCEPT !.state = "TRUNCATED", !.reason = st.reason]
                   ELSE o
  BY Zenon
<1>4. PICK counts \in BOOLEAN : counts <=> st.exact /\ st.observed >= o.observed
  BY Zenon
<1>5. PICK seen \in Nat : seen = IF counts THEN st.observed ELSE o.observed
  BY <1>1
<1>6. r = [w EXCEPT !.format = st.format, !.exact = counts, !.observed = seen]
  <2>1. counts = (st.exact /\ st.observed >= o.observed)
    BY <1>1, <1>4, Zenon
  <2>2. ~(\/ o.format # "NONE" /\ o.format # st.format
          \/ o.state = "MISSING" /\ Rank[st.state] < Rank["DISCARDED"]
          \/ st.state = "COMPLETE" /\ st.reason # "NONE"
          \/ st.state = "TRUNCATED"
             /\ (st.format # "TEXT" \/ st.reason # "BYTE_LIMIT")
          \/ Rank[st.state] >= Rank["DISCARDED"] /\ st.reason = "NONE")
    BY <1>2, Zenon DEF Explained
  <2> QED BY <1>3, <1>5, <2>1, <2>2, Zenon DEF ApplyPeerStatus
<1>7. CASE st.state \in {"DISCARDED", "INVALID"}
  <2>1. w = [Discard(o, st.reason) EXCEPT !.state = st.state]
    BY <1>2, <1>3, <1>7
  <2>2. w \in Output /\ w.state = st.state /\ w.value = <<>> /\ ~w.hasValue
    BY <1>1, <2>1, SizeOfEmpty, Zenon DEF Discard, Output
  <2>3. /\ r \in Output /\ r.state = st.state /\ r.value = <<>> /\ ~r.hasValue
        /\ (r.exact <=> counts) /\ r.observed = seen
    BY <1>1, <1>6, <2>2, Zenon DEF Output
  <2> QED BY <1>4, <1>5, <1>7, <2>3
<1>8. CASE st.state \notin {"DISCARDED", "INVALID"} /\ o.state = "COMPLETE" /\ st.state = "TRUNCATED"
  <2>1. w = [o EXCEPT !.state = "TRUNCATED", !.reason = st.reason]
    BY <1>2, <1>3, <1>8
  <2>2. w \in Output /\ w.state = "TRUNCATED" /\ w.value = o.value /\ w.hasValue
    BY <1>1, <1>8, <2>1, Zenon DEF Output, OutputStates
  <2>3. /\ r \in Output /\ r.state = "TRUNCATED" /\ r.value = o.value /\ r.hasValue
        /\ (r.exact <=> counts) /\ r.observed = seen
    BY <1>1, <1>6, <2>2, Zenon DEF Output
  <2> QED BY <1>4, <1>5, <1>8, <2>3
<1>9. CASE st.state \notin {"DISCARDED", "INVALID"} /\ ~(o.state = "COMPLETE" /\ st.state = "TRUNCATED")
  <2>1. w = o
    BY <1>2, <1>3, <1>9, Zenon
  <2>2. st.state \in {"COMPLETE", "TRUNCATED"}
    BY <1>1, <1>9 DEF OutputStates
  <2>3. /\ r \in Output /\ r.state = o.state /\ r.value = o.value /\ (r.hasValue <=> o.hasValue)
        /\ (r.exact <=> counts) /\ r.observed = seen
    BY <1>1, <1>6, <2>1, Zenon DEF Output
  <2> QED BY <1>4, <1>5, <1>9, <2>2, <2>3
<1> QED BY <1>7, <1>8, <1>9

\* The end of a frame: what the client then says of the server's output is true.
LEMMA FrameReadHonest ==
    ASSUME mode \in Modes, NEW o, NEW f, NEW p, Units(p), Framed(f, p),
           Held(o, mode.cLimit), Scanned(o, f, Len(f.units)),
           NEW r, r = IF f.status = <<>> THEN o ELSE ApplyPeerStatus(o, f.status[1])
    PROVE  Held(r, mode.cLimit) /\ Honest(r, f, p)
<1>0. mode.cLimit \in Nat /\ mode.budget \in BOOLEAN
  BY ModeFacts, Zenon
<1>1. PICK s : s = f.units /\ s \in Seq(Int)
  BY Zenon DEF Framed, Units
<1>2. SubSeq(s, 1, Len(s)) = s
  <2>1. Len(s) \in 0..Len(s)
    BY <1>1, LenProperties
  <2>2. PICK t : t = SubSeq(s, 1, Len(s))
    BY Zenon
  <2>3. t \in Seq(Int) /\ Len(t) = Len(s) /\ \A i \in 1..Len(s) : t[i] = s[i]
    BY <1>1, <2>1, <2>2, SizeOfPrefix, Zenon
  <2> QED BY <1>1, <2>2, <2>3, SeqEqual, Zenon
<1>3. /\ o \in Output /\ (o.hasValue <=> o.state \in {"COMPLETE", "TRUNCATED"})
      /\ (~o.hasValue => o.value = <<>>) /\ Positive(o.value) /\ Size(o.value) <= mode.cLimit
      /\ o.value \in Seq(Int) /\ Len(o.value) \in Nat
  BY LenProperties, Zenon DEF Held, Output
<1>4. ASSUME f.hasValue
      PROVE  /\ o.format = Expected /\ o.exact /\ o.observed = Size(s) /\ o.state # "MISSING"
             /\ o.state = "COMPLETE" => o.value = s
             /\ o.state = "TRUNCATED" => ~mode.json /\ Prefix(o.value, s) /\ Len(o.value) < Len(s)
             /\ o.state = "INVALID" => ~Positive(s)
  BY <1>1, <1>2, <1>4, SMTT(30) DEF Scanned, Framed, Size, Positive
<1>5. CASE ~mode.budget
  <2>1. f.status = <<>> /\ f.hasValue /\ s = WholeOf(p)
    BY <1>1, <1>5, SMTT(30) DEF Framed
  <2> QED BY <1>4, <1>5, <2>1, Zenon DEF Honest, Partial
<1>6. CASE mode.budget
  <2>1. PICK st : st = f.status[1] /\ Told(st, f, p) /\ f.status # <<>>
    BY <1>6, Zenon DEF Framed
  <2>2. r = ApplyPeerStatus(o, st)
    BY <2>1, SMTT(30)
  <2>3. st \in StatusType /\ Explained(st.state, st.reason) /\ st.state # "MISSING"
        /\ st.format = Expected /\ (f.hasValue <=> st.state \in {"COMPLETE", "TRUNCATED"})
        /\ Positive(s) /\ (st.exact => st.observed = Size(WholeOf(p)))
        /\ (st.state = "COMPLETE" => s = WholeOf(p))
        /\ (st.state = "TRUNCATED" => ~mode.json /\ Prefix(s, p) /\ Len(s) < Len(p))
    BY <1>1, <2>1, Zenon DEF Told
  <2>4. /\ o.format = "NONE" \/ o.format = st.format
        /\ o.state # "INVALID"
        /\ o.state = "MISSING" => st.state \in {"DISCARDED", "INVALID"}
    <3>1. CASE f.hasValue
      BY <1>4, <2>3, <3>1, Zenon
    <3>2. CASE ~f.hasValue
      <4>1. o = Cleared
        BY <3>2, Zenon DEF Scanned
      <4>2. st.state \in {"DISCARDED", "INVALID"}
        BY <2>3, <3>2, Zenon DEF StatusType, OutputStates
      <4> QED BY <4>1, <4>2, ClearedFacts, Zenon
    <3> QED BY <3>1, <3>2, SMTT(30)
  <2>5. st.state = "TRUNCATED" => st.format = "TEXT"
    BY <2>3, SMTT(30) DEF Expected
  <2>6. /\ r \in Output
        /\ r.hasValue <=> r.state \in {"COMPLETE", "TRUNCATED"}
        /\ ~r.hasValue => r.value = <<>>
        /\ r.value = <<>> \/ r.value = o.value
        /\ r.exact => st.exact /\ r.observed = st.observed
        /\ r.state = "INVALID" => st.state = "INVALID"
        /\ r.state \in {"COMPLETE", "TRUNCATED"} =>
             /\ st.state \in {"COMPLETE", "TRUNCATED"} /\ r.value = o.value
             /\ r.state = "COMPLETE" => o.state = "COMPLETE" /\ st.state = "COMPLETE"
             /\ r.state = "TRUNCATED" =>
                   o.state = "TRUNCATED" \/ (o.state = "COMPLETE" /\ st.state = "TRUNCATED")
    BY <1>3, <2>2, <2>3, <2>4, <2>5, PeerStatusApplied, ZenonT(30)
  <2>7. Held(r, mode.cLimit)
    BY <1>0, <1>3, <2>6, SizeOfEmpty, SMTT(30) DEF Held, Positive
  <2>8. r.state = "COMPLETE" => r.value = WholeOf(p)
    BY <1>4, <2>3, <2>6, ZenonT(30)
  <2>9. r.state = "TRUNCATED" =>
          ~mode.json /\ Prefix(r.value, WholeOf(p)) /\ Len(r.value) < Len(WholeOf(p))
    <3> SUFFICES ASSUME r.state = "TRUNCATED"
                 PROVE  ~mode.json /\ Prefix(r.value, WholeOf(p)) /\ Len(r.value) < Len(WholeOf(p))
      BY ZenonT(30)
    <3>1. /\ f.hasValue /\ r.value = o.value
          /\ o.state = "TRUNCATED" \/ (o.state = "COMPLETE" /\ st.state = "TRUNCATED")
          /\ st.state \in {"COMPLETE", "TRUNCATED"}
      BY <2>3, <2>6, Zenon
    <3>2. ~mode.json /\ WholeOf(p) = p
      BY <1>4, <2>3, <3>1, Zenon DEF WholeOf
    <3>3. Len(s) \in Nat /\ Len(p) \in Nat
      BY <1>1, LenProperties, SMTT(30) DEF Units
    <3>4. CASE o.state = "COMPLETE"
      BY <1>4, <2>3, <3>1, <3>2, <3>4, ZenonT(30)
    <3>5. CASE o.state = "TRUNCATED" /\ st.state = "COMPLETE"
      BY <1>4, <2>3, <3>1, <3>2, <3>5, Zenon
    <3>6. CASE o.state = "TRUNCATED" /\ st.state = "TRUNCATED"
      <4>1. Prefix(o.value, s) /\ Len(o.value) < Len(s) /\ Prefix(s, p) /\ Len(s) < Len(p)
        BY <1>4, <2>3, <3>1, <3>6, Zenon
      <4> QED BY <1>3, <3>1, <3>2, <3>3, <4>1, SMTT(30) DEF Prefix
    <3> QED BY <3>1, <3>4, <3>5, <3>6, ZenonT(30)
  <2> QED BY <2>1, <2>3, <2>6, <2>7, <2>8, <2>9, ZenonT(30) DEF Honest, Partial
<1> QED BY <1>0, <1>5, <1>6, Zenon

-----------------------------------------------------------------------------
(* The server's steps *)

\* The next state's claims, from claims about its values.
LEMMA CollectedNext ==
    ASSUME mode' = mode, Collected(out', produced')
    PROVE  Collected(out, produced)'
BY Zenon DEF Collected, Partial, Expected

\* The same of the frame.
LEMMA FramedNext ==
    ASSUME mode' = mode, Framed(frame', produced')
    PROVE  Framed(frame, produced)'
BY DEF Framed, Told, WholeOf, Expected

\* A server step does not disturb the reader: before the frame is made the reader has
\* nothing, and afterwards frame and output do not change.
LEMMA ReaderKept ==
    ASSUME Inv, UNCHANGED <<mode, client>>, rd = 0 \/ UNCHANGED <<frame, produced>>
    PROVE  Reader'
<1>1. UNCHANGED <<mode, rpc, rd, buf, rcv, values, left, stop, ndelay, result, captured>>
  BY SMTT(30) DEF client
<1>2. CASE rd = 0
  <2>1. ~(rd > 0) /\ result # "ok"
    BY <1>2, SMTT(30) DEF Inv, Reader
  <2> QED BY <1>1, <2>1, <1>2, Zenon DEF Inv, Reader, Held
<1>3. CASE UNCHANGED <<frame, produced>>
  BY <1>1, <1>3, Zenon DEF Inv, Reader, Held, Scanned, Honest, Partial, WholeOf
<1> QED BY <1>2, <1>3

\* More output is still a sequence of units.
LEMMA UnitsConcat ==
    ASSUME NEW a, NEW b, Units(a), Units(b) PROVE Units(a \o b)
<1>1. a \in Seq(Int) /\ b \in Seq(Int)
  BY DEF Units
<1>2. PICK c : c = a \o b
  BY Zenon
<1>3. c \in Seq(Int)
  BY <1>1, <1>2, SizeOfConcat
<1>4. /\ Len(c) = Len(a) + Len(b)
      /\ \A i \in 1..Len(a) : c[i] = a[i]
      /\ \A i \in 1..Len(b) : c[Len(a) + i] = b[i]
  BY <1>1, <1>2, ConcatParts
<1>5. Len(a) \in Nat /\ Len(b) \in Nat
  BY <1>1, LenProperties
<1>6. ASSUME NEW i \in 1..Len(c) PROVE c[i] >= Nul
  <2>1. CASE i \in 1..Len(a)
    <3>1. c[i] = a[i]
      BY <1>4, <2>1, Zenon
    <3> QED BY <2>1, <3>1 DEF Units
  <2>2. CASE i \notin 1..Len(a)
    <3>1. PICK j \in 1..Len(b) : i = Len(a) + j
      <4>1. i - Len(a) \in 1..Len(b) /\ i = Len(a) + (i - Len(a))
        BY <1>4, <1>5, <2>2
      <4> QED BY <4>1, Zenon
    <3> QED BY <1>4, <3>1, Zenon DEF Units
  <2> QED BY <2>1, <2>2
<1> QED BY <1>2, <1>3, <1>6 DEF Units

\* What one call puts out is a sequence of units.
LEMMA LineFacts ==
    ASSUME NEW line, line \in IF mode.json THEN {<<i>> : i \in Intervals} ELSE Lines
    PROVE  /\ Units(line)
           /\ mode.json => line[1] \in Nat \ {0} /\ line = <<line[1]>>
<1>1. CASE mode.json
  <2>1. PICK i \in Intervals : line = <<i>>
    BY <1>1
  <2>2. i \in Nat \ {0}
    BY <2>1, ServerOutputConstants
  <2>3. line \in Seq(Int) /\ Len(line) = 1 /\ line[1] = i
    BY <2>1, <2>2
  <2>4. \A j \in 1..Len(line) : line[j] >= Nul
    BY <2>2, <2>3 DEF Nul
  <2> QED BY <2>1, <2>2, <2>3, <2>4 DEF Units
<1>2. CASE ~mode.json
  <2>1. line \in Seq(Nat \cup {Nul})
    BY <1>2, ServerOutputConstants
  <2>2. \A j \in 1..Len(line) : line[j] \in Nat \cup {Nul}
    BY <2>1, ElementOfSeq
  <2>3. line \in Seq(Int)
    <3>1. Nat \cup {Nul} \subseteq Int
      BY DEF Nul
    <3> QED BY <2>1, <3>1
  <2>4. \A j \in 1..Len(line) : line[j] >= Nul
    BY <2>2 DEF Nul
  <2> QED BY <1>2, <2>3, <2>4 DEF Units
<1> QED BY <1>1, <1>2

\* A line or an interval is put out and offered to the collector.
LEMMA ProduceStep == ASSUME Inv, Produce PROVE Inv'
<1>1. /\ spc # "over" /\ lines' = lines + 1
      /\ UNCHANGED <<mode, finalized, spc, local, frame, sent, closed>> /\ UNCHANGED client
  BY DEF Produce
<1>2. UNCHANGED <<rpc, rd, buf, rcv, values, left, stop, ndelay, result, captured>>
  BY <1>1, Zenon DEF client
<1>3. PICK line \in IF mode.json THEN {<<i>> : i \in Intervals} ELSE Lines :
        /\ produced' = IF finalized THEN produced ELSE produced \o line
        /\ IF ~Collects THEN UNCHANGED <<out, nodes>>
           ELSE \E allocates \in BOOLEAN :
              LET begun == Begin(out, IF mode.json THEN "JSON" ELSE "TEXT", allocates)
              IN /\ out' = IF mode.json THEN CollectInterval(begun, line[1], allocates)
                           ELSE AppendFormat(begun, line)
                 /\ nodes' = IF mode.json /\ out'.state = "COMPLETE"
                             THEN nodes + 1 ELSE nodes
  BY DEF Produce
<1>4. Units(line) /\ (mode.json => line[1] \in Nat \ {0} /\ line = <<line[1]>>)
  BY <1>3, LineFacts, Zenon
<1>5. /\ mode \in Modes /\ Units(produced) /\ (mode.json => Positive(produced)) /\ lines \in Nat
      /\ nodes \in Nat /\ mode.json \in BOOLEAN /\ finalized \in BOOLEAN
      /\ (finalized <=> spc = "sending") /\ spc \in {"running", "sending", "over"}
  BY ModeFacts, Zenon DEF Inv, ServerTypes, Collector
<1>6. ClientTypes'
  BY <1>1, <1>2, Zenon DEF Inv, ClientTypes
<1>7. CASE finalized
  <2>1. UNCHANGED <<produced, out, nodes>>
    BY <1>3, <1>7, Zenon DEF Collects
  <2>2. ServerTypes'
    <3>1. lines' \in Nat
      <4>1. lines' = lines + 1
        BY <1>1, Zenon
      <4> QED BY <1>5, <4>1
    <3> QED BY <1>1, <1>5, <2>1, <3>1, ZenonT(30) DEF Inv, ServerTypes, Total
  <2>3. Collector'
    BY <1>1, <2>1, SMTT(30) DEF Inv, Collector, Held, Collected, Bracketed, Partial, Expected
  <2>4. Frame'
    BY <1>1, <2>1, ZenonT(30) DEF Inv, Frame, Framed, Told, WholeOf, Expected
  <2>5. Reader'
    BY <1>1, <2>1, ReaderKept, Zenon
  <2> QED BY <1>6, <2>2, <2>3, <2>4, <2>5, Zenon DEF Inv
<1>8. CASE ~finalized
  <2>1. spc = "running" /\ frame = NoFrame /\ sent = 0 /\ rd = 0 /\ local # "COMPLETE"
    BY <1>1, <1>5, <1>8, SMTT(30) DEF Inv, Frame, ClientTypes
  <2>2. produced' = produced \o line
    BY <1>3, <1>8
  <2>3. Reader'
    BY <1>1, <2>1, ReaderKept, Zenon
  <2>4. Frame'
    BY <1>1, <2>1 DEF Frame
  <2>5. Units(produced')
    BY <1>4, <1>5, <2>2, UnitsConcat, Zenon
  <2>6. /\ Held(out, mode.sLimit) /\ Bracketed(out)
        /\ ~(mode.budget /\ mode.requested) => out = Cleared
        /\ mode.budget /\ mode.requested => Collected(out, produced)
    BY <1>8, <2>1 DEF Inv, Collector
  <2>7. CASE ~(mode.budget /\ mode.requested)
    <3>1. UNCHANGED <<out, nodes>>
      BY <1>3, <2>7 DEF Collects
    <3>2. mode.json => Positive(produced')
      <4> SUFFICES ASSUME mode.json PROVE Positive(produced')
        OBVIOUS
      <4>1. PICK size \in Nat \ {0} : produced' = produced \o <<size>>
        BY <1>4, <2>2, ZenonT(30)
      <4> QED BY <1>5, <4>1, PositiveConcat, Zenon DEF Units
    <3>3. ServerTypes'
      BY <1>1, <1>5, <2>1, <2>5, <3>1, <3>2 DEF Inv, ServerTypes, Total
    <3>4. Collector'
      BY <1>1, <1>8, <2>6, <2>7, <3>1, Zenon DEF Inv, Collector, Held, Bracketed
    <3> QED BY <1>6, <2>3, <2>4, <3>3, <3>4, Zenon DEF Inv
  <2>8. CASE mode.budget /\ mode.requested
    <3>1. PICK a \in BOOLEAN :
             LET begun == Begin(out, IF mode.json THEN "JSON" ELSE "TEXT", a)
             IN /\ out' = IF mode.json THEN CollectInterval(begun, line[1], a)
                          ELSE AppendFormat(begun, line)
                /\ nodes' = IF mode.json /\ out'.state = "COMPLETE"
                            THEN nodes + 1 ELSE nodes
      BY <1>3, <1>8, <2>8 DEF Collects
    <3>2. PICK b : b = Begin(out, Expected, a)
      BY Zenon
    <3>3. /\ out' = IF mode.json THEN CollectInterval(b, line[1], a) ELSE AppendFormat(b, line)
          /\ nodes' \in Nat
      BY <1>5, <3>1, <3>2, SMTT(30) DEF Expected
    <3>4. Held(b, mode.sLimit) /\ Collected(b, produced) /\ Bracketed(b) /\ b.state # "MISSING"
      BY <1>5, <2>6, <2>8, <3>2, BeginCollects, Zenon DEF Units
    <3>5. /\ Held(out', mode.sLimit) /\ Collected(out', produced') /\ Bracketed(out')
          /\ mode.json => Positive(produced')
      <4>1. CASE mode.json
        BY <1>4, <1>5, <2>2, <3>3, <3>4, <4>1, IntervalCollects, Zenon DEF Units
      <4>2. CASE ~mode.json
        <5>1. Held(out', mode.sLimit) /\ Collected(out', produced')
          BY <1>4, <1>5, <2>2, <3>3, <3>4, <4>2, AppendCollects, Zenon DEF Units
        <5> QED BY <4>2, <5>1 DEF Bracketed
      <4> QED BY <4>1, <4>2, Zenon
    <3>6. ServerTypes'
      BY <1>1, <1>5, <2>1, <2>5, <3>3, <3>5, SMTT(30) DEF Inv, ServerTypes, Total
    <3>7. Collected(out, produced)'
      BY <1>1, <3>5, CollectedNext, Zenon
    <3>8. Bracketed(out)' /\ Held(out, mode.sLimit)'
      BY <1>1, <3>5, Zenon DEF Bracketed, Held
    <3>9. Collector'
      BY <1>1, <1>8, <2>1, <2>8, <3>7, <3>8 DEF Inv, Collector
    <3> QED BY <1>6, <2>3, <2>4, <3>6, <3>9, Zenon DEF Inv
  <2> QED BY <2>7, <2>8, Zenon
<1> QED BY <1>5, <1>7, <1>8, Zenon

\* The results are put together: the collector is closed and the frame made of it.
LEMMA AddServerResultsStep == ASSUME Inv, AddServerResults PROVE Inv'
<1>1. /\ spc = "running" /\ spc' = "sending" /\ finalized'
      /\ UNCHANGED <<mode, produced, lines, nodes, local, sent, closed>> /\ UNCHANGED client
  BY Zenon DEF AddServerResults
<1>2. UNCHANGED <<rpc, rd, buf, rcv, values, left, stop, ndelay, result, captured>>
  BY <1>1, Zenon DEF client
<1>3. /\ mode \in Modes /\ Units(produced) /\ (mode.json => Positive(produced))
      /\ mode.json \in BOOLEAN /\ mode.budget \in BOOLEAN /\ mode.requested \in BOOLEAN
      /\ mode.sLimit \in Nat /\ ~finalized
      /\ frame = NoFrame /\ sent = 0 /\ rd = 0 /\ local # "COMPLETE"
  BY <1>1, ModeFacts, SMTT(30) DEF Inv, ServerTypes, ClientTypes, Collector, Frame
<1>4. ClientTypes' /\ Reader'
  BY <1>1, <1>2, <1>3, ReaderKept, Zenon DEF Inv, ClientTypes
<1>5. /\ Held(out, mode.sLimit) /\ Bracketed(out)
      /\ ~(mode.budget /\ mode.requested) => out = Cleared
      /\ mode.budget /\ mode.requested => Collected(out, produced)
  BY <1>1, <1>3, SMTT(30) DEF Inv, Collector
<1>6. finalized' \in BOOLEAN /\ finalized' = TRUE
  BY Zenon DEF AddServerResults
<1>7. CASE mode.budget /\ mode.requested
  <2>1. PICK a \in BOOLEAN :
           LET begun == Begin(out, IF mode.json THEN "JSON" ELSE "TEXT", a)
               final == IF mode.json THEN FinalizeJson(begun, a) ELSE begun
           IN /\ out' = final
              /\ frame' = [format |-> final.format, hasValue |-> final.hasValue,
                           units |-> final.value,
                           status |-> <<[state |-> final.state, format |-> final.format,
                                         reason |-> final.reason, exact |-> final.exact,
                                         observed |-> final.observed]>>]
    BY <1>7, Zenon DEF AddServerResults
  <2>2. PICK b : b = Begin(out, Expected, a)
    OBVIOUS
  <2>3. PICK r : r = IF mode.json THEN FinalizeJson(b, a) ELSE b
    OBVIOUS
  <2>4. PICK st : st = [state |-> r.state, format |-> r.format, reason |-> r.reason,
                        exact |-> r.exact, observed |-> r.observed]
    BY Zenon
  <2>5. PICK f : f = [format |-> r.format, hasValue |-> r.hasValue, units |-> r.value,
                      status |-> <<st>>]
    BY Zenon
  <2>6. out' = r /\ frame' = f
    BY <2>1, <2>2, <2>3, <2>4, <2>5, Zenon DEF Expected
  <2>7. Held(b, mode.sLimit) /\ Collected(b, produced) /\ b.state # "MISSING"
    BY <1>3, <1>5, <1>7, <2>2, BeginCollects, Zenon DEF Units
  <2>8. Held(r, mode.sLimit) /\ Framed(f, produced) /\ f.status[1].state = r.state
    <3>1. /\ mode \in Modes /\ mode.budget /\ mode.requested /\ Units(produced)
          /\ mode.json => Positive(produced)
      BY <1>3, <1>7, Zenon
    <3> QED BY <2>3, <2>4, <2>5, <2>7, <3>1, PackagedIsTold, ZenonT(30)
  <2>9. Framed(frame, produced)'
    BY <1>1, <2>6, <2>8, FramedNext, SMTT(30)
  <2>10. Len(f.units) \in Nat
    BY <2>8, LenProperties, Zenon DEF Framed, Units
  <2>11. ServerTypes'
    BY <1>1, <1>3, <1>6, <2>6, <2>10, SMTT(30) DEF Inv, ServerTypes, Total
  <2>12. Frame'
    BY <1>1, <1>3, <2>6, <2>8, <2>9, Zenon DEF Frame
  <2>13. Collector'
    BY <1>1, <1>6, <1>7, <2>6, <2>8 DEF Collector, Held
  <2> QED BY <1>4, <2>11, <2>12, <2>13, SMTT(30) DEF Inv
<1>8. CASE ~(mode.budget /\ mode.requested)
  <2>1. /\ out' = out
        /\ frame' = IF mode.requested
                    THEN [format |-> IF mode.json THEN "JSON" ELSE "TEXT",
                          hasValue |-> TRUE, units |-> Whole, status |-> <<>>]
                    ELSE frame
    BY <1>8, ZenonT(30) DEF AddServerResults
  <2>2. Collector'
    BY <1>1, <1>5, <1>6, <1>8, <2>1, Zenon DEF Collector, Held
  <2>3. CASE mode.requested
    <3>1. PICK w : w = WholeOf(produced)
      OBVIOUS
    <3>2. PICK f : f = [format |-> Expected, hasValue |-> TRUE, units |-> w, status |-> <<>>]
      BY Zenon
    <3>3. frame' = f
      BY <2>1, <2>3, <3>1, <3>2 DEF Expected, Whole, WholeOf
    <3>4. Units(w)
      <4>1. CASE mode.json
        <5>1. PICK d : d = Document(produced)
          OBVIOUS
        <5>2. d \in Seq(Int) /\ Positive(d)
          BY <1>3, <4>1, <5>1, DocumentFacts DEF Units
        <5>3. \A i \in 1..Len(d) : d[i] \in Int /\ d[i] > 0
          BY <5>2, ElementOfSeq DEF Positive
        <5> QED BY <3>1, <4>1, <5>1, <5>2, <5>3 DEF Units, WholeOf, Nul
      <4>2. CASE ~mode.json
        BY <1>3, <3>1, <4>2, Zenon DEF WholeOf
      <4> QED BY <4>1, <4>2
    <3>5. Framed(f, produced)
      BY <1>3, <1>8, <2>3, <3>1, <3>2, <3>4 DEF Framed
    <3>6. Framed(frame, produced)'
      BY <1>1, <3>3, <3>5, FramedNext, Zenon
    <3>7. Len(f.units) \in Nat
      BY <3>5, LenProperties, Zenon DEF Framed, Units
    <3>8. ServerTypes'
      BY <1>1, <1>3, <1>6, <3>3, <3>7, SMTT(30) DEF Inv, ServerTypes, Total
    <3>9. Frame'
      BY <1>1, <1>3, <1>8, <3>6, Zenon DEF Frame
    <3> QED BY <1>4, <2>2, <3>8, <3>9 DEF Inv
  <2>4. CASE ~mode.requested
    <3>1. frame' = frame
      BY <2>1, <2>4
    <3>2. ServerTypes'
      BY <1>1, <1>3, <1>6, <3>1, Zenon DEF Inv, ServerTypes, Total
    <3>3. Frame'
      BY <1>1, <1>3, <2>4, <3>1 DEF Frame
    <3> QED BY <1>4, <2>2, <3>2, <3>3 DEF Inv
  <2> QED BY <2>3, <2>4, SMTT(30)
<1> QED BY <1>7, <1>8, SMTT(30)

\* The steps of the server that leave output and frame alone.
LEMMA ServerQuietStep == ASSUME Inv, SendChunk \/ ServerOver \/ CaptureLocal PROVE Inv'
<1>1. UNCHANGED <<mode, produced, frame>> /\ UNCHANGED client
  BY DEF SendChunk, ServerOver, CaptureLocal
<1>2. UNCHANGED <<rpc, rd, buf, rcv, values, left, stop, ndelay, result, captured>>
  BY <1>1 DEF client
<1>3. Reader'
  BY <1>1, ReaderKept
<1>4. Len(frame.units) \in Nat
  <2>1. CASE frame = NoFrame
    BY <2>1 DEF NoFrame
  <2>2. CASE Framed(frame, produced)
    BY <2>2, LenProperties DEF Framed, Units
  <2> QED BY <2>1, <2>2 DEF Inv, Frame
<1>5. mode \in Modes /\ mode.sLimit \in Nat
  BY ModeFacts DEF Inv, ServerTypes
<1>6. CASE SendChunk
  <2>1. /\ spc = "sending" /\ sent < Total /\ sent' = sent + 1
        /\ UNCHANGED <<lines, out, nodes, finalized, spc, local, closed>>
    BY <1>6, Zenon DEF SendChunk
  <2>2. ServerTypes' /\ ClientTypes'
    BY <1>1, <1>2, <1>4, <2>1, SMTT(30) DEF Inv, ServerTypes, ClientTypes, Total
  <2>3. Collector'
    BY <1>1, <2>1, Zenon DEF Inv, Collector, Held, Collected, Bracketed, Partial, Expected
  <2>4. Frame'
    BY <1>1, <2>1, Zenon DEF Inv, Frame, Framed, Told, WholeOf, Expected
  <2> QED BY <1>3, <2>2, <2>3, <2>4 DEF Inv
<1>7. CASE ServerOver
  <2>1. /\ spc' = "over" /\ closed' = TRUE /\ out' = Cleared /\ nodes' = 0 /\ finalized' = FALSE
        /\ UNCHANGED <<lines, local, sent>>
    BY <1>7 DEF ServerOver
  <2>2. ServerTypes' /\ ClientTypes'
    BY <1>1, <1>2, <1>4, <2>1, Zenon DEF Inv, ServerTypes, ClientTypes, Total
  <2>3. Held(Cleared, mode.sLimit) /\ Cleared.value = <<>>
    BY <1>5, ClearedFacts, Zenon
  <2>4. Collector'
    BY <1>1, <2>1, <2>3 DEF Collector, Held, Bracketed
  <2>5. Frame'
    BY <1>1, <2>1, Zenon DEF Inv, Frame, Framed, Told, WholeOf, Expected
  <2> QED BY <1>3, <2>2, <2>4, <2>5 DEF Inv
<1>8. CASE CaptureLocal
  <2>1. /\ mode.budget
        /\ local' = IF ~mode.requested \/ spc = "over" THEN "notRequested"
                    ELSE IF out.state \in {"MISSING", "COMPLETE"} /\ ~finalized
                    THEN "waiting" ELSE out.state
        /\ UNCHANGED <<lines, out, nodes, finalized, spc, sent, closed>>
    BY <1>8 DEF CaptureLocal
  <2>2. out.state \in OutputStates
    BY Zenon DEF Inv, Collector, Held, Output
  <2>3. ServerTypes' /\ ClientTypes'
    BY <1>1, <1>2, <1>4, <2>1, <2>2, SMTT(30) DEF Inv, ServerTypes, ClientTypes, Total
  <2>4. Collector'
    BY <1>1, <2>1, ZenonT(30) DEF Inv, Collector, Held, Collected, Bracketed, Partial, Expected
  <2>5. local' = "COMPLETE" => spc # "running" /\ frame.hasValue /\ frame.units = WholeOf(produced)
    <3> SUFFICES ASSUME local' = "COMPLETE"
                 PROVE  spc # "running" /\ frame.hasValue /\ frame.units = WholeOf(produced)
      OBVIOUS
    <3>1. mode.requested /\ out.state = "COMPLETE" /\ finalized
      BY <2>1
    <3>2. spc = "sending"
      BY <3>1, Zenon DEF Inv, Collector
    <3>3. Framed(frame, produced) /\ frame.status[1].state = "COMPLETE"
      BY <2>1, <3>1, <3>2, Zenon DEF Inv, Frame
    <3>4. Told(frame.status[1], frame, produced)
      BY <2>1, <3>3, SMTT(30) DEF Framed
    <3> QED BY <3>2, <3>3, <3>4 DEF Told
  <2>6. Frame'
    BY <1>1, <2>1, <2>5, Zenon DEF Inv, Frame, Framed, Told, WholeOf, Expected
  <2> QED BY <1>3, <2>3, <2>4, <2>6, SMTT(30) DEF Inv
<1> QED BY <1>6, <1>7, <1>8

-----------------------------------------------------------------------------
(* The client's steps *)

\* A step of the client leaves the server as it is.
LEMMA ServerKept ==
    ASSUME Inv, UNCHANGED <<mode, server>>
    PROVE  /\ ServerTypes' /\ Collector' /\ Frame'
           /\ UNCHANGED <<mode, produced, frame, sent, closed>>
<1>1. UNCHANGED <<mode, out, nodes, finalized, spc, local, frame, sent, closed, produced, lines>>
  BY DEF server
<1>2. ServerTypes'
  BY <1>1, SMTT(30) DEF Inv, ServerTypes, Total
<1>3. Collector'
  BY <1>1, ZenonT(30) DEF Inv, Collector, Held, Collected, Bracketed, Partial, Expected
<1>4. Frame'
  BY <1>1, ZenonT(30) DEF Inv, Frame, Framed, Told, WholeOf, Expected
<1> QED BY <1>1, <1>2, <1>3, <1>4

\* The frame that is read: nothing was asked for, or the server framed its output.
LEMMA FrameFacts ==
    ASSUME Inv
    PROVE  /\ Units(frame.units) /\ Len(frame.units) \in Nat
           /\ frame = NoFrame \/ Framed(frame, produced)
           /\ rd > 0 /\ mode.requested => Framed(frame, produced)
           /\ frame.hasValue => Framed(frame, produced) /\ frame.format = Expected
           /\ ~frame.hasValue => frame.units = <<>>
           /\ mode.json => Positive(frame.units)
<1>1. frame = NoFrame \/ Framed(frame, produced)
  BY DEF Inv, Frame
<1>2. rd > 0 /\ mode.requested => Framed(frame, produced)
  <2>1. rd > 0 => sent > 0
    BY SMTT(30) DEF Inv, ServerTypes, ClientTypes, Total
  <2> QED BY <2>1 DEF Inv, Frame
<1>3. CASE frame = NoFrame
  <2>1. ~frame.hasValue /\ frame.units = <<>>
    BY <1>3 DEF NoFrame
  <2>2. Units(frame.units) /\ Len(frame.units) \in Nat /\ Positive(frame.units)
    BY <2>1, SizeOfEmpty, SMTT(30) DEF Units, Positive
  <2> QED BY <1>1, <1>2, <2>1, <2>2
<1>4. CASE Framed(frame, produced)
  <2>1. Units(frame.units) /\ Len(frame.units) \in Nat /\ frame.format = Expected
    BY <1>4, LenProperties, Zenon DEF Framed, Units
  <2>2. ~frame.hasValue => frame.units = <<>>
    BY <1>4 DEF Framed, Told
  <2>3. mode.json => Positive(frame.units)
    <3>1. CASE mode.budget
      BY <1>4, <3>1, Zenon DEF Framed, Told
    <3>2. CASE ~mode.budget
      BY <1>4, <3>2, DocumentFacts DEF Framed, WholeOf, Inv, ServerTypes, Units
    <3> QED BY <3>1, <3>2, Zenon
  <2> QED BY <1>1, <1>2, <1>4, <2>1, <2>2, <2>3, Zenon
<1> QED BY <1>1, <1>3, <1>4, Zenon

\* What a read without a tree leaves.
LEMMA NoOutputFacts ==
    ASSUME NEW reason \in Reasons, NEW limit \in Nat, NEW r, r = NoOutput(reason)
    PROVE  /\ Held(r, limit) /\ ~r.exact
           /\ r.state = IF mode.requested THEN "INVALID" ELSE "MISSING"
<1>1. CASE mode.requested
  <2>1. r = [Cleared EXCEPT !.state = "INVALID", !.reason = reason]
    BY <1>1 DEF NoOutput
  <2>2. r \in Output /\ r.state = "INVALID" /\ ~r.exact /\ ~r.hasValue /\ r.value = <<>>
    <3>1. /\ Cleared \in Output /\ ~Cleared.exact /\ ~Cleared.hasValue /\ Cleared.value = <<>>
      BY ClearedFacts
    <3> QED BY <2>1, <3>1, Zenon DEF Output, OutputStates
  <2> QED BY <1>1, <2>2, SizeOfEmpty DEF Held, Positive
<1>2. CASE ~mode.requested
  BY <1>2, ClearedFacts DEF NoOutput
<1> QED BY <1>1, <1>2, Zenon

\* The reader's part of the invariant after a read that failed.
LEMMA FailedStep ==
    ASSUME Inv, rpc # "done", NEW reason \in Reasons, Failed(reason)
    PROVE  Inv'
<1>1. UNCHANGED <<mode, server>> /\ UNCHANGED <<rd, buf, values, left, stop, captured>>
      /\ rpc' = "done" /\ result' = "failed" /\ ndelay' \in BOOLEAN
  BY Zenon DEF Failed
<1>2. PICK why \in Reasons : rcv' = NoOutput(why)
  <2>1. "READ_FAILURE" \in Reasons
    BY DEF Reasons
  <2> QED BY <2>1 DEF Failed
<1>3. mode \in Modes /\ mode.cLimit \in Nat
  BY ModeFacts, Zenon DEF Inv, ServerTypes
<1>4. /\ Held(rcv', mode.cLimit) /\ ~rcv'.exact
      /\ rcv'.state = IF mode.requested THEN "INVALID" ELSE "MISSING"
  BY <1>2, <1>3, NoOutputFacts
<1>5. /\ ServerTypes' /\ Collector' /\ Frame'
      /\ UNCHANGED <<mode, produced, frame, sent, closed>>
  BY <1>1, ServerKept
<1>6. ClientTypes'
  BY <1>1, <1>5, Zenon DEF Inv, ClientTypes
<1>7. captured' = <<>>
  BY <1>1, SMTT(30) DEF Inv, Reader
<1>8. Reader'
  BY <1>1, <1>4, <1>5, <1>7, Zenon DEF Reader, Held
<1> QED BY <1>5, <1>6, <1>8 DEF Inv

\* The steps of the client that do not touch what is read.
LEMMA ClientQuietStep ==
    ASSUME Inv, RequestStop \/ StartRead \/ Tick \/ Capture
    PROVE  Inv'
<1>1. UNCHANGED <<mode, server>> /\ UNCHANGED <<rd, buf, rcv, values, result>>
  BY DEF RequestStop, StartRead, Tick, Capture
<1>2. /\ ServerTypes' /\ Collector' /\ Frame'
      /\ UNCHANGED <<mode, produced, frame, sent, closed>>
  BY <1>1, ServerKept, Zenon
<1>3. Held(rcv, mode.cLimit)'
  BY <1>1, <1>2 DEF Inv, Reader, Held
<1>4. CASE RequestStop
  <2>1. stop' = TRUE /\ UNCHANGED <<rpc, left, ndelay, captured>>
    BY <1>4 DEF RequestStop
  <2>2. ClientTypes'
    BY <1>1, <1>2, <2>1, SMTT(30) DEF Inv, ClientTypes
  <2>3. Reader'
    BY <1>1, <1>2, <1>3, <2>1, Zenon DEF Inv, Reader, Scanned, Honest, Partial, WholeOf
  <2> QED BY <1>2, <2>2, <2>3 DEF Inv
<1>5. CASE StartRead
  <2>1. rpc = "idle" /\ rpc' = "reading" /\ ndelay' = TRUE /\ UNCHANGED <<left, stop, captured>>
    BY <1>5 DEF StartRead
  <2>2. ClientTypes'
    BY <1>1, <1>2, <2>1 DEF Inv, ClientTypes
  <2>3. rd = 0 /\ result = "none" /\ rcv = Cleared /\ captured = <<>>
    BY <2>1 DEF Inv, Reader
  <2>4. Reader'
    BY <1>1, <1>3, <2>1, <2>3 DEF Reader
  <2> QED BY <1>2, <2>2, <2>4 DEF Inv
<1>6. CASE Tick
  <2>1. left' = left - 1 /\ left > 0 /\ UNCHANGED <<rpc, stop, ndelay, captured>>
    BY <1>6 DEF Tick
  <2>2. Ticks \in Nat
    BY ServerOutputConstants, SMTT(30)
  <2>3. ClientTypes'
    BY <1>1, <1>2, <2>1, <2>2, SMTT(30) DEF Inv, ClientTypes
  <2>4. Reader'
    BY <1>1, <1>2, <1>3, <2>1, Zenon DEF Inv, Reader, Scanned, Honest, Partial, WholeOf
  <2> QED BY <1>2, <2>3, <2>4 DEF Inv
<1>7. CASE Capture
  <2>1. rpc = "done" /\ captured' = <<rcv>> /\ UNCHANGED <<rpc, left, stop, ndelay>>
    BY <1>7 DEF Capture
  <2>2. ClientTypes'
    BY <1>1, <1>2, <2>1, SMTT(30) DEF Inv, ClientTypes
  <2>3. Reader'
    BY <1>1, <1>2, <1>3, <2>1, Zenon DEF Inv, Reader, Scanned, Honest, Partial, WholeOf
  <2> QED BY <1>2, <2>2, <2>3 DEF Inv
<1> QED BY <1>4, <1>5, <1>6, <1>7, Zenon

\* The client cannot start to read the results.
LEMMA StartReadFailsStep == ASSUME Inv, StartReadFails PROVE Inv'
<1>1. /\ rpc = "idle" /\ rpc' = "done" /\ result' = "failed" /\ rcv' = NoOutput("READ_FAILURE")
      /\ UNCHANGED <<mode, server>> /\ UNCHANGED <<rd, buf, values, left, stop, ndelay, captured>>
  BY DEF StartReadFails
<1>2. "READ_FAILURE" \in Reasons
  BY DEF Reasons
<1>3. mode \in Modes /\ mode.cLimit \in Nat
  BY ModeFacts, Zenon DEF Inv, ServerTypes
<1>4. /\ Held(rcv', mode.cLimit) /\ ~rcv'.exact
      /\ rcv'.state = IF mode.requested THEN "INVALID" ELSE "MISSING"
  BY <1>1, <1>2, <1>3, NoOutputFacts, Zenon
<1>5. /\ ServerTypes' /\ Collector' /\ Frame'
      /\ UNCHANGED <<mode, produced, frame, sent, closed>>
  BY <1>1, ServerKept
<1>6. ClientTypes'
  BY <1>1, <1>5 DEF Inv, ClientTypes
<1>7. captured' = <<>>
  BY <1>1, SMTT(30) DEF Inv, Reader
<1>8. Reader'
  BY <1>1, <1>4, <1>5, <1>7, Zenon DEF Reader, Held
<1> QED BY <1>5, <1>6, <1>8 DEF Inv

\* A read of the results fails or is given up.
LEMMA ReadFailsStep == ASSUME Inv, ReadFails PROVE Inv'
<1>1. rpc # "done"
  BY DEF ReadFails, NeedsInput
<1>2. PICK reason \in {"READ_FAILURE", "INVALID_DATA"} : Failed(reason)
  BY DEF ReadFails
<1>3. reason \in Reasons
  BY <1>2 DEF Reasons
<1> QED BY <1>1, <1>2, <1>3, FailedStep

\* The client reads the length that precedes the frame.
LEMMA ReadHeaderStep == ASSUME Inv, ReadHeader PROVE Inv'
<1>1. rpc = "reading" /\ buf = 0 /\ rd = 0 /\ sent > 0 /\ rd < Total
  BY DEF ReadHeader, NeedsInput
<1>2. CASE Failed("ALLOCATION_FAILURE")
  <2>1. "ALLOCATION_FAILURE" \in Reasons
    BY DEF Reasons
  <2> QED BY <1>1, <1>2, <2>1, FailedStep
<1>3. CASE /\ rd' = 1 /\ rcv' = BeginOutput
           /\ UNCHANGED <<mode, server, rpc, buf, values, left, stop, ndelay, result, captured>>
  <2>1. /\ ServerTypes' /\ Collector' /\ Frame'
        /\ UNCHANGED <<mode, produced, frame, sent, closed>>
    BY <1>3, ServerKept, Zenon
  <2>2. ClientTypes'
    BY <1>1, <1>3, <2>1 DEF Inv, ClientTypes, ServerTypes, Total
  <2>3. rcv = Cleared /\ captured = <<>> /\ result = "none"
    BY <1>1, Zenon DEF Inv, Reader
  <2>4. mode \in Modes /\ mode.cLimit \in Nat
    BY ModeFacts, SMTT(30) DEF Inv, ServerTypes
  <2>5. /\ frame.format = "NONE" \/ frame.format = Expected
        /\ Units(frame.units)
    BY FrameFacts DEF NoFrame, Framed
  <2>6. PICK r : r = BeginOutput
    OBVIOUS
  <2>7. Held(r, mode.cLimit) /\ Scanned(r, frame, 0)
    <3>1. CASE frame.hasValue
      <4>1. r = [Cleared EXCEPT !.format = frame.format, !.state = "COMPLETE",
                                !.hasValue = TRUE, !.exact = TRUE]
        BY <2>6, <3>1 DEF BeginOutput
      <4>2. /\ r \in Output /\ r.state = "COMPLETE" /\ r.hasValue /\ r.exact /\ r.value = <<>>
            /\ r.format = frame.format /\ r.observed = 0
        BY <2>5, <4>1, SizeOfEmpty, Zenon DEF Cleared, Output, OutputStates, Reasons, Formats, Expected
      <4>3. Bytes(frame.units)[0] = 0 /\ SubSeq(frame.units, 1, 0) = <<>>
        BY <2>5, BytesStep, SMTT(30) DEF Units
      <4> QED BY <2>4, <3>1, <4>2, <4>3, SizeOfEmpty DEF Held, Positive, Scanned
    <3>2. CASE ~frame.hasValue
      <4>1. r = Cleared
        BY <2>3, <2>6, <3>2, SMTT(30) DEF BeginOutput
      <4> QED BY <2>4, <3>2, <4>1, ClearedFacts DEF Scanned
    <3> QED BY <3>1, <3>2, Zenon
  <2>8. Scanned(rcv, frame, rd - buf - 1)'
    <3>1. rd' - buf' - 1 = 0
      <4>1. rd' = 1 /\ buf' = 0
        BY <1>1, <1>3, Zenon
      <4> QED BY <4>1
    <3> QED BY <1>3, <2>1, <2>6, <2>7, <3>1, Zenon DEF Scanned
  <2>9. Reader'
    BY <1>1, <1>3, <2>1, <2>3, <2>6, <2>7, <2>8 DEF Reader, Held
  <2> QED BY <2>1, <2>2, <2>9 DEF Inv
<1> QED BY <1>2, <1>3 DEF ReadHeader

\* A part of the frame arrives.
LEMMA ReadChunkStep == ASSUME Inv, ReadChunk PROVE Inv'
<1>1. rpc = "reading" /\ buf = 0 /\ rd > 0
  BY DEF ReadChunk, NeedsInput
<1>2. PICK k \in 1..(sent - rd) : buf' = k /\ rd' = rd + k
  BY DEF ReadChunk
<1>3. UNCHANGED <<mode, server>> /\ UNCHANGED <<rpc, rcv, values, left, stop, ndelay, result, captured>>
  BY DEF ReadChunk
<1>4. /\ ServerTypes' /\ Collector' /\ Frame'
      /\ UNCHANGED <<mode, produced, frame, sent, closed>>
  BY <1>3, ServerKept, Zenon
<1>5. rd \in Nat /\ sent \in Nat /\ Len(frame.units) \in Nat
  BY FrameFacts DEF Inv, ClientTypes, ServerTypes, Total
<1>6. ClientTypes'
  BY <1>1, <1>2, <1>3, <1>4, <1>5 DEF Inv, ClientTypes
<1>7. rd' - buf' - 1 = rd - buf - 1 /\ rd' > 0
  BY <1>1, <1>2, <1>5, SMTT(30)
<1>8. Scanned(rcv, frame, rd - buf - 1)'
  BY <1>1, <1>3, <1>4, <1>7, ZenonT(30) DEF Inv, Reader, Scanned
<1>9. Reader'
  <2>1. rd' # 0 /\ rpc' = "reading" /\ result' = "none" /\ captured' = <<>>
    <3>1. rd' # 0
      BY <1>7
    <3>2. rpc' = "reading" /\ result' = "none" /\ captured' = <<>>
      BY <1>1, <1>3, Zenon DEF Inv, Reader
    <3> QED BY <3>1, <3>2, Zenon
  <2>2. Held(rcv, mode.cLimit)'
    BY <1>3, <1>4, Zenon DEF Inv, Reader, Held
  <2> QED BY <1>8, <2>1, <2>2, ZenonT(30) DEF Reader
<1> QED BY <1>4, <1>6, <1>9 DEF Inv

\* The client's scanner takes one unit from its buffer.
LEMMA ScanUnitStep == ASSUME Inv, ScanUnit PROVE Inv'
<1>1. rpc = "reading" /\ buf > 0 /\ At < Total
  BY DEF ScanUnit
<1>2. CASE Failed("INVALID_DATA")
  <2>1. "INVALID_DATA" \in Reasons
    BY DEF Reasons
  <2> QED BY <1>1, <1>2, <2>1, FailedStep
<1>3. CASE ~Failed("INVALID_DATA")
  <2>1. PICK u, n : /\ u = frame.units[At - 1] /\ n = IF At = 2 THEN OverheadNodes ELSE 1
    BY Zenon
  <2>2. /\ u # Bad /\ buf' = buf - 1
        /\ IF frame.format = "JSON"
           THEN rcv' = EmitJson(rcv, u, n) /\ values' = values + n
           ELSE rcv' = DecodedScalar(rcv, u) /\ values' = values
        /\ UNCHANGED <<mode, server>> /\ UNCHANGED <<rpc, rd, left, stop, ndelay, result, captured>>
    BY <1>3, <2>1 DEF ScanUnit
  <2>3. /\ ServerTypes' /\ Collector' /\ Frame'
        /\ UNCHANGED <<mode, produced, frame, sent, closed>>
    BY <2>2, ServerKept, Zenon
  <2>4. /\ rd \in Nat /\ buf \in Nat /\ buf <= rd /\ (rd > 0 => buf < rd) /\ values \in Nat
        /\ n \in Nat
    BY <2>1, ServerOutputConstants, SMTT(30) DEF Inv, ClientTypes, ServerTypes, Total
  <2>5. ClientTypes'
    BY <1>1, <2>2, <2>3, <2>4 DEF Inv, ClientTypes
  <2>6. PICK k \in Nat : k = rd - buf - 1 /\ rd > 0
    <3>1. buf > 0
      BY <1>1, Zenon
    <3> QED BY <2>4, <3>1
  <2>7. At - 1 = k + 1 /\ k < Len(frame.units) /\ Len(frame.units) \in Nat
    BY <1>1, <2>4, <2>6, FrameFacts, SMTT(30) DEF At, Total
  <2>8. mode \in Modes /\ Held(rcv, mode.cLimit) /\ Scanned(rcv, frame, k) /\ Units(frame.units)
    BY <1>1, <2>6, FrameFacts, ZenonT(30) DEF Inv, ServerTypes, Reader
  <2>9. frame.hasValue /\ frame.format = Expected /\ (mode.json => Positive(frame.units))
    <3>1. frame.units # <<>>
      BY <2>7, SizeOfEmpty, SMTT(30)
    <3> QED BY <3>1, FrameFacts, ZenonT(30)
  <2>10. PICK next \in Nat : next = k + 1
    OBVIOUS
  <2>11. Held(rcv', mode.cLimit) /\ Scanned(rcv', frame, next)
    <3>0. PICK o, r, f : o = rcv /\ r = rcv' /\ f = frame
      BY SMTT(30)
    <3>1. u = f.units[k + 1]
      BY <2>1, <2>7, <3>0, ZenonT(30)
    <3>2. CASE mode.json
      <4>1. r = EmitJson(o, u, n)
        BY <2>2, <2>9, <3>0, <3>2, SMTT(30) DEF Expected
      <4> QED BY <2>7, <2>8, <2>9, <2>10, <3>0, <3>1, <3>2, <4>1, EmittedScans, Zenon
    <3>3. CASE ~mode.json
      <4>1. r = DecodedScalar(o, u)
        BY <2>2, <2>9, <3>0, <3>3, Zenon DEF Expected
      <4> QED BY <2>2, <2>7, <2>8, <2>9, <2>10, <3>0, <3>1, <3>3, <4>1, DecodedScans, ZenonT(30)
    <3> QED BY <3>2, <3>3
  <2>12. Scanned(rcv, frame, rd - buf - 1)'
    <3>1. rd' - buf' - 1 = next
      BY <1>1, <2>2, <2>4, <2>6, <2>10, SMTT(30)
    <3> QED BY <2>3, <2>11, <3>1, Zenon DEF Scanned
  <2>13. result = "none" /\ captured = <<>>
    BY <1>1, Zenon DEF Inv, Reader
  <2>14. Reader'
    <3>1. rd' # 0
      <4>1. rd' = rd /\ rd > 0 /\ rd \in Nat
        BY <2>2, <2>4, <2>6, Zenon
      <4> QED BY <4>1
    <3>2. rpc' = "reading" /\ result' = "none" /\ captured' = <<>>
      BY <1>1, <2>2, <2>13, Zenon
    <3>3. Held(rcv, mode.cLimit)'
      BY <2>3, <2>11, Zenon DEF Held
    <3> QED BY <2>12, <3>1, <3>2, <3>3, ZenonT(30) DEF Reader
  <2> QED BY <2>3, <2>5, <2>14 DEF Inv
<1> QED BY <1>2, <1>3, Zenon

\* The client's scanner reaches the end of the frame and applies the peer's status.
LEMMA ScanEndStep == ASSUME Inv, ScanEnd PROVE Inv'
<1>1. rpc = "reading" /\ buf > 0 /\ At = Total
  BY ZenonT(30) DEF ScanEnd
<1>2. CASE Failed("ALLOCATION_FAILURE")
  <2>1. "ALLOCATION_FAILURE" \in Reasons
    BY DEF Reasons
  <2> QED BY <1>1, <1>2, <2>1, FailedStep, Zenon
<1>3. CASE ~Failed("ALLOCATION_FAILURE")
  <2>1. /\ rpc' = "done" /\ result' = "ok" /\ buf' = 0 /\ ndelay' = FALSE
        /\ rcv' = IF ~mode.requested THEN Cleared
                  ELSE IF frame.status = <<>> THEN rcv
                  ELSE ApplyPeerStatus(rcv, frame.status[1])
        /\ UNCHANGED <<mode, server>> /\ UNCHANGED <<rd, values, left, stop, captured>>
    BY <1>3, SMTT(30) DEF ScanEnd
  <2>2. /\ ServerTypes' /\ Collector' /\ Frame'
        /\ UNCHANGED <<mode, produced, frame, sent, closed>>
    BY <2>1, ServerKept, Zenon
  <2>3. rd \in Nat /\ buf \in Nat /\ buf <= rd /\ rd > 0
    BY <1>1, SMTT(30) DEF Inv, ClientTypes, ServerTypes, Total
  <2>4. ClientTypes'
    <3>1. rd' \in 0..sent' /\ values' \in Nat /\ left' \in 0..Ticks /\ stop' \in BOOLEAN
      BY <2>1, <2>2, Zenon DEF Inv, ClientTypes
    <3>2. buf' \in 0..rd' /\ buf' < rd'
      BY <2>1, <2>3, SMTT(30)
    <3> QED BY <2>1, <3>1, <3>2, ZenonT(30) DEF ClientTypes
  <2>5. rd - buf - 1 = Len(frame.units)
    BY <1>1, <2>3, FrameFacts, SMTT(30) DEF At, Total
  <2>6. /\ mode \in Modes /\ mode.cLimit \in Nat /\ Units(produced)
        /\ Held(rcv, mode.cLimit) /\ Scanned(rcv, frame, Len(frame.units))
    BY <1>1, <2>3, <2>5, ModeFacts, Zenon DEF Inv, ServerTypes, Reader
  <2>7. captured = <<>>
    BY <1>1, Zenon DEF Inv, Reader
  <2>8. CASE mode.requested
    <3>1. Framed(frame, produced)
      BY <2>3, <2>8, FrameFacts, Zenon
    <3>2. rcv' = IF frame.status = <<>> THEN rcv ELSE ApplyPeerStatus(rcv, frame.status[1])
      BY <2>1, <2>8
    <3>3. PICK o, f, p, r : o = rcv /\ f = frame /\ p = produced /\ r = rcv'
      BY Zenon
    <3>4. Held(r, mode.cLimit) /\ Honest(r, f, p)
      <4>1. /\ mode \in Modes /\ Units(p) /\ Framed(f, p) /\ Held(o, mode.cLimit)
            /\ Scanned(o, f, Len(f.units))
        BY <2>6, <3>1, <3>3, Zenon
      <4>2. r = IF f.status = <<>> THEN o ELSE ApplyPeerStatus(o, f.status[1])
        BY <3>2, <3>3, Zenon
      <4> QED BY <4>1, <4>2, FrameReadHonest, ZenonT(30)
    <3>5. Honest(rcv, frame, produced)' /\ Held(rcv, mode.cLimit)'
      BY <2>2, <3>3, <3>4, ZenonT(30) DEF Honest, Partial, WholeOf, Held
    <3>6. Reader'
      BY <2>1, <2>2, <2>3, <2>7, <2>8, <3>5, Zenon DEF Reader
    <3> QED BY <2>2, <2>4, <3>6, SMTT(30) DEF Inv
  <2>9. CASE ~mode.requested
    <3>1. rcv' = Cleared
      BY <2>1, <2>9, Zenon
    <3>2. Held(rcv, mode.cLimit)'
      BY <2>2, <2>6, <3>1, ClearedFacts, Zenon DEF Held
    <3>3. Reader'
      BY <2>1, <2>2, <2>3, <2>7, <2>9, <3>1, <3>2, Zenon DEF Reader
    <3> QED BY <2>2, <2>4, <3>3 DEF Inv
  <2> QED BY <2>8, <2>9, SMTT(30)
<1> QED BY <1>2, <1>3, Zenon

-----------------------------------------------------------------------------
(* The theorems *)

LEMMA InitInv == Init => Inv
<1> SUFFICES ASSUME Init PROVE Inv
  OBVIOUS
<1> USE DEF Init
<1>1. mode \in Modes /\ mode.sLimit \in Nat /\ mode.cLimit \in Nat
  BY ModeFacts, Zenon
<1>2. Units(<<>>) /\ Positive(<<>>) /\ Len(<<>>) = 0
  BY SizeOfEmpty, SMTT(30) DEF Units, Positive
<1>3. Ticks \in Nat
  BY ServerOutputConstants, Zenon
<1>4. ServerTypes
  <2>1. sent \in 0..Total /\ lines \in Nat /\ nodes \in Nat
    <3>1. frame.units = <<>> /\ sent = 0 /\ lines = 0 /\ nodes = 0
      OBVIOUS
    <3> QED BY <1>2, <3>1 DEF Total
  <2>2. finalized \in BOOLEAN /\ closed \in BOOLEAN
    BY Zenon
  <2>3. /\ spc \in {"running", "sending", "over"}
        /\ local \in OutputStates \cup {"waiting", "notRequested"}
    BY Zenon
  <2> QED BY <1>1, <1>2, <2>1, <2>2, <2>3, Zenon DEF ServerTypes
<1>5. ClientTypes
  <2>1. rd \in 0..sent /\ buf \in 0..rd /\ (rd > 0 => buf < rd) /\ values \in Nat /\ left \in 0..Ticks
    <3>1. rd = 0 /\ buf = 0 /\ sent = 0 /\ values = 0 /\ left = Ticks
      OBVIOUS
    <3> QED BY <1>3, <3>1
  <2>2. stop \in BOOLEAN /\ ndelay \in BOOLEAN
    BY ZenonT(30)
  <2> QED BY <2>1, <2>2, Zenon DEF ClientTypes
<1>6. Held(Cleared, mode.sLimit) /\ Held(Cleared, mode.cLimit)
  BY <1>1, ClearedFacts, Zenon
<1>7. Collected(out, produced) /\ Bracketed(out)
  BY ClearedFacts, Zenon DEF Collected, Bracketed, Partial, Explained
<1>8. Collector
  BY <1>6, <1>7, Zenon DEF Collector
<1>9. Frame
  <2>1. sent = 0 /\ frame = NoFrame /\ spc = "running" /\ local = "waiting"
    BY ZenonT(30) DEF NoFrame
  <2> QED BY <2>1, SMTT(30) DEF Frame
<1>10. Reader
  BY <1>6 DEF Reader
<1> QED BY <1>4, <1>5, <1>8, <1>9, <1>10 DEF Inv

\* Every step keeps the invariant: one lemma above for each action.
LEMMA NextInv == Inv /\ [Next]_vars => Inv'
<1> SUFFICES ASSUME Inv, [Next]_vars PROVE Inv'
  OBVIOUS
<1>1. CASE Produce
  BY <1>1, ProduceStep
<1>2. CASE AddServerResults
  BY <1>2, AddServerResultsStep
<1>3. CASE SendChunk \/ ServerOver \/ CaptureLocal
  BY <1>3, ServerQuietStep
<1>4. CASE RequestStop \/ StartRead \/ Tick \/ Capture
  BY <1>4, ClientQuietStep, Zenon
<1>5. CASE StartReadFails
  BY <1>5, StartReadFailsStep
<1>6. CASE ReadFails
  BY <1>6, ReadFailsStep
<1>7. CASE ReadHeader
  BY <1>7, ReadHeaderStep
<1>8. CASE ReadChunk
  BY <1>8, ReadChunkStep
<1>9. CASE ScanUnit
  BY <1>9, ScanUnitStep
<1>10. CASE ScanEnd
  BY <1>10, ScanEndStep
<1>11. CASE UNCHANGED vars
  <2>1. UNCHANGED <<mode, server>> /\ UNCHANGED client
    BY <1>11 DEF vars
  <2>2. /\ ServerTypes' /\ Collector' /\ Frame'
        /\ UNCHANGED <<mode, produced, frame, sent, closed>>
    BY <2>1, ServerKept
  <2>3. Reader'
    BY <2>1, <2>2, ReaderKept, Zenon
  <2>4. ClientTypes'
    BY <2>1, <2>2 DEF Inv, ClientTypes, client
  <2> QED BY <2>2, <2>3, <2>4 DEF Inv
<1> QED BY <1>1, <1>2, <1>3, <1>4, <1>5, <1>6, <1>7, <1>8, <1>9, <1>10, <1>11, Zenon
      DEF Next, ServerStep, ReadStep

\* The inductive invariant holds in every reachable state.
LEMMA InvAlways == Spec => []Inv
BY InitInv, NextInv, PTL DEF Spec

\* Whatever the peer, the budgets and the timing, output that the runner hands out as
\* complete is everything the server put out, truncated output is a proper prefix of
\* it, and a byte count it vouches for is the size of the whole.
THEOREM DeliveredHonestly == Spec => []DeliveredIsHonest
<1>1. Inv => DeliveredIsHonest
  <2> SUFFICES ASSUME Inv PROVE DeliveredIsHonest
    OBVIOUS
  <2>0. Whole = WholeOf(produced)
    BY Zenon DEF Whole, WholeOf
  <2>1. local = "COMPLETE" => frame.hasValue /\ frame.units = Whole
    BY <2>0, Zenon DEF Inv, Frame
  <2>2. ASSUME NEW i \in 1..Len(captured)
        PROVE  /\ captured[i].exact => captured[i].observed = Size(Whole)
               /\ captured[i].state = "COMPLETE" => captured[i].value = Whole
               /\ captured[i].state = "TRUNCATED" =>
                    /\ ~mode.json
                    /\ Len(captured[i].value) < Len(produced)
                    /\ captured[i].value = SubSeq(produced, 1, Len(captured[i].value))
    <3>1. captured = <<rcv>> /\ captured[i] = rcv /\ rpc = "done"
      BY <2>2, SizeOfEmpty, SMTT(30) DEF Inv, Reader
    <3>2. rcv \in Output /\ rcv.value \in Seq(Int) /\ produced \in Seq(Int)
      BY Zenon DEF Inv, Reader, Held, Output, ServerTypes, Units
    <3>3. result \in {"ok", "failed"}
      BY <3>1 DEF Inv, Reader, ClientTypes
    <3>4. CASE result = "failed" \/ ~mode.requested
      <4>1. ~rcv.exact /\ rcv.state \notin {"COMPLETE", "TRUNCATED"}
        BY <3>3, <3>4, ClearedFacts, Zenon DEF Inv, Reader
      <4> QED BY <3>1, <4>1, Zenon
    <3>5. CASE result = "ok" /\ mode.requested
      <4>1. Honest(rcv, frame, produced)
        BY <3>5, Zenon DEF Inv, Reader
      <4>2. rcv.state = "TRUNCATED" =>
              ~mode.json /\ Prefix(rcv.value, produced) /\ Len(rcv.value) < Len(produced)
        BY <4>1 DEF Honest, Partial, WholeOf
      <4>3. ASSUME Prefix(rcv.value, produced) PROVE rcv.value = SubSeq(produced, 1, Len(rcv.value))
        <5>1. PICK v, p, n : v = rcv.value /\ p = produced /\ n = Len(v)
          BY Zenon
        <5>2. v \in Seq(Int) /\ p \in Seq(Int) /\ n \in 0..Len(p) /\ \A j \in 1..n : v[j] = p[j]
          BY <3>2, <4>3, <5>1, LenProperties DEF Prefix
        <5>3. PICK q : q = SubSeq(p, 1, n)
          BY Zenon
        <5>4. q \in Seq(Int) /\ Len(q) = n /\ \A j \in 1..n : q[j] = p[j]
          BY <5>2, <5>3, SizeOfPrefix, Zenon
        <5>5. v = q
          <6>1. Len(v) = Len(q) /\ \A j \in 1..Len(v) : v[j] = q[j]
            BY <5>1, <5>2, <5>4, Zenon
          <6> QED BY <5>2, <5>4, <6>1, SeqEqual, Zenon
        <5> QED BY <5>1, <5>3, <5>5
      <4> QED BY <2>0, <3>1, <4>1, <4>2, <4>3, Zenon DEF Honest, Partial
    <3> QED BY <3>3, <3>4, <3>5, Zenon
  <2> QED BY <2>1, <2>2 DEF DeliveredIsHonest
<1> QED BY <1>1, InvAlways, PTL

\* Neither buffer is ever over its limit, the JSON list leaves room for its brackets,
\* and payloads exist in the two states that have one.
THEOREM BudgetsHold == Spec => []BudgetHeld
<1>1. Inv => BudgetHeld
  <2> SUFFICES ASSUME Inv PROVE BudgetHeld
    OBVIOUS
  <2>1. ASSUME NEW o, NEW limit, Held(o, limit) PROVE OutputType(o) /\ Size(o.value) <= limit
    <3>1. \A i \in 1..Len(o.value) : o.value[i] \in Int /\ o.value[i] > 0
      BY <2>1, ElementOfSeq DEF Held, Output, Positive
    <3>2. \A i \in 1..Len(o.value) : o.value[i] \in Nat
      BY <3>1, SMTT(30)
    <3> QED BY <2>1, <3>2 DEF Held, Output, OutputType
  <2>2. Held(out, mode.sLimit) /\ Held(rcv, mode.cLimit)
    BY Zenon DEF Inv, Collector, Reader
  <2>3. OutputType(out) /\ OutputType(rcv) /\ Size(out.value) <= mode.sLimit /\ Size(rcv.value) <= mode.cLimit
    BY <2>1, <2>2, Zenon
  <2>4. \A i \in 1..Len(captured) : OutputType(captured[i])
    <3>1. CASE captured = <<>>
      BY <3>1, SizeOfEmpty
    <3>2. CASE captured = <<rcv>>
      BY <2>3, <3>2, SMTT(30)
    <3> QED BY <3>1, <3>2 DEF Inv, Reader
  <2>5. TypeOK
    BY <2>3, <2>4, Zenon DEF Inv, ServerTypes, ClientTypes, TypeOK
  <2>6. mode.json /\ ~finalized /\ out.value # <<>> =>
          Size(Document(out.value)) - Overhead + 2 <= mode.sLimit
    BY Zenon DEF Inv, Collector, Bracketed
  <2> QED BY <2>3, <2>5, <2>6, Zenon DEF BudgetHeld
<1> QED BY <1>1, InvAlways, PTL

\* The client calls the output of a budgeted server invalid only if the server did.
THEOREM HonestPeerIsAccepted == Spec => []HonestPeerAccepted
<1>1. Inv => HonestPeerAccepted
  BY DEF Inv, Reader, Honest, HonestPeerAccepted
<1> QED BY <1>1, InvAlways, PTL

\* A failed read leaves no payload and says so; a successful one restores the
\* descriptor.
THEOREM ReadsEndWell == Spec => []ReadOutcome
<1>1. Inv => ReadOutcome
  <2> SUFFICES ASSUME Inv PROVE ReadOutcome
    OBVIOUS
  <2>1. result = "failed" => rcv.state = IF mode.requested THEN "INVALID" ELSE "MISSING"
    BY SMTT(30) DEF Inv, Reader
  <2>2. rcv.hasValue <=> rcv.state \in {"COMPLETE", "TRUNCATED"}
    BY Zenon DEF Inv, Reader, Held
  <2>3. result = "ok" => ~ndelay
    BY DEF Inv, Reader
  <2> QED BY <2>1, <2>2, <2>3, Zenon DEF ReadOutcome
<1> QED BY <1>1, InvAlways, PTL
=============================================================================
