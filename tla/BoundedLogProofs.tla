-------------------------- MODULE BoundedLogProofs --------------------------
(***************************************************************************)
(* The byte budget of the logfile and what is in it, for every limit, marker *)
(* size, existing file, printed text and number of reopenings.              *)
(***************************************************************************)
EXTENDS BoundedLog, Integers, TLAPS

\* Sequences as the proofs need them: a sub-sequence that starts inside the
\* sequence, or is empty, has the length one expects.
LEMMA SubSeqFacts ==
    ASSUME NEW S, NEW s \in Seq(S), NEW m \in Nat, NEW n \in Nat,
           1 <= m, m <= n + 1, n <= Len(s)
    PROVE  SubSeq(s, m, n) \in Seq(S) /\ Len(SubSeq(s, m, n)) = n - m + 1
  OBVIOUS

\* The same for a concatenation.
LEMMA ConcatFacts ==
    ASSUME NEW S, NEW s \in Seq(S), NEW t \in Seq(S)
    PROVE  s \o t \in Seq(S) /\ Len(s \o t) = Len(s) + Len(t)
  OBVIOUS

\* Room arithmetic: o put out, r held back before and t after, a accepted before
\* and b after, of a capacity c.
LEMMA Room ==
    ASSUME NEW o \in Nat, NEW t \in Nat, NEW r \in Nat, NEW a \in Nat, NEW b \in Nat,
           NEW c \in Nat, b <= c, o + t <= r + (b - a)
    PROVE  o + t <= r + (c - a) /\ o <= r + (c - a)
  OBVIOUS

\* utf8_prefix never returns more than it was given.
LEMMA Utf8Bound ==
    ASSUME NEW bytes \in Seq(Byte)
    PROVE  Utf8Prefix(bytes) \in 0..Len(bytes)
<1>1. CASE \E k \in 1..Len(bytes) : Incomplete(bytes, k)
  <2> DEFINE k == CHOOSE k \in 1..Len(bytes) : Incomplete(bytes, k)
  <2>1. k \in 1..Len(bytes)
    BY <1>1
  <2>2. Utf8Prefix(bytes) = Len(bytes) - k
    BY <1>1 DEF Utf8Prefix
  <2> QED BY <2>1, <2>2
<1>2. CASE ~ \E k \in 1..Len(bytes) : Incomplete(bytes, k)
  BY <1>2 DEF Utf8Prefix
<1> QED BY <1>1, <1>2

\* One write of an enabled log: what goes to the sink and what is held back are
\* together no more than what was held back and accepted, and exactly that unless
\* the output is cut; the marker takes the place of held bytes.
LEMMA EnabledWrite ==
    ASSUME TypeOK, NEW chunk \in Seq(Byte), capacity >= MarkerSize,
           Len(tail) = Least(accepted, TailSize)
    PROVE  LET w == WriteEnabled(chunk)
           IN /\ w.out \in Seq(Byte) /\ w.tail \in Seq(Byte)
              /\ w.accepted \in Nat /\ w.truncated \in BOOLEAN
              /\ accepted <= w.accepted /\ w.accepted <= capacity
              /\ Len(w.tail) <= TailSize
              /\ w.truncated => w.tail = <<>>
              /\ ~w.truncated => Len(w.tail) = Least(w.accepted, TailSize)
              /\ Len(w.out) + Len(w.tail) <= Len(tail) + (w.accepted - accepted)
<1> DEFINE remaining == capacity - accepted
           keep == Least(Len(chunk), remaining)
           held == tail \o SubSeq(chunk, 1, keep)
           flush == IF Len(held) > TailSize THEN Len(held) - TailSize ELSE 0
           rest == SubSeq(held, flush + 1, Len(held))
           cut == Len(chunk) > remaining
           room == SubSeq(rest, 1, Len(rest) - MarkerSize)
           prefix == Utf8Prefix(room)
           w == WriteEnabled(chunk)
<1>1. /\ MarkerSize \in Nat \ {0} /\ TailSize \in Nat /\ TailSize = MarkerSize + 3
      /\ capacity \in Nat /\ accepted \in Nat /\ accepted <= capacity
      /\ tail \in Seq(Byte) /\ Len(tail) \in Nat /\ Len(chunk) \in Nat
  BY LogAssumption DEF TypeOK, TailSize
<1>2. /\ remaining \in Nat /\ keep \in Nat
      /\ keep <= Len(chunk) /\ keep <= remaining
      /\ cut => keep = remaining
      /\ ~cut => keep = Len(chunk)
  BY <1>1 DEF Least
<1>a. w = [out |-> IF cut
                  THEN SubSeq(held, 1, flush) \o SubSeq(rest, 1, prefix) \o Marker
                  ELSE SubSeq(held, 1, flush),
          tail |-> IF cut THEN <<>> ELSE rest,
          accepted |-> accepted + keep,
          truncated |-> cut]
  BY DEF WriteEnabled
<1>b. cut \in BOOLEAN
  OBVIOUS
<1> HIDE DEF keep, cut, remaining, w
<1>3. SubSeq(chunk, 1, keep) \in Seq(Byte) /\ Len(SubSeq(chunk, 1, keep)) = keep
  BY <1>2, SubSeqFacts, <1>1
<1>4. held \in Seq(Byte) /\ Len(held) = Len(tail) + keep
  BY <1>1, <1>3
<1> HIDE DEF held
<1>5. /\ flush \in Nat /\ flush <= Len(held) /\ Len(held) - flush <= TailSize
      /\ flush > 0 => Len(held) - flush = TailSize
  BY <1>1, <1>2, <1>4
<1> HIDE DEF flush
<1>6. /\ SubSeq(held, 1, flush) \in Seq(Byte) /\ Len(SubSeq(held, 1, flush)) = flush
      /\ rest \in Seq(Byte) /\ Len(rest) = Len(held) - flush
  <2>1. SubSeq(held, 1, flush) \in Seq(Byte) /\ Len(SubSeq(held, 1, flush)) = flush
    BY <1>4, <1>5, SubSeqFacts
  <2>2. /\ flush + 1 \in Nat /\ 1 <= flush + 1
        /\ Len(held) \in Nat /\ flush + 1 <= Len(held) + 1
    BY <1>1, <1>2, <1>4, <1>5
  <2>3. /\ rest \in Seq(Byte) /\ Len(rest) = Len(held) - (flush + 1) + 1
    BY <1>4, <2>2, SubSeqFacts
  <2> QED BY <1>5, <2>1, <2>2, <2>3
<1> HIDE DEF rest
<1>7. Len(rest) = Least(accepted + keep, TailSize)
  BY <1>1, <1>2, <1>4, <1>5, <1>6 DEF Least
<1>8. /\ w.out = IF cut THEN SubSeq(held, 1, flush) \o SubSeq(rest, 1, prefix) \o Marker
                 ELSE SubSeq(held, 1, flush)
      /\ w.tail = IF cut THEN <<>> ELSE rest
      /\ w.accepted = accepted + keep
      /\ w.truncated = cut
  BY <1>a
<1>c. /\ w.accepted \in Nat /\ w.truncated \in BOOLEAN
      /\ accepted <= w.accepted /\ w.accepted <= capacity
  <2>1. keep <= capacity - accepted
    BY <1>2 DEF remaining
  <2> QED BY <1>1, <1>2, <1>8, <1>b, <2>1
<1>9. CASE ~cut
  <2>1. w.out = SubSeq(held, 1, flush) /\ w.tail = rest /\ ~w.truncated
    BY <1>8, <1>9, Zenon
  <2>2. Len(w.out) + Len(w.tail) <= Len(tail) + (w.accepted - accepted)
    BY SMTT(30), <1>1, <1>2, <1>4, <1>5, <1>6, <1>8, <2>1
  <2>3. Len(w.tail) <= TailSize /\ Len(w.tail) = Least(w.accepted, TailSize)
    BY <1>5, <1>6, <1>7, <1>8, <2>1
  <2> QED BY <1>6, <1>c, <2>1, <2>2, <2>3 DEF w
<1>10. CASE cut
  <2>0. w.out = SubSeq(held, 1, flush) \o SubSeq(rest, 1, prefix) \o Marker
        /\ w.tail = <<>> /\ w.truncated
    BY <1>8, <1>10, Zenon
  <2>1. Len(rest) >= MarkerSize
    <3>1. accepted + keep = capacity
      BY <1>1, <1>2, <1>10 DEF remaining
    <3> QED BY <1>1, <1>7, <3>1 DEF Least
  <2>2. room \in Seq(Byte) /\ Len(room) = Len(rest) - MarkerSize
    <3>1. Len(rest) \in Nat /\ Len(rest) - MarkerSize \in Nat
      BY <1>1, <1>6, <2>1
    <3> QED BY <1>6, <3>1, <1>1, SubSeqFacts
  <2> HIDE DEF room
  <2>3. prefix \in Nat /\ prefix <= Len(rest) - MarkerSize
    BY <1>1, <1>6, <2>1, <2>2, Utf8Bound
  <2> HIDE DEF prefix
  <2>4. SubSeq(rest, 1, prefix) \in Seq(Byte) /\ Len(SubSeq(rest, 1, prefix)) = prefix
    BY <1>1, <1>6, <2>1, <2>3, SubSeqFacts
  <2>5. Marker \in Seq(Byte) /\ Len(Marker) = MarkerSize
    BY <1>1 DEF Marker, Mark, Byte
  <2>6. w.out \in Seq(Byte) /\ Len(w.out) = flush + prefix + MarkerSize
    <3> DEFINE a == SubSeq(held, 1, flush)
               b == SubSeq(rest, 1, prefix)
    <3>1. a \in Seq(Byte) /\ b \in Seq(Byte) /\ Len(a) = flush /\ Len(b) = prefix
      BY <1>6, <2>4
    <3>2. w.out = a \o b \o Marker
      BY <2>0
    <3> HIDE DEF a, b
    <3>3. a \o b \in Seq(Byte) /\ Len(a \o b) = flush + prefix
      BY <3>1, ConcatFacts
    <3>4. w.out \in Seq(Byte) /\ Len(w.out) = Len(a \o b) + Len(Marker)
      BY <3>2, <3>3, <2>5, ConcatFacts, Zenon
    <3> QED BY <3>3, <3>4, <2>5
  <2>7. w.tail \in Seq(Byte) /\ Len(w.tail) = 0 /\ Len(w.tail) <= TailSize
    BY <1>1, <2>0
  <2>8. Len(w.out) + Len(w.tail) <= Len(tail) + (w.accepted - accepted)
    BY SMTT(30), <1>1, <1>2, <1>4, <1>5, <1>6, <1>8, <2>1, <2>3, <2>6, <2>7
  <2> QED BY <1>c, <2>0, <2>6, <2>7, <2>8 DEF w
<1> QED BY <1>9, <1>10, Zenon

\* What any write of an open log puts out, holds back and accepts.
LEMMA WriteEffect ==
    ASSUME LogInv, isOpen, NEW chunk \in Seq(Byte)
    PROVE  LET w == BoundedWrite(chunk)
           IN /\ w.out \in Seq(Byte) /\ w.tail \in Seq(Byte)
              /\ w.accepted \in Nat /\ w.truncated \in BOOLEAN
              /\ accepted <= w.accepted /\ w.accepted <= capacity
              /\ Len(w.tail) <= TailSize
              /\ st.truncated \/ st.open_errno => w.out = <<>> /\ w.tail = <<>>
              /\ capacity < MarkerSize => w.accepted = 0
              /\ w.truncated => w.tail = <<>>
              /\ ~w.truncated => Len(w.tail) = Least(w.accepted, TailSize)
              /\ Len(w.out) + Len(w.tail) <= Len(tail) + (w.accepted - accepted)
<1> DEFINE w == BoundedWrite(chunk)
<1>1. /\ TypeOK /\ st \in Status
      /\ MarkerSize \in Nat /\ TailSize \in Nat /\ capacity \in Nat /\ accepted \in Nat
      /\ accepted <= capacity /\ tail \in Seq(Byte) /\ Len(tail) <= TailSize
      /\ Len(tail) \in Nat
  BY LogAssumption DEF LogInv, TypeOK, TailSize
<1>2. /\ capacity < MarkerSize => accepted = 0
      /\ st.truncated \/ st.open_errno => tail = <<>>
      /\ ~st.truncated => Len(tail) = Least(accepted, TailSize)
  BY DEF LogInv
<1>3. CASE chunk = <<>> \/ st.truncated \/ st.open_errno \/ st.write_errno
  <2>1. /\ w.out = <<>> /\ w.tail = tail /\ w.accepted = accepted
        /\ w.truncated = st.truncated
    BY <1>3, Zenon DEF BoundedWrite
  <2>2. w.truncated \in BOOLEAN
    BY <1>1, <2>1 DEF Status
  <2>3. Len(w.out) = 0 /\ w.out \in Seq(Byte)
    BY <2>1
  <2> QED BY <1>1, <1>2, <2>1, <2>2, <2>3
<1>4. CASE ~(chunk = <<>> \/ st.truncated \/ st.open_errno \/ st.write_errno)
  <2>1. CASE capacity < MarkerSize
    <3>1. /\ w.out = <<>> /\ w.tail = tail /\ w.accepted = accepted
          /\ w.truncated = TRUE
      BY <1>4, <2>1 DEF BoundedWrite
    <3>2. Len(tail) = 0
      BY <1>1, <1>2, <1>4, <2>1 DEF Least
    <3>3. tail = <<>> /\ Len(w.out) = 0 /\ w.out \in Seq(Byte)
      BY <1>1, <3>1, <3>2
    <3>4. w.truncated \in BOOLEAN /\ w.truncated
      BY <3>1, Zenon
    <3>5. /\ Len(w.tail) = 0 /\ w.tail = <<>> /\ w.tail \in Seq(Byte)
          /\ w.accepted = 0 /\ accepted = 0
      BY <1>1, <1>2, <2>1, <3>1, <3>3
    <3> HIDE DEF w
    <3>6. Len(w.out) + Len(w.tail) <= Len(tail) + (w.accepted - accepted)
      BY <3>2, <3>3, <3>5
    <3> QED BY <1>1, <3>1, <3>3, <3>4, <3>5, <3>6 DEF w
  <2>2. CASE ~(capacity < MarkerSize)
    <3>1. w = WriteEnabled(chunk)
      BY <1>4, <2>2 DEF BoundedWrite
    <3>2. capacity >= MarkerSize /\ Len(tail) = Least(accepted, TailSize)
      BY <1>1, <1>2, <1>4, <2>2
    <3> HIDE DEF w
    <3>3. /\ w.out \in Seq(Byte) /\ w.tail \in Seq(Byte)
          /\ w.accepted \in Nat /\ w.truncated \in BOOLEAN
          /\ accepted <= w.accepted /\ w.accepted <= capacity
          /\ Len(w.tail) <= TailSize
          /\ w.truncated => w.tail = <<>>
          /\ ~w.truncated => Len(w.tail) = Least(w.accepted, TailSize)
          /\ Len(w.out) + Len(w.tail) <= Len(tail) + (w.accepted - accepted)
      BY <1>1, <3>1, <3>2, EnabledWrite, Zenon
    <3> QED BY <1>4, <2>2, <3>3, Zenon DEF w
  <2> QED BY <2>1, <2>2, Zenon
<1> QED BY <1>3, <1>4, Zenon

\* Whatever part of out reaches the file, the counts follow it and the file stays
\* within its limit, given that out is no more than what was promised room.
LEMMA Appending ==
    ASSUME LogInv, isOpen, NEW out \in Seq(Byte), NEW cut \in BOOLEAN,
           NEW closeFails \in BOOLEAN, WriteBytes(out, cut, closeFails),
           Len(out) <= Len(tail) + (capacity - accepted),
           st.truncated \/ st.open_errno => out = <<>>
    PROVE  /\ file' \in Seq(Byte) /\ st' \in Status
           /\ orig <= Len(file')
           /\ st'.bytes_written = Len(file') - orig
           /\ st'.attempted => st'.file_bytes = Len(file') \/ (st'.open_errno /\ st'.file_bytes = 0)
           /\ Len(file') <= IF orig > Limit THEN orig ELSE Limit
           /\ st'.attempted = st.attempted /\ st'.open_errno = st.open_errno
           /\ st'.truncated = cut
           /\ st.write_errno => st'.write_errno
           /\ sink /\ ~st'.write_errno => Len(file') = Len(file) + Len(out)
           /\ st.truncated \/ st.open_errno \/ st.write_errno => file' = file
<1>1. PICK n \in 0..Len(out) :
        /\ (sink /\ ~st.write_errno) \/ n = 0
        /\ file' = file \o SubSeq(out, 1, n)
        /\ st' = [st EXCEPT
                    !.bytes_written = st.bytes_written + n,
                    !.file_bytes = st.file_bytes + n,
                    !.write_errno = st.write_errno \/ (sink /\ n < Len(out)),
                    !.close_errno = st.close_errno \/ closeFails,
                    !.truncated = cut]
  BY Zenon DEF WriteBytes
<1>2. /\ file \in Seq(Byte) /\ orig \in Nat /\ st \in Status /\ Limit \in Nat
      /\ capacity \in Nat /\ accepted \in Nat /\ tail \in Seq(Byte)
      /\ n \in Nat /\ n <= Len(out) /\ Len(out) \in Nat /\ Len(file) \in Nat
      /\ accepted <= capacity
  BY LogAssumption DEF LogInv, TypeOK
<1>3. SubSeq(out, 1, n) \in Seq(Byte) /\ Len(SubSeq(out, 1, n)) = n
  BY <1>2, SubSeqFacts
<1>4. file' \in Seq(Byte) /\ Len(file') = Len(file) + n
  BY <1>1, <1>2, <1>3, ConcatFacts
<1>5. /\ st'.bytes_written = st.bytes_written + n
      /\ st'.file_bytes = st.file_bytes + n
      /\ st'.write_errno = (st.write_errno \/ (sink /\ n < Len(out)))
      /\ st'.attempted = st.attempted /\ st'.open_errno = st.open_errno
      /\ st'.truncated = cut
  BY <1>1, <1>2 DEF Status
<1>6. st' \in Status
  <2>1. /\ st.bytes_written + n \in Nat /\ st.file_bytes + n \in Nat
    BY <1>2 DEF Status
  <2>2. /\ (st.write_errno \/ (sink /\ n < Len(out))) \in BOOLEAN
        /\ (st.close_errno \/ closeFails) \in BOOLEAN
    BY Zenon
  <2> QED BY <1>1, <1>2, <2>1, <2>2, Zenon DEF Status
<1>7. orig <= Len(file') /\ st'.bytes_written = Len(file') - orig
  <2>1. orig <= Len(file) /\ st.bytes_written = Len(file) - orig
    BY DEF LogInv, CountsExact
  <2> QED BY <1>2, <1>4, <1>5, <2>1
<1>8. sink /\ ~st'.write_errno => Len(file') = Len(file) + Len(out)
  <2> SUFFICES ASSUME sink, ~st'.write_errno PROVE Len(file') = Len(file) + Len(out)
    OBVIOUS
  <2>1. ~(n < Len(out))
    BY <1>5, Zenon
  <2>2. n = Len(out)
    BY <1>2, <2>1
  <2> QED BY <1>4, <2>2
<1>9. n = 0 => file' = file
  BY <1>1, <1>2, <1>3
<1>10. st.truncated \/ st.open_errno \/ st.write_errno => n = 0
  BY <1>1, <1>2
<1>11. st'.attempted => st'.file_bytes = Len(file') \/ (st'.open_errno /\ st'.file_bytes = 0)
  <2> SUFFICES ASSUME st'.attempted
               PROVE  st'.file_bytes = Len(file') \/ (st'.open_errno /\ st'.file_bytes = 0)
    OBVIOUS
  <2>1. st.file_bytes = Len(file) \/ (st.open_errno /\ st.file_bytes = 0)
    BY <1>5, Zenon DEF LogInv, CountsExact
  <2>2. CASE st.file_bytes = Len(file)
    BY <1>4, <1>5, <2>2, Zenon
  <2>3. CASE st.open_errno /\ st.file_bytes = 0
    <3>1. n = 0
      BY <1>10, <2>3, Zenon
    <3>2. st'.file_bytes = 0
      BY <1>5, <2>3, <3>1
    <3> QED BY <1>5, <2>3, <3>2, Zenon
  <2> QED BY <2>1, <2>2, <2>3
<1>12. Len(file') <= IF orig > Limit THEN orig ELSE Limit
  <2>1. CASE n = 0
    BY <1>9, <2>1 DEF LogInv, WithinLimit
  <2>2. CASE n # 0
    <3>1. sink /\ ~st.truncated /\ ~st.open_errno /\ ~st.write_errno
      BY <1>1, <1>10, <2>2
    <3>2. Len(file) + Len(tail) + (capacity - accepted) <= Limit
      BY <3>1 DEF LogInv
    <3>3. Len(file') <= Limit
      BY <1>2, <1>4, <3>2
    <3> QED BY <1>2, <1>4, <3>3
  <2> QED BY <2>1, <2>2
<1> QED BY <1>4, <1>5, <1>6, <1>7, <1>8, <1>9, <1>10, <1>12, <1>11, Zenon

\* The initial state: nothing opened, nothing written.
LEMMA InitLog == Init => LogInv
<1> SUFFICES ASSUME Init PROVE LogInv
  OBVIOUS
<1>1. PICK n \in Existing : orig = n /\ file = [i \in 1..n |-> 1]
  BY DEF Init
<1>2. n \in Nat
  BY LogAssumption
<1>3. orig \in Nat /\ file \in Seq(Byte) /\ Len(file) = orig
  BY <1>1, <1>2 DEF Byte
<1>4. st \in Status /\ st.bytes_written = 0 /\ ~st.attempted
  BY DEF Init, Status
<1>5. TypeOK
  <2>1. given \in Seq(Byte) /\ stdio \in Seq(Byte) /\ tail \in Seq(Byte) /\ Len(tail) = 0
    BY DEF Init
  <2>2. TailSize \in Nat
    BY LogAssumption DEF TailSize
  <2>3. isOpen \in BOOLEAN /\ sink \in BOOLEAN
    BY Zenon DEF Init
  <2>4. capacity = 0 /\ accepted = 0 /\ printed = 0 /\ sessions = 0
    BY DEF Init
  <2> QED BY <1>3, <1>4, <2>1, <2>2, <2>3, <2>4 DEF TypeOK
<1>6. WithinLimit
  BY <1>3, LogAssumption DEF WithinLimit
<1> QED BY <1>3, <1>4, <1>5, <1>6 DEF LogInv, CountsExact, Init

\* Opening, by whichever path: the room is what the limit leaves above the size
\* that was read.
LEMMA WrapInv ==
    ASSUME LogInv, NEW hasSink \in BOOLEAN, NEW known \in BOOLEAN, NEW size \in Nat,
           NEW failed \in BOOLEAN, Wrap(hasSink, known, size, failed),
           \/ size = Len(file)
           \/ failed /\ size = 0
           \/ st.attempted /\ size = st.file_bytes,
           hasSink => size = Len(file),
           isOpen' \in BOOLEAN, printed' = printed, sessions' \in Nat,
           UNCHANGED <<file, orig, given, stdio>>
    PROVE  LogInv'
<1>1. /\ TypeOK /\ st \in Status /\ file \in Seq(Byte) /\ orig \in Nat
      /\ Limit \in Nat /\ MarkerSize \in Nat /\ TailSize \in Nat
      /\ orig <= Len(file) /\ CountsExact /\ WithinLimit
  BY LogAssumption DEF LogInv, TypeOK, TailSize
<1>2. /\ sink' = hasSink /\ accepted' = 0 /\ tail' = <<>>
      /\ capacity' = IF Limit < MarkerSize \/ size > Limit THEN 0 ELSE Limit - size
      /\ st' = [st EXCEPT
                !.attempted = TRUE,
                !.file_bytes = size,
                !.file_size_known = st.file_size_known \/ known,
                !.open_errno = \/ st.open_errno \/ failed
                               \/ Limit < MarkerSize \/ size > Limit]
  BY DEF Wrap
<1>3. /\ st'.attempted /\ st'.file_bytes = size
      /\ st'.bytes_written = st.bytes_written
      /\ st'.open_errno = (st.open_errno \/ failed \/ Limit < MarkerSize \/ size > Limit)
  BY <1>1, <1>2, Zenon DEF Status
<1>4. st' \in Status
  <2>1. /\ (st.file_size_known \/ known) \in BOOLEAN
        /\ (st.open_errno \/ failed \/ Limit < MarkerSize \/ size > Limit) \in BOOLEAN
    BY Zenon
  <2> QED BY <1>1, <1>2, <2>1, Zenon DEF Status
<1>5. capacity' \in Nat
  BY <1>1, <1>2
<1>6. TypeOK'
  BY <1>1, <1>2, <1>4, <1>5 DEF TypeOK
<1>7. CountsExact' /\ WithinLimit' /\ orig' <= Len(file')
  <2>1. size = Len(file) \/ (st'.open_errno /\ size = 0)
    <3>1. failed \/ st.open_errno => st'.open_errno
      BY <1>3, Zenon
    <3> QED BY <1>1, <3>1, Zenon DEF CountsExact
  <2> QED BY <1>1, <1>3, <2>1 DEF CountsExact, WithinLimit
<1>8. Len(tail') = 0 /\ Len(tail') = Least(accepted', TailSize)
  BY <1>1, <1>2 DEF Least
<1>9. sink' /\ ~st'.open_errno =>
        Len(file') + Len(tail') + (capacity' - accepted') <= Limit
  <2> SUFFICES ASSUME sink', ~st'.open_errno
               PROVE  Len(file') + Len(tail') + (capacity' - accepted') <= Limit
    OBVIOUS
  <2>1. ~(Limit < MarkerSize) /\ ~(size > Limit)
    BY <1>3, Zenon
  <2>2. capacity' = Limit - Len(file) /\ Len(file) \in Nat
    BY <1>1, <1>2, <2>1
  <2> QED BY <1>1, <1>2, <1>8, <2>2
<1> QED BY <1>2, <1>3, <1>6, <1>7, <1>8, <1>9 DEF LogInv, TailSize

\* A session that is opened keeps the invariant.
LEMMA OpenInv == LogInv /\ (OpenLogfile \/ OpenNoMemory) => LogInv'
<1> SUFFICES ASSUME LogInv, OpenLogfile \/ OpenNoMemory PROVE LogInv'
  OBVIOUS
<1>1. /\ Len(file) \in Nat /\ st.file_bytes \in Nat /\ sessions \in Nat
      /\ MaxSessions \in Nat /\ isOpen \in BOOLEAN
  BY LogAssumption DEF LogInv, TypeOK, Status
<1>2. /\ isOpen' \in BOOLEAN /\ printed' = printed /\ sessions' \in Nat
      /\ UNCHANGED <<file, orig, given, stdio>>
  <2>1. isOpen' \in BOOLEAN
    BY <1>1, Zenon DEF OpenLogfile, OpenNoMemory
  <2>2. sessions' \in Nat
    <3>1. sessions' = sessions + 1 \/ sessions' = MaxSessions
      BY Zenon DEF OpenLogfile, OpenNoMemory
    <3> QED BY <1>1, <3>1
  <2>3. printed' = printed /\ UNCHANGED <<file, orig, given, stdio>>
    BY Zenon DEF OpenLogfile, OpenNoMemory
  <2> QED BY <2>1, <2>2, <2>3
<1>3. CASE OpenNoMemory
  <2>1. PICK known \in BOOLEAN, size \in Nat :
          /\ Wrap(FALSE, known, size, TRUE)
          /\ size = Len(file) \/ size = 0 \/ (st.attempted /\ size = st.file_bytes)
    BY <1>1, <1>3, Zenon DEF OpenNoMemory, OpenPathFails, OpenStreamFails
  <2> QED BY <1>2, <2>1, WrapInv, Zenon
<1>4. CASE OpenLogfile /\ OpenDisabled
  BY <1>1, <1>2, <1>4, WrapInv, Zenon DEF OpenDisabled
<1>5. CASE OpenLogfile /\ OpenPath
  <2>1. PICK failed \in BOOLEAN : Wrap(TRUE, TRUE, Len(file), failed)
    BY <1>5, Zenon DEF OpenPath
  <2> QED BY <1>1, <1>2, <2>1, WrapInv, Zenon
<1>6. CASE OpenLogfile /\ OpenPathFails
  BY <1>1, <1>2, <1>6, WrapInv, Zenon DEF OpenPathFails
<1>7. CASE OpenLogfile /\ OpenStreamFails
  BY <1>1, <1>2, <1>7, WrapInv, Zenon DEF OpenStreamFails
<1> QED BY <1>3, <1>4, <1>5, <1>6, <1>7, Zenon DEF OpenLogfile

\* Printing only fills stdio's buffer.
LEMMA PrintfInv == ASSUME LogInv, NEW w \in Widths, Printf(w) PROVE LogInv'
<1>1. w \in 1..4 /\ printed \in Nat /\ stdio \in Seq(Byte)
  BY LogAssumption DEF LogInv, TypeOK
<1>2. Scalar(w) \in Seq(Byte)
  BY <1>1 DEF Scalar, Byte, Cont
<1>3. stdio' \in Seq(Byte) /\ printed' \in Nat
  BY <1>1, <1>2, ConcatFacts DEF Printf
<1>4. UNCHANGED <<file, orig, given, isOpen, sink, st, capacity, accepted, tail, sessions>>
  BY DEF Printf
<1>5. TypeOK'
  BY <1>3, <1>4 DEF LogInv, TypeOK
<1> QED BY <1>4, <1>5 DEF LogInv, CountsExact, WithinLimit

\* A flush hands a part of stdio's buffer to bounded_write.
LEMMA FlushInv == ASSUME LogInv, Flush PROVE LogInv'
<1>1. PICK k \in 1..Len(stdio) :
        LET chunk == SubSeq(stdio, 1, k)
            w == BoundedWrite(chunk)
        IN /\ given' = given \o chunk
           /\ stdio' = SubSeq(stdio, k + 1, Len(stdio))
           /\ tail' = w.tail
           /\ accepted' = w.accepted
           /\ WriteBytes(w.out, w.truncated, FALSE)
  BY Zenon DEF Flush
<1> DEFINE chunk == SubSeq(stdio, 1, k)
           w == BoundedWrite(chunk)
<1>2. /\ isOpen /\ isOpen' = isOpen
      /\ UNCHANGED <<orig, sink, capacity, printed, sessions>>
  BY DEF Flush
<1>3. /\ stdio \in Seq(Byte) /\ given \in Seq(Byte) /\ Len(stdio) \in Nat
      /\ capacity \in Nat /\ accepted \in Nat /\ tail \in Seq(Byte)
      /\ TailSize \in Nat /\ file \in Seq(Byte) /\ st \in Status
  BY LogAssumption DEF LogInv, TypeOK, TailSize
<1>4. chunk \in Seq(Byte) /\ SubSeq(stdio, k + 1, Len(stdio)) \in Seq(Byte)
  BY <1>3, SubSeqFacts
<1>5. /\ given' = given \o chunk /\ stdio' = SubSeq(stdio, k + 1, Len(stdio))
      /\ tail' = w.tail /\ accepted' = w.accepted
      /\ WriteBytes(w.out, w.truncated, FALSE)
  BY <1>1, Zenon
<1> HIDE DEF chunk
<1>6. /\ w.out \in Seq(Byte) /\ w.tail \in Seq(Byte)
      /\ w.accepted \in Nat /\ w.truncated \in BOOLEAN
      /\ accepted <= w.accepted /\ w.accepted <= capacity
      /\ Len(w.tail) <= TailSize
      /\ st.truncated \/ st.open_errno => w.out = <<>> /\ w.tail = <<>>
      /\ capacity < MarkerSize => w.accepted = 0
      /\ w.truncated => w.tail = <<>>
      /\ ~w.truncated => Len(w.tail) = Least(w.accepted, TailSize)
      /\ Len(w.out) + Len(w.tail) <= Len(tail) + (w.accepted - accepted)
  BY <1>2, <1>4, WriteEffect, Zenon
<1> HIDE DEF w
<1>7. Len(w.out) <= Len(tail) + (capacity - accepted)
  <2>1. Len(w.out) \in Nat /\ Len(w.tail) \in Nat /\ Len(tail) \in Nat
    BY <1>3, <1>6, SMTT(30)
  <2>2. /\ accepted <= w.accepted /\ w.accepted <= capacity /\ w.accepted \in Nat
        /\ Len(w.out) + Len(w.tail) <= Len(tail) + (w.accepted - accepted)
    BY <1>6, Zenon
  <2>3. capacity \in Nat /\ accepted \in Nat
    BY <1>3
  <2> QED BY <2>1, <2>2, <2>3, Room, Zenon
<1>8. /\ file' \in Seq(Byte) /\ st' \in Status
      /\ orig <= Len(file')
      /\ st'.bytes_written = Len(file') - orig
      /\ st'.attempted => st'.file_bytes = Len(file') \/ (st'.open_errno /\ st'.file_bytes = 0)
      /\ Len(file') <= IF orig > Limit THEN orig ELSE Limit
      /\ st'.attempted = st.attempted /\ st'.open_errno = st.open_errno
      /\ st'.truncated = w.truncated
      /\ st.write_errno => st'.write_errno
      /\ sink /\ ~st'.write_errno => Len(file') = Len(file) + Len(w.out)
  BY <1>2, <1>5, <1>6, <1>7, Appending, Zenon
<1>9. given' \in Seq(Byte) /\ stdio' \in Seq(Byte)
  BY <1>3, <1>4, <1>5, ConcatFacts
<1>10. TypeOK'
  BY <1>2, <1>3, <1>5, <1>6, <1>8, <1>9 DEF LogInv, TypeOK
<1>11. CountsExact' /\ WithinLimit' /\ orig' <= Len(file')
  BY <1>2, <1>8 DEF CountsExact, WithinLimit
<1>12. /\ st'.attempted
       /\ capacity' < MarkerSize => accepted' = 0
       /\ st'.truncated \/ st'.open_errno => tail' = <<>>
       /\ ~st'.truncated => Len(tail') = Least(accepted', TailSize)
  <2>1. st.attempted
    BY <1>2 DEF LogInv
  <2> QED BY <1>2, <1>5, <1>6, <1>8, <2>1
<1>13. sink' /\ ~st'.truncated /\ ~st'.open_errno /\ ~st'.write_errno =>
         Len(file') + Len(tail') + (capacity' - accepted') <= Limit
  <2> SUFFICES ASSUME sink', ~st'.truncated, ~st'.open_errno, ~st'.write_errno
               PROVE  Len(file') + Len(tail') + (capacity' - accepted') <= Limit
    OBVIOUS
  <2>1. sink /\ ~st.open_errno /\ ~st.write_errno /\ ~w.truncated
    BY <1>2, <1>8
  <2>2. ~st.truncated
    BY <1>3, <1>5, <1>8, <2>1 DEF w, BoundedWrite
  <2>3. Len(file) + Len(tail) + (capacity - accepted) <= Limit
    BY <1>2, <2>1, <2>2 DEF LogInv
  <2>4. Len(file') = Len(file) + Len(w.out)
    BY <1>2, <1>8, <2>1
  <2>5. /\ Len(file) \in Nat /\ Len(tail) \in Nat /\ Len(w.out) \in Nat
        /\ Len(w.tail) \in Nat /\ Limit \in Nat
    BY SMTT(30), <1>3, <1>6, LogAssumption
  <2>6. Len(w.out) + Len(w.tail) <= Len(tail) + (w.accepted - accepted) /\ w.accepted \in Nat
    BY <1>6, Zenon
  <2>7. Len(file') + Len(w.tail) + (capacity - w.accepted) <= Limit
    <3>1. capacity \in Nat /\ accepted \in Nat
      BY <1>3
    <3> DEFINE o == Len(w.out)
               t == Len(w.tail)
               r == Len(tail)
               b == w.accepted
               f == Len(file)
    <3>2. /\ o \in Nat /\ t \in Nat /\ r \in Nat /\ b \in Nat /\ f \in Nat
          /\ o + t <= r + (b - accepted)
          /\ f + r + (capacity - accepted) <= Limit
          /\ Len(file') = f + o
      BY <2>3, <2>4, <2>5, <2>6, Zenon
    <3> HIDE DEF o, t, r, b, f
    <3>3. f + o + t + (capacity - b) <= Limit
      BY <2>5, <3>1, <3>2
    <3> QED BY <3>2, <3>3, Zenon DEF t, b
  <2> QED BY <1>2, <1>5, <2>7
<1> QED BY <1>2, <1>10, <1>11, <1>12, <1>13 DEF LogInv, TailSize

\* Close writes the rest of the buffer and what was held back; nothing is held
\* back any more.  Only the file, the counts and the history are left to check.
LEMMA CloseInv ==
    ASSUME LogInv, Close
    PROVE  /\ LogInv'
           /\ st.truncated \/ st.open_errno \/ st.write_errno => file' = file
<1> DEFINE w == BoundedWrite(stdio)
<1>1. PICK closeFails \in BOOLEAN : WriteBytes(w.out \o w.tail, w.truncated, closeFails)
  BY DEF Close
<1>2. /\ isOpen /\ ~isOpen' /\ isOpen' \in BOOLEAN /\ sink' \in BOOLEAN
      /\ given' = given \o stdio /\ stdio' = <<>> /\ tail' = <<>>
      /\ UNCHANGED <<orig, capacity, accepted, printed, sessions>>
  BY Zenon DEF Close
<1>3. /\ stdio \in Seq(Byte) /\ given \in Seq(Byte) /\ TailSize \in Nat
      /\ capacity \in Nat /\ accepted \in Nat /\ Len(tail) \in Nat
  BY LogAssumption DEF LogInv, TypeOK, TailSize
<1>4. /\ w.out \in Seq(Byte) /\ w.tail \in Seq(Byte)
      /\ w.accepted \in Nat /\ w.truncated \in BOOLEAN
      /\ w.accepted <= capacity
      /\ st.truncated \/ st.open_errno => w.out = <<>> /\ w.tail = <<>>
      /\ Len(w.out) + Len(w.tail) <= Len(tail) + (w.accepted - accepted)
  BY <1>2, <1>3, WriteEffect, Zenon
<1> HIDE DEF w
<1>5. /\ w.out \o w.tail \in Seq(Byte)
      /\ Len(w.out \o w.tail) = Len(w.out) + Len(w.tail)
  BY <1>4, ConcatFacts
<1>6. Len(w.out \o w.tail) <= Len(tail) + (capacity - accepted)
  <2>1. Len(w.out) \in Nat /\ Len(w.tail) \in Nat
    BY <1>4
  <2>2. /\ w.accepted \in Nat /\ w.accepted <= capacity
        /\ Len(w.out) + Len(w.tail) <= Len(tail) + (w.accepted - accepted)
    BY <1>4, Zenon
  <2>3. Len(w.out) + Len(w.tail) <= Len(tail) + (capacity - accepted)
    BY <1>3, <2>1, <2>2, Room, Zenon
  <2> QED BY <1>5, <2>3, Zenon
<1>7. st.truncated \/ st.open_errno => w.out \o w.tail = <<>>
  BY <1>4
<1>8. /\ file' \in Seq(Byte) /\ st' \in Status
      /\ orig <= Len(file')
      /\ st'.bytes_written = Len(file') - orig
      /\ st'.attempted => st'.file_bytes = Len(file') \/ (st'.open_errno /\ st'.file_bytes = 0)
      /\ Len(file') <= IF orig > Limit THEN orig ELSE Limit
      /\ st.truncated \/ st.open_errno \/ st.write_errno => file' = file
  BY <1>1, <1>2, <1>4, <1>5, <1>6, <1>7, Appending, Zenon
<1>9. /\ given' \in Seq(Byte) /\ stdio' \in Seq(Byte) /\ tail' \in Seq(Byte)
      /\ Len(tail') <= TailSize
  BY <1>2, <1>3, ConcatFacts
<1>10. TypeOK'
  BY <1>2, <1>8, <1>9 DEF LogInv, TypeOK
<1> QED BY <1>2, <1>8, <1>10 DEF LogInv, CountsExact, WithinLimit

\* Every step keeps the invariant.
LEMMA StepInv == LogInv /\ [Next]_vars => LogInv'
<1> SUFFICES ASSUME LogInv, [Next]_vars PROVE LogInv'
  OBVIOUS
<1>1. CASE OpenLogfile \/ OpenNoMemory
  BY <1>1, OpenInv
<1>2. ASSUME NEW w \in Widths, Printf(w) PROVE LogInv'
  BY <1>2, PrintfInv
<1>3. CASE Flush
  BY <1>3, FlushInv
<1>4. CASE Close
  BY <1>4, CloseInv
<1>5. CASE UNCHANGED vars
  BY <1>5 DEF vars, LogInv, TypeOK, CountsExact, WithinLimit
<1> QED BY <1>1, <1>2, <1>3, <1>4, <1>5 DEF Next

\* The invariant holds in every reachable state.
THEOREM LogInvariant == Spec => []LogInv
  BY InitLog, StepInv, PTL DEF Spec

\* The byte budget: whatever is printed, wherever stdio splits it, whichever
\* write, open or close fails and however often a persistent server reopens the
\* log, the file never has more bytes than the limit allows (bounded_write).
THEOREM BudgetKept == Spec => []WithinLimit
<1>1. LogInv => WithinLimit
  BY DEF LogInv
<1> QED BY <1>1, LogInvariant, PTL

\* The completion's byte counts are exact, short writes included (write_bytes).
THEOREM CountsKept == Spec => []CountsExact
<1>1. LogInv => CountsExact
  BY DEF LogInv
<1> QED BY <1>1, LogInvariant, PTL

\* A log that is truncated or has failed never touches the file again.
THEOREM StaysSilent == Spec => DisabledIsSilent
<1>1. LogInv /\ [Next]_vars =>
        [st.truncated \/ st.open_errno \/ st.write_errno => file' = file]_vars
  <2> SUFFICES ASSUME LogInv, Next, st.truncated \/ st.open_errno \/ st.write_errno
               PROVE  file' = file
    OBVIOUS
  <2>1. CASE OpenLogfile \/ OpenNoMemory
    BY <2>1, Zenon DEF OpenLogfile, OpenNoMemory
  <2>2. ASSUME NEW w \in Widths, Printf(w) PROVE file' = file
    BY <2>2 DEF Printf
  <2>3. CASE Flush
    <3>1. PICK k \in 1..Len(stdio) :
            LET w == BoundedWrite(SubSeq(stdio, 1, k))
            IN WriteBytes(w.out, w.truncated, FALSE)
      BY <2>3, Zenon DEF Flush
    <3> DEFINE w == BoundedWrite(SubSeq(stdio, 1, k))
    <3>2. w.out = <<>>
      BY DEF BoundedWrite
    <3>3. PICK n \in 0..Len(w.out) : file' = file \o SubSeq(w.out, 1, n)
      BY SMTT(30), <3>1 DEF WriteBytes
    <3> HIDE DEF w
    <3>4. n = 0 /\ SubSeq(w.out, 1, n) = <<>>
      BY <3>2, <3>3
    <3>5. file \in Seq(Byte)
      BY DEF LogInv, TypeOK
    <3> QED BY <3>3, <3>4, <3>5
  <2>4. CASE Close
    BY <2>4, CloseInv
  <2> QED BY <2>1, <2>2, <2>3, <2>4 DEF Next
<1> QED BY <1>1, LogInvariant, PTL DEF Spec, DisabledIsSilent
-----------------------------------------------------------------------------
(* What is in the file *)

\* The log takes what is printed: nothing was cut and no open or write failed.
Healthy == ~st.truncated /\ ~st.open_errno /\ ~st.write_errno

\* Every continuation byte belongs to a lead byte at most three bytes before it.
Text(s) ==
    \A i \in 1..Len(s) : s[i] = Cont =>
        \E d \in 1..3 : /\ d < i /\ s[i - d] \in 2..4 /\ d < s[i - d]
                        /\ \A j \in (i - d + 1)..i : s[j] = Cont

\* After what f had before the run come n bytes of g and m of the marker.
Appended(f, g, n, m) ==
    /\ Len(f) = orig + n + m
    /\ \A i \in 1..n : f[orig + i] = g[i]
    /\ \A i \in 1..m : f[orig + n + i] = Mark

\* g goes on with a new scalar after n bytes.
Cut(g, n) == n < Len(g) /\ g[n + 1] # Cont

\* What was printed, handed to bounded_write or not.
AllPrinted == given \o stdio

FileInv ==
    \E n \in 0..Len(given), m \in 0..MarkerSize :
        /\ Appended(file, given, n, m)
        /\ m > 0 => st.truncated /\ Cut(given, n)
        /\ m \in {0, MarkerSize} \/ st.write_errno

\* The text of a session begins with a scalar.  While the log is healthy all of it was
\* accepted, and with a sink it is in the file except for the tail.
SessionInv ==
    isOpen /\ Healthy =>
        /\ accepted <= Len(given)
        /\ Len(given) - accepted < Len(AllPrinted) => AllPrinted[Len(given) - accepted + 1] # Cont
        /\ orig + Len(given) + (capacity - accepted) >= Limit
        /\ sink => /\ Len(file) + Len(tail) = orig + Len(given)
                   /\ \A i \in 1..Len(tail) : tail[i] = given[Len(given) - Len(tail) + i]

\* Why the output was cut, and that a reopening finds as little room.
CutInv ==
    /\ st.truncated =>
         /\ st.file_bytes = Len(file)
         /\ orig + Len(given) > Limit \/ (capacity < MarkerSize /\ Len(file) + MarkerSize > Limit)
    /\ isOpen /\ ~st.open_errno /\ capacity < MarkerSize => Len(file) + MarkerSize > Limit

\* Which session has a sink, and what is left of a session that is closed.
PhaseInv ==
    /\ Disabled => st.attempted
    /\ isOpen /\ ~Disabled => sink
    /\ sink => isOpen
    /\ ~isOpen => stdio = <<>>
    /\ ~isOpen /\ ~Disabled => Len(file) = orig + Len(given)

PrefixInv == Text(AllPrinted) /\ FileInv /\ SessionInv /\ CutInv /\ PhaseInv

-----------------------------------------------------------------------------
\* A concatenation, byte by byte.
LEMMA ConcatAt ==
    ASSUME NEW S, NEW s \in Seq(S), NEW t \in Seq(S)
    PROVE  /\ \A i \in 1..Len(s) : (s \o t)[i] = s[i]
           /\ \A i \in 1..Len(t) : (s \o t)[Len(s) + i] = t[i]
OBVIOUS

\* The beginning of a sequence, byte by byte.
LEMMA FrontAt ==
    ASSUME NEW S, NEW s \in Seq(S), NEW n \in 0..Len(s)
    PROVE  /\ SubSeq(s, 1, n) \in Seq(S) /\ Len(SubSeq(s, 1, n)) = n
           /\ \A i \in 1..n : SubSeq(s, 1, n)[i] = s[i]
OBVIOUS

\* The rest of a sequence, byte by byte.
LEMMA RestAt ==
    ASSUME NEW S, NEW s \in Seq(S), NEW n \in 0..Len(s)
    PROVE  /\ SubSeq(s, n + 1, Len(s)) \in Seq(S) /\ Len(SubSeq(s, n + 1, Len(s))) = Len(s) - n
           /\ \A i \in 1..(Len(s) - n) : SubSeq(s, n + 1, Len(s))[i] = s[n + i]
OBVIOUS

\* Sequences with the same bytes are the same.
LEMMA SameSeq ==
    ASSUME NEW S, NEW s \in Seq(S), NEW t \in Seq(S), Len(s) = Len(t),
           \A i \in 1..Len(s) : s[i] = t[i]
    PROVE  s = t
OBVIOUS

\* What stands before a cut of a text is a text.
LEMMA TextFront ==
    ASSUME NEW s \in Seq(Byte), NEW t \in Seq(Byte), Text(s \o t)
    PROVE  Text(s)
<1>1. PICK u : u = s \o t
  BY Zenon
<1>2. /\ u \in Seq(Byte) /\ Len(u) = Len(s) + Len(t) /\ Text(u) /\ Len(s) \in Nat /\ Len(t) \in Nat
      /\ \A i \in 1..Len(s) : u[i] = s[i]
  BY <1>1, ConcatFacts, ConcatAt
<1>3. SUFFICES ASSUME NEW i \in 1..Len(s), s[i] = Cont
               PROVE  \E d \in 1..3 : /\ d < i /\ s[i - d] \in 2..4 /\ d < s[i - d]
                                      /\ \A j \in (i - d + 1)..i : s[j] = Cont
  BY DEF Text
<1>4. i \in 1..Len(u) /\ u[i] = Cont
  BY <1>2, <1>3
<1>5. PICK d \in 1..3 : /\ d < i /\ u[i - d] \in 2..4 /\ d < u[i - d]
                        /\ \A j \in (i - d + 1)..i : u[j] = Cont
  BY <1>2, <1>4, Zenon DEF Text
<1>6. i - d \in 1..Len(s) /\ \A j \in (i - d + 1)..i : j \in 1..Len(s)
  BY <1>2, <1>5
<1>7. u[i - d] = s[i - d] /\ \A j \in (i - d + 1)..i : s[j] = Cont
  BY <1>2, <1>5, <1>6, Zenon
<1> QED BY <1>5, <1>7, Zenon

\* A text stays one when a scalar is printed.
LEMMA TextScalar ==
    ASSUME NEW s \in Seq(Byte), Text(s), NEW w \in 1..4
    PROVE  /\ Scalar(w) \in Seq(Byte) /\ Len(Scalar(w)) = w /\ Scalar(w)[1] # Cont
           /\ Text(s \o Scalar(w))
<1>1. PICK t : t = Scalar(w)
  OBVIOUS
<1>2. /\ t \in Seq(Byte) /\ Len(t) = w /\ t[1] = w /\ \A i \in 2..w : t[i] = Cont
  BY <1>1 DEF Scalar, Byte, Cont
<1>3. PICK u : u = s \o t
  BY Zenon
<1>4. /\ u \in Seq(Byte) /\ Len(u) = Len(s) + w /\ Len(s) \in Nat
      /\ \A i \in 1..Len(s) : u[i] = s[i]
      /\ \A i \in 1..w : u[Len(s) + i] = t[i]
  BY <1>2, <1>3, ConcatFacts, ConcatAt
<1>5. ASSUME NEW i \in 1..Len(u), u[i] = Cont
      PROVE  \E d \in 1..3 : /\ d < i /\ u[i - d] \in 2..4 /\ d < u[i - d]
                             /\ \A j \in (i - d + 1)..i : u[j] = Cont
  <2>1. CASE i <= Len(s)
    <3>1. i \in 1..Len(s) /\ s[i] = Cont
      BY <1>4, <1>5, <2>1
    <3>2. PICK d \in 1..3 : /\ d < i /\ s[i - d] \in 2..4 /\ d < s[i - d]
                            /\ \A j \in (i - d + 1)..i : s[j] = Cont
      BY <3>1, Zenon DEF Text
    <3>3. i - d \in 1..Len(s) /\ \A j \in (i - d + 1)..i : j \in 1..Len(s)
      BY <1>4, <3>1, <3>2
    <3>4. u[i - d] = s[i - d] /\ \A j \in (i - d + 1)..i : u[j] = Cont
      BY <1>4, <3>2, <3>3, Zenon
    <3> QED BY <3>2, <3>4, Zenon
  <2>2. CASE ~(i <= Len(s))
    <3>0. Len(s) \in Nat /\ i \in 1..(Len(s) + w)
      BY <1>4, <1>5, Zenon
    <3>1. i - Len(s) \in 1..w /\ i = Len(s) + (i - Len(s))
      BY <2>2, <3>0
    <3>2. PICK k \in 1..w : i = Len(s) + k
      BY <3>1, Zenon
    <3>3. u[i] = t[k]
      BY <1>4, <3>2, Zenon
    <3>4. k # 1
      BY <1>2, <1>5, <3>3 DEF Cont
    <3>5. PICK d \in Int : d = k - 1
      BY <3>0
    <3>6. d \in 1..3 /\ d < i /\ i - d = Len(s) + 1 /\ d < w /\ w \in 2..4
      BY <1>4, <3>2, <3>4, <3>5
    <3>7. u[i - d] = w
      <4>1. 1 \in 1..w
        OBVIOUS
      <4> QED BY <1>2, <1>4, <3>6, <4>1, Zenon
    <3>8. ASSUME NEW j \in (i - d + 1)..i PROVE u[j] = Cont
      <4>1. PICK l \in 2..w : j = Len(s) + l
        <5>1. j - Len(s) \in 2..w /\ j = Len(s) + (j - Len(s))
          BY <1>4, <3>2, <3>6
        <5> QED BY <5>1, Zenon
      <4>2. l \in 1..w
        OBVIOUS
      <4> QED BY <1>2, <1>4, <4>1, <4>2, Zenon
    <3> QED BY <3>6, <3>7, <3>8, Zenon
  <2> QED BY <2>1, <2>2, Zenon
<1>6. Text(u)
  BY <1>5, Zenon DEF Text
<1>7. t[1] # Cont
  BY <1>2 DEF Cont
<1> QED BY <1>1, <1>2, <1>3, <1>6, <1>7, Zenon

\* The file has the same of a text that goes on.
LEMMA AppendedGrows ==
    ASSUME NEW f \in Seq(Byte), NEW g \in Seq(Byte), NEW c \in Seq(Byte), NEW n \in 0..Len(g), NEW m \in Nat,
           Appended(f, g, n, m)
    PROVE  /\ n \in 0..Len(g \o c) /\ Appended(f, g \o c, n, m)
           /\ Cut(g, n) => Cut(g \o c, n)
<1>1. PICK u : u = g \o c
  BY Zenon
<1>2. /\ Len(u) = Len(g) + Len(c) /\ Len(g) \in Nat /\ Len(c) \in Nat
      /\ \A i \in 1..Len(g) : u[i] = g[i]
  BY <1>1, ConcatFacts, ConcatAt
<1>3. n \in 0..Len(u) /\ \A i \in 1..n : i \in 1..Len(g)
  BY <1>2
<1>4. Appended(f, u, n, m)
  BY <1>2, <1>3, Zenon DEF Appended
<1>5. Cut(g, n) => Cut(u, n)
  <2>1. n < Len(g) => n < Len(u) /\ n + 1 \in 1..Len(g)
    BY <1>2
  <2> QED BY <1>2, <2>1, Zenon DEF Cut
<1> QED BY <1>1, <1>3, <1>4, <1>5, Zenon

\* What a write hands to the sink when the file has n bytes of g: q more bytes of g
\* and then, if the output is cut there, the marker.
Goes(out, g, n, q, p) ==
    /\ Len(out) = q + p /\ n + q <= Len(g)
    /\ \A i \in 1..q : out[i] = g[n + i]
    /\ \A i \in 1..p : out[q + i] = Mark

Shape(out, g, n, cut) ==
    \E q \in Nat, p \in {0, MarkerSize} :
        Goes(out, g, n, q, p) /\ (p > 0 => cut /\ Cut(g, n + q))

\* The file's length, regrouped.
LEMMA Sums ==
    ASSUME NEW a \in Nat, NEW b \in Nat, NEW c \in Nat, NEW d \in Nat
    PROVE  a + b + c = a + (b + d) + (c - d)
OBVIOUS

\* Wherever the write stops, the file has a part of the text and of the marker.
LEMMA Continues ==
    ASSUME orig \in Nat, NEW f \in Seq(Byte), NEW g \in Seq(Byte), NEW n \in Nat, Appended(f, g, n, 0),
           NEW out \in Seq(Byte), NEW q \in Nat, NEW p \in Nat, Goes(out, g, n, q, p),
           NEW x \in 0..Len(out), NEW h, h = f \o SubSeq(out, 1, x)
    PROVE  /\ x <= q => Appended(h, g, n + x, 0)
           /\ x > q => Appended(h, g, n + q, x - q)
<1>1. PICK o : o = SubSeq(out, 1, x)
  BY Zenon
<1>2. o \in Seq(Byte) /\ Len(o) = x /\ x \in Nat /\ \A i \in 1..x : o[i] = out[i]
  BY <1>1, FrontAt
<1>3. /\ Len(f) = orig + n /\ \A i \in 1..n : f[orig + i] = g[i]
  BY DEF Appended
<1>4. /\ Len(h) = orig + n + x
      /\ \A i \in 1..Len(f) : h[i] = f[i]
      /\ \A i \in 1..x : h[Len(f) + i] = o[i]
  <2>0. h = f \o o /\ o \in Seq(Byte)
    BY <1>1, <1>2, Zenon
  <2>1. Len(h) = Len(f) + Len(o)
    BY <2>0, ConcatFacts, Zenon
  <2>2. /\ \A i \in 1..Len(f) : h[i] = f[i]
        /\ \A i \in 1..Len(o) : h[Len(f) + i] = o[i]
    BY <2>0, ConcatAt
  <2> QED BY <1>2, <1>3, <2>1, <2>2, Zenon
<1>5. ASSUME NEW i \in 1..n PROVE h[orig + i] = g[i]
  <2>1. orig + i \in 1..Len(f)
    BY <1>3
  <2> QED BY <1>3, <1>4, <2>1, Zenon
<1>6. ASSUME NEW i \in 1..x PROVE h[orig + n + i] = out[i]
  BY <1>2, <1>3, <1>4, Zenon
<1>7. ASSUME NEW k \in Nat, k <= x, k <= q PROVE \A i \in 1..(n + k) : h[orig + i] = g[i]
  <2> TAKE i \in 1..(n + k)
  <2>1. CASE i <= n
    <3>1. i \in 1..n
      BY <2>1
    <3> QED BY <1>5, <3>1, Zenon
  <2>2. CASE ~(i <= n)
    <3>1. PICK j \in 1..k : i = n + j
      <4>1. i - n \in 1..k /\ i = n + (i - n)
        BY <2>2
      <4> QED BY <4>1, Zenon
    <3>2. j \in 1..x /\ j \in 1..q /\ orig + i = orig + n + j
      BY <1>2, <1>7, <3>1
    <3>3. h[orig + n + j] = out[j] /\ out[j] = g[n + j]
      BY <1>6, <3>2, Zenon DEF Goes
    <3> QED BY <3>1, <3>2, <3>3, Zenon
  <2> QED BY <2>1, <2>2, Zenon
<1>8. CASE x <= q
  <2>0. x \in Nat /\ x <= x
    BY <1>2
  <2>1. \A i \in 1..(n + x) : h[orig + i] = g[i]
    BY <1>7, <1>8, <2>0, Zenon
  <2>2. n + x \in Nat /\ Len(h) = orig + (n + x) + 0 /\ 1..0 = {} /\ ~(x > q)
    BY <1>2, <1>4, <1>8
  <2> QED BY <2>1, <2>2, Zenon DEF Appended
<1>9. CASE x > q
  <2>0. q <= x /\ q <= q
    BY <1>2, <1>9
  <2>1. \A i \in 1..(n + q) : h[orig + i] = g[i]
    BY <1>7, <2>0, Zenon
  <2>2. Len(h) = orig + (n + q) + (x - q) /\ ~(x <= q)
    <3>0. x \in Nat
      BY <1>2, Zenon
    <3>1. orig + n + x = orig + (n + q) + (x - q)
      BY <3>0, Sums, SMTT(30)
    <3>2. ~(x <= q)
      BY <1>2, <1>9
    <3> QED BY <1>4, <3>1, <3>2, Zenon
  <2>3. ASSUME NEW i \in 1..(x - q) PROVE h[orig + (n + q) + i] = Mark
    <3>1. q + i \in 1..x /\ orig + (n + q) + i = orig + n + (q + i) /\ i \in 1..p
      BY <1>2, <1>9 DEF Goes
    <3>2. h[orig + n + (q + i)] = out[q + i] /\ out[q + i] = Mark
      BY <1>6, <3>1, Zenon DEF Goes
    <3> QED BY <3>1, <3>2, Zenon
  <2> QED BY <2>1, <2>2, <2>3, Zenon DEF Appended
<1>10. x <= q \/ x > q
  BY <1>2
<1> QED BY <1>8, <1>9, <1>10, Zenon

\* Counting from the end of a part that starts after a and has l bytes.
LEMMA FromTheEnd ==
    ASSUME NEW a \in Nat, NEW l \in Nat, NEW d \in 1..l
    PROVE  \A i, t : i = (a + l) + 1 /\ t = l - d + 1 =>
              /\ t \in 1..l /\ a + t = i - d
              /\ \A j \in (t + 1)..l : j \in 1..l /\ a + j \in (i - d + 1)..i
OBVIOUS

\* utf8_prefix finds a place where a new scalar begins: of the text g up to its byte e,
\* the last bytes are held, at least MarkerSize and three more unless the session has
\* less, and its text begins after byte b.
LEMMA CutsBetweenScalars ==
    ASSUME NEW g \in Seq(Byte), Text(g), NEW b \in Nat, NEW e \in Nat, e <= Len(g), b + MarkerSize <= e,
           g[b + 1] # Cont, NEW room \in Seq(Byte), NEW a \in Nat, a + Len(room) + MarkerSize = e,
           Len(room) = Least(e - b, TailSize) - MarkerSize,
           \A i \in 1..Len(room) : room[i] = g[a + i]
    PROVE  Cut(g, a + Utf8Prefix(room))
<1>0. MarkerSize \in Nat /\ MarkerSize >= 1 /\ TailSize = MarkerSize + 3 /\ Len(room) \in Nat /\ Len(g) \in Nat
  BY LogAssumption DEF TailSize
<1>1. CASE \E k \in 1..Len(room) : Incomplete(room, k)
  <2>1. PICK k : k = (CHOOSE l \in 1..Len(room) : Incomplete(room, l))
    OBVIOUS
  <2>2. k \in 1..Len(room) /\ Incomplete(room, k) /\ Utf8Prefix(room) = Len(room) - k
    BY <1>1, <2>1 DEF Utf8Prefix
  <2>3. PICK q \in Nat : q = Len(room) - k
    BY <1>0, <2>2
  <2>4. q + 1 \in 1..Len(room) /\ Len(room) - k + 1 = q + 1 /\ a + (q + 1) = (a + q) + 1 /\ a + q < Len(g)
    BY <1>0, <2>2, <2>3, SMTT(30)
  <2>5. room[q + 1] \in 2..4 /\ room[q + 1] = g[(a + q) + 1]
    BY <2>2, <2>4, Zenon DEF Incomplete
  <2>6. g[(a + q) + 1] # Cont
    BY <2>5 DEF Cont
  <2> QED BY <2>2, <2>3, <2>4, <2>6, Zenon DEF Cut
<1>2. CASE ~ \E k \in 1..Len(room) : Incomplete(room, k)
  <2>1. Utf8Prefix(room) = Len(room)
    BY <1>2, Zenon DEF Utf8Prefix
  <2>2. PICK i \in Nat : i = (a + Len(room)) + 1
    BY <1>0
  <2>3. i \in 1..Len(g) /\ a + Len(room) < Len(g) /\ i >= b + 1
    BY <1>0, <2>2
  <2>4. ASSUME g[i] = Cont PROVE FALSE
    <3>1. PICK d \in 1..3 : /\ d < i /\ g[i - d] \in 2..4 /\ d < g[i - d]
                            /\ \A j \in (i - d + 1)..i : g[j] = Cont
      BY <2>3, <2>4, Zenon DEF Text
    <3>2. i - d >= b + 1
      <4>1. ~(b + 1 \in (i - d + 1)..i)
        BY <3>1, Zenon
      <4> QED BY <2>2, <2>3, <4>1
    <3>3. d \in 1..Len(room)
      BY <1>0, <2>2, <3>2 DEF Least
    <3>4. PICK t : t = Len(room) - d + 1
      OBVIOUS
    <3>5. /\ t \in 1..Len(room) /\ a + t = i - d
          /\ \A j \in (t + 1)..Len(room) : j \in 1..Len(room) /\ a + j \in (i - d + 1)..i
      <4>0. PICK l : l = Len(room)
        OBVIOUS
      <4>1. l \in Nat /\ d \in 1..l /\ i = (a + l) + 1 /\ t = l - d + 1
        BY <1>0, <2>2, <3>3, <3>4, <4>0, Zenon
      <4>2. /\ t \in 1..l /\ a + t = i - d
            /\ \A j \in (t + 1)..l : j \in 1..l /\ a + j \in (i - d + 1)..i
        BY <4>1, FromTheEnd
      <4> QED BY <4>0, <4>2, Zenon
    <3>6. room[t] = g[i - d]
      BY <3>5, Zenon
    <3>7. ASSUME NEW j \in (t + 1)..Len(room) PROVE room[j] = Cont
      <4>1. j \in 1..Len(room) /\ a + j \in (i - d + 1)..i
        BY <3>5, Zenon
      <4> QED BY <3>1, <4>1, Zenon
    <3>8. Incomplete(room, d)
      BY <3>1, <3>4, <3>6, <3>7, Zenon DEF Incomplete
    <3> QED BY <1>2, <3>3, <3>8, Zenon
  <2> QED BY <2>1, <2>2, <2>3, <2>4, Zenon DEF Cut
<1> QED BY <1>1, <1>2, Zenon

\* The parts of one write of an enabled log, named as in bounded_write.
Parts(chunk, keep, held, flush, rest, w) ==
    /\ keep = Least(Len(chunk), capacity - accepted)
    /\ held = tail \o SubSeq(chunk, 1, keep)
    /\ flush = IF Len(held) > TailSize THEN Len(held) - TailSize ELSE 0
    /\ rest = SubSeq(held, flush + 1, Len(held))
    /\ w = WriteEnabled(chunk)

\* What they are.
PartsAre(chunk, keep, held, flush, rest, w) ==
    /\ keep \in Nat /\ keep <= Len(chunk) /\ keep <= capacity - accepted
    /\ held \in Seq(Byte) /\ Len(held) = Len(tail) + keep
    /\ flush \in Nat /\ flush <= Len(held)
    /\ rest \in Seq(Byte) /\ Len(rest) = Len(held) - flush /\ Len(rest) = Least(accepted + keep, TailSize)
    /\ w.accepted = accepted + keep
    /\ w.truncated <=> (Len(chunk) > capacity - accepted)
    /\ ~w.truncated => keep = Len(chunk) /\ w.out = SubSeq(held, 1, flush) /\ w.tail = rest
    /\ w.truncated =>
         /\ keep = capacity - accepted /\ w.tail = <<>>
         /\ w.out = SubSeq(held, 1, flush)
                      \o SubSeq(rest, 1, Utf8Prefix(SubSeq(rest, 1, Len(rest) - MarkerSize))) \o Marker

\* They are that whenever the log is enabled.
LEMMA WriteParts ==
    ASSUME TypeOK, NEW chunk \in Seq(Byte), capacity >= MarkerSize,
           Len(tail) = Least(accepted, TailSize),
           NEW keep, NEW held, NEW flush, NEW rest, NEW w, Parts(chunk, keep, held, flush, rest, w)
    PROVE  PartsAre(chunk, keep, held, flush, rest, w)
<1>1. /\ MarkerSize \in Nat \ {0} /\ TailSize \in Nat /\ TailSize = MarkerSize + 3
      /\ capacity \in Nat /\ accepted \in Nat /\ accepted <= capacity
      /\ tail \in Seq(Byte) /\ Len(tail) \in Nat /\ Len(chunk) \in Nat
  BY LogAssumption DEF TypeOK, TailSize
<1>3. /\ keep \in Nat /\ keep <= Len(chunk) /\ keep <= capacity - accepted
      /\ (Len(chunk) > capacity - accepted) => keep = capacity - accepted
      /\ ~(Len(chunk) > capacity - accepted) => keep = Len(chunk)
      /\ keep \in 0..Len(chunk)
  <2>1. keep = Least(Len(chunk), capacity - accepted)
    BY DEF Parts
  <2> QED BY <1>1, <2>1 DEF Least
<1>5. held \in Seq(Byte) /\ Len(held) = Len(tail) + keep
  <2>1. SubSeq(chunk, 1, keep) \in Seq(Byte) /\ Len(SubSeq(chunk, 1, keep)) = keep
    BY <1>3, FrontAt, Zenon
  <2>2. held = tail \o SubSeq(chunk, 1, keep)
    BY DEF Parts
  <2> QED BY <1>1, <2>1, <2>2, ConcatFacts, Zenon
<1>7. /\ flush \in Nat /\ flush <= Len(held) /\ flush \in 0..Len(held)
      /\ Len(held) - flush = Least(accepted + keep, TailSize)
  <2>1. flush = IF Len(held) > TailSize THEN Len(held) - TailSize ELSE 0
    BY DEF Parts
  <2> QED BY <1>1, <1>3, <1>5, <2>1 DEF Least
<1>9. rest \in Seq(Byte) /\ Len(rest) = Len(held) - flush
  <2>1. rest = SubSeq(held, flush + 1, Len(held))
    BY DEF Parts
  <2> QED BY <1>5, <1>7, <2>1, RestAt, Zenon
<1>10. PICK cut, all, later :
         /\ cut <=> (Len(chunk) > capacity - accepted)
         /\ all = IF Len(chunk) > capacity - accepted
                  THEN SubSeq(held, 1, flush)
                         \o SubSeq(rest, 1, Utf8Prefix(SubSeq(rest, 1, Len(rest) - MarkerSize))) \o Marker
                  ELSE SubSeq(held, 1, flush)
         /\ later = IF Len(chunk) > capacity - accepted THEN <<>> ELSE rest
         /\ w = [out |-> all, tail |-> later, accepted |-> accepted + keep, truncated |-> cut]
  BY Zenon DEF WriteEnabled, Parts
<1>11. /\ w.out = all /\ w.tail = later /\ w.accepted = accepted + keep
       /\ w.truncated <=> cut
  BY <1>10
<1>12. w.truncated <=> (Len(chunk) > capacity - accepted)
  BY <1>10, <1>11, Zenon
<1>13. ~w.truncated => keep = Len(chunk) /\ w.out = SubSeq(held, 1, flush) /\ w.tail = rest
  BY <1>3, <1>10, <1>11, <1>12, Zenon
<1>14. w.truncated =>
         /\ keep = capacity - accepted /\ w.tail = <<>>
         /\ w.out = SubSeq(held, 1, flush)
                      \o SubSeq(rest, 1, Utf8Prefix(SubSeq(rest, 1, Len(rest) - MarkerSize))) \o Marker
  BY <1>3, <1>10, <1>11, <1>12, Zenon
<1> QED BY <1>3, <1>5, <1>7, <1>9, <1>11, <1>12, <1>13, <1>14, Zenon DEF PartsAre

\* Two sequences of known lengths, joined.
LEMMA Joined ==
    ASSUME NEW S, NEW s \in Seq(S), NEW t \in Seq(S), NEW j, Len(s) = j, NEW k, Len(t) = k,
           NEW u, u = s \o t
    PROVE  /\ u \in Seq(S) /\ Len(u) = j + k
           /\ \A i \in 1..j : u[i] = s[i]
           /\ \A i \in 1..k : u[j + i] = t[i]
<1>1. u \in Seq(S) /\ Len(u) = Len(s) + Len(t)
  BY ConcatFacts, Zenon
<1>2. /\ \A i \in 1..Len(s) : u[i] = s[i]
      /\ \A i \in 1..Len(t) : u[Len(s) + i] = t[i]
  BY ConcatAt
<1> QED BY <1>1, <1>2, Zenon

\* h is what s has after its first n bytes, as far as h goes.
Follows(h, s, n) == \A i \in 1..Len(h) : h[i] = s[n + i]

\* Nothing goes to the sink, or all of what follows the file's n bytes.
LEMMA GoesSimply ==
    ASSUME NEW g \in Seq(Byte), NEW n \in Nat, NEW h \in Seq(Byte), n + Len(h) <= Len(g),
           Follows(h, g, n), NEW cut
    PROVE  Shape(h, g, n, cut)
<1>1. Len(h) \in Nat /\ Len(h) = Len(h) + 0 /\ 1..0 = {} /\ 0 \in {0, MarkerSize} /\ ~(0 > 0)
  OBVIOUS
<1>2. Goes(h, g, n, Len(h), 0)
  BY <1>1, Zenon DEF Goes, Follows
<1> QED BY <1>1, <1>2, Zenon DEF Shape

\* The same for the beginning of what is held, and for both parts of it together.
LEMMA GoesInParts ==
    ASSUME NEW g \in Seq(Byte), NEW n \in Nat, NEW h \in Seq(Byte), n + Len(h) <= Len(g),
           Follows(h, g, n), NEW cut, NEW f \in 0..Len(h)
    PROVE  /\ Shape(SubSeq(h, 1, f), g, n, cut)
           /\ Shape(SubSeq(h, 1, f) \o SubSeq(h, f + 1, Len(h)), g, n, cut)
<1>1. PICK a, r : a = SubSeq(h, 1, f) /\ r = SubSeq(h, f + 1, Len(h))
  BY Zenon
<1>2. /\ a \in Seq(Byte) /\ Len(a) = f /\ \A i \in 1..f : a[i] = h[i]
      /\ r \in Seq(Byte) /\ Len(r) = Len(h) - f /\ \A i \in 1..(Len(h) - f) : r[i] = h[f + i]
  BY <1>1, FrontAt, RestAt, Zenon
<1>3. f \in Nat /\ Len(h) \in Nat /\ n + f <= Len(g) /\ \A i \in 1..f : i \in 1..Len(h)
  OBVIOUS
<1>4. Shape(a, g, n, cut)
  BY <1>2, <1>3, GoesSimply, Zenon DEF Follows
<1>5. a \o r = h
  <2>1. PICK u : u = a \o r
    BY Zenon
  <2>2. /\ u \in Seq(Byte) /\ Len(u) = f + (Len(h) - f)
        /\ \A i \in 1..f : u[i] = a[i]
        /\ \A i \in 1..(Len(h) - f) : u[f + i] = r[i]
    <3>1. a \in Seq(Byte) /\ r \in Seq(Byte) /\ Len(a) = f /\ Len(r) = Len(h) - f
      BY <1>2, Zenon
    <3> QED BY <2>1, <3>1, Joined, SMTT(30)
  <2>3. Len(u) = Len(h)
    BY <1>3, <2>2
  <2>4. ASSUME NEW i \in 1..Len(u) PROVE u[i] = h[i]
    <3>1. CASE i \in 1..f
      BY <1>2, <2>2, <3>1, Zenon
    <3>2. CASE ~(i \in 1..f)
      <4>1. i - f \in 1..(Len(h) - f) /\ i = f + (i - f)
        BY <1>3, <2>3, <3>2
      <4>2. PICK j \in 1..(Len(h) - f) : i = f + j
        BY <4>1, Zenon
      <4>3. u[f + j] = r[j] /\ r[j] = h[f + j]
        BY <1>2, <2>2, Zenon
      <4> QED BY <4>2, <4>3, Zenon
    <3> QED BY <3>1, <3>2
  <2> QED BY <2>1, <2>2, <2>3, <2>4, SameSeq, Zenon
<1>6. Shape(h, g, n, cut)
  BY GoesSimply, Zenon
<1> QED BY <1>1, <1>4, <1>5, <1>6, Zenon

\* o is a, then b, then c.
InTurn(o, a, b, c) ==
    /\ Len(o) = (Len(a) + Len(b)) + Len(c)
    /\ \A i \in 1..Len(a) : o[i] = a[i]
    /\ \A i \in 1..Len(b) : o[Len(a) + i] = b[i]
    /\ \A i \in 1..Len(c) : o[(Len(a) + Len(b)) + i] = c[i]

\* That is what joining them makes.
LEMMA Joined3 ==
    ASSUME NEW a \in Seq(Byte), NEW b \in Seq(Byte), NEW c \in Seq(Byte)
    PROVE  InTurn(a \o b \o c, a, b, c)
<1>1. PICK u : u = a \o b
  BY Zenon
<1>2. u \in Seq(Byte) /\ Len(u) = Len(a) + Len(b)
  BY <1>1, ConcatFacts
<1>3. /\ \A i \in 1..Len(a) : u[i] = a[i]
      /\ \A i \in 1..Len(b) : u[Len(a) + i] = b[i]
  BY <1>1, ConcatAt
<1>4. PICK o : o = u \o c
  BY Zenon
<1>5. Len(o) = Len(u) + Len(c)
  BY <1>2, <1>4, ConcatFacts, Zenon
<1>6. /\ \A i \in 1..Len(u) : o[i] = u[i]
      /\ \A i \in 1..Len(c) : o[Len(u) + i] = c[i]
  BY <1>2, <1>4, ConcatAt
<1>7. /\ \A i \in 1..Len(a) : i \in 1..(Len(a) + Len(b))
      /\ \A i \in 1..Len(b) : Len(a) + i \in 1..(Len(a) + Len(b))
  OBVIOUS
<1>8. /\ Len(o) = (Len(a) + Len(b)) + Len(c)
      /\ \A i \in 1..Len(a) : o[i] = a[i]
      /\ \A i \in 1..Len(b) : o[Len(a) + i] = b[i]
      /\ \A i \in 1..Len(c) : o[(Len(a) + Len(b)) + i] = c[i]
  BY <1>2, <1>3, <1>5, <1>6, <1>7, Zenon
<1>9. InTurn(o, a, b, c)
  BY <1>8, Zenon DEF InTurn
<1> QED BY <1>1, <1>4, <1>9, Zenon

\* What goes to the sink when the output is cut.
LEMMA GoesCut ==
    ASSUME NEW g \in Seq(Byte), NEW n \in Nat, NEW h \in Seq(Byte), Follows(h, g, n),
           NEW f \in 0..Len(h), NEW r \in Seq(Byte), Len(r) = Len(h) - f,
           Follows(r, h, f), NEW k \in 0..(Len(h) - f),
           (n + f) + k <= Len(g), Cut(g, (n + f) + k)
    PROVE  Shape(SubSeq(h, 1, f) \o SubSeq(r, 1, k) \o Marker, g, n, TRUE)
<1>0. MarkerSize \in Nat
  BY LogAssumption
<1>1. PICK a, b, c : a = SubSeq(h, 1, f) /\ b = SubSeq(r, 1, k) /\ c = Marker
  BY Zenon
<1>2. /\ a \in Seq(Byte) /\ Len(a) = f /\ \A i \in 1..f : a[i] = h[i]
  BY <1>1, FrontAt, Zenon
<1>3. /\ b \in Seq(Byte) /\ Len(b) = k /\ \A i \in 1..k : b[i] = r[i]
  <2>1. k \in 0..Len(r)
    BY Zenon
  <2> QED BY <1>1, <2>1, FrontAt, Zenon
<1>4. c \in Seq(Byte) /\ Len(c) = MarkerSize /\ \A i \in 1..MarkerSize : c[i] = Mark
  BY <1>0, <1>1 DEF Marker, Mark, Byte
<1>7. PICK o : o = a \o b \o c
  BY Zenon
<1>8. /\ Len(o) = (f + k) + MarkerSize
      /\ \A i \in 1..f : o[i] = a[i]
      /\ \A i \in 1..k : o[f + i] = b[i]
      /\ \A i \in 1..MarkerSize : o[(f + k) + i] = c[i]
  <2>1. a \in Seq(Byte) /\ b \in Seq(Byte) /\ c \in Seq(Byte)
    BY <1>2, <1>3, <1>4, Zenon
  <2>2. /\ Len(o) = (Len(a) + Len(b)) + Len(c)
        /\ \A i \in 1..Len(a) : o[i] = a[i]
        /\ \A i \in 1..Len(b) : o[Len(a) + i] = b[i]
        /\ \A i \in 1..Len(c) : o[(Len(a) + Len(b)) + i] = c[i]
    <3>1. InTurn(a \o b \o c, a, b, c)
      BY <2>1, Joined3, Zenon
    <3> QED BY <1>7, <3>1, Zenon DEF InTurn
  <2>3. Len(a) = f /\ Len(b) = k /\ Len(c) = MarkerSize
    BY <1>2, <1>3, <1>4, Zenon
  <2> QED BY <2>2, <2>3, Zenon
<1>a. \A i \in 1..MarkerSize : o[(f + k) + i] = Mark
  BY <1>4, <1>8, Zenon
<1>9. f \in Nat /\ k \in Nat /\ f + k \in Nat /\ n + (f + k) = (n + f) + k /\ Len(h) \in Nat
  OBVIOUS
<1>10. ASSUME NEW i \in 1..(f + k) PROVE o[i] = g[n + i]
  <2>1. CASE i \in 1..f
    <3>1. i \in 1..Len(h)
      BY <1>9, <2>1
    <3> QED BY <1>2, <1>8, <2>1, <3>1, Zenon DEF Follows
  <2>2. CASE ~(i \in 1..f)
    <3>1. PICK j \in 1..k : i = f + j
      <4>1. i - f \in 1..k /\ i = f + (i - f)
        BY <1>9, <2>2
      <4> QED BY <4>1, Zenon
    <3>2. j \in 1..(Len(h) - f) /\ f + j \in 1..Len(h)
      BY <1>9, <3>1
    <3>3. o[f + j] = b[j] /\ b[j] = r[j] /\ r[j] = h[f + j] /\ h[f + j] = g[n + (f + j)]
      BY <1>3, <1>8, <3>2, Zenon DEF Follows
    <3> QED BY <3>1, <3>3, Zenon
  <2> QED BY <2>1, <2>2
<1>11. Goes(o, g, n, f + k, MarkerSize)
  BY <1>8, <1>9, <1>10, <1>a, Zenon DEF Goes
<1>12. MarkerSize \in {0, MarkerSize} /\ Cut(g, n + (f + k))
  BY <1>9, Zenon
<1>13. Shape(o, g, n, TRUE)
  BY <1>9, <1>11, <1>12, Zenon DEF Shape
<1> QED BY <1>1, <1>7, <1>13, Zenon

\* What bounded_write finds: the text g, of which the log has accepted what follows
\* the first b bytes and has put the first n bytes in the file, the tail held back.
Finds(chunk, g, b, n) ==
    /\ g = given \o chunk /\ Text(g)
    /\ n \in Nat /\ n + Len(tail) = Len(given) /\ Follows(tail, given, n)
    /\ b \in Nat /\ b + accepted = Len(given)
    /\ b < Len(g) => g[b + 1] # Cont

\* What it leaves: what goes to the sink, now or at close, continues the file; without
\* a cut the tail is the end of the text.
Leaves(w, g, n) ==
    /\ Shape(w.out, g, n, w.truncated)
    /\ Shape(w.out \o w.tail, g, n, w.truncated)
    /\ ~w.truncated => /\ n + Len(w.out) + Len(w.tail) = Len(g)
                       /\ Follows(w.tail, g, n + Len(w.out))

\* The held bytes follow what is in the file.
LEMMA HeldFollows ==
    ASSUME TypeOK, NEW chunk \in Seq(Byte), NEW g, NEW b, NEW n, Finds(chunk, g, b, n),
           NEW k \in 0..Len(chunk)
    PROVE  Follows(tail \o SubSeq(chunk, 1, k), g, n)
<1>1. given \in Seq(Byte) /\ tail \in Seq(Byte)
  BY DEF TypeOK
<1>2. n \in Nat /\ n + Len(tail) = Len(given)
  BY DEF Finds
<1>a. Follows(tail, given, n) /\ g = given \o chunk
  BY DEF Finds
<1>3. /\ \A i \in 1..Len(given) : g[i] = given[i]
      /\ \A i \in 1..Len(chunk) : g[Len(given) + i] = chunk[i]
  BY <1>1, <1>a, ConcatAt
<1>4. PICK c : c = SubSeq(chunk, 1, k)
  BY Zenon
<1>5. c \in Seq(Byte) /\ Len(c) = k /\ \A i \in 1..k : c[i] = chunk[i]
  BY <1>4, FrontAt, Zenon
<1>6. PICK h : h = tail \o c
  BY Zenon
<1>7. Len(h) = Len(tail) + k
  BY <1>1, <1>5, <1>6, ConcatFacts, Zenon
<1>8. /\ \A i \in 1..Len(tail) : h[i] = tail[i]
      /\ \A i \in 1..Len(c) : h[Len(tail) + i] = c[i]
  BY <1>1, <1>5, <1>6, ConcatAt
<1>9. Len(tail) \in Nat /\ Len(given) \in Nat /\ Len(chunk) \in Nat /\ k \in Nat
  BY <1>1
<1>10. ASSUME NEW i \in 1..Len(h) PROVE h[i] = g[n + i]
  <2>1. CASE i \in 1..Len(tail)
    <3>1. n + i \in 1..Len(given)
      BY <1>2, <1>9, <2>1
    <3> QED BY <1>3, <1>8, <1>a, <2>1, <3>1, Zenon DEF Follows
  <2>2. CASE ~(i \in 1..Len(tail))
    <3>1. i - Len(tail) \in 1..k /\ i = Len(tail) + (i - Len(tail))
      BY <1>7, <1>9, <2>2
    <3>2. PICK j \in 1..k : i = Len(tail) + j
      BY <3>1, Zenon
    <3>3. j \in 1..Len(chunk) /\ n + (Len(tail) + j) = Len(given) + j
      BY <1>2, <1>9, <3>2
    <3>4. h[Len(tail) + j] = c[j] /\ c[j] = chunk[j] /\ g[Len(given) + j] = chunk[j]
      BY <1>3, <1>5, <1>8, <3>3, Zenon
    <3> QED BY <3>2, <3>3, <3>4, Zenon
  <2> QED BY <2>1, <2>2
<1> QED BY <1>4, <1>6, <1>10, Zenon DEF Follows

\* Nothing is handed over, or nothing fits: the tail stays as it is.
LEMMA WriteKeepsTail ==
    ASSUME LogInv, isOpen, Healthy, NEW chunk \in Seq(Byte), NEW g, NEW b, NEW n, Finds(chunk, g, b, n),
           chunk = <<>> \/ capacity < MarkerSize, NEW w, w = BoundedWrite(chunk)
    PROVE  Leaves(w, g, n)
<1>1. w.out = <<>> /\ w.tail = tail /\ (~w.truncated => chunk = <<>>)
  BY DEF BoundedWrite, Healthy
<1>2. /\ given \in Seq(Byte) /\ tail \in Seq(Byte) /\ TypeOK /\ capacity \in Nat /\ MarkerSize \in Nat
      /\ capacity < MarkerSize => accepted = 0
      /\ Len(tail) = Least(accepted, TailSize) /\ TailSize \in Nat
  BY LogAssumption DEF LogInv, TypeOK, Healthy, TailSize
<1>3. n \in Nat /\ n + Len(tail) = Len(given)
  BY DEF Finds
<1>4. g \in Seq(Byte) /\ Len(g) = Len(given) + Len(chunk)
  BY <1>2, ConcatFacts DEF Finds
<1>5. PICK e : e = <<>>
  OBVIOUS
<1>6. e \in Seq(Byte) /\ Len(e) = 0 /\ 1..0 = {} /\ e \o tail = tail
  BY <1>2, <1>5
<1>7. /\ Len(given) \in Nat /\ Len(chunk) \in Nat /\ Len(tail) \in Nat
      /\ n + 0 <= Len(g) /\ n + Len(tail) <= Len(g)
  BY <1>2, <1>3, <1>4
<1>8. Follows(e, g, n) /\ Follows(tail, g, n)
  <2>1. Follows(e, g, n)
    BY <1>6, Zenon DEF Follows
  <2>2. PICK k \in 0..Len(chunk) : k = 0
    BY <1>7
  <2>3. tail \o SubSeq(chunk, 1, k) = tail
    BY <1>2, <2>2
  <2>4. Follows(tail \o SubSeq(chunk, 1, k), g, n)
    BY <1>2, HeldFollows, Zenon
  <2> QED BY <2>1, <2>3, <2>4, Zenon
<1>9. Shape(e, g, n, w.truncated) /\ Shape(tail, g, n, w.truncated)
  BY <1>2, <1>3, <1>4, <1>6, <1>7, <1>8, GoesSimply, Zenon
<1>10. ASSUME ~w.truncated
       PROVE n + 0 + Len(tail) = Len(g) /\ Follows(tail, g, n + 0)
  <2>1. Len(chunk) = 0 /\ n + 0 = n
    BY <1>1, <1>3, <1>10
  <2>2. Len(g) = Len(given)
    BY <1>4, <1>7, <2>1
  <2> QED BY <1>3, <1>8, <2>1, <2>2, Zenon
<1> QED BY <1>1, <1>5, <1>6, <1>9, <1>10, Zenon DEF Leaves

\* Two parts of m held bytes after the first n.
LEMMA TwoParts ==
    ASSUME NEW n \in Nat, NEW m \in Nat, NEW f \in Nat
    PROVE  n + f + (m - f) = n + m
OBVIOUS

\* Where a part of m held bytes after the first n of l ends.
LEMMA Ends ==
    ASSUME NEW n \in Nat, NEW m \in Nat, NEW f \in Nat, NEW l \in Nat, n + m <= l
    PROVE  \A p \in Nat : \A k \in 0..((m - f) - p) : k \in 0..(m - f) /\ (n + f) + k <= l
OBVIOUS

\* A write of an enabled log that is not cut.
LEMMA WriteUncut ==
    ASSUME NEW g \in Seq(Byte), NEW n \in Nat, NEW h \in Seq(Byte), n + Len(h) = Len(g),
           Follows(h, g, n), NEW f \in 0..Len(h), NEW w, ~w.truncated,
           w.out = SubSeq(h, 1, f), w.tail = SubSeq(h, f + 1, Len(h))
    PROVE  Leaves(w, g, n)
<1>0. f \in Nat /\ Len(h) \in Nat /\ Len(g) \in Nat /\ n + Len(h) <= Len(g)
  OBVIOUS
<1>1. Shape(w.out, g, n, w.truncated) /\ Shape(w.out \o w.tail, g, n, w.truncated)
  BY <1>0, GoesInParts, Zenon
<1>2. PICK r : r = SubSeq(h, f + 1, Len(h))
  OBVIOUS
<1>3. Len(r) = Len(h) - f /\ \A i \in 1..(Len(h) - f) : r[i] = h[f + i]
  BY <1>2, RestAt, Zenon
<1>4. Len(w.out) = f
  BY FrontAt, Zenon
<1>5. n + f + Len(r) = Len(g)
  <2>1. n + f + (Len(h) - f) = n + Len(h)
    BY <1>0, TwoParts, Zenon
  <2> QED BY <1>3, <2>1, Zenon
<1>6. ASSUME NEW i \in 1..Len(r) PROVE r[i] = g[(n + f) + i]
  <2>1. i \in 1..(Len(h) - f)
    BY <1>3, Zenon
  <2>2. f + i \in 1..Len(h) /\ n + (f + i) = (n + f) + i
    BY <1>0, <2>1
  <2>3. r[i] = h[f + i] /\ h[f + i] = g[n + (f + i)]
    BY <1>3, <2>1, <2>2, Zenon DEF Follows
  <2> QED BY <2>2, <2>3, Zenon
<1>7. Follows(r, g, n + f)
  BY <1>6, Zenon DEF Follows
<1>8. w.tail = r
  BY <1>2
<1> QED BY <1>1, <1>4, <1>5, <1>7, <1>8, Zenon DEF Leaves

\* A write of an enabled log that is cut: the cut is between two scalars of the text.
LEMMA WriteCut ==
    ASSUME NEW g \in Seq(Byte), Text(g), NEW n \in Nat, NEW h \in Seq(Byte), n + Len(h) <= Len(g),
           Follows(h, g, n), NEW f \in 0..Len(h), NEW r, r = SubSeq(h, f + 1, Len(h)),
           NEW b \in Nat, b + MarkerSize <= n + Len(h), g[b + 1] # Cont,
           Len(r) = Least((n + Len(h)) - b, TailSize),
           NEW w, w.truncated = TRUE, w.tail = <<>>,
           w.out = SubSeq(h, 1, f) \o SubSeq(r, 1, Utf8Prefix(SubSeq(r, 1, Len(r) - MarkerSize))) \o Marker
    PROVE  Leaves(w, g, n)
<1>0. /\ MarkerSize \in Nat /\ TailSize = MarkerSize + 3 /\ Len(h) \in Nat /\ Len(g) \in Nat /\ f \in Nat
      /\ n + f \in Nat
  BY LogAssumption, SMTT(30) DEF TailSize
<1>1. r \in Seq(Byte) /\ Len(r) = Len(h) - f /\ \A i \in 1..(Len(h) - f) : r[i] = h[f + i]
  BY RestAt, Zenon
<1>2. PICK m, e, x : m = Len(h) /\ e = n + m /\ x = Len(r)
  BY Zenon
<1>3. m \in Nat /\ e \in Nat /\ x \in Nat /\ x = m - f /\ x = Least(e - b, TailSize) /\ e <= Len(g)
  <2>1. x = m - f
    BY <1>1, <1>2, Zenon
  <2>2. x = Least(e - b, TailSize) /\ m \in Nat
    BY <1>0, <1>2, Zenon
  <2>3. x \in Nat
    BY <1>1, <1>2, SMTT(30)
  <2>4. e = n + m /\ e <= Len(g)
    BY <1>2, Zenon
  <2> QED BY <2>1, <2>2, <2>3, <2>4, SMTT(30)
<1>4. b + MarkerSize <= e /\ e = n + m
  BY <1>2, Zenon
<1>5. /\ x - MarkerSize \in 0..x /\ ((n + f) + (x - MarkerSize)) + MarkerSize = e
      /\ x - MarkerSize = Least(e - b, TailSize) - MarkerSize
  BY <1>0, <1>3, <1>4 DEF Least
<1>6. PICK room : room = SubSeq(r, 1, x - MarkerSize)
  BY Zenon
<1>7. room \in Seq(Byte) /\ Len(room) = x - MarkerSize /\ \A i \in 1..(x - MarkerSize) : room[i] = r[i]
  BY <1>1, <1>2, <1>5, <1>6, FrontAt, Zenon
<1>8. ASSUME NEW i \in 1..Len(room) PROVE room[i] = g[(n + f) + i]
  <2>1. i \in 1..(x - MarkerSize)
    BY <1>7, Zenon
  <2>2. i \in 1..(m - f) /\ f + i \in 1..m /\ n + (f + i) = (n + f) + i
    BY <1>0, <1>3, <2>1
  <2>3. room[i] = r[i] /\ r[i] = h[f + i] /\ h[f + i] = g[n + (f + i)]
    BY <1>1, <1>2, <1>7, <2>1, <2>2, Zenon DEF Follows
  <2> QED BY <2>2, <2>3, Zenon
<1>9. Cut(g, (n + f) + Utf8Prefix(room))
  <2>1. ((n + f) + Len(room)) + MarkerSize = e /\ Len(room) = Least(e - b, TailSize) - MarkerSize
    BY <1>5, <1>7, Zenon
  <2> QED BY <1>0, <1>3, <1>4, <1>7, <1>8, <2>1, CutsBetweenScalars, Zenon
<1>10. PICK k : k = Utf8Prefix(room)
  OBVIOUS
<1>11. k \in 0..(x - MarkerSize)
  BY <1>7, <1>10, Utf8Bound, Zenon
<1>12. k \in 0..(m - f) /\ (n + f) + k <= Len(g)
  <2>1. k \in 0..((m - f) - MarkerSize) /\ n + m <= Len(g)
    BY <1>3, <1>4, <1>11, Zenon
  <2> QED BY <1>0, <1>3, <2>1, Ends, Zenon
<1>13. Follows(r, h, f)
  BY <1>1, Zenon DEF Follows
<1>14. Shape(SubSeq(h, 1, f) \o SubSeq(r, 1, k) \o Marker, g, n, TRUE)
  <2>1. k \in 0..(Len(h) - f) /\ Cut(g, (n + f) + k) /\ Len(r) = Len(h) - f /\ r \in Seq(Byte)
    BY <1>1, <1>2, <1>9, <1>10, <1>12, Zenon
  <2> QED BY <1>12, <1>13, <2>1, GoesCut, Zenon
<1>15. PICK o : o = SubSeq(h, 1, f) \o SubSeq(r, 1, k) \o Marker
  BY Zenon
<1>16. w.out = o
  BY <1>2, <1>6, <1>10, <1>15, Zenon
<1>17. o \o <<>> = o
  <2>1. PICK a, c : a = SubSeq(h, 1, f) /\ c = SubSeq(r, 1, k)
    BY Zenon
  <2>2. a \in Seq(Byte)
    BY <2>1, FrontAt, Zenon
  <2>3. c \in Seq(Byte)
    <3>1. k \in 0..Len(r)
      BY <1>1, <1>2, <1>12, Zenon
    <3> QED BY <1>1, <2>1, <3>1, FrontAt, Zenon
  <2>4. Marker \in Seq(Byte)
    BY <1>0 DEF Marker, Mark, Byte
  <2>5. a \o c \o Marker \in Seq(Byte)
    BY <2>2, <2>3, <2>4, ConcatFacts, Zenon
  <2>6. o \in Seq(Byte)
    BY <1>15, <2>1, <2>5, Zenon
  <2> QED BY <2>6
<1> QED BY <1>14, <1>15, <1>16, <1>17, Zenon DEF Leaves

\* What bounded_write leaves of a healthy log.
LEMMA WriteLeaves ==
    ASSUME LogInv, isOpen, Healthy, NEW chunk \in Seq(Byte), NEW g, NEW b, NEW n, Finds(chunk, g, b, n)
    PROVE  Leaves(BoundedWrite(chunk), g, n)
<1>1. CASE chunk = <<>> \/ capacity < MarkerSize
  BY <1>1, WriteKeepsTail, Zenon
<1>2. CASE ~(chunk = <<>> \/ capacity < MarkerSize)
  <2>1. BoundedWrite(chunk) = WriteEnabled(chunk)
    BY <1>2, Zenon DEF BoundedWrite, Healthy
  <2>2. PICK keep, held, flush, rest, w : Parts(chunk, keep, held, flush, rest, w)
    BY Zenon DEF Parts
  <2>3. w = BoundedWrite(chunk)
    BY <2>1, <2>2, Zenon DEF Parts
  <2>4. /\ TypeOK /\ given \in Seq(Byte) /\ tail \in Seq(Byte) /\ capacity \in Nat /\ accepted \in Nat
        /\ accepted <= capacity /\ MarkerSize \in Nat \ {0}
        /\ Len(tail) = Least(accepted, TailSize)
    BY LogAssumption DEF LogInv, TypeOK, Healthy
  <2>5. capacity >= MarkerSize
    BY <1>2, <2>4
  <2>6. /\ keep \in Nat /\ keep <= Len(chunk) /\ keep <= capacity - accepted
        /\ held \in Seq(Byte) /\ Len(held) = Len(tail) + keep
        /\ flush \in Nat /\ flush <= Len(held)
        /\ rest \in Seq(Byte) /\ Len(rest) = Len(held) - flush /\ Len(rest) = Least(accepted + keep, TailSize)
        /\ w.truncated <=> (Len(chunk) > capacity - accepted)
        /\ ~w.truncated => keep = Len(chunk) /\ w.out = SubSeq(held, 1, flush) /\ w.tail = rest
        /\ w.truncated =>
             /\ keep = capacity - accepted /\ w.tail = <<>>
             /\ w.out = SubSeq(held, 1, flush)
                          \o SubSeq(rest, 1, Utf8Prefix(SubSeq(rest, 1, Len(rest) - MarkerSize))) \o Marker
    <3>1. PartsAre(chunk, keep, held, flush, rest, w)
      BY <2>2, <2>4, <2>5, WriteParts, Zenon
    <3> QED BY <3>1, Zenon DEF PartsAre
  <2>7. held = tail \o SubSeq(chunk, 1, keep) /\ rest = SubSeq(held, flush + 1, Len(held))
    BY <2>2, Zenon DEF Parts
  <2>8. keep \in 0..Len(chunk) /\ flush \in 0..Len(held)
    <3>1. Len(chunk) \in Nat /\ keep \in Nat /\ keep <= Len(chunk) /\ flush \in Nat /\ flush <= Len(held)
      BY <2>6
    <3>2. Len(held) \in Nat
      BY <2>6
    <3> QED BY <3>1, <3>2
  <2>9. Follows(held, g, n)
    BY <2>4, <2>7, <2>8, HeldFollows, Zenon
  <2>10. /\ n \in Nat /\ n + Len(tail) = Len(given) /\ b \in Nat /\ b + accepted = Len(given)
         /\ Text(g) /\ (b < Len(g) => g[b + 1] # Cont)
    BY Zenon DEF Finds
  <2>11. g \in Seq(Byte) /\ Len(g) = Len(given) + Len(chunk)
    BY <2>4, ConcatFacts, Zenon DEF Finds
  <2>12. Len(tail) \in Nat /\ Len(given) \in Nat /\ Len(chunk) \in Nat
    BY <2>4
  <2>13. CASE ~w.truncated
    <3>1. n + Len(held) = Len(g)
      <4>1. Len(held) = Len(tail) + Len(chunk)
        BY <2>6, <2>13, Zenon
      <4>2. n \in Nat /\ n + Len(tail) = Len(given)
        BY <2>10, Zenon
      <4>3. n + (Len(tail) + Len(chunk)) = Len(given) + Len(chunk)
        BY <2>12, <4>2
      <4> QED BY <2>11, <4>1, <4>3, Zenon
    <3>2. w.out = SubSeq(held, 1, flush) /\ w.tail = SubSeq(held, flush + 1, Len(held)) /\ held \in Seq(Byte)
      BY <2>6, <2>7, <2>13, Zenon
    <3>3. Leaves(w, g, n)
      BY <2>8, <2>9, <2>10, <2>11, <2>13, <3>1, <3>2, WriteUncut, Zenon
    <3> QED BY <2>3, <3>3, Zenon
  <2>14. CASE w.truncated = TRUE
    <3>1. keep = capacity - accepted /\ keep \in Nat /\ keep <= Len(chunk) /\ Len(held) = Len(tail) + keep
      BY <2>6, <2>14, Zenon
    <3>2. MarkerSize <= capacity
      BY <2>4, <2>5
    <3>3. /\ b + MarkerSize <= n + (Len(tail) + keep)
          /\ (n + (Len(tail) + keep)) - b = accepted + keep
          /\ n + (Len(tail) + keep) <= Len(given) + Len(chunk) /\ b < Len(given) + Len(chunk)
      <4>1. /\ capacity \in Nat /\ accepted \in Nat /\ accepted <= capacity /\ MarkerSize \in Nat \ {0}
            /\ n \in Nat /\ n + Len(tail) = Len(given) /\ b \in Nat /\ b + accepted = Len(given)
        BY <2>4, <2>10, Zenon
      <4> QED BY <2>12, <3>1, <3>2, <4>1
    <3>4. /\ b + MarkerSize <= n + Len(held) /\ n + Len(held) <= Len(g) /\ g[b + 1] # Cont
          /\ Len(rest) = Least((n + Len(held)) - b, TailSize)
      BY <2>6, <2>10, <2>11, <3>1, <3>3, Zenon
    <3>5. /\ w.tail = <<>> /\ held \in Seq(Byte)
          /\ w.out = SubSeq(held, 1, flush)
                       \o SubSeq(rest, 1, Utf8Prefix(SubSeq(rest, 1, Len(rest) - MarkerSize))) \o Marker
      BY <2>6, <2>14, Zenon
    <3>6. Leaves(w, g, n)
      BY <2>7, <2>8, <2>9, <2>10, <2>11, <2>14, <3>4, <3>5, WriteCut, Zenon
    <3> QED BY <2>3, <3>6, Zenon
  <2>15. w.truncated \in BOOLEAN
    BY <2>3, WriteEffect, Zenon
  <2> QED BY <2>13, <2>14, <2>15, Zenon
<1> QED BY <1>1, <1>2, Zenon

\* What a write decides about the budget: it is cut once, and only for want of room.
Decides(chunk, w) ==
    /\ st.truncated => w.truncated
    /\ ~st.truncated /\ w.truncated =>
         /\ Healthy
         /\ \/ capacity < MarkerSize /\ w.out = <<>> /\ w.out \o w.tail = <<>>
            \/ Len(chunk) > capacity - accepted
    /\ ~w.truncated /\ Healthy => w.accepted = accepted + Len(chunk)
    /\ ~Healthy => w.out = <<>> /\ (w.out \o w.tail = <<>> \/ st.write_errno)

\* It does.
LEMMA WriteDecides ==
    ASSUME LogInv, isOpen, NEW chunk \in Seq(Byte)
    PROVE  Decides(chunk, BoundedWrite(chunk))
<1>1. /\ TypeOK /\ tail \in Seq(Byte) /\ capacity \in Nat /\ accepted \in Nat /\ MarkerSize \in Nat
      /\ capacity < MarkerSize => accepted = 0
      /\ st.truncated \/ st.open_errno => tail = <<>>
      /\ ~st.truncated => Len(tail) = Least(accepted, TailSize)
      /\ st.truncated \in BOOLEAN /\ TailSize \in Nat
  BY LogAssumption DEF LogInv, TypeOK, Status, TailSize
<1>e. <<>> \o <<>> = <<>> /\ Len(<<>>) = 0
  OBVIOUS
<1>2. PICK w : w = BoundedWrite(chunk)
  OBVIOUS
<1>3. CASE chunk = <<>> \/ ~Healthy
  <2>1. w.out = <<>> /\ w.tail = tail /\ w.accepted = accepted /\ w.truncated = st.truncated
    BY <1>2, <1>3, Zenon DEF BoundedWrite, Healthy
  <2>2. ~Healthy => w.out \o w.tail = <<>> \/ st.write_errno
    BY <1>1, <1>e, <2>1, Zenon DEF Healthy
  <2>3. ~w.truncated /\ Healthy => w.accepted = accepted + Len(chunk)
    <3>1. accepted + 0 = accepted
      BY <1>1
    <3> QED BY <1>3, <1>e, <2>1, <3>1, Zenon
  <2> QED BY <1>2, <2>1, <2>2, <2>3, Zenon DEF Decides
<1>4. CASE chunk # <<>> /\ Healthy /\ capacity < MarkerSize
  <2>1. w.out = <<>> /\ w.tail = tail /\ w.truncated = TRUE
    BY <1>2, <1>4, Zenon DEF BoundedWrite, Healthy
  <2>2. tail = <<>>
    <3>1. Len(tail) = Least(accepted, TailSize) /\ accepted = 0
      BY <1>1, <1>4, Zenon DEF Healthy
    <3>2. Len(tail) = 0
      BY <1>1, <3>1 DEF Least
    <3> QED BY <1>1, <3>2
  <2> QED BY <1>2, <1>4, <1>e, <2>1, <2>2, Zenon DEF Decides, Healthy
<1>5. CASE chunk # <<>> /\ Healthy /\ ~(capacity < MarkerSize)
  <2>1. BoundedWrite(chunk) = WriteEnabled(chunk)
    BY <1>5, Zenon DEF BoundedWrite, Healthy
  <2>2. PICK keep, held, flush, rest, v : Parts(chunk, keep, held, flush, rest, v)
    BY Zenon DEF Parts
  <2>3. v = w
    BY <1>2, <2>1, <2>2, Zenon DEF Parts
  <2>4. capacity >= MarkerSize /\ Len(tail) = Least(accepted, TailSize)
    BY <1>1, <1>5 DEF Healthy
  <2>5. PartsAre(chunk, keep, held, flush, rest, w)
    BY <1>1, <2>2, <2>3, <2>4, WriteParts, Zenon
  <2>6. /\ w.accepted = accepted + keep
        /\ w.truncated <=> (Len(chunk) > capacity - accepted)
        /\ ~w.truncated => keep = Len(chunk)
    BY <2>5, Zenon DEF PartsAre
  <2> QED BY <1>2, <1>5, <2>6, Zenon DEF Decides, Healthy
<1> QED BY <1>3, <1>4, <1>5, Zenon

\* What write_bytes does when x bytes reach the file.
Reaches(out, cut, closeFails, x) ==
    /\ (sink /\ ~st.write_errno) \/ x = 0
    /\ file' = file \o SubSeq(out, 1, x) /\ (x = 0 => file' = file)
    /\ Len(file') = Len(file) + x
    /\ st'.file_bytes = st.file_bytes + x
    /\ st'.attempted = st.attempted /\ st'.open_errno = st.open_errno
    /\ st'.write_errno = (st.write_errno \/ (sink /\ x < Len(out)))
    /\ st'.close_errno = (st.close_errno \/ closeFails)
    /\ st'.truncated = cut

\* For some x it does that.
LEMMA WriteReaches ==
    ASSUME LogInv, NEW out \in Seq(Byte), NEW cut, NEW closeFails, WriteBytes(out, cut, closeFails)
    PROVE  \E x \in 0..Len(out) : Reaches(out, cut, closeFails, x)
<1>1. PICK x \in 0..Len(out) :
        /\ (sink /\ ~st.write_errno) \/ x = 0
        /\ file' = file \o SubSeq(out, 1, x)
        /\ st' = [st EXCEPT
                    !.bytes_written = st.bytes_written + x,
                    !.file_bytes = st.file_bytes + x,
                    !.write_errno = st.write_errno \/ (sink /\ x < Len(out)),
                    !.close_errno = st.close_errno \/ closeFails,
                    !.truncated = cut]
  BY Zenon DEF WriteBytes
<1>2. st \in Status /\ file \in Seq(Byte)
  BY DEF LogInv, TypeOK
<1>3. SubSeq(out, 1, x) \in Seq(Byte) /\ Len(SubSeq(out, 1, x)) = x
  BY FrontAt, Zenon
<1>4. Len(file') = Len(file) + x
  BY <1>1, <1>2, <1>3, ConcatFacts, Zenon
<1>5. x = 0 => file' = file
  BY <1>1, <1>2, <1>3
<1>6. /\ st'.file_bytes = st.file_bytes + x
      /\ st'.attempted = st.attempted /\ st'.open_errno = st.open_errno
      /\ st'.write_errno = (st.write_errno \/ (sink /\ x < Len(out)))
      /\ st'.close_errno = (st.close_errno \/ closeFails)
      /\ st'.truncated = cut
  BY <1>1, <1>2 DEF Status
<1> QED BY <1>1, <1>4, <1>5, <1>6, Zenon DEF Reaches

\* One call of bounded_write, by a flush or by close: out is what goes to the sink.
Hands(chunk, out, closeFails) ==
    /\ Text(given \o chunk)
    /\ Healthy /\ Len(given) - accepted < Len(given \o chunk) =>
         (given \o chunk)[(Len(given) - accepted) + 1] # Cont
    /\ out = BoundedWrite(chunk).out \/ out = BoundedWrite(chunk).out \o BoundedWrite(chunk).tail
    /\ WriteBytes(out, BoundedWrite(chunk).truncated, closeFails)
    /\ given' = given \o chunk /\ UNCHANGED <<orig, capacity>>

\* The file as it is found: the text up to the tail, no marker.
LEMMA FoundFile ==
    ASSUME LogInv, PrefixInv, isOpen, Healthy, sink, NEW chunk \in Seq(Byte), NEW out, NEW cf, Hands(chunk, out, cf)
    PROVE  \E n \in 0..Len(given), b \in Nat :
             Appended(file, given, n, 0) /\ Finds(chunk, given \o chunk, b, n)
<1>1. PICK n \in 0..Len(given), m \in 0..MarkerSize :
        Appended(file, given, n, m) /\ (m > 0 => st.truncated)
  BY Zenon DEF PrefixInv, FileInv
<1>2. MarkerSize \in Nat /\ given \in Seq(Byte) /\ tail \in Seq(Byte) /\ orig \in Nat /\ accepted \in Nat
  BY LogAssumption DEF LogInv, TypeOK
<1>3. m = 0
  BY <1>1, <1>2 DEF Healthy
<1>4. /\ accepted <= Len(given) /\ Len(file) + Len(tail) = orig + Len(given)
      /\ \A i \in 1..Len(tail) : tail[i] = given[Len(given) - Len(tail) + i]
  BY DEF PrefixInv, SessionInv
<1>5. Len(file) = orig + n + 0
  BY <1>1, <1>3, Zenon DEF Appended
<1>6. Len(given) \in Nat /\ Len(tail) \in Nat
  BY <1>2
<1>7. n \in Nat /\ n + Len(tail) = Len(given) /\ Len(given) - Len(tail) = n
  <2>1. Len(file) + Len(tail) = orig + Len(given)
    BY <1>4, Zenon
  <2> QED BY <1>2, <1>5, <1>6, <2>1
<1>8. Follows(tail, given, n)
  BY <1>4, <1>7, Zenon DEF Follows
<1>9. PICK b : b = Len(given) - accepted
  OBVIOUS
<1>10. b \in Nat /\ b + accepted = Len(given)
  <2>1. accepted <= Len(given)
    BY <1>4, Zenon
  <2> QED BY <1>2, <1>6, <1>9, <2>1
<1>11. Text(given \o chunk) /\ (b < Len(given \o chunk) => (given \o chunk)[b + 1] # Cont)
  BY <1>9, Zenon DEF Hands
<1>12. Finds(chunk, given \o chunk, b, n)
  BY <1>7, <1>8, <1>10, <1>11, Zenon DEF Finds
<1>13. Appended(file, given, n, 0)
  BY <1>1, <1>3, Zenon
<1> QED BY <1>10, <1>12, <1>13, Zenon

\* The same history in the next state.
LEMMA FileNext ==
    ASSUME orig' = orig, NEW n \in 0..Len(given'), NEW m \in 0..MarkerSize, Appended(file', given', n, m),
           m > 0 => st'.truncated /\ Cut(given', n), m \in {0, MarkerSize} \/ st'.write_errno
    PROVE  FileInv'
<1>1. Appended(file, given, n, m)' /\ (m > 0 => Cut(given, n)')
  BY Zenon DEF Appended, Cut
<1> QED BY <1>1, Zenon DEF FileInv

\* A call that writes nothing.
LEMMA FileStays ==
    ASSUME LogInv, PrefixInv, NEW chunk \in Seq(Byte), given' = given \o chunk, orig' = orig, file' = file,
           st.truncated => st'.truncated, st.write_errno => st'.write_errno
    PROVE  FileInv'
<1>1. PICK n \in 0..Len(given), m \in 0..MarkerSize :
        /\ Appended(file, given, n, m)
        /\ m > 0 => st.truncated /\ Cut(given, n)
        /\ m \in {0, MarkerSize} \/ st.write_errno
  BY Zenon DEF PrefixInv, FileInv
<1>2. given \in Seq(Byte) /\ file \in Seq(Byte) /\ m \in Nat
  BY <1>1, LogAssumption DEF LogInv, TypeOK
<1>3. n \in 0..Len(given') /\ Appended(file', given', n, m) /\ (Cut(given, n) => Cut(given', n))
  BY <1>1, <1>2, AppendedGrows, Zenon
<1> QED BY <1>1, <1>3, FileNext, Zenon

\* Numbers of a write: after n bytes of l, x of q text and p marker bytes.
LEMMA Partial ==
    ASSUME NEW n \in Nat, NEW q \in Nat, NEW p \in Nat, NEW l \in Nat, n + q <= l, NEW x \in 0..(q + p)
    PROVE  /\ x <= q => n + x \in 0..l
           /\ ~(x <= q) => x > q /\ n + q \in 0..l /\ x - q \in 0..p /\ x - q \in Nat /\ p > 0
           /\ ~(x <= q) /\ x - q # p => x < q + p
OBVIOUS

\* Any call of bounded_write leaves a part of the text in the file, and of the marker.
LEMMA FileKept ==
    ASSUME LogInv, PrefixInv, isOpen, NEW chunk \in Seq(Byte), NEW out \in Seq(Byte), NEW cf,
           Hands(chunk, out, cf), NEW x \in 0..Len(out), Reaches(out, BoundedWrite(chunk).truncated, cf, x)
    PROVE  FileInv'
<1>1. given' = given \o chunk /\ orig' = orig
  BY Zenon DEF Hands
<1>2. PICK w : w = BoundedWrite(chunk)
  OBVIOUS
<1>3. /\ (sink /\ ~st.write_errno) \/ x = 0
      /\ file' = file \o SubSeq(out, 1, x)
      /\ x = 0 => file' = file
      /\ st'.write_errno = (st.write_errno \/ (sink /\ x < Len(out)))
      /\ st'.truncated = w.truncated
  BY <1>2, Zenon DEF Reaches
<1>4. st.truncated => st'.truncated
  <2>1. Decides(chunk, w)
    BY <1>2, WriteDecides, Zenon
  <2> QED BY <1>3, <2>1, Zenon DEF Decides
<1>5. st.write_errno => st'.write_errno
  BY <1>3, Zenon
<1>6. CASE ~(Healthy /\ sink)
  <2>1. x = 0
    <3>1. CASE ~sink \/ st.write_errno
      BY <1>3, <3>1, Zenon
    <3>2. CASE ~(~sink \/ st.write_errno)
      <4>1. Decides(chunk, w) /\ (out = w.out \/ out = w.out \o w.tail)
        BY <1>2, WriteDecides, Zenon DEF Hands
      <4>2. out = <<>>
        BY <1>6, <3>2, <4>1, Zenon DEF Decides
      <4>3. Len(out) = 0
        BY <4>2
      <4> QED BY <4>3
    <3> QED BY <3>1, <3>2, Zenon
  <2> QED BY <1>1, <1>3, <1>4, <1>5, <2>1, FileStays, Zenon
<1>7. CASE Healthy /\ sink
  <2>1. PICK n \in 0..Len(given), b \in Nat : Appended(file, given, n, 0) /\ Finds(chunk, given \o chunk, b, n)
    BY <1>7, FoundFile, Zenon
  <2>2. PICK g : g = given \o chunk
    BY Zenon
  <2>3. Leaves(w, g, n)
    BY <1>2, <1>7, <2>1, <2>2, WriteLeaves, Zenon
  <2>4. Shape(out, g, n, w.truncated)
    BY <1>2, <2>3, Zenon DEF Leaves, Hands
  <2>5. PICK q \in Nat, p \in {0, MarkerSize} :
          Goes(out, g, n, q, p) /\ (p > 0 => w.truncated /\ Cut(g, n + q))
    BY <2>4, Zenon DEF Shape
  <2>6. /\ given \in Seq(Byte) /\ file \in Seq(Byte) /\ orig \in Nat /\ MarkerSize \in Nat /\ 0 \in Nat
    BY LogAssumption DEF LogInv, TypeOK
  <2>7. g \in Seq(Byte) /\ n \in Nat /\ p \in Nat /\ Len(g) \in Nat
    <3>1. g \in Seq(Byte)
      BY <2>2, <2>6, ConcatFacts, Zenon
    <3> QED BY <2>5, <2>6, <3>1
  <2>8. Appended(file, g, n, 0)
    BY <2>1, <2>2, <2>6, AppendedGrows, Zenon
  <2>9. Len(out) = q + p /\ n + q <= Len(g)
    BY <2>5, Zenon DEF Goes
  <2>10. x \in 0..(q + p)
    BY <2>9, Zenon
  <2>11. /\ x <= q => Appended(file', g, n + x, 0)
         /\ x > q => Appended(file', g, n + q, x - q)
    BY <1>3, <2>5, <2>6, <2>7, <2>8, Continues, Zenon
  <2>12. CASE x <= q
    <3>1. n + x \in 0..Len(g) /\ 0 \in 0..MarkerSize /\ ~(0 > 0)
      <4>1. n + x \in 0..Len(g)
        BY <2>5, <2>7, <2>9, <2>10, <2>12, Partial, Zenon
      <4> QED BY <2>6, <4>1
    <3> QED BY <1>1, <2>2, <2>11, <2>12, <3>1, FileNext, Zenon
  <2>13. CASE ~(x <= q)
    <3>1. x > q /\ n + q \in 0..Len(g) /\ x - q \in 0..p /\ p > 0 /\ (x - q # p => x < q + p)
      BY <2>5, <2>7, <2>9, <2>10, <2>13, Partial, Zenon
    <3>2. p = MarkerSize
      BY <2>5, <2>6, <3>1
    <3>3. Cut(g, n + q) /\ st'.truncated
      BY <1>3, <2>5, <3>1, Zenon
    <3>4. x - q \in {0, MarkerSize} \/ st'.write_errno
      BY <1>3, <1>7, <2>9, <3>1, <3>2, Zenon
    <3> QED BY <1>1, <2>2, <2>11, <3>1, <3>2, <3>3, <3>4, FileNext, Zenon
  <2> QED BY <2>12, <2>13
<1> QED BY <1>6, <1>7, Zenon

\* The reason for a cut stays one.
LEMMA CutKept ==
    ASSUME LogInv, PrefixInv, isOpen, NEW chunk \in Seq(Byte), NEW out \in Seq(Byte), NEW cf,
           Hands(chunk, out, cf), NEW x \in 0..Len(out), Reaches(out, BoundedWrite(chunk).truncated, cf, x)
    PROVE  CutInv'
<1>1. given' = given \o chunk /\ orig' = orig /\ capacity' = capacity
  BY Zenon DEF Hands
<1>2. PICK w : w = BoundedWrite(chunk)
  OBVIOUS
<1>3. /\ Len(file') = Len(file) + x /\ st'.file_bytes = st.file_bytes + x
      /\ st'.open_errno = st.open_errno /\ st'.truncated = w.truncated
  BY <1>2, Zenon DEF Reaches
<1>4. Decides(chunk, w)
  BY <1>2, WriteDecides, Zenon
<1>5. /\ given \in Seq(Byte) /\ file \in Seq(Byte) /\ orig \in Nat /\ MarkerSize \in Nat /\ Limit \in Nat
      /\ capacity \in Nat /\ accepted \in Nat /\ accepted <= capacity
  BY LogAssumption DEF LogInv, TypeOK
<1>6. Len(given') = Len(given) + Len(chunk)
  BY <1>1, <1>5, ConcatFacts, Zenon
<1>7. Len(given) \in Nat /\ Len(chunk) \in Nat /\ Len(file) \in Nat /\ x \in Nat
  BY <1>5
<1>8. Len(file) + MarkerSize > Limit => Len(file') + MarkerSize > Limit
  <2>1. Len(file') = Len(file) + x
    BY <1>3, Zenon
  <2> QED BY <1>5, <1>7, <2>1
<1>9. orig + Len(given) > Limit => orig + Len(given') > Limit
  BY <1>5, <1>6, <1>7
<1>10. CASE st.truncated
  <2>1. /\ st.file_bytes = Len(file)
        /\ orig + Len(given) > Limit \/ (capacity < MarkerSize /\ Len(file) + MarkerSize > Limit)
        /\ isOpen /\ ~st.open_errno /\ capacity < MarkerSize => Len(file) + MarkerSize > Limit
    BY <1>10, Zenon DEF PrefixInv, CutInv
  <2>2. st'.file_bytes = Len(file')
    BY <1>3, <2>1, Zenon
  <2> QED BY <1>1, <1>3, <1>8, <1>9, <2>1, <2>2, Zenon DEF CutInv
<1>11. CASE ~st.truncated
  <2>1. isOpen /\ ~st.open_errno /\ capacity < MarkerSize => Len(file) + MarkerSize > Limit
    BY Zenon DEF PrefixInv, CutInv
  <2>2. ASSUME w.truncated
        PROVE  /\ st'.file_bytes = Len(file')
               /\ orig + Len(given') > Limit \/ (capacity < MarkerSize /\ Len(file) + MarkerSize > Limit)
    <3>1. /\ Healthy
          /\ capacity < MarkerSize \/ Len(chunk) > capacity - accepted
      BY <1>4, <1>11, <2>2, Zenon DEF Decides
    <3>2. st.file_bytes = Len(file)
      BY <3>1, Zenon DEF LogInv, CountsExact, Healthy
    <3>3. orig + Len(given) + (capacity - accepted) >= Limit
      BY <3>1, Zenon DEF PrefixInv, SessionInv
    <3>4. Len(chunk) > capacity - accepted => orig + Len(given') > Limit
      BY <1>5, <1>6, <1>7, <3>3
    <3> QED BY <1>3, <2>1, <3>1, <3>2, <3>4, Zenon DEF Healthy
  <2> QED BY <1>1, <1>3, <1>8, <2>1, <2>2, Zenon DEF CutInv
<1> QED BY <1>10, <1>11

\* What is printed does not change when a part of the buffer is handed over.
LEMMA Regrouped ==
    ASSUME NEW g \in Seq(Byte), NEW s \in Seq(Byte), NEW k \in 0..Len(s)
    PROVE  (g \o SubSeq(s, 1, k)) \o SubSeq(s, k + 1, Len(s)) = g \o s
<1>1. PICK a, r, u : a = SubSeq(s, 1, k) /\ r = SubSeq(s, k + 1, Len(s)) /\ u = g \o a \o r
  BY Zenon
<1>2. /\ a \in Seq(Byte) /\ Len(a) = k /\ \A i \in 1..k : a[i] = s[i]
      /\ r \in Seq(Byte) /\ Len(r) = Len(s) - k /\ \A i \in 1..(Len(s) - k) : r[i] = s[k + i]
  BY <1>1, FrontAt, RestAt, Zenon
<1>3. InTurn(u, g, a, r)
  BY <1>1, <1>2, Joined3, Zenon
<1>4. PICK v : v = g \o s
  BY Zenon
<1>5. v \in Seq(Byte) /\ Len(v) = Len(g) + Len(s)
  BY <1>4, ConcatFacts, Zenon
<1>6. /\ \A i \in 1..Len(g) : v[i] = g[i]
      /\ \A i \in 1..Len(s) : v[Len(g) + i] = s[i]
  BY <1>4, ConcatAt
<1>7. u \in Seq(Byte)
  BY <1>1, <1>2, ConcatFacts, Zenon
<1>8. /\ Len(u) = (Len(g) + k) + (Len(s) - k)
      /\ \A i \in 1..Len(g) : u[i] = g[i]
      /\ \A i \in 1..k : u[Len(g) + i] = a[i]
      /\ \A i \in 1..(Len(s) - k) : u[(Len(g) + k) + i] = r[i]
  <2>1. Len(a) = k /\ Len(r) = Len(s) - k
    BY <1>2, Zenon
  <2> QED BY <1>3, <2>1, Zenon DEF InTurn
<1>9. Len(g) \in Nat /\ Len(s) \in Nat /\ k \in Nat
  OBVIOUS
<1>10. Len(u) = Len(v)
  BY <1>5, <1>8, <1>9
<1>11. ASSUME NEW i \in 1..Len(u) PROVE u[i] = v[i]
  <2>0. i \in 1..(Len(g) + Len(s))
    BY <1>5, <1>10, Zenon
  <2>1. CASE i \in 1..Len(g)
    BY <1>6, <1>8, <2>1, Zenon
  <2>2. CASE \E j \in 1..k : i = Len(g) + j
    <3>1. PICK j \in 1..k : i = Len(g) + j
      BY <2>2
    <3>2. j \in 1..Len(s)
      BY <1>9
    <3>3. u[Len(g) + j] = a[j] /\ a[j] = s[j] /\ v[Len(g) + j] = s[j]
      BY <1>2, <1>6, <1>8, <3>2, Zenon
    <3> QED BY <3>1, <3>3, Zenon
  <2>3. CASE \E j \in 1..(Len(s) - k) : i = (Len(g) + k) + j
    <3>1. PICK j \in 1..(Len(s) - k) : i = (Len(g) + k) + j
      BY <2>3, Zenon
    <3>2. k + j \in 1..Len(s) /\ (Len(g) + k) + j = Len(g) + (k + j)
      BY <1>9
    <3>3. u[(Len(g) + k) + j] = r[j] /\ r[j] = s[k + j] /\ v[Len(g) + (k + j)] = s[k + j]
      BY <1>2, <1>6, <1>8, <3>2, Zenon
    <3> QED BY <3>1, <3>2, <3>3, Zenon
  <2>4. \/ i \in 1..Len(g)
        \/ i - Len(g) \in 1..k /\ i = Len(g) + (i - Len(g))
        \/ i - (Len(g) + k) \in 1..(Len(s) - k) /\ i = (Len(g) + k) + (i - (Len(g) + k))
    BY <1>9, <2>0
  <2> QED BY <2>1, <2>2, <2>3, <2>4, Zenon
<1>12. u = v
  BY <1>5, <1>7, <1>10, <1>11, SameSeq, Zenon
<1> QED BY <1>1, <1>4, <1>12, Zenon

\* After a call that was not cut and did not fail, the text is in the file but for
\* the tail, or all of it when the tail was written too.
LEMMA WroteAll ==
    ASSUME LogInv, PrefixInv, isOpen, sink, NEW chunk \in Seq(Byte), NEW out \in Seq(Byte), NEW cf,
           Hands(chunk, out, cf), NEW x \in 0..Len(out), Reaches(out, BoundedWrite(chunk).truncated, cf, x),
           ~st'.truncated, ~st'.open_errno, ~st'.write_errno
    PROVE  /\ out = BoundedWrite(chunk).out =>
                /\ Len(file') + Len(BoundedWrite(chunk).tail) = orig + Len(given')
                /\ Follows(BoundedWrite(chunk).tail, given', Len(given') - Len(BoundedWrite(chunk).tail))
           /\ out = BoundedWrite(chunk).out \o BoundedWrite(chunk).tail => Len(file') = orig + Len(given')
<1>1. PICK w, g : w = BoundedWrite(chunk) /\ g = given \o chunk
  BY Zenon
<1>2. /\ Len(file') = Len(file) + x
      /\ st'.open_errno = st.open_errno /\ st'.truncated = w.truncated
      /\ st'.write_errno = (st.write_errno \/ (sink /\ x < Len(out)))
  BY <1>1, Zenon DEF Reaches
<1>3. Healthy /\ ~w.truncated /\ ~(x < Len(out))
  <2>1. Decides(chunk, w)
    BY <1>1, WriteDecides, Zenon
  <2> QED BY <1>2, <2>1, Zenon DEF Decides, Healthy
<1>4. PICK n \in 0..Len(given), b \in Nat : Appended(file, given, n, 0) /\ Finds(chunk, g, b, n)
  BY <1>1, <1>3, FoundFile, Zenon
<1>5. n + Len(w.out) + Len(w.tail) = Len(g) /\ Follows(w.tail, g, n + Len(w.out))
  <2>1. Leaves(w, g, n)
    BY <1>1, <1>3, <1>4, WriteLeaves, Zenon
  <2> QED BY <1>3, <2>1, Zenon DEF Leaves
<1>6. w.out \in Seq(Byte) /\ w.tail \in Seq(Byte) /\ orig \in Nat /\ given \in Seq(Byte)
  <2>1. w.out \in Seq(Byte) /\ w.tail \in Seq(Byte)
    BY <1>1, WriteEffect, Zenon
  <2> QED BY <2>1 DEF LogInv, TypeOK
<1>7. PICK o, t, l, y : o = Len(w.out) /\ t = Len(w.tail) /\ l = Len(g) /\ y = Len(out)
  BY Zenon
<1>8. o \in Nat /\ t \in Nat /\ y \in Nat /\ n \in Nat /\ x = y
  <2>1. o \in Nat /\ t \in Nat
    BY <1>6, <1>7
  <2>2. y \in Nat /\ n \in Nat
    BY <1>6, <1>7
  <2>3. x \in 0..y /\ ~(x < y)
    BY <1>3, <1>7, Zenon
  <2> QED BY <2>1, <2>2, <2>3
<1>9. n + o + t = l /\ Len(file) = orig + n + 0
  BY <1>4, <1>5, <1>7, Zenon DEF Appended
<1>10. /\ l - t = n + o /\ (orig + n + 0 + o) + t = orig + l
       /\ orig + n + 0 + (o + t) = orig + l
  <2>1. n + o + t = l
    BY <1>9, Zenon
  <2> QED BY <1>6, <1>8, <2>1
<1>11. g = given'
  BY <1>1, Zenon DEF Hands
<1>12. ASSUME out = w.out
       PROVE Len(file') + Len(w.tail) = orig + Len(g) /\ Follows(w.tail, g, Len(g) - Len(w.tail))
  <2>1. x = o
    BY <1>7, <1>8, <1>12, Zenon
  <2> QED BY <1>2, <1>5, <1>7, <1>9, <1>10, <2>1, Zenon
<1>13. ASSUME out = w.out \o w.tail PROVE Len(file') = orig + Len(g)
  <2>1. Len(out) = Len(w.out) + Len(w.tail)
    BY <1>6, <1>13, ConcatFacts, Zenon
  <2>2. x = o + t
    BY <1>7, <1>8, <2>1, Zenon
  <2> QED BY <1>2, <1>7, <1>9, <1>10, <2>2, Zenon
<1> QED BY <1>1, <1>11, <1>12, <1>13, Zenon

\* A flush: what is left in the buffer still belongs to the text.
LEMMA FlushPrefix ==
    ASSUME LogInv, PrefixInv, Flush PROVE PrefixInv'
<1>1. PICK k \in 1..Len(stdio) :
        /\ given' = given \o SubSeq(stdio, 1, k)
        /\ stdio' = SubSeq(stdio, k + 1, Len(stdio))
        /\ tail' = BoundedWrite(SubSeq(stdio, 1, k)).tail
        /\ accepted' = BoundedWrite(SubSeq(stdio, 1, k)).accepted
        /\ WriteBytes(BoundedWrite(SubSeq(stdio, 1, k)).out, BoundedWrite(SubSeq(stdio, 1, k)).truncated, FALSE)
  BY Zenon DEF Flush
<1>2. isOpen /\ isOpen' = isOpen /\ UNCHANGED <<orig, sink, capacity>>
  BY Zenon DEF Flush
<1>3. PICK chunk, out : chunk = SubSeq(stdio, 1, k) /\ out = BoundedWrite(chunk).out
  BY Zenon
<1>4. stdio \in Seq(Byte) /\ given \in Seq(Byte) /\ k \in 0..Len(stdio)
  BY DEF LogInv, TypeOK
<1>5. chunk \in Seq(Byte) /\ stdio' \in Seq(Byte)
  BY <1>1, <1>3, <1>4, FrontAt, RestAt, Zenon
<1>6. AllPrinted' = AllPrinted /\ AllPrinted = (given \o chunk) \o stdio'
  BY <1>1, <1>3, <1>4, Regrouped, Zenon DEF AllPrinted
<1>7. given \o chunk \in Seq(Byte)
  BY <1>4, <1>5, ConcatFacts, Zenon
<1>8. Text(given \o chunk)
  BY <1>5, <1>6, <1>7, TextFront, Zenon DEF PrefixInv
<1>9. out \in Seq(Byte)
  BY <1>2, <1>3, <1>5, WriteEffect, Zenon
<1>10. Healthy => accepted <= Len(given) /\ accepted \in Nat /\ Len(given) \in Nat
  BY <1>2, <1>4 DEF PrefixInv, SessionInv, LogInv, TypeOK
<1>11. ASSUME Healthy, Len(given) - accepted < Len(given \o chunk)
       PROVE  (given \o chunk)[(Len(given) - accepted) + 1] # Cont
  <2>1. Len(AllPrinted) = Len(given \o chunk) + Len(stdio')
    BY <1>5, <1>6, <1>7, ConcatFacts, Zenon
  <2>2. \A i \in 1..Len(given \o chunk) : AllPrinted[i] = (given \o chunk)[i]
    BY <1>5, <1>6, <1>7, ConcatAt, Zenon
  <2>3. Len(stdio') \in Nat /\ Len(given \o chunk) \in Nat
    BY <1>5, <1>7
  <2>4. /\ (Len(given) - accepted) + 1 \in 1..Len(given \o chunk)
        /\ Len(given) - accepted < Len(AllPrinted)
    BY <1>10, <1>11, <2>1, <2>3
  <2>5. AllPrinted[(Len(given) - accepted) + 1] # Cont
    BY <1>2, <1>11, <2>4, Zenon DEF PrefixInv, SessionInv
  <2> QED BY <2>2, <2>4, <2>5, Zenon
<1>12. Hands(chunk, out, FALSE)
  BY <1>1, <1>2, <1>3, <1>8, <1>11, Zenon DEF Hands
<1>13. PICK x \in 0..Len(out) : Reaches(out, BoundedWrite(chunk).truncated, FALSE, x)
  BY <1>1, <1>3, <1>9, WriteReaches, Zenon
<1>14. FileInv' /\ CutInv'
  BY <1>2, <1>5, <1>9, <1>12, <1>13, FileKept, CutKept, Zenon
<1>15. PICK w : w = BoundedWrite(chunk)
  OBVIOUS
<1>16. Decides(chunk, w)
  BY <1>2, <1>5, <1>15, WriteDecides, Zenon
<1>17. /\ st'.attempted = st.attempted /\ st'.open_errno = st.open_errno /\ st'.truncated = w.truncated
       /\ st.write_errno => st'.write_errno
       /\ st.close_errno => st'.close_errno
       /\ st.truncated => st'.truncated
  BY <1>13, <1>15, <1>16, Zenon DEF Reaches, Decides
<1>18. PhaseInv'
  <2>1. st.attempted
    BY <1>2, Zenon DEF LogInv
  <2>2. Disabled => Disabled'
    BY <1>17, Zenon DEF Disabled
  <2>3. (isOpen /\ ~Disabled => sink) /\ (sink => isOpen)
    BY Zenon DEF PrefixInv, PhaseInv
  <2> QED BY <1>2, <1>17, <2>1, <2>2, <2>3, Zenon DEF PhaseInv
<1>19. SessionInv'
  <2> SUFFICES ASSUME Healthy'
               PROVE  /\ accepted' <= Len(given')
                      /\ Len(given') - accepted' < Len(AllPrinted') =>
                           AllPrinted'[Len(given') - accepted' + 1] # Cont
                      /\ orig + Len(given') + (capacity - accepted') >= Limit
                      /\ sink => /\ Len(file') + Len(tail') = orig + Len(given')
                                 /\ \A i \in 1..Len(tail') : tail'[i] = given'[Len(given') - Len(tail') + i]
    BY <1>2, Zenon DEF SessionInv
  <2>1. Healthy /\ ~w.truncated /\ ~st'.truncated /\ ~st'.open_errno /\ ~st'.write_errno
    BY <1>17, Zenon DEF Healthy
  <2>2. w.accepted = accepted + Len(chunk)
    BY <1>16, <2>1, Zenon DEF Decides
  <2>3. Len(given') = Len(given) + Len(chunk) /\ accepted' = accepted + Len(chunk)
    BY <1>1, <1>3, <1>4, <1>5, <1>15, <2>2, ConcatFacts, Zenon
  <2>4. /\ accepted <= Len(given)
        /\ Len(given) - accepted < Len(AllPrinted) => AllPrinted[Len(given) - accepted + 1] # Cont
        /\ orig + Len(given) + (capacity - accepted) >= Limit
    BY <1>2, <2>1, Zenon DEF PrefixInv, SessionInv
  <2>5. Len(chunk) \in Nat /\ capacity \in Nat /\ orig \in Nat /\ Limit \in Nat
    BY <1>5, LogAssumption DEF LogInv, TypeOK
  <2>6. /\ accepted + Len(chunk) <= Len(given) + Len(chunk)
        /\ (Len(given) + Len(chunk)) - (accepted + Len(chunk)) = Len(given) - accepted
        /\ orig + (Len(given) + Len(chunk)) + (capacity - (accepted + Len(chunk))) >= Limit
    <3>1. accepted \in Nat /\ Len(given) \in Nat /\ accepted <= Len(given)
      BY <1>10, <2>1, Zenon
    <3>2. orig + Len(given) + (capacity - accepted) >= Limit
      BY <2>4, Zenon
    <3> QED BY <2>5, <3>1, <3>2
  <2>7. /\ accepted' <= Len(given')
        /\ Len(given') - accepted' = Len(given) - accepted
        /\ orig + Len(given') + (capacity - accepted') >= Limit
    BY <2>3, <2>6, Zenon
  <2>8. ASSUME sink
        PROVE  /\ Len(file') + Len(tail') = orig + Len(given')
               /\ \A i \in 1..Len(tail') : tail'[i] = given'[Len(given') - Len(tail') + i]
    <3>1. /\ Len(file') + Len(w.tail) = orig + Len(given')
          /\ Follows(w.tail, given', Len(given') - Len(w.tail))
      BY <1>2, <1>3, <1>5, <1>9, <1>12, <1>13, <1>15, <2>1, <2>8, WroteAll, Zenon
    <3>2. tail' = w.tail
      BY <1>1, <1>3, <1>15, Zenon
    <3> QED BY <3>1, <3>2, Zenon DEF Follows
  <2> QED BY <1>6, <2>4, <2>7, <2>8, Zenon
<1>20. Text(AllPrinted)'
  <2>1. Text(AllPrinted')
    BY <1>6, Zenon DEF PrefixInv
  <2> QED BY <2>1, Zenon DEF Text
<1> QED BY <1>14, <1>18, <1>19, <1>20, Zenon DEF PrefixInv

\* Close: the rest of the buffer and the tail are written.
LEMMA ClosePrefix ==
    ASSUME LogInv, PrefixInv, Close PROVE PrefixInv'
<1>1. PICK cf \in BOOLEAN :
        WriteBytes(BoundedWrite(stdio).out \o BoundedWrite(stdio).tail, BoundedWrite(stdio).truncated, cf)
  BY Zenon DEF Close
<1>2. /\ isOpen /\ isOpen' = FALSE /\ sink' = FALSE /\ UNCHANGED <<orig, capacity>>
      /\ given' = given \o stdio /\ stdio' = <<>>
  BY Zenon DEF Close
<1>3. stdio \in Seq(Byte) /\ given \in Seq(Byte)
  BY DEF LogInv, TypeOK
<1>4. PICK w, out : w = BoundedWrite(stdio) /\ out = w.out \o w.tail
  BY Zenon
<1>5. out \in Seq(Byte)
  <2>1. w.out \in Seq(Byte) /\ w.tail \in Seq(Byte)
    BY <1>2, <1>3, <1>4, WriteEffect, Zenon
  <2> QED BY <1>4, <2>1, ConcatFacts, Zenon
<1>6. Text(given \o stdio)
  BY Zenon DEF PrefixInv, AllPrinted
<1>7. Healthy /\ Len(given) - accepted < Len(given \o stdio) =>
        (given \o stdio)[(Len(given) - accepted) + 1] # Cont
  BY <1>2, Zenon DEF PrefixInv, SessionInv, AllPrinted
<1>8. Hands(stdio, out, cf)
  BY <1>1, <1>2, <1>4, <1>6, <1>7, Zenon DEF Hands
<1>9. PICK x \in 0..Len(out) : Reaches(out, BoundedWrite(stdio).truncated, cf, x)
  BY <1>1, <1>4, <1>5, WriteReaches, Zenon
<1>10. FileInv' /\ CutInv'
  BY <1>2, <1>3, <1>5, <1>8, <1>9, FileKept, CutKept, Zenon
<1>11. Decides(stdio, w)
  BY <1>2, <1>3, <1>4, WriteDecides, Zenon
<1>12. /\ st'.attempted = st.attempted /\ st'.open_errno = st.open_errno /\ st'.truncated = w.truncated
       /\ st.write_errno => st'.write_errno
       /\ st.close_errno => st'.close_errno
       /\ st.truncated => st'.truncated
  BY <1>4, <1>9, <1>11, Zenon DEF Reaches, Decides
<1>13. PhaseInv'
  <2>1. st.attempted
    BY <1>2, Zenon DEF LogInv
  <2>2. ASSUME ~Disabled' PROVE Len(file') = orig + Len(given')
    <3>1. ~Disabled /\ ~st'.truncated /\ ~st'.open_errno /\ ~st'.write_errno
      BY <1>12, <2>2, Zenon DEF Disabled
    <3>2. sink
      BY <1>2, <3>1, Zenon DEF PrefixInv, PhaseInv
    <3> QED BY <1>2, <1>3, <1>4, <1>5, <1>8, <1>9, <3>1, <3>2, WroteAll, Zenon
  <2> QED BY <1>2, <1>12, <2>1, <2>2, Zenon DEF PhaseInv
<1>14. SessionInv'
  BY <1>2, Zenon DEF SessionInv
<1>15. Text(AllPrinted)'
  <2>1. given \o stdio \in Seq(Byte)
    BY <1>3, ConcatFacts, Zenon
  <2>2. given' \o stdio' = given \o stdio
    BY <1>2, <2>1
  <2>3. Text(given' \o stdio')
    BY <1>6, <2>2, Zenon
  <2> QED BY <2>3, Zenon DEF Text, AllPrinted
<1> QED BY <1>10, <1>13, <1>14, <1>15, Zenon DEF PrefixInv

\* Printing adds a scalar to the text.
LEMMA PrintfPrefix ==
    ASSUME LogInv, PrefixInv, NEW c \in Widths, Printf(c) PROVE PrefixInv'
<1>1. /\ isOpen /\ stdio' = stdio \o Scalar(c)
      /\ UNCHANGED <<file, orig, given, isOpen, sink, st, capacity, accepted, tail>>
  BY Zenon DEF Printf
<1>2. stdio \in Seq(Byte) /\ given \in Seq(Byte) /\ c \in 1..4
  BY LogAssumption DEF LogInv, TypeOK
<1>3. AllPrinted \in Seq(Byte) /\ Text(AllPrinted)
  BY <1>2, ConcatFacts, Zenon DEF PrefixInv, AllPrinted
<1>4. PICK s : s = Scalar(c)
  OBVIOUS
<1>5. s \in Seq(Byte) /\ Len(s) = c /\ s[1] # Cont /\ Text(AllPrinted \o s)
  BY <1>2, <1>3, <1>4, TextScalar, Zenon
<1>6. AllPrinted' = AllPrinted \o s
  <2>1. given \o (stdio \o s) = (given \o stdio) \o s
    BY <1>2, <1>5
  <2> QED BY <1>1, <1>4, <2>1, Zenon DEF AllPrinted
<1>7. Text(AllPrinted)'
  <2>1. Text(AllPrinted')
    BY <1>5, <1>6, Zenon
  <2> QED BY <2>1, Zenon DEF Text
<1>8. FileInv'
  BY <1>1, Zenon DEF PrefixInv, FileInv, Appended, Cut
<1>9. CutInv'
  BY <1>1, Zenon DEF PrefixInv, CutInv
<1>10. PhaseInv'
  BY <1>1, Zenon DEF PrefixInv, PhaseInv, Disabled
<1>11. SessionInv'
  <2> SUFFICES ASSUME Healthy, Len(given) - accepted < Len(AllPrinted')
               PROVE  AllPrinted'[Len(given) - accepted + 1] # Cont
    BY <1>1, Zenon DEF PrefixInv, SessionInv, Healthy
  <2>1. PICK b : b = Len(given) - accepted
    OBVIOUS
  <2>2. PICK l : l = Len(AllPrinted)
    BY Zenon
  <2>3. /\ accepted <= Len(given)
        /\ b < l => AllPrinted[b + 1] # Cont
    BY <1>1, <2>1, <2>2, Zenon DEF PrefixInv, SessionInv
  <2>4. accepted \in Nat /\ Len(given) \in Nat /\ Len(stdio) \in Nat /\ l = Len(given) + Len(stdio)
    <3>1. l = Len(given) + Len(stdio)
      BY <1>2, <2>2, ConcatFacts, Zenon DEF AllPrinted
    <3> QED BY <1>2, <3>1 DEF LogInv, TypeOK
  <2>5. b \in Nat /\ l \in Nat /\ b <= l
    <3>1. accepted <= Len(given)
      BY <2>3, Zenon
    <3> QED BY <2>1, <2>4, <3>1
  <2>6. /\ \A i \in 1..l : (AllPrinted \o s)[i] = AllPrinted[i]
        /\ \A i \in 1..c : (AllPrinted \o s)[l + i] = s[i]
    <3>1. PICK u : u = AllPrinted
      OBVIOUS
    <3>2. u \in Seq(Byte) /\ s \in Seq(Byte)
      BY <1>3, <1>5, <3>1, Zenon
    <3>3. /\ \A i \in 1..Len(u) : (u \o s)[i] = u[i]
          /\ \A i \in 1..Len(s) : (u \o s)[Len(u) + i] = s[i]
      BY <3>2, ConcatAt
    <3> QED BY <1>5, <2>2, <3>1, <3>3, Zenon
  <2>7. CASE b < l
    <3>1. b + 1 \in 1..l
      BY <2>5, <2>7
    <3> QED BY <1>6, <2>1, <2>3, <2>6, <2>7, <3>1, Zenon
  <2>8. CASE b = l
    <3>1. 1 \in 1..c
      BY <1>2
    <3> QED BY <1>5, <1>6, <2>1, <2>6, <2>8, <3>1, Zenon
  <2> QED BY <2>5, <2>7, <2>8
<1> QED BY <1>7, <1>8, <1>9, <1>10, <1>11, Zenon DEF PrefixInv

\* What iperf_bounded_log_wrap is called with: a sink only when output is not disabled;
\* otherwise it finds the counted size, the file's size or an open error.
WrapArguments(hasSink, size, failed) ==
    /\ hasSink => ~Disabled /\ size = Len(file)
    /\ Disabled => ~hasSink /\ size = st.file_bytes
    /\ ~Disabled => size = Len(file) \/ failed = TRUE
    /\ ~hasSink => Disabled \/ failed = TRUE
    /\ isOpen' \/ failed = TRUE
    /\ hasSink => isOpen'

\* The size found, unless opening fails.
LEMMA SizeFound ==
    ASSUME LogInv, PrefixInv, NEW hasSink, NEW size, NEW failed, WrapArguments(hasSink, size, failed),
           st.truncated \/ ~(st.open_errno \/ failed = TRUE)
    PROVE  size = Len(file)
<1>1. CASE Disabled
  <2>1. size = st.file_bytes /\ st.attempted
    BY <1>1, Zenon DEF WrapArguments, PrefixInv, PhaseInv
  <2>2. st.file_bytes = Len(file)
    BY <2>1, Zenon DEF LogInv, CountsExact, PrefixInv, CutInv
  <2> QED BY <2>1, <2>2, Zenon
<1>2. CASE ~Disabled
  BY <1>2, Zenon DEF WrapArguments, Disabled
<1> QED BY <1>1, <1>2, Zenon

\* A session that is opened.
LEMMA WrapPrefix ==
    ASSUME LogInv, PrefixInv, ~isOpen, isOpen' \in BOOLEAN, UNCHANGED <<file, orig, given, stdio>>,
           NEW hasSink \in BOOLEAN, NEW known \in BOOLEAN, NEW size \in Nat, NEW failed \in BOOLEAN,
           WrapArguments(hasSink, size, failed), Wrap(hasSink, known, size, failed)
    PROVE  PrefixInv'
<1>1. /\ file \in Seq(Byte) /\ given \in Seq(Byte) /\ orig \in Nat /\ Limit \in Nat /\ MarkerSize \in Nat
      /\ st \in Status /\ Len(file) \in Nat /\ Len(given) \in Nat
  BY LogAssumption DEF LogInv, TypeOK
<1>2. /\ sink' = hasSink /\ accepted' = 0 /\ tail' = <<>>
      /\ capacity' = IF Limit < MarkerSize \/ size > Limit THEN 0 ELSE Limit - size
  BY Zenon DEF Wrap
<1>3. /\ st'.attempted = TRUE /\ st'.file_bytes = size /\ st'.truncated = st.truncated
      /\ st'.write_errno = st.write_errno /\ st'.close_errno = st.close_errno
      /\ st'.open_errno = (st.open_errno \/ failed \/ Limit < MarkerSize \/ size > Limit)
  BY <1>1, Zenon DEF Wrap, Status
<1>4. stdio = <<>> /\ (~Disabled => Len(file) = orig + Len(given))
  BY Zenon DEF PrefixInv, PhaseInv
<1>5. Text(AllPrinted)'
  BY Zenon DEF PrefixInv, Text, AllPrinted
<1>6. FileInv'
  <2>1. PICK n \in 0..Len(given), m \in 0..MarkerSize :
          /\ Appended(file, given, n, m)
          /\ m > 0 => st.truncated /\ Cut(given, n)
          /\ m \in {0, MarkerSize} \/ st.write_errno
    BY Zenon DEF PrefixInv, FileInv
  <2>2. n \in 0..Len(given') /\ Appended(file', given', n, m) /\ (Cut(given, n) => Cut(given', n))
    BY <2>1, Zenon
  <2> QED BY <1>3, <2>1, <2>2, FileNext, Zenon
<1>7. ~st.truncated => Len(file) <= orig + Len(given)
  <2>1. PICK n \in 0..Len(given), m \in 0..MarkerSize :
          Appended(file, given, n, m) /\ (m > 0 => st.truncated)
    BY Zenon DEF PrefixInv, FileInv
  <2>2. Len(file) = orig + n + m
    BY <2>1, Zenon DEF Appended
  <2> QED BY <1>1, <2>1, <2>2
<1>8. ~st'.open_errno => capacity' = Limit - size /\ size <= Limit /\ ~st.open_errno /\ ~(failed = TRUE)
  <2> SUFFICES ASSUME ~st'.open_errno
               PROVE  capacity' = Limit - size /\ size <= Limit /\ ~st.open_errno /\ ~(failed = TRUE)
    BY Zenon
  <2>1. ~st.open_errno /\ ~(failed = TRUE) /\ ~(Limit < MarkerSize) /\ ~(size > Limit)
    BY <1>3, Zenon
  <2>2. capacity' = Limit - size
    BY <1>2, <2>1, Zenon
  <2>3. size <= Limit
    BY <1>1, <2>1
  <2> QED BY <2>1, <2>2, <2>3, Zenon
<1>9. CutInv'
  <2>1. ASSUME st.truncated
        PROVE  /\ st'.file_bytes = Len(file')
               /\ \/ orig' + Len(given') > Limit
                  \/ capacity' < MarkerSize /\ Len(file') + MarkerSize > Limit
    <3>1. size = Len(file)
      BY <2>1, SizeFound, Zenon
    <3>2. orig + Len(given) > Limit \/ Len(file) + MarkerSize > Limit
      BY <2>1, Zenon DEF PrefixInv, CutInv
    <3>3. Len(file) + MarkerSize > Limit => capacity' < MarkerSize \/ (capacity' = 0 /\ MarkerSize = 0)
      BY <1>1, <1>2, <3>1
    <3>4. MarkerSize # 0
      BY LogAssumption
    <3> QED BY <1>3, <3>1, <3>2, <3>3, <3>4, Zenon
  <2>2. ASSUME ~st'.open_errno, capacity' < MarkerSize PROVE Len(file') + MarkerSize > Limit
    <3>1. size = Len(file)
      BY <1>8, <2>2, SizeFound, Zenon
    <3>2. Len(file) + MarkerSize > Limit
      BY <1>1, <1>8, <2>2, <3>1
    <3> QED BY <3>2, Zenon
  <2> QED BY <1>3, <2>1, <2>2, Zenon DEF CutInv
<1>10. PhaseInv'
  <2>1. Disabled => Disabled'
    BY <1>3, Zenon DEF Disabled
  <2>2. ~Disabled' => ~Disabled /\ ~(failed = TRUE)
    BY <1>3, <2>1, Zenon DEF Disabled
  <2>3. isOpen' /\ ~Disabled' => sink'
    BY <1>2, <2>2, Zenon DEF WrapArguments
  <2>4. sink' => isOpen'
    BY <1>2, Zenon DEF WrapArguments
  <2>5. ~isOpen' /\ ~Disabled' => FALSE
    BY <2>2, Zenon DEF WrapArguments
  <2> QED BY <1>3, <1>4, <2>3, <2>4, <2>5, Zenon DEF PhaseInv
<1>11. SessionInv'
  <2> SUFFICES ASSUME ~st'.truncated, ~st'.open_errno, ~st'.write_errno
               PROVE  /\ 0 <= Len(given)
                      /\ ~(Len(given) - 0 < Len(AllPrinted'))
                      /\ orig + Len(given) + (capacity' - 0) >= Limit
                      /\ hasSink => Len(file) + Len(tail') = orig + Len(given) /\ 1..Len(tail') = {}
    BY <1>2, Zenon DEF SessionInv, Healthy
  <2>1. AllPrinted' = given
    BY <1>1, <1>4 DEF AllPrinted
  <2>2. size = Len(file) /\ capacity' = Limit - size /\ size <= Limit
    BY <1>8, SizeFound, Zenon
  <2>3. Len(file) <= orig + Len(given)
    BY <1>3, <1>7, Zenon
  <2>4. orig + Len(given) + (capacity' - 0) >= Limit
    BY <1>1, <2>2, <2>3
  <2>5. Len(tail') = 0 /\ 1..0 = {} /\ 0 <= Len(given) /\ ~(Len(given) - 0 < Len(given))
    BY <1>1, <1>2
  <2>6. hasSink => Len(file) + 0 = orig + Len(given)
    <3>1. hasSink => Len(file) = orig + Len(given)
      BY <1>4, Zenon DEF WrapArguments
    <3> QED BY <1>1, <3>1
  <2> QED BY <2>1, <2>4, <2>5, <2>6, Zenon
<1> QED BY <1>5, <1>6, <1>9, <1>10, <1>11, Zenon DEF PrefixInv

\* Opening, whatever becomes of the path.
LEMMA OpenPrefix ==
    ASSUME LogInv, PrefixInv, OpenLogfile \/ OpenNoMemory PROVE PrefixInv'
<1>1. ~isOpen /\ UNCHANGED <<file, orig, given, stdio>>
  BY Zenon DEF OpenLogfile, OpenNoMemory
<1>2. isOpen' \in BOOLEAN /\ (OpenLogfile => isOpen')
  <2>1. isOpen \in BOOLEAN
    BY DEF LogInv, TypeOK
  <2> QED BY <2>1, Zenon DEF OpenLogfile, OpenNoMemory
<1>3. Len(file) \in Nat /\ st.file_bytes \in Nat /\ 0 \in Nat
  BY DEF LogInv, TypeOK, Status
<1>4. Disabled => st.attempted
  BY Zenon DEF PrefixInv, PhaseInv
<1>5. \E hasSink \in BOOLEAN, known \in BOOLEAN, size \in Nat, failed \in BOOLEAN :
        WrapArguments(hasSink, size, failed) /\ Wrap(hasSink, known, size, failed)
  <2>1. CASE OpenNoMemory /\ st.attempted /\ Disabled
    <3>1. Wrap(FALSE, FALSE, st.file_bytes, TRUE)
      BY <2>1, Zenon DEF OpenNoMemory
    <3>2. WrapArguments(FALSE, st.file_bytes, TRUE)
      BY <2>1, Zenon DEF WrapArguments
    <3> QED BY <1>3, <3>1, <3>2, Zenon
  <2>2. CASE OpenLogfile /\ OpenDisabled
    <3>1. Wrap(FALSE, FALSE, st.file_bytes, FALSE) /\ Disabled
      BY <2>2, Zenon DEF OpenDisabled
    <3>2. WrapArguments(FALSE, st.file_bytes, FALSE)
      BY <1>2, <2>2, <3>1, Zenon DEF WrapArguments
    <3> QED BY <1>3, <3>1, <3>2, Zenon
  <2>3. CASE OpenLogfile /\ OpenPath
    <3>1. PICK failed \in BOOLEAN : Wrap(TRUE, TRUE, Len(file), failed)
      BY <2>3, Zenon DEF OpenPath
    <3>2. WrapArguments(TRUE, Len(file), failed)
      BY <1>2, <1>4, <2>3, Zenon DEF WrapArguments, OpenPath
    <3> QED BY <1>3, <3>1, <3>2, Zenon
  <2>4. CASE OpenPathFails
    <3>1. Wrap(FALSE, FALSE, 0, TRUE) /\ ~Disabled
      BY <1>4, <2>4, Zenon DEF OpenPathFails
    <3>2. WrapArguments(FALSE, 0, TRUE)
      BY <3>1, Zenon DEF WrapArguments
    <3> QED BY <1>3, <3>1, <3>2, Zenon
  <2>5. CASE OpenStreamFails
    <3>1. Wrap(FALSE, TRUE, Len(file), TRUE) /\ ~Disabled
      BY <1>4, <2>5, Zenon DEF OpenStreamFails
    <3>2. WrapArguments(FALSE, Len(file), TRUE)
      BY <3>1, Zenon DEF WrapArguments
    <3> QED BY <1>3, <3>1, <3>2, Zenon
  <2> QED BY <2>1, <2>2, <2>3, <2>4, <2>5, Zenon DEF OpenLogfile, OpenNoMemory
<1> QED BY <1>1, <1>2, <1>5, WrapPrefix, Zenon

\* Nothing is printed yet, and the file is what it was.
LEMMA InitPrefix == Init => PrefixInv
<1> SUFFICES ASSUME Init PROVE PrefixInv
  OBVIOUS
<1>1. LogInv
  BY InitLog
<1>2. /\ given = <<>> /\ stdio = <<>> /\ ~isOpen /\ ~sink
      /\ ~st.truncated /\ ~st.open_errno /\ ~st.write_errno /\ ~st.close_errno
  BY DEF Init
<1>3. Len(file) = orig /\ orig \in Nat
  BY LogAssumption DEF Init
<1>4. Len(given) = 0 /\ given \o stdio = <<>> /\ Len(<<>>) = 0 /\ 1..0 = {} /\ 0 \in 0..0
  BY <1>2
<1>5. Text(AllPrinted)
  BY <1>4, Zenon DEF Text, AllPrinted
<1>6. FileInv
  <2>1. orig = orig + 0 + 0 /\ 0 \in 0..MarkerSize /\ ~(0 > 0) /\ 0 \in {0, MarkerSize}
    BY <1>3, LogAssumption
  <2>2. Appended(file, given, 0, 0)
    BY <1>3, <1>4, <2>1, Zenon DEF Appended
  <2> QED BY <1>4, <2>1, <2>2, Zenon DEF FileInv
<1>7. orig + Len(given) = orig
  BY <1>3, <1>4
<1>8. SessionInv /\ CutInv
  BY <1>2, Zenon DEF SessionInv, CutInv
<1>9. PhaseInv
  BY <1>2, <1>3, <1>7, Zenon DEF PhaseInv, Disabled
<1> QED BY <1>5, <1>6, <1>8, <1>9, Zenon DEF PrefixInv

\* Every step keeps what the file says about the text.
LEMMA StepPrefix == LogInv /\ PrefixInv /\ [Next]_vars => PrefixInv'
<1> SUFFICES ASSUME LogInv, PrefixInv, [Next]_vars PROVE PrefixInv'
  OBVIOUS
<1>1. CASE OpenLogfile \/ OpenNoMemory
  BY <1>1, OpenPrefix, Zenon
<1>2. ASSUME NEW c \in Widths, Printf(c) PROVE PrefixInv'
  BY <1>2, PrintfPrefix, Zenon
<1>3. CASE Flush
  BY <1>3, FlushPrefix, Zenon
<1>4. CASE Close
  BY <1>4, ClosePrefix, Zenon
<1>5. CASE UNCHANGED vars
  <2>1. UNCHANGED <<file, orig, given, stdio, isOpen, sink, st, capacity, accepted, tail>>
    BY <1>5, Zenon DEF vars
  <2>2. Text(AllPrinted)' /\ FileInv'
    BY <2>1, Zenon DEF PrefixInv, Text, AllPrinted, FileInv, Appended, Cut
  <2>3. SessionInv' /\ CutInv' /\ PhaseInv'
    BY <2>1, Zenon DEF PrefixInv, SessionInv, CutInv, PhaseInv, Healthy, AllPrinted, Disabled
  <2> QED BY <2>2, <2>3, Zenon DEF PrefixInv
<1> QED BY <1>1, <1>2, <1>3, <1>4, <1>5, Zenon DEF Next

\* What is appended, as one sequence.
LEMMA AppendedText ==
    ASSUME TypeOK, NEW n \in 0..Len(given), NEW m \in 0..MarkerSize, Appended(file, given, n, m)
    PROVE  SubSeq(file, orig + 1, Len(file)) = SubSeq(given, 1, n) \o SubSeq(Marker, 1, m)
<1>1. /\ file \in Seq(Byte) /\ given \in Seq(Byte) /\ orig \in Nat /\ MarkerSize \in Nat
      /\ n \in Nat /\ m \in Nat
  BY LogAssumption DEF TypeOK
<1>2. Marker \in Seq(Byte) /\ Len(Marker) = MarkerSize /\ \A i \in 1..MarkerSize : Marker[i] = Mark
  BY <1>1 DEF Marker, Mark, Byte
<1>3. PICK a, c, u, v : /\ a = SubSeq(given, 1, n) /\ c = SubSeq(Marker, 1, m)
                        /\ u = SubSeq(file, orig + 1, Len(file)) /\ v = a \o c
  BY Zenon
<1>4. a \in Seq(Byte) /\ Len(a) = n /\ \A i \in 1..n : a[i] = given[i]
  BY <1>1, <1>3, FrontAt, Zenon
<1>5. c \in Seq(Byte) /\ Len(c) = m /\ \A i \in 1..m : c[i] = Marker[i]
  <2>1. m \in 0..Len(Marker)
    BY <1>2, Zenon
  <2> QED BY <1>2, <1>3, <2>1, FrontAt, Zenon
<1>6. /\ Len(file) = orig + n + m
      /\ \A i \in 1..n : file[orig + i] = given[i]
      /\ \A i \in 1..m : file[orig + n + i] = Mark
  BY Zenon DEF Appended
<1>7. orig \in 0..Len(file) /\ Len(file) - orig = n + m
  <2>1. Len(file) = orig + n + m
    BY <1>6, Zenon
  <2> QED BY <1>1, <2>1
<1>8. u \in Seq(Byte) /\ Len(u) = n + m /\ \A i \in 1..(n + m) : u[i] = file[orig + i]
  <2>1. /\ u \in Seq(Byte) /\ Len(u) = Len(file) - orig
        /\ \A i \in 1..(Len(file) - orig) : u[i] = file[orig + i]
    BY <1>1, <1>3, <1>7, RestAt, Zenon
  <2> QED BY <1>7, <2>1, Zenon
<1>9. v \in Seq(Byte) /\ Len(v) = n + m
  BY <1>3, <1>4, <1>5, ConcatFacts, Zenon
<1>10. /\ \A i \in 1..n : v[i] = a[i]
       /\ \A i \in 1..m : v[n + i] = c[i]
  <2>1. a \in Seq(Byte) /\ c \in Seq(Byte)
    BY <1>4, <1>5, Zenon
  <2>2. v = a \o c
    BY <1>3, Zenon
  <2>3. /\ \A i \in 1..Len(a) : v[i] = a[i]
        /\ \A i \in 1..Len(c) : v[Len(a) + i] = c[i]
    BY <2>1, <2>2, ConcatAt
  <2> QED BY <1>4, <1>5, <2>3, Zenon
<1>11. ASSUME NEW i \in 1..(n + m) PROVE u[i] = v[i]
  <2>1. CASE i \in 1..n
    BY <1>4, <1>6, <1>8, <1>10, <2>1, Zenon
  <2>2. CASE ~(i \in 1..n)
    <3>1. i - n \in 1..m /\ i = n + (i - n)
      BY <1>1, <2>2
    <3>2. PICK j \in 1..m : i = n + j
      BY <3>1, Zenon
    <3>3. j \in 1..MarkerSize /\ orig + (n + j) = orig + n + j /\ n + j \in 1..(n + m)
      BY <1>1
    <3>4. u[n + j] = file[orig + (n + j)] /\ file[orig + n + j] = Mark
      BY <1>6, <1>8, <3>3, Zenon
    <3>5. v[n + j] = c[j] /\ c[j] = Marker[j] /\ Marker[j] = Mark
      BY <1>2, <1>5, <1>10, <3>3, Zenon
    <3> QED BY <3>2, <3>3, <3>4, <3>5, Zenon
  <2> QED BY <2>1, <2>2
<1>12. u = v
  BY <1>8, <1>9, <1>11, SameSeq, Zenon
<1> QED BY <1>3, <1>12, Zenon

\* What is promised of the file follows from the invariant.
LEMMA PrefixSays == LogInv /\ PrefixInv => KeepsPrefix
<1> SUFFICES ASSUME LogInv, PrefixInv PROVE KeepsPrefix
  OBVIOUS
<1>1. PICK n \in 0..Len(given), m \in 0..MarkerSize :
        /\ Appended(file, given, n, m)
        /\ m > 0 => st.truncated /\ Cut(given, n)
        /\ m \in {0, MarkerSize} \/ st.write_errno
  BY Zenon DEF PrefixInv, FileInv
<1>2. SubSeq(file, orig + 1, Len(file)) = SubSeq(given, 1, n) \o SubSeq(Marker, 1, m)
  BY <1>1, AppendedText, Zenon DEF LogInv
<1>3. m > 0 => st.truncated /\ WholeScalars(n)
  BY <1>1, Zenon DEF Cut, WholeScalars
<1>4. ~isOpen /\ ~Disabled => Len(file) = orig + Len(given)
  BY Zenon DEF PrefixInv, PhaseInv
<1>5. st.truncated => capacity < MarkerSize \/ orig + Len(given) > Limit
  BY Zenon DEF PrefixInv, CutInv
<1> QED BY <1>1, <1>2, <1>3, <1>4, <1>5, Zenon DEF KeepsPrefix

\* The file after any run, its reopenings and failures included: what was there, then
\* a prefix of what was printed and, once output was cut (bounded_write), the marker,
\* right after a complete scalar wherever stdio split its writes; all of the text if
\* the log closed without an error and does not say truncated; and it says truncated
\* only if the text did not fit or there was no room for the marker.
THEOREM PrefixKept == Spec => []KeepsPrefix
<1>1. Spec => [](LogInv /\ PrefixInv)
  BY InitLog, StepInv, InitPrefix, StepPrefix, PTL DEF Spec
<1> QED BY <1>1, PrefixSays, PTL
=============================================================================
