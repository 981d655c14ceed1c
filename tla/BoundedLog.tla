----------------------------- MODULE BoundedLog -----------------------------
(***************************************************************************)
(* The opt-in bounded logfile (iperf_bounded_log.c): a FILE whose writes go *)
(* through bounded_write to an append-only sink.  At most Limit bytes may be *)
(* in the file, existing ones and the truncation marker included; the last  *)
(* TailSize accepted bytes are held back until close, so that a cut can be   *)
(* moved to a UTF-8 boundary and the marker put in their place.  A           *)
(* persistent server closes and reopens the log between clients.             *)
(*                                                                         *)
(* A byte is what the algorithm tells apart: Cont is a continuation byte, a  *)
(* number 1..4 the lead byte of a scalar of that width, Mark a byte of the   *)
(* marker.  Error numbers are abstracted to "an error was remembered".       *)
(***************************************************************************)
EXTENDS Naturals, Sequences

CONSTANTS
    Limit,          \* logfile_status.limit
    MarkerSize,     \* sizeof(marker) - 1
    Existing,       \* the sizes the caller's file may have before the run
    Widths,         \* the widths of the scalars the engine prints
    MaxPrinted,     \* bound: bytes printed in a run
    MaxSessions     \* bound: how often the log is opened (clients served)

ASSUME LogAssumption ==
    /\ Limit \in Nat
    /\ MarkerSize \in Nat \ {0}
    /\ Existing \subseteq Nat
    /\ Widths \subseteq 1..4
    /\ MaxPrinted \in Nat
    /\ MaxSessions \in Nat

Cont == 0
Mark == 5
Byte == 0..5
TailSize == MarkerSize + 3
Marker == [i \in 1..MarkerSize |-> Mark]

\* One UTF-8 scalar of width w.
Scalar(w) == [i \in 1..w |-> IF i = 1 THEN w ELSE Cont]

VARIABLES
    file,       \* the bytes of the logfile
    orig,       \* history: how many of them were there before the run
    given,      \* history: every byte handed to bounded_write in the run
    stdio,      \* bytes printed to test->outfile and still in its stdio buffer
    isOpen,     \* test->outfile is a bounded log
    sink,       \* log->sink is not NULL
    st,         \* struct iperf_log_status
    capacity, accepted, tail,       \* struct bounded_log
    printed, sessions               \* the two bounded counters

vars == <<file, orig, given, stdio, isOpen, sink, st, capacity, accepted, tail,
          printed, sessions>>

Status == [bytes_written : Nat, file_bytes : Nat, attempted : BOOLEAN,
           file_size_known : BOOLEAN, truncated : BOOLEAN, open_errno : BOOLEAN,
           write_errno : BOOLEAN, close_errno : BOOLEAN]

Init ==
    /\ \E n \in Existing : orig = n /\ file = [i \in 1..n |-> 1]
    /\ given = <<>> /\ stdio = <<>> /\ tail = <<>>
    /\ isOpen = FALSE /\ sink = FALSE
    /\ st = [bytes_written |-> 0, file_bytes |-> 0, attempted |-> FALSE,
             file_size_known |-> FALSE, truncated |-> FALSE, open_errno |-> FALSE,
             write_errno |-> FALSE, close_errno |-> FALSE]
    /\ capacity = 0 /\ accepted = 0
    /\ printed = 0 /\ sessions = 0

Least(a, b) == IF a < b THEN a ELSE b

----------------------------------------------------------------------------
(* Opening *)

\* Mutant: the existing bytes are not taken off the budget.
WrapForgetsExisting(hasSink, known, size, failed) ==
    /\ sink' = hasSink
    /\ st' = [st EXCEPT
                !.attempted = TRUE,
                !.file_bytes = size,
                !.file_size_known = st.file_size_known \/ known,
                !.open_errno = st.open_errno \/ failed \/ Limit < MarkerSize]
    /\ capacity' = Limit
    /\ accepted' = 0
    /\ tail' = <<>>

\* iperf_bounded_log_wrap: size is existing_bytes, known that fstat reported it.
\* The open error is the one met so far or one of its own (limits, setvbuf).
Wrap(hasSink, known, size, failed) ==
    /\ sink' = hasSink
    /\ st' = [st EXCEPT
                !.attempted = TRUE,
                !.file_bytes = size,
                !.file_size_known = st.file_size_known \/ known,
                !.open_errno = \/ st.open_errno \/ failed
                               \/ Limit < MarkerSize \/ size > Limit]
    /\ capacity' = IF Limit < MarkerSize \/ size > Limit THEN 0 ELSE Limit - size
    /\ accepted' = 0
    /\ tail' = <<>>

\* What an earlier session left: output is disabled for the rest of the run.
Disabled ==
    st.truncated \/ st.open_errno \/ st.write_errno \/ st.close_errno

\* The persistent server's next client after output was disabled: no retry of a
\* failed path, no reopening of a full file.
OpenDisabled ==
    /\ st.attempted /\ Disabled
    /\ Wrap(FALSE, FALSE, st.file_bytes, FALSE)

\* open, fstat and fdopen succeed; setvbuf may still fail.
OpenPath ==
    /\ ~(st.attempted /\ Disabled)
    /\ \E setvbufFails \in BOOLEAN : Wrap(TRUE, TRUE, Len(file), setvbufFails)

\* open or fstat fails, or the path is not a regular file: size stays 0.
OpenPathFails ==
    /\ ~(st.attempted /\ Disabled)
    /\ Wrap(FALSE, FALSE, 0, TRUE)

\* fdopen fails after the size was read.
OpenStreamFails ==
    /\ ~(st.attempted /\ Disabled)
    /\ Wrap(FALSE, TRUE, Len(file), TRUE)

\* iperf_open_logfile: the test has a bounded log as its outfile.
OpenLogfile ==
    /\ ~isOpen /\ sessions < MaxSessions
    /\ isOpen' = TRUE
    /\ sessions' = sessions + 1
    /\ OpenDisabled \/ OpenPath \/ OpenPathFails \/ OpenStreamFails
    /\ UNCHANGED <<file, orig, given, stdio, printed>>

\* calloc or funopen fails, whatever became of the path: the sink is closed and
\* the run ends with IELOGFILE.
OpenNoMemory ==
    /\ ~isOpen /\ sessions < MaxSessions
    /\ IF st.attempted /\ Disabled
       THEN Wrap(FALSE, FALSE, st.file_bytes, TRUE)
       ELSE OpenPathFails \/ OpenStreamFails
    /\ sessions' = MaxSessions
    /\ UNCHANGED <<file, orig, given, stdio, isOpen, printed>>

----------------------------------------------------------------------------
(* Writing *)

\* Mutant: the cut stays where the budget ends.
Utf8Ignored(bytes) == Len(bytes)

\* The last k bytes are a lead byte and too few continuation bytes.
Incomplete(bytes, k) ==
    LET start == Len(bytes) - k + 1
    IN /\ bytes[start] \in 2..4
       /\ k < bytes[start]
       /\ \A i \in start + 1..Len(bytes) : bytes[i] = Cont

\* utf8_prefix: the length of bytes without an incomplete final scalar.
Utf8Prefix(bytes) ==
    IF \E k \in 1..Len(bytes) : Incomplete(bytes, k)
    THEN Len(bytes) - (CHOOSE k \in 1..Len(bytes) : Incomplete(bytes, k))
    ELSE Len(bytes)

\* retain_prefix and the cut of bounded_write, for an enabled log.
WriteEnabled(chunk) ==
    LET remaining == capacity - accepted
        keep == Least(Len(chunk), remaining)
        held == tail \o SubSeq(chunk, 1, keep)
        flush == IF Len(held) > TailSize THEN Len(held) - TailSize ELSE 0
        rest == SubSeq(held, flush + 1, Len(held))
        cut == Len(chunk) > remaining
        prefix == Utf8Prefix(SubSeq(rest, 1, Len(rest) - MarkerSize))
    IN [out |-> IF cut
                THEN SubSeq(held, 1, flush) \o SubSeq(rest, 1, prefix) \o Marker
                ELSE SubSeq(held, 1, flush),
        tail |-> IF cut THEN <<>> ELSE rest,
        accepted |-> accepted + keep,
        truncated |-> cut]

\* bounded_write.
BoundedWrite(chunk) ==
    IF chunk = <<>> \/ st.truncated \/ st.open_errno \/ st.write_errno
    THEN [out |-> <<>>, tail |-> tail, accepted |-> accepted,
          truncated |-> st.truncated]
    ELSE IF capacity < MarkerSize
    THEN [out |-> <<>>, tail |-> tail, accepted |-> accepted, truncated |-> TRUE]
    ELSE WriteEnabled(chunk)

\* Mutant: a short write is counted as if all of it had been written.
CountsAttempted(out, truncated, closeFails) ==
    \E n \in 0..Len(out) :
        /\ (sink /\ ~st.write_errno) \/ n = 0
        /\ file' = file \o SubSeq(out, 1, n)
        /\ st' = [st EXCEPT
                    !.bytes_written = st.bytes_written + Len(out),
                    !.file_bytes = st.file_bytes + Len(out),
                    !.write_errno = st.write_errno \/ (sink /\ n < Len(out)),
                    !.close_errno = st.close_errno \/ closeFails,
                    !.truncated = truncated]

\* write_bytes: the first n bytes of out reach the file; a short write is
\* remembered and no later write is tried.
WriteBytes(out, truncated, closeFails) ==
    \E n \in 0..Len(out) :
        /\ (sink /\ ~st.write_errno) \/ n = 0
        /\ file' = file \o SubSeq(out, 1, n)
        /\ st' = [st EXCEPT
                    !.bytes_written = st.bytes_written + n,
                    !.file_bytes = st.file_bytes + n,
                    !.write_errno = st.write_errno \/ (sink /\ n < Len(out)),
                    !.close_errno = st.close_errno \/ closeFails,
                    !.truncated = truncated]

\* iperf_printf to the log: the text is in stdio's buffer.
Printf(w) ==
    /\ isOpen
    /\ printed + w <= MaxPrinted
    /\ printed' = printed + w
    /\ stdio' = stdio \o Scalar(w)
    /\ UNCHANGED <<file, orig, given, isOpen, sink, st, capacity, accepted, tail,
                   sessions>>

\* iflush, or a full stdio buffer: any number of its bytes are written, so a
\* scalar may be split between two calls of bounded_write.
Flush ==
    /\ isOpen
    /\ \E k \in 1..Len(stdio) :
          LET chunk == SubSeq(stdio, 1, k)
              w == BoundedWrite(chunk)
          IN /\ given' = given \o chunk
             /\ stdio' = SubSeq(stdio, k + 1, Len(stdio))
             /\ tail' = w.tail
             /\ accepted' = w.accepted
             /\ WriteBytes(w.out, w.truncated, FALSE)
    /\ UNCHANGED <<orig, isOpen, sink, capacity, printed, sessions>>

\* iperf_close_logfile: fclose writes what stdio still has, then bounded_close
\* writes the held tail and closes the sink.
Close ==
    /\ isOpen
    /\ LET w == BoundedWrite(stdio)
       IN \E closeFails \in BOOLEAN :
             /\ closeFails => sink
             /\ WriteBytes(w.out \o w.tail, w.truncated, closeFails)
    /\ given' = given \o stdio
    /\ stdio' = <<>>
    /\ tail' = <<>>
    /\ isOpen' = FALSE
    /\ sink' = FALSE
    /\ UNCHANGED <<orig, capacity, accepted, printed, sessions>>

Next ==
    \/ OpenLogfile \/ OpenNoMemory
    \/ \E w \in Widths : Printf(w)
    \/ Flush
    \/ Close

Spec == Init /\ [][Next]_vars

----------------------------------------------------------------------------
(* Properties *)

\* Every field has its type; what is accepted fits the room found at open, and
\* the held tail is the end of what was accepted, TailSize bytes at most.
TypeOK ==
    /\ file \in Seq(Byte) /\ given \in Seq(Byte) /\ stdio \in Seq(Byte)
    /\ orig \in Nat
    /\ isOpen \in BOOLEAN /\ sink \in BOOLEAN
    /\ st \in Status
    /\ capacity \in Nat /\ accepted \in Nat /\ accepted <= capacity
    /\ tail \in Seq(Byte) /\ Len(tail) <= TailSize
    /\ printed \in Nat /\ sessions \in Nat

\* README "The budget includes existing bytes and at most one new marker": the
\* file never grows past Limit, whatever is printed, however often the log is
\* reopened and wherever a write fails; an oversized file does not grow at all.
WithinLimit ==
    Len(file) <= IF orig > Limit THEN orig ELSE Limit

\* The numbers the completion reports: the bytes this run appended, and the size of
\* the file, whatever failed.  Only a path that could not be inspected leaves zero,
\* for a persistent server's later client too, when the size was known before.
CountsExact ==
    /\ st.bytes_written = Len(file) - orig
    /\ st.attempted => st.file_bytes = Len(file) \/ (st.open_errno /\ st.file_bytes = 0)

\* n bytes of what was printed end on a scalar boundary.
WholeScalars(n) == n = Len(given) \/ given[n + 1] # Cont

\* Appended to the file are a prefix of what was printed and, once output was
\* discarded, the marker: whole unless a write failed, never twice, and right
\* after a complete UTF-8 scalar wherever stdio split its writes.  A closed log
\* without an error that does not say truncated has everything that was printed;
\* and it says truncated only if that did not fit, or if there was no room for a
\* marker when it was opened.
KeepsPrefix ==
    /\ \E n \in 0..Len(given), m \in 0..MarkerSize :
        /\ SubSeq(file, orig + 1, Len(file)) = SubSeq(given, 1, n) \o SubSeq(Marker, 1, m)
        /\ m > 0 => st.truncated /\ WholeScalars(n)
        /\ m \in {0, MarkerSize} \/ st.write_errno
    /\ ~isOpen /\ ~Disabled => Len(file) = orig + Len(given)
    /\ st.truncated => capacity < MarkerSize \/ orig + Len(given) > Limit

\* Once the log is truncated or has failed to open or write, nothing reaches the
\* file again in this run, the reopenings of a persistent server included.
DisabledIsSilent ==
    [][st.truncated \/ st.open_errno \/ st.write_errno => file' = file]_vars

\* Why the file stays within Limit: while the log is enabled, what is in the file,
\* what is held back and what may still be accepted fit together; the tail is the
\* end of what was accepted, so a cut finds room for the marker in it; and a log
\* that is disabled holds nothing that its close could still write.
LogInv ==
    /\ TypeOK
    /\ orig <= Len(file)
    /\ CountsExact
    /\ WithinLimit
    /\ isOpen =>
        /\ st.attempted
        /\ capacity < MarkerSize => accepted = 0
        /\ st.truncated \/ st.open_errno => tail = <<>>
        /\ ~st.truncated => Len(tail) = Least(accepted, TailSize)
        /\ sink /\ ~st.truncated /\ ~st.open_errno /\ ~st.write_errno =>
              Len(file) + Len(tail) + (capacity - accepted) <= Limit
=============================================================================
