---------------------------- MODULE ServerOutput ----------------------------
(***************************************************************************)
(* Bounded server output from end to end: the server collects what it       *)
(* prints within its byte budget (iperf_output_budget.c), packages it with a *)
(* status into the results frame, the client scans the frame within its own  *)
(* budget and an absolute deadline (iperf_bounded_output.c and               *)
(* iperf_bounded_socket.c), lets the peer's status worsen its own, and the   *)
(* runner captures the outcome once (IperfRunner.captureServerOutput).       *)
(*                                                                         *)
(* Output is a sequence of units.  In text mode a unit is one UTF-8 scalar,  *)
(* given by its width; Bad is a byte that is not UTF-8 and Nul the scalar 0. *)
(* In JSON mode a unit is one encoded interval, given by its size.           *)
(***************************************************************************)
EXTENDS Integers, Sequences

CONSTANTS
    Modes,          \* [budget: BOOLEAN (FALSE: unmodified CLI server),
                    \*  json, requested: BOOLEAN, sLimit, cLimit: limits >= 1]
    Lines,          \* what one iperf_printf produces in text mode
    Intervals,      \* sizes of encoded intervals
    Overhead,       \* bytes of a JSON document around its intervals
    OverheadNodes,  \* and their values
    NodeLimit,      \* IPERF_RESULT_CORE_MAX_VALUES
    MaxLines,       \* bound: calls of iperf_printf, or intervals
    Ticks           \* IPERF_RESULT_READ_TIMEOUT_MS in clock ticks

Bad == 0
Nul == -1

ASSUME ServerOutputConstants ==
    /\ Modes \subseteq [budget : BOOLEAN, json : BOOLEAN, requested : BOOLEAN,
                        sLimit : Nat \ {0}, cLimit : Nat \ {0}]
    /\ Lines \subseteq Seq(Nat \cup {Nul}) /\ Intervals \subseteq Nat \ {0}
    /\ Overhead \in Nat \ {0} /\ {OverheadNodes, NodeLimit, MaxLines, Ticks} \subseteq Nat

Width(u) == IF u <= 0 THEN 1 ELSE u

\* Bytes(s)[n]: how many bytes the first n units of s take.
Bytes(s) ==
    LET sum[n \in 0..Len(s)] == IF n = 0 THEN 0 ELSE sum[n - 1] + Width(s[n])
    IN sum

Size(s) == Bytes(s)[Len(s)]

OutputStates == {"MISSING", "COMPLETE", "TRUNCATED", "DISCARDED", "INVALID"}
Rank == [MISSING |-> 0, COMPLETE |-> 1, TRUNCATED |-> 2, DISCARDED |-> 3, INVALID |-> 4]
Reasons == {"NONE", "BYTE_LIMIT", "NODE_LIMIT", "INVALID_DATA",
            "ALLOCATION_FAILURE", "READ_FAILURE"}
Formats == {"NONE", "TEXT", "JSON"}

\* struct iperf_server_output; hasValue is value # NULL.
Cleared == [state |-> "MISSING", format |-> "NONE", reason |-> "NONE",
            hasValue |-> FALSE, value |-> <<>>, observed |-> 0, exact |-> FALSE]

VARIABLES
    mode,       \* the configuration of both ends
    produced,   \* history: the units the server put out until it finalized
    lines,      \* bounded counter of produced lines
    out,        \* server: collected_server_output
    nodes,      \* server: output_json_values
    finalized,  \* server: output_finalized
    spc,        \* server: "running", "sending", "over"
    local,      \* server: storedLocalServerOutputStatus
    frame,      \* the results frame
    sent,       \* its items on the wire: header, units of the value, the rest
    closed,     \* the server's end of the control connection is closed
    rpc,        \* client: "idle", "reading", "done"
    rd,         \* client: items taken from the socket
    buf,        \* client: items of those not yet scanned (the 4 KiB chunk)
    rcv,        \* client: received_server_output
    values,     \* client: the scanner's output_values
    left,       \* client: ticks until the read deadline
    stop,       \* client: output_stop_requested
    ndelay,     \* client: O_NONBLOCK is set on the control descriptor
    result,     \* client: "none", "ok" (a results tree), "failed"
    captured    \* client: <<>>, or the output the runner captured

server == <<out, nodes, finalized, spc, local, frame, sent, closed, produced, lines>>
client == <<rpc, rd, buf, rcv, values, left, stop, ndelay, result, captured>>
vars == <<mode, server, client>>

Init ==
    /\ mode \in Modes
    /\ produced = <<>> /\ lines = 0
    /\ out = Cleared /\ nodes = 0 /\ finalized = FALSE
    /\ spc = "running" /\ local = "waiting"
    /\ frame = [format |-> "NONE", hasValue |-> FALSE, units |-> <<>>, status |-> <<>>]
    /\ sent = 0 /\ closed = FALSE
    /\ rpc = "idle" /\ rd = 0 /\ buf = 0 /\ rcv = Cleared /\ values = 0
    /\ left = Ticks /\ stop = FALSE /\ ndelay = FALSE
    /\ result = "none" /\ captured = <<>>

----------------------------------------------------------------------------
(* The server's collector *)

\* discard(): no payload, the reason kept, the counters left alone.
Discard(o, reason) ==
    [o EXCEPT !.state = IF reason = "INVALID_DATA" THEN "INVALID" ELSE "DISCARDED",
              !.reason = reason, !.hasValue = FALSE, !.value = <<>>]

\* begin(): the buffer is allocated on first use.
Begin(o, format, allocates) ==
    IF o.state # "MISSING" THEN o
    ELSE LET begun == [o EXCEPT !.format = format, !.exact = (format = "TEXT")]
         IN IF allocates THEN [begun EXCEPT !.state = "COMPLETE", !.hasValue = TRUE]
            ELSE Discard(begun, "ALLOCATION_FAILURE")

\* utf8_prefix: how many whole units of line fit into room bytes.
Fits(line, room) ==
    CHOOSE n \in 0..Len(line) :
        /\ Bytes(line)[n] <= room
        /\ n = Len(line) \/ Bytes(line)[n + 1] > room

\* append_format: counted always, kept while complete and within the limit.
AppendFormat(o, line) ==
    LET counted == [o EXCEPT !.observed = o.observed + Size(line)]
        room == mode.sLimit - Size(o.value)
        n == Fits(line, room)
    IN IF o.state # "COMPLETE" THEN counted
       ELSE IF \E i \in 1..n : line[i] <= 0 THEN Discard(counted, "INVALID_DATA")
       ELSE LET kept == [counted EXCEPT !.value = o.value \o SubSeq(line, 1, n)]
            IN IF Size(line) > room
               THEN [kept EXCEPT !.state = "TRUNCATED", !.reason = "BYTE_LIMIT"]
               ELSE kept

\* The document around the intervals: its first unit is everything else, and
\* every interval but the first has a comma.
Document(units) ==
    <<Overhead>> \o [i \in 1..Len(units) |-> units[i] + (IF i > 1 THEN 1 ELSE 0)]

\* Mutant: the commas between intervals are not counted.
CollectWithoutCommas(o, size, allocates) ==
    IF o.state # "COMPLETE" THEN o
    ELSE IF nodes + 1 > NodeLimit THEN Discard(o, "NODE_LIMIT")
    ELSE IF ~allocates THEN Discard(o, "ALLOCATION_FAILURE")
    ELSE IF Size(Append(o.value, size)) > mode.sLimit - 2 THEN Discard(o, "BYTE_LIMIT")
    ELSE [o EXCEPT !.value = Append(o.value, size)]

\* collect_interval: two bytes are kept free for the brackets.
CollectInterval(o, size, allocates) ==
    IF o.state # "COMPLETE" THEN o
    ELSE IF nodes + 1 > NodeLimit THEN Discard(o, "NODE_LIMIT")
    ELSE IF ~allocates THEN Discard(o, "ALLOCATION_FAILURE")
    ELSE IF Size(Document(Append(o.value, size))) - Overhead > mode.sLimit - 2
    THEN Discard(o, "BYTE_LIMIT")
    ELSE [o EXCEPT !.value = Append(o.value, size)]

\* What a server with a budget was asked to collect.
Collects == mode.budget /\ mode.requested /\ ~finalized

\* iperf_printf and the interval report of a running server.
Produce ==
    /\ spc # "over" /\ lines < MaxLines
    /\ lines' = lines + 1
    /\ \E line \in IF mode.json THEN {<<i>> : i \in Intervals} ELSE Lines :
          /\ produced' = IF finalized THEN produced ELSE produced \o line
          /\ IF ~Collects THEN UNCHANGED <<out, nodes>>
             ELSE \E allocates \in BOOLEAN :
                LET begun == Begin(out, IF mode.json THEN "JSON" ELSE "TEXT", allocates)
                IN /\ out' = IF mode.json THEN CollectInterval(begun, line[1], allocates)
                             ELSE AppendFormat(begun, line)
                   /\ nodes' = IF mode.json /\ out'.state = "COMPLETE"
                               THEN nodes + 1 ELSE nodes
    /\ UNCHANGED <<mode, finalized, spc, local, frame, sent, closed, client>>

\* finalize_json: the whole document within the limits, or nothing.  There is a
\* document: without one iperf_json_start has ended the run.
FinalizeJson(o, allocates) ==
    LET doc == Document(o.value)
    IN IF o.state # "COMPLETE" THEN o
       ELSE IF ~allocates THEN Discard(o, "ALLOCATION_FAILURE")
       ELSE IF mode.sLimit < 2 THEN Discard(o, "BYTE_LIMIT")
       ELSE IF nodes + OverheadNodes > NodeLimit THEN Discard(o, "NODE_LIMIT")
       ELSE IF Size(doc) > mode.sLimit THEN Discard(o, "BYTE_LIMIT")
       ELSE [o EXCEPT !.value = doc, !.observed = Size(doc), !.exact = TRUE]

\* All that the server put out, as the peer is to see it.
Whole == IF mode.json THEN Document(produced) ELSE produced

\* send_results up to the first byte on the wire: iperf_output_add_server_results
\* for a server with a budget; an unmodified server has no limit and no status.
AddServerResults ==
    /\ spc = "running"
    /\ spc' = "sending"
    /\ finalized' = TRUE
    /\ IF mode.budget /\ mode.requested
       THEN \E allocates \in BOOLEAN :
              LET begun == Begin(out, IF mode.json THEN "JSON" ELSE "TEXT", allocates)
                  final == IF mode.json THEN FinalizeJson(begun, allocates) ELSE begun
              IN /\ out' = final
                 /\ frame' = [format |-> final.format, hasValue |-> final.hasValue,
                              units |-> final.value,
                              status |-> <<[state |-> final.state, format |-> final.format,
                                            reason |-> final.reason, exact |-> final.exact,
                                            observed |-> final.observed]>>]
       ELSE /\ out' = out
            /\ frame' = IF mode.requested
                        THEN [format |-> IF mode.json THEN "JSON" ELSE "TEXT",
                              hasValue |-> TRUE, units |-> Whole, status |-> <<>>]
                        ELSE frame
    /\ UNCHANGED <<mode, produced, lines, nodes, local, sent, closed, client>>

Total == Len(frame.units) + 2

\* socket_write puts another item on the wire.
SendChunk ==
    /\ spc = "sending" /\ sent < Total
    /\ sent' = sent + 1
    /\ UNCHANGED <<mode, produced, lines, out, nodes, finalized, spc, local, frame,
                   closed, client>>

\* The exchange is over for the server: all sent, or its write failed, was
\* stopped or timed out, or the results could not be packaged.  It closes the
\* connection and a persistent server resets (iperf_output_budget_reset).
ServerOver ==
    /\ spc \in {"running", "sending"}
    /\ spc' = "over"
    /\ closed' = TRUE
    /\ out' = Cleared /\ nodes' = 0 /\ finalized' = FALSE
    /\ UNCHANGED <<mode, produced, lines, local, frame, sent, client>>

\* captureLocalServerOutputStatus, from a reporter callback of the server.
CaptureLocal ==
    /\ mode.budget
    /\ local' = IF ~mode.requested \/ spc = "over" THEN "notRequested"
                ELSE IF out.state \in {"MISSING", "COMPLETE"} /\ ~finalized
                THEN "waiting" ELSE out.state
    /\ UNCHANGED <<mode, produced, lines, out, nodes, finalized, spc, frame, sent,
                   closed, client>>

----------------------------------------------------------------------------
(* The client's bounded read *)

\* stop() of the client's runner.
RequestStop ==
    /\ ~stop
    /\ stop' = TRUE
    /\ UNCHANGED <<mode, server, rpc, rd, buf, rcv, values, left, ndelay, result, captured>>

\* iperf_get_results enters iperf_read_bounded_results_socket; the deadline
\* starts to run.
StartRead ==
    /\ rpc = "idle"
    /\ rpc' = "reading"
    /\ ndelay' = TRUE
    /\ UNCHANGED <<mode, server, rd, buf, rcv, values, left, stop, result, captured>>

\* Mutant: a failed read leaves what was scanned so far.
FailedKeepsOutput(reason) ==
    /\ rpc' = "done" /\ result' = "failed"
    /\ ndelay' = FALSE
    /\ UNCHANGED <<mode, server, rd, buf, rcv, values, left, stop, captured>>

\* What get_results leaves of a read without a tree: output nobody asked for is
\* cleared, and otherwise it says why.
NoOutput(reason) ==
    IF mode.requested THEN [Cleared EXCEPT !.state = "INVALID", !.reason = reason] ELSE Cleared

\* A read that ends without a tree.  If the descriptor's flags cannot be restored,
\* that is a read failure too.
Failed(reason) ==
    /\ rpc' = "done" /\ result' = "failed"
    /\ \/ ndelay' = FALSE /\ rcv' = NoOutput(reason)
       \/ ndelay' = TRUE /\ rcv' = NoOutput("READ_FAILURE")
    /\ UNCHANGED <<mode, server, rd, buf, values, left, stop, captured>>

\* F_GETFL or F_SETFL fails before anything is read.
StartReadFails ==
    /\ rpc = "idle"
    /\ rpc' = "done" /\ result' = "failed"
    /\ rcv' = NoOutput("READ_FAILURE")
    /\ UNCHANGED <<mode, server, rd, buf, values, left, stop, ndelay, captured>>

\* The absolute deadline of header and body comes closer.
Tick ==
    /\ rpc = "reading" /\ left > 0
    /\ left' = left - 1
    /\ UNCHANGED <<mode, server, rpc, rd, buf, rcv, values, stop, ndelay, result, captured>>

\* The scanner needs bytes it does not have yet.
NeedsInput == rpc = "reading" /\ buf = 0 /\ rd < Total

\* Mutant: only a stop or the peer ends the wait.
ReadWithoutDeadline ==
    /\ NeedsInput
    /\ \/ stop /\ Failed("READ_FAILURE")
       \/ /\ ~stop /\ closed /\ rd = sent
          /\ Failed(IF rd = 0 THEN "READ_FAILURE" ELSE "INVALID_DATA")

\* socket_read gives up: cancelled, past the deadline, or the peer has closed (a
\* read failure in the header, EPROTO in the body).
ReadFails ==
    /\ NeedsInput
    /\ \/ (stop \/ left = 0) /\ Failed("READ_FAILURE")
       \/ /\ ~stop /\ left > 0 /\ closed /\ rd = sent
          /\ Failed(IF rd = 0 THEN "READ_FAILURE" ELSE "INVALID_DATA")

\* begin_output, reached before the first unit of the value is scanned.
BeginOutput ==
    IF frame.hasValue
    THEN [Cleared EXCEPT !.format = frame.format, !.state = "COMPLETE",
                         !.hasValue = TRUE, !.exact = TRUE]
    ELSE rcv

\* The frame's length has arrived; the buffers are allocated.
ReadHeader ==
    /\ NeedsInput /\ rd = 0 /\ sent > 0
    /\ ~stop /\ left > 0
    /\ \/ Failed("ALLOCATION_FAILURE")
       \/ /\ rd' = 1
          /\ rcv' = BeginOutput
          /\ UNCHANGED <<mode, server, rpc, buf, values, left, stop, ndelay, result, captured>>

\* peek(): another chunk of what has arrived.
ReadChunk ==
    /\ NeedsInput /\ rd > 0
    /\ ~stop /\ left > 0
    /\ \E k \in 1..(sent - rd) : buf' = k /\ rd' = rd + k
    /\ UNCHANGED <<mode, server, rpc, rcv, values, left, stop, ndelay, result, captured>>

\* The item the scanner is at.
At == rd - buf + 1

\* Mutant: a scalar that still fits is kept after one that did not.
KeepsWhatFits(o, u) ==
    LET counted == [o EXCEPT !.observed = o.observed + Width(u)]
    IN IF u = Nul
       THEN [counted EXCEPT !.state = "INVALID", !.reason = "INVALID_DATA",
                            !.hasValue = FALSE, !.value = <<>>]
       ELSE IF o.state \notin {"COMPLETE", "TRUNCATED"} THEN counted
       ELSE IF Size(o.value) + Width(u) > mode.cLimit
       THEN [counted EXCEPT !.state = "TRUNCATED", !.reason = "BYTE_LIMIT"]
       ELSE [counted EXCEPT !.value = Append(o.value, u)]

\* decoded_scalar on a scalar of the text.
DecodedScalar(o, u) ==
    LET counted == [o EXCEPT !.observed = o.observed + Width(u)]
    IN IF u = Nul
       THEN [counted EXCEPT !.state = "INVALID", !.reason = "INVALID_DATA",
                            !.hasValue = FALSE, !.value = <<>>]
       ELSE IF o.state # "COMPLETE" THEN counted
       ELSE IF Size(o.value) + Width(u) > mode.cLimit
       THEN [counted EXCEPT !.state = "TRUNCATED", !.reason = "BYTE_LIMIT"]
       ELSE [counted EXCEPT !.value = Append(o.value, u)]

\* value() and emit() on a part of the JSON document that holds n values.
EmitJson(o, u, n) ==
    LET counted == [o EXCEPT !.observed = o.observed + Width(u)]
        dropped(why) == [counted EXCEPT !.state = "DISCARDED", !.reason = why,
                                        !.hasValue = FALSE, !.value = <<>>]
    IN IF o.state # "COMPLETE" THEN counted
       ELSE IF values + n > NodeLimit THEN dropped("NODE_LIMIT")
       ELSE IF Size(o.value) + Width(u) > mode.cLimit THEN dropped("BYTE_LIMIT")
       ELSE [counted EXCEPT !.value = Append(o.value, u)]

\* The scanner takes one unit of the value; a byte that is not UTF-8 is a
\* grammar error that fails the whole read.
ScanUnit ==
    /\ rpc = "reading" /\ buf > 0 /\ At < Total
    /\ LET u == frame.units[At - 1]
           n == IF At = 2 THEN OverheadNodes ELSE 1
       IN \/ u = Bad /\ Failed("INVALID_DATA")
          \/ /\ u # Bad
             /\ buf' = buf - 1
             /\ IF frame.format = "JSON"
                THEN rcv' = EmitJson(rcv, u, n) /\ values' = values + n
                ELSE rcv' = DecodedScalar(rcv, u) /\ values' = values
             /\ UNCHANGED <<mode, server, rpc, rd, left, stop, ndelay, result, captured>>

\* Mutant: output may be absent only if the peer calls it invalid.
AbsentOnlyIfInvalid(o, status) ==
    IF o.state = "MISSING" /\ status.state # "INVALID" THEN Discard(o, "INVALID_DATA")
    ELSE IF o.state # "INVALID" /\ Rank[status.state] >= Rank["DISCARDED"]
    THEN [Discard(o, status.reason) EXCEPT !.state = status.state]
    ELSE o

\* iperf_output_apply_peer_status.
ApplyPeerStatus(o, status) ==
    LET worse ==
          IF o.state # "INVALID" /\ Rank[status.state] >= Rank["DISCARDED"]
          THEN [Discard(o, status.reason) EXCEPT !.state = status.state]
          ELSE IF o.state = "COMPLETE" /\ status.state = "TRUNCATED"
          THEN [o EXCEPT !.state = "TRUNCATED", !.reason = status.reason]
          ELSE o
        counts == status.exact /\ status.observed >= o.observed
    IN IF \/ o.format # "NONE" /\ o.format # status.format
          \/ o.state = "MISSING" /\ Rank[status.state] < Rank["DISCARDED"]
          \/ status.state = "COMPLETE" /\ status.reason # "NONE"
          \/ status.state = "TRUNCATED"
             /\ (status.format # "TEXT" \/ status.reason # "BYTE_LIMIT")
          \/ Rank[status.state] >= Rank["DISCARDED"] /\ status.reason = "NONE"
       THEN Discard(o, "INVALID_DATA")
       ELSE [worse EXCEPT !.format = status.format, !.exact = counts,
                          !.observed = IF counts THEN status.observed ELSE o.observed]

\* The frame is scanned: cJSON parses the core, the peer's status is applied, the
\* descriptor is restored, and output nobody asked for is cleared.
ScanEnd ==
    /\ rpc = "reading" /\ buf > 0 /\ At = Total
    /\ \/ Failed("ALLOCATION_FAILURE")
       \/ /\ rpc' = "done" /\ result' = "ok" /\ buf' = 0 /\ ndelay' = FALSE
          /\ rcv' = IF ~mode.requested THEN Cleared
                    ELSE IF frame.status = <<>> THEN rcv
                    ELSE ApplyPeerStatus(rcv, frame.status[1])
          /\ UNCHANGED <<mode, server, rd, values, left, stop, captured>>

\* captureServerOutput, from a reporter callback after the exchange: once only.
Capture ==
    /\ mode.requested
    /\ rpc = "done" /\ captured = <<>>
    /\ captured' = <<rcv>>
    /\ UNCHANGED <<mode, server, rpc, rd, buf, rcv, values, left, stop, ndelay, result>>

ServerStep == Produce \/ AddServerResults \/ SendChunk \/ ServerOver \/ CaptureLocal

\* The engine thread of the client inside the read.
ReadStep == ReadFails \/ ReadHeader \/ ReadChunk \/ ScanUnit \/ ScanEnd

Next ==
    \/ ServerStep
    \/ RequestStop \/ StartRead \/ StartReadFails \/ Tick
    \/ ReadStep
    \/ Capture

Spec == Init /\ [][Next]_vars

\* Time passes, and a thread that can take a step in the read takes one.
FairSpec == Spec /\ WF_vars(Tick) /\ WF_vars(ReadStep)

----------------------------------------------------------------------------
(* Properties *)

OutputType(o) ==
    /\ o.state \in OutputStates /\ o.format \in Formats /\ o.reason \in Reasons
    /\ o.hasValue \in BOOLEAN /\ o.exact \in BOOLEAN /\ o.observed \in Nat
    /\ \A i \in 1..Len(o.value) : o.value[i] \in Nat
    /\ o.hasValue <=> o.state \in {"COMPLETE", "TRUNCATED"}
    /\ ~o.hasValue => o.value = <<>>

\* Every field has its type, and a payload exists exactly in the two states that
\* have one.
TypeOK ==
    /\ OutputType(out) /\ OutputType(rcv)
    /\ \A i \in 1..Len(captured) : OutputType(captured[i])
    /\ spc \in {"running", "sending", "over"}
    /\ rpc \in {"idle", "reading", "done"}
    /\ result \in {"none", "ok", "failed"}
    /\ local \in OutputStates \cup {"waiting", "notRequested"}
    /\ sent \in 0..Total /\ rd \in 0..sent /\ buf \in 0..rd
    /\ left \in 0..Ticks /\ nodes \in Nat /\ values \in Nat
    /\ {finalized, closed, stop, ndelay} \subseteq BOOLEAN

\* README "valid text prefix or complete compact JSON": what the runner hands to
\* the application as complete is everything the server put out until the
\* exchange, whatever the two budgets, the peer and the timing; truncated output
\* is a proper prefix of it and never JSON; nothing else has a payload.  A known
\* observed byte count is the size of the whole output, although either side may
\* have kept less.  localServerOutputStatus says complete only for a collector
\* that is final.
DeliveredIsHonest ==
    /\ local = "COMPLETE" => frame.hasValue /\ frame.units = Whole
    /\ \A i \in 1..Len(captured) :
        LET o == captured[i]
        IN /\ o.exact => o.observed = Size(Whole)
           /\ o.state = "COMPLETE" => o.value = Whole
           /\ o.state = "TRUNCATED" =>
                /\ ~mode.json
                /\ Len(o.value) < Len(produced)
                /\ o.value = SubSeq(produced, 1, Len(o.value))

\* README "Text collection keeps at most the configured number of UTF-8 bytes":
\* neither buffer ever holds more than its limit, with the brackets the growing
\* list of JSON intervals will need, and has a payload only in the two states that
\* have one.
BudgetHeld ==
    /\ TypeOK
    /\ Size(out.value) <= mode.sLimit
    /\ mode.json /\ ~finalized /\ out.value # <<>> =>
          Size(Document(out.value)) - Overhead + 2 <= mode.sLimit
    /\ Size(rcv.value) <= mode.cLimit

\* What a budgeted server may send is never taken for invalid metadata: after a
\* successful exchange the client says invalid only if the server did.
HonestPeerAccepted ==
    mode.budget /\ mode.requested /\ result = "ok" /\ rcv.state = "INVALID" =>
        frame.status[1].state = "INVALID"

\* A read that fails, at whatever byte, leaves no payload and says invalid to whom
\* asked for output; a read that succeeds leaves the control descriptor as it
\* found it.
ReadOutcome ==
    /\ result = "failed" =>
          ~rcv.hasValue /\ rcv.state = IF mode.requested THEN "INVALID" ELSE "MISSING"
    /\ result = "ok" => ~ndelay

\* "Header and body share a 30-second absolute deadline": the read returns even
\* if the server never sends, or stops in the middle of the frame.
ReadEnds == rpc = "reading" ~> rpc = "done"
=============================================================================
