----------------------------- MODULE Measurement -----------------------------
(***************************************************************************)
(* How a running test is measured.                                          *)
(*                                                                         *)
(* Worker threads add what they move to counters; the engine's thread walks *)
(* the timer list and, in the callbacks, exchanges the counters into one     *)
(* interval entry per stream, reports the entry, forgets the omitted start   *)
(* of the test and ends it; the wrapper delivers the reported entries to the *)
(* host.  A step is one access to a shared counter, so every interleaving of *)
(* the workers with a callback is a behaviour.  A TCP call moves one unit of *)
(* data, a UDP call one datagram.                                           *)
(***************************************************************************)
EXTENDS Timers, FiniteSets

CONSTANTS
    N,          \* most streams a test has
    Tests,      \* the tests considered, see TestType
    Datagrams,  \* bound: datagrams sent to a receiver
    Dups,       \* bound: datagrams the network delivers twice
    Wrap,       \* 2^32: the range of a 32-bit sequence number
    Grace,      \* the server's extra time, in microseconds
    Slots,      \* bitrate_limit_stats_per_interval
    MaxTime,    \* bound: clock ticks
    Stops       \* does another thread ask for a stop

Streams == 1..N

\* duration, omit and interval in microseconds; goal is the byte end condition and
\* limit the most bytes of Slots intervals whose rate, truncated to whole bits per
\* second, a server lets pass, 0 for none; wide is
\* --udp-counters-64bit; old counts the timers that earlier tests of the process freed;
\* moves bounds the calls of a worker that move data.
TestType == [server : BOOLEAN, udp : BOOLEAN, n : Streams, send : SUBSET Streams, wide : BOOLEAN,
             duration : Nat, omit : Nat, interval : Nat, goal : Nat, limit : Nat, old : Nat, moves : Nat]

ASSUME MeasurementConstants ==
    /\ N \in Nat \ {0} /\ Tests \subseteq TestType /\ Stops \in BOOLEAN
    /\ {Datagrams, Dups, Grace, MaxTime} \subseteq Nat
    /\ Wrap \in Nat \ {0} /\ Slots \in Nat \ {0}

VARIABLES
    test,       \* the test that runs
    clock,      \* the monotonic clock
    state,      \* test->state
    done, omitting,
    stopped,    \* iperf_request_test_stop was called: no, midway or apart, see Midway
    pool,       \* the timers of the process
    handle,     \* test->timer, stats_timer, reporter_timer, omit_timer
    pc, at, after,      \* the engine's thread: where, at which stream, what comes next
    now, cur, nxt,      \* locals of tmr_run
    temp, sampled,      \* locals of iperf_stats_callback
    w, pk,              \* where each worker is, and the datagram in its hands
    bytes,      \* result->bytes_sent or bytes_received
    ival,       \* result->bytes_sent_this_interval or ..._received_...
    base,       \* result->bytes_sent_omit
    pkts, lost, ooo,    \* sp->packet_count, cnt_error, outoforder_packets
    omitted,    \* sp->omitted_packet_count, omitted_cnt_error, omitted_outoforder_packets
    testSent, testRecv, \* test->bytes_sent, bytes_received
    entry, startT, endT,    \* result->interval_results, start_time, end_time
    ring, slot, count, exceeded,    \* test->bitrate_limit_...
    previous,   \* previousDeliveredStreams
    kept, delivered,    \* history: bytes in measured entries, and in delivered ones
    printed,    \* history: bytes in the measured entries that the engine printed
    shown,      \* history: how the test was closed
    moved, got, dups,   \* history: calls of a worker, datagrams it was given
    window,     \* history: bytes counted inside the omit reset of a stream
    totals      \* history: what each interval moved on all streams

clockVars  == <<test, clock>>
ctlVars    == <<state, done, omitting, stopped>>
tmrVars    == <<pool, handle, now, cur, nxt>>
pcVars     == <<pc, at, after>>
tempVars   == <<temp, sampled>>
handVars   == <<pk, moved, got, dups>>
workVars   == <<w, handVars>>
byteVars   == <<bytes, ival, base, window>>
udpVars    == <<pkts, lost, ooo, omitted>>
goalVars   == <<testSent, testRecv>>
entryVars  == <<entry, startT, endT, kept>>
rateVars   == <<ring, slot, count, exceeded, totals>>
hostVars   == <<previous, delivered, printed, shown>>
engineVars == <<clockVars, ctlVars, tmrVars, pcVars, tempVars, entryVars, rateVars, hostVars>>
countVars  == <<workVars, byteVars, udpVars, goalVars>>
vars == <<clockVars, ctlVars, tmrVars, pcVars, tempVars, workVars, byteVars, udpVars,
          goalVars, entryVars, rateVars, hostVars>>

Live    == 1..test.n
Sends(s) == s \in test.send
NoEntry == [null |-> TRUE, omitted |-> TRUE, bytes |-> 0, start |-> 0, end |-> 0,
            pkts |-> 0, lost |-> 0, ooo |-> 0]
NoTimer == [test |-> 0, stats |-> 0, reporter |-> 0, omit |-> 0]
Zero    == [s \in Streams |-> 0]
NoTime  == [secs |-> 0, usecs |-> 0]

\* A test whose streams are connected.
Init ==
    /\ test \in Tests /\ clock = NoTime /\ pool = PoolAfter(test.old)
    /\ state = "TEST_START" /\ done = FALSE /\ omitting = FALSE /\ stopped = "no"
    /\ handle = NoTimer /\ now = clock /\ cur = 0 /\ nxt = 0
    /\ pc = "create" /\ at = 1 /\ after = "loop"
    /\ temp = NoEntry /\ sampled = 0
    /\ w = [s \in Streams |-> "off"] /\ pk = Zero /\ moved = Zero
    /\ got = [s \in Streams |-> {}] /\ dups = Zero
    /\ bytes = Zero /\ ival = Zero /\ base = Zero /\ window = Zero
    /\ pkts = Zero /\ lost = Zero /\ ooo = Zero
    /\ omitted = [s \in Streams |-> [pkts |-> 0, lost |-> 0, ooo |-> 0]]
    /\ testSent = 0 /\ testRecv = 0
    /\ entry = [s \in Streams |-> NoEntry]
    /\ startT = Zero /\ endT = Zero /\ kept = Zero
    /\ ring = [i \in 0..(Slots - 1) |-> 0] /\ slot = 0 /\ count = 0 /\ exceeded = FALSE
    /\ totals = <<>>
    /\ previous = [s \in {} |-> NoEntry] /\ delivered = Zero /\ printed = Zero /\ shown = "no"

-----------------------------------------------------------------------------
\* Time passes, and another thread of the host asks for a stop.

\* Only the engine reads the clock, so it need only move where it is read next
\* (iperf_reset_stats reads it once, before its loop).
Tick ==
    /\ TimeInUsecs(clock) < MaxTime /\ pc \in {"loop", "stats"}
    /\ clock' = TimeAddUsecs(clock, 1)
    /\ UNCHANGED <<test, ctlVars, tmrVars, pcVars, tempVars, countVars, entryVars, rateVars,
                   hostVars>>

\* The entry of stream s is measured and has not been delivered.
Undelivered(s) == kept[s] - delivered[s]

\* The statistics timer has begun an interval that the reporter timer has not reported.
Midway ==
    /\ after = "resched"
    /\ \/ pc \in {"stats", "sample_pkts", "sample_ooo", "sample_lost"}
       \/ pc \in {"walk", "resched"} /\ \E s \in Live : Undelivered(s) # 0

\* iperf_request_test_stop.
RequestStop ==
    /\ Stops /\ stopped = "no" /\ pc \notin {"create", "spawn", "freed"}
    /\ done' = TRUE /\ stopped' = IF Midway THEN "midway" ELSE "apart"
    /\ UNCHANGED <<clockVars, state, omitting, tmrVars, pcVars, tempVars, countVars, entryVars,
                   rateVars, hostVars>>

-----------------------------------------------------------------------------
\* The workers.

Goto(s, p) == w' = [w EXCEPT ![s] = p]
Add(f, s, k) == [f EXCEPT ![s] = @ + k]

\* The loop condition of the worker.
WorkerLoop(s) ==
    /\ w[s] = "loop"
    /\ Goto(s, IF done THEN "off" ELSE IF Sends(s) /\ test.udp THEN "number" ELSE "call")
    /\ UNCHANGED <<engineVars, handVars, byteVars, udpVars, goalVars>>

\* iperf_check_throttle has put out the green light of a sender that is ahead of its
\* rate: iperf_send_mt sends nothing.  Whether it is ahead is left open.
Throttled(s) ==
    /\ Sends(s) /\ w[s] = (IF test.udp THEN "number" ELSE "call")
    /\ Goto(s, "loop")
    /\ UNCHANGED <<engineVars, handVars, byteVars, udpVars, goalVars>>

\* A soft error or an empty read goes back to the loop.
CallMovesNothing(s) ==
    /\ w[s] = "call" /\ ~(Sends(s) /\ test.udp)
    /\ Goto(s, "loop")
    /\ UNCHANGED <<engineVars, handVars, byteVars, udpVars, goalVars>>

\* The call of iperf_tcp_send or iperf_tcp_recv returns.  A receiver counts on the
\* stream only while the test is running, and on the test always.
TcpCall(s) ==
    /\ w[s] = "call" /\ ~test.udp /\ moved[s] < test.moves
    /\ moved' = Add(moved, s, 1)
    /\ Goto(s, IF Sends(s) \/ state = "TEST_RUNNING" THEN "bytes" ELSE "test")
    /\ UNCHANGED <<engineVars, pk, got, dups, byteVars, udpVars, goalVars>>

\* What the 12 byte header of a datagram carries of a sequence number.
Wire(n) == IF test.wide THEN n ELSE n % Wrap

\* A datagram arrives: any of those sent, in any order, some of them twice.
UdpArrives(s) ==
    /\ w[s] = "call" /\ test.udp /\ ~Sends(s)
    /\ \E n \in 1..Datagrams :
         /\ \/ n \notin got[s] /\ dups' = dups
            \/ n \in got[s] /\ dups[s] < Dups /\ dups' = Add(dups, s, 1)
         /\ IF state = "TEST_RUNNING"
            THEN got' = [got EXCEPT ![s] = @ \cup {n}] /\ Goto(s, "bytes")
            ELSE got' = got /\ Goto(s, "test")
         /\ pk' = [pk EXCEPT ![s] = Wire(n)]
    /\ moved' = Add(moved, s, 1) /\ moved[s] < test.moves
    /\ UNCHANGED <<engineVars, byteVars, udpVars, goalVars>>

\* iperf_udp_send numbers the datagram before it is written ...
UdpNumber(s) ==
    /\ w[s] = "number" /\ moved[s] < test.moves
    /\ pkts' = Add(pkts, s, 1)
    /\ Goto(s, "call")
    /\ UNCHANGED <<engineVars, handVars, byteVars, lost, ooo, omitted, goalVars>>

UdpWritten(s) ==
    /\ w[s] = "call" /\ test.udp /\ Sends(s)
    /\ moved' = Add(moved, s, 1)
    /\ Goto(s, "bytes")
    /\ UNCHANGED <<engineVars, pk, got, dups, byteVars, udpVars, goalVars>>

\* ... and takes the number back when the write fails.
UdpRefused(s) ==
    /\ w[s] = "call" /\ test.udp /\ Sends(s)
    /\ pkts' = Add(pkts, s, -1)
    /\ Goto(s, "loop")
    /\ UNCHANGED <<engineVars, handVars, byteVars, lost, ooo, omitted, goalVars>>

\* The total of the stream, then the counter of the interval.
CountBytes(s) ==
    /\ w[s] = "bytes"
    /\ bytes' = Add(bytes, s, 1)
    /\ window' = IF pc = "reset_ival" /\ at = s THEN Add(window, s, 1) ELSE window
    /\ Goto(s, "ival")
    /\ UNCHANGED <<engineVars, handVars, ival, base, udpVars, goalVars>>

CountInterval(s) ==
    /\ w[s] = "ival"
    /\ ival' = Add(ival, s, 1)
    /\ Goto(s, IF test.udp /\ ~Sends(s) THEN "header" ELSE "test")
    /\ UNCHANGED <<engineVars, handVars, bytes, base, window, udpVars, goalVars>>

\* Mutant: the packet that shows the gap is counted as lost with it.
UdpForwardOffByOne(s) ==
    /\ w[s] = "header" /\ pk[s] >= pkts[s] + 1
    /\ lost' = Add(lost, s, IF pk[s] > pkts[s] + 1 THEN pk[s] - pkts[s] ELSE 0)
    /\ Goto(s, "highest")
    /\ UNCHANGED <<engineVars, handVars, byteVars, pkts, ooo, omitted, goalVars>>

\* The datagram holds a whole block, as every one iperf_udp_send writes does, so its
\* header is read.  The sequence number goes forward: a gap counts as lost, then it is the highest.
UdpForward(s) ==
    /\ w[s] = "header" /\ pk[s] >= pkts[s] + 1
    /\ lost' = Add(lost, s, IF pk[s] > pkts[s] + 1 THEN (pk[s] - 1) - pkts[s] ELSE 0)
    /\ Goto(s, "highest")
    /\ UNCHANGED <<engineVars, handVars, byteVars, pkts, ooo, omitted, goalVars>>

UdpHighest(s) ==
    /\ w[s] = "highest"
    /\ pkts' = [pkts EXCEPT ![s] = pk[s]]
    /\ Goto(s, "test")
    /\ UNCHANGED <<engineVars, handVars, byteVars, lost, ooo, omitted, goalVars>>

\* It does not: the packet is out of order ...
UdpBackward(s) ==
    /\ w[s] = "header" /\ ~(pk[s] >= pkts[s] + 1)
    /\ ooo' = Add(ooo, s, 1)
    /\ Goto(s, "late")
    /\ UNCHANGED <<engineVars, handVars, byteVars, pkts, lost, omitted, goalVars>>

\* ... and one fewer is lost, if any was counted.
UdpFound(s) ==
    /\ w[s] = "late"
    /\ lost' = Add(lost, s, IF lost[s] > 0 THEN -1 ELSE 0)
    /\ Goto(s, "test")
    /\ UNCHANGED <<engineVars, handVars, byteVars, pkts, ooo, omitted, goalVars>>

\* iperf_send_mt and iperf_recv_mt count on the test.
CountTest(s) ==
    /\ w[s] = "test"
    /\ IF Sends(s) THEN testSent' = testSent + 1 /\ testRecv' = testRecv
       ELSE testRecv' = testRecv + 1 /\ testSent' = testSent
    /\ Goto(s, "loop") /\ pk' = [pk EXCEPT ![s] = 0]
    /\ UNCHANGED <<engineVars, moved, got, dups, byteVars, udpVars>>

Worker(s) ==
    \/ WorkerLoop(s) \/ Throttled(s) \/ CallMovesNothing(s) \/ TcpCall(s) \/ UdpArrives(s) \/ UdpNumber(s)
    \/ UdpWritten(s) \/ UdpRefused(s) \/ CountBytes(s) \/ CountInterval(s) \/ UdpForward(s)
    \/ UdpHighest(s) \/ UdpBackward(s) \/ UdpFound(s) \/ CountTest(s)

-----------------------------------------------------------------------------
\* The engine's thread: the timers of a test.

\* create_client_timers and create_client_omit_timer, or the server's: the timers
\* in the order they are made.
Plan ==
    <<[name |-> "test", usecs |-> test.duration, periodic |-> FALSE],
      [name |-> "stats", usecs |-> test.interval, periodic |-> TRUE],
      [name |-> "reporter", usecs |-> test.interval, periodic |-> TRUE],
      [name |-> "omit", usecs |-> test.omit, periodic |-> FALSE]>>

\* The test timer runs for the omitted time too, and the server's for longer.
Period(x) ==
    x.usecs + (IF x.name = "test" THEN test.omit + (IF test.server THEN Grace ELSE 0) ELSE 0)

\* The clock is read once for the first three timers and again for the omit timer; a
\* timer with a period of zero is not made.
CreateTimer ==
    /\ pc = "create" /\ at <= Len(Plan)
    /\ LET x == Plan[at]
           t == IF at = 1 \/ x.name = "omit" THEN clock ELSE now
       IN  /\ now' = t
           /\ IF x.usecs = 0 THEN UNCHANGED <<pool, handle, done, omitting>>
              ELSE /\ pool' = TmrCreate(pool, x.name, t, Period(x), x.periodic)
                   /\ handle' = [handle EXCEPT ![x.name] = NewTimer(pool)]
                   /\ done' = (done /\ x.name # "test")
                   /\ omitting' = (x.name = "omit")
    /\ at' = at + 1
    /\ UNCHANGED <<clockVars, state, stopped, cur, nxt, pc, after, tempVars, countVars, entryVars,
                   rateVars, hostVars>>

\* malloc fails: the test ends with IEINITTEST.
CreateTimerFails ==
    /\ pc = "create" /\ at <= Len(Plan) /\ Plan[at].usecs # 0 /\ CreateMayFail(pool)
    /\ done' = (done /\ Plan[at].name # "test") /\ omitting' = (Plan[at].name = "omit")
    /\ pc' = "cleanup"
    /\ UNCHANGED <<clockVars, state, stopped, tmrVars, at, after, tempVars, countVars, entryVars,
                   rateVars, hostVars>>

\* The workers are started; iperf_init_test had set the start time before.
StartWorkers ==
    /\ pc = "create" /\ at > Len(Plan)
    /\ state' = "TEST_RUNNING" /\ now' = NoTime /\ at' = 1
    /\ w' = [s \in Streams |-> IF s \in Live THEN "loop" ELSE "off"]
    /\ pc' = "loop"
    /\ UNCHANGED <<clockVars, done, omitting, stopped, pool, handle, cur, nxt, after, tempVars,
                   handVars, byteVars, udpVars, goalVars, entryVars, rateVars, hostVars>>

\* Everything but the engine's own locals and timers stays as it is.
TestUnchanged ==
    UNCHANGED <<clockVars, ctlVars, tempVars, countVars, entryVars, rateVars, hostVars>>

GoalMet == test.goal # 0 /\ (testSent >= test.goal \/ testRecv >= test.goal)

\* select() has returned, when the first timer is due or earlier, and tmr_run begins.
\* A pass that finds no timer due and no end condition changes nothing and is left out.
RunTimers ==
    /\ pc = "loop"
    /\ IF test.server THEN ~done /\ ~exceeded /\ TmrTimeout(pool, clock) = 0
       ELSE TmrTimeout(pool, clock) = 0 \/ (~omitting /\ (done \/ GoalMet))
    /\ now' = clock /\ cur' = ListHead(pool) /\ nxt' = 0
    /\ pc' = "walk"
    /\ UNCHANGED <<pool, handle, at, after>> /\ TestUnchanged

\* The walk ends at the first timer that is not due.
CurrentIsDue == cur # 0 /\ IsDue(pool, cur, now)
WalkEnds ==
    /\ pc = "walk" /\ ~CurrentIsDue
    /\ pc' = IF test.server THEN "loop" ELSE "check"
    /\ now' = NoTime /\ cur' = 0 /\ nxt' = 0
    /\ UNCHANGED <<pool, handle, at, after>> /\ TestUnchanged

Fires(name) == pc = "walk" /\ CurrentIsDue /\ pool.of[cur].proc = name

\* The callback is over: the timer is set again or freed, and the walk goes on with
\* the successor it read before the callback.
Reschedule ==
    /\ pc = "resched"
    /\ pool' = AfterFiring(pool, cur)
    /\ cur' = nxt /\ pc' = "walk"
    /\ UNCHANGED <<handle, now, nxt, at, after>> /\ TestUnchanged

-----------------------------------------------------------------------------
\* The end of the duration.

FireTest ==
    /\ Fires("test")
    /\ nxt' = ListNext(pool, cur)
    /\ handle' = [handle EXCEPT !.test = 0]
    /\ done' = TRUE
    \* the server also reports an error and stops and joins the workers
    /\ state' = IF test.server /\ ~done THEN "SERVER_ERROR" ELSE state
    /\ pc' = IF test.server /\ ~done THEN "join" ELSE "resched"
    /\ after' = "resched"
    /\ UNCHANGED <<clockVars, omitting, stopped, pool, now, cur, at, tempVars, countVars,
                   entryVars, rateVars, hostVars>>

\* A worker is cancelled in its call and joined: what it has moved is counted.  The
\* tests here are without zerocopy, whose sendfile is not cancelled: StreamWorkers.
CanJoin(s) == w[s] \in {"off", "loop", "number", "call"}
Joined == IF pc = "join" /\ ~test.server THEN test.send ELSE Live
Join ==
    /\ pc \in {"join", "cleanup"} /\ \A s \in Joined : CanJoin(s)
    /\ w' = [s \in Streams |-> IF s \in Joined THEN "off" ELSE w[s]]
    /\ pc' = IF pc = "join" THEN after ELSE "free"
    /\ UNCHANGED <<clockVars, ctlVars, tmrVars, at, after, tempVars, handVars, byteVars, udpVars,
                   goalVars, entryVars, rateVars, hostVars>>

-----------------------------------------------------------------------------
\* iperf_stats_callback: one entry per stream.

StatsCallback(next) == pc' = "stats" /\ at' = 1 /\ after' = next /\ sampled' = 0

\* The callbacks of the periodic timers do nothing once the test is done.
FireStats ==
    /\ Fires("stats")
    /\ nxt' = ListNext(pool, cur)
    /\ IF done THEN pc' = "resched" /\ UNCHANGED <<at, after, sampled>>
       ELSE StatsCallback("resched")
    /\ UNCHANGED <<clockVars, ctlVars, pool, handle, now, cur, temp, countVars, entryVars,
                   rateVars, hostVars>>

\* Two samples of a stream are not taken in the same microsecond.
SampleTime(s) ==
    IF ~entry[s].null /\ endT[s] = TimeInUsecs(clock) THEN TimeAddUsecs(clock, 1) ELSE clock

\* add_to_interval_list keeps only the newest entry.
AddToIntervalList(s, e) ==
    /\ entry' = [entry EXCEPT ![s] = e]
    /\ kept' = IF e.omitted THEN kept ELSE Add(kept, s, e.bytes)

\* Mutant: the counter is read and not set back to zero.
SampleBytesKeepsCounter ==
    /\ pc = "stats" /\ at <= test.n
    /\ LET t == TimeInUsecs(SampleTime(at))
           e == [null |-> FALSE, omitted |-> omitting, bytes |-> ival[at],
                 start |-> IF entry[at].null THEN startT[at] ELSE endT[at], end |-> t,
                 pkts |-> 0, lost |-> 0, ooo |-> 0]
       IN  /\ endT' = [endT EXCEPT ![at] = t] /\ clock' = SampleTime(at)
           /\ temp' = e /\ sampled' = sampled + ival[at]
           /\ IF test.udp THEN pc' = "sample_pkts" /\ at' = at /\ UNCHANGED <<entry, kept>>
              ELSE pc' = "stats" /\ at' = at + 1 /\ AddToIntervalList(at, e)
    /\ ival' = ival
    /\ UNCHANGED <<test, ctlVars, tmrVars, after, workVars, bytes, base, window, udpVars,
                   goalVars, startT, rateVars, hostVars>>

\* The byte counter is exchanged for zero; a TCP entry is then complete.
SampleBytes ==
    /\ pc = "stats" /\ at <= test.n
    /\ LET t == TimeInUsecs(SampleTime(at))
           e == [null |-> FALSE, omitted |-> omitting, bytes |-> ival[at],
                 start |-> IF entry[at].null THEN startT[at] ELSE endT[at], end |-> t,
                 pkts |-> 0, lost |-> 0, ooo |-> 0]
       IN  /\ endT' = [endT EXCEPT ![at] = t] /\ clock' = SampleTime(at)
           /\ temp' = e /\ sampled' = sampled + ival[at]
           /\ IF test.udp THEN pc' = "sample_pkts" /\ at' = at /\ UNCHANGED <<entry, kept>>
              ELSE pc' = "stats" /\ at' = at + 1 /\ AddToIntervalList(at, e)
    /\ ival' = [ival EXCEPT ![at] = 0]
    /\ UNCHANGED <<test, ctlVars, tmrVars, after, workVars, bytes, base, window, udpVars,
                   goalVars, startT, rateVars, hostVars>>

\* The cumulative UDP counters are read one after the other.
SampleCounter(p, next, value) ==
    /\ pc = p /\ pc' = next
    /\ temp' = value
    /\ UNCHANGED <<clockVars, ctlVars, tmrVars, at, after, sampled, countVars, entryVars, rateVars,
                   hostVars>>

SamplePackets == SampleCounter("sample_pkts", "sample_ooo", [temp EXCEPT !.pkts = pkts[at]])
SampleOutOfOrder == SampleCounter("sample_ooo", "sample_lost", [temp EXCEPT !.ooo = ooo[at]])
SampleLost ==
    /\ pc = "sample_lost" /\ pc' = "stats" /\ at' = at + 1
    /\ AddToIntervalList(at, [temp EXCEPT !.lost = lost[at]])
    /\ UNCHANGED <<clockVars, ctlVars, tmrVars, after, tempVars, countVars, startT, endT, rateVars,
                   hostVars>>

\* The index is advanced before the place is used.
NextSlot(i) == IF i + 1 >= Slots THEN 0 ELSE i + 1

\* Mutant: one interval more is waited for.
RingIsFullLate(k) == k > Slots

\* No average is taken before the ring has been filled once.
RingIsFull(k) == k >= Slots

RingSum(r) == LET sum[i \in 0..Slots] == IF i = 0 THEN 0 ELSE sum[i - 1] + r[i - 1]
              IN  sum[Slots]

\* iperf_check_total_rate with the bytes of the interval, on a server with a limit.
CheckTotalRate ==
    IF ~test.server \/ done \/ test.limit = 0 THEN UNCHANGED rateVars
    ELSE /\ slot' = NextSlot(slot)
         /\ ring' = [ring EXCEPT ![NextSlot(slot)] = sampled]
         /\ count' = count + 1
         /\ exceeded' = (exceeded \/ (RingIsFull(count + 1) /\ RingSum(ring') > test.limit))
         /\ totals' = Append(totals, sampled)

StatsDone ==
    /\ pc = "stats" /\ at > test.n
    /\ CheckTotalRate
    /\ pc' = after /\ at' = 1 /\ temp' = NoEntry /\ sampled' = 0
    /\ UNCHANGED <<clockVars, ctlVars, tmrVars, after, countVars, entryVars, hostVars>>

-----------------------------------------------------------------------------
\* The reporter: what the host is given.

\* The streams of the result: entries measured after the omitted time.
ResultStreams ==
    [s \in {s \in Live : ~entry[s].null /\ ~entry[s].omitted} |->
        [start |-> entry[s].start, end |-> entry[s].end, bytes |-> entry[s].bytes]]

\* iperf_print_intermediate prints the entries, on the streams of either direction,
\* unless each of them is shorter than a tenth of the period and empty.
WorthReporting(e) == 10 * (e.end - e.start) >= test.interval \/ e.bytes > 0

PrintIntermediate ==
    printed' =
        IF \E s \in Live : ~entry[s].null /\ WorthReporting(entry[s])
        THEN [s \in Streams |-> printed[s] + (IF entry[s].omitted THEN 0 ELSE entry[s].bytes)]
        ELSE printed

\* The wrapper leaves out the same intervals.
IsUnreportedShortInterval(r) ==
    DOMAIN r # {} /\ ~\E s \in DOMAIN r : WorthReporting(r[s])

\* Mutant: the entry read again is delivered again.
IsRepeatNever(r) == FALSE

\* The entry that was delivered last, read again.
IsRepeatDelivery(r) == DOMAIN r # {} /\ r = previous

\* handleReporterStatusLocked, once iperf_reporter_callback has printed.
Deliver ==
    LET r == ResultStreams
    IN  IF IsUnreportedShortInterval(r) \/ IsRepeatDelivery(r)
        THEN UNCHANGED <<previous, delivered>>
        ELSE /\ previous' = r
             /\ delivered' = [s \in Streams |-> IF s \in DOMAIN r THEN delivered[s] + r[s].bytes
                                                ELSE delivered[s]]

Report == PrintIntermediate /\ Deliver

FireReporter ==
    /\ Fires("reporter")
    /\ nxt' = ListNext(pool, cur)
    /\ IF done THEN UNCHANGED <<previous, delivered, printed>> ELSE Report
    /\ pc' = "resched" /\ UNCHANGED shown
    /\ UNCHANGED <<clockVars, ctlVars, pool, handle, now, cur, at, after, tempVars, countVars,
                   entryVars, rateVars>>

-----------------------------------------------------------------------------
\* The end of the omitted time: iperf_reset_stats, stream by stream.

FireOmit ==
    /\ Fires("omit")
    /\ nxt' = ListNext(pool, cur)
    /\ handle' = [handle EXCEPT !.omit = 0]
    /\ omitting' = FALSE /\ testSent' = 0
    /\ pc' = IF test.udp THEN "reset_pkts" ELSE "reset_bytes"
    /\ at' = 1
    /\ UNCHANGED <<clockVars, state, done, stopped, pool, now, cur, after, tempVars, workVars,
                   byteVars, udpVars, testRecv, entryVars, rateVars, hostVars>>

ResetBaseline(p, next, b) ==
    /\ pc = p /\ pc' = next
    /\ omitted' = [omitted EXCEPT ![at] = b]
    /\ UNCHANGED <<clockVars, ctlVars, tmrVars, at, after, tempVars, workVars, byteVars, pkts,
                   lost, ooo, goalVars, entryVars, rateVars, hostVars>>

ResetPackets == ResetBaseline("reset_pkts", "reset_lost", [omitted[at] EXCEPT !.pkts = pkts[at]])
ResetLost == ResetBaseline("reset_lost", "reset_ooo", [omitted[at] EXCEPT !.lost = lost[at]])
ResetOutOfOrder == ResetBaseline("reset_ooo", "reset_bytes", [omitted[at] EXCEPT !.ooo = ooo[at]])

\* A sender's total goes on and gets a baseline, a receiver's starts again.
ResetBytes ==
    /\ pc = "reset_bytes" /\ pc' = "reset_ival"
    /\ IF Sends(at) THEN base' = [base EXCEPT ![at] = bytes[at]] /\ bytes' = bytes
       ELSE bytes' = [bytes EXCEPT ![at] = 0] /\ base' = base
    /\ UNCHANGED <<clockVars, ctlVars, tmrVars, at, after, tempVars, workVars, ival, window,
                   udpVars, goalVars, entryVars, rateVars, hostVars>>

\* Mutant: the end of the last omitted interval is kept.
ResetIntervalKeepsEnd ==
    /\ pc = "reset_ival"
    /\ ival' = [ival EXCEPT ![at] = 0]
    /\ startT' = [startT EXCEPT ![at] = TimeInUsecs(clock)] /\ endT' = endT
    /\ IF at < test.n THEN pc' = (IF test.udp THEN "reset_pkts" ELSE "reset_bytes") /\ at' = at + 1
       ELSE pc' = "reset_timers" /\ at' = at
    /\ UNCHANGED <<clockVars, ctlVars, tmrVars, after, tempVars, workVars, bytes, base, window,
                   udpVars, goalVars, entry, kept, rateVars, hostVars>>

\* The interval begins now.
ResetInterval ==
    /\ pc = "reset_ival"
    /\ ival' = [ival EXCEPT ![at] = 0]
    /\ startT' = [startT EXCEPT ![at] = TimeInUsecs(clock)]
    /\ endT' = [endT EXCEPT ![at] = TimeInUsecs(clock)]
    /\ IF at < test.n THEN pc' = (IF test.udp THEN "reset_pkts" ELSE "reset_bytes") /\ at' = at + 1
       ELSE pc' = "reset_timers" /\ at' = at
    /\ UNCHANGED <<clockVars, ctlVars, tmrVars, after, tempVars, workVars, bytes, base, window,
                   udpVars, goalVars, entry, kept, rateVars, hostVars>>

\* The periodic timers start a new period; the order keeps statistics first.
ResetTimers ==
    /\ pc = "reset_timers" /\ pc' = "resched"
    /\ \E one \in {IF handle.stats = 0 THEN pool ELSE TmrReset(pool, now, handle.stats)} :
         pool' = IF handle.reporter = 0 THEN one ELSE TmrReset(one, now, handle.reporter)
    /\ at' = 1
    /\ UNCHANGED <<handle, now, cur, nxt, after>> /\ TestUnchanged

-----------------------------------------------------------------------------
\* The end of the test.

\* The client looks for an end condition after the timers.
GoOn ==
    /\ pc = "check" /\ (omitting \/ ~(done \/ GoalMet))
    /\ pc' = "loop"
    /\ UNCHANGED <<tmrVars, at, after>> /\ TestUnchanged

\* Mutant: done alone does not end the test.
EndTestAtGoalOnly ==
    /\ pc = "check" /\ ~omitting /\ GoalMet
    /\ pool' = TmrCancelIfSet(TmrCancelIfSet(pool, handle.stats), handle.reporter)
    /\ handle' = [handle EXCEPT !.stats = 0, !.reporter = 0]
    /\ pc' = "join" /\ after' = "final"
    /\ UNCHANGED <<now, cur, nxt, at>> /\ TestUnchanged

\* It cancels the periodic timers and joins the senders, then samples once more.
EndTest ==
    /\ pc = "check" /\ ~omitting /\ (done \/ GoalMet)
    /\ pool' = TmrCancelIfSet(TmrCancelIfSet(pool, handle.stats), handle.reporter)
    /\ handle' = [handle EXCEPT !.stats = 0, !.reporter = 0]
    /\ pc' = "join" /\ after' = "final"
    /\ UNCHANGED <<now, cur, nxt, at>> /\ TestUnchanged

FinalSample ==
    /\ pc = "final"
    /\ done' = TRUE
    /\ StatsCallback("ended")
    /\ UNCHANGED <<clockVars, state, omitting, stopped, tmrVars, temp, countVars, entryVars,
                   rateVars, hostVars>>

\* TEST_END is sent, and the server answers with the exchange of results.
SendTestEnd ==
    /\ pc = "ended" /\ ~test.server
    /\ state' = "TEST_END" /\ pc' = "await"
    /\ UNCHANGED <<clockVars, done, omitting, stopped, tmrVars, at, after, tempVars, countVars,
                   entryVars, rateVars, hostVars>>

\* The report that closes a test.
ClosingReport ==
    /\ Report /\ shown' = "report"
    /\ pc' = "cleanup"
    /\ UNCHANGED <<clockVars, ctlVars, tmrVars, at, after, tempVars, countVars, entryVars,
                   rateVars>>

\* DISPLAY_RESULTS arrives at the client; the server's TEST_END handler goes on.
DisplayResults == pc = "await" /\ ClosingReport
FinishTestEnd  == pc = "ended" /\ test.server /\ ClosingReport

\* The server reads TEST_END.
ReadTestEnd ==
    /\ pc = "loop" /\ test.server /\ ~done /\ ~exceeded
    /\ state' = "TEST_END" /\ done' = TRUE
    /\ StatsCallback("ended")
    /\ UNCHANGED <<clockVars, omitting, stopped, tmrVars, temp, countVars, entryVars, rateVars,
                   hostVars>>

\* CLIENT_TERMINATE or SERVER_TERMINATE: the last entry is reported without a sample.
ReadTerminate ==
    /\ pc = "loop" /\ ~(test.server /\ (done \/ exceeded))
    /\ Report /\ shown' = "terminate"
    /\ pc' = "cleanup"
    /\ UNCHANGED <<clockVars, ctlVars, tmrVars, at, after, tempVars, countVars, entryVars,
                   rateVars>>

\* The server's loop ends when the test is done or above its rate limit ...
LeaveLoop ==
    /\ pc = "loop" /\ test.server /\ (done \/ exceeded)
    /\ pc' = "cleanup"
    /\ UNCHANGED <<tmrVars, at, after>> /\ TestUnchanged

\* ... and either loop when the connection fails.
ConnectionFails ==
    /\ pc \in {"loop", "await"}
    /\ pc' = "cleanup"
    /\ UNCHANGED <<tmrVars, at, after>> /\ TestUnchanged

\* iperf_free_test, or the end of cleanup_server: every timer still set is cancelled.
FreeTimers ==
    /\ pc = "free" /\ pc' = "freed"
    /\ pool' = IF test.server
               THEN TmrCancelIfSet(TmrCancelIfSet(TmrCancelIfSet(TmrCancelIfSet(pool, handle.stats),
                        handle.reporter), handle.omit), handle.test)
               ELSE TmrCancelIfSet(TmrCancelIfSet(TmrCancelIfSet(TmrCancelIfSet(pool, handle.omit),
                        handle.test), handle.stats), handle.reporter)
    /\ handle' = NoTimer
    /\ UNCHANGED <<now, cur, nxt, at, after>> /\ TestUnchanged

Engine ==
    \/ CreateTimer \/ CreateTimerFails \/ StartWorkers \/ RunTimers \/ WalkEnds \/ Reschedule
    \/ FireTest \/ FireStats \/ FireReporter \/ FireOmit \/ Join
    \/ SampleBytes \/ SamplePackets \/ SampleOutOfOrder \/ SampleLost \/ StatsDone
    \/ ResetPackets \/ ResetLost \/ ResetOutOfOrder \/ ResetBytes \/ ResetInterval \/ ResetTimers
    \/ GoOn \/ EndTest \/ FinalSample \/ SendTestEnd \/ FinishTestEnd \/ LeaveLoop \/ FreeTimers

Peer == DisplayResults \/ ReadTestEnd \/ ReadTerminate \/ ConnectionFails

Next == Tick \/ RequestStop \/ Engine \/ Peer \/ \E s \in Streams : Worker(s)

Spec == Init /\ [][Next]_vars

\* The engine and the workers are threads of a process that runs, and time passes;
\* nothing is assumed of the peer or of the host.
FairSpec ==
    /\ Spec /\ WF_vars(Engine) /\ WF_vars(Tick)
    /\ \A s \in Streams : WF_vars(Worker(s))

-----------------------------------------------------------------------------
\* Properties.

Steps == {"off", "loop", "number", "call", "bytes", "ival", "header", "highest", "late", "test"}

\* Types; a count of lost packets is never negative.
TypeOK ==
    /\ test \in Tests /\ clock \in Times
    /\ {done, omitting, exceeded} \subseteq BOOLEAN /\ stopped \in {"no", "apart", "midway"}
    /\ state \in {"TEST_START", "TEST_RUNNING", "TEST_END", "SERVER_ERROR"}
    /\ w \in [Streams -> Steps] /\ at \in 1..(N + 5)
    /\ \A f \in {bytes, ival, base, lost, ooo, pkts, kept, delivered, printed, moved, dups, window} :
         f \in [Streams -> Nat]
    /\ slot \in 0..(Slots - 1) /\ DOMAIN ring = 0..(Slots - 1)
    /\ {testSent, testRecv, count, sampled, cur, nxt} \subseteq Nat

Listed == {pool.list[i] : i \in DOMAIN pool.list}

\* timer.c: the list stays sorted and free of repetitions through every callback
\* that moves other timers during the walk, and no struct is active and free at once.
\* A handle of the test names an active timer with its own callback, an active timer
\* that is not being fired has a handle, and a test that has been freed leaves no
\* timer behind that could call into it.
TimersWellFormed ==
    /\ TypeOK
    /\ WellFormed(pool)
    /\ \A name \in DOMAIN handle :
         handle[name] # 0 => handle[name] \in Listed /\ pool.of[handle[name]].proc = name
    /\ \A t \in Listed : t = cur \/ \E name \in DOMAIN handle : handle[name] = t
    /\ pc = "freed" => pool.list = <<>>

\* What iperf_print_results and send_results give as the bytes of a stream.
StreamTotal(s) == bytes[s] - base[s]

Pending(s) == IF w[s] = "ival" THEN 1 ELSE 0
InTemp(s)  == IF pc \in {"sample_pkts", "sample_ooo", "sample_lost"} /\ at = s /\ ~temp.omitted
              THEN temp.bytes ELSE 0
Resetting(s) == pc \in {"reset_pkts", "reset_lost", "reset_ooo", "reset_bytes", "reset_ival"} /\ at <= s

\* Every byte lands in exactly one interval: a stream's measured total is what its
\* entries hold, what the next one will hold and what the worker is about to add.
\* Only the omit reset, which sets two counters one after the other, may misplace
\* what the worker counts in between, and the one block it had half counted.
IntervalsAddUp ==
    \A s \in Live :
        omitting \/ Resetting(s) \/
        StreamTotal(s) - (kept[s] + ival[s] + Pending(s) + InTemp(s))
            \in (IF test.omit = 0 THEN {0} ELSE -1..window[s])

\* No measurement is delivered twice, only the newest can be outstanding, and none is
\* when the engine waits for events of a running test; after the closing report of a
\* test that ran its time, or was stopped at any moment but between the sample of an
\* interval and its report, the deliveries add up to the measurements.  They are
\* aligned with what the engine prints, except that the report of a test terminated
\* by the peer prints the last entry a second time (handleReporterStatusLocked).
DeliveredOnce ==
    \A s \in Live :
        /\ shown # "terminate" => printed[s] = delivered[s]
        /\ Undelivered(s) \in {0, entry[s].bytes} \/ stopped = "midway"
        /\ Undelivered(s) >= 0
        /\ pc = "loop" /\ ~done => Undelivered(s) = 0
        /\ shown = "report" /\ stopped # "midway" => Undelivered(s) = 0

\* "the same closing delivery a run that reaches its duration makes": the closing
\* report leaves no measured byte undelivered, whenever the stop came
\* (handleReporterStatusLocked).
StopDeliversAll == shown = "report" => \A s \in Live : Undelivered(s) = 0

\* An interval starts where the one before it ended, and the first measured one at
\* the start of the test or where the reset took place.
IntervalsTile ==
    [][\A s \in Live : (entry'[s] # entry[s] /\ pc # "freed") =>
          /\ entry'[s].start <= entry'[s].end
          /\ ~entry'[s].omitted /\ (entry[s].null \/ entry[s].omitted)
                => entry'[s].start = startT[s]
          /\ ~entry[s].null /\ entry'[s].omitted = entry[s].omitted
                => entry'[s].start = entry[s].end]_vars

Missing(s) == (1..pkts[s]) \ got[s]

\* Without duplicates, cnt_error is the number of sequence numbers below the highest
\* that have not arrived, however late and disordered the others come; a duplicate
\* can only make it smaller.  This needs sequence numbers that do not wrap, and a
\* sender that numbers without gaps: a datagram the socket refused gives its number
\* to the next one.
LossIsExact ==
    \A s \in Live :
        /\ test.udp /\ Sends(s) /\ w[s] # "off" =>
              pkts[s] = moved[s] + (IF w[s] = "call" THEN 1 ELSE 0)
        /\ test.udp /\ ~Sends(s) /\ (test.wide \/ Datagrams < Wrap) /\ w[s] \in {"off", "loop", "call", "test"}
           => /\ lost[s] <= Cardinality(Missing(s))
              /\ dups[s] = 0 => lost[s] = Cardinality(Missing(s))

SumOfLast(k) == LET sum[i \in 0..k] == IF i = 0 THEN 0 ELSE sum[i - 1] + totals[Len(totals) - i + 1]
                IN  sum[k]

\* The rate limit trips exactly when the last Slots intervals moved more than it
\* allows, from the first time that so many have passed.
RateLimitIsAverage ==
    [][totals' # totals /\ pc # "freed" =>
          exceeded' = (exceeded \/ (Len(totals') >= Slots /\ SumOfLast(Slots)' > test.limit))]_vars

\* A test with a duration does not run for ever, whatever the workers count and however
\* late the timers are walked; its workers are in calls that can be cancelled.
TestEnds == (pc = "loop" /\ test.duration # 0) ~> (pc \in {"await", "cleanup", "free", "freed"})
=============================================================================
