----------------------------- MODULE IperfRunner -----------------------------
(***************************************************************************)
(* The lifecycle of IperfRunner (Sources/IperfSwift/IperfRunner.swift):     *)
(* several runners, each with its serial stateQueue, share one FIFO         *)
(* engineQueue on which the process-global C engine is called.              *)
(*                                                                         *)
(* A block on a runner's stateQueue is one atomic action here; the code     *)
(* that runs on engineQueue between two such blocks is a separate action,   *)
(* so stop(), start() and deinit interleave with it as they do in the       *)
(* program.  The C engine is reduced to what the runner can tell apart: its *)
(* phase, the flags done and output_stop_requested of the iperf_test, and   *)
(* the return code.  A test is named by the run that allocated it.          *)
(***************************************************************************)
EXTENDS Integers, Sequences

CONSTANTS
    Runners,        \* IperfRunner instances
    NoRunner,       \* "the engine works for nobody"
    Configs,        \* the configurations callers pass to start(with:)
    MaxStarts       \* bound: accepted starts, all runners together

Roles == {"client", "server"}

\* bounded: a serverOutputByteLimit is set.  timed: the client's duration is not
\* zero.  wakes: its select() has a time limit while the test runs, from a reporter
\* interval that is not zero or from a receive timeout.
ConfigType == [role : Roles, oneOff : BOOLEAN, bounded : BOOLEAN, valid : BOOLEAN,
               timed : BOOLEAN, wakes : BOOLEAN]

ASSUME RunnerConstants ==
    /\ NoRunner \notin Runners
    /\ Configs \subseteq ConfigType
    /\ MaxStarts \in Nat

\* configuration == nil.  configurationError() finds nothing wrong with it.
NoConfig == [role |-> "none", oneOff |-> FALSE, bounded |-> FALSE, valid |-> TRUE,
             timed |-> FALSE, wakes |-> FALSE]

RunIDs == 1..MaxStarts
Blocks == [runner : Runners, runID : RunIDs]   \* closures on the engine queue
Nil == 0                                  \* a UUID? or a test pointer that is nil
States == {"ready", "initialising", "running", "error", "stopping", "finished"}
Phases == {"idle", "enter", "setup", "measuring", "ending", "exchange",
           "returned", "decide", "final"}

VARIABLES
    configuration, currentTest, pendingRunID, activeRun, storedCompletion, state,
    alive,          \* the runner object has not been deallocated
    engineQueue,    \* blocks waiting on the shared engine queue
    lastID,         \* the newest UUID handed out
    withCallback,   \* runs whose RunContext holds an onResourcesReleased callback
    enqueued,       \* release callbacks put on a stateQueue, per run
    delivered,      \* release callbacks invoked, per run
    engRunner, engRun, engConfig,         \* what executeQueuedRun is running
    phase, done, stopRequested, code, wasStopped,
    history         \* what the caller of each run did and was told

runnerVars == <<configuration, currentTest, pendingRunID, activeRun,
                storedCompletion, state, alive>>
queueVars  == <<engineQueue, lastID, withCallback, enqueued, delivered>>
engineVars == <<engRunner, engRun, engConfig, phase, done, stopRequested, code, wasStopped>>
vars == <<runnerVars, queueVars, engineVars, history>>

\* stopped: stop() reached the run's test.  failed: the engine's last return
\* code was negative.  error: onError was called for the end of the run.
\* executed: whether the run got the engine, and with which terminal policy.
\* terminals: how often the state callback reported .finished or .error.
HistoryType == [stopped : BOOLEAN, failed : BOOLEAN, error : BOOLEAN, terminals : Nat,
                executed : {"no", "bounded", "unbounded"}]

TypeOK ==
    /\ configuration \in [Runners -> ConfigType \cup {NoConfig}]
    /\ currentTest \in [Runners -> RunIDs \cup {Nil}]
    /\ pendingRunID \in [Runners -> RunIDs \cup {Nil}]
    /\ activeRun \in [Runners -> RunIDs \cup {Nil}]
    /\ storedCompletion \in [Runners -> RunIDs \cup {Nil}]
    /\ state \in [Runners -> States]
    /\ alive \in [Runners -> BOOLEAN]
    /\ engineQueue \in Seq(Blocks)
    /\ lastID \in 0..MaxStarts
    /\ withCallback \in SUBSET RunIDs
    /\ enqueued \in [RunIDs -> Nat]
    /\ delivered \in [RunIDs -> Nat]
    /\ engRunner \in Runners \cup {NoRunner}
    /\ engRun \in RunIDs \cup {Nil}
    /\ engConfig \in ConfigType \cup {NoConfig}
    /\ phase \in Phases
    /\ phase # "idle" => engRunner \in Runners
    /\ done \in BOOLEAN /\ stopRequested \in BOOLEAN /\ wasStopped \in BOOLEAN
    /\ code \in {-2, -1, 0}
    /\ history \in [RunIDs -> HistoryType]

Init ==
    /\ configuration \in [Runners -> Configs]
    /\ currentTest = [r \in Runners |-> Nil]
    /\ pendingRunID = [r \in Runners |-> Nil]
    /\ activeRun = [r \in Runners |-> Nil]
    /\ storedCompletion = [r \in Runners |-> Nil]
    /\ state = [r \in Runners |-> "ready"]
    /\ alive = [r \in Runners |-> TRUE]
    /\ engineQueue = <<>>
    /\ lastID = 0
    /\ withCallback = {}
    /\ enqueued = [id \in RunIDs |-> 0]
    /\ delivered = [id \in RunIDs |-> 0]
    /\ engRunner = NoRunner /\ engRun = Nil /\ engConfig = NoConfig
    /\ phase = "idle"
    /\ done = FALSE /\ stopRequested = FALSE /\ wasStopped = FALSE
    /\ code = 0
    /\ history = [id \in RunIDs |->
                    [stopped |-> FALSE, failed |-> FALSE, error |-> FALSE, terminals |-> 0,
                     executed |-> "no"]]

-----------------------------------------------------------------------------
\* The pieces the handlers share.

\* The guard of enqueueStart and startRun.
Startable(r) ==
    /\ alive[r]
    /\ currentTest[r] = Nil /\ pendingRunID[r] = Nil /\ activeRun[r] = Nil

\* cleanState() for the run r is in, entered with the runner's state equal to s.
\* When it reports .finished the caller may call start() from that callback,
\* inside cleanState: with the configuration already cleared that start is
\* accepted, and the assignment of .finished completes after it.
CleanState(r, s, again) ==
    LET old == activeRun[r]
        new == lastID + 1
        reports == s \in {"running", "stopping"}
    IN  /\ again => reports /\ lastID < MaxStarts
        /\ configuration' = [configuration EXCEPT ![r] = NoConfig]
        /\ currentTest' = [currentTest EXCEPT ![r] = Nil]
        /\ pendingRunID' = [pendingRunID EXCEPT ![r] = IF again THEN new ELSE Nil]
        /\ activeRun' = [activeRun EXCEPT ![r] = IF again THEN new ELSE Nil]
        /\ storedCompletion' = [storedCompletion EXCEPT ![r] = IF again THEN Nil ELSE old]
        /\ state' = [state EXCEPT ![r] = IF reports THEN "finished" ELSE s]
        /\ enqueued' = IF old \in withCallback
                       THEN [enqueued EXCEPT ![old] = @ + 1] ELSE enqueued
        /\ lastID' = IF again THEN new ELSE lastID
        /\ \E cb \in BOOLEAN :
             withCallback' = IF again /\ cb THEN withCallback \cup {new} ELSE withCallback
        /\ UNCHANGED <<alive, delivered>>

\* Where the engine queue ends up when cleanState's caller restarted the run.
Requeued(queue, r, again) ==
    IF again THEN Append(queue, [runner |-> r, runID |-> lastID + 1]) ELSE queue

\* The willSet observer of state: run id is told n terminal states more.
Reported(id, n) == [history EXCEPT ![id].terminals = @ + n]

\* The history h of a run that has ended, having reported n terminal states.
Ended(h, failed, error, executed, n) ==
    [stopped |-> h.stopped, failed |-> failed, error |-> error,
     executed |-> executed, terminals |-> h.terminals + n]

EngineIdle ==
    /\ engRunner' = NoRunner /\ engRun' = Nil /\ engConfig' = NoConfig
    /\ phase' = "idle"
    /\ done' = FALSE /\ stopRequested' = FALSE /\ wasStopped' = FALSE /\ code' = 0

-----------------------------------------------------------------------------
\* Calls made by the owner of a runner.

\* startRun() once its guard has passed, with the configuration cfg.
AcceptStart(r, cfg, cb) ==
    LET id == lastID + 1
    IN  /\ Startable(r)
        /\ lastID < MaxStarts
        /\ lastID' = id
        /\ withCallback' = IF cb THEN withCallback \cup {id} ELSE withCallback
        /\ IF cfg.valid
           THEN /\ configuration' = [configuration EXCEPT ![r] = cfg]
                /\ pendingRunID' = [pendingRunID EXCEPT ![r] = id]
                /\ activeRun' = [activeRun EXCEPT ![r] = id]
                /\ storedCompletion' = [storedCompletion EXCEPT ![r] = Nil]
                /\ state' = [state EXCEPT ![r] = "initialising"]
                /\ engineQueue' = Append(engineQueue, [runner |-> r, runID |-> id])
                /\ UNCHANGED <<enqueued, history>>
           ELSE \* configurationError(): onError, which ends in cleanState
                /\ configuration' = [configuration EXCEPT ![r] = NoConfig]
                /\ storedCompletion' = [storedCompletion EXCEPT ![r] = id]
                /\ state' = [state EXCEPT ![r] = "error"]
                /\ enqueued' = IF cb THEN [enqueued EXCEPT ![id] = @ + 1] ELSE enqueued
                /\ history' = [history EXCEPT ![id] = Ended(@, FALSE, TRUE, "no", 1)]
                /\ UNCHANGED <<pendingRunID, activeRun, engineQueue>>
        /\ UNCHANGED <<currentTest, alive, delivered, engineVars>>

\* start(with:): the configuration is replaced first.
StartWith(r) == \E cfg \in Configs, cb \in BOOLEAN : AcceptStart(r, cfg, cb)

\* start(): whatever configuration the runner holds, nil after an earlier run.
StartHeld(r) == \E cb \in BOOLEAN : AcceptStart(r, configuration[r], cb)

\* stopCurrentTest() while the run waits for the engine.
StopQueued(r) ==
    /\ alive[r] /\ currentTest[r] = Nil /\ pendingRunID[r] # Nil
    /\ \E again \in BOOLEAN :
         /\ CleanState(r, "stopping", again)
         /\ engineQueue' = Requeued(engineQueue, r, again)
         /\ history' = Reported(activeRun[r], 1)
    /\ UNCHANGED engineVars

\* stopCurrentTest() while the engine runs the test: iperf_request_test_stop.
StopActive(r) ==
    /\ alive[r] /\ currentTest[r] # Nil
    /\ state' = [state EXCEPT ![r] = "stopping"]
    /\ stopRequested' = TRUE
    /\ done' = TRUE
    /\ history' = [history EXCEPT ![currentTest[r]].stopped = TRUE]
    /\ UNCHANGED <<configuration, currentTest, pendingRunID, activeRun, storedCompletion,
                   alive, queueVars, engRunner, engRun, engConfig, phase, code, wasStopped>>

\* Mutant: deinit drops the queued run without completing it.
DeinitDropsRun(r) ==
    /\ alive[r] /\ engRunner # r
    /\ alive' = [alive EXCEPT ![r] = FALSE]
    /\ activeRun' = [activeRun EXCEPT ![r] = Nil]
    /\ pendingRunID' = [pendingRunID EXCEPT ![r] = Nil]
    /\ UNCHANGED <<configuration, currentTest, storedCompletion, state, queueVars, engineVars,
                   history>>

\* The last reference goes away.  executeQueuedRun holds the runner, so the
\* engine is not working for it.
Deinit(r) ==
    /\ alive[r] /\ engRunner # r
    /\ alive' = [alive EXCEPT ![r] = FALSE]
    /\ enqueued' = IF activeRun[r] \in withCallback
                   THEN [enqueued EXCEPT ![activeRun[r]] = @ + 1] ELSE enqueued
    /\ activeRun' = [activeRun EXCEPT ![r] = Nil]
    /\ pendingRunID' = [pendingRunID EXCEPT ![r] = Nil]
    /\ UNCHANGED <<configuration, currentTest, storedCompletion, state, engineQueue, lastID,
                   withCallback, delivered, engineVars, history>>

\* stateQueue.async { callback(result) }
DeliverCompletion(id) ==
    /\ delivered[id] < enqueued[id]
    /\ delivered' = [delivered EXCEPT ![id] = @ + 1]
    /\ UNCHANGED <<runnerVars, engineQueue, lastID, withCallback, enqueued, engineVars, history>>

-----------------------------------------------------------------------------
\* executeQueuedRun: the block at the head of the engine queue.

\* Mutant: only the runner is looked at, not whether its run was cancelled.
SkipDeadRunnerOnly ==
    /\ phase = "idle" /\ engineQueue # <<>>
    /\ ~alive[Head(engineQueue).runner]
    /\ engineQueue' = Tail(engineQueue)
    /\ UNCHANGED <<runnerVars, lastID, withCallback, enqueued, delivered, engineVars, history>>

\* The runner is gone, or the run was cancelled: the block does nothing.
SkipStaleBlock ==
    /\ phase = "idle" /\ engineQueue # <<>>
    /\ LET b == Head(engineQueue)
       IN  ~alive[b.runner] \/ pendingRunID[b.runner] # b.runID
    /\ engineQueue' = Tail(engineQueue)
    /\ UNCHANGED <<runnerVars, lastID, withCallback, enqueued, delivered, engineVars, history>>

\* Mutant: the engine queue hands out its newest block.
DequeuesNewest(r, id) ==
    /\ phase = "idle" /\ engineQueue # <<>>
    /\ engineQueue[Len(engineQueue)] = [runner |-> r, runID |-> id]
    /\ alive[r] /\ pendingRunID[r] = id

\* Mutant: the engine queue is concurrent.
DequeuesConcurrently(r, id) ==
    /\ engineQueue # <<>>
    /\ Head(engineQueue) = [runner |-> r, runID |-> id]
    /\ alive[r] /\ pendingRunID[r] = id

Dequeues(r, id) ==
    /\ phase = "idle" /\ engineQueue # <<>>
    /\ Head(engineQueue) = [runner |-> r, runID |-> id]
    /\ alive[r] /\ pendingRunID[r] = id

\* No configuration, iperf_new_test, iperf_defaults or applyConfiguration
\* failed: onError.
PrepareFails(r) ==
    LET id == pendingRunID[r]
    IN  /\ Dequeues(r, id)
        /\ CleanState(r, "error", FALSE)
        /\ engineQueue' = Tail(engineQueue)
        /\ history' = [history EXCEPT ![id] = Ended(@, FALSE, TRUE, "no", 1)]
        /\ UNCHANGED engineVars

BeginRun(r) ==
    LET id == pendingRunID[r]
    IN  /\ Dequeues(r, id)
        /\ configuration[r] # NoConfig
        /\ pendingRunID' = [pendingRunID EXCEPT ![r] = Nil]
        /\ currentTest' = [currentTest EXCEPT ![r] = id]
        /\ state' = [state EXCEPT ![r] = "running"]
        /\ engineQueue' = Tail(engineQueue)
        /\ engRunner' = r /\ engRun' = id /\ engConfig' = configuration[r]
        /\ phase' = "enter"
        /\ UNCHANGED <<configuration, activeRun, storedCompletion, alive, lastID, withCallback,
                       enqueued, delivered, done, stopRequested, code, wasStopped, history>>

-----------------------------------------------------------------------------
\* iperf_run_client and iperf_run_server, seen from the runner.

NativeKeeps == <<runnerVars, queueVars, engRunner, engRun, engConfig, stopRequested,
                 wasStopped, history>>

Return(c) == phase' = "returned" /\ code' = c /\ UNCHANGED done
Goto(p) == phase' = p /\ UNCHANGED <<code, done>>

\* Log file, affinity, JSON and (server) listener set-up.  Only the server
\* looks at done before its loop.
NativeEnter ==
    /\ phase = "enter"
    /\ IF engConfig.role = "client"
       THEN Goto("setup") \/ Return(-1)
       ELSE \/ Return(-2)
            \/ done /\ Return(0)
            \/ ~done /\ Goto("setup")
    /\ UNCHANGED NativeKeeps

\* Connecting, exchanging parameters and creating streams.  The server may
\* also return 2 on an idle timeout, or 0 for a stop or a client that left.
NativeSetupFails ==
    /\ phase = "setup"
    /\ Return(-1) \/ (engConfig.role = "server" /\ Return(0))
    /\ UNCHANGED NativeKeeps

\* TEST_START: create_client_timers / create_server_timers clear done when the
\* test has a duration; the server's is its client's.
NativeStartTest ==
    /\ phase = "setup"
    /\ \E timed \in IF engConfig.role = "client" THEN {engConfig.timed} ELSE BOOLEAN :
         done' = IF timed THEN FALSE ELSE done
    /\ phase' = "measuring"
    /\ UNCHANGED <<code, NativeKeeps>>

\* The end condition (client) or the TEST_END message (server): done is set.
NativeEndTest ==
    /\ phase = "measuring"
    /\ phase' = "ending" /\ done' = TRUE
    /\ UNCHANGED <<code, NativeKeeps>>

\* The measurement is cut short: -1 for an error; on a server also 0, for a
\* stop, a client that left, or the expiry of the server's own timer.
NativeMeasurementFails ==
    /\ phase = "measuring"
    /\ \/ Return(-1)
       \/ engConfig.role = "server" /\ Return(0)
       \/ engConfig.role = "server" /\ phase' = "returned" /\ code' = 0 /\ done' = TRUE
    /\ UNCHANGED NativeKeeps

\* The client waits for EXCHANGE_RESULTS; the server exchanges results inside
\* its TEST_END handler and leaves its loop because done is set.
NativeEnding ==
    /\ phase = "ending"
    /\ \/ Return(-1)
       \/ engConfig.role = "client" /\ Goto("exchange")
       \/ engConfig.role = "server" /\ Return(0)
    /\ UNCHANGED NativeKeeps

\* The client received the results: 0, or -1 from iperf_json_finish.
NativeExchange ==
    /\ phase = "exchange"
    /\ Return(0) \/ Return(-1)
    /\ UNCHANGED NativeKeeps

\* The result exchange failed, or a receiver could not be joined after the loop:
\* cleanup_and_fail makes the closing reporter call under EXCHANGE_RESULTS or
\* IPERF_DONE, and handleReporterStatusLocked reports .finished for either.
NativeExchangeFails ==
    LET r == engRunner
        reports == /\ state[r] \in {"running", "stopping"}
                   /\ ~engConfig.bounded
                   /\ engConfig.role = "client" \/ engConfig.oneOff
    IN  /\ phase = "exchange"
        /\ Return(-1)
        /\ state' = IF reports THEN [state EXCEPT ![r] = "finished"] ELSE state
        /\ history' = IF reports THEN Reported(engRun, 1) ELSE history
        /\ UNCHANGED <<configuration, currentTest, pendingRunID, activeRun, storedCompletion,
                       alive, queueVars, engRunner, engRun, engConfig, stopRequested, wasStopped>>

NativeStep ==
    \/ NativeEnter \/ NativeSetupFails \/ NativeStartTest \/ NativeEndTest
    \/ NativeMeasurementFails \/ NativeEnding \/ NativeExchange \/ NativeExchangeFails

-----------------------------------------------------------------------------
\* runIperfProcess after the engine call has returned.

\* Mutant: the stop request decides for every run.
ReadOutcomeFromStop ==
    /\ phase = "returned"
    /\ wasStopped' = stopRequested
    /\ phase' = "decide"
    /\ UNCHANGED <<runnerVars, queueVars, engRunner, engRun, engConfig, done,
                   stopRequested, code, history>>

\* wasStopped is read without the stateQueue.
ReadOutcome ==
    /\ phase = "returned"
    /\ wasStopped' = IF engConfig.bounded THEN stopRequested ELSE done
    /\ phase' = "decide"
    /\ UNCHANGED <<runnerVars, queueVars, engRunner, engRun, engConfig, done,
                   stopRequested, code, history>>

ShouldRestart ==
    /\ engConfig.role = "server" /\ ~engConfig.oneOff
    /\ code >= -1
    /\ currentTest[engRunner] = engRun
    /\ state[engRunner] = "running"

\* iperf_reset_test clears done and keeps the sticky stop request.
RestartServer ==
    /\ phase = "decide" /\ ShouldRestart
    /\ done' = FALSE
    /\ phase' = "enter"
    /\ UNCHANGED <<runnerVars, queueVars, engRunner, engRun, engConfig, stopRequested,
                   code, wasStopped, history>>

\* Mutant: a runner that is stopping is left to its reporter.
LeaveLoopUnlessStopping ==
    /\ phase = "decide" /\ ~ShouldRestart /\ state[engRunner] # "stopping"
    /\ phase' = "final"
    /\ UNCHANGED <<runnerVars, queueVars, engRunner, engRun, engConfig, done,
                   stopRequested, code, wasStopped, history>>

LeaveLoop ==
    /\ phase = "decide" /\ ~ShouldRestart
    /\ phase' = "final"
    /\ UNCHANGED <<runnerVars, queueVars, engRunner, engRun, engConfig, done,
                   stopRequested, code, wasStopped, history>>

\* The last stateQueue block: onError for a failure that was not a stop,
\* cleanState otherwise.
FinishRun ==
    LET r == engRunner
        failed == code < 0
        isError == failed /\ ~wasStopped
        s == IF isError THEN "error" ELSE state[r]
        reports == isError \/ s \in {"running", "stopping"}
        policy == IF engConfig.bounded THEN "bounded" ELSE "unbounded"
    IN  /\ phase = "final"
        /\ currentTest[r] = engRun
        /\ \E again \in BOOLEAN :
             /\ CleanState(r, s, again)
             /\ engineQueue' = Requeued(engineQueue, r, again)
        /\ history' = [history EXCEPT ![engRun] =
                          Ended(@, failed, isError, policy, IF reports THEN 1 ELSE 0)]
        /\ EngineIdle

-----------------------------------------------------------------------------
EngineStep ==
    \/ SkipStaleBlock
    \/ \E r \in Runners : PrepareFails(r) \/ BeginRun(r)
    \/ NativeStep
    \/ ReadOutcome \/ RestartServer \/ LeaveLoop \/ FinishRun

CallerStep ==
    \E r \in Runners :
        StartWith(r) \/ StartHeld(r) \/ StopQueued(r) \/ StopActive(r) \/ Deinit(r)

Next ==
    \/ EngineStep
    \/ CallerStep
    \/ \E id \in RunIDs : DeliverCompletion(id)

Spec == Init /\ [][Next]_vars

-----------------------------------------------------------------------------
\* Safety.

\* The engine is process-global: a live iperf_test belongs to the one run the
\* engine queue is executing, which is still its runner's active run, and an
\* idle engine has left no test behind (engineQueue, cleanState).
EngineExclusive ==
    /\ \A r \in Runners : currentTest[r] # Nil => engRunner = r /\ engRun = currentTest[r]
    /\ phase # "idle" => /\ engRunner \in Runners /\ alive[engRunner]
                         /\ engRun # Nil
                         /\ activeRun[engRunner] = engRun
                         /\ currentTest[engRunner] = engRun

Accepted(id) == id <= lastID
Active(id) == \E r \in Runners : activeRun[r] = id

\* "Each accepted start completes once": the release callback of an accepted
\* run is queued exactly once, when the run stops being a runner's active run,
\* and so never while its native resources are alive (cleanState, deinit).
CompletesOnce ==
    \A id \in RunIDs :
        /\ delivered[id] <= enqueued[id]
        /\ enqueued[id] = IF Accepted(id) /\ id \in withCallback /\ ~Active(id) THEN 1 ELSE 0

\* What makes the two invariants above inductive: an idle engine names nobody, a
\* run belongs to one runner, and the runner's three run fields agree.
Ownership ==
    /\ phase = "idle" => engRunner = NoRunner /\ engRun = Nil
    /\ withCallback \subseteq 1..lastID
    /\ \A r \in Runners :
         /\ activeRun[r] <= lastID
         /\ pendingRunID[r] # Nil => pendingRunID[r] = activeRun[r] /\ currentTest[r] = Nil
         /\ ~alive[r] => /\ activeRun[r] = Nil /\ pendingRunID[r] = Nil
                         /\ currentTest[r] = Nil
         /\ \A q \in Runners : activeRun[r] # Nil /\ activeRun[r] = activeRun[q] => r = q

RunnerInv == TypeOK /\ Ownership /\ EngineExclusive /\ CompletesOnce

\* A run that waits for the engine can always still get it: its block is in
\* the engine queue, once.  A block of a cancelled run may be there too, and
\* must not start the runner's newer run (executeQueuedRun's runID guard).
PendingIsQueued ==
    \A r \in Runners :
        pendingRunID[r] # Nil =>
            /\ pendingRunID[r] = activeRun[r]
            /\ \E i \in 1..Len(engineQueue) :
                  engineQueue[i] = [runner |-> r, runID |-> pendingRunID[r]]

\* What makes PendingIsQueued and RunsInOrder provable: blocks are queued in the
\* order of the starts.
Ordered(queue, n) ==
    /\ \A i \in 1..Len(queue) : queue[i].runID <= n
    /\ \A i, j \in 1..Len(queue) : i < j => queue[i].runID < queue[j].runID

QueueInv == RunnerInv /\ PendingIsQueued /\ Ordered(engineQueue, lastID)

\* "keep terminal-state handling idempotent because the engine can report a
\* terminal state more than once": it can, but only to a caller that called
\* stop() after .finished was reported and before the test was torn down, and
\* then twice.  With serverOutputByteLimit "failure/stop is delivered once": a
\* bounded run reports exactly one, only after the engine call has returned, and
\* an error when it failed without having been stopped (handleReporterStatusLocked,
\* stopCurrentTest, cleanState).
TerminalOnce ==
    /\ phase # "idle" /\ engConfig.bounded => history[engRun].terminals = 0
    /\ \A id \in RunIDs :
         LET h == history[id]
         IN  /\ h.executed # "no" =>
                   \/ h.terminals = 1
                   \/ h.terminals = 2 /\ h.stopped /\ h.executed # "bounded"
             /\ h.executed = "bounded" /\ h.failed /\ ~h.stopped => h.error

\* "All runner instances share one FIFO engine queue": a run never gets the
\* engine while an older run still waits for it.  The block of a cancelled run
\* left in the queue must not lend its place to its runner's next run.
RunsInOrder ==
    [][phase = "idle" /\ phase' = "enter" =>
         \A r \in Runners : pendingRunID[r] # Nil => engRun' <= pendingRunID[r]]_vars

\* "onError: Called when the run fails."  Holds for bounded runs only: without
\* a byte limit wasStopped is the engine's done flag, which the engine raises
\* itself when the measurement ends.
FailureReported ==
    \A id \in RunIDs : history[id].failed /\ ~history[id].stopped => history[id].error

\* "Keep stop valid until teardown."  create_client_timers and
\* create_server_timers clear the flag stop() raised.
StopStaysRequested ==
    \A r \in Runners : state[r] = "stopping" => done

-----------------------------------------------------------------------------
\* Liveness.

\* A client before TEST_START and after TEST_END sits in a select() without a time
\* limit and does not look at done: only its peer lets it go on.  In a test without a
\* duration it waits for its byte goal, if it has one, or for a stop that it wakes up
\* to see.
ClientWaits ==
    /\ engConfig.role = "client"
    /\ \/ phase \in {"setup", "ending", "exchange"}
       \/ phase = "measuring" /\ ~engConfig.timed /\ ~(done /\ engConfig.wakes)

\* A server waits for a client, and for the end of a test without a duration; its
\* select() returns every second, so that a stop ends either.  The exchange of
\* results has time limits of its own.
ServerWaits ==
    engConfig.role = "server" /\ phase \in {"setup", "measuring"} /\ ~stopRequested

\* libdispatch runs the blocks of its queues, and an engine call that waits neither
\* for its peer nor for the end of a test without a duration goes on.
FairSpec ==
    /\ Spec
    /\ WF_vars(EngineStep /\ ~ClientWaits /\ ~ServerWaits)
    /\ \A id \in RunIDs : WF_vars(DeliverCompletion(id))

\* stop() ends the run it reaches, also when done was cleared under it: a server's
\* always, a client's unless it is left waiting by a peer that says nothing more, or
\* in a test that neither ends by itself nor wakes up to see the stop.
StopEndsRun ==
    ([]<>~ClientWaits) => \A id \in RunIDs : history[id].stopped ~> ~Active(id)

\* The engine is held by a server nobody has stopped.
Serving == phase # "idle" /\ engConfig.role = "server" /\ ~stopRequested

\* "A persistent server therefore blocks later runners until stop() is called."  So
\* does a client that waits for ever.  Unless one of them keeps the engine, every
\* accepted run ends and its completion is delivered.
QueueDrains ==
    ([]<>~Serving) /\ ([]<>~ClientWaits) =>
        \A id \in RunIDs :
            Accepted(id) ~> (~Active(id) /\ (id \in withCallback => delivered[id] = 1))

-----------------------------------------------------------------------------
\* The runner implements the promise in RunLifecycle.

StageOf(id) ==
    CASE ~Accepted(id)                  -> "unused"
      [] engRun = id                    -> "executing"
      [] engRun # id /\ Active(id)      -> "accepted"
      [] Accepted(id) /\ engRun # id /\ ~Active(id) ->
            IF delivered[id] > 0 THEN "delivered" ELSE "released"

Promise == INSTANCE RunLifecycle WITH stage <- [id \in RunIDs |-> StageOf(id)]

\* Every step of the runners is a step of the promise or leaves it alone.
ImplementsLifecycle == Promise!LifecycleSpec
=============================================================================
