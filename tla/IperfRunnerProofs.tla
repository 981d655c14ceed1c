-------------------------- MODULE IperfRunnerProofs --------------------------
(***************************************************************************)
(* Proofs about IperfRunner for any set of runners, any configurations and  *)
(* any number of starts: types, the exclusive engine, the queue, that       *)
(* IperfRunner implements RunLifecycle, and how often a run reports a       *)
(* terminal state.                                                          *)
(***************************************************************************)
EXTENDS IperfRunner, TLAPS

\* The initial state is well typed.
LEMMA TypeInit == Init => TypeOK
<1> SUFFICES ASSUME Init PROVE TypeOK
  OBVIOUS
<1>1. /\ configuration \in [Runners -> ConfigType \cup {NoConfig}]
      /\ engConfig \in ConfigType \cup {NoConfig}
  BY RunnerConstants DEF Init
<1>2. history \in [RunIDs -> HistoryType]
  BY DEF Init, HistoryType
<1>3. /\ engineQueue \in Seq(Blocks)
      /\ lastID \in 0..MaxStarts
  BY RunnerConstants DEF Init
<1> QED BY <1>1, <1>2, <1>3, Zenon DEF Init, TypeOK, Nil, States, Phases

\* What cleanState() leaves in every field it writes is well typed.
LEMMA CleanStateType ==
    ASSUME TypeOK, NEW r \in Runners, NEW s \in States, NEW again \in BOOLEAN,
           CleanState(r, s, again)
    PROVE  /\ configuration' \in [Runners -> ConfigType \cup {NoConfig}]
           /\ currentTest' \in [Runners -> RunIDs \cup {Nil}]
           /\ pendingRunID' \in [Runners -> RunIDs \cup {Nil}]
           /\ activeRun' \in [Runners -> RunIDs \cup {Nil}]
           /\ storedCompletion' \in [Runners -> RunIDs \cup {Nil}]
           /\ state' \in [Runners -> States]
           /\ alive' \in [Runners -> BOOLEAN]
           /\ lastID' \in 0..MaxStarts
           /\ withCallback' \in SUBSET RunIDs
           /\ enqueued' \in [RunIDs -> Nat]
           /\ delivered' \in [RunIDs -> Nat]
<1>1. again => lastID + 1 \in RunIDs
  BY RunnerConstants DEF CleanState, TypeOK, RunIDs
<1>2. /\ configuration' \in [Runners -> ConfigType \cup {NoConfig}]
      /\ currentTest' \in [Runners -> RunIDs \cup {Nil}]
      /\ alive' \in [Runners -> BOOLEAN]
      /\ state' \in [Runners -> States]
  BY DEF CleanState, TypeOK, States
<1>3. /\ pendingRunID' \in [Runners -> RunIDs \cup {Nil}]
      /\ activeRun' \in [Runners -> RunIDs \cup {Nil}]
      /\ storedCompletion' \in [Runners -> RunIDs \cup {Nil}]
  BY <1>1 DEF CleanState, TypeOK
<1>4. /\ lastID' \in 0..MaxStarts
      /\ withCallback' \in SUBSET RunIDs
      /\ delivered' \in [RunIDs -> Nat]
  BY <1>1 DEF CleanState, TypeOK, RunIDs
<1>5. enqueued' \in [RunIDs -> Nat]
  BY DEF CleanState, TypeOK
<1> QED BY <1>2, <1>3, <1>4, <1>5

\* What the model keeps of a run's history stays a history record.
LEMMA HistoryType1 ==
    ASSUME TypeOK, NEW id \in RunIDs \cup {Nil}, NEW n \in Nat,
           NEW failed \in BOOLEAN, NEW error \in BOOLEAN,
           NEW how \in {"no", "bounded", "unbounded"}
    PROVE  /\ Reported(id, n) \in [RunIDs -> HistoryType]
           /\ [history EXCEPT ![id].stopped = TRUE] \in [RunIDs -> HistoryType]
           /\ [history EXCEPT ![id] = Ended(@, failed, error, how, n)] \in [RunIDs -> HistoryType]
<1>1. \A i \in RunIDs : history[i] \in HistoryType
  BY DEF TypeOK
<1>2. Reported(id, n) \in [RunIDs -> HistoryType]
  <2>1. CASE id \in RunIDs
    <3>1. [history[id] EXCEPT !.terminals = @ + n] \in HistoryType
      BY <1>1, <2>1 DEF HistoryType
    <3> QED BY <1>1, <2>1, <3>1 DEF TypeOK, Reported
  <2>2. CASE id \notin RunIDs
    BY <2>2, Zenon DEF TypeOK, Reported
  <2> QED BY <2>1, <2>2
<1>3. [history EXCEPT ![id].stopped = TRUE] \in [RunIDs -> HistoryType]
  BY <1>1, Zenon DEF TypeOK, HistoryType
<1>4. [history EXCEPT ![id] = Ended(@, failed, error, how, n)] \in [RunIDs -> HistoryType]
  <2>1. CASE id \in RunIDs
    <3>1. Ended(history[id], failed, error, how, n) \in HistoryType
      BY <1>1, <2>1 DEF HistoryType, Ended
    <3> QED BY <1>1, <2>1, <3>1 DEF TypeOK
  <2>2. CASE id \notin RunIDs
    BY <2>2, Zenon DEF TypeOK
  <2> QED BY <2>1, <2>2
<1> QED BY <1>2, <1>3, <1>4

\* Queueing a run's block, as startRun does.
LEMMA QueueType ==
    ASSUME NEW queue \in Seq(Blocks), NEW r \in Runners, NEW id \in RunIDs
    PROVE  Append(queue, [runner |-> r, runID |-> id]) \in Seq(Blocks)
<1>1. [runner |-> r, runID |-> id] \in Blocks
  BY DEF Blocks
<1> QED BY <1>1

\* Every step keeps the types.
LEMMA TypeStep == TypeOK /\ [Next]_vars => TypeOK'
<1> SUFFICES ASSUME TypeOK, [Next]_vars PROVE TypeOK'
  OBVIOUS
<1> USE RunnerConstants
<1>1. ASSUME NEW r \in Runners, StartWith(r) \/ StartHeld(r) PROVE TypeOK'
  <2>1. PICK cfg \in ConfigType \cup {NoConfig}, cb \in BOOLEAN : AcceptStart(r, cfg, cb)
    BY <1>1, Zenon DEF StartWith, StartHeld, TypeOK
  <2>2. lastID + 1 \in RunIDs /\ lastID' \in 0..MaxStarts
    BY <2>1 DEF AcceptStart, TypeOK, RunIDs
  <2>v. cfg.valid \in BOOLEAN
    <3>1. \A c \in ConfigType : c.valid \in BOOLEAN
      BY DEF ConfigType
    <3>2. NoConfig.valid \in BOOLEAN
      BY DEF NoConfig
    <3> QED BY <3>1, <3>2
  <2>q. Append(engineQueue, [runner |-> r, runID |-> lastID + 1]) \in Seq(Blocks)
    BY <2>2, QueueType DEF TypeOK
  <2>h. [history EXCEPT ![lastID + 1] = Ended(@, FALSE, TRUE, "no", 1)] \in [RunIDs -> HistoryType]
    BY <2>2, HistoryType1, Zenon
  <2>3. engineQueue' \in Seq(Blocks)
    BY <2>1, <2>v, <2>q, Zenon DEF AcceptStart, TypeOK
  <2>4. history' \in [RunIDs -> HistoryType]
    BY <2>1, <2>v, <2>h, Zenon DEF AcceptStart, TypeOK
  <2>5. /\ configuration' \in [Runners -> ConfigType \cup {NoConfig}]
        /\ pendingRunID' \in [Runners -> RunIDs \cup {Nil}]
        /\ activeRun' \in [Runners -> RunIDs \cup {Nil}]
    <3>1. configuration' \in [Runners -> ConfigType \cup {NoConfig}]
      BY <2>1, <2>2, <2>v, Zenon DEF AcceptStart, TypeOK
    <3>2. pendingRunID' \in [Runners -> RunIDs \cup {Nil}]
      BY <2>1, <2>2, <2>v, Zenon DEF AcceptStart, TypeOK
    <3>3. activeRun' \in [Runners -> RunIDs \cup {Nil}]
      BY <2>1, <2>2, <2>v, Zenon DEF AcceptStart, TypeOK
    <3> QED BY <3>1, <3>2, <3>3
  <2>6. /\ storedCompletion' \in [Runners -> RunIDs \cup {Nil}]
        /\ state' \in [Runners -> States]
    <3>1. CASE cfg.valid
      BY <2>1, <3>1, Zenon DEF AcceptStart, TypeOK, States
    <3>2. CASE ~cfg.valid
      <4>1. /\ storedCompletion' = [storedCompletion EXCEPT ![r] = lastID + 1]
            /\ state' = [state EXCEPT ![r] = "error"]
        BY <2>1, <3>2 DEF AcceptStart
      <4> QED BY <2>2, <4>1 DEF TypeOK, States
    <3> QED BY <3>1, <3>2
  <2>8. withCallback' \in SUBSET RunIDs
    BY <2>1, <2>2 DEF AcceptStart, TypeOK
  <2>9. enqueued' \in [RunIDs -> Nat]
    <3>1. [enqueued EXCEPT ![lastID + 1] = @ + 1] \in [RunIDs -> Nat]
      BY <2>2 DEF TypeOK
    <3> QED BY <2>1, <2>v, <3>1, Zenon DEF AcceptStart, TypeOK
  <2>7. UNCHANGED <<currentTest, alive, delivered, engRunner, engRun, engConfig, phase, done,
                    stopRequested, code, wasStopped>>
    BY <2>1 DEF AcceptStart, engineVars
  <2> QED BY <2>2, <2>3, <2>4, <2>5, <2>6, <2>7, <2>8, <2>9 DEF TypeOK
<1>2. ASSUME NEW r \in Runners, StopQueued(r) PROVE TypeOK'
  <2>1. PICK again \in BOOLEAN : /\ CleanState(r, "stopping", again)
                                 /\ engineQueue' = Requeued(engineQueue, r, again)
                                 /\ history' = Reported(activeRun[r], 1)
    BY <1>2 DEF StopQueued
  <2>2. again => lastID + 1 \in RunIDs
    BY <2>1 DEF CleanState, TypeOK, RunIDs
  <2>3. engineQueue' \in Seq(Blocks)
    BY <2>1, <2>2, QueueType DEF Requeued, TypeOK
  <2>4. history' \in [RunIDs -> HistoryType]
    BY <2>1, HistoryType1, Zenon DEF TypeOK
  <2> QED BY SMTT(30), <1>2, <2>1, <2>3, <2>4, CleanStateType DEF StopQueued, TypeOK, States, engineVars
<1>3. ASSUME NEW r \in Runners, StopActive(r) PROVE TypeOK'
  <2>1. history' \in [RunIDs -> HistoryType]
    BY Zenon, <1>3, HistoryType1 DEF StopActive, TypeOK
  <2> QED BY <1>3, <2>1 DEF StopActive, TypeOK, States, queueVars
<1>4. ASSUME NEW r \in Runners, Deinit(r) PROVE TypeOK'
  BY <1>4 DEF Deinit, TypeOK, engineVars
<1>5. ASSUME NEW id \in RunIDs, DeliverCompletion(id) PROVE TypeOK'
  BY <1>5 DEF DeliverCompletion, TypeOK, engineVars, runnerVars
<1>6. CASE SkipStaleBlock
  BY <1>6 DEF SkipStaleBlock, TypeOK, engineVars, runnerVars
<1>7. ASSUME NEW r \in Runners, PrepareFails(r) PROVE TypeOK'
  <2>1. history' \in [RunIDs -> HistoryType]
    BY <1>7, HistoryType1, Zenon DEF PrepareFails, TypeOK
  <2>2. engineQueue' \in Seq(Blocks)
    BY <1>7 DEF PrepareFails, Dequeues, TypeOK
  <2> QED BY <1>7, <2>1, <2>2, CleanStateType, Zenon DEF PrepareFails, TypeOK, States, engineVars
<1>8. ASSUME NEW r \in Runners, BeginRun(r) PROVE TypeOK'
  BY <1>8 DEF BeginRun, Dequeues, TypeOK, States, Phases
<1>9. CASE NativeStep
  <2>1. CASE NativeExchangeFails
    <3>1. history' \in [RunIDs -> HistoryType]
      BY <2>1, HistoryType1, Zenon DEF NativeExchangeFails, TypeOK
    <3> QED BY <2>1, <3>1 DEF NativeExchangeFails, TypeOK, States, Phases, Return, queueVars
  <2>2. CASE NativeStep /\ ~NativeExchangeFails
    BY <2>2, Zenon DEF NativeStep, NativeEnter, NativeSetupFails, NativeStartTest, NativeEndTest,
       NativeMeasurementFails, NativeEnding, NativeExchange, NativeKeeps, Return, Goto,
       TypeOK, Phases, runnerVars, queueVars
  <2> QED BY <1>9, <2>1, <2>2
<1>10. CASE ReadOutcome \/ RestartServer \/ LeaveLoop
  BY <1>10, Zenon DEF ReadOutcome, RestartServer, LeaveLoop, TypeOK, Phases, runnerVars, queueVars,
     ConfigType, NoConfig
<1>11. CASE FinishRun
  <2>0. engRunner \in Runners
    BY <1>11 DEF FinishRun, TypeOK
  <2> DEFINE isError == code < 0 /\ ~wasStopped
             s == IF isError THEN "error" ELSE state[engRunner]
  <2>1. PICK again \in BOOLEAN : /\ CleanState(engRunner, s, again)
                                 /\ engineQueue' = Requeued(engineQueue, engRunner, again)
    BY <1>11 DEF FinishRun
  <2>2. again => lastID + 1 \in RunIDs
    BY <2>1 DEF CleanState, TypeOK, RunIDs
  <2>3. engineQueue' \in Seq(Blocks)
    BY <2>1, <2>2, QueueType, <2>0 DEF Requeued, TypeOK
  <2>4. history' \in [RunIDs -> HistoryType]
    <3> DEFINE policy == IF engConfig.bounded THEN "bounded" ELSE "unbounded"
               n == IF isError \/ s \in {"running", "stopping"} THEN 1 ELSE 0
    <3>1. history' = [history EXCEPT ![engRun] = Ended(@, code < 0, isError, policy, n)]
      BY <1>11 DEF FinishRun
    <3>2. /\ policy \in {"no", "bounded", "unbounded"} /\ n \in Nat
          /\ (code < 0) \in BOOLEAN /\ isError \in BOOLEAN
          /\ engRun \in RunIDs \cup {Nil}
      BY DEF TypeOK
    <3> HIDE DEF policy, n, isError
    <3> QED BY <3>1, <3>2, HistoryType1, Zenon
  <2>5. s \in States
    BY <2>0 DEF TypeOK, States
  <2> HIDE DEF s
  <2>6. /\ engRunner' \in Runners \cup {NoRunner} /\ engRun' \in RunIDs \cup {Nil}
        /\ engConfig' \in ConfigType \cup {NoConfig}
        /\ phase' \in Phases /\ (phase' # "idle" => engRunner' \in Runners)
        /\ done' \in BOOLEAN /\ stopRequested' \in BOOLEAN /\ wasStopped' \in BOOLEAN
        /\ code' \in {-2, -1, 0}
    BY <1>11, Zenon DEF FinishRun, EngineIdle, Phases
  <2> QED BY <2>0, <2>1, <2>3, <2>4, <2>5, <2>6, CleanStateType DEF TypeOK
<1>12. CASE UNCHANGED vars
  BY <1>12 DEF vars, runnerVars, queueVars, engineVars, TypeOK
<1> QED BY <1>1, <1>2, <1>3, <1>4, <1>5, <1>6, <1>7, <1>8, <1>9, <1>10, <1>11, <1>12
        DEF Next, EngineStep, CallerStep

\* TypeOK is an invariant: what the runner stores is always of its declared kind.
THEOREM TypeCorrect == Spec => []TypeOK
<1>1. Init => TypeOK
  BY TypeInit
<1>2. TypeOK /\ [Next]_vars => TypeOK'
  BY TypeStep
<1> QED BY <1>1, <1>2, PTL DEF Spec

-----------------------------------------------------------------------------
\* The inductive invariant RunnerInv, initially.
LEMMA InvInit == Init => RunnerInv
<1> SUFFICES ASSUME Init PROVE RunnerInv
  OBVIOUS
<1>1. TypeOK
  BY TypeInit
<1>2. Ownership /\ EngineExclusive
  BY RunnerConstants DEF Init, Ownership, EngineExclusive, Nil
<1>3. CompletesOnce
  BY RunnerConstants DEF Init, CompletesOnce, Accepted, RunIDs
<1> QED BY <1>1, <1>2, <1>3 DEF RunnerInv

\* Steps that move no run: the engine's own, and blocks that do nothing.
LEMMA NothingMoves ==
    ASSUME RunnerInv,
           UNCHANGED <<activeRun, pendingRunID, currentTest, alive, lastID, withCallback,
                       enqueued, delivered, engRunner, engRun>>,
           phase' = "idle" <=> phase = "idle"
    PROVE  Ownership' /\ EngineExclusive' /\ CompletesOnce'
BY DEF RunnerInv, Ownership, EngineExclusive, CompletesOnce, Accepted, Active

\* cleanState() ends the active run of r, and may be followed by a new one.
LEMMA CleanStateInv ==
    ASSUME RunnerInv, NEW r \in Runners, NEW s \in States, NEW again \in BOOLEAN,
           alive[r], activeRun[r] # Nil, CleanState(r, s, again),
           \/ engRunner # r /\ UNCHANGED <<engRunner, engRun, phase>>
           \/ engRunner' = NoRunner /\ engRun' = Nil /\ phase' = "idle" /\ engRunner = r
    PROVE  Ownership' /\ EngineExclusive' /\ CompletesOnce'
<1> DEFINE old == activeRun[r]
           new == lastID + 1
<1> USE RunnerConstants
<1>1. /\ old \in RunIDs /\ old <= lastID /\ lastID \in Nat
      /\ again => new \in RunIDs
      /\ new # old
  BY DEF RunnerInv, TypeOK, Ownership, CleanState, RunIDs, Nil
<1>2. /\ activeRun' = [activeRun EXCEPT ![r] = IF again THEN new ELSE Nil]
      /\ pendingRunID' = [pendingRunID EXCEPT ![r] = IF again THEN new ELSE Nil]
      /\ currentTest' = [currentTest EXCEPT ![r] = Nil]
      /\ lastID' = IF again THEN new ELSE lastID
      /\ UNCHANGED <<alive, delivered>>
      /\ enqueued' = IF old \in withCallback THEN [enqueued EXCEPT ![old] = @ + 1] ELSE enqueued
      /\ withCallback \subseteq withCallback'
      /\ withCallback' \subseteq withCallback \cup (IF again THEN {new} ELSE {})
  BY DEF CleanState
<1>3. Ownership'
  <2>1. withCallback' \subseteq 1..lastID'
    BY <1>1, <1>2 DEF RunnerInv, Ownership
  <2>0. \A q \in Runners :
          /\ activeRun'[q] = IF q = r THEN (IF again THEN new ELSE Nil) ELSE activeRun[q]
          /\ pendingRunID'[q] = IF q = r THEN (IF again THEN new ELSE Nil) ELSE pendingRunID[q]
          /\ currentTest'[q] = IF q = r THEN Nil ELSE currentTest[q]
          /\ activeRun[q] \in Nat /\ activeRun[q] <= lastID
    <3>1. activeRun \in [Runners -> RunIDs \cup {Nil}] /\ pendingRunID \in [Runners -> RunIDs \cup {Nil}]
          /\ currentTest \in [Runners -> RunIDs \cup {Nil}]
      BY DEF RunnerInv, TypeOK
    <3>2. RunIDs \cup {Nil} \subseteq Nat
      BY DEF RunIDs, Nil
    <3>3. \A q \in Runners : activeRun[q] \in Nat /\ activeRun[q] <= lastID
      BY <3>1, <3>2 DEF RunnerInv, Ownership
    <3> QED BY <1>2, <3>1, <3>3
  <2>2. \A q \in Runners :
          /\ activeRun'[q] <= lastID'
          /\ pendingRunID'[q] # Nil => pendingRunID'[q] = activeRun'[q] /\ currentTest'[q] = Nil
          /\ ~alive'[q] => activeRun'[q] = Nil /\ pendingRunID'[q] = Nil /\ currentTest'[q] = Nil
    BY <1>1, <1>2, <2>0 DEF RunnerInv, Ownership, Nil
  <2>3. \A p, q \in Runners : activeRun'[p] # Nil /\ activeRun'[p] = activeRun'[q] => p = q
    BY <1>1, <2>0 DEF RunnerInv, Ownership, Nil
  <2> QED BY <2>1, <2>2, <2>3 DEF RunnerInv, Ownership
<1>4. EngineExclusive'
  BY <1>2 DEF RunnerInv, Ownership, EngineExclusive, TypeOK, Nil
<1>5. CompletesOnce'
  <2> SUFFICES ASSUME NEW id \in RunIDs
               PROVE  /\ delivered'[id] <= enqueued'[id]
                      /\ enqueued'[id] = IF Accepted(id)' /\ id \in withCallback' /\ ~Active(id)'
                                         THEN 1 ELSE 0
    BY DEF CompletesOnce
  <2>1. /\ delivered[id] <= enqueued[id]
        /\ enqueued[id] = IF Accepted(id) /\ id \in withCallback /\ ~Active(id) THEN 1 ELSE 0
    BY DEF RunnerInv, CompletesOnce
  <2>2. Active(id)' <=> ((Active(id) /\ id # old) \/ (again /\ id = new))
    <3>1. \A q \in Runners :
             activeRun'[q] = IF q = r THEN (IF again THEN new ELSE Nil) ELSE activeRun[q]
      BY <1>2, Zenon DEF RunnerInv, TypeOK
    <3>2. \A q \in Runners : activeRun[q] = old => q = r
      BY <1>1 DEF RunnerInv, Ownership, Nil
    <3>3. id # Nil
      BY DEF RunIDs, Nil
    <3> QED BY <1>1, <3>1, <3>2, <3>3 DEF Active
  <2>3. Accepted(id)' <=> (Accepted(id) \/ (again /\ id = new))
    BY <1>1, <1>2 DEF Accepted, RunIDs
  <2>4. CASE id = old
    <3>1. Active(id) /\ ~Active(id)' /\ Accepted(id) /\ Accepted(id)'
      BY <1>1, <2>2, <2>3, <2>4 DEF Active, Accepted
    <3>2. id \in withCallback' <=> id \in withCallback
      BY <1>1, <1>2, <2>4
    <3> QED BY <1>1, <1>2, <2>1, <2>4, <3>1, <3>2 DEF RunnerInv, TypeOK
  <2>5. CASE again /\ id = new
    <3>1. ~Accepted(id)
      BY <1>1, <2>5 DEF Accepted
    <3> QED BY <1>1, <1>2, <2>1, <2>2, <2>5, <3>1 DEF RunnerInv, TypeOK
  <2>6. CASE id # old /\ ~(again /\ id = new)
    <3>1. id \in withCallback' <=> id \in withCallback
      BY <1>1, <1>2, <2>6
    <3> QED BY <1>1, <1>2, <2>1, <2>2, <2>3, <2>6, <3>1 DEF RunnerInv, TypeOK
  <2> QED BY <2>4, <2>5, <2>6
<1> QED BY <1>3, <1>4, <1>5

\* start(): a run that did not exist becomes active, or completes at once.
LEMMA AcceptStartInv ==
    ASSUME RunnerInv, NEW r \in Runners, NEW cfg \in ConfigType \cup {NoConfig},
           NEW cb \in BOOLEAN, AcceptStart(r, cfg, cb)
    PROVE  Ownership' /\ EngineExclusive' /\ CompletesOnce'
<1> DEFINE new == lastID + 1
<1> USE RunnerConstants
<1>1. /\ new \in RunIDs /\ lastID' = new /\ lastID \in Nat
      /\ alive[r] /\ activeRun[r] = Nil /\ pendingRunID[r] = Nil /\ currentTest[r] = Nil
      /\ UNCHANGED <<currentTest, alive, delivered, engRunner, engRun, phase>>
      /\ withCallback' = IF cb THEN withCallback \cup {new} ELSE withCallback
  BY DEF AcceptStart, Startable, RunnerInv, TypeOK, RunIDs, engineVars
<1>2. /\ activeRun \in [Runners -> RunIDs \cup {Nil}]
      /\ pendingRunID \in [Runners -> RunIDs \cup {Nil}]
      /\ enqueued \in [RunIDs -> Nat] /\ delivered \in [RunIDs -> Nat]
      /\ RunIDs \cup {Nil} \subseteq Nat
  BY DEF RunnerInv, TypeOK, RunIDs, Nil
<1>3. \A q \in Runners : activeRun[q] \in Nat /\ activeRun[q] <= lastID
  BY <1>2, Zenon DEF RunnerInv, Ownership
<1>4. withCallback' \subseteq 1..lastID'
  BY <1>1 DEF RunnerInv, Ownership
<1>5. CASE cfg.valid
  <2>1. /\ activeRun' = [activeRun EXCEPT ![r] = new]
        /\ pendingRunID' = [pendingRunID EXCEPT ![r] = new]
        /\ enqueued' = enqueued
    BY <1>5 DEF AcceptStart
  <2>2. \A q \in Runners : /\ activeRun'[q] = IF q = r THEN new ELSE activeRun[q]
                           /\ pendingRunID'[q] = IF q = r THEN new ELSE pendingRunID[q]
    BY <1>2, <2>1, Zenon
  <2>3. Ownership'
    BY <1>1, <1>3, <1>4, <2>2 DEF RunnerInv, Ownership, Nil
  <2>4. EngineExclusive'
    BY <1>1, <2>2 DEF RunnerInv, EngineExclusive, Nil
  <2>5. CompletesOnce'
    <3> SUFFICES ASSUME NEW id \in RunIDs
                 PROVE  /\ delivered'[id] <= enqueued'[id]
                        /\ enqueued'[id] = IF Accepted(id)' /\ id \in withCallback' /\ ~Active(id)'
                                           THEN 1 ELSE 0
      BY DEF CompletesOnce
    <3>1. /\ delivered[id] <= enqueued[id]
          /\ enqueued[id] = IF Accepted(id) /\ id \in withCallback /\ ~Active(id) THEN 1 ELSE 0
      BY DEF RunnerInv, CompletesOnce
    <3>2. Active(id)' <=> (Active(id) \/ id = new)
      BY <1>1, <2>2 DEF Active, RunIDs, Nil
    <3>3. /\ Accepted(id)' <=> (Accepted(id) \/ id = new)
          /\ ~(Accepted(id) /\ id = new)
      BY <1>1 DEF Accepted, RunIDs
    <3> QED BY <1>1, <2>1, <3>1, <3>2, <3>3
  <2> QED BY <2>3, <2>4, <2>5
<1>6. CASE ~cfg.valid
  <2>1. /\ UNCHANGED <<activeRun, pendingRunID>>
        /\ enqueued' = IF cb THEN [enqueued EXCEPT ![new] = @ + 1] ELSE enqueued
    BY <1>6, Zenon DEF AcceptStart
  <2>2. Ownership'
    BY <1>1, <1>3, <1>4, <2>1 DEF RunnerInv, Ownership, Nil
  <2>3. EngineExclusive'
    BY <1>1, <2>1, Zenon DEF RunnerInv, EngineExclusive, Nil
  <2>4. CompletesOnce'
    <3> SUFFICES ASSUME NEW id \in RunIDs
                 PROVE  /\ delivered'[id] <= enqueued'[id]
                        /\ enqueued'[id] = IF Accepted(id)' /\ id \in withCallback' /\ ~Active(id)'
                                           THEN 1 ELSE 0
      BY DEF CompletesOnce
    <3>1. /\ delivered[id] <= enqueued[id]
          /\ enqueued[id] = IF Accepted(id) /\ id \in withCallback /\ ~Active(id) THEN 1 ELSE 0
      BY DEF RunnerInv, CompletesOnce
    <3>2. Active(id)' <=> Active(id)
      BY <2>1, Zenon DEF Active
    <3>3. id = new => ~Active(id)
      BY <1>1, <1>3 DEF Active
    <3>4. /\ Accepted(id)' <=> (Accepted(id) \/ id = new)
          /\ ~(Accepted(id) /\ id = new)
          /\ id \in withCallback => Accepted(id)
      BY <1>1 DEF Accepted, RunIDs, RunnerInv, Ownership
    <3> QED BY <1>1, <1>2, <2>1, <3>1, <3>2, <3>3, <3>4
  <2> QED BY <2>2, <2>3, <2>4
<1> QED BY <1>5, <1>6

\* deinit: the queued run, if any, completes; nobody else notices.
LEMMA DeinitInv ==
    ASSUME RunnerInv, NEW r \in Runners, Deinit(r)
    PROVE  Ownership' /\ EngineExclusive' /\ CompletesOnce'
<1> DEFINE old == activeRun[r]
<1> USE RunnerConstants
<1>1. /\ activeRun \in [Runners -> RunIDs \cup {Nil}]
      /\ pendingRunID \in [Runners -> RunIDs \cup {Nil}]
      /\ currentTest \in [Runners -> RunIDs \cup {Nil}]
      /\ alive \in [Runners -> BOOLEAN]
      /\ enqueued \in [RunIDs -> Nat] /\ delivered \in [RunIDs -> Nat]
      /\ withCallback \subseteq RunIDs /\ lastID \in Nat
  BY DEF RunnerInv, TypeOK
<1>2. /\ engRunner # r /\ currentTest[r] = Nil
      /\ UNCHANGED <<currentTest, lastID, withCallback, delivered, engRunner, engRun, phase>>
      /\ enqueued' = IF old \in withCallback THEN [enqueued EXCEPT ![old] = @ + 1] ELSE enqueued
  BY DEF Deinit, RunnerInv, EngineExclusive, engineVars
<1>3. \A q \in Runners : /\ activeRun'[q] = IF q = r THEN Nil ELSE activeRun[q]
                         /\ pendingRunID'[q] = IF q = r THEN Nil ELSE pendingRunID[q]
                         /\ alive'[q] = IF q = r THEN FALSE ELSE alive[q]
  BY <1>1 DEF Deinit
<1>4. Ownership'
  <2>1. \A q \in Runners : activeRun[q] \in Nat /\ activeRun[q] <= lastID
    BY <1>1 DEF RunnerInv, Ownership, RunIDs, Nil
  <2>2. \A q \in Runners :
          /\ activeRun'[q] <= lastID'
          /\ pendingRunID'[q] # Nil => pendingRunID'[q] = activeRun'[q] /\ currentTest'[q] = Nil
          /\ ~alive'[q] => activeRun'[q] = Nil /\ pendingRunID'[q] = Nil /\ currentTest'[q] = Nil
    <3> SUFFICES ASSUME NEW q \in Runners
                 PROVE  /\ activeRun'[q] <= lastID'
                        /\ pendingRunID'[q] # Nil =>
                              pendingRunID'[q] = activeRun'[q] /\ currentTest'[q] = Nil
                        /\ ~alive'[q] => /\ activeRun'[q] = Nil /\ pendingRunID'[q] = Nil
                                         /\ currentTest'[q] = Nil
      OBVIOUS
    <3>1. CASE q = r
      <4>1. activeRun'[q] = Nil /\ pendingRunID'[q] = Nil
        BY <1>3, <3>1, Zenon
      <4>2. currentTest'[q] = Nil
        BY <1>2, <3>1
      <4> QED BY <1>1, <1>2, <4>1, <4>2 DEF Nil
    <3>2. CASE q # r
      <4>1. activeRun'[q] = activeRun[q] /\ pendingRunID'[q] = pendingRunID[q]
            /\ alive'[q] = alive[q] /\ currentTest'[q] = currentTest[q] /\ lastID' = lastID
        BY <1>2, <1>3, <3>2, Zenon
      <4> QED BY <4>1 DEF RunnerInv, Ownership
    <3> QED BY <3>1, <3>2
  <2>3. \A p, q \in Runners : activeRun'[p] # Nil /\ activeRun'[p] = activeRun'[q] => p = q
    BY <1>3, ZenonT(30) DEF RunnerInv, Ownership, Nil
  <2> QED BY <1>2, <2>2, <2>3 DEF RunnerInv, Ownership
<1>5. EngineExclusive'
  BY <1>1, <1>2, <1>3, Zenon DEF RunnerInv, EngineExclusive, Nil
<1>6. CompletesOnce'
  <2> SUFFICES ASSUME NEW id \in RunIDs
               PROVE  /\ delivered'[id] <= enqueued'[id]
                      /\ enqueued'[id] = IF Accepted(id)' /\ id \in withCallback' /\ ~Active(id)'
                                         THEN 1 ELSE 0
    BY DEF CompletesOnce
  <2>1. /\ delivered[id] <= enqueued[id]
        /\ enqueued[id] = IF Accepted(id) /\ id \in withCallback /\ ~Active(id) THEN 1 ELSE 0
    BY DEF RunnerInv, CompletesOnce
  <2>2. Active(id)' <=> Active(id) /\ id # old
    <3>1. \A q \in Runners : activeRun[q] = id /\ id = old => q = r
      BY DEF RunnerInv, Ownership, RunIDs, Nil
    <3>2. id # Nil
      BY DEF RunIDs, Nil
    <3>3. ASSUME Active(id)' PROVE Active(id) /\ id # old
      <4>1. PICK q \in Runners : activeRun'[q] = id
        BY <3>3 DEF Active
      <4> QED BY <1>3, <3>1, <3>2, <4>1, Zenon DEF Active
    <3>4. ASSUME Active(id), id # old PROVE Active(id)'
      <4>1. PICK q \in Runners : activeRun[q] = id
        BY <3>4 DEF Active
      <4>2. activeRun'[q] = id
        BY <1>3, <3>4, <4>1, Zenon
      <4> QED BY <4>2 DEF Active
    <3> QED BY <3>3, <3>4
  <2>3. /\ Accepted(id)' <=> Accepted(id)
        /\ id = old => Active(id) /\ Accepted(id)
    BY <1>2, Zenon DEF Accepted, Active, RunnerInv, Ownership
  <2> QED BY <1>1, <1>2, <2>1, <2>2, <2>3
<1> QED BY <1>4, <1>5, <1>6

\* The engine takes the run at the head of its queue.
LEMMA BeginRunInv ==
    ASSUME RunnerInv, NEW r \in Runners, BeginRun(r)
    PROVE  Ownership' /\ EngineExclusive' /\ CompletesOnce'
<1> USE RunnerConstants
<1>1. /\ pendingRunID \in [Runners -> RunIDs \cup {Nil}]
      /\ currentTest \in [Runners -> RunIDs \cup {Nil}]
      /\ Head(engineQueue) \in Blocks
  BY SMTT(30) DEF RunnerInv, TypeOK, BeginRun, Dequeues
<1>2. /\ pendingRunID[r] # Nil /\ activeRun[r] = pendingRunID[r] /\ alive[r] /\ phase = "idle"
      /\ engRunner = NoRunner
  BY <1>1 DEF RunnerInv, Ownership, BeginRun, Dequeues, Blocks, RunIDs, Nil
<1>3. /\ \A q \in Runners : /\ pendingRunID'[q] = IF q = r THEN Nil ELSE pendingRunID[q]
                            /\ currentTest'[q] = IF q = r THEN pendingRunID[r] ELSE currentTest[q]
      /\ UNCHANGED <<activeRun, alive, lastID, withCallback, enqueued, delivered>>
      /\ engRunner' = r /\ engRun' = pendingRunID[r] /\ phase' = "enter"
  BY <1>1, Zenon DEF BeginRun
<1>4. Ownership'
  BY <1>2, <1>3 DEF RunnerInv, Ownership, Nil
<1>5. EngineExclusive'
  BY <1>2, <1>3, Zenon DEF RunnerInv, EngineExclusive, Nil
<1>6. CompletesOnce'
  BY <1>3 DEF RunnerInv, CompletesOnce, Accepted, Active
<1> QED BY <1>4, <1>5, <1>6

\* The inductive invariant is kept by every action.
LEMMA InvStep == RunnerInv /\ [Next]_vars => RunnerInv'
<1> SUFFICES ASSUME RunnerInv, [Next]_vars PROVE Ownership' /\ EngineExclusive' /\ CompletesOnce'
  BY TypeStep DEF RunnerInv
<1> DEFINE Goal == Ownership' /\ EngineExclusive' /\ CompletesOnce'
<1> USE RunnerConstants
<1>0. TypeOK
  BY DEF RunnerInv
<1>1. ASSUME NEW r \in Runners, StartWith(r) \/ StartHeld(r) PROVE Goal
  <2>1. PICK cfg \in ConfigType \cup {NoConfig}, cb \in BOOLEAN : AcceptStart(r, cfg, cb)
    BY <1>0, <1>1, Zenon DEF StartWith, StartHeld, TypeOK
  <2> QED BY <2>1, AcceptStartInv
<1>2. ASSUME NEW r \in Runners, StopQueued(r) PROVE Goal
  <2>1. PICK again \in BOOLEAN : CleanState(r, "stopping", again)
    BY <1>2, Zenon DEF StopQueued
  <2>2. alive[r] /\ activeRun[r] # Nil /\ engRunner # r /\ UNCHANGED <<engRunner, engRun, phase>>
    BY <1>2 DEF StopQueued, RunnerInv, Ownership, EngineExclusive, engineVars, Nil
  <2> QED BY <2>1, <2>2, CleanStateInv DEF States
<1>3. ASSUME NEW r \in Runners, PrepareFails(r) PROVE Goal
  <2>1. pendingRunID[r] # Nil
    BY <1>0, <1>3 DEF PrepareFails, Dequeues, TypeOK, Blocks, RunIDs, Nil
  <2>2. alive[r] /\ activeRun[r] # Nil /\ engRunner # r /\ UNCHANGED <<engRunner, engRun, phase>>
    BY <1>3, <2>1, Zenon DEF PrepareFails, Dequeues, RunnerInv, Ownership, engineVars
  <2> QED BY <1>3, <2>2, CleanStateInv, Zenon DEF PrepareFails, States
<1>4. CASE FinishRun
  <2>1. /\ engRunner \in Runners /\ alive[engRunner] /\ activeRun[engRunner] # Nil
        /\ engRunner' = NoRunner /\ engRun' = Nil /\ phase' = "idle"
    BY <1>0, <1>4, Zenon DEF FinishRun, EngineIdle, RunnerInv, EngineExclusive
  <2>2. PICK again \in BOOLEAN, s \in States : CleanState(engRunner, s, again)
    BY <1>0, <1>4, <2>1, Zenon DEF FinishRun, TypeOK, States
  <2> QED BY <2>1, <2>2, CleanStateInv
<1>5. CASE \E id \in RunIDs : DeliverCompletion(id)
  <2>1. PICK d \in RunIDs : DeliverCompletion(d)
    BY <1>5
  <2>2. /\ delivered' = [delivered EXCEPT ![d] = @ + 1] /\ delivered[d] < enqueued[d]
        /\ UNCHANGED <<activeRun, pendingRunID, currentTest, alive, lastID, withCallback,
                       enqueued, engRunner, engRun, phase>>
    BY <2>1, Zenon DEF DeliverCompletion, runnerVars, engineVars
  <2>3. Ownership' /\ EngineExclusive'
    BY <2>2 DEF RunnerInv, Ownership, EngineExclusive
  <2>4. delivered \in [RunIDs -> Nat] /\ enqueued \in [RunIDs -> Nat]
    BY <1>0 DEF TypeOK
  <2>5. \A id \in RunIDs : delivered'[id] <= enqueued'[id]
    BY <2>2, <2>4 DEF RunnerInv, CompletesOnce
  <2>6. CompletesOnce'
    BY <2>2, <2>5 DEF RunnerInv, CompletesOnce, Accepted, Active
  <2> QED BY <2>3, <2>6
<1>6. ASSUME NEW r \in Runners, StopActive(r) PROVE Goal
  <2>1. /\ UNCHANGED <<activeRun, pendingRunID, currentTest, alive, lastID, withCallback,
                       enqueued, delivered, engRunner, engRun>>
        /\ phase' = "idle" <=> phase = "idle"
    BY <1>6 DEF StopActive, queueVars
  <2> QED BY <2>1, NothingMoves
<1>7. CASE SkipStaleBlock \/ NativeStep \/ ReadOutcome \/ RestartServer \/ LeaveLoop
  <2>1. UNCHANGED <<activeRun, pendingRunID, currentTest, alive, lastID, withCallback,
                    enqueued, delivered, engRunner, engRun>>
    BY <1>7, Zenon DEF SkipStaleBlock, NativeStep, NativeEnter, NativeSetupFails, NativeStartTest,
                NativeEndTest, NativeMeasurementFails, NativeEnding, NativeExchange,
                NativeExchangeFails, NativeKeeps, ReadOutcome, RestartServer, LeaveLoop,
                runnerVars, queueVars, engineVars
  <2>2. phase' = "idle" <=> phase = "idle"
    BY <1>7, Zenon DEF SkipStaleBlock, NativeStep, NativeEnter, NativeSetupFails, NativeStartTest,
                NativeEndTest, NativeMeasurementFails, NativeEnding, NativeExchange,
                NativeExchangeFails, Return, Goto, ReadOutcome, RestartServer, LeaveLoop,
                engineVars
  <2> QED BY <2>1, <2>2, NothingMoves
<1>8. CASE UNCHANGED vars
  BY <1>8, NothingMoves DEF vars, runnerVars, queueVars, engineVars
<1> QED
  BY <1>1, <1>2, <1>3, <1>4, <1>5, <1>6, <1>7, <1>8, DeinitInv, BeginRunInv
  DEF Next, EngineStep, CallerStep

\* The core result, for any number of runners, configurations and starts: a live
\* iperf_test belongs to the one run on the engine queue and to that runner's
\* active run, so two runs never share the process-global C engine.
THEOREM ExclusiveEngine == Spec => []EngineExclusive
<1>1. RunnerInv => EngineExclusive
  BY DEF RunnerInv
<1> QED BY InvInit, InvStep, <1>1, PTL DEF Spec

\* "Each accepted start completes once": the release callback is queued exactly
\* when the run stops being active, and delivered at most as often.
THEOREM CompletionOnce == Spec => []CompletesOnce
<1>1. RunnerInv => CompletesOnce
  BY DEF RunnerInv
<1> QED BY InvInit, InvStep, <1>1, PTL DEF Spec
-----------------------------------------------------------------------------
\* The order of the engine queue.

\* The blocks of a queue carry run IDs.
LEMMA BlockIDs ==
    ASSUME NEW queue \in Seq(Blocks)
    PROVE  \A i \in 1..Len(queue) : queue[i].runID \in Nat
<1>1. \A b \in Blocks : b.runID \in Nat
  BY RunnerConstants DEF Blocks, RunIDs
<1>2. \A i \in 1..Len(queue) : queue[i] \in Blocks
  OBVIOUS
<1> QED BY <1>1, <1>2

\* Queueing a run's block keeps the blocks in the order of the starts, and every
\* block where it was.
LEMMA QueueAppend ==
    ASSUME NEW queue \in Seq(Blocks), NEW n \in Nat, NEW r \in Runners, n + 1 \in RunIDs,
           Ordered(queue, n)
    PROVE  LET b == [runner |-> r, runID |-> n + 1]
           IN  /\ Ordered(Append(queue, b), n + 1)
               /\ \E i \in 1..Len(Append(queue, b)) : Append(queue, b)[i] = b
               /\ \A c : (\E i \in 1..Len(queue) : queue[i] = c) =>
                         \E i \in 1..Len(Append(queue, b)) : Append(queue, b)[i] = c
<1> DEFINE b == [runner |-> r, runID |-> n + 1]
           longer == Append(queue, b)
<1>1. b \in Blocks /\ b.runID = n + 1
  BY DEF Blocks
<1>2. /\ Len(queue) \in Nat /\ Len(longer) = Len(queue) + 1
      /\ \A i \in 1..Len(queue) : longer[i] = queue[i]
      /\ longer[Len(queue) + 1] = b
  BY <1>1
<1>3. \A i \in 1..Len(queue) : queue[i].runID \in Nat
  BY BlockIDs
<1> HIDE DEF b, longer
<1>o. /\ \A i \in 1..Len(queue) : queue[i].runID <= n
      /\ \A i, j \in 1..Len(queue) : i < j => queue[i].runID < queue[j].runID
  BY DEF Ordered
<1>p. \A i \in 1..Len(longer) : i \in 1..Len(queue) \/ i = Len(queue) + 1
  BY <1>2
<1>4. \A i \in 1..Len(longer) : longer[i].runID <= n + 1
  BY <1>1, <1>2, <1>3, <1>o, <1>p
<1>5. ASSUME NEW i \in 1..Len(longer), NEW j \in 1..Len(longer), i < j
      PROVE  longer[i].runID < longer[j].runID
  <2>1. i \in 1..Len(queue)
    BY <1>2, <1>5, <1>p
  <2>2. CASE j \in 1..Len(queue)
    BY <1>2, <1>5, <1>o, <2>1, <2>2
  <2>3. CASE j = Len(queue) + 1
    BY <1>1, <1>2, <1>3, <1>o, <2>1, <2>3
  <2> QED BY <1>p, <2>2, <2>3
<1>6. \E i \in 1..Len(longer) : longer[i] = b
  BY <1>2
<1>7. \A c : (\E i \in 1..Len(queue) : queue[i] = c) => \E i \in 1..Len(longer) : longer[i] = c
  BY <1>2
<1> QED BY <1>4, <1>5, <1>6, <1>7 DEF Ordered, longer, b

\* Taking the head block leaves the others in order, and none of them is lost.
LEMMA QueueTail ==
    ASSUME NEW queue \in Seq(Blocks), queue # <<>>, NEW n \in Nat, Ordered(queue, n)
    PROVE  /\ Ordered(Tail(queue), n)
           /\ \A i \in 1..Len(queue) : Head(queue).runID <= queue[i].runID
           /\ \A c : (\E i \in 1..Len(queue) : queue[i] = c) /\ c # Head(queue) =>
                     \E i \in 1..Len(Tail(queue)) : Tail(queue)[i] = c
<1> DEFINE rest == Tail(queue)
<1>1. /\ Len(queue) \in Nat \ {0} /\ Len(rest) = Len(queue) - 1
      /\ \A i \in 1..Len(rest) : rest[i] = queue[i + 1]
      /\ Head(queue) = queue[1]
  OBVIOUS
<1>2. \A i \in 1..Len(queue) : queue[i].runID \in Nat
  BY BlockIDs
<1> HIDE DEF rest
<1>o. /\ \A i \in 1..Len(queue) : queue[i].runID <= n
      /\ \A i, j \in 1..Len(queue) : i < j => queue[i].runID < queue[j].runID
  BY DEF Ordered
<1>p. \A i \in 1..Len(rest) : i + 1 \in 1..Len(queue)
  BY <1>1
<1>3. Ordered(rest, n)
  <2>1. \A i \in 1..Len(rest) : rest[i].runID <= n
    BY <1>1, <1>o, <1>p
  <2>2. ASSUME NEW i \in 1..Len(rest), NEW j \in 1..Len(rest), i < j
        PROVE  rest[i].runID < rest[j].runID
    <3>1. i + 1 < j + 1
      BY <2>2
    <3> QED BY Zenon, <1>1, <1>o, <1>p, <3>1
  <2> QED BY <2>1, <2>2 DEF Ordered
<1>4. \A i \in 1..Len(queue) : Head(queue).runID <= queue[i].runID
  BY <1>1, <1>2 DEF Ordered
<1>5. ASSUME NEW c, \E i \in 1..Len(queue) : queue[i] = c, c # Head(queue)
      PROVE  \E i \in 1..Len(rest) : rest[i] = c
  <2>1. PICK i \in 1..Len(queue) : queue[i] = c
    BY <1>5
  <2>2. i # 1
    BY <1>1, <1>5, <2>1
  <2>3. i - 1 \in 1..Len(rest) /\ rest[i - 1] = c
    BY <1>1, <2>1, <2>2
  <2> QED BY <2>3
<1> QED BY <1>3, <1>4, <1>5 DEF rest

\* A run that was accepted is queued behind every other; the runs that were
\* waiting before wait on.
LEMMA QueuedBehind ==
    ASSUME QueueInv, RunnerInv', NEW r \in Runners,
           lastID' = lastID + 1,
           engineQueue' = Append(engineQueue, [runner |-> r, runID |-> lastID + 1]),
           pendingRunID' = [pendingRunID EXCEPT ![r] = lastID + 1]
    PROVE  QueueInv'
<1>1. /\ engineQueue \in Seq(Blocks) /\ lastID \in Nat /\ lastID + 1 \in RunIDs
      /\ pendingRunID \in [Runners -> RunIDs \cup {Nil}]
  BY RunnerConstants DEF QueueInv, RunnerInv, TypeOK, RunIDs
<1>2. Ordered(engineQueue', lastID')
  BY <1>1, QueueAppend, Zenon DEF QueueInv
<1>3. ASSUME NEW q \in Runners, pendingRunID'[q] # Nil
      PROVE  \E i \in 1..Len(engineQueue') :
                engineQueue'[i] = [runner |-> q, runID |-> pendingRunID'[q]]
  <2>1. CASE q = r
    BY <1>1, <2>1, QueueAppend DEF QueueInv
  <2>2. CASE q # r
    <3>1. pendingRunID'[q] = pendingRunID[q]
      BY <1>1, <2>2
    <3>2. \E i \in 1..Len(engineQueue) :
             engineQueue[i] = [runner |-> q, runID |-> pendingRunID'[q]]
      BY <1>3, <3>1, Zenon DEF QueueInv, PendingIsQueued
    <3> QED BY <1>1, <3>2, QueueAppend DEF QueueInv
  <2> QED BY <2>1, <2>2
<1> QED BY <1>2, <1>3, Zenon DEF QueueInv, PendingIsQueued, RunnerInv, Ownership

\* Runs may stop waiting; the queue and the start counter are as they were, or
\* an ID went to a run that is over already.
LEMMA QueueKept ==
    ASSUME QueueInv, RunnerInv', UNCHANGED engineQueue, lastID' \in {lastID, lastID + 1},
           \A q \in Runners : pendingRunID'[q] \in {pendingRunID[q], Nil}
    PROVE  QueueInv'
<1>1. engineQueue \in Seq(Blocks) /\ lastID \in Nat
  BY RunnerConstants DEF QueueInv, RunnerInv, TypeOK
<1>2. \A i \in 1..Len(engineQueue) : engineQueue[i].runID \in Nat
  BY <1>1, BlockIDs, Zenon
<1>3. Ordered(engineQueue', lastID')
  BY <1>1, <1>2 DEF QueueInv, Ordered
<1> QED BY <1>3 DEF QueueInv, PendingIsQueued, RunnerInv, Ownership

\* The head block is taken by its own run, or is nobody's any more.
LEMMA QueueTaken ==
    ASSUME QueueInv, RunnerInv', engineQueue # <<>>, engineQueue' = Tail(engineQueue),
           UNCHANGED lastID,
           \A q \in Runners : pendingRunID'[q] \in {pendingRunID[q], Nil},
           \A q \in Runners : pendingRunID'[q] # Nil =>
              Head(engineQueue) # [runner |-> q, runID |-> pendingRunID[q]]
    PROVE  QueueInv'
<1>1. engineQueue \in Seq(Blocks) /\ lastID \in Nat
  BY RunnerConstants DEF QueueInv, RunnerInv, TypeOK
<1>2. Ordered(engineQueue', lastID')
  BY <1>1, QueueTail, Zenon DEF QueueInv
<1>3. ASSUME NEW q \in Runners, pendingRunID'[q] # Nil
      PROVE  \E i \in 1..Len(engineQueue') :
                engineQueue'[i] = [runner |-> q, runID |-> pendingRunID'[q]]
  <2>1. pendingRunID'[q] = pendingRunID[q]
    BY <1>3
  <2>2. \E i \in 1..Len(engineQueue) :
           engineQueue[i] = [runner |-> q, runID |-> pendingRunID'[q]]
    BY <1>3, <2>1 DEF QueueInv, PendingIsQueued
  <2>3. Head(engineQueue) # [runner |-> q, runID |-> pendingRunID'[q]]
    BY <1>3, <2>1
  <2>4. \A c : (\E i \in 1..Len(engineQueue) : engineQueue[i] = c) /\ c # Head(engineQueue) =>
               \E i \in 1..Len(engineQueue') : engineQueue'[i] = c
    BY <1>1, QueueTail, Zenon DEF QueueInv
  <2> QED BY <2>2, <2>3, <2>4, Zenon
<1> QED BY <1>2, <1>3, Zenon DEF QueueInv, PendingIsQueued, RunnerInv, Ownership

\* Ending a run, and perhaps starting the next one from its callback.
LEMMA QueueCleanState ==
    ASSUME QueueInv, RunnerInv', NEW r \in Runners, NEW s, NEW again \in BOOLEAN,
           CleanState(r, s, again), engineQueue' = Requeued(engineQueue, r, again)
    PROVE  QueueInv'
<1>1. CASE again
  BY <1>1, QueuedBehind, Zenon DEF CleanState, Requeued
<1>2. CASE ~again
  <2>1. UNCHANGED <<engineQueue, lastID>>
        /\ pendingRunID' = [pendingRunID EXCEPT ![r] = Nil]
    BY <1>2, Zenon DEF CleanState, Requeued
  <2>2. \A q \in Runners : pendingRunID'[q] \in {pendingRunID[q], Nil}
    BY <2>1 DEF QueueInv, RunnerInv, TypeOK
  <2> QED BY <2>1, <2>2, QueueKept
<1> QED BY <1>1, <1>2

\* The head of the queue when the engine takes it for r.
LEMMA HeadTaken ==
    ASSUME QueueInv, NEW r \in Runners, Dequeues(r, pendingRunID[r]),
           pendingRunID' = [pendingRunID EXCEPT ![r] = Nil]
    PROVE  /\ \A q \in Runners : pendingRunID'[q] \in {pendingRunID[q], Nil}
           /\ \A q \in Runners : pendingRunID'[q] # Nil =>
                 Head(engineQueue) # [runner |-> q, runID |-> pendingRunID[q]]
<1>1. \A q \in Runners : pendingRunID'[q] = IF q = r THEN Nil ELSE pendingRunID[q]
  BY DEF QueueInv, RunnerInv, TypeOK
<1>2. Head(engineQueue) = [runner |-> r, runID |-> pendingRunID[r]]
  BY DEF Dequeues
<1>3. \A q \in Runners : q # r =>
         [runner |-> r, runID |-> pendingRunID[r]] # [runner |-> q, runID |-> pendingRunID[q]]
  OBVIOUS
<1> QED BY <1>1, <1>2, <1>3

\* QueueInv is kept by every action.
LEMMA QueueStep == QueueInv /\ [Next]_vars => QueueInv'
<1> SUFFICES ASSUME QueueInv, [Next]_vars PROVE QueueInv'
  OBVIOUS
<1>0. RunnerInv' /\ TypeOK
  BY InvStep DEF QueueInv, RunnerInv
<1>1. ASSUME NEW r \in Runners, StartWith(r) \/ StartHeld(r) PROVE QueueInv'
  <2>1. PICK cfg \in ConfigType \cup {NoConfig}, cb \in BOOLEAN : AcceptStart(r, cfg, cb)
    BY <1>0, <1>1, RunnerConstants, Zenon DEF StartWith, StartHeld, TypeOK
  <2>2. CASE cfg.valid
    BY <1>0, <2>1, <2>2, QueuedBehind, Zenon DEF AcceptStart
  <2>3. CASE ~cfg.valid
    BY <1>0, <2>1, <2>3, QueueKept, Zenon DEF AcceptStart
  <2> QED BY <2>2, <2>3
<1>2. ASSUME NEW r \in Runners, StopQueued(r) PROVE QueueInv'
  BY <1>0, <1>2, QueueCleanState, Zenon DEF StopQueued
<1>3. CASE FinishRun
  <2>1. engRunner \in Runners
    BY <1>0, <1>3 DEF FinishRun, TypeOK
  <2> QED BY <1>0, <1>3, <2>1, QueueCleanState, Zenon DEF FinishRun
<1>4. ASSUME NEW r \in Runners, Deinit(r) PROVE QueueInv'
  <2>1. \A q \in Runners : pendingRunID'[q] \in {pendingRunID[q], Nil}
    BY <1>0, <1>4 DEF Deinit, TypeOK
  <2> QED BY <1>0, <1>4, <2>1, QueueKept, Zenon DEF Deinit
<1>5. ASSUME NEW r \in Runners, PrepareFails(r) PROVE QueueInv'
  <2>1. /\ Dequeues(r, pendingRunID[r]) /\ engineQueue # <<>>
        /\ pendingRunID' = [pendingRunID EXCEPT ![r] = Nil]
        /\ engineQueue' = Tail(engineQueue) /\ lastID' = lastID
    BY <1>5, Zenon DEF PrepareFails, CleanState, Dequeues
  <2> QED BY <1>0, <2>1, HeadTaken, QueueTaken, Zenon
<1>6. ASSUME NEW r \in Runners, BeginRun(r) PROVE QueueInv'
  <2>1. /\ Dequeues(r, pendingRunID[r]) /\ engineQueue # <<>>
        /\ pendingRunID' = [pendingRunID EXCEPT ![r] = Nil]
        /\ engineQueue' = Tail(engineQueue) /\ lastID' = lastID
    BY <1>6, Zenon DEF BeginRun, Dequeues
  <2> QED BY <1>0, <2>1, HeadTaken, QueueTaken, Zenon
<1>7. CASE SkipStaleBlock
  <2>1. /\ engineQueue # <<>> /\ engineQueue' = Tail(engineQueue)
        /\ UNCHANGED <<pendingRunID, lastID>>
        /\ \/ ~alive[Head(engineQueue).runner]
           \/ pendingRunID[Head(engineQueue).runner] # Head(engineQueue).runID
    BY <1>7, Zenon DEF SkipStaleBlock, runnerVars
  <2>2. ASSUME NEW q \in Runners, pendingRunID[q] # Nil
        PROVE  Head(engineQueue) # [runner |-> q, runID |-> pendingRunID[q]]
    BY <2>1, <2>2 DEF QueueInv, RunnerInv, Ownership
  <2> QED BY <1>0, <2>1, <2>2, QueueTaken
<1>8. CASE \/ \E r \in Runners : StopActive(r)
           \/ \E id \in RunIDs : DeliverCompletion(id)
           \/ NativeStep \/ ReadOutcome \/ RestartServer \/ LeaveLoop
           \/ UNCHANGED vars
  <2>1. UNCHANGED <<engineQueue, lastID, pendingRunID>>
    BY <1>8, Zenon DEF StopActive, DeliverCompletion, NativeStep, NativeEnter, NativeSetupFails,
                NativeStartTest, NativeEndTest, NativeMeasurementFails, NativeEnding,
                NativeExchange, NativeExchangeFails, NativeKeeps, ReadOutcome, RestartServer,
                LeaveLoop, runnerVars, queueVars, vars
  <2> QED BY <1>0, <2>1, QueueKept
<1> QED BY <1>1, <1>2, <1>3, <1>4, <1>5, <1>6, <1>7, <1>8 DEF Next, EngineStep, CallerStep

\* The queue is in order from the start.
LEMMA QueueInit == Init => QueueInv
<1> SUFFICES ASSUME Init PROVE QueueInv
  OBVIOUS
<1>1. engineQueue = <<>> /\ \A r \in Runners : pendingRunID[r] = Nil
  BY DEF Init
<1> QED BY <1>1, InvInit DEF QueueInv, PendingIsQueued, Ordered

\* A waiting run's block is in the engine queue, for any number of runners and
\* starts: no interleaving of stop, restart and deinit loses a run
\* (executeQueuedRun's guard, startRun).
THEOREM WaitingRunsQueued == Spec => []PendingIsQueued
<1>1. QueueInv => PendingIsQueued
  BY DEF QueueInv
<1> QED BY QueueInit, QueueStep, <1>1, PTL DEF Spec

\* When the engine goes from idle to a run, it takes the oldest one waiting.
LEMMA OldestFirst ==
    ASSUME QueueInv, [Next]_vars, phase = "idle", phase' = "enter"
    PROVE  \A r \in Runners : pendingRunID[r] # Nil => engRun' <= pendingRunID[r]
<1>1. PICK r \in Runners : BeginRun(r)
  BY Zenon DEF Next, EngineStep, CallerStep, SkipStaleBlock, PrepareFails, NativeStep, NativeEnter,
         NativeSetupFails, NativeStartTest, NativeEndTest, NativeMeasurementFails,
         NativeEnding, NativeExchange, NativeExchangeFails, ReadOutcome, RestartServer,
         LeaveLoop, FinishRun, StartWith, StartHeld, AcceptStart, StopQueued, StopActive,
         Deinit, DeliverCompletion, engineVars, vars
<1>2. /\ Head(engineQueue) = [runner |-> r, runID |-> pendingRunID[r]]
      /\ engineQueue # <<>> /\ engRun' = pendingRunID[r]
  BY <1>1 DEF BeginRun, Dequeues
<1>3. engineQueue \in Seq(Blocks) /\ lastID \in Nat
  BY RunnerConstants DEF QueueInv, RunnerInv, TypeOK
<1>4. \A i \in 1..Len(engineQueue) : engRun' <= engineQueue[i].runID
  BY <1>2, <1>3, QueueTail, SMTT(30) DEF QueueInv
<1>5. ASSUME NEW q \in Runners, pendingRunID[q] # Nil PROVE engRun' <= pendingRunID[q]
  <2>1. PICK i \in 1..Len(engineQueue) :
           engineQueue[i] = [runner |-> q, runID |-> pendingRunID[q]]
    BY <1>5 DEF QueueInv, PendingIsQueued
  <2>2. engineQueue[i].runID = pendingRunID[q]
    BY <2>1
  <2>3. engRun' <= engineQueue[i].runID
    BY <1>4, <2>1
  <2> QED BY <2>2, <2>3
<1> QED BY <1>5

\* "All runner instances share one FIFO engine queue", for any number of
\* runners and starts: a run never overtakes an older one, and the block of a
\* cancelled run does not lend its place to the runner's next one.
THEOREM EngineIsFair == Spec => RunsInOrder
<1>1. QueueInv /\ [Next]_vars =>
        [phase = "idle" /\ phase' = "enter" =>
           \A r \in Runners : pendingRunID[r] # Nil => engRun' <= pendingRunID[r]]_vars
  BY OldestFirst, Zenon
<1> QED BY QueueInit, QueueStep, <1>1, PTL DEF Spec, RunsInOrder

-----------------------------------------------------------------------------
(* IperfRunner implements RunLifecycle.                                     *)
(*                                                                         *)
(* The stage of a run is a function of four facts about it: whether it was    *)
(* accepted, whether the engine runs it, whether it is some runner's active   *)
(* run, and whether its completion was delivered.  Every step changes these   *)
(* for at most one run, or ends one run and accepts another.                  *)

stages == [id \in RunIDs |-> StageOf(id)]

\* What the stage of a run says.
StageMeans ==
    \A id \in RunIDs :
        /\ StageOf(id) = "unused" <=> ~Accepted(id)
        /\ StageOf(id) = "executing" <=> engRun = id
        /\ StageOf(id) = "accepted" <=> engRun # id /\ Active(id)
        /\ StageOf(id) = "released" <=> Accepted(id) /\ ~Active(id) /\ ~(delivered[id] > 0)
        /\ StageOf(id) = "delivered" <=> Accepted(id) /\ ~Active(id) /\ delivered[id] > 0
        /\ StageOf(id) \in {"unused", "executing", "accepted", "released", "delivered"}

\* Whether the engine runs it and whether it was accepted follow from the invariant.
LEMMA StageNow == RunnerInv => StageMeans
<1> SUFFICES ASSUME RunnerInv, NEW id \in RunIDs
             PROVE  /\ StageOf(id) = "unused" <=> ~Accepted(id)
                    /\ StageOf(id) = "executing" <=> engRun = id
                    /\ StageOf(id) = "accepted" <=> engRun # id /\ Active(id)
                    /\ StageOf(id) = "released" <=> Accepted(id) /\ ~Active(id) /\ ~(delivered[id] > 0)
                    /\ StageOf(id) = "delivered" <=> Accepted(id) /\ ~Active(id) /\ delivered[id] > 0
                    /\ StageOf(id) \in {"unused", "executing", "accepted", "released", "delivered"}
  BY DEF StageMeans
<1>1. id # Nil
  BY DEF RunIDs, Nil
<1>2. Active(id) => Accepted(id)
  BY DEF RunnerInv, Ownership, Active, Accepted
<1>3. engRun = id => Active(id)
  <2>1. engRun = id => phase # "idle"
    BY <1>1 DEF RunnerInv, Ownership
  <2> QED BY <2>1 DEF RunnerInv, EngineExclusive, Active
<1>4. CASE ~Accepted(id)
  BY <1>2, <1>3, <1>4 DEF StageOf
<1>5. CASE engRun = id
  BY <1>2, <1>3, <1>5 DEF StageOf
<1>6. CASE engRun # id /\ Active(id)
  BY <1>2, <1>6 DEF StageOf
<1>7. CASE Accepted(id) /\ engRun # id /\ ~Active(id)
  BY <1>7 DEF StageOf
<1> QED BY <1>4, <1>5, <1>6, <1>7

\* The same after a step.
LEMMA StageThen == RunnerInv' => StageMeans'
  BY StageNow, PTL

\* A step changes the stages by what it changes of the four facts.
LEMMA StageKept ==
    ASSUME RunnerInv, RunnerInv', NEW id \in RunIDs,
           Accepted(id)' <=> Accepted(id), engRun' = id <=> engRun = id, Active(id)' <=> Active(id),
           delivered'[id] = delivered[id]
    PROVE  stages'[id] = stages[id]
<1>1. StageMeans /\ StageMeans'
  BY StageNow, StageThen, Zenon
<1> QED BY <1>1 DEF StageMeans, stages

\* Run id goes to another stage, and no other run does.
Moves(id, from, to) == stages[id] \in from /\ stages' = [stages EXCEPT ![id] = to]

\* One run is released and another accepted.
Replaced(id, next) ==
    /\ stages[id] \in {"accepted", "executing"} /\ stages[next] = "unused"
    /\ stages' = [stages EXCEPT ![id] = "released", ![next] = "accepted"]

NoneExecutes == \A id \in RunIDs : stages[id] # "executing"

\* Which moves are steps of the promise.
LEMMA PromisedSteps ==
    ASSUME NEW id \in RunIDs, NEW next \in RunIDs
    PROVE  /\ Moves(id, {"unused"}, "accepted") => Promise!LifecycleNext
           /\ Moves(id, {"unused"}, "released") => Promise!LifecycleNext
           /\ NoneExecutes /\ Moves(id, {"accepted"}, "executing") => Promise!LifecycleNext
           /\ Moves(id, {"accepted", "executing"}, "released") => Promise!LifecycleNext
           /\ Replaced(id, next) => Promise!LifecycleNext
           /\ Moves(id, {"released"}, "delivered") => Promise!LifecycleNext
<1> USE DEF RunIDs, stages, Moves, Promise!Runs, Promise!LifecycleNext
<1>1. Moves(id, {"unused"}, "accepted") => Promise!LifecycleNext
  BY Zenon DEF Promise!Accept
<1>2. Moves(id, {"unused"}, "released") => Promise!LifecycleNext
  BY Zenon DEF Promise!Reject
<1>3. NoneExecutes /\ Moves(id, {"accepted"}, "executing") => Promise!LifecycleNext
  BY Zenon DEF NoneExecutes, Promise!Execute, Promise!Idle
<1>4. Moves(id, {"accepted", "executing"}, "released") => Promise!LifecycleNext
  BY Zenon DEF Promise!Release
<1>5. Replaced(id, next) => Promise!LifecycleNext
  BY DEF Replaced, Promise!ReleaseAndAccept
<1>6. Moves(id, {"released"}, "delivered") => Promise!LifecycleNext
  BY Zenon DEF Promise!Deliver
<1> QED BY <1>1, <1>2, <1>3, <1>4, <1>5, <1>6

\* Which runs are active, and accepted, after cleanState().
LEMMA CleanStateMoves ==
    ASSUME RunnerInv, NEW r \in Runners, NEW s \in States, NEW again \in BOOLEAN,
           activeRun[r] # Nil, CleanState(r, s, again), NEW id \in RunIDs
    PROVE  /\ Active(id)' <=> ((Active(id) /\ id # activeRun[r]) \/ (again /\ id = lastID + 1))
           /\ Accepted(id)' <=> (Accepted(id) \/ (again /\ id = lastID + 1))
           /\ activeRun[r] \in RunIDs /\ Active(activeRun[r]) /\ activeRun[r] # lastID + 1
           /\ again => lastID + 1 \in RunIDs /\ ~Accepted(lastID + 1)
           /\ delivered' = delivered
<1> DEFINE old == activeRun[r]
           new == lastID + 1
<1> USE RunnerConstants
<1>1. /\ old \in RunIDs /\ old <= lastID /\ lastID \in Nat
      /\ again => new \in RunIDs
      /\ new # old
  BY DEF RunnerInv, TypeOK, Ownership, CleanState, RunIDs, Nil
<1>2. /\ activeRun' = [activeRun EXCEPT ![r] = IF again THEN new ELSE Nil]
      /\ lastID' = IF again THEN new ELSE lastID
      /\ delivered' = delivered
  BY Zenon DEF CleanState
<1>3. \A q \in Runners : activeRun'[q] = IF q = r THEN (IF again THEN new ELSE Nil) ELSE activeRun[q]
  BY <1>2, Zenon DEF RunnerInv, TypeOK
<1>4. \A q \in Runners : activeRun[q] = old => q = r
  BY <1>1 DEF RunnerInv, Ownership, Nil
<1>5. id # Nil
  BY DEF RunIDs, Nil
<1>6. Active(id)' <=> ((Active(id) /\ id # old) \/ (again /\ id = new))
  BY <1>1, <1>3, <1>4, <1>5 DEF Active
<1>7. Accepted(id)' <=> (Accepted(id) \/ (again /\ id = new))
  BY <1>1, <1>2 DEF Accepted, RunIDs
<1>8. Active(old) /\ (again => ~Accepted(new))
  BY <1>1 DEF Active, Accepted
<1> QED BY <1>1, <1>2, <1>6, <1>7, <1>8, Zenon

\* The end of a run by cleanState(), with or without a new one after it, is a
\* Release or a ReleaseAndAccept.
LEMMA CleanStateStage ==
    ASSUME RunnerInv, RunnerInv', NEW r \in Runners, NEW s \in States, NEW again \in BOOLEAN,
           activeRun[r] # Nil, CleanState(r, s, again),
           \/ engRun' = engRun /\ engRun # activeRun[r]
           \/ engRun' = Nil /\ engRun = activeRun[r]
    PROVE  Promise!LifecycleNext
<1>a. PICK old \in RunIDs : old = activeRun[r]
  BY Zenon DEF RunnerInv, TypeOK
<1>b. PICK new \in Nat : new = lastID + 1
  BY RunnerConstants DEF RunnerInv, TypeOK
<1>0. StageMeans /\ StageMeans'
  BY StageNow, StageThen
<1>1. /\ old \in RunIDs /\ Active(old) /\ old # new /\ delivered' = delivered
      /\ again => new \in RunIDs /\ ~Accepted(new)
      /\ \A id \in RunIDs :
           /\ Active(id)' <=> ((Active(id) /\ id # old) \/ (again /\ id = new))
           /\ Accepted(id)' <=> (Accepted(id) \/ (again /\ id = new))
           /\ id # Nil
  <2>1. \A id \in RunIDs : id # Nil
    BY DEF RunIDs, Nil
  <2> QED BY <1>a, <1>b, <2>1, CleanStateMoves
<1>2. ~(delivered[old] > 0)
  BY <1>1 DEF RunnerInv, TypeOK, CompletesOnce
<1>3. stages[old] \in {"accepted", "executing"}
  BY <1>0, <1>1, Zenon DEF StageMeans, stages
<1>4. stages'[old] = "released"
  <2>1. Accepted(old)
    BY <1>0, <1>1, <1>3 DEF StageMeans, stages
  <2>2. Accepted(old)' /\ ~Active(old)' /\ ~(delivered'[old] > 0)
    BY <1>1, <1>2, <2>1, Zenon
  <2> QED BY <1>0, <1>1, <2>2, Zenon DEF StageMeans, stages
<1>5. ASSUME NEW id \in RunIDs, id # old, ~(again /\ id = new) PROVE stages'[id] = stages[id]
  <2>1. engRun' = id <=> engRun = id
    BY <1>a, <1>1, <1>5
  <2> QED BY <1>1, <1>5, <2>1, StageKept
<1>6. CASE again
  <2>1. stages[new] = "unused" /\ engRun # new
    BY <1>0, <1>1, <1>6 DEF StageMeans, stages
  <2>2. Active(new)' /\ engRun' # new
    BY <1>a, <1>1, <1>6, <2>1, Zenon
  <2>3. stages'[new] = "accepted"
    BY <1>0, <1>1, <1>6, <2>2 DEF StageMeans, stages
  <2>4. stages' = [stages EXCEPT ![old] = "released", ![new] = "accepted"]
    BY <1>1, <1>4, <1>5, <1>6, <2>3, Zenon DEF stages
  <2> QED BY <1>1, <1>3, <1>6, <2>1, <2>4, PromisedSteps, Zenon DEF Replaced
<1>7. CASE ~again
  <2>1. stages' = [stages EXCEPT ![old] = "released"]
    BY <1>1, <1>4, <1>5, <1>7, Zenon DEF stages
  <2> QED BY <1>1, <1>3, <2>1, PromisedSteps, Zenon DEF Moves
<1> QED BY <1>6, <1>7, Zenon

\* A step that moves no run between runners, engine and callbacks.
LEMMA StagesKept ==
    ASSUME RunnerInv, RunnerInv', UNCHANGED <<activeRun, lastID, delivered, engRun>>
    PROVE  stages' = stages
<1>1. \A id \in RunIDs : stages'[id] = stages[id]
  BY StageKept DEF Active, Accepted
<1> QED BY <1>1 DEF stages

\* start(): an Accept, or a Reject when the configuration is refused.
LEMMA StartStage ==
    ASSUME RunnerInv, RunnerInv', NEW r \in Runners, NEW cfg \in ConfigType \cup {NoConfig},
           NEW cb \in BOOLEAN, AcceptStart(r, cfg, cb)
    PROVE  Promise!LifecycleNext
<1> USE RunnerConstants
<1>a. PICK new \in Nat : new = lastID + 1
  BY DEF RunnerInv, TypeOK
<1>0. StageMeans /\ StageMeans'
  BY StageNow, StageThen, Zenon
<1>1. /\ new \in RunIDs /\ lastID' = new /\ lastID \in Nat /\ activeRun[r] = Nil
      /\ delivered' = delivered /\ engRun' = engRun
      /\ activeRun \in [Runners -> RunIDs \cup {Nil}]
  BY <1>a DEF AcceptStart, Startable, engineVars, RunnerInv, TypeOK, RunIDs
<1>2. /\ cfg.valid => activeRun' = [activeRun EXCEPT ![r] = new]
      /\ ~cfg.valid => activeRun' = activeRun
  BY <1>a, Zenon DEF AcceptStart
<1>3. ~Accepted(new) /\ Accepted(new)'
  BY <1>a, <1>1 DEF Accepted
<1>4. stages[new] = "unused" /\ engRun # new /\ ~Active(new) /\ ~(delivered[new] > 0)
  <2>1. stages[new] = "unused" /\ engRun # new /\ ~Active(new)
    BY <1>0, <1>1, <1>3, Zenon DEF StageMeans, stages
  <2>2. delivered[new] \in Nat /\ delivered[new] <= enqueued[new] /\ enqueued[new] = 0
    BY <1>1, <1>3, Zenon DEF RunnerInv, TypeOK, CompletesOnce
  <2> QED BY <2>1, <2>2
<1>5. ASSUME NEW id \in RunIDs, id # new PROVE stages'[id] = stages[id]
  <2>1. Accepted(id)' <=> Accepted(id)
    BY <1>a, <1>1, <1>5 DEF Accepted, RunIDs
  <2>2. Active(id)' <=> Active(id)
    <3>1. id # Nil
      BY DEF RunIDs, Nil
    <3> QED BY <1>1, <1>2, <1>5, <3>1 DEF Active
  <2> QED BY <1>1, <2>1, <2>2, StageKept, Zenon
<1>6. CASE cfg.valid
  <2>1. Active(new)'
    BY <1>1, <1>2, <1>6, Zenon DEF Active
  <2>2. stages'[new] = "accepted"
    BY <1>0, <1>1, <1>4, <2>1 DEF StageMeans, stages
  <2>3. stages' = [stages EXCEPT ![new] = "accepted"]
    BY <1>1, <1>5, <2>2, Zenon DEF stages
  <2> QED BY <1>1, <1>4, <2>3, PromisedSteps, Zenon DEF Moves
<1>7. CASE ~cfg.valid
  <2>1. ~Active(new)'
    BY <1>2, <1>4, <1>7, Zenon DEF Active
  <2>2. stages'[new] = "released"
    BY <1>0, <1>1, <1>3, <1>4, <2>1 DEF StageMeans, stages
  <2>3. stages' = [stages EXCEPT ![new] = "released"]
    BY <1>1, <1>5, <2>2, Zenon DEF stages
  <2> QED BY <1>1, <1>4, <2>3, PromisedSteps, Zenon DEF Moves
<1> QED BY <1>6, <1>7, Zenon

\* deinit: a Release, if the runner had a run.
LEMMA DeinitStage ==
    ASSUME RunnerInv, RunnerInv', NEW r \in Runners, Deinit(r)
    PROVE  Promise!LifecycleNext \/ stages' = stages
<1>0. StageMeans /\ StageMeans'
  BY StageNow, StageThen, Zenon
<1>1. /\ activeRun' = [activeRun EXCEPT ![r] = Nil] /\ activeRun \in [Runners -> RunIDs \cup {Nil}]
      /\ lastID' = lastID /\ delivered' = delivered /\ engRun' = engRun /\ engRunner # r
  BY DEF Deinit, engineVars, RunnerInv, TypeOK
<1>2. CASE activeRun[r] = Nil
  <2>1. activeRun' = activeRun
    BY <1>1, <1>2
  <2> QED BY <1>1, <2>1, StagesKept
<1>3. CASE activeRun[r] # Nil
  <2>1. PICK old \in RunIDs : old = activeRun[r]
    BY <1>1, <1>3, Zenon
  <2>2. \A q \in Runners : activeRun[q] = old => q = r
    BY <1>3, <2>1 DEF RunnerInv, Ownership
  <2>3. \A id \in RunIDs : /\ Active(id)' <=> Active(id) /\ id # old
                           /\ Accepted(id)' <=> Accepted(id)
    <3>1. \A id \in RunIDs : id # Nil
      BY DEF RunIDs, Nil
    <3> QED BY <1>1, <2>1, <2>2, <3>1 DEF Active, Accepted
  <2>4. Active(old) /\ ~(delivered[old] > 0)
    <3>1. Active(old)
      BY <2>1, Zenon DEF Active
    <3> QED BY <3>1 DEF RunnerInv, TypeOK, CompletesOnce
  <2>5. stages[old] \in {"accepted", "executing"} /\ Accepted(old)
    BY <1>0, <2>4, Zenon DEF StageMeans, stages
  <2>6. stages'[old] = "released"
    BY <1>0, <1>1, <2>3, <2>4, <2>5, Zenon DEF StageMeans, stages
  <2>7. \A id \in RunIDs : id # old => stages'[id] = stages[id]
    BY <1>1, <2>3, StageKept, Zenon
  <2>8. stages' = [stages EXCEPT ![old] = "released"]
    BY <2>6, <2>7, Zenon DEF stages
  <2> QED BY <2>5, <2>8, PromisedSteps, Zenon DEF Moves
<1> QED BY <1>2, <1>3

\* executeQueuedRun: an Execute, since an idle engine runs nothing.
LEMMA BeginStage ==
    ASSUME RunnerInv, RunnerInv', NEW r \in Runners, BeginRun(r)
    PROVE  Promise!LifecycleNext
<1>0. StageMeans /\ StageMeans'
  BY StageNow, StageThen, SMTT(30)
<1>1. PICK id \in RunIDs : id = pendingRunID[r]
  BY SMTT(30) DEF BeginRun, Dequeues, RunnerInv, TypeOK, Blocks
<1>2. /\ UNCHANGED <<activeRun, lastID, delivered>> /\ engRun' = id /\ engRun = Nil
  BY <1>1, Zenon DEF BeginRun, Dequeues, RunnerInv, Ownership
<1>3. \A other \in RunIDs : other # Nil /\ engRun # other
  BY <1>2 DEF RunIDs, Nil
<1>4. Active(id)
  BY <1>1, <1>3, Zenon DEF RunnerInv, Ownership, Active
<1>5. stages[id] = "accepted" /\ NoneExecutes
  BY <1>0, <1>3, <1>4, Zenon DEF StageMeans, stages, NoneExecutes
<1>6. stages'[id] = "executing"
  BY <1>0, <1>2, Zenon DEF StageMeans, stages
<1>7. ASSUME NEW other \in RunIDs, other # id PROVE stages'[other] = stages[other]
  <2>1. /\ Accepted(other)' <=> Accepted(other)
        /\ Active(other)' <=> Active(other)
        /\ engRun' = other <=> engRun = other
    BY <1>2, <1>3, <1>7 DEF Accepted, Active
  <2> QED BY <1>2, <2>1, StageKept, Zenon
<1>8. stages' = [stages EXCEPT ![id] = "executing"]
  BY <1>6, <1>7, Zenon DEF stages
<1> QED BY <1>5, <1>8, PromisedSteps, Zenon DEF Moves

\* The callback: a Deliver, since it was queued once and for a run that has ended.
LEMMA DeliverStage ==
    ASSUME RunnerInv, RunnerInv', NEW id \in RunIDs, DeliverCompletion(id)
    PROVE  Promise!LifecycleNext
<1>0. StageMeans /\ StageMeans'
  BY StageNow, StageThen, Zenon
<1>1. /\ delivered' = [delivered EXCEPT ![id] = delivered[id] + 1] /\ delivered[id] < enqueued[id]
      /\ delivered \in [RunIDs -> Nat] /\ UNCHANGED <<activeRun, lastID, engRun>>
  BY DEF DeliverCompletion, runnerVars, engineVars, RunnerInv, TypeOK
<1>2. Accepted(id) /\ ~Active(id) /\ ~(delivered[id] > 0) /\ delivered'[id] > 0
  <2>1. enqueued[id] = IF Accepted(id) /\ id \in withCallback /\ ~Active(id) THEN 1 ELSE 0
    BY Zenon DEF RunnerInv, CompletesOnce
  <2>2. delivered[id] \in Nat /\ delivered'[id] = delivered[id] + 1
    BY <1>1
  <2> QED BY <1>1, <2>1, <2>2, SMTT(30)
<1>3. Accepted(id)' /\ ~Active(id)'
  BY <1>1, <1>2, Zenon DEF Accepted, Active
<1>4. stages[id] = "released" /\ stages'[id] = "delivered"
  BY <1>0, <1>2, <1>3, Zenon DEF StageMeans, stages
<1>5. ASSUME NEW other \in RunIDs, other # id PROVE stages'[other] = stages[other]
  <2>1. /\ Accepted(other)' <=> Accepted(other)
        /\ Active(other)' <=> Active(other)
        /\ delivered'[other] = delivered[other]
    BY <1>1, <1>5 DEF Accepted, Active
  <2> QED BY <1>1, <2>1, StageKept, Zenon
<1>6. stages' = [stages EXCEPT ![id] = "delivered"]
  BY <1>4, <1>5, Zenon DEF stages
<1> QED BY <1>4, <1>6, PromisedSteps, Zenon DEF Moves

-----------------------------------------------------------------------------
\* Every step of the runners is a step of the promise, or leaves the stages alone.
LEMMA StepsPromised ==
    ASSUME RunnerInv, RunnerInv', [Next]_vars
    PROVE  Promise!LifecycleNext \/ stages' = stages
<1> DEFINE Goal == Promise!LifecycleNext \/ stages' = stages
<1>0. TypeOK
  BY DEF RunnerInv
<1>1. ASSUME NEW r \in Runners, StartWith(r) \/ StartHeld(r) PROVE Goal
  <2>1. PICK cfg \in ConfigType \cup {NoConfig}, cb \in BOOLEAN : AcceptStart(r, cfg, cb)
    BY <1>0, <1>1, RunnerConstants, Zenon DEF StartWith, StartHeld, TypeOK
  <2> QED BY <2>1, StartStage
<1>2. ASSUME NEW r \in Runners, StopQueued(r) PROVE Goal
  <2>1. PICK again \in BOOLEAN : CleanState(r, "stopping", again)
    BY <1>2, Zenon DEF StopQueued
  <2>2. /\ activeRun[r] # Nil /\ engRun' = engRun /\ engRun # activeRun[r] /\ "stopping" \in States
    <3>1. activeRun[r] # Nil /\ currentTest[r] = Nil /\ engRun' = engRun
      BY <1>2, Zenon DEF StopQueued, RunnerInv, Ownership, engineVars
    <3>2. engRunner # r
      BY <1>2, <3>1, RunnerConstants, Zenon DEF StopQueued, RunnerInv, Ownership, EngineExclusive, Nil
    <3> QED BY <3>1, <3>2, Zenon DEF RunnerInv, Ownership, EngineExclusive, States
  <2> QED BY <2>1, <2>2, CleanStateStage, Zenon
<1>3. ASSUME NEW r \in Runners, PrepareFails(r) PROVE Goal
  <2>1. pendingRunID[r] # Nil
    BY <1>0, <1>3 DEF PrepareFails, Dequeues, TypeOK, Blocks, RunIDs, Nil
  <2>2. /\ activeRun[r] # Nil /\ engRun' = engRun /\ engRun = Nil /\ "error" \in States
        /\ CleanState(r, "error", FALSE)
    BY <1>3, <2>1, Zenon DEF PrepareFails, Dequeues, RunnerInv, Ownership, engineVars, States
  <2> QED BY <2>2, CleanStateStage, Zenon
<1>4. CASE FinishRun
  <2>1. /\ engRunner \in Runners /\ activeRun[engRunner] # Nil /\ engRun = activeRun[engRunner]
        /\ engRun' = Nil
    BY <1>0, <1>4 DEF FinishRun, EngineIdle, RunnerInv, EngineExclusive
  <2>2. PICK again \in BOOLEAN, s \in States : CleanState(engRunner, s, again)
    BY <1>0, <1>4, <2>1, Zenon DEF FinishRun, TypeOK, States
  <2>3. PICK r \in Runners : r = engRunner
    BY <2>1
  <2> QED BY <2>1, <2>2, <2>3, CleanStateStage, Zenon
<1>5. CASE \/ SkipStaleBlock \/ NativeStep \/ ReadOutcome \/ RestartServer \/ LeaveLoop
           \/ \E r \in Runners : StopActive(r)
           \/ UNCHANGED vars
  <2>1. UNCHANGED <<activeRun, lastID, delivered, engRun>>
    BY <1>5, Zenon DEF SkipStaleBlock, NativeStep, NativeEnter, NativeSetupFails, NativeStartTest,
                NativeEndTest, NativeMeasurementFails, NativeEnding, NativeExchange,
                NativeExchangeFails, NativeKeeps, ReadOutcome, RestartServer, LeaveLoop,
                StopActive, runnerVars, queueVars, engineVars, vars
  <2> QED BY <2>1, StagesKept
<1> QED
  BY <1>1, <1>2, <1>3, <1>4, <1>5, DeinitStage, BeginStage, DeliverStage
  DEF Next, EngineStep, CallerStep

\* Nothing has been accepted when the program starts.
LEMMA InitPromised == Init => Promise!LifecycleInit
<1> SUFFICES ASSUME Init PROVE Promise!LifecycleInit
  OBVIOUS
<1>1. \A id \in RunIDs : ~Accepted(id)
  BY DEF Init, Accepted, RunIDs
<1>2. \A id \in RunIDs : StageOf(id) = "unused"
  BY <1>1, InvInit, StageNow DEF StageMeans
<1> QED BY <1>2, Zenon DEF Promise!LifecycleInit, Promise!Runs, RunIDs

\* The runner implements what it promises its callers, for any number of runners,
\* configurations and starts: every accepted start goes through its stages once and
\* in order, and one run at a time has the engine (IperfRunner.start, stop, deinit).
THEOREM RunnerKeepsPromise == Spec => ImplementsLifecycle
<1>1. RunnerInv /\ RunnerInv' /\ [Next]_vars =>
        [Promise!LifecycleNext]_([id \in RunIDs |-> StageOf(id)])
  BY StepsPromised DEF stages
<1> QED BY InvInit, InvStep, InitPromised, <1>1, PTL DEF Spec, ImplementsLifecycle, Promise!LifecycleSpec

-----------------------------------------------------------------------------
(* How often a run reports a terminal state to its caller (TerminalOnce).     *)
(*                                                                         *)
(* A run that waits has reported nothing, and that a run which waits after a  *)
(* step waited before it is what RunLifecycle promises, so the refinement is  *)
(* used here.  For the run that has the engine the count is tied to the       *)
(* runner's state, to the stop request and to the engine's done flag.         *)

\* What TerminalOnce says of a run that has ended.
EndedWell(h) ==
    /\ h.executed # "no" =>
          \/ h.terminals = 1
          \/ h.terminals = 2 /\ h.stopped /\ h.executed # "bounded"
    /\ h.executed = "bounded" /\ h.failed /\ ~h.stopped => h.error

Unreported(h) == h.executed = "no" /\ h.terminals = 0

Waits(id) == stages[id] \in {"unused", "accepted"}

BeforeReturn == {"enter", "setup", "measuring", "ending", "exchange"}

\* The run that has the engine: h is its history, s its runner's state.
\* .finished comes before the teardown only from a failed exchange, and then done
\* is up, so that wasStopped keeps the failure from being reported as well.
Executing(h, s) ==
    /\ h.executed = "no"
    /\ stopRequested => h.stopped
    /\ \/ s = "running" /\ h.terminals = 0
       \/ s = "stopping" /\ h.stopped /\ h.terminals = 0
       \/ s = "stopping" /\ h.stopped /\ h.terminals = 1 /\ ~engConfig.bounded
       \/ s = "finished" /\ h.terminals = 1 /\ ~engConfig.bounded /\ done
    /\ phase \in BeforeReturn => h.terminals = 0
    /\ phase \in {"ending", "exchange"} => done
    /\ phase \in {"decide", "final"} =>
         /\ engConfig.bounded /\ wasStopped => h.stopped
         /\ s = "finished" => wasStopped

EngineReports ==
    /\ phase = "idle" => ~stopRequested
    /\ phase # "idle" => Executing(history[engRun], state[engRunner])

Reports ==
    /\ \A id \in RunIDs : EndedWell(history[id])
    /\ \A id \in RunIDs : Waits(id) => Unreported(history[id])
    /\ EngineReports

-----------------------------------------------------------------------------
\* A run that waits after a step waited before it: no step of the promise leads
\* back to "unused" or "accepted".
LEMMA WaitedBefore ==
    ASSUME RunnerInv, RunnerInv', [Next]_vars, NEW id \in RunIDs, Waits(id)'
    PROVE  Waits(id)
<1>1. CASE stages' = stages
  BY <1>1 DEF Waits
<1>2. CASE Promise!LifecycleNext
  BY <1>2, Zenon DEF Waits, stages, RunIDs, Promise!LifecycleNext, Promise!Runs, Promise!Accept, Promise!Reject,
              Promise!Execute, Promise!Release, Promise!ReleaseAndAccept, Promise!Deliver
<1> QED BY <1>1, <1>2, StepsPromised

\* A step outside the run that has the engine.
LEMMA EngineReportsKept ==
    ASSUME RunnerInv, EngineReports, UNCHANGED engineVars,
           phase # "idle" => /\ history'[engRun] = history[engRun]
                             /\ state'[engRunner] = state[engRunner]
    PROVE  EngineReports'
  BY Zenon DEF EngineReports, Executing, engineVars

\* A step that changes the history of one run that does not wait afterwards.
LEMMA ReportsStep ==
    ASSUME RunnerInv, RunnerInv', [Next]_vars, Reports, EngineReports', NEW d \in RunIDs,
           \A id \in RunIDs : id # d => history'[id] = history[id],
           history'[d] # history[d] => ~Waits(d)',
           EndedWell(history'[d])
    PROVE  Reports'
<1>1. ASSUME NEW id \in RunIDs PROVE EndedWell(history'[id])
  BY <1>1, Zenon DEF Reports
<1>2. ASSUME NEW id \in RunIDs, Waits(id)' PROVE Unreported(history'[id])
  <2>1. Waits(id)
    BY <1>2, WaitedBefore, Zenon
  <2>2. history'[id] = history[id]
    BY <1>2
  <2> QED BY <2>1, <2>2, Zenon DEF Reports
<1> QED BY <1>1, <1>2, Zenon DEF Reports

\* A step that changes no history.
LEMMA ReportsKept ==
    ASSUME RunnerInv, RunnerInv', [Next]_vars, Reports, EngineReports', history' = history
    PROVE  Reports'
<1>1. ASSUME NEW id \in RunIDs PROVE EndedWell(history'[id])
  BY DEF Reports
<1>2. ASSUME NEW id \in RunIDs, Waits(id)' PROVE Unreported(history'[id])
  BY <1>2, WaitedBefore, Zenon DEF Reports
<1> QED BY <1>1, <1>2 DEF Reports

-----------------------------------------------------------------------------
\* The history of a run is a record.
LEMMA HistoryRecords ==
    ASSUME TypeOK, NEW id \in RunIDs
    PROVE  /\ history \in [RunIDs -> HistoryType] /\ history[id] \in HistoryType
           /\ history[id].terminals \in Nat
  BY Zenon DEF TypeOK, HistoryType

\* The runner the engine works for, when it does.
LEMMA EngineOwner ==
    ASSUME RunnerInv, phase # "idle"
    PROVE  /\ engRunner \in Runners /\ engRun \in RunIDs /\ Active(engRun) /\ Accepted(engRun)
           /\ activeRun[engRunner] = engRun /\ activeRun[engRunner] # Nil
           /\ currentTest[engRunner] = engRun
           /\ pendingRunID[engRunner] = Nil
  BY DEF RunnerInv, EngineExclusive, Ownership, TypeOK, Active, Accepted, Nil

\* start(): the new run is not the engine's, and a refused one has reported its
\* error.
LEMMA StartReports ==
    ASSUME RunnerInv, RunnerInv', [Next]_vars, Reports, NEW r \in Runners,
           NEW cfg \in ConfigType \cup {NoConfig}, NEW cb \in BOOLEAN, AcceptStart(r, cfg, cb)
    PROVE  Reports'
<1> USE RunnerConstants
<1>1. PICK new \in RunIDs : new = lastID + 1
  BY SMTT(30) DEF AcceptStart, RunnerInv, TypeOK, RunIDs
<1>2. /\ UNCHANGED engineVars /\ activeRun[r] = Nil /\ lastID \in Nat /\ lastID' = new
      /\ state \in [Runners -> States] /\ history \in [RunIDs -> HistoryType]
  BY <1>1, SMTT(30) DEF AcceptStart, Startable, RunnerInv, TypeOK
<1>3. phase # "idle" => engRunner # r /\ engRun # new
  <2>1. ~Accepted(new)
    BY <1>1, <1>2 DEF Accepted
  <2> QED BY <1>2, <2>1, EngineOwner, Zenon
<1>4. /\ cfg.valid => history' = history
      /\ ~cfg.valid => history' = [history EXCEPT ![new] = Ended(@, FALSE, TRUE, "no", 1)]
  BY <1>1, Zenon DEF AcceptStart
<1>5. phase # "idle" => /\ history'[engRun] = history[engRun]
                        /\ state'[engRunner] = state[engRunner]
  <2>1. phase # "idle" => state'[engRunner] = state[engRunner]
    BY <1>2, <1>3, EngineOwner, Zenon DEF AcceptStart
  <2>2. phase # "idle" => history'[engRun] = history[engRun]
    BY <1>2, <1>3, <1>4, EngineOwner, Zenon
  <2> QED BY <2>1, <2>2, Zenon
<1>6. EngineReports'
  BY <1>2, <1>5, EngineReportsKept, Zenon DEF Reports
<1>7. CASE cfg.valid
  BY <1>4, <1>6, <1>7, ReportsKept
<1>8. CASE ~cfg.valid
  <2>1. history'[new] = Ended(history[new], FALSE, TRUE, "no", 1)
        /\ \A id \in RunIDs : id # new => history'[id] = history[id]
    BY <1>2, <1>4, <1>8, Zenon
  <2>2. EndedWell(history'[new])
    BY <2>1 DEF Ended, EndedWell
  <2>3. ~Waits(new)'
    <3>1. Accepted(new)' /\ ~Active(new)'
      <4>1. activeRun' = activeRun
        BY <1>8, Zenon DEF AcceptStart
      <4>2. ~Active(new)
        <5>1. \A q \in Runners : activeRun[q] <= lastID
          BY Zenon DEF RunnerInv, Ownership
        <5>2. ~(new <= lastID)
          <6>1. new = lastID + 1 /\ lastID \in Nat
            BY <1>1, <1>2, Zenon
          <6> QED BY <6>1
        <5> QED BY <5>1, <5>2, Zenon DEF Active
      <4> QED BY <1>1, <1>2, <4>1, <4>2 DEF Accepted, Active
    <3>2. StageMeans'
      BY StageThen, Zenon
    <3> QED BY <3>1, <3>2 DEF Waits, stages, StageMeans
  <2> QED BY <1>6, <2>1, <2>2, <2>3, ReportsStep, Zenon
<1> QED BY <1>7, <1>8, Zenon

\* A run that ends without having had the engine: it reports one terminal state.
LEMMA WaitingEnds ==
    ASSUME RunnerInv, RunnerInv', [Next]_vars, Reports, NEW r \in Runners, NEW s \in States,
           NEW again \in BOOLEAN, activeRun[r] # Nil, engRun # activeRun[r],
           CleanState(r, s, again), UNCHANGED engineVars,
           \/ history' = Reported(activeRun[r], 1)
           \/ history' = [history EXCEPT ![activeRun[r]] = Ended(@, FALSE, TRUE, "no", 1)]
    PROVE  Reports'
<1>1. PICK old \in RunIDs : old = activeRun[r]
  BY Zenon DEF RunnerInv, TypeOK
<1>2. /\ state \in [Runners -> States] /\ history \in [RunIDs -> HistoryType]
      /\ history[old] \in HistoryType
  BY Zenon, HistoryRecords DEF RunnerInv, TypeOK
<1>3. phase # "idle" => engRunner # r /\ engRun # old
  BY <1>1, EngineOwner, Zenon
<1>4. Active(old) /\ ~Active(old)' /\ Accepted(old)' /\ Waits(old)
  <2>1. Active(old) /\ ~Active(old)' /\ (Accepted(old) => Accepted(old)')
    <3>1. /\ Active(old)' <=> ((Active(old) /\ old # activeRun[r]) \/ (again /\ old = lastID + 1))
          /\ Accepted(old)' <=> (Accepted(old) \/ (again /\ old = lastID + 1))
          /\ activeRun[r] \in RunIDs /\ Active(activeRun[r]) /\ activeRun[r] # lastID + 1
      BY CleanStateMoves, Zenon
    <3> QED BY <1>1, <3>1, Zenon
  <2>2. Waits(old) /\ Accepted(old)
    BY <1>1, <2>1, StageNow, Zenon DEF Waits, stages, StageMeans
  <2> QED BY <2>1, <2>2, Zenon
<1>5. ~Waits(old)'
  <2>1. StageMeans'
    BY StageThen
  <2> QED BY <1>3, <1>4, <2>1, Zenon DEF Waits, stages, StageMeans
<1>6. \A id \in RunIDs : id # old => history'[id] = history[id]
  BY <1>1, <1>2, Zenon DEF Reported
<1>7. history'[old].executed = "no"
  <2>1. history[old].executed = "no"
    BY <1>4 DEF Reports, Unreported
  <2>2. CASE history' = Reported(activeRun[r], 1)
    BY <1>1, <1>2, <2>1, <2>2, Zenon DEF Reported, HistoryType
  <2>3. CASE history' = [history EXCEPT ![activeRun[r]] = Ended(@, FALSE, TRUE, "no", 1)]
    BY <1>1, <1>2, <2>3, Zenon DEF Ended
  <2> QED BY <2>2, <2>3, Zenon
<1>8. EngineReports'
  <2>1. phase # "idle" => state'[engRunner] = state[engRunner]
    BY <1>2, <1>3, EngineOwner, Zenon DEF CleanState
  <2>2. phase # "idle" => history'[engRun] = history[engRun]
    BY <1>3, <1>6, EngineOwner, Zenon
  <2> QED BY <2>1, <2>2, EngineReportsKept, Zenon DEF Reports
<1>9. EndedWell(history'[old])
  BY <1>7 DEF EndedWell
<1> QED BY <1>5, <1>6, <1>8, <1>9, ReportsStep, Zenon

\* stop() while the engine has the run: a terminal state reported before it is
\* now followed by another.
LEMMA StopReports ==
    ASSUME RunnerInv, RunnerInv', [Next]_vars, Reports, NEW r \in Runners, StopActive(r)
    PROVE  Reports'
<1> USE RunnerConstants
<1>1. phase # "idle" /\ engRunner = r /\ engRun = currentTest[r]
  BY Zenon DEF StopActive, RunnerInv, EngineExclusive, Ownership
<1>2. PICK d \in RunIDs : d = engRun
  BY <1>1, EngineOwner, Zenon
<1>3. /\ history \in [RunIDs -> HistoryType] /\ history[d] \in HistoryType
      /\ state \in [Runners -> States]
  BY HistoryRecords DEF RunnerInv, TypeOK
<1>4. history' = [history EXCEPT ![d] = [history[d] EXCEPT !.stopped = TRUE]]
  BY <1>1, <1>2 DEF StopActive
<1>5. /\ history'[d] = [history[d] EXCEPT !.stopped = TRUE]
      /\ \A id \in RunIDs : id # d => history'[id] = history[id]
  BY <1>3, <1>4
<1>6. /\ history'[d].stopped /\ history'[d].executed = history[d].executed
      /\ history'[d].terminals = history[d].terminals
  BY <1>3, <1>5 DEF HistoryType
<1>7. /\ state'[r] = "stopping" /\ done' /\ stopRequested'
      /\ UNCHANGED <<engRunner, engRun, engConfig, phase, code, wasStopped>>
  BY <1>3, Zenon DEF StopActive
<1>8. Executing(history[d], state[r])
  BY <1>1, <1>2, Zenon DEF Reports, EngineReports
<1>9. EngineReports'
  BY <1>1, <1>2, <1>6, <1>7, <1>8, Zenon DEF EngineReports, Executing
<1>10. ~Waits(d)'
  <2>1. StageMeans'
    BY StageThen, Zenon
  <2> QED BY <1>2, <1>7, <2>1 DEF Waits, stages, StageMeans
<1>11. EndedWell(history'[d])
  BY <1>6, <1>8, Zenon DEF Executing, EndedWell
<1> QED BY <1>5, <1>9, <1>10, <1>11, ReportsStep

\* executeQueuedRun: the run waited, so it has reported nothing.
LEMMA BeginReports ==
    ASSUME RunnerInv, RunnerInv', [Next]_vars, Reports, NEW r \in Runners, BeginRun(r)
    PROVE  Reports'
<1>1. PICK id \in RunIDs : id = pendingRunID[r]
  BY SMTT(30) DEF BeginRun, Dequeues, RunnerInv, TypeOK, Blocks
<1>2. /\ engRun' = id /\ engRunner' = r /\ phase' = "enter" /\ history' = history
      /\ UNCHANGED <<stopRequested, done>> /\ phase = "idle" /\ engRun = Nil
      /\ state'[r] = "running" /\ activeRun[r] = id /\ id # Nil
  BY <1>1 DEF BeginRun, Dequeues, RunnerInv, TypeOK, Ownership, RunIDs, Nil
<1>3. Waits(id)
  BY <1>2, StageNow, Zenon DEF Waits, stages, StageMeans, Active
<1>4. Unreported(history'[id]) /\ ~stopRequested'
  BY <1>2, <1>3, Zenon DEF Reports, EngineReports
<1>5. EngineReports'
  BY <1>2, <1>4, Zenon DEF EngineReports, Executing, Unreported
<1> QED BY <1>2, <1>5, ReportsKept, Zenon

\* The engine call and what runIperfProcess decides about it, apart from the
\* failed exchange.
LEMMA NativeReports ==
    ASSUME RunnerInv, RunnerInv', [Next]_vars, Reports,
           \/ NativeEnter \/ NativeSetupFails \/ NativeStartTest \/ NativeEndTest
           \/ NativeMeasurementFails \/ NativeEnding \/ NativeExchange
           \/ ReadOutcome \/ RestartServer \/ LeaveLoop
    PROVE  Reports'
<1>1. /\ history' = history /\ state' = state /\ phase # "idle" /\ phase' # "idle"
      /\ UNCHANGED <<engRunner, engRun, engConfig, stopRequested>>
  BY Zenon DEF NativeEnter, NativeSetupFails, NativeStartTest, NativeEndTest, NativeMeasurementFails,
         NativeEnding, NativeExchange, NativeKeeps, Return, Goto, ReadOutcome, RestartServer,
         LeaveLoop, runnerVars
<1>2. PICK h, s : h = history[engRun] /\ s = state[engRunner]
  OBVIOUS
<1>3. Executing(h, s) /\ h = history'[engRun'] /\ s = state'[engRunner']
  BY <1>1, <1>2 DEF Reports, EngineReports
<1>4. /\ phase' \in BeforeReturn => h.terminals = 0
      /\ phase' \in {"ending", "exchange"} => done'
      /\ s = "finished" => done'
  <2>1. /\ phase \in BeforeReturn => h.terminals = 0 /\ s # "finished"
        /\ phase = "ending" => done
        /\ s = "finished" => done
        /\ s = "running" => h.terminals = 0
    BY <1>3 DEF Executing, BeforeReturn
  <2>2. CASE ReadOutcome \/ LeaveLoop
    BY <2>1, <2>2, Zenon DEF ReadOutcome, LeaveLoop, BeforeReturn
  <2>3. CASE RestartServer
    BY <1>2, <2>1, <2>3 DEF RestartServer, ShouldRestart
  <2>4. CASE NativeStartTest \/ NativeEndTest
    BY <2>1, <2>4, Zenon DEF NativeStartTest, NativeEndTest, BeforeReturn
  <2>5. CASE NativeEnter \/ NativeSetupFails \/ NativeMeasurementFails \/ NativeEnding \/ NativeExchange
    BY <2>1, <2>5 DEF NativeEnter, NativeSetupFails, NativeMeasurementFails, NativeEnding,
                      NativeExchange, Return, Goto, BeforeReturn
  <2> QED BY <2>2, <2>3, <2>4, <2>5, Zenon
<1>5. phase' \in {"decide", "final"} =>
         /\ engConfig.bounded /\ wasStopped' => h.stopped
         /\ s = "finished" => wasStopped'
  BY <1>1, <1>2, <1>3, Zenon
  DEF NativeEnter, NativeSetupFails, NativeStartTest, NativeEndTest, NativeMeasurementFails,
      NativeEnding, NativeExchange, NativeKeeps, Return, Goto, ReadOutcome, RestartServer,
      LeaveLoop, Executing
<1>6. EngineReports'
  BY <1>1, <1>3, <1>4, <1>5, Zenon DEF EngineReports, Executing
<1> QED BY <1>1, <1>6, ReportsKept

\* The failed exchange reports .finished, once, and only for a run without a byte
\* limit; done is up.
LEMMA ExchangeReports ==
    ASSUME RunnerInv, RunnerInv', [Next]_vars, Reports, NativeExchangeFails
    PROVE  Reports'
<1>1. /\ phase = "exchange" /\ phase' = "returned" /\ done' = done
      /\ UNCHANGED <<engRunner, engRun, engConfig, stopRequested>>
  BY Zenon DEF NativeExchangeFails, Return
<1>2. PICK d \in RunIDs : d = engRun
  BY <1>1, EngineOwner, Zenon
<1>3. PICK r \in Runners : r = engRunner
  BY <1>1, EngineOwner, Zenon
<1>4. /\ history \in [RunIDs -> HistoryType] /\ history[d] \in HistoryType
      /\ history[d].terminals \in Nat /\ state \in [Runners -> States]
  BY Zenon, HistoryRecords DEF RunnerInv, TypeOK
<1>5. Executing(history[d], state[r])
  BY <1>1, <1>2, <1>3 DEF Reports, EngineReports
<1>6. CASE history' = history /\ state' = state
  <2>1. EngineReports'
    BY <1>1, <1>2, <1>3, <1>5, <1>6, Zenon DEF EngineReports, Executing, BeforeReturn
  <2> QED BY <1>6, <2>1, ReportsKept
<1>7. CASE /\ history' = Reported(d, 1) /\ state' = [state EXCEPT ![r] = "finished"]
           /\ ~engConfig.bounded
  <2>1. history' = [history EXCEPT ![d] = [history[d] EXCEPT !.terminals = history[d].terminals + 1]]
    BY <1>7 DEF Reported
  <2>2. /\ history'[d] = [history[d] EXCEPT !.terminals = history[d].terminals + 1]
        /\ \A id \in RunIDs : id # d => history'[id] = history[id]
        /\ state'[r] = "finished"
    BY <1>4, <1>7, <2>1
  <2>3. /\ history'[d].terminals = 1 /\ history'[d].executed = "no"
        /\ history'[d].stopped = history[d].stopped
    BY <1>1, <1>4, <1>5, <2>2 DEF Executing, HistoryType, BeforeReturn
  <2>4. EngineReports'
    BY <1>1, <1>2, <1>3, <1>5, <1>7, <2>2, <2>3, Zenon DEF EngineReports, Executing, BeforeReturn
  <2>5. ~Waits(d)'
    <3>1. StageMeans'
      BY StageThen, Zenon
    <3> QED BY <1>1, <1>2, <3>1 DEF Waits, stages, StageMeans
  <2>6. EndedWell(history'[d])
    BY <2>3, Zenon DEF EndedWell
  <2> QED BY <2>2, <2>4, <2>5, <2>6, ReportsStep
<1> QED BY <1>2, <1>3, <1>6, <1>7, Zenon DEF NativeExchangeFails

\* The end of the run that had the engine.
LEMMA FinishReports ==
    ASSUME RunnerInv, RunnerInv', [Next]_vars, Reports, FinishRun
    PROVE  Reports'
<1>1. phase = "final" /\ phase' = "idle" /\ ~stopRequested' /\ engRun' = Nil
  BY Zenon DEF FinishRun, EngineIdle
<1>2. PICK d \in RunIDs : d = engRun
  BY <1>1, EngineOwner, Zenon
<1>3. PICK r \in Runners : r = engRunner /\ activeRun[r] = d
  BY <1>1, <1>2, EngineOwner, Zenon
<1>4. /\ history \in [RunIDs -> HistoryType] /\ history[d] \in HistoryType
      /\ history[d].terminals \in Nat /\ state[r] \in States /\ code \in Int
  BY HistoryRecords DEF RunnerInv, TypeOK
<1>5. PICK failed \in BOOLEAN : failed = (code < 0)
  <2>1. (code < 0) \in BOOLEAN
    BY <1>4
  <2> QED BY <2>1, Zenon
<1>6. PICK isError \in BOOLEAN : isError = (failed /\ ~wasStopped)
  BY Zenon
<1>7. PICK s \in States : s = IF isError THEN "error" ELSE state[r]
  BY <1>4 DEF States
<1>8. PICK n \in {0, 1} : n = IF isError \/ s \in {"running", "stopping"} THEN 1 ELSE 0
  OBVIOUS
<1>9. PICK policy : policy = IF engConfig.bounded THEN "bounded" ELSE "unbounded"
  OBVIOUS
<1>10. /\ history' = [history EXCEPT ![d] = Ended(history[d], failed, isError, policy, n)]
       /\ \E again \in BOOLEAN : CleanState(r, s, again)
  BY <1>2, <1>3, <1>5, <1>6, <1>7, <1>8, <1>9, Zenon DEF FinishRun
<1>11. /\ history'[d] = Ended(history[d], failed, isError, policy, n)
       /\ \A id \in RunIDs : id # d => history'[id] = history[id]
  BY <1>4, <1>10, Zenon
<1>12. Executing(history[d], state[r])
  BY <1>1, <1>2, <1>3, Zenon DEF Reports, EngineReports
<1>13. EndedWell(history'[d])
  <2>1. /\ history'[d].stopped = history[d].stopped /\ history'[d].failed = failed
        /\ history'[d].error = isError /\ history'[d].executed = policy
        /\ history'[d].terminals = history[d].terminals + n
    BY <1>11 DEF Ended
  <2>2. isError => ~wasStopped
    BY <1>6, Zenon
  <2>3. failed /\ ~wasStopped => isError
    BY <1>6, Zenon
  <2>4. \/ history[d].terminals + n = 1
        \/ history[d].terminals + n = 2 /\ history[d].stopped /\ policy # "bounded"
    BY <1>1, <1>4, <1>7, <1>8, <1>9, <1>12, <2>2 DEF Executing
  <2>5. policy = "bounded" /\ failed /\ ~history[d].stopped => isError
    BY <1>1, <1>9, <1>12, <2>3, Zenon DEF Executing
  <2> QED BY <2>1, <2>4, <2>5, SMTT(30) DEF EndedWell
<1>14. ~Waits(d)'
  <2>1. PICK again \in BOOLEAN : CleanState(r, s, again)
    BY <1>10
  <2>2. activeRun[r] # Nil
    BY <1>3 DEF RunIDs, Nil
  <2>3. /\ Active(d)' <=> ((Active(d) /\ d # activeRun[r]) \/ (again /\ d = lastID + 1))
        /\ Accepted(d)' <=> (Accepted(d) \/ (again /\ d = lastID + 1))
        /\ activeRun[r] # lastID + 1
    BY <2>1, <2>2, CleanStateMoves, Zenon
  <2>4. ~Active(d)' /\ Accepted(d)'
    BY <1>1, <1>2, <1>3, <2>3, EngineOwner
  <2>5. StageMeans'
    BY StageThen
  <2> QED BY <2>4, <2>5 DEF Waits, stages, StageMeans
<1>15. EngineReports'
  BY <1>1, Zenon DEF EngineReports
<1> QED BY <1>11, <1>13, <1>14, <1>15, ReportsStep, Zenon

-----------------------------------------------------------------------------
\* Reports is inductive relative to RunnerInv.
LEMMA ReportsInductive ==
    ASSUME RunnerInv, RunnerInv', [Next]_vars, Reports
    PROVE  Reports'
<1>0. TypeOK
  BY DEF RunnerInv
<1>1. ASSUME NEW r \in Runners, StartWith(r) \/ StartHeld(r) PROVE Reports'
  <2>1. PICK cfg \in ConfigType \cup {NoConfig}, cb \in BOOLEAN : AcceptStart(r, cfg, cb)
    BY <1>0, <1>1, RunnerConstants, Zenon DEF StartWith, StartHeld, TypeOK
  <2> QED BY <2>1, StartReports
<1>2. ASSUME NEW r \in Runners, StopQueued(r) PROVE Reports'
  <2>1. PICK again \in BOOLEAN : CleanState(r, "stopping", again)
    BY <1>2, Zenon DEF StopQueued
  <2>2. /\ activeRun[r] # Nil /\ currentTest[r] = Nil /\ UNCHANGED engineVars
        /\ history' = Reported(activeRun[r], 1) /\ "stopping" \in States
    BY <1>2, Zenon DEF StopQueued, RunnerInv, Ownership, States
  <2>3. engRun # activeRun[r]
    BY <2>2, EngineOwner, Zenon DEF RunnerInv, Ownership, Nil
  <2> QED BY <2>1, <2>2, <2>3, WaitingEnds, Zenon
<1>3. ASSUME NEW r \in Runners, PrepareFails(r) PROVE Reports'
  <2>1. pendingRunID[r] # Nil
    BY <1>0, <1>3 DEF PrepareFails, Dequeues, TypeOK, Blocks, RunIDs, Nil
  <2>2. /\ activeRun[r] = pendingRunID[r] /\ engRun = Nil /\ UNCHANGED engineVars /\ "error" \in States
        /\ CleanState(r, "error", FALSE)
        /\ history' = [history EXCEPT ![pendingRunID[r]] = Ended(@, FALSE, TRUE, "no", 1)]
    BY <1>3, <2>1, Zenon DEF PrepareFails, Dequeues, RunnerInv, Ownership, States
  <2> QED BY <2>1, <2>2, WaitingEnds, Zenon
<1>4. ASSUME NEW r \in Runners, Deinit(r) PROVE Reports'
  <2>1. EngineReports'
    BY <1>4, EngineReportsKept, Zenon DEF Deinit, Reports
  <2> QED BY <1>4, <2>1, ReportsKept, Zenon DEF Deinit
<1>5. CASE SkipStaleBlock \/ (\E id \in RunIDs : DeliverCompletion(id)) \/ UNCHANGED vars
  <2>1. UNCHANGED engineVars /\ state' = state /\ history' = history
    BY <1>5, Zenon DEF SkipStaleBlock, DeliverCompletion, vars, runnerVars
  <2>2. EngineReports'
    BY <2>1, EngineReportsKept, Zenon DEF Reports
  <2> QED BY <2>1, <2>2, ReportsKept, Zenon
<1> QED
  BY <1>1, <1>2, <1>3, <1>4, <1>5, StopReports, BeginReports, NativeReports, ExchangeReports,
     FinishReports
  DEF Next, EngineStep, CallerStep, NativeStep

\* Nothing has been reported when the program starts.
LEMMA ReportsInit == Init => Reports
<1> SUFFICES ASSUME Init PROVE Reports
  OBVIOUS
<1>1. \A id \in RunIDs : history[id].executed = "no" /\ history[id].terminals = 0
  BY Zenon DEF Init
<1> QED BY <1>1, Zenon DEF Init, Reports, EngineReports, EndedWell, Unreported

\* Reports is what TerminalOnce needs.
LEMMA ReportsMean == RunnerInv /\ Reports => TerminalOnce
<1> SUFFICES ASSUME RunnerInv, Reports PROVE TerminalOnce
  BY Zenon
<1>1. phase # "idle" /\ engConfig.bounded => history[engRun].terminals = 0
  BY DEF Reports, EngineReports, Executing
<1>2. \A id \in RunIDs : EndedWell(history[id])
  BY DEF Reports
<1> QED BY <1>1, <1>2 DEF TerminalOnce, EndedWell

\* TerminalOnce for any runners, configurations and number of starts: a run with a
\* byte limit reports exactly one terminal state, an error if it failed without
\* having been stopped; any other run a second one only after stop()
\* (handleReporterStatusLocked, stopCurrentTest, cleanState).
THEOREM TerminalReportedOnce == Spec => []TerminalOnce
<1>1. RunnerInv /\ RunnerInv' /\ [Next]_vars /\ Reports => Reports'
  BY ReportsInductive
<1> QED BY InvInit, InvStep, ReportsInit, ReportsMean, <1>1, PTL DEF Spec
=============================================================================
