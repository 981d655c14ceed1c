---------------------------- MODULE EngineProofs ----------------------------
(***************************************************************************)
(* The engine's timers stay sound (TimersWellFormed), the intervals of a     *)
(* stream add up to its total (IntervalsAddUp) and each begins where the one *)
(* before it ended (IntervalsTile), for any tests, any number of streams and *)
(* any interleaving of the workers with the engine's thread.                *)
(*                                                                         *)
(* TimerInv relates the pool to the engine's handles: a handle that is set   *)
(* names an active timer of its kind, an active timer has a handle, and the  *)
(* timer being fired and the one after it are still active, whatever its     *)
(* callback cancelled.                                                     *)
(* IntervalInv is the balance of one stream: what it moved is what was       *)
(* sampled, plus what the open interval holds, plus what the worker has      *)
(* counted in one place and not yet in the other.                           *)
(* TileInv is what a sample taken now would rely on: the times of a stream   *)
(* continue its newest entry, and a measured one exists only after the reset. *)
(***************************************************************************)
EXTENDS MeasurementProofs

-----------------------------------------------------------------------------
(* The pool and the engine's handles *)

Names == {"test", "stats", "reporter", "omit"}
Periodic == {"stats", "reporter"}

\* The engine is in the callback of the timer it walks.
Callback ==
    \/ pc \in ResettingStream \cup {"resched", "reset_timers"}
    \/ pc \in Sampling \cup {"stats", "join"} /\ after = "resched"

Handled == {handle[x] : x \in Names}

\* A handle that is set names an active timer of its kind.
HandlesListed ==
    \A x \in Names : handle[x] # 0 => /\ handle[x] \in In(pool.list)
                                      /\ pool.of[handle[x]].proc = x
                                      /\ (pool.of[handle[x]].periodic <=> (x \in Periodic))

\* An active timer has a handle, except a one-shot timer that is being fired.
ListedHandled ==
    \A t \in In(pool.list) : t \in Handled \/ (Callback /\ t = cur /\ ~pool.of[t].periodic)

\* During a callback the timer that fires and the one after it are active.
Walking ==
    Callback => /\ cur \in In(pool.list) /\ nxt \in In(pool.list) \cup {0} /\ nxt # cur
                /\ pool.of[cur].periodic <=> cur \in Handled

PoolTypes == pool \in Pools /\ WellFormed(pool) /\ handle \in [Names -> Nat] /\ cur \in Nat /\ nxt \in Nat

TimerInv ==
    /\ PoolTypes /\ HandlesListed /\ ListedHandled /\ Walking
    /\ pc = "walk" => cur \in In(pool.list) \cup {0}
    /\ pc = "create" => \A i \in 1..4 : i >= at => handle[Plan[i].name] = 0
    /\ pc = "freed" => pool.list = <<>>

-----------------------------------------------------------------------------
\* The list is empty at first.
LEMMA FreshPool ==
    ASSUME NEW k \in Nat
    PROVE  /\ PoolAfter(k) \in Pools /\ WellFormed(PoolAfter(k)) /\ PoolAfter(k).list = <<>>
           /\ In(PoolAfter(k).list) = {}
<1> DEFINE p == PoolAfter(k)
           none == [proc |-> "none", usecs |-> 0, periodic |-> FALSE, time |-> [secs |-> 0, usecs |-> 0]]
<1>1. none \in TimerType
  <2>1. 0 \in 0..(UsecsPerSec - 1)
    BY TimerConstants
  <2>2. PICK t \in Times : t = [secs |-> 0, usecs |-> 0]
    BY <2>1, Zenon DEF Times
  <2> QED BY <2>2 DEF TimerType, Kinds
<1>2. p.list = <<>> /\ p.free = [i \in 1..k |-> i] /\ p.of = [i \in 1..k |-> none]
  BY DEF PoolAfter
<1> HIDE DEF none, p
<1>3. p.free \in Seq(Nat) /\ p.of \in Seq(TimerType)
  <2>1. p.free \in [1..k -> Nat] /\ p.of \in [1..k -> TimerType]
    BY <1>1, <1>2
  <2> QED BY <2>1, SeqDef
<1>4. p \in Pools
  <2>1. p.list \in Seq(Nat)
    BY <1>2, SMTT(30)
  <2>2. p = [list |-> p.list, free |-> p.free, of |-> p.of]
    BY DEF p, PoolAfter
  <2> QED BY <1>3, <2>1, <2>2 DEF Pools
<1>5. In(p.list) = {} /\ In(p.free) = 1..k /\ DOMAIN p.of = 1..k /\ DOMAIN p.free = 1..k
  BY <1>2 DEF In
<1>6. Ordered(p.of, p.list)
  BY <1>2, SMTT(30) DEF Ordered
<1>7. WellFormed(p)
  BY <1>2, <1>5, <1>6, PoolParts, SMTT(30)
<1> QED BY <1>2, <1>4, <1>5, <1>7, SMTT(30) DEF p

\* No timer is active before the test is set up.
LEMMA InitTimers == Init => TimerInv
<1> SUFFICES ASSUME Init PROVE TimerInv
  OBVIOUS
<1>1. test.old \in Nat
  BY InitTypes, TestFacts, SMTT(30) DEF Types
<1>2. pool \in Pools /\ WellFormed(pool) /\ In(pool.list) = {}
  BY <1>1, FreshPool, Zenon DEF Init
<1>3. handle \in [Names -> Nat] /\ \A x \in Names : handle[x] = 0
  BY DEF Init, NoTimer, Names
<1>4. pc = "create" /\ cur = 0 /\ nxt = 0 /\ ~Callback
  BY DEF Init, Callback, Sampling, ResettingStream
<1>5. \A i \in 1..4 : Plan[i].name \in Names
  BY DEF Plan, Names
<1> QED BY <1>2, <1>3, <1>4, <1>5 DEF TimerInv, PoolTypes, HandlesListed, ListedHandled, Walking

\* Steps of the engine and of the workers that do not touch the timers.
LEMMA TimersKept ==
    ASSUME TimerInv, UNCHANGED <<pool, handle, cur, nxt>>, Callback' <=> Callback,
           pc' = "walk" => pc = "walk", pc' = "freed" => pc = "freed",
           pc' = "create" => pc = "create" /\ at' = at
    PROVE  TimerInv'
<1>1. PoolTypes' /\ HandlesListed'
  BY DEF TimerInv, PoolTypes, HandlesListed
<1>2. Handled' = Handled
  BY SMTT(30) DEF Handled
<1>3. ListedHandled' /\ Walking'
  BY <1>2 DEF TimerInv, ListedHandled, Walking
<1>4. \A i \in 1..4 : Plan[i].name' = Plan[i].name
  BY DEF Plan
<1> QED BY <1>1, <1>3, <1>4, SMTT(30) DEF TimerInv

\* Steps that do not touch the timers, the handles or the walk.
LEMMA QuietTimers ==
    ASSUME Types, TimerInv,
           \/ Tick \/ RequestStop \/ CreateTimerFails \/ StartWorkers \/ Join
           \/ SampleBytes \/ SamplePackets \/ SampleOutOfOrder \/ SampleLost \/ StatsDone
           \/ ResetPackets \/ ResetLost \/ ResetOutOfOrder \/ ResetBytes \/ ResetInterval
           \/ GoOn \/ FinalSample \/ SendTestEnd \/ FinishTestEnd \/ LeaveLoop \/ Peer
           \/ (\E s \in Streams : Worker(s)) \/ UNCHANGED vars
    PROVE  TimerInv'
<1>0. PcTypes
  BY DEF Types
<1>1. CASE Tick \/ RequestStop \/ UNCHANGED vars
  <2>1. UNCHANGED <<tmrVars, pcVars>>
    BY <1>1, Zenon DEF Tick, RequestStop, vars
  <2> QED BY <2>1, TimersKept DEF tmrVars, pcVars, Callback
<1>2. ASSUME NEW s \in Streams, Worker(s) PROVE TimerInv'
  <2>1. UNCHANGED engineVars
    BY <1>2, Zenon DEF Worker, WorkerLoop, Throttled, CallMovesNothing, TcpCall, UdpArrives, UdpNumber, UdpWritten,
           UdpRefused, CountBytes, CountInterval, UdpForward, UdpHighest, UdpBackward, UdpFound, CountTest
  <2>2. UNCHANGED <<tmrVars, pcVars>>
    BY <2>1, Zenon DEF engineVars
  <2> QED BY <2>2, TimersKept, SMTT(30) DEF tmrVars, pcVars, Callback
<1>3. CASE CreateTimerFails \/ StartWorkers
  <2>1. UNCHANGED <<pool, handle, cur, nxt>> /\ pc = "create" /\ pc' \in {"cleanup", "loop"}
    BY <1>3, Zenon DEF CreateTimerFails, StartWorkers, tmrVars
  <2> QED BY <2>1, TimersKept, SMTT(30) DEF Callback, Sampling, ResettingStream
<1>4. CASE Join
  <2>1. /\ UNCHANGED <<pool, handle, cur, nxt>> /\ pc \in {"join", "cleanup"} /\ after' = after
        /\ pc' = IF pc = "join" THEN after ELSE "free"
    BY <1>4 DEF Join, tmrVars
  <2> QED BY <1>0, <2>1, TimersKept, Zenon DEF Callback, Sampling, ResettingStream, PcTypes
<1>5. CASE SampleBytes \/ SamplePackets \/ SampleOutOfOrder \/ SampleLost
  <2>1. /\ UNCHANGED <<pool, handle, cur, nxt>> /\ after' = after
        /\ pc \in Sampling \cup {"stats"} /\ pc' \in Sampling \cup {"stats"}
    BY <1>5, SMTT(30) DEF SampleBytes, SamplePackets, SampleOutOfOrder, SampleCounter, SampleLost, Sampling, tmrVars
  <2> QED BY <2>1, TimersKept, SMTT(30) DEF Callback, Sampling, ResettingStream
<1>6. CASE StatsDone
  <2>1. UNCHANGED <<pool, handle, cur, nxt>> /\ after' = after /\ pc = "stats" /\ pc' = after
    BY <1>6 DEF StatsDone, tmrVars
  <2> QED BY <1>0, <2>1, TimersKept, Zenon DEF Callback, Sampling, ResettingStream, PcTypes
<1>7. CASE ResetPackets \/ ResetLost \/ ResetOutOfOrder \/ ResetBytes \/ ResetInterval
  <2>1. /\ UNCHANGED <<pool, handle, cur, nxt>> /\ pc \in ResettingStream
        /\ pc' \in ResettingStream \cup {"reset_timers"}
    BY <1>7 DEF ResetPackets, ResetLost, ResetOutOfOrder, ResetBaseline, ResetBytes, ResetInterval,
                ResettingStream, tmrVars
  <2> QED BY <2>1, TimersKept, SMTT(30) DEF Callback, ResettingStream, Sampling
<1>8. CASE GoOn \/ FinalSample \/ SendTestEnd \/ FinishTestEnd \/ LeaveLoop \/ Peer
  <2>1. /\ UNCHANGED <<pool, handle, cur, nxt>> /\ pc \in {"check", "final", "ended", "loop", "await"}
        /\ \/ pc' \in {"loop", "await", "cleanup"}
           \/ pc' = "stats" /\ after' = "ended"
    BY <1>8, ZenonT(30) DEF GoOn, FinalSample, SendTestEnd, FinishTestEnd, LeaveLoop, Peer, DisplayResults, ReadTestEnd,
                ReadTerminate, ConnectionFails, ClosingReport, StatsCallback, tmrVars
  <2> QED BY <2>1, TimersKept, SMTT(30) DEF Callback, ResettingStream, Sampling
<1> QED BY <1>1, <1>2, <1>3, <1>4, <1>5, <1>6, <1>7, <1>8, Zenon

\* The handle of a timer in the list has the timer's kind.
LEMMA HandleOf ==
    ASSUME TimerInv, ~Callback, NEW t \in In(pool.list)
    PROVE  \E x \in Names : handle[x] = t /\ pool.of[t].proc = x /\ (pool.of[t].periodic <=> (x \in Periodic)) /\ t # 0
<1>1. PICK x \in Names : handle[x] = t
  BY SMTT(30) DEF TimerInv, ListedHandled, Handled
<1>2. t # 0
  BY NeverNull DEF TimerInv, PoolTypes
<1> QED BY <1>1, <1>2, Zenon DEF TimerInv, HandlesListed

\* Handles of different kinds name different timers.
LEMMA HandlesDiffer ==
    ASSUME TimerInv, NEW x \in Names, NEW y \in Names, x # y, handle[x] # 0
    PROVE  handle[x] # handle[y]
BY Zenon DEF TimerInv, HandlesListed

\* A timer of the walk fires.
LEMMA FireTimers ==
    ASSUME Types, TimerInv, FireTest \/ FireOmit \/ FireStats \/ FireReporter
    PROVE  TimerInv'
<1>1. PICK x \in Names : /\ Fires(x) /\ nxt' = ListNext(pool, cur) /\ UNCHANGED <<pool, cur>>
                         /\ handle' = IF x \in Periodic THEN handle ELSE [handle EXCEPT ![x] = 0]
                         /\ Callback'
  BY Zenon DEF FireTest, FireOmit, FireStats, FireReporter, Names, Periodic, Callback, Sampling, ResettingStream,
            StatsCallback
<1>2. /\ pc = "walk" /\ ~Callback /\ cur # 0 /\ pool.of[cur].proc = x /\ cur \in In(pool.list)
      /\ PoolTypes
  BY <1>1, SMTT(30) DEF Fires, CurrentIsDue, Callback, Sampling, ResettingStream, TimerInv
<1>3. handle[x] = cur /\ (pool.of[cur].periodic <=> (x \in Periodic))
  BY <1>2, HandleOf, Zenon
<1>4. nxt' \in In(pool.list) \cup {0} /\ nxt' # cur /\ nxt' \in Nat /\ In(pool.list) \subseteq Nat
  BY <1>1, <1>2, NextListed, NeverNull, SMTT(30) DEF PoolTypes
<1>5. \A y \in Names : handle'[y] = IF y = x /\ x \notin Periodic THEN 0 ELSE handle[y]
  BY <1>1, <1>2, Zenon DEF PoolTypes
<1>6. PoolTypes'
  BY <1>1, <1>2, <1>4 DEF PoolTypes
<1>7. HandlesListed'
  <2> SUFFICES ASSUME NEW y \in Names, handle'[y] # 0
               PROVE  /\ handle[y] = handle'[y] /\ handle[y] \in In(pool.list)
                      /\ pool.of[handle[y]].proc = y /\ (pool.of[handle[y]].periodic <=> (y \in Periodic))
    BY <1>1, Zenon DEF HandlesListed
  <2>1. handle'[y] = handle[y]
    BY <1>5
  <2> QED BY <2>1, Zenon DEF TimerInv, HandlesListed
<1>8. ListedHandled'
  <2> SUFFICES ASSUME NEW t \in In(pool.list) PROVE t \in Handled' \/ (t = cur /\ ~pool.of[t].periodic)
    BY <1>1, SMTT(30) DEF ListedHandled
  <2>1. PICK y \in Names : handle[y] = t
    BY <1>2, HandleOf, SMTT(30)
  <2>2. CASE y = x /\ x \notin Periodic
    BY <1>3, <2>1, <2>2, Zenon
  <2>3. CASE ~(y = x /\ x \notin Periodic)
    BY <1>5, <2>1, <2>3, SMTT(30) DEF Handled
  <2> QED BY <2>2, <2>3
<1>9. Walking'
  <2>1. CASE x \in Periodic
    BY <1>1, <1>2, <1>3, <1>4, <2>1, Zenon DEF Walking, Handled
  <2>2. CASE x \notin Periodic
    <3>1. \A y \in Names : handle'[y] # cur
      <4>1. ASSUME NEW y \in Names, y # x PROVE handle[y] # cur
        BY <1>2, <1>3, <4>1, HandlesDiffer, Zenon
      <4> QED BY <1>2, <1>5, <2>2, <4>1, Zenon
    <3>2. cur \notin Handled'
      BY <3>1 DEF Handled
    <3> QED BY <1>1, <1>2, <1>3, <1>4, <2>2, <3>2, Zenon DEF Walking
  <2> QED BY <2>1, <2>2, Zenon
<1>10. pc' \notin {"walk", "create", "freed"}
  BY <1>1 DEF Callback, Sampling, ResettingStream
<1> QED BY <1>6, <1>7, <1>8, <1>9, <1>10, SMTT(30) DEF TimerInv

\* The walk begins, ends, and goes on after a callback.
LEMMA WalkTimers ==
    ASSUME Types, TimerInv, RunTimers \/ WalkEnds \/ Reschedule
    PROVE  TimerInv'
<1>0. PoolTypes
  BY SMTT(30) DEF TimerInv
<1>1. CASE RunTimers
  <2>1. /\ UNCHANGED <<pool, handle>> /\ pc = "loop" /\ pc' = "walk" /\ cur' = ListHead(pool) /\ nxt' = 0
        /\ ~Callback /\ ~Callback'
    BY <1>1, SMTT(30) DEF RunTimers, Callback, Sampling, ResettingStream
  <2>2. cur' \in In(pool.list) \cup {0} /\ cur' \in Nat
    BY <1>0, <2>1, HeadListed, NeverNull, SMTT(30) DEF PoolTypes
  <2>3. PoolTypes' /\ HandlesListed' /\ Handled' = Handled
    BY <1>0, <2>1, <2>2, SMTT(30) DEF PoolTypes, HandlesListed, Handled, TimerInv
  <2>4. ListedHandled' /\ Walking'
    BY <2>1, <2>3, Zenon DEF ListedHandled, Walking, TimerInv
  <2> QED BY <2>1, <2>2, <2>3, <2>4, Zenon DEF TimerInv
<1>2. CASE WalkEnds
  <2>1. /\ UNCHANGED <<pool, handle>> /\ pc = "walk" /\ pc' \in {"loop", "check"} /\ cur' = 0 /\ nxt' = 0
        /\ ~Callback /\ ~Callback'
    BY <1>2, Zenon DEF WalkEnds, Callback, Sampling, ResettingStream
  <2>2. PoolTypes' /\ HandlesListed' /\ Handled' = Handled
    BY <1>0, <2>1, SMTT(30) DEF PoolTypes, HandlesListed, Handled, TimerInv
  <2>3. ListedHandled' /\ Walking'
    BY <2>1, <2>2, Zenon DEF ListedHandled, Walking, TimerInv
  <2> QED BY <2>1, <2>2, <2>3, Zenon DEF TimerInv
<1>3. CASE Reschedule
  <2>1. /\ pool' = AfterFiring(pool, cur) /\ handle' = handle /\ cur' = nxt /\ nxt' = nxt
        /\ pc = "resched" /\ pc' = "walk" /\ Callback /\ ~Callback'
    BY <1>3, Zenon DEF Reschedule, Callback, Sampling, ResettingStream
  <2>2. /\ cur \in In(pool.list) /\ nxt \in In(pool.list) \cup {0} /\ nxt # cur
        /\ pool.of[cur].periodic <=> cur \in Handled
    BY <2>1, SMTT(30) DEF TimerInv, Walking
  <2>3. /\ pool' \in Pools /\ WellFormed(pool') /\ DOMAIN pool'.of = DOMAIN pool.of
        /\ In(pool'.list) = IF pool.of[cur].periodic THEN In(pool.list) ELSE In(pool.list) \ {cur}
        /\ \A u \in DOMAIN pool.of : pool'.of[u].proc = pool.of[u].proc
                                     /\ pool'.of[u].periodic = pool.of[u].periodic
    BY <1>0, <2>1, <2>2, FiringKeeps, Zenon DEF PoolTypes
  <2>4. PoolTypes' /\ Handled' = Handled
    BY <1>0, <2>1, <2>3 DEF PoolTypes, Handled
  <2>5. In(pool.list) \subseteq DOMAIN pool.of
    BY <1>0, NeverNull, Zenon DEF PoolTypes
  <2>6. HandlesListed'
    <3> SUFFICES ASSUME NEW y \in Names, handle[y] # 0
                 PROVE  /\ handle[y] \in In(pool'.list)
                        /\ pool'.of[handle[y]].proc = y /\ (pool'.of[handle[y]].periodic <=> (y \in Periodic))
      BY <2>1, Zenon DEF HandlesListed
    <3>1. /\ handle[y] \in In(pool.list) /\ handle[y] \in Handled
          /\ pool.of[handle[y]].proc = y /\ (pool.of[handle[y]].periodic <=> (y \in Periodic))
      BY Zenon DEF TimerInv, HandlesListed, Handled
    <3>2. handle[y] \in In(pool'.list)
      BY <2>2, <2>3, <3>1, Zenon
    <3> QED BY <2>3, <2>5, <3>1, <3>2
  <2>7. ListedHandled'
    <3> SUFFICES ASSUME NEW t \in In(pool'.list) PROVE t \in Handled
      BY <2>4, Zenon DEF ListedHandled
    <3>1. t \in In(pool.list) /\ (t = cur => pool.of[cur].periodic)
      BY <2>2, <2>3, Zenon
    <3> QED BY <3>1 DEF TimerInv, ListedHandled
  <2>8. cur' \in In(pool'.list) \cup {0}
    BY <2>1, <2>2, <2>3, Zenon
  <2> QED BY <2>1, <2>4, <2>6, <2>7, <2>8, Zenon DEF TimerInv, Walking
<1> QED BY <1>1, <1>2, <1>3, Zenon

\* A timer is reset while it is in the list, or has no handle.
LEMMA ResetIfSet ==
    ASSUME NEW p \in Pools, WellFormed(p), NEW t, t # 0 => t \in In(p.list), NEW time \in Times,
           NEW r, r = IF t = 0 THEN p ELSE TmrReset(p, time, t)
    PROVE  /\ r \in Pools /\ WellFormed(r) /\ In(r.list) = In(p.list) /\ DOMAIN r.of = DOMAIN p.of
           /\ \A u \in DOMAIN p.of : r.of[u].proc = p.of[u].proc /\ r.of[u].periodic = p.of[u].periodic
<1>1. CASE t = 0
  BY <1>1, Zenon
<1>2. CASE t # 0
  BY <1>2, ResetKeeps, SMTT(30)
<1> QED BY <1>1, <1>2, SMTT(30)

\* The omit reset moves the periodic timers.
LEMMA ResetTimersTimers == ASSUME Types, TimerInv, ResetTimers PROVE TimerInv'
<1>0. PoolTypes /\ now \in Times
  BY DEF TimerInv, Types, PcTypes
<1>1. /\ UNCHANGED <<handle, cur, nxt>> /\ pc = "reset_timers" /\ pc' = "resched" /\ Callback /\ Callback'
  BY DEF ResetTimers, Callback, Sampling, ResettingStream
<1>2. PICK one : /\ one = IF handle.stats = 0 THEN pool ELSE TmrReset(pool, now, handle.stats)
                 /\ pool' = IF handle.reporter = 0 THEN one ELSE TmrReset(one, now, handle.reporter)
  BY Zenon DEF ResetTimers
<1>3. \A x \in {"stats", "reporter"} : handle[x] # 0 => handle[x] \in In(pool.list)
  BY Zenon DEF TimerInv, HandlesListed, Names
<1>4. /\ one \in Pools /\ WellFormed(one) /\ In(one.list) = In(pool.list) /\ DOMAIN one.of = DOMAIN pool.of
      /\ \A u \in DOMAIN pool.of : one.of[u].proc = pool.of[u].proc /\ one.of[u].periodic = pool.of[u].periodic
  BY <1>0, <1>2, <1>3, ResetIfSet, SMTT(30) DEF PoolTypes
<1>5. /\ pool' \in Pools /\ WellFormed(pool') /\ In(pool'.list) = In(one.list) /\ DOMAIN pool'.of = DOMAIN one.of
      /\ \A u \in DOMAIN one.of : pool'.of[u].proc = one.of[u].proc /\ pool'.of[u].periodic = one.of[u].periodic
  BY <1>0, <1>2, <1>3, <1>4, ResetIfSet DEF PoolTypes
<1>6. /\ In(pool'.list) = In(pool.list) /\ In(pool.list) \subseteq DOMAIN pool.of
      /\ \A u \in DOMAIN pool.of : pool'.of[u].proc = pool.of[u].proc /\ pool'.of[u].periodic = pool.of[u].periodic
  BY <1>0, <1>4, <1>5, NeverNull DEF PoolTypes
<1>7. PoolTypes' /\ Handled' = Handled
  BY <1>0, <1>1, <1>5, ZenonT(30) DEF PoolTypes, Handled
<1>8. HandlesListed'
  <2> SUFFICES ASSUME NEW y \in Names, handle[y] # 0
               PROVE  /\ handle[y] \in In(pool'.list)
                      /\ pool'.of[handle[y]].proc = y /\ (pool'.of[handle[y]].periodic <=> (y \in Periodic))
    BY <1>1, Zenon DEF HandlesListed
  <2> QED BY <1>6, Zenon DEF TimerInv, HandlesListed
<1>9. ListedHandled'
  BY <1>1, <1>6, <1>7, Zenon DEF TimerInv, ListedHandled
<1>10. Walking'
  BY <1>1, <1>6, <1>7, Zenon DEF TimerInv, Walking
<1> QED BY <1>1, <1>7, <1>8, <1>9, <1>10, ZenonT(30) DEF TimerInv

\* The timers of two handles, and of all, are cancelled.
LEMMA CancelTwo ==
    ASSUME TimerInv, NEW a \in Names, NEW b \in Names, a # b,
           NEW q, q = TmrCancelIfSet(TmrCancelIfSet(pool, handle[a]), handle[b])
    PROVE  q \in Pools /\ WellFormed(q) /\ q.of = pool.of /\ In(q.list) = In(pool.list) \ {handle[a], handle[b]}
<1>1. pool \in Pools /\ WellFormed(pool)
  BY Zenon DEF TimerInv, PoolTypes
<1>2. \A x \in {a, b} : handle[x] # 0 => handle[x] \in In(pool.list)
  BY DEF TimerInv, HandlesListed
<1>3. PICK p : p = TmrCancelIfSet(pool, handle[a])
  BY SMTT(30)
<1>4. p \in Pools /\ WellFormed(p) /\ p.of = pool.of /\ In(p.list) = In(pool.list) \ {handle[a]}
  BY <1>1, <1>2, <1>3, CancelIfSetKeeps, Zenon
<1>5. handle[b] # 0 => handle[b] \in In(p.list)
  BY <1>2, <1>4, HandlesDiffer, Zenon
<1>6. q = TmrCancelIfSet(p, handle[b])
  BY <1>3, Zenon
<1>7. q \in Pools /\ WellFormed(q) /\ q.of = p.of /\ In(q.list) = In(p.list) \ {handle[b]}
  BY <1>4, <1>5, <1>6, CancelIfSetKeeps, SMTT(30)
<1> QED BY <1>4, <1>7, Zenon

\* Cancelling the four handles one after the other leaves the pool well formed, with the
\* timers that no handle names.
LEMMA CancelAll ==
    ASSUME TimerInv, NEW a, NEW b, NEW c, NEW d, Names = {a, b, c, d}, a # b, a # c, a # d, b # c, b # d, c # d,
           NEW q, q = TmrCancelIfSet(TmrCancelIfSet(
                          TmrCancelIfSet(TmrCancelIfSet(pool, handle[a]), handle[b]), handle[c]), handle[d])
    PROVE  q \in Pools /\ WellFormed(q) /\ In(q.list) = In(pool.list) \ Handled
<1>1. PICK p : p = TmrCancelIfSet(TmrCancelIfSet(pool, handle[a]), handle[b])
  BY Zenon
<1>2. p \in Pools /\ WellFormed(p) /\ In(p.list) = In(pool.list) \ {handle[a], handle[b]}
  BY <1>1, CancelTwo, Zenon
<1>3. \A x \in {c, d} : handle[x] # 0 => handle[x] \in In(pool.list)
  BY Zenon DEF TimerInv, HandlesListed
<1>4. \A x \in {c, d} : handle[x] # 0 => handle[x] # handle[a] /\ handle[x] # handle[b]
  BY HandlesDiffer
<1>5. \A x \in {c, d} : handle[x] # 0 => handle[x] \in In(p.list)
  BY <1>2, <1>3, <1>4, Zenon
<1>6. PICK r : r = TmrCancelIfSet(p, handle[c])
  BY Zenon
<1>7. r \in Pools /\ WellFormed(r) /\ In(r.list) = In(p.list) \ {handle[c]}
  BY <1>2, <1>5, <1>6, CancelIfSetKeeps, Zenon
<1>8. handle[d] # 0 => handle[d] \in In(r.list)
  BY <1>5, <1>7, HandlesDiffer, Zenon
<1>9. q = TmrCancelIfSet(r, handle[d])
  BY <1>1, <1>6, Zenon
<1>10. q \in Pools /\ WellFormed(q) /\ In(q.list) = In(r.list) \ {handle[d]}
  BY <1>7, <1>8, <1>9, CancelIfSetKeeps, Zenon
<1>11. Handled = {handle[a], handle[b], handle[c], handle[d]}
  BY Zenon DEF Handled
<1> QED BY <1>2, <1>7, <1>10, <1>11, Zenon

\* The client ends the test.
LEMMA EndTimers == ASSUME Types, TimerInv, EndTest PROVE TimerInv'
<1>1. /\ pool' = TmrCancelIfSet(TmrCancelIfSet(pool, handle["stats"]), handle["reporter"])
      /\ handle' = [handle EXCEPT !["stats"] = 0, !["reporter"] = 0]
      /\ UNCHANGED <<cur, nxt>> /\ pc = "check" /\ pc' = "join" /\ after' = "final" /\ ~Callback /\ ~Callback'
  BY Zenon DEF EndTest, Callback, Sampling, ResettingStream
<1>2. /\ pool' \in Pools /\ WellFormed(pool') /\ pool'.of = pool.of
      /\ In(pool'.list) = In(pool.list) \ {handle["stats"], handle["reporter"]}
  BY <1>1, CancelTwo DEF Names
<1>3. PoolTypes
  BY DEF TimerInv
<1>4. \A x \in Names : handle'[x] = IF x \in Periodic THEN 0 ELSE handle[x]
  BY <1>1, <1>3 DEF PoolTypes, Periodic, Names
<1>5. handle' \in [Names -> Nat]
  BY <1>1, <1>3, Zenon DEF PoolTypes
<1>6. PoolTypes'
  BY <1>1, <1>2, <1>3, <1>5 DEF PoolTypes
<1>7. HandlesListed'
  <2> SUFFICES ASSUME NEW y \in Names, handle'[y] # 0
               PROVE  /\ handle'[y] \in In(pool'.list) /\ pool.of[handle'[y]].proc = y
                      /\ (pool.of[handle'[y]].periodic <=> (y \in Periodic))
    BY <1>2, Zenon DEF HandlesListed
  <2>1. handle'[y] = handle[y] /\ y \notin Periodic
    BY <1>4
  <2>2. handle[y] # handle["stats"] /\ handle[y] # handle["reporter"]
    BY <2>1, HandlesDiffer, Zenon DEF Periodic, Names
  <2> QED BY <1>2, <2>1, <2>2, Zenon DEF TimerInv, HandlesListed
<1>8. ListedHandled'
  <2> SUFFICES ASSUME NEW t \in In(pool'.list) PROVE t \in Handled'
    BY Zenon DEF ListedHandled
  <2>1. PICK x \in Names : handle[x] = t
    BY <1>1, <1>2, HandleOf, Zenon
  <2>2. x \notin Periodic
    BY <1>2, <2>1, Zenon DEF Periodic
  <2> QED BY <1>4, <2>1, <2>2, Zenon DEF Handled
<1> QED BY <1>1, <1>6, <1>7, <1>8 DEF TimerInv, Walking

\* The test is freed.
LEMMA FreedTimers == ASSUME Types, TimerInv, FreeTimers PROVE TimerInv'
<1>1. /\ handle' = NoTimer /\ UNCHANGED <<cur, nxt>> /\ pc = "free" /\ pc' = "freed" /\ ~Callback /\ ~Callback'
  BY Zenon DEF FreeTimers, Callback, Sampling, ResettingStream
<1>2. pool' \in Pools /\ WellFormed(pool') /\ In(pool'.list) = In(pool.list) \ Handled
  <2>1. CASE test.server
    BY <2>1, CancelAll, Zenon DEF FreeTimers, Names
  <2>2. CASE ~test.server
    BY <2>2, CancelAll, Zenon DEF FreeTimers, Names
  <2> QED BY <2>1, <2>2
<1>3. In(pool'.list) = {}
  BY <1>1, <1>2, Zenon DEF TimerInv, ListedHandled
<1>4. pool'.list = <<>>
  <2>1. pool'.list \in Seq(Nat)
    BY <1>2, Zenon DEF Pools
  <2>2. Len(pool'.list) = 0
    <3>1. Len(pool'.list) \in Nat /\ DOMAIN pool'.list = 1..Len(pool'.list)
      BY <2>1, LenProperties
    <3>2. 1 \notin DOMAIN pool'.list
      BY <1>3, Zenon DEF In
    <3> QED BY <3>1, <3>2, SMTT(30)
  <2> QED BY <2>1, <2>2, EmptySeq, Zenon
<1>5. \A x \in Names : handle'[x] = 0
  BY <1>1, SMTT(30) DEF NoTimer, Names
<1>6. handle' \in [Names -> Nat]
  BY <1>1, SMTT(30) DEF NoTimer, Names
<1>7. PoolTypes'
  BY <1>1, <1>2, <1>6, Zenon DEF TimerInv, PoolTypes
<1>8. HandlesListed' /\ ListedHandled' /\ Walking'
  BY <1>1, <1>3, <1>5, Zenon DEF HandlesListed, ListedHandled, Walking
<1> QED BY <1>1, <1>4, <1>7, <1>8, Zenon DEF TimerInv

\* The timers of a test are made one after the other.
LEMMA PlanFacts ==
    ASSUME CtlTypes, NEW i \in 1..4
    PROVE  /\ Plan[i].name \in Names /\ (Plan[i].periodic <=> (Plan[i].name \in Periodic))
           /\ Plan[i].periodic \in BOOLEAN /\ Plan[i].usecs \in Nat
           /\ \A j \in 1..4 : i # j => Plan[i].name # Plan[j].name
<1>1. test.duration \in Nat /\ test.interval \in Nat /\ test.omit \in Nat
  BY TestFacts
<1>2. i = 1 \/ i = 2 \/ i = 3 \/ i = 4
  OBVIOUS
<1>3. \A j \in 1..4 : Plan[j].name = IF j = 1 THEN "test" ELSE IF j = 2 THEN "stats"
                                     ELSE IF j = 3 THEN "reporter" ELSE "omit"
  BY DEF Plan
<1>4. Plan[i].usecs \in Nat
  BY <1>1, <1>2, SMTT(30) DEF Plan
<1>5. (Plan[i].periodic <=> (Plan[i].name \in Periodic)) /\ Plan[i].periodic \in BOOLEAN
  <2>1. CASE i = 1 \/ i = 4
    <3>1. Plan[i].periodic = FALSE
      BY <2>1 DEF Plan
    <3>2. Plan[i].name \notin Periodic
      BY <1>3, <2>1 DEF Periodic
    <3> QED BY <3>1, <3>2, Zenon
  <2>2. CASE i = 2 \/ i = 3
    <3>1. Plan[i].periodic = TRUE
      BY <2>2, SMTT(30) DEF Plan
    <3>2. Plan[i].name \in Periodic
      BY <1>3, <2>2, SMTT(30) DEF Periodic
    <3> QED BY <3>1, <3>2, Zenon
  <2> QED BY <1>2, <2>1, <2>2, SMTT(30)
<1>6. Plan[i].name \in Names /\ \A j \in 1..4 : i # j => Plan[i].name # Plan[j].name
  BY <1>2, <1>3 DEF Names
<1> QED BY <1>4, <1>5, <1>6, Zenon

\* create_client_timers and create_server_timers: each handle is set once, to a timer of
\* its kind that no other handle names.
LEMMA CreateTimers == ASSUME Types, TimerInv, CreateTimer PROVE TimerInv'
<1>1. /\ pc = "create" /\ pc' = "create" /\ at' = at + 1 /\ at \in 1..4 /\ UNCHANGED <<cur, nxt>>
      /\ ~Callback /\ ~Callback' /\ now \in Times /\ clock \in Times /\ test' = test
  BY SMTT(30) DEF CreateTimer, Callback, Sampling, ResettingStream, Types, CtlTypes, PcTypes, Plan, clockVars
<1>2. PICK x, t : /\ x = Plan[at] /\ t \in Times
                  /\ IF x.usecs = 0 THEN UNCHANGED <<pool, handle>>
                     ELSE /\ pool' = TmrCreate(pool, x.name, t, Period(x), x.periodic)
                          /\ handle' = [handle EXCEPT ![x.name] = NewTimer(pool)]
  BY <1>1, ZenonT(30) DEF CreateTimer
<1>3. /\ x.name \in Names /\ (x.periodic <=> (x.name \in Periodic)) /\ x.periodic \in BOOLEAN /\ x.usecs \in Nat
      /\ \A j \in 1..4 : at # j => x.name # Plan[j].name
  BY <1>1, <1>2, PlanFacts, ZenonT(30) DEF Types
<1>4. /\ PoolTypes /\ HandlesListed /\ ListedHandled
      /\ \A i \in 1..4 : i >= at => handle[Plan[i].name] = 0
  BY <1>1, ZenonT(30) DEF TimerInv
<1>5. \A i \in 1..4 : Plan[i].name' = Plan[i].name /\ Plan[i].name \in Names
  BY <1>1, PlanFacts, SMTT(30) DEF Plan, Types
<1>6. CASE x.usecs = 0
  <2>1. UNCHANGED <<pool, handle>>
    BY <1>2, <1>6, ZenonT(30)
  <2>2. PoolTypes' /\ HandlesListed' /\ Handled' = Handled
    BY <1>1, <1>4, <2>1, SMTT(30) DEF PoolTypes, HandlesListed, Handled
  <2>3. ListedHandled' /\ Walking'
    BY <1>1, <1>4, <2>1, <2>2, Zenon DEF ListedHandled, Walking
  <2>4. \A i \in 1..4 : i >= at' => handle'[Plan[i].name'] = 0
    BY <1>1, <1>4, <1>5, <2>1, SMTT(30)
  <2> QED BY <1>1, <2>2, <2>3, <2>4, ZenonT(30) DEF TimerInv
<1>7. CASE x.usecs # 0
  <2>1. Period(x) \in Nat
    <3>1. test.omit \in Nat /\ Grace \in Nat
      BY TestFacts, MeasurementConstants, Zenon DEF Types
    <3> QED BY <1>3, <3>1, SMTT(30) DEF Period
  <2>2. x.name \in Kinds
    BY <1>3 DEF Names, Kinds
  <2>3. PICK u : u = NewTimer(pool)
    OBVIOUS
  <2>4. /\ pool' \in Pools /\ WellFormed(pool')
        /\ u # 0 /\ u \notin In(pool.list) /\ In(pool'.list) = In(pool.list) \cup {u}
        /\ pool'.of[u].proc = x.name /\ pool'.of[u].periodic = x.periodic
        /\ \A v \in In(pool.list) : pool'.of[v] = pool.of[v]
    <3>1. PICK n \in Kinds, k \in Nat, b \in BOOLEAN : n = x.name /\ k = Period(x) /\ b = x.periodic
      BY <1>3, <2>1, <2>2, Zenon
    <3>2. pool' = TmrCreate(pool, n, t, k, b)
      BY <1>2, <1>7, <3>1, Zenon
    <3>3. pool \in Pools /\ WellFormed(pool) /\ t \in Times
      BY <1>2, <1>4, Zenon DEF PoolTypes
    <3>4. /\ pool' \in Pools /\ WellFormed(pool')
          /\ u # 0 /\ u \notin In(pool.list) /\ In(pool'.list) = With(In(pool.list), u)
          /\ pool'.of[u].proc = n /\ pool'.of[u].periodic = b
          /\ \A v \in In(pool.list) : pool'.of[v] = pool.of[v]
      BY <2>3, <3>2, <3>3, CreateKeeps
    <3> QED BY <3>1, <3>4, Zenon DEF With
  <2>5. u \in Nat /\ u \in In(pool'.list)
    BY <2>4, NeverNull, Zenon
  <2>6. \A y \in Names : handle'[y] = IF y = x.name THEN u ELSE handle[y]
    BY <1>2, <1>4, <1>7, <2>3, Zenon DEF PoolTypes
  <2>7. handle' \in [Names -> Nat]
    BY <1>2, <1>4, <1>7, <2>3, <2>5, Zenon DEF PoolTypes
  <2>8. PoolTypes'
    BY <1>1, <1>4, <2>4, <2>7, Zenon DEF PoolTypes
  <2>9. HandlesListed'
    <3> SUFFICES ASSUME NEW y \in Names, handle'[y] # 0
                 PROVE  /\ handle'[y] \in In(pool'.list) /\ pool'.of[handle'[y]].proc = y
                        /\ (pool'.of[handle'[y]].periodic <=> (y \in Periodic))
      BY Zenon DEF HandlesListed
    <3>1. CASE y = x.name
      BY <1>3, <2>4, <2>5, <2>6, <3>1, Zenon
    <3>2. CASE y # x.name
      <4>1. handle'[y] = handle[y]
        BY <2>6, <3>2, Zenon
      <4>2. handle[y] \in In(pool.list)
        BY <1>4, <4>1, Zenon DEF HandlesListed
      <4> QED BY <1>4, <2>4, <4>1, <4>2, SMTT(30) DEF HandlesListed
    <3> QED BY <3>1, <3>2
  <2>10. handle[x.name] = 0
    BY <1>1, <1>2, <1>4
  <2>11. ListedHandled'
    <3> SUFFICES ASSUME NEW v \in In(pool'.list) PROVE v \in Handled'
      BY DEF ListedHandled
    <3>1. CASE v = u
      BY <1>3, <2>6, <3>1, Zenon DEF Handled
    <3>2. CASE v # u
      <4>1. PICK y \in Names : handle[y] = v /\ v # 0
        BY <1>1, <2>4, <3>2, HandleOf, Zenon
      <4> QED BY <2>6, <2>10, <4>1, Zenon DEF Handled
    <3> QED BY <3>1, <3>2
  <2>12. \A i \in 1..4 : i >= at' => handle'[Plan[i].name'] = 0
    <3> SUFFICES ASSUME NEW i \in 1..4, i >= at + 1 PROVE handle'[Plan[i].name] = 0
      BY <1>1, <1>5, Zenon
    <3>1. i >= at /\ i # at
      BY <1>1
    <3> QED BY <1>3, <1>4, <1>5, <2>6, <3>1, Zenon
  <2> QED BY <1>1, <2>8, <2>9, <2>11, <2>12, Zenon DEF TimerInv, Walking
<1> QED BY <1>6, <1>7, Zenon

\* Every step of the engine and of the workers keeps the handles and the pool in step.
LEMMA NextTimers == ASSUME Types, TimerInv, [Next]_vars PROVE TimerInv'
<1>1. CASE Engine
  BY <1>1, CreateTimers, QuietTimers, FireTimers, WalkTimers, ResetTimersTimers, EndTimers, FreedTimers, Zenon
  DEF Engine
<1>2. CASE Tick \/ RequestStop \/ Peer \/ (\E s \in Streams : Worker(s)) \/ UNCHANGED vars
  BY <1>2, QuietTimers, Zenon
<1> QED BY <1>1, <1>2, Zenon DEF Next

\* The inductive invariant gives the invariant that is checked.
LEMMA TimersImply == ASSUME Types, TimerInv PROVE TimersWellFormed
<1>1. TypeOK
  <2>1. /\ test \in Tests /\ clock \in Times
        /\ {done, omitting, exceeded} \subseteq BOOLEAN /\ stopped \in {"no", "apart", "midway"}
        /\ state \in {"TEST_START", "TEST_RUNNING", "TEST_END", "SERVER_ERROR"}
    BY DEF Types, CtlTypes, RateTypes
  <2>2. w \in [Streams -> Steps] /\ at \in 1..(N + 5)
    BY Zenon DEF Types, WorkTypes, PcTypes
  <2>3. \A f \in {bytes, ival, base, lost, ooo, pkts, kept, delivered, printed, moved, dups, window} :
           f \in [Streams -> Nat]
    BY DEF Types, ByteTypes, UdpTypes, EntryTypes, HostTypes, WorkTypes, Counters
  <2>4. slot \in 0..(Slots - 1) /\ DOMAIN ring = 0..(Slots - 1)
    BY Zenon DEF Types, RateTypes
  <2>5. {testSent, testRecv, count, sampled, cur, nxt} \subseteq Nat
    BY ZenonT(30) DEF Types, GoalTypes, RateTypes, TempTypes, TimerInv, PoolTypes
  <2> QED BY <2>1, <2>2, <2>3, <2>4, <2>5, Zenon DEF TypeOK
<1>2. DOMAIN handle = Names /\ Listed = In(pool.list)
  BY Zenon DEF TimerInv, PoolTypes, Listed, In
<1>3. WellFormed(pool) /\ (pc = "freed" => pool.list = <<>>)
  BY DEF TimerInv, PoolTypes
<1>4. \A name \in Names : handle[name] # 0 => handle[name] \in In(pool.list) /\ pool.of[handle[name]].proc = name
  BY Zenon DEF TimerInv, HandlesListed
<1>5. \A t \in In(pool.list) : t = cur \/ \E name \in Names : handle[name] = t
  BY Zenon DEF TimerInv, ListedHandled, Handled
<1> QED BY <1>1, <1>2, <1>3, <1>4, <1>5, Zenon DEF TimersWellFormed

\* The list of timer.c stays sorted, free of repetitions and disjoint from the free list,
\* every handle of the test names an active timer of its own kind and every active timer
\* that is not being fired has a handle, whatever the callbacks create, reset and cancel;
\* a freed test leaves no timer behind.
THEOREM TimersSound == Spec => []TimersWellFormed
<1>1. Init => Types /\ TimerInv
  BY InitTypes, InitTimers
<1>2. Types /\ TimerInv /\ [Next]_vars => Types' /\ TimerInv'
  BY NextTypes, NextTimers
<1>3. Types /\ TimerInv => TimersWellFormed
  BY TimersImply, Zenon
<1> QED BY <1>1, <1>2, <1>3, PTL DEF Spec

-----------------------------------------------------------------------------
(* The intervals of a stream add up *)

\* What the counters of a stream have beyond what its intervals account for.
Balance(s) == StreamTotal(s) - (kept[s] + ival[s] + Pending(s) + InTemp(s))
Slack(s) == IF test.omit = 0 THEN {0} ELSE -1..window[s]

\* Nothing has been measured on a stream that the omit reset has still to come to, and
\* between the two halves of its reset the total is what came in between.
StreamInv(s) ==
    /\ ~Sends(s) => base[s] = 0
    /\ omitting => kept[s] = 0 /\ window[s] = 0
    /\ Resetting(s) => /\ kept[s] = 0
                       /\ IF pc = "reset_ival" /\ at = s THEN StreamTotal(s) = window[s] ELSE window[s] = 0
    /\ ~omitting /\ ~Resetting(s) => Balance(s) \in Slack(s)

\* The omit timer fires at most once, while the test is omitting; an entry is
\* measured or omitted by what the test is when it is begun.
OmitInv ==
    /\ handle["omit"] # 0 => omitting /\ test.omit # 0
    /\ pc \in ResettingStream => ~omitting /\ test.omit # 0
    /\ pc \in Sampling => temp.omitted = omitting
    /\ pc = "create" => \A s \in Streams : /\ kept[s] = 0 /\ window[s] = 0 /\ bytes[s] = 0 /\ base[s] = 0
                                           /\ ival[s] = 0 /\ w[s] = "off"

IntervalInv == OmitInv /\ \A s \in Live : StreamInv(s)

-----------------------------------------------------------------------------
\* The counters of a stream are natural numbers.
LEMMA StreamTyped ==
    ASSUME Types, NEW s \in Live
    PROVE  /\ s \in Streams /\ s \in Nat /\ bytes[s] \in Nat /\ base[s] \in Nat /\ ival[s] \in Nat /\ window[s] \in Nat
           /\ kept[s] \in Nat /\ Pending(s) \in {0, 1} /\ InTemp(s) \in Nat /\ w[s] \in Steps
<1>1. s \in Streams /\ s \in Nat
  BY TestFacts, SMTT(30) DEF Types, Live, Streams
<1>2. bytes[s] \in Nat /\ base[s] \in Nat /\ ival[s] \in Nat /\ window[s] \in Nat /\ kept[s] \in Nat /\ w[s] \in Steps
  BY <1>1 DEF Types, ByteTypes, EntryTypes, WorkTypes, Counters
<1>3. temp.bytes \in Nat
  BY DEF Types, TempTypes, EntryType
<1>4. Pending(s) \in {0, 1} /\ InTemp(s) \in Nat
  BY <1>3 DEF Pending, InTemp
<1> QED BY <1>1, <1>2, <1>4, Zenon

\* A step that leaves the balance of a stream alone.
LEMMA SameBalance ==
    ASSUME NEW s, StreamInv(s), test' = test, omitting' = omitting, base'[s] = base[s], window'[s] = window[s],
           Resetting(s)' <=> Resetting(s),
           kept'[s] = kept[s] \/ (~omitting /\ ~Resetting(s)),
           Resetting(s) => /\ bytes'[s] = bytes[s]
                           /\ (pc' = "reset_ival" /\ at' = s) <=> (pc = "reset_ival" /\ at = s),
           Balance(s)' = Balance(s)
    PROVE  StreamInv(s)'
<1>1. (~Sends(s) => base[s] = 0)' /\ (omitting => kept[s] = 0 /\ window[s] = 0)'
  BY ZenonT(30) DEF StreamInv, Sends
<1>2. (Resetting(s) => /\ kept[s] = 0
                       /\ IF pc = "reset_ival" /\ at = s THEN StreamTotal(s) = window[s] ELSE window[s] = 0)'
  BY SMTT(30) DEF StreamInv, StreamTotal
<1>3. (~omitting /\ ~Resetting(s) => Balance(s) \in Slack(s))'
  BY Zenon DEF StreamInv, Slack
<1> QED BY <1>1, <1>2, <1>3, Zenon DEF StreamInv

\* Steps that touch neither the counters nor a stream that is being sampled or reset.
LEMMA QuietIntervals ==
    ASSUME Types, IntervalInv, test' = test, omitting' = omitting, UNCHANGED byteVars, kept' = kept,
           pc \notin Sampling \cup ResettingStream, pc' \notin Sampling \cup ResettingStream \cup {"create"},
           \A s \in Streams : w'[s] = "ival" <=> w[s] = "ival",
           handle'["omit"] \in {handle["omit"], 0}
    PROVE  IntervalInv'
<1>1. OmitInv'
  BY SMTT(30) DEF IntervalInv, OmitInv
<1>2. ASSUME NEW s \in Live PROVE StreamInv(s)'
  <2>1. StreamInv(s) /\ s \in Streams
    BY StreamTyped, Zenon DEF IntervalInv
  <2>2. ~Resetting(s) /\ ~Resetting(s)' /\ InTemp(s)' = InTemp(s) /\ Pending(s)' = Pending(s)
    BY <2>1, SMTT(30) DEF Resetting, ResettingStream, Sampling, InTemp, Pending
  <2>3. bytes' = bytes /\ ival' = ival /\ base' = base /\ window' = window
    BY ZenonT(30) DEF byteVars
  <2>4. Balance(s)' = Balance(s)
    BY <2>2, <2>3, ZenonT(30) DEF Balance, StreamTotal
  <2> QED BY <2>1, <2>2, <2>3, <2>4, SameBalance, ZenonT(30)
<1>3. Live' = Live
  BY DEF Live
<1> QED BY <1>1, <1>2, <1>3, Zenon DEF IntervalInv

\* Steps before the workers are started.
LEMMA FreshIntervals ==
    ASSUME Types, IntervalInv, pc = "create", test' = test, UNCHANGED byteVars, kept' = kept,
           pc' \notin Sampling \cup ResettingStream, \A s \in Streams : w'[s] \in {"off", "loop"},
           pc' = "create" => w' = w, handle'["omit"] # 0 => omitting' /\ test.omit # 0
    PROVE  IntervalInv'
<1>1. bytes' = bytes /\ ival' = ival /\ base' = base /\ window' = window
  BY Zenon DEF byteVars
<1>2. \A s \in Streams : /\ kept[s] = 0 /\ window[s] = 0 /\ bytes[s] = 0 /\ base[s] = 0
                         /\ ival[s] = 0 /\ w[s] = "off"
  BY Zenon DEF IntervalInv, OmitInv
<1>3. OmitInv'
  BY <1>1, <1>2, Zenon DEF OmitInv
<1>4. ASSUME NEW s \in Live PROVE StreamInv(s)'
  <2>1. s \in Streams
    BY StreamTyped, Zenon
  <2>2. ~Resetting(s)' /\ InTemp(s)' = 0 /\ Pending(s)' = 0
    BY <2>1, Zenon DEF Resetting, ResettingStream, Sampling, InTemp, Pending
  <2>3. kept'[s] = 0 /\ window'[s] = 0 /\ bytes'[s] = 0 /\ base'[s] = 0 /\ ival'[s] = 0
    BY <1>1, <1>2, <2>1, Zenon
  <2>4. Balance(s)' = 0
    BY <2>2, <2>3, SMTT(30) DEF Balance, StreamTotal
  <2>5. (Balance(s) \in Slack(s))'
    BY <2>3, <2>4, SMTT(30) DEF Slack
  <2> QED BY <2>2, <2>3, <2>5, Zenon DEF StreamInv
<1>5. Live' = Live
  BY DEF Live
<1> QED BY <1>3, <1>4, <1>5, Zenon DEF IntervalInv

\* Setting up the timers leaves the counters alone; an omit timer is made only for a test
\* that omits.
LEMMA CreateIntervals ==
    ASSUME Types, TimerInv, IntervalInv, CreateTimer \/ CreateTimerFails \/ StartWorkers
    PROVE  IntervalInv'
<1>1. /\ pc = "create" /\ test' = test /\ UNCHANGED byteVars /\ kept' = kept
      /\ pc' \in {"create", "cleanup", "loop"} /\ (pc' = "create" => w' = w)
  BY ZenonT(30) DEF CreateTimer, CreateTimerFails, StartWorkers, clockVars, countVars, workVars, entryVars
<1>2. \A s \in Streams : w[s] = "off"
  BY <1>1, SMTT(30) DEF IntervalInv, OmitInv
<1>3. \A s \in Streams : w'[s] \in {"off", "loop"}
  BY <1>2, Zenon DEF CreateTimer, CreateTimerFails, StartWorkers, countVars, workVars
<1>4. handle'["omit"] # 0 => omitting' /\ test.omit # 0
  <2>1. CASE StartWorkers
    BY <2>1, ZenonT(30) DEF IntervalInv, OmitInv, StartWorkers
  <2>2. \A i \in 1..4 : i >= at => handle[Plan[i].name] = 0
    BY <1>1, ZenonT(30) DEF TimerInv
  <2>3. Plan[4].name = "omit" /\ Plan[4].usecs = test.omit
    BY DEF Plan
  <2>4. CASE CreateTimerFails
    <3>1. at \in 1..4 /\ handle' = handle
      BY <2>4, SMTT(30) DEF CreateTimerFails, Plan, tmrVars, Types, PcTypes
    <3>2. handle["omit"] = 0
      BY <2>2, <2>3, <3>1, SMTT(30)
    <3> QED BY <3>1, <3>2, Zenon
  <2>5. CASE CreateTimer
    <3>1. at \in 1..4
      BY <2>5 DEF CreateTimer, Plan, Types, PcTypes
    <3>2. handle["omit"] = 0
      BY <2>2, <2>3, <3>1
    <3>3. handle \in [Names -> Nat] /\ "omit" \in Names
      BY DEF TimerInv, PoolTypes, Names
    <3>4. CASE handle' = handle
      BY <3>2, <3>4, Zenon
    <3>5. CASE ~(handle' = handle)
      <4>1. /\ Plan[at].usecs # 0 /\ handle' = [handle EXCEPT ![Plan[at].name] = NewTimer(pool)]
            /\ omitting' = (Plan[at].name = "omit")
        BY <2>5, <3>5, ZenonT(30) DEF CreateTimer
      <4>2. Plan[at].name # "omit" => handle'["omit"] = 0
        BY <3>2, <3>3, <4>1, ZenonT(30)
      <4>3. Plan[at].name = "omit" => omitting' /\ test.omit # 0
        <5>1. at # 4 => Plan[at].name # "omit"
          BY <2>3, <3>1, PlanFacts DEF Types
        <5> QED BY <2>3, <4>1, <5>1, ZenonT(30)
      <4> QED BY <4>2, <4>3
    <3> QED BY <3>4, <3>5, Zenon
  <2> QED BY <2>1, <2>4, <2>5, Zenon
<1> QED BY <1>1, <1>3, <1>4, FreshIntervals, Zenon DEF Sampling, ResettingStream

\* A stop that is asked for changes nothing here.
LEMMA SameIntervals ==
    ASSUME IntervalInv,
           UNCHANGED <<test, omitting, byteVars, kept, pc, at, w, temp, handle>>
    PROVE  IntervalInv'
<1>1. OmitInv'
  BY ZenonT(30) DEF IntervalInv, OmitInv, byteVars
<1>2. ASSUME NEW s \in Live PROVE StreamInv(s)'
  BY Zenon DEF IntervalInv, StreamInv, Sends, Resetting, StreamTotal, Balance, Slack, InTemp, Pending, byteVars
<1> QED BY <1>1, <1>2 DEF IntervalInv, Live

\* The steps of the engine between two samples and outside the omit reset.
LEMMA BetweenIntervals ==
    ASSUME Types, TimerInv, IntervalInv,
           \/ Tick \/ RunTimers \/ WalkEnds \/ Reschedule \/ FireTest \/ FireStats \/ FireReporter
           \/ Join \/ StatsDone \/ ResetTimers \/ GoOn \/ EndTest \/ FinalSample \/ SendTestEnd \/ FinishTestEnd
           \/ LeaveLoop \/ FreeTimers \/ Peer
    PROVE  IntervalInv'
<1> USE DEF Sampling, ResettingStream
<1>0. after \in {"loop", "resched", "ended", "final"} /\ handle \in [Names -> Nat]
  BY Zenon DEF Types, PcTypes, TimerInv, PoolTypes
<1>1. CASE Tick \/ RunTimers \/ WalkEnds \/ Reschedule \/ FireStats \/ FireReporter
  <2>1. test' = test /\ omitting' = omitting /\ UNCHANGED byteVars /\ kept' = kept /\ w' = w /\ handle' = handle
    BY <1>1, ZenonT(30) DEF Tick, RunTimers, WalkEnds, Reschedule, FireStats, FireReporter,
              TestUnchanged, clockVars, ctlVars, countVars, workVars, entryVars, tmrVars
  <2>2. pc \in {"loop", "stats", "walk", "resched"} /\ pc' \in {"loop", "walk", "check", "resched", "stats"}
    BY <1>1, Zenon DEF Tick, RunTimers, WalkEnds, Reschedule, FireStats, FireReporter, StatsCallback, Fires, pcVars
  <2> QED BY <2>1, <2>2, QuietIntervals, Zenon
<1>2. CASE FireTest
  <2>1. test' = test /\ omitting' = omitting /\ UNCHANGED byteVars /\ kept' = kept /\ w' = w
    BY <1>2 DEF FireTest, clockVars, countVars, workVars, entryVars
  <2>2. pc = "walk" /\ pc' \in {"join", "resched"} /\ handle' = [handle EXCEPT !["test"] = 0]
    BY <1>2 DEF FireTest, Fires
  <2>3. handle'["omit"] = handle["omit"]
    BY <1>0, <2>2, Zenon DEF Names
  <2> QED BY <2>1, <2>2, <2>3, QuietIntervals, Zenon
<1>3. CASE Join
  <2>1. test' = test /\ omitting' = omitting /\ UNCHANGED byteVars /\ kept' = kept /\ handle' = handle
    BY <1>3, Zenon DEF Join, clockVars, ctlVars, entryVars, tmrVars
  <2>2. pc \in {"join", "cleanup"} /\ pc' \in {"loop", "resched", "ended", "final", "free"}
    BY <1>0, <1>3, Zenon DEF Join
  <2>3. \A s \in Streams : w'[s] = "ival" <=> w[s] = "ival"
    BY <1>3, Zenon DEF Join, CanJoin
  <2> QED BY <2>1, <2>2, <2>3, QuietIntervals, Zenon
<1>4. CASE StatsDone \/ ResetTimers \/ GoOn \/ FinalSample \/ SendTestEnd \/ FinishTestEnd
  <2>1. test' = test /\ omitting' = omitting /\ UNCHANGED byteVars /\ kept' = kept /\ w' = w /\ handle' = handle
    BY <1>4, ZenonT(30) DEF StatsDone, ResetTimers, GoOn, FinalSample, SendTestEnd, FinishTestEnd, ClosingReport,
              TestUnchanged, clockVars, ctlVars, countVars, workVars, entryVars, tmrVars
  <2>2. /\ pc \in {"stats", "reset_timers", "check", "final", "ended"}
        /\ pc' \in {"loop", "resched", "ended", "final", "stats", "await", "cleanup"}
    BY <1>0, <1>4, Zenon DEF StatsDone, ResetTimers, GoOn, FinalSample, SendTestEnd, FinishTestEnd, ClosingReport,
              StatsCallback
  <2> QED BY <2>1, <2>2, QuietIntervals, Zenon
<1>5. CASE LeaveLoop \/ Peer
  <2>1. test' = test /\ omitting' = omitting /\ UNCHANGED byteVars /\ kept' = kept /\ w' = w /\ handle' = handle
    BY <1>5, ZenonT(30) DEF LeaveLoop, Peer, DisplayResults, ReadTestEnd, ReadTerminate, ConnectionFails, ClosingReport,
              TestUnchanged, clockVars, ctlVars, countVars, workVars, entryVars, tmrVars
  <2>2. pc \in {"loop", "await"} /\ pc' \in {"cleanup", "stats"}
    BY <1>5, Zenon DEF LeaveLoop, Peer, DisplayResults, ReadTestEnd, ReadTerminate, ConnectionFails, ClosingReport,
              StatsCallback
  <2> QED BY <2>1, <2>2, QuietIntervals, Zenon
<1>6. CASE EndTest \/ FreeTimers
  <2>1. test' = test /\ omitting' = omitting /\ UNCHANGED byteVars /\ kept' = kept /\ w' = w
    BY <1>6 DEF EndTest, FreeTimers, TestUnchanged, clockVars, ctlVars, countVars, workVars, entryVars
  <2>2. pc \in {"check", "free"} /\ pc' \in {"join", "freed"}
    BY <1>6 DEF EndTest, FreeTimers
  <2>3. handle'["omit"] \in {handle["omit"], 0}
    <3>1. CASE EndTest
      <4>1. handle' = [handle EXCEPT !["stats"] = 0, !["reporter"] = 0]
        BY <3>1, ZenonT(30) DEF EndTest
      <4> QED BY <1>0, <4>1 DEF Names
    <3>2. CASE FreeTimers
      <4>1. handle' = NoTimer
        BY <3>2 DEF FreeTimers
      <4> QED BY <4>1, Zenon DEF NoTimer
    <3> QED BY <1>6, <3>1, <3>2, Zenon
  <2> QED BY <2>1, <2>2, <2>3, QuietIntervals, SMTT(30)
<1> QED BY <1>1, <1>2, <1>3, <1>4, <1>5, <1>6, SMTT(30)

\* The entry of a stream is made of what its counter had, and of nothing else.
LEMMA SampleIntervals ==
    ASSUME Types, IntervalInv, SampleBytes
    PROVE  IntervalInv'
<1>1. /\ test' = test /\ omitting' = omitting /\ UNCHANGED <<bytes, base, window, w, handle>>
      /\ pc = "stats" /\ pc' \in {"stats", "sample_pkts"} /\ at <= test.n
      /\ ival' = [ival EXCEPT ![at] = 0]
      /\ temp'.omitted = omitting /\ temp'.bytes = ival[at]
      /\ \/ pc' = "sample_pkts" /\ at' = at /\ kept' = kept
         \/ pc' = "stats" /\ kept' = IF omitting THEN kept ELSE Add(kept, at, ival[at])
  BY Zenon DEF SampleBytes, AddToIntervalList, ctlVars, workVars, tmrVars
<1>2. at \in Live /\ at \in Streams
  <2>1. at \in Nat /\ at >= 1 /\ test.n \in 1..N /\ N \in Nat
    BY TestFacts, SMTT(30) DEF Types, PcTypes
  <2> QED BY <1>1, <2>1, SMTT(30) DEF Live, Streams
<1>3. OmitInv'
  BY <1>1 DEF IntervalInv, OmitInv, Sampling, ResettingStream
<1>4. ASSUME NEW s \in Live PROVE StreamInv(s)'
  <2>1. StreamInv(s)
    BY Zenon DEF IntervalInv
  <2>2. /\ s \in Streams /\ s \in Nat /\ bytes[s] \in Nat /\ base[s] \in Nat /\ ival[s] \in Nat /\ window[s] \in Nat
        /\ kept[s] \in Nat /\ Pending(s) \in {0, 1} /\ InTemp(s) \in Nat
    BY StreamTyped, Zenon
  <2>3. ~Resetting(s) /\ ~Resetting(s)' /\ InTemp(s) = 0 /\ Pending(s)' = Pending(s)
    BY <1>1 DEF Resetting, InTemp, Pending
  <2>4. ival \in Counters /\ kept \in Counters
    BY Zenon DEF Types, ByteTypes, EntryTypes
  <2>5. ival'[s] = IF s = at THEN 0 ELSE ival[s]
    BY <1>1, <2>2, <2>4, SMTT(30) DEF Counters
  <2>6. kept'[s] = IF s = at /\ pc' = "stats" /\ ~omitting THEN kept[s] + ival[s] ELSE kept[s]
    BY <1>1, <1>2, <2>2, <2>4, SMTT(30) DEF Counters, Add
  <2>7. InTemp(s)' = IF s = at /\ pc' = "sample_pkts" /\ ~omitting THEN ival[s] ELSE 0
    BY <1>1, SMTT(30) DEF InTemp
  <2>8. CASE omitting
    BY <1>1, <2>1, <2>3, <2>6, <2>8, ZenonT(30) DEF StreamInv, Sends
  <2>9. CASE ~omitting
    <3>1. kept'[s] + ival'[s] + InTemp(s)' = kept[s] + ival[s]
      BY <1>1, <2>2, <2>5, <2>6, <2>7, <2>9, SMTT(30)
    <3>2. kept'[s] \in Nat /\ ival'[s] \in Nat /\ InTemp(s)' \in Nat
      BY <2>2, <2>5, <2>6, <2>7, SMTT(30)
    <3>3. Balance(s)' = Balance(s)
      BY <1>1, <2>2, <2>3, <3>1, <3>2, SMTT(30) DEF Balance, StreamTotal
    <3> QED BY <1>1, <2>1, <2>3, <2>9, <3>3, SameBalance, SMTT(30)
  <2> QED BY <2>8, <2>9
<1>5. Live' = Live
  BY <1>1 DEF Live
<1> QED BY <1>3, <1>4, <1>5, Zenon DEF IntervalInv

\* iperf_stats_callback on a UDP stream takes its packets, then its losses, and only then
\* adds the entry: until then the bytes it has taken are in temp.
LEMMA SampleUdpIntervals ==
    ASSUME Types, IntervalInv, SamplePackets \/ SampleOutOfOrder \/ SampleLost
    PROVE  IntervalInv'
<1>1. /\ test' = test /\ omitting' = omitting /\ UNCHANGED <<bytes, ival, base, window, w, handle>>
      /\ pc \in Sampling /\ pc' \in Sampling \cup {"stats"}
      /\ \/ pc' \in Sampling /\ at' = at /\ kept' = kept /\ temp'.omitted = temp.omitted /\ temp'.bytes = temp.bytes
         \/ pc' = "stats" /\ kept' = IF temp.omitted THEN kept ELSE Add(kept, at, temp.bytes)
  <2>1. temp \in EntryType
    BY DEF Types, TempTypes
  <2>2. CASE SamplePackets \/ SampleOutOfOrder
    <3>1. temp'.omitted = temp.omitted /\ temp'.bytes = temp.bytes
      BY <2>1, <2>2, Zenon DEF SamplePackets, SampleOutOfOrder, SampleCounter, EntryType
    <3> QED BY <2>2, <3>1 DEF SamplePackets, SampleOutOfOrder, SampleCounter, Sampling, clockVars, ctlVars, countVars,
                              workVars, byteVars, tmrVars, entryVars
  <2>3. CASE SampleLost
    <3>1. PICK e : e = [temp EXCEPT !.lost = lost[at]] /\ AddToIntervalList(at, e)
      BY <2>3 DEF SampleLost
    <3>2. e.omitted = temp.omitted /\ e.bytes = temp.bytes
      BY <2>1, <3>1, Zenon DEF EntryType
    <3> QED BY <2>3, <3>1, <3>2, Zenon DEF SampleLost, AddToIntervalList, Sampling, clockVars, ctlVars, countVars,
                              workVars, byteVars, tmrVars
  <2> QED BY <2>2, <2>3
<1>2. at \in Live /\ at \in Streams /\ temp.omitted = omitting /\ temp.bytes \in Nat
  <2>1. at \in Nat /\ at >= 1 /\ test.n \in 1..N /\ N \in Nat /\ at <= test.n
    BY <1>1, TestFacts, SMTT(30) DEF Types, PcTypes
  <2> QED BY <1>1, <2>1, SMTT(30) DEF Live, Streams, IntervalInv, OmitInv, Types, TempTypes, EntryType
<1>3. OmitInv'
  BY <1>1, <1>2, Zenon DEF IntervalInv, OmitInv, Sampling, ResettingStream
<1>4. ASSUME NEW s \in Live PROVE StreamInv(s)'
  <2>1. StreamInv(s)
    BY Zenon DEF IntervalInv
  <2>2. /\ s \in Streams /\ s \in Nat /\ bytes[s] \in Nat /\ base[s] \in Nat /\ ival[s] \in Nat /\ window[s] \in Nat
        /\ kept[s] \in Nat /\ Pending(s) \in {0, 1}
    BY StreamTyped, SMTT(30)
  <2>3. ~Resetting(s) /\ ~Resetting(s)' /\ Pending(s)' = Pending(s)
    BY <1>1, Zenon DEF Resetting, Pending, Sampling
  <2>4. kept \in Counters
    BY Zenon DEF Types, EntryTypes
  <2>5. kept'[s] = IF s = at /\ pc' = "stats" /\ ~omitting THEN kept[s] + temp.bytes ELSE kept[s]
    BY <1>1, <1>2, <2>2, <2>4, Zenon DEF Counters, Add, Sampling
  <2>6. InTemp(s) = IF s = at /\ ~omitting THEN temp.bytes ELSE 0
    BY <1>1, <1>2, Zenon DEF InTemp, Sampling
  <2>7. InTemp(s)' = IF s = at /\ pc' # "stats" /\ ~omitting THEN temp.bytes ELSE 0
    BY <1>1, <1>2, Zenon DEF InTemp, Sampling
  <2>8. CASE omitting
    BY <1>1, <2>1, <2>3, <2>5, <2>8, ZenonT(30) DEF StreamInv, Sends
  <2>9. CASE ~omitting
    <3>0. PICK c \in Nat : c = temp.bytes
      BY <1>2, Zenon
    <3>1. \/ kept'[s] = kept[s] + c /\ InTemp(s) = c /\ InTemp(s)' = 0
          \/ kept'[s] = kept[s] /\ InTemp(s)' = InTemp(s) /\ InTemp(s) \in {0, c}
      BY <2>5, <2>6, <2>7, <2>9, <3>0, Zenon
    <3>2. kept[s] \in Nat
      BY <2>2, Zenon
    <3>3. Balance(s)' = Balance(s)
      <4>1. PICK k \in Nat, kk \in Nat, m \in Nat, mm \in Nat :
               /\ k = kept[s] /\ kk = kept'[s] /\ m = InTemp(s) /\ mm = InTemp(s)' /\ kk + mm = k + m
        BY <3>0, <3>1, <3>2
      <4>2. Pending(s) \in Nat
        BY <2>2
      <4>3. PICK b \in Nat, z \in Nat, i \in Nat, p \in Nat :
               b = bytes[s] /\ z = base[s] /\ i = ival[s] /\ p = Pending(s)
        BY <2>2, <4>2, Zenon
      <4>4. (b - z) - (kk + i + p + mm) = (b - z) - (k + i + p + m)
        <5>1. kk + mm = k + m
          BY <4>1, Zenon
        <5> QED BY <5>1
      <4> QED BY <1>1, <2>3, <4>1, <4>3, <4>4, Zenon DEF Balance, StreamTotal
    <3> QED BY <1>1, <2>1, <2>3, <2>9, <3>3, SameBalance, ZenonT(30)
  <2> QED BY <2>8, <2>9
<1>5. Live' = Live
  BY <1>1, Zenon DEF Live
<1> QED BY <1>3, <1>4, <1>5, Zenon DEF IntervalInv

\* The omit timer fires while the test is omitting.
LEMMA FireOmitIntervals == ASSUME Types, TimerInv, IntervalInv, FireOmit PROVE IntervalInv'
<1>1. /\ test' = test /\ UNCHANGED byteVars /\ kept' = kept /\ w' = w /\ ~omitting' /\ at' = 1
      /\ pc = "walk" /\ pc' \in {"reset_pkts", "reset_bytes"} /\ handle' = [handle EXCEPT !["omit"] = 0]
      /\ cur # 0 /\ pool.of[cur].proc = "omit"
  BY Zenon DEF FireOmit, Fires, CurrentIsDue, clockVars, entryVars, workVars
<1>2. ~Callback /\ cur \in In(pool.list) /\ handle \in [Names -> Nat]
  BY <1>1, Zenon DEF Callback, Sampling, ResettingStream, TimerInv, PoolTypes
<1>3. handle["omit"] # 0
  BY <1>1, <1>2, HandleOf, Zenon
<1>4. omitting /\ test.omit # 0
  BY <1>3, ZenonT(30) DEF IntervalInv, OmitInv
<1>5. handle'["omit"] = 0
  BY <1>1, <1>2, Zenon DEF Names
<1>6. OmitInv'
  BY <1>1, <1>4, <1>5, ZenonT(30) DEF OmitInv, Sampling, ResettingStream
<1>7. ASSUME NEW s \in Live PROVE StreamInv(s)'
  <2>1. StreamInv(s) /\ s \in Nat /\ s >= 1
    BY StreamTyped, TestFacts, SMTT(30) DEF IntervalInv, Live, Types
  <2>2. Resetting(s)' /\ ~(pc' = "reset_ival" /\ at' = s)
    BY <1>1, <2>1, Zenon DEF Resetting
  <2> QED BY <1>1, <1>4, <2>1, <2>2, Zenon DEF StreamInv, Sends, byteVars
<1>8. Live' = Live
  BY <1>1, Zenon DEF Live
<1> QED BY <1>6, <1>7, <1>8, Zenon DEF IntervalInv

\* The packet counters of a stream get their baselines.
LEMMA BaselineIntervals ==
    ASSUME Types, IntervalInv, ResetPackets \/ ResetLost \/ ResetOutOfOrder
    PROVE  IntervalInv'
<1>1. /\ test' = test /\ omitting' = omitting /\ UNCHANGED byteVars /\ kept' = kept /\ w' = w /\ at' = at
      /\ handle' = handle /\ pc \in ResettingStream /\ pc # "reset_ival" /\ pc' \in ResettingStream
      /\ pc' # "reset_ival"
  BY Zenon DEF ResetPackets, ResetLost, ResetOutOfOrder, ResetBaseline, ResettingStream, clockVars, ctlVars, workVars,
         tmrVars, entryVars
<1>2. OmitInv'
  BY <1>1, SMTT(30) DEF IntervalInv, OmitInv, Sampling, ResettingStream
<1>3. ASSUME NEW s \in Live PROVE StreamInv(s)'
  <2>1. StreamInv(s)
    BY DEF IntervalInv
  <2>2. /\ Resetting(s)' <=> Resetting(s)
        /\ InTemp(s)' = 0 /\ InTemp(s) = 0 /\ Pending(s)' = Pending(s)
    BY <1>1, Zenon DEF Resetting, ResettingStream, InTemp, Pending
  <2>3. Balance(s)' = Balance(s)
    BY <1>1, <2>2, Zenon DEF Balance, StreamTotal, byteVars
  <2> QED BY <1>1, <2>1, <2>2, <2>3, SameBalance, ZenonT(30) DEF byteVars
<1>4. Live' = Live
  BY <1>1, Zenon DEF Live
<1> QED BY <1>2, <1>3, <1>4 DEF IntervalInv

\* The total of a stream starts again.
LEMMA ResetBytesIntervals == ASSUME Types, IntervalInv, ResetBytes PROVE IntervalInv'
<1>1. /\ test' = test /\ omitting' = omitting /\ UNCHANGED <<ival, window>> /\ kept' = kept /\ w' = w /\ at' = at
      /\ handle' = handle /\ pc = "reset_bytes" /\ pc' = "reset_ival"
      /\ IF Sends(at) THEN base' = [base EXCEPT ![at] = bytes[at]] /\ bytes' = bytes
         ELSE bytes' = [bytes EXCEPT ![at] = 0] /\ base' = base
  BY DEF ResetBytes, clockVars, ctlVars, workVars, tmrVars, entryVars
<1>2. at \in Streams /\ at \in Nat /\ bytes \in Counters /\ base \in Counters
  <2>1. at \in Nat /\ at >= 1 /\ test.n \in 1..N /\ N \in Nat /\ at <= test.n
    BY <1>1, TestFacts, SMTT(30) DEF Types, PcTypes, ResettingStream
  <2> QED BY <2>1, SMTT(30) DEF Streams, Types, ByteTypes
<1>3. OmitInv'
  BY <1>1, Zenon DEF IntervalInv, OmitInv, Sampling, ResettingStream
<1>4. ASSUME NEW s \in Live PROVE StreamInv(s)'
  <2>1. StreamInv(s)
    BY DEF IntervalInv
  <2>2. /\ s \in Streams /\ s \in Nat /\ bytes[s] \in Nat /\ base[s] \in Nat
    BY StreamTyped, SMTT(30)
  <2>3. CASE s = at
    <3>1. Resetting(s) /\ Resetting(s)' /\ pc' = "reset_ival" /\ at' = s
      BY <1>1, <1>2, <2>3, SMTT(30) DEF Resetting
    <3>2. kept[s] = 0 /\ window[s] = 0 /\ (~Sends(s) => base[s] = 0)
      BY <1>1, <2>1, <3>1, ZenonT(30) DEF StreamInv
    <3>3. bytes'[s] = base'[s] /\ bytes'[s] \in Nat /\ (~Sends(s) => base'[s] = 0)
      BY <1>1, <1>2, <2>2, <2>3, <3>2, Zenon DEF Counters
    <3>4. StreamTotal(s)' = 0
      BY <3>3, SMTT(30) DEF StreamTotal
    <3> QED BY <1>1, <3>1, <3>2, <3>3, <3>4, ZenonT(30) DEF StreamInv, Sends
  <2>4. CASE s # at
    <3>1. /\ Resetting(s)' <=> Resetting(s)
          /\ InTemp(s)' = 0 /\ InTemp(s) = 0 /\ Pending(s)' = Pending(s)
      BY <1>1, <2>4, Zenon DEF Resetting, InTemp, Pending
    <3>2. bytes'[s] = bytes[s] /\ base'[s] = base[s]
      BY <1>1, <1>2, <2>2, <2>4, Zenon DEF Counters
    <3>3. Balance(s)' = Balance(s)
      BY <1>1, <3>1, <3>2, ZenonT(30) DEF Balance, StreamTotal
    <3> QED BY <1>1, <2>1, <2>4, <3>1, <3>2, <3>3, SameBalance, ZenonT(30)
  <2> QED BY <2>3, <2>4, Zenon
<1>5. Live' = Live
  BY <1>1, Zenon DEF Live
<1> QED BY <1>3, <1>4, <1>5, SMTT(30) DEF IntervalInv

\* The interval of a stream starts again, one access later.
LEMMA ResetIntervalIntervals == ASSUME Types, IntervalInv, ResetInterval PROVE IntervalInv'
<1>1. /\ test' = test /\ omitting' = omitting /\ UNCHANGED <<bytes, base, window>> /\ kept' = kept /\ w' = w
      /\ handle' = handle /\ pc = "reset_ival" /\ ival' = [ival EXCEPT ![at] = 0]
      /\ IF at < test.n THEN pc' \in {"reset_pkts", "reset_bytes"} /\ at' = at + 1 ELSE pc' = "reset_timers" /\ at' = at
  BY Zenon DEF ResetInterval, clockVars, ctlVars, workVars, tmrVars
<1>2. at \in Nat /\ at <= test.n /\ test.n \in Nat /\ ival \in Counters /\ ~omitting /\ test.omit # 0
  BY <1>1, TestFacts, SMTT(30) DEF Types, PcTypes, ResettingStream, ByteTypes, IntervalInv, OmitInv
<1>3. OmitInv'
  BY <1>1, <1>2, Zenon DEF IntervalInv, OmitInv, Sampling, ResettingStream
<1>4. ASSUME NEW s \in Live PROVE StreamInv(s)'
  <2>1. StreamInv(s)
    BY DEF IntervalInv
  <2>2. /\ s \in Streams /\ s \in Nat /\ bytes[s] \in Nat /\ base[s] \in Nat /\ ival[s] \in Nat /\ window[s] \in Nat
        /\ kept[s] \in Nat /\ Pending(s) \in {0, 1} /\ s <= test.n
    BY <1>2, StreamTyped, SMTT(30) DEF Live
  <2>3. InTemp(s)' = 0 /\ InTemp(s) = 0 /\ Pending(s)' = Pending(s)
    BY <1>1, Zenon DEF InTemp, Pending
  <2>4. ival'[s] = IF s = at THEN 0 ELSE ival[s]
    BY <1>1, <1>2, <2>2, Zenon DEF Counters
  <2>5. CASE s = at
    <3>1. Resetting(s) /\ kept[s] = 0 /\ StreamTotal(s) = window[s]
      BY <1>1, <1>2, <2>1, <2>5, SMTT(30) DEF Resetting, StreamInv
    <3>2. ~Resetting(s)'
      BY <1>1, <1>2, <2>5, SMTT(30) DEF Resetting
    <3>3. Balance(s)' = window[s] - Pending(s)
      BY <1>1, <2>2, <2>3, <2>4, <2>5, <3>1, SMTT(30) DEF Balance, StreamTotal
    <3>4. window[s] - Pending(s) \in -1..window[s]
      BY <2>2, SMTT(30)
    <3>5. (Balance(s) \in Slack(s))'
      BY <1>1, <1>2, <3>3, <3>4, Zenon DEF Slack
    <3> QED BY <1>1, <1>2, <2>1, <3>2, <3>5, ZenonT(30) DEF StreamInv, Sends
  <2>6. CASE s # at
    <3>1. Resetting(s)' <=> Resetting(s)
      BY <1>1, <1>2, <2>2, <2>6, SMTT(30) DEF Resetting
    <3>2. ~(pc' = "reset_ival" /\ at' = s) /\ ~(pc = "reset_ival" /\ at = s)
      BY <1>1, <2>6, Zenon
    <3>3. Balance(s)' = Balance(s)
      BY <1>1, <2>3, <2>4, <2>6, Zenon DEF Balance, StreamTotal
    <3> QED BY <1>1, <2>1, <3>1, <3>2, <3>3, SameBalance, SMTT(30)
  <2> QED BY <2>5, <2>6
<1>5. Live' = Live
  BY <1>1 DEF Live
<1> QED BY <1>3, <1>4, <1>5 DEF IntervalInv

\* What a worker adds to the total it adds to the interval, one access later.
LEMMA WorkerIntervals == ASSUME Types, IntervalInv, NEW q \in Streams, Worker(q) PROVE IntervalInv'
<1>0. UNCHANGED engineVars
  BY Zenon DEF Worker, WorkerLoop, Throttled, CallMovesNothing, TcpCall, UdpArrives, UdpNumber, UdpWritten,
         UdpRefused, CountBytes, CountInterval, UdpForward, UdpHighest, UdpBackward, UdpFound, CountTest
<1>1. test' = test /\ omitting' = omitting /\ kept' = kept /\ pc' = pc /\ at' = at /\ temp' = temp /\ handle' = handle
  BY <1>0, Zenon DEF engineVars, clockVars, ctlVars, entryVars, pcVars, tempVars, tmrVars
<1>2. w \in [Streams -> Steps] /\ bytes \in Counters /\ ival \in Counters /\ window \in Counters
  BY SMTT(30) DEF Types, WorkTypes, ByteTypes
<1>3. PICK p \in Steps : w' = [w EXCEPT ![q] = p] /\ w[q] # "off"
  BY <1>2, ZenonT(30) DEF Worker, WorkerLoop, Throttled, CallMovesNothing, TcpCall, UdpArrives, UdpNumber, UdpWritten,
         UdpRefused, CountBytes, CountInterval, UdpForward, UdpHighest, UdpBackward, UdpFound, CountTest,
         Goto, Steps
<1>4. \/ CountBytes(q) \/ CountInterval(q)
      \/ UNCHANGED byteVars /\ w[q] # "ival" /\ p # "ival"
  BY <1>2, <1>3, ZenonT(30) DEF Worker, WorkerLoop, Throttled, CallMovesNothing, TcpCall, UdpArrives, UdpNumber, UdpWritten,
         UdpRefused, UdpForward, UdpHighest, UdpBackward, UdpFound, CountTest, Goto
<1>5. pc # "create"
  BY <1>3, ZenonT(30) DEF IntervalInv, OmitInv
<1>6. OmitInv'
  BY <1>1, <1>5, Zenon DEF IntervalInv, OmitInv
<1>7. ASSUME NEW s \in Live PROVE StreamInv(s)'
  <2>1. StreamInv(s)
    BY Zenon DEF IntervalInv
  <2>2. /\ s \in Streams /\ s \in Nat /\ bytes[s] \in Nat /\ base[s] \in Nat /\ ival[s] \in Nat /\ window[s] \in Nat
        /\ kept[s] \in Nat /\ InTemp(s) \in Nat
    BY StreamTyped, Zenon
  <2>3. /\ Resetting(s)' <=> Resetting(s)
        /\ InTemp(s)' = InTemp(s)
    BY <1>1, SMTT(30) DEF Resetting, InTemp
  <2>4. CASE UNCHANGED byteVars /\ w[q] # "ival" /\ p # "ival"
    <3>1. Pending(s)' = Pending(s)
      BY <1>2, <1>3, <2>2, <2>4, Zenon DEF Pending
    <3>2. Balance(s)' = Balance(s)
      BY <1>1, <2>3, <2>4, <3>1, ZenonT(30) DEF Balance, StreamTotal, byteVars
    <3> QED BY <1>1, <2>1, <2>3, <2>4, <3>2, SameBalance, ZenonT(30) DEF byteVars
  <2>5. CASE CountBytes(q)
    <3>1. /\ w[q] = "bytes" /\ w' = [w EXCEPT ![q] = "ival"] /\ bytes' = Add(bytes, q, 1) /\ UNCHANGED <<ival, base>>
          /\ window' = IF pc = "reset_ival" /\ at = q THEN Add(window, q, 1) ELSE window
      BY <2>5, Zenon DEF CountBytes, Goto
    <3>2. bytes'[s] = (IF s = q THEN bytes[s] + 1 ELSE bytes[s]) /\ ival'[s] = ival[s] /\ base'[s] = base[s]
      BY <1>2, <2>2, <3>1, Zenon DEF Add, Counters
    <3>3. window'[s] = IF s = q /\ pc = "reset_ival" /\ at = s THEN window[s] + 1 ELSE window[s]
      BY <1>2, <2>2, <3>1, Zenon DEF Add, Counters
    <3>4. Pending(s)' = IF s = q THEN Pending(s) + 1 ELSE Pending(s)
      BY <1>2, <2>2, <3>1, SMTT(30) DEF Pending
    <3>5. Pending(s) \in {0, 1}
      BY SMTT(30) DEF Pending
    <3>6. CASE s = q /\ pc = "reset_ival" /\ at = s
      <4>1. Resetting(s) /\ Resetting(s)' /\ kept[s] = 0 /\ StreamTotal(s) = window[s] /\ ~omitting
        BY <1>1, <2>1, <2>2, <3>6, SMTT(30) DEF Resetting, StreamInv, IntervalInv, OmitInv, ResettingStream
      <4>2. StreamTotal(s)' = window'[s]
        BY <2>2, <3>2, <3>3, <3>6, <4>1, SMTT(30) DEF StreamTotal
      <4> QED BY <1>1, <2>1, <3>2, <3>6, <4>1, <4>2, ZenonT(30) DEF StreamInv, Sends
    <3>7. CASE ~(s = q /\ pc = "reset_ival" /\ at = s)
      <4>1. Balance(s)' = Balance(s)
        BY <1>1, <2>2, <2>3, <3>2, <3>4, <3>5, SMTT(30) DEF Balance, StreamTotal
      <4>2. CASE Resetting(s) /\ pc = "reset_ival" /\ at = s
        BY <1>1, <2>1, <2>3, <3>2, <3>3, <3>7, <4>1, <4>2, SameBalance, ZenonT(30)
      <4>3. CASE Resetting(s) /\ ~(pc = "reset_ival" /\ at = s)
        BY <1>1, <2>1, <2>3, <3>2, <3>3, <4>3, ZenonT(30) DEF StreamInv, Sends
      <4>4. CASE ~Resetting(s)
        BY <1>1, <2>1, <2>3, <3>2, <3>3, <3>7, <4>1, <4>4, SameBalance, ZenonT(30)
      <4> QED BY <4>2, <4>3, <4>4, Zenon
    <3> QED BY <3>6, <3>7, Zenon
  <2>6. CASE CountInterval(q)
    <3>1. /\ w[q] = "ival" /\ w'[q] # "ival" /\ ival' = Add(ival, q, 1) /\ UNCHANGED <<bytes, base, window>>
      BY <1>2, <2>6, Zenon DEF CountInterval, Goto
    <3>2. ival'[s] = IF s = q THEN ival[s] + 1 ELSE ival[s]
      BY <1>2, <2>2, <3>1, Zenon DEF Add, Counters
    <3>3. Pending(s)' = IF s = q THEN Pending(s) - 1 ELSE Pending(s)
      BY <1>2, <1>3, <2>2, <3>1, SMTT(30) DEF Pending
    <3>4. Pending(s) \in {0, 1}
      BY DEF Pending
    <3>5. Balance(s)' = Balance(s)
      BY <1>1, <2>2, <2>3, <3>1, <3>2, <3>3, <3>4, SMTT(30) DEF Balance, StreamTotal
    <3> QED BY <1>1, <2>1, <2>3, <3>1, <3>5, SameBalance, ZenonT(30)
  <2> QED BY <1>4, <2>4, <2>5, <2>6, Zenon
<1>8. Live' = Live
  BY <1>1 DEF Live
<1> QED BY <1>6, <1>7, <1>8, Zenon DEF IntervalInv

\* Nothing has been moved or sampled at first.
LEMMA InitIntervals == Init => IntervalInv
<1> SUFFICES ASSUME Init PROVE IntervalInv
  OBVIOUS
<1>1. \A s \in Streams : /\ kept[s] = 0 /\ window[s] = 0 /\ bytes[s] = 0 /\ base[s] = 0
                         /\ ival[s] = 0 /\ w[s] = "off"
  BY ZenonT(30) DEF Init, Zero
<1>2. pc = "create" /\ handle["omit"] = 0 /\ ~omitting
  BY ZenonT(30) DEF Init, NoTimer
<1>3. OmitInv
  BY <1>1, <1>2, Zenon DEF OmitInv, Sampling, ResettingStream
<1>4. ASSUME NEW s \in Live PROVE StreamInv(s)
  <2>1. s \in Streams
    BY InitTypes, StreamTyped, Zenon
  <2>2. Balance(s) = 0 /\ ~Resetting(s)
    BY <1>1, <1>2, <2>1 DEF Balance, StreamTotal, Pending, InTemp, Resetting
  <2>3. Balance(s) \in Slack(s)
    <3>1. Balance(s) = 0 /\ window[s] = 0
      BY <1>1, <2>1, <2>2, Zenon
    <3>2. 0 \in {0} /\ 0 \in -1..0
      OBVIOUS
    <3> QED BY <3>1, <3>2, Zenon DEF Slack
  <2> QED BY <1>1, <1>2, <2>1, <2>2, <2>3, Zenon DEF StreamInv
<1> QED BY <1>3, <1>4, Zenon DEF IntervalInv

\* Every step keeps the balance of every stream.
LEMMA NextIntervals == ASSUME Types, TimerInv, IntervalInv, [Next]_vars PROVE IntervalInv'
<1>1. CASE RequestStop \/ UNCHANGED vars
  <2>1. UNCHANGED <<test, omitting, byteVars, kept, pc, at, w, temp, handle>>
    BY <1>1, Zenon DEF RequestStop, vars, clockVars, ctlVars, tmrVars, pcVars, tempVars, countVars, workVars, entryVars
  <2> QED BY <2>1, SameIntervals
<1>2. CASE Tick \/ Peer
  BY <1>2, BetweenIntervals
<1>3. CASE Engine
  BY <1>3, CreateIntervals, BetweenIntervals, SampleIntervals, SampleUdpIntervals, FireOmitIntervals,
     BaselineIntervals, ResetBytesIntervals, ResetIntervalIntervals, Zenon DEF Engine
<1>4. ASSUME NEW s \in Streams, Worker(s) PROVE IntervalInv'
  BY <1>4, WorkerIntervals
<1> QED BY <1>1, <1>2, <1>3, <1>4, Zenon DEF Next

\* What the intervals of a stream report adds up to what the stream moved, up to the bytes
\* the workers count while the omit reset passes over the stream.
THEOREM IntervalsSound == Spec => []IntervalsAddUp
<1>1. Init => Types /\ TimerInv /\ IntervalInv
  BY InitTypes, InitTimers, InitIntervals, Zenon
<1>2. Types /\ TimerInv /\ IntervalInv /\ [Next]_vars => Types' /\ TimerInv' /\ IntervalInv'
  BY NextTypes, NextTimers, NextIntervals, Zenon
<1>3. IntervalInv => IntervalsAddUp
  BY DEF IntervalInv, StreamInv, IntervalsAddUp, Balance, Slack
<1> QED BY <1>1, <1>2, <1>3, PTL DEF Spec

-----------------------------------------------------------------------------
(* The intervals of a stream follow each other *)

\* Where the next entry of a stream begins.
NextStart(s) == IF entry[s].null THEN startT[s] ELSE endT[s]

\* An entry of stream s that begins at t goes on from the one before it.
GoesOn(s, t) ==
    /\ ~omitting /\ (entry[s].null \/ entry[s].omitted) => t = startT[s]
    /\ ~entry[s].null /\ omitting = entry[s].omitted => t = entry[s].end

\* No stream has a measured entry before the omit reset is over, and the entry that is
\* being made, or would be made next, goes on from the one before it.
TileOf(s) ==
    /\ startT[s] <= TimeInUsecs(clock) /\ endT[s] <= TimeInUsecs(clock)
    /\ pc = "create" => entry[s] = NoEntry
    /\ omitting \/ pc \in ResettingStream => entry[s].omitted
    /\ IF pc \in Sampling /\ at = s
       THEN ~temp.null /\ temp.end = endT[s] /\ temp.start <= temp.end /\ GoesOn(s, temp.start)
       ELSE Resetting(s) \/ GoesOn(s, NextStart(s))

TileInv == \A s \in Live : TileOf(s)

\* What a step that changes the entry of a stream writes.
EntryGoesOn(s) ==
    entry'[s] # entry[s] => /\ entry'[s].start <= entry'[s].end
                            /\ GoesOn(s, entry'[s].start) /\ entry'[s].omitted = omitting

-----------------------------------------------------------------------------
\* One more microsecond.
LEMMA TimePasses ==
    ASSUME NEW t \in Times
    PROVE  TimeAddUsecs(t, 1) \in Times /\ TimeInUsecs(TimeAddUsecs(t, 1)) = TimeInUsecs(t) + 1
<1>1. PICK a \in Nat, b \in Nat, u \in Nat : a = t.secs /\ b = t.usecs /\ u = UsecsPerSec /\ b < u
  BY TimerConstants DEF Times
<1>2. PICK r : r = TimeAddUsecs(t, 1)
  OBVIOUS
<1>3. r.secs = a + (b + 1) \div u /\ r.usecs = (b + 1) % u
  BY <1>1, <1>2, SMTT(30) DEF TimeAddUsecs
<1>4. CASE b + 1 < u
  <2>1. (b + 1) \div u = 0 /\ (b + 1) % u = b + 1
    BY <1>1, <1>4
  <2>2. r.secs = a /\ r.usecs = b + 1
    BY <1>3, <2>1
  <2>3. a * u \in Nat /\ a * u + (b + 1) = (a * u + b) + 1
    BY <1>1
  <2> QED BY <1>1, <1>2, <2>2, <2>3, TimesAdd, SMTT(30) DEF TimeInUsecs
<1>5. CASE b + 1 = u
  <2>1. (b + 1) \div u = 1 /\ (b + 1) % u = 0
    BY <1>1, <1>5
  <2>2. r.secs = a + 1 /\ r.usecs = 0
    BY <1>3, <2>1
  <2>3. a * u \in Nat /\ (a + 1) * u = a * u + u
    BY <1>1
  <2>4. (a + 1) * u + 0 = (a * u + b) + 1
    BY <1>1, <1>5, <2>3
  <2> QED BY <1>1, <1>2, <2>2, <2>4, TimesAdd, SMTT(30) DEF TimeInUsecs
<1> QED BY <1>1, <1>4, <1>5

\* The entries and times of a stream have their types.
LEMMA TileTyped ==
    ASSUME Types, NEW s \in Live
    PROVE  /\ s \in Streams /\ s \in Nat /\ s >= 1 /\ s <= test.n /\ startT[s] \in Nat /\ endT[s] \in Nat
           /\ entry[s] \in EntryType /\ TimeInUsecs(clock) \in Nat /\ clock \in Times /\ omitting \in BOOLEAN
<1>1. s \in Streams /\ s \in Nat
  BY StreamTyped
<1>2. s >= 1 /\ s <= test.n
  BY TestFacts, SMTT(30) DEF Types, Live
<1>3. startT[s] \in Nat /\ endT[s] \in Nat /\ entry[s] \in EntryType
  BY <1>1 DEF Types, EntryTypes, Counters
<1>4. TimeInUsecs(clock) \in Nat /\ clock \in Times /\ omitting \in BOOLEAN
  BY TimeIsNat DEF Types, CtlTypes
<1> QED BY <1>1, <1>2, <1>3, <1>4

\* A step that leaves the entries and times of every stream alone, and takes no stream
\* into or out of a sample or a reset.
LEMMA QuietTiles ==
    ASSUME Types, TileInv, test' = test, omitting' = omitting, UNCHANGED entryVars,
           \A s \in Live : TimeInUsecs(clock) <= TimeInUsecs(clock)' /\ TimeInUsecs(clock)' \in Nat,
           pc \notin Sampling \cup ResettingStream, pc' \notin Sampling \cup ResettingStream \cup {"create"}
    PROVE  TileInv'
<1>1. ASSUME NEW s \in Live PROVE TileOf(s)'
  <2>1. TileOf(s) /\ entry' = entry /\ startT' = startT /\ endT' = endT
    BY Zenon DEF TileInv, entryVars
  <2>2. ~Resetting(s) /\ ~Resetting(s)'
    BY Zenon DEF Resetting, ResettingStream
  <2>3. (startT[s] <= TimeInUsecs(clock) /\ endT[s] <= TimeInUsecs(clock))'
    <3>1. PICK a \in Nat, b \in Nat, c \in Nat, d \in Nat :
             a = startT[s] /\ b = endT[s] /\ c = TimeInUsecs(clock) /\ d = TimeInUsecs(clock)' /\ c <= d
      BY TileTyped, Zenon
    <3>2. a <= c /\ b <= c
      BY <2>1, <3>1, Zenon DEF TileOf
    <3>3. a <= d /\ b <= d
      BY <3>1, <3>2
    <3> QED BY <2>1, <3>1, <3>3, Zenon
  <2>4. GoesOn(s, NextStart(s))'
    BY <2>1, <2>2, Zenon DEF TileOf, GoesOn, NextStart
  <2> QED BY <2>1, <2>3, <2>4, Zenon DEF TileOf
<1>2. Live' = Live
  BY DEF Live
<1> QED BY <1>1, <1>2, Zenon DEF TileInv

\* A step that leaves everything the intervals depend on alone.
LEMMA SameTiles ==
    ASSUME TileInv, UNCHANGED <<test, clock, omitting, entryVars, pc, at, temp>>
    PROVE  TileInv'
<1>1. entry' = entry /\ startT' = startT /\ endT' = endT /\ Live' = Live
  BY Zenon DEF entryVars, Live
<1>2. ASSUME NEW s \in Live PROVE TileOf(s)'
  BY <1>1, ZenonT(30) DEF TileInv, TileOf, GoesOn, NextStart, Resetting
<1> QED BY <1>1, <1>2, Zenon DEF TileInv

\* The steps of the engine between two samples and outside the omit reset.
LEMMA BetweenTiles ==
    ASSUME Types, TileInv,
           \/ Tick \/ RunTimers \/ WalkEnds \/ Reschedule \/ FireTest \/ FireStats \/ FireReporter
           \/ Join \/ StatsDone \/ ResetTimers \/ GoOn \/ EndTest \/ FinalSample \/ SendTestEnd \/ FinishTestEnd
           \/ LeaveLoop \/ FreeTimers \/ Peer
    PROVE  TileInv' /\ UNCHANGED entryVars
<1> USE DEF Sampling, ResettingStream
<1>0. after \in {"loop", "resched", "ended", "final"} /\ clock \in Times
  BY Zenon DEF Types, PcTypes, CtlTypes
<1>1. test' = test /\ omitting' = omitting /\ UNCHANGED entryVars /\ (clock' = clock \/ clock' = TimeAddUsecs(clock, 1))
  <2>1. CASE Tick \/ RunTimers \/ WalkEnds \/ Reschedule \/ FireTest \/ FireStats \/ FireReporter
    BY <2>1, ZenonT(30) DEF Tick, RunTimers, WalkEnds, Reschedule, FireTest, FireStats, FireReporter,
              TestUnchanged, clockVars, ctlVars
  <2>2. CASE Join \/ StatsDone \/ ResetTimers \/ GoOn \/ FinalSample \/ SendTestEnd \/ FinishTestEnd
    BY <2>2, ZenonT(30) DEF Join, StatsDone, ResetTimers, GoOn, FinalSample, SendTestEnd, FinishTestEnd, ClosingReport,
              TestUnchanged, clockVars, ctlVars
  <2>3. CASE LeaveLoop \/ Peer \/ EndTest \/ FreeTimers
    BY <2>3, ZenonT(30) DEF LeaveLoop, Peer, DisplayResults, ReadTestEnd, ReadTerminate, ConnectionFails, ClosingReport,
              EndTest, FreeTimers, TestUnchanged, clockVars, ctlVars
  <2> QED BY <2>1, <2>2, <2>3, Zenon
<1>2. pc \notin Sampling \cup ResettingStream /\ pc' \notin Sampling \cup ResettingStream \cup {"create"}
  <2>1. CASE Tick \/ RunTimers \/ WalkEnds \/ Reschedule \/ FireTest \/ FireStats \/ FireReporter
    <3>1. /\ pc \in {"loop", "stats", "walk", "resched"}
          /\ pc' \in {"loop", "walk", "check", "resched", "stats", "join"}
      BY <2>1, Zenon DEF Tick, RunTimers, WalkEnds, Reschedule, FireTest, FireStats, FireReporter, StatsCallback,
                         Fires, pcVars
    <3> QED BY <3>1, Zenon
  <2>2. CASE Join \/ StatsDone \/ ResetTimers \/ GoOn \/ FinalSample \/ SendTestEnd \/ FinishTestEnd
    <3>1. /\ pc \in {"join", "cleanup", "stats", "reset_timers", "check", "final", "ended"}
          /\ pc' \in {"loop", "resched", "ended", "final", "stats", "await", "cleanup", "free"}
      BY <1>0, <2>2, Zenon DEF Join, StatsDone, ResetTimers, GoOn, FinalSample, SendTestEnd, FinishTestEnd,
              ClosingReport, StatsCallback
    <3> QED BY <3>1, Zenon
  <2>3. CASE LeaveLoop \/ Peer \/ EndTest \/ FreeTimers
    <3>1. pc \in {"loop", "await", "check", "free"} /\ pc' \in {"cleanup", "stats", "join", "freed"}
      BY <2>3, Zenon DEF LeaveLoop, Peer, DisplayResults, ReadTestEnd, ReadTerminate, ConnectionFails, ClosingReport,
              StatsCallback, EndTest, FreeTimers
    <3> QED BY <3>1, Zenon
  <2> QED BY <2>1, <2>2, <2>3, Zenon
<1>3. TimeInUsecs(clock) <= TimeInUsecs(clock)' /\ TimeInUsecs(clock)' \in Nat
  <2>1. PICK c \in Nat : c = TimeInUsecs(clock)
    BY <1>0, TimeIsNat
  <2>2. TimeInUsecs(clock)' = c \/ TimeInUsecs(clock)' = c + 1
    BY <1>0, <1>1, <2>1, TimePasses, Zenon DEF TimeInUsecs
  <2> QED BY <2>1, <2>2
<1> QED BY <1>1, <1>2, <1>3, QuietTiles, Zenon

\* No stream has an entry before the workers start.
LEMMA CreateTiles ==
    ASSUME Types, TileInv, CreateTimer \/ CreateTimerFails \/ StartWorkers
    PROVE  TileInv' /\ UNCHANGED entryVars
<1>1. pc = "create" /\ test' = test /\ clock' = clock /\ UNCHANGED entryVars /\ pc' \in {"create", "cleanup", "loop"}
  BY ZenonT(30) DEF CreateTimer, CreateTimerFails, StartWorkers, clockVars
<1>2. entry' = entry /\ startT' = startT /\ endT' = endT /\ Live' = Live
  BY <1>1, Zenon DEF entryVars, Live
<1>3. ASSUME NEW s \in Live PROVE TileOf(s)'
  <2>1. TileOf(s) /\ entry[s] = NoEntry
    BY <1>1, Zenon DEF TileInv, TileOf
  <2>2. entry[s].null /\ entry[s].omitted
    BY <2>1 DEF NoEntry
  <2>3. GoesOn(s, NextStart(s))'
    BY <1>2, <2>2, Zenon DEF GoesOn, NextStart
  <2>4. ~(pc' \in Sampling)
    BY <1>1, Zenon DEF Sampling
  <2> QED BY <1>1, <1>2, <2>1, <2>2, <2>3, <2>4, Zenon DEF TileOf
<1> QED BY <1>1, <1>2, <1>3, Zenon DEF TileInv

\* A sample of a stream is taken now, or a microsecond later.
LEMMA SampleTimePasses ==
    ASSUME Types, NEW s \in Live
    PROVE  SampleTime(s) \in Times /\ TimeInUsecs(SampleTime(s)) \in {TimeInUsecs(clock), TimeInUsecs(clock) + 1}
<1>1. clock \in Times
  BY TileTyped, Zenon
<1>2. CASE SampleTime(s) = clock
  BY <1>1, <1>2, Zenon
<1>3. CASE SampleTime(s) = TimeAddUsecs(clock, 1)
  BY <1>1, <1>3, TimePasses, Zenon
<1> QED BY <1>2, <1>3, Zenon DEF SampleTime

\* A sample begins where the entry before it ended, and becomes the entry of a TCP stream.
LEMMA SampleTiles ==
    ASSUME Types, TileInv, SampleBytes
    PROVE  TileInv' /\ \A s \in Live : EntryGoesOn(s)
<1>1. /\ pc = "stats" /\ at <= test.n /\ test' = test /\ omitting' = omitting /\ startT' = startT
      /\ clock' = SampleTime(at) /\ endT' = [endT EXCEPT ![at] = TimeInUsecs(SampleTime(at))]
      /\ \/ pc' = "sample_pkts" /\ at' = at /\ entry' = entry
         \/ pc' = "stats" /\ entry' = [entry EXCEPT ![at] = temp']
  BY Zenon DEF SampleBytes, AddToIntervalList, ctlVars
<1>2. /\ temp'.null = FALSE /\ temp'.omitted = omitting /\ temp'.start = NextStart(at)
      /\ temp'.end = TimeInUsecs(SampleTime(at))
  BY Zenon DEF SampleBytes, NextStart
<1>3. at \in Live
  <2>1. at \in Nat /\ at >= 1 /\ test.n \in 1..N /\ N \in Nat
    BY TestFacts, SMTT(30) DEF Types, PcTypes
  <2> QED BY <1>1, <2>1, SMTT(30) DEF Live
<1>4. Live' = Live
  BY <1>1 DEF Live
<1>5. PICK c \in Nat, t \in Nat : c = TimeInUsecs(clock) /\ t = TimeInUsecs(SampleTime(at)) /\ c <= t
  <2>1. PICK c \in Nat : c = TimeInUsecs(clock)
    BY <1>3, TileTyped, Zenon
  <2>2. PICK t \in Nat : t = TimeInUsecs(SampleTime(at))
    BY <1>3, SampleTimePasses, TimeIsNat, Zenon
  <2>3. t = c \/ t = c + 1
    BY <1>3, <2>1, <2>2, SampleTimePasses, Zenon
  <2>4. c <= t
    BY <2>3
  <2> QED BY <2>1, <2>2, <2>4, Zenon
<1>6. TimeInUsecs(clock)' = t
  BY <1>1, <1>5, Zenon DEF TimeInUsecs
<1>7. ASSUME NEW s \in Live
      PROVE  /\ TileOf(s) /\ s \in Streams /\ startT'[s] = startT[s]
             /\ endT'[s] = (IF s = at THEN t ELSE endT[s])
             /\ NextStart(s) <= t /\ startT[s] <= t /\ endT[s] <= t /\ t <= t
             /\ GoesOn(s, NextStart(s)) /\ omitting \in BOOLEAN
  <2>1. TileOf(s) /\ s \in Streams /\ omitting \in BOOLEAN
    BY TileTyped, Zenon DEF TileInv
  <2>2. endT \in Counters
    BY DEF Types, EntryTypes
  <2>3. endT'[s] = IF s = at THEN t ELSE endT[s]
    BY <1>1, <1>5, <2>1, <2>2, Zenon DEF Counters
  <2>4. PICK a \in Nat, b \in Nat : a = startT[s] /\ b = endT[s]
    BY TileTyped, Zenon
  <2>5. a <= c /\ b <= c
    BY <1>5, <2>1, <2>4, Zenon DEF TileOf
  <2>6. a <= t /\ b <= t /\ t <= t
    BY <1>5, <2>5
  <2>7. NextStart(s) <= t
    BY <2>4, <2>6, Zenon DEF NextStart
  <2>8. GoesOn(s, NextStart(s))
    BY <1>1, <2>1, Zenon DEF TileOf, Resetting, Sampling
  <2> QED BY <1>1, <2>1, <2>3, <2>4, <2>6, <2>7, <2>8, Zenon
<1>8. \A s \in Streams : entry'[s] = IF s = at /\ pc' = "stats" THEN temp' ELSE entry[s]
  <2>1. entry \in [Streams -> EntryType]
    BY DEF Types, EntryTypes
  <2> QED BY <1>1, <2>1, Zenon
<1>9. ASSUME NEW s \in Live, s # at PROVE TileOf(s)' /\ EntryGoesOn(s)
  <2>1. entry'[s] = entry[s] /\ endT'[s] = endT[s] /\ startT'[s] = startT[s]
    BY <1>7, <1>8, <1>9, Zenon
  <2>2. GoesOn(s, NextStart(s))'
    BY <1>1, <1>7, <2>1, Zenon DEF GoesOn, NextStart
  <2>3. pc' # "create" /\ pc' \notin ResettingStream /\ ~(pc' \in Sampling /\ at' = s)
    BY <1>1, <1>9, Zenon DEF Sampling, ResettingStream
  <2> QED BY <1>1, <1>6, <1>7, <2>1, <2>2, <2>3, Zenon DEF TileOf, EntryGoesOn
<1>10. ASSUME NEW s \in Live, s = at PROVE TileOf(s)' /\ EntryGoesOn(s)
  <2>1. entry'[s] = (IF pc' = "stats" THEN temp' ELSE entry[s]) /\ endT'[s] = t /\ startT'[s] = startT[s]
    BY <1>7, <1>8, <1>10, Zenon
  <2>2. omitting => entry[s].omitted
    BY <1>7, Zenon DEF TileOf
  <2>3. CASE pc' = "stats"
    <3>1. /\ entry'[s].null = FALSE /\ entry'[s].omitted = omitting /\ entry'[s].start = NextStart(s)
          /\ entry'[s].end = t
      BY <1>2, <1>5, <1>10, <2>1, <2>3, Zenon
    <3>2. EntryGoesOn(s)
      BY <1>7, <3>1, Zenon DEF EntryGoesOn
    <3>3. GoesOn(s, NextStart(s))'
      <4>1. NextStart(s)' = t
        BY <2>1, <3>1, Zenon DEF NextStart
      <4> QED BY <1>1, <3>1, <4>1, Zenon DEF GoesOn
    <3>4. pc' # "create" /\ pc' \notin ResettingStream /\ pc' \notin Sampling
      BY <2>3, Zenon DEF Sampling, ResettingStream
    <3> QED BY <1>1, <1>6, <1>7, <2>1, <3>1, <3>2, <3>3, <3>4, Zenon DEF TileOf
  <2>4. CASE pc' = "sample_pkts" /\ at' = at /\ entry' = entry
    <3>1. EntryGoesOn(s)
      BY <2>4, Zenon DEF EntryGoesOn
    <3>2. temp'.start = NextStart(s) /\ temp'.end = t /\ ~temp'.null
      BY <1>2, <1>5, <1>10, Zenon
    <3>3. pc' # "create" /\ pc' \notin ResettingStream /\ pc' \in Sampling /\ at' = s
      BY <1>10, <2>4, Zenon DEF Sampling, ResettingStream
    <3>4. GoesOn(s, temp.start)'
      BY <1>1, <1>7, <2>4, <3>2, Zenon DEF GoesOn
    <3> QED BY <1>1, <1>6, <1>7, <2>1, <2>2, <2>4, <3>1, <3>2, <3>3, <3>4, Zenon DEF TileOf
  <2> QED BY <1>1, <2>3, <2>4, Zenon
<1> QED BY <1>4, <1>9, <1>10, Zenon DEF TileInv

\* The entry of a UDP stream is added when its last counter has been read, with the
\* times its first access gave it.
LEMMA SampleUdpTiles ==
    ASSUME Types, OmitInv, TileInv, SamplePackets \/ SampleOutOfOrder \/ SampleLost
    PROVE  TileInv' /\ \A s \in Live : EntryGoesOn(s)
<1>1. /\ test' = test /\ omitting' = omitting /\ clock' = clock /\ startT' = startT /\ endT' = endT
      /\ pc \in Sampling /\ temp.omitted = omitting /\ temp \in EntryType /\ entry \in [Streams -> EntryType]
  <2>1. CASE SamplePackets \/ SampleOutOfOrder
    BY <2>1, Zenon DEF SamplePackets, SampleOutOfOrder, SampleCounter, Sampling, clockVars, ctlVars, entryVars,
                       OmitInv, Types, TempTypes, EntryTypes
  <2>2. CASE SampleLost
    BY <2>2, Zenon DEF SampleLost, Sampling, clockVars, ctlVars, OmitInv, Types, TempTypes, EntryTypes
  <2> QED BY <2>1, <2>2
<1>2. at \in Live
  <2>1. at \in Nat /\ at >= 1 /\ test.n \in 1..N /\ N \in Nat /\ at <= test.n
    BY <1>1, TestFacts, SMTT(30) DEF Types, PcTypes
  <2> QED BY <2>1, SMTT(30) DEF Live
<1>3. Live' = Live /\ TimeInUsecs(clock)' = TimeInUsecs(clock)
  BY <1>1, Zenon DEF Live, TimeInUsecs
<1>4. ASSUME NEW s \in Live PROVE TileOf(s) /\ s \in Streams /\ ~Resetting(s)
  BY <1>1, TileTyped, Zenon DEF TileInv, Resetting, Sampling
<1>5. CASE SamplePackets \/ SampleOutOfOrder
  <2>1. pc' \in Sampling /\ at' = at /\ entry' = entry
    BY <1>5, Zenon DEF SamplePackets, SampleOutOfOrder, SampleCounter, Sampling, entryVars
  <2>2. temp'.null = temp.null /\ temp'.start = temp.start /\ temp'.end = temp.end
    BY <1>1, <1>5, Zenon DEF SamplePackets, SampleOutOfOrder, SampleCounter, EntryType
  <2>3. pc' # "create" /\ pc' \notin ResettingStream
    BY <2>1, Zenon DEF Sampling, ResettingStream
  <2>4. ASSUME NEW s \in Live PROVE TileOf(s)' /\ EntryGoesOn(s)
    <3>1. EntryGoesOn(s)
      BY <2>1, Zenon DEF EntryGoesOn
    <3>2. (IF pc \in Sampling /\ at = s
           THEN ~temp.null /\ temp.end = endT[s] /\ temp.start <= temp.end /\ GoesOn(s, temp.start)
           ELSE Resetting(s) \/ GoesOn(s, NextStart(s)))'
      BY <1>1, <1>4, <2>1, <2>2, Zenon DEF TileOf, GoesOn, NextStart
    <3> QED BY <1>1, <1>3, <1>4, <2>1, <2>3, <3>1, <3>2, Zenon DEF TileOf
  <2> QED BY <1>3, <2>4, Zenon DEF TileInv
<1>6. CASE SampleLost
  <2>1. PICK e : e = [temp EXCEPT !.lost = lost[at]] /\ entry' = [entry EXCEPT ![at] = e]
    BY <1>6, Zenon DEF SampleLost, AddToIntervalList
  <2>2. pc' = "stats"
    BY <1>6, Zenon DEF SampleLost
  <2>3. e.null = temp.null /\ e.start = temp.start /\ e.end = temp.end /\ e.omitted = temp.omitted
    BY <1>1, <2>1, Zenon DEF EntryType
  <2>4. \A s \in Streams : entry'[s] = IF s = at THEN e ELSE entry[s]
    BY <1>1, <2>1, Zenon
  <2>5. pc' # "create" /\ pc' \notin ResettingStream /\ pc' \notin Sampling
    BY <2>2, Zenon DEF Sampling, ResettingStream
  <2>6. ASSUME NEW s \in Live, s # at PROVE TileOf(s)' /\ EntryGoesOn(s)
    <3>1. entry'[s] = entry[s]
      BY <1>4, <2>4, <2>6, Zenon
    <3>2. GoesOn(s, NextStart(s))'
      BY <1>1, <1>4, <2>6, <3>1, Zenon DEF TileOf, GoesOn, NextStart
    <3> QED BY <1>1, <1>3, <1>4, <2>5, <3>1, <3>2, Zenon DEF TileOf, EntryGoesOn
  <2>7. ASSUME NEW s \in Live, s = at PROVE TileOf(s)' /\ EntryGoesOn(s)
    <3>1. ~temp.null /\ temp.end = endT[s] /\ temp.start <= temp.end /\ GoesOn(s, temp.start)
      BY <1>1, <1>4, <2>7, Zenon DEF TileOf
    <3>2. /\ ~entry'[s].null /\ entry'[s].start = temp.start /\ entry'[s].end = temp.end
          /\ entry'[s].omitted = omitting
      BY <1>1, <1>4, <2>3, <2>4, <2>7, <3>1, Zenon
    <3>3. EntryGoesOn(s)
      BY <3>1, <3>2, Zenon DEF EntryGoesOn
    <3>4. GoesOn(s, NextStart(s))'
      BY <1>1, <3>1, <3>2, Zenon DEF GoesOn, NextStart
    <3> QED BY <1>1, <1>3, <1>4, <2>5, <3>2, <3>3, <3>4, Zenon DEF TileOf
  <2> QED BY <1>3, <2>6, <2>7, Zenon DEF TileInv
<1> QED BY <1>5, <1>6, SMTT(30)

\* The omit timer fires while the test is omitting: no stream has a measured entry.
LEMMA FireOmitTiles ==
    ASSUME Types, TimerInv, OmitInv, TileInv, FireOmit
    PROVE  TileInv' /\ UNCHANGED entryVars
<1>1. /\ test' = test /\ clock' = clock /\ UNCHANGED entryVars /\ at' = 1
      /\ pc = "walk" /\ pc' \in {"reset_pkts", "reset_bytes"} /\ cur # 0 /\ pool.of[cur].proc = "omit"
  BY Zenon DEF FireOmit, Fires, CurrentIsDue, clockVars
<1>2. ~Callback /\ cur \in In(pool.list)
  BY <1>1, Zenon DEF Callback, Sampling, ResettingStream, TimerInv
<1>3. omitting
  <2>1. handle["omit"] # 0
    BY <1>1, <1>2, HandleOf, Zenon
  <2> QED BY <2>1, Zenon DEF OmitInv
<1>4. entry' = entry /\ startT' = startT /\ endT' = endT /\ Live' = Live /\ TimeInUsecs(clock)' = TimeInUsecs(clock)
  BY <1>1, Zenon DEF entryVars, Live, TimeInUsecs
<1>5. pc' # "create" /\ pc' \notin Sampling
  BY <1>1, Zenon DEF Sampling
<1>6. ASSUME NEW s \in Live PROVE TileOf(s)'
  <2>1. TileOf(s) /\ s >= 1
    BY TileTyped, Zenon DEF TileInv
  <2>2. Resetting(s)'
    BY <1>1, <2>1, Zenon DEF Resetting
  <2> QED BY <1>3, <1>4, <1>5, <2>1, <2>2, Zenon DEF TileOf
<1> QED BY <1>1, <1>4, <1>6, Zenon DEF TileInv

\* The counters of a stream start again before its times do.
LEMMA BaselineTiles ==
    ASSUME TileInv, ResetPackets \/ ResetLost \/ ResetOutOfOrder \/ ResetBytes
    PROVE  TileInv' /\ UNCHANGED entryVars
<1>1. /\ test' = test /\ clock' = clock /\ omitting' = omitting /\ UNCHANGED entryVars /\ at' = at
      /\ pc \in ResettingStream /\ pc' \in ResettingStream
  BY Zenon DEF ResetPackets, ResetLost, ResetOutOfOrder, ResetBaseline, ResetBytes, ResettingStream, clockVars, ctlVars
<1>2. entry' = entry /\ startT' = startT /\ endT' = endT /\ Live' = Live /\ TimeInUsecs(clock)' = TimeInUsecs(clock)
  BY <1>1, Zenon DEF entryVars, Live, TimeInUsecs
<1>3. pc \notin Sampling /\ pc' \notin Sampling /\ pc' # "create"
  BY <1>1, Zenon DEF Sampling, ResettingStream
<1>4. ASSUME NEW s \in Live PROVE TileOf(s)'
  <2>1. TileOf(s) /\ (Resetting(s)' <=> Resetting(s))
    BY <1>1, Zenon DEF TileInv, Resetting, ResettingStream
  <2>2. Resetting(s)' \/ GoesOn(s, NextStart(s))'
    BY <1>1, <1>2, <1>3, <2>1, Zenon DEF TileOf, GoesOn, NextStart
  <2> QED BY <1>1, <1>2, <1>3, <2>1, <2>2, Zenon DEF TileOf
<1> QED BY <1>1, <1>2, <1>4, Zenon DEF TileInv

\* The first measured interval of a stream begins where its reset takes place.
LEMMA ResetIntervalTiles ==
    ASSUME Types, OmitInv, TileInv, ResetInterval
    PROVE  TileInv' /\ entry' = entry
<1>1. /\ test' = test /\ omitting' = omitting /\ clock' = clock /\ entry' = entry /\ pc = "reset_ival"
      /\ startT' = [startT EXCEPT ![at] = TimeInUsecs(clock)] /\ endT' = [endT EXCEPT ![at] = TimeInUsecs(clock)]
      /\ IF at < test.n THEN pc' \in {"reset_pkts", "reset_bytes"} /\ at' = at + 1 ELSE pc' = "reset_timers" /\ at' = at
  BY Zenon DEF ResetInterval, clockVars, ctlVars
<1>2. at \in Nat /\ at <= test.n /\ test.n \in Nat
  BY <1>1, TestFacts, SMTT(30) DEF Types, PcTypes, ResettingStream
<1>3. ~omitting /\ startT \in Counters /\ endT \in Counters
  BY <1>1, Zenon DEF OmitInv, ResettingStream, Types, EntryTypes
<1>4. Live' = Live /\ TimeInUsecs(clock)' = TimeInUsecs(clock)
  BY <1>1, Zenon DEF Live, TimeInUsecs
<1>5. pc \notin Sampling /\ pc \in ResettingStream /\ pc' \notin Sampling /\ pc' # "create"
  BY <1>1, Zenon DEF Sampling, ResettingStream
<1>6. ASSUME NEW s \in Live PROVE TileOf(s)'
  <2>1. TileOf(s) /\ s \in Streams /\ s \in Nat /\ s <= test.n /\ entry[s].omitted /\ TimeInUsecs(clock) \in Nat
    BY <1>5, TileTyped, Zenon DEF TileInv, TileOf
  <2>2. CASE s = at
    <3>1. startT'[s] = TimeInUsecs(clock) /\ endT'[s] = TimeInUsecs(clock)
      BY <1>1, <1>3, <2>1, <2>2, Zenon DEF Counters
    <3>2. TimeInUsecs(clock) <= TimeInUsecs(clock)
      BY <2>1
    <3>3. GoesOn(s, NextStart(s))'
      BY <1>1, <1>3, <2>1, <3>1, Zenon DEF GoesOn, NextStart
    <3> QED BY <1>1, <1>4, <1>5, <2>1, <3>1, <3>2, <3>3, Zenon DEF TileOf
  <2>3. CASE s # at
    <3>1. startT'[s] = startT[s] /\ endT'[s] = endT[s]
      BY <1>1, <1>3, <2>1, <2>3, Zenon DEF Counters
    <3>2. Resetting(s)' <=> Resetting(s)
      BY <1>1, <1>2, <2>1, <2>3, SMTT(30) DEF Resetting
    <3>3. Resetting(s)' \/ GoesOn(s, NextStart(s))'
      BY <1>1, <1>5, <2>1, <3>1, <3>2, Zenon DEF TileOf, GoesOn, NextStart
    <3> QED BY <1>1, <1>4, <1>5, <2>1, <3>1, <3>3, Zenon DEF TileOf
  <2> QED BY <2>2, <2>3
<1> QED BY <1>1, <1>4, <1>6, Zenon DEF TileInv

\* There is no entry at first.
LEMMA InitTiles == Init => TileInv
<1> SUFFICES ASSUME Init, NEW s \in Live PROVE TileOf(s)
  BY DEF TileInv
<1>1. s \in Streams /\ TimeInUsecs(clock) \in Nat
  BY InitTypes, TileTyped, Zenon
<1>2. entry[s] = NoEntry /\ startT[s] = 0 /\ endT[s] = 0 /\ pc = "create" /\ ~omitting
  BY <1>1, ZenonT(30) DEF Init, Zero
<1>3. entry[s].null /\ entry[s].omitted
  BY <1>2 DEF NoEntry
<1>4. 0 <= TimeInUsecs(clock)
  BY <1>1
<1>5. GoesOn(s, NextStart(s))
  BY <1>3, Zenon DEF GoesOn, NextStart
<1>6. pc \notin Sampling
  BY <1>2, Zenon DEF Sampling
<1> QED BY <1>2, <1>3, <1>4, <1>5, <1>6, Zenon DEF TileOf

\* Every step keeps the intervals of every stream in line.
LEMMA NextTiles ==
    ASSUME Types, TimerInv, IntervalInv, TileInv, [Next]_vars
    PROVE  TileInv' /\ \A s \in Live : EntryGoesOn(s)
<1>0. OmitInv
  BY Zenon DEF IntervalInv
<1>1. UNCHANGED entryVars => \A s \in Live : EntryGoesOn(s)
  BY Zenon DEF EntryGoesOn, entryVars
<1>2. entry' = entry => \A s \in Live : EntryGoesOn(s)
  BY Zenon DEF EntryGoesOn
<1>3. CASE RequestStop \/ UNCHANGED vars
  <2>1. UNCHANGED <<test, clock, omitting, entryVars, pc, at, temp>>
    BY <1>3, Zenon DEF RequestStop, vars, clockVars, ctlVars, pcVars, tempVars
  <2> QED BY <1>1, <2>1, SameTiles, Zenon
<1>4. CASE Tick \/ Peer
  BY <1>1, <1>4, BetweenTiles, Zenon
<1>5. CASE Engine
  BY <1>0, <1>1, <1>2, <1>5, CreateTiles, BetweenTiles, SampleTiles, SampleUdpTiles, FireOmitTiles,
     BaselineTiles, ResetIntervalTiles, Zenon DEF Engine
<1>6. ASSUME NEW q \in Streams, Worker(q) PROVE TileInv' /\ \A s \in Live : EntryGoesOn(s)
  <2>1. UNCHANGED engineVars
    BY <1>6, Zenon DEF Worker, WorkerLoop, Throttled, CallMovesNothing, TcpCall, UdpArrives, UdpNumber, UdpWritten,
         UdpRefused, CountBytes, CountInterval, UdpForward, UdpHighest, UdpBackward, UdpFound, CountTest
  <2>2. UNCHANGED <<test, clock, omitting, entryVars, pc, at, temp>>
    BY <2>1, Zenon DEF engineVars, clockVars, ctlVars, pcVars, tempVars
  <2> QED BY <1>1, <2>2, SameTiles, Zenon
<1> QED BY <1>3, <1>4, <1>5, <1>6, Zenon DEF Next

\* An entry begins where the one before it ended, and the first measured one at the start
\* of the test or where the omit reset took place, whatever the timers and the workers do.
THEOREM IntervalsTiled == Spec => IntervalsTile
<1>1. Init => Types /\ TimerInv /\ IntervalInv /\ TileInv
  BY InitTypes, InitTimers, InitIntervals, InitTiles, Zenon
<1>2. Types /\ TimerInv /\ IntervalInv /\ TileInv /\ [Next]_vars
         => Types' /\ TimerInv' /\ IntervalInv' /\ TileInv'
  BY NextTypes, NextTimers, NextIntervals, NextTiles, Zenon
<1>3. Types /\ TimerInv /\ IntervalInv /\ TileInv /\ [Next]_vars
         => [\A s \in Live : (entry'[s] # entry[s] /\ pc # "freed") =>
               /\ entry'[s].start <= entry'[s].end
               /\ ~entry'[s].omitted /\ (entry[s].null \/ entry[s].omitted)
                     => entry'[s].start = startT[s]
               /\ ~entry[s].null /\ entry'[s].omitted = entry[s].omitted
                     => entry'[s].start = entry[s].end]_vars
  <2> SUFFICES ASSUME Types, TimerInv, IntervalInv, TileInv, [Next]_vars, NEW s \in Live, entry'[s] # entry[s]
               PROVE  /\ entry'[s].start <= entry'[s].end
                      /\ ~entry'[s].omitted /\ (entry[s].null \/ entry[s].omitted)
                            => entry'[s].start = startT[s]
                      /\ ~entry[s].null /\ entry'[s].omitted = entry[s].omitted
                            => entry'[s].start = entry[s].end
    BY Zenon
  <2>1. EntryGoesOn(s)
    BY NextTiles, Zenon
  <2> QED BY <2>1, Zenon DEF EntryGoesOn, GoesOn
<1> QED BY <1>1, <1>2, <1>3, PTL DEF Spec, IntervalsTile

=============================================================================
