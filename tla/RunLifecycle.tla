---------------------------- MODULE RunLifecycle ----------------------------
(***************************************************************************)
(* What IperfRunner promises its callers, with no queue, state variable or *)
(* engine in sight.  Every start() that is accepted becomes one run; a run  *)
(* is accepted, may execute the process-global libiperf engine, is released *)
(* (its native resources are freed) and, when the caller supplied an        *)
(* onResourcesReleased callback, is delivered to it.  No stage is repeated  *)
(* or skipped backwards, and one run at a time executes.                    *)
(***************************************************************************)
EXTENDS Naturals

CONSTANT MaxStarts      \* how many starts the callers make in total

Runs == 1..MaxStarts
Stages == {"unused", "accepted", "executing", "released", "delivered"}

VARIABLE stage

LifecycleType == stage \in [Runs -> Stages]

LifecycleInit == stage = [id \in Runs |-> "unused"]

Idle == \A id \in Runs : stage[id] # "executing"

\* start() while the runner is idle.
Accept(id) ==
    /\ stage[id] = "unused"
    /\ stage' = [stage EXCEPT ![id] = "accepted"]

\* start() whose configuration fails validation: accepted and over at once.
Reject(id) ==
    /\ stage[id] = "unused"
    /\ stage' = [stage EXCEPT ![id] = "released"]

\* The run gets the engine.
Execute(id) ==
    /\ stage[id] = "accepted"
    /\ Idle
    /\ stage' = [stage EXCEPT ![id] = "executing"]

\* The run is over: it executed, was cancelled in the queue, could not be
\* prepared, or its runner was deallocated.
Release(id) ==
    /\ stage[id] \in {"accepted", "executing"}
    /\ stage' = [stage EXCEPT ![id] = "released"]

\* The caller starts another run from the callback that reports the end of id.
ReleaseAndAccept(id, next) ==
    /\ stage[id] \in {"accepted", "executing"}
    /\ stage[next] = "unused"
    /\ stage' = [stage EXCEPT ![id] = "released", ![next] = "accepted"]

Deliver(id) ==
    /\ stage[id] = "released"
    /\ stage' = [stage EXCEPT ![id] = "delivered"]

LifecycleNext ==
    \E id \in Runs :
        \/ Accept(id) \/ Reject(id) \/ Execute(id) \/ Release(id) \/ Deliver(id)
        \/ \E next \in Runs : ReleaseAndAccept(id, next)

LifecycleSpec == LifecycleInit /\ [][LifecycleNext]_stage
=============================================================================
