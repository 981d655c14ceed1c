------------------------------- MODULE Timers -------------------------------
(***************************************************************************)
(* timer.c and iperf_time.c: the process-wide list of timers, sorted by due *)
(* time, the free list behind it, and the arithmetic of split seconds.      *)
(*                                                                         *)
(* The two lists and the structs they link are one value, a pool:           *)
(*   list  the active timers in order, free  the timers for reuse,          *)
(*   of    every struct ever allocated, by its address 1, 2, ...            *)
(* An address of 0 is NULL.                                                 *)
(***************************************************************************)
EXTENDS Integers, Sequences

CONSTANT UsecsPerSec   \* 1000000 in the code

ASSUME TimerConstants == UsecsPerSec \in Nat \ {0}

-----------------------------------------------------------------------------
\* struct iperf_time.

Times == [secs : Nat, usecs : 0..(UsecsPerSec - 1)]

TimeAddUsecs(t, usecs) ==
    LET total == t.usecs + usecs
    IN  [secs |-> t.secs + total \div UsecsPerSec, usecs |-> total % UsecsPerSec]

TimeInUsecs(t) == t.secs * UsecsPerSec + t.usecs

\* iperf_time_compare(t, u) < 0.
Earlier(t, u) == t.secs < u.secs \/ (t.secs = u.secs /\ t.usecs < u.usecs)

\* The time from u to t, which the caller knows not to be negative.
Since(u, t) ==
    LET borrow == t.usecs < u.usecs
    IN  [secs  |-> t.secs - u.secs - (IF borrow THEN 1 ELSE 0),
         usecs |-> t.usecs - u.usecs + (IF borrow THEN UsecsPerSec ELSE 0)]

\* iperf_time_diff: the distance, and whether t is not later than u.
TimeDiff(t, u) ==
    [past |-> ~Earlier(u, t), diff |-> IF Earlier(u, t) THEN Since(u, t) ELSE Since(t, u)]

-----------------------------------------------------------------------------
\* The list.

\* A pool whose k timers have all been freed.
PoolAfter(k) ==
    [list |-> <<>>, free |-> [i \in 1..k |-> i],
     of |-> [i \in 1..k |-> [proc |-> "none", usecs |-> 0, periodic |-> FALSE,
                             time |-> [secs |-> 0, usecs |-> 0]]]]

\* Before the first timer that is due strictly later.
ListAdd(pool, t) ==
    LET later == {i \in DOMAIN pool.list :
                      Earlier(pool.of[t].time, pool.of[pool.list[i]].time)}
        at == IF later = {} THEN Len(pool.list) + 1
              ELSE CHOOSE i \in later : \A j \in later : i <= j
    IN  [pool EXCEPT !.list = SubSeq(@, 1, at - 1) \o <<t>> \o SubSeq(@, at, Len(@))]

\* The place of a timer that is in the list.
PlaceOf(pool, t) == CHOOSE i \in DOMAIN pool.list : pool.list[i] = t

ListRemove(pool, t) ==
    LET i == PlaceOf(pool, t)
    IN  [pool EXCEPT !.list = SubSeq(@, 1, i - 1) \o SubSeq(@, i + 1, Len(@))]

\* Mutant: the timer keeps its place.
ListKeep(pool, t) == pool

ListResort(pool, t) == ListAdd(ListRemove(pool, t), t)

\* malloc is only called when no struct is free.
CreateMayFail(pool) == pool.free = <<>>
NewTimer(pool) == IF pool.free = <<>> THEN Len(pool.of) + 1 ELSE Head(pool.free)

TmrCreate(pool, proc, now, usecs, periodic) ==
    LET t == NewTimer(pool)
        timer == [proc |-> proc, usecs |-> usecs, periodic |-> periodic,
                  time |-> TimeAddUsecs(now, usecs)]
        linked == IF pool.free = <<>>
                  THEN [pool EXCEPT !.of = Append(@, timer)]
                  ELSE [pool EXCEPT !.of[t] = timer, !.free = Tail(@)]
    IN  ListAdd(linked, t)

\* What select() is given: microseconds until the first timer, -1 for no timer.
TmrTimeout(pool, now) ==
    IF pool.list = <<>> THEN -1
    ELSE LET d == TimeDiff(pool.of[Head(pool.list)].time, now)
         IN  IF d.past THEN 0 ELSE TimeInUsecs(d.diff)

TmrReset(pool, now, t) ==
    ListResort([pool EXCEPT !.of[t].time = TimeAddUsecs(now, pool.of[t].usecs)], t)

TmrCancel(pool, t) == [ListRemove(pool, t) EXCEPT !.free = <<t>> \o @]

\* A handle that may be NULL.
TmrCancelIfSet(pool, t) == IF t = 0 THEN pool ELSE TmrCancel(pool, t)

\* The steps of tmr_run: the head of the list, the successor read before the
\* callback, whether the walk stops, and what becomes of a timer that has fired.
ListHead(pool) == IF pool.list = <<>> THEN 0 ELSE Head(pool.list)

ListNext(pool, t) ==
    LET i == PlaceOf(pool, t)
    IN  IF i = Len(pool.list) THEN 0 ELSE pool.list[i + 1]

IsDue(pool, t, now) == ~Earlier(now, pool.of[t].time)

AfterFiring(pool, t) ==
    IF pool.of[t].periodic
    THEN ListResort([pool EXCEPT !.of[t].time = TimeAddUsecs(@, pool.of[t].usecs)], t)
    ELSE TmrCancel(pool, t)

-----------------------------------------------------------------------------
\* What the list promises its users.

\* Sorted by due time, without repetition, and apart from the free list, which has
\* no repetition either: what tmr_timeout and tmr_run rely on when they look at the
\* first timer only, and what makes it safe to reuse a struct.
WellFormed(pool) ==
    /\ \A i, j \in DOMAIN pool.list :
         i < j => /\ ~Earlier(pool.of[pool.list[j]].time, pool.of[pool.list[i]].time)
                  /\ pool.list[i] # pool.list[j]
    /\ \A i, j \in DOMAIN pool.free : i # j => pool.free[i] # pool.free[j]
    /\ {pool.list[i] : i \in DOMAIN pool.list} \cap {pool.free[i] : i \in DOMAIN pool.free} = {}
    /\ {pool.list[i] : i \in DOMAIN pool.list} \cup {pool.free[i] : i \in DOMAIN pool.free}
         = DOMAIN pool.of
=============================================================================
