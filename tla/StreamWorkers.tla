---------------------------- MODULE StreamWorkers ----------------------------
(***************************************************************************)
(* The threads that move a test's data and the descriptors they use.        *)
(*                                                                         *)
(* The main thread starts one worker per stream, and at the end stops the   *)
(* workers, closes the stream sockets and frees the streams, along a path   *)
(* that depends on the role and on why the test ended.  A worker loops over *)
(* blocking calls on sp->socket until test->done or sp->done.  A descriptor *)
(* is a number: once closed, any other thread of the host process may be    *)
(* given the same number, so owner says what each number stands for.        *)
(***************************************************************************)
EXTENDS Naturals, FiniteSets

CONSTANTS
    N,          \* number of streams
    Senders,    \* the streams with sp->sender
    Modes,      \* [server, tcp, zerocopy] of the tests considered
    HostOpens   \* bound: descriptors the rest of the host process opens

Streams == 1..N
Fds     == 1..(N + HostOpens)
Free    == 0
Host    == N + 1

ASSUME WorkerConstants ==
    /\ N \in Nat \ {0} /\ HostOpens \in Nat
    /\ Senders \subseteq Streams
    /\ Modes \subseteq [server : BOOLEAN, tcp : BOOLEAN, zerocopy : BOOLEAN]

VARIABLES
    mode,
    pc,         \* where the main thread is
    at,         \* the stream its loop is at
    job,        \* which of the stop loops it is in
    done,       \* test->done
    sdone,      \* sp->done
    sock,       \* sp->socket, 0 for -1
    created,    \* sp->thread_created
    alive,      \* streams that have not been freed
    thr,        \* where each worker is
    cancelled,  \* pthread_cancel has been called on it
    owner,      \* what each descriptor number stands for
    shut,       \* streams whose connection has been shut down
    released,   \* TEST_END or CLIENT_TERMINATE closed the sockets
    stray       \* what was done to descriptors of the host

mainVars   == <<pc, at, job, done, released>>
streamVars == <<sdone, sock, created, alive>>
threadVars == <<thr, cancelled>>
fdVars     == <<owner, shut, stray>>
vars == <<mode, mainVars, streamVars, threadVars, fdVars>>

Jobs == {"none", "cleanup", "timer", "senders", "receivers", "fail"}

TypeOK ==
    /\ mode \in Modes
    /\ pc \in {"spawn", "running", "release", "exchange", "stop", "join", "close", "free",
               "returned", "freed"}
    /\ at \in Streams /\ job \in Jobs
    /\ done \in BOOLEAN /\ released \in BOOLEAN
    /\ sdone \in [Streams -> BOOLEAN] /\ created \in [Streams -> BOOLEAN]
    /\ sock \in [Streams -> Fds \cup {0}]
    /\ alive \subseteq Streams
    /\ thr \in [Streams -> {"none", "run", "ready", "call", "exited"}]
    /\ cancelled \in [Streams -> BOOLEAN]
    /\ owner \in [Fds -> Streams \cup {Free, Host}]
    /\ shut \subseteq Streams
    /\ stray \subseteq {"close", "shutdown", "use"}

\* TEST_RUNNING: every stream has its socket and no worker yet.
Init ==
    /\ mode \in Modes
    /\ pc = "spawn" /\ at = 1 /\ job = "none" /\ done = FALSE /\ released = FALSE
    /\ sdone = [s \in Streams |-> FALSE]
    /\ sock = [s \in Streams |-> s]
    /\ created = [s \in Streams |-> FALSE]
    /\ alive = Streams
    /\ thr = [s \in Streams |-> "none"]
    /\ cancelled = [s \in Streams |-> FALSE]
    /\ owner = [f \in Fds |-> IF f \in Streams THEN f ELSE Free]
    /\ shut = {} /\ stray = {}

-----------------------------------------------------------------------------
\* Descriptors.

\* close(sp->socket).
Close(s) ==
    LET f == sock[s]
    IN  /\ owner' = [owner EXCEPT ![f] = Free]
        /\ stray' = IF owner[f] = Host THEN stray \cup {"close"} ELSE stray

\* Another thread of the process opens something and gets a free number.
HostOpen ==
    /\ \E f \in Fds :
         /\ owner[f] = Free
         /\ Cardinality({g \in Fds : owner[g] = Host}) < HostOpens
         /\ owner' = [owner EXCEPT ![f] = Host]
    /\ UNCHANGED <<mode, mainVars, streamVars, threadVars, shut, stray>>

-----------------------------------------------------------------------------
\* The workers.

\* The loop condition of iperf_client_worker_run and iperf_server_worker_run.
Check(s) ==
    /\ thr[s] = "run"
    /\ thr' = [thr EXCEPT ![s] = IF done \/ sdone[s] THEN "exited" ELSE "ready"]
    /\ UNCHANGED <<mode, mainVars, streamVars, cancelled, fdVars>>

\* sendfile is the one call pthread_cancel does not end.
Cancellable(s) == ~(mode.zerocopy /\ s \in Senders)

\* iperf_send_mt or iperf_recv_mt issues a system call on sp->socket.
Call(s) ==
    /\ thr[s] = "ready"
    /\ thr' = [thr EXCEPT ![s] = IF sock[s] # 0 /\ owner[sock[s]] = s THEN "call" ELSE "exited"]
    /\ stray' = IF sock[s] # 0 /\ owner[sock[s]] = Host THEN stray \cup {"use"} ELSE stray
    /\ UNCHANGED <<mode, mainVars, streamVars, cancelled, owner, shut>>

\* The call cannot block any more: the connection was shut down or closed.
Woken(s) == s \in shut \/ \A f \in Fds : owner[f] # s

\* The call returns: data, end of file or a soft error and the loop goes on, or a
\* hard error and the worker ends.
Return(s) ==
    /\ thr[s] = "call"
    /\ \E next \in {"run", "exited"} : thr' = [thr EXCEPT ![s] = next]
    /\ UNCHANGED <<mode, mainVars, streamVars, cancelled, fdVars>>

\* A pending cancellation is acted upon in a call.
ActOnCancel(s) ==
    /\ thr[s] \in {"ready", "call"} /\ cancelled[s] /\ Cancellable(s)
    /\ thr' = [thr EXCEPT ![s] = "exited"]
    /\ UNCHANGED <<mode, mainVars, streamVars, cancelled, fdVars>>

-----------------------------------------------------------------------------
\* The main thread: start.

Goto(p) == pc' = p /\ at' = 1

\* A loop over the streams: on to the next one, or out of the loop.
NextStream(out) == IF at = N THEN Goto(out) ELSE at' = at + 1 /\ UNCHANGED pc

\* A teardown that stops workers: loop j over the streams.
Teardown(j) == Goto("stop") /\ job' = j

Spawn ==
    /\ pc = "spawn"
    /\ created' = [created EXCEPT ![at] = TRUE]
    /\ thr' = [thr EXCEPT ![at] = "run"]
    /\ NextStream("running")
    /\ UNCHANGED <<mode, job, done, released, sdone, sock, alive, cancelled, fdVars>>

\* pthread_create fails; some workers are already running.
SpawnFails ==
    /\ pc = "spawn"
    /\ Teardown(IF mode.server THEN "cleanup" ELSE "fail")
    /\ UNCHANGED <<mode, done, released, streamVars, threadVars, fdVars>>

-----------------------------------------------------------------------------
\* The main thread: ways a test ends.

\* The server reads TEST_END (which raises done) or CLIENT_TERMINATE.
ReadEnd ==
    /\ pc = "running" /\ mode.server
    /\ done' \in {TRUE, done}
    /\ released' = TRUE
    /\ Goto("release")
    /\ UNCHANGED <<mode, job, streamVars, threadVars, fdVars>>

\* Its loop over the streams: sp->done, then close; sp->socket keeps the number.
Release ==
    /\ pc = "release"
    /\ sdone' = [sdone EXCEPT ![at] = TRUE]
    /\ Close(at)
    /\ NextStream("exchange")
    /\ UNCHANGED <<mode, job, done, released, sock, created, alive, threadVars, shut>>

\* The results have been exchanged, or not; or the test is over, aborted or
\* stopped: cleanup_server.
CleanupServer ==
    /\ pc \in {"running", "exchange"} /\ mode.server
    /\ Teardown("cleanup")
    /\ UNCHANGED <<mode, done, released, streamVars, threadVars, fdVars>>

\* server_timer_proc.
ServerTimer ==
    /\ pc = "running" /\ mode.server /\ ~done
    /\ done' = TRUE
    /\ Teardown("timer")
    /\ UNCHANGED <<mode, released, streamVars, threadVars, fdVars>>

\* The end condition of iperf_run_client, done or a byte or block count: stop the
\* senders.
EndTest ==
    /\ pc = "running" /\ ~mode.server
    /\ Teardown("senders")
    /\ UNCHANGED <<mode, done, released, streamVars, threadVars, fdVars>>

\* DISPLAY_RESULTS: iperf_client_end closes the sockets.
DisplayResults ==
    /\ pc = "exchange" /\ ~mode.server
    /\ Goto("close")
    /\ UNCHANGED <<mode, job, done, released, streamVars, threadVars, fdVars>>

\* Any failure of the client: cleanup_and_fail.
ClientFails ==
    /\ pc \in {"running", "exchange"} /\ ~mode.server
    /\ Teardown("fail")
    /\ UNCHANGED <<mode, done, released, streamVars, threadVars, fdVars>>

-----------------------------------------------------------------------------
\* The main thread: the stop loops.

\* The client's loops pass over the streams that are not theirs.
Skips(s) ==
    \/ job = "senders" /\ s \notin Senders
    \/ job = "receivers" /\ s \in Senders
    \/ job = "fail" /\ sdone[s]

\* What follows a stop loop.
After ==
    CASE job = "cleanup"   -> "close"
      [] job = "timer"     -> "free"
      [] job = "senders"   -> "exchange"
      [] job = "receivers" -> "returned"
      [] OTHER             -> "close"

\* The senders' loop is followed by done = 1 and TEST_END.
Leaves == done' = (done \/ (job = "senders" /\ at = N))

Skip ==
    /\ pc = "stop" /\ Skips(at)
    /\ NextStream(After) /\ Leaves
    /\ UNCHANGED <<mode, job, released, streamVars, threadVars, fdVars>>

\* Mutant: released streams are shut down again.
ShutsAlways == mode.server /\ mode.tcp /\ sock[at] # 0

\* Mutant: workers are cancelled, never woken.
ShutsNever == FALSE

\* stop_stream_worker shuts a TCP stream down unless its done was already set.
Shuts == mode.server /\ mode.tcp /\ sock[at] # 0 /\ ~sdone[at]

\* sp->done, the server's shutdown, and pthread_cancel.
Stop ==
    /\ pc = "stop" /\ ~Skips(at)
    /\ sdone' = [sdone EXCEPT ![at] = TRUE]
    /\ shut' = IF Shuts /\ owner[sock[at]] = at THEN shut \cup {at} ELSE shut
    /\ stray' = IF Shuts /\ owner[sock[at]] = Host THEN stray \cup {"shutdown"} ELSE stray
    /\ cancelled' = [cancelled EXCEPT ![at] = cancelled[at] \/ created[at]]
    /\ pc' = "join"
    /\ UNCHANGED <<mode, at, job, done, released, sock, created, alive, thr, owner>>

\* Mutant: the worker is cancelled and not joined.
JoinNobody ==
    /\ pc = "join"
    /\ created' = [created EXCEPT ![at] = FALSE]
    /\ IF at = N THEN Goto(After) ELSE pc' = "stop" /\ at' = at + 1
    /\ Leaves
    /\ UNCHANGED <<mode, job, released, sdone, sock, alive, threadVars, fdVars>>

\* pthread_join.
Join ==
    /\ pc = "join"
    /\ created[at] => thr[at] = "exited"
    /\ created' = [created EXCEPT ![at] = FALSE]
    /\ IF at = N THEN Goto(After) ELSE pc' = "stop" /\ at' = at + 1
    /\ Leaves
    /\ UNCHANGED <<mode, job, released, sdone, sock, alive, threadVars, fdVars>>

-----------------------------------------------------------------------------
\* The main thread: closing and freeing.

\* Mutant: streams that are done are taken for closed ones.
CloseUndoneStream ==
    /\ pc = "close" /\ mode.server
    /\ IF sock[at] # 0 /\ ~sdone[at]
       THEN Close(at) /\ sock' = [sock EXCEPT ![at] = 0]
       ELSE UNCHANGED <<owner, stray, sock>>
    /\ NextStream("returned")
    /\ UNCHANGED <<mode, job, done, released, sdone, created, alive, threadVars, shut>>

\* cleanup_server's loop over open streams.
CloseServerStream ==
    /\ pc = "close" /\ mode.server
    /\ IF sock[at] # 0
       THEN Close(at) /\ sock' = [sock EXCEPT ![at] = 0]
       ELSE UNCHANGED <<owner, stray, sock>>
    /\ NextStream("returned")
    /\ UNCHANGED <<mode, job, done, released, sdone, created, alive, threadVars, shut>>

\* iperf_client_end's loop: sp->socket keeps the number.  On success the
\* receivers, which have seen done, are stopped next.
CloseClientStream ==
    /\ pc = "close" /\ ~mode.server
    /\ Close(at)
    /\ IF at < N THEN at' = at + 1 /\ UNCHANGED <<pc, job>>
       ELSE IF job = "fail" THEN Goto("returned") /\ UNCHANGED job
       ELSE Teardown("receivers")
    /\ UNCHANGED <<mode, done, released, streamVars, threadVars, shut>>

\* server_timer_proc closes and frees each stream; the loop then ends.
FreeStream ==
    /\ pc = "free"
    /\ Close(at)
    /\ sock' = [sock EXCEPT ![at] = 0]
    /\ alive' = alive \ {at}
    /\ NextStream("returned")
    /\ UNCHANGED <<mode, job, done, released, sdone, created, threadVars, shut>>

\* iperf_free_test or iperf_reset_test frees what is left.
FreeTest ==
    /\ pc = "returned"
    /\ alive' = {}
    /\ Goto("freed")
    /\ UNCHANGED <<mode, job, done, released, sdone, sock, created, threadVars, fdVars>>

\* stop() from another thread, or the test timer.
RequestStop ==
    /\ ~done /\ pc # "freed"
    /\ done' = TRUE
    /\ UNCHANGED <<mode, pc, at, job, released, streamVars, threadVars, fdVars>>

MainStep ==
    \/ Spawn \/ SpawnFails \/ ReadEnd \/ Release \/ CleanupServer \/ ServerTimer
    \/ EndTest \/ DisplayResults \/ ClientFails \/ Skip \/ Stop \/ Join
    \/ CloseServerStream \/ CloseClientStream \/ FreeStream \/ FreeTest

Next ==
    \/ MainStep \/ RequestStop \/ HostOpen
    \/ \E s \in Streams : Check(s) \/ Call(s) \/ Return(s) \/ ActOnCancel(s)

Spec == Init /\ [][Next]_vars

-----------------------------------------------------------------------------
\* Properties.

\* No worker outlives the stream it dereferences: every teardown joins the
\* workers before the streams are freed (server_timer_proc, iperf_free_test).
WorkersOutlived ==
    \A s \in Streams : s \notin alive => thr[s] \in {"none", "exited"}

\* Teardown touches only numbers the stream still owns, except that after
\* TEST_END or CLIENT_TERMINATE the sockets are closed a second time; a worker
\* meets a foreign descriptor only when its socket was closed before it was
\* joined, which the release and the client's successful end do.
TeardownOwnsDescriptors ==
    /\ "shutdown" \notin stray
    /\ "close" \in stray => released
    /\ "use" \in stray => released \/ (~mode.server /\ job # "fail")

\* No stream socket is left open when the test is freed (iperf_free_stream does
\* not close it).
NoDescriptorLeak ==
    pc = "freed" => \A f \in Fds : owner[f] \notin Streams

\* "Released: teardown must not touch this descriptor number."
ReleasedUntouched == stray \cap {"close", "shutdown"} = {}

\* The main thread and the workers run; a call returns when its connection is
\* shut down or closed, and cancellation is acted upon.  A call on a live
\* connection may block for ever: the peer decides.
FairSpec ==
    /\ Spec
    /\ WF_vars(MainStep)
    /\ \A s \in Streams :
         /\ WF_vars(Check(s)) /\ WF_vars(Call(s)) /\ WF_vars(ActOnCancel(s))
         /\ WF_vars(Woken(s) /\ Return(s))

\* A client joins a zerocopy sender: it cancels, which sendfile survives, and does
\* not shut the connection down, so the join lasts until the peer reads or closes.
HeldByPeer ==
    pc = "join" /\ ~mode.server /\ created[at] /\ thr[at] = "call" /\ ~Cancellable(at) /\ ~Woken(at)

\* "no longer hangs the engine": a teardown gets past its joins whatever the peer
\* does (stop_stream_worker), except where a client joins a zerocopy sender the
\* peer holds in sendfile for ever.
TeardownEnds ==
    ([]<>~HeldByPeer) => (pc \in {"stop", "join"} ~> pc \in {"close", "free", "returned", "exchange"})
=============================================================================
