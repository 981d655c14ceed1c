--------------------------- MODULE ControlProtocol ---------------------------
(***************************************************************************)
(* The iperf3 control connection: several clients (iperf_client_api.c) and  *)
(* one server (iperf_server_api.c) that serves one of them at a time.       *)
(*                                                                         *)
(* A control connection is two byte streams, up (client to server) and down *)
(* (server to client); each holds whole messages, since every message is    *)
(* written at once and read whole.  A side that has half-closed its stream  *)
(* (iperf_sync_close_socket) or closed it sets upEnd or downEnd.  A reset   *)
(* connection is lost.  A call that blocks in Nread is a phase of its own,  *)
(* so that the peer can act in between.  Measurement data is not modelled:  *)
(* its end is the choice of a timer, a stop or a counter.                   *)
(***************************************************************************)
EXTENDS Integers, Sequences

CONSTANTS
    Clients,
    NoClient,       \* ctrl_sck == -1
    NumStreams,     \* num_streams of every test
    Timed,          \* tests have a duration, and not a byte or block count
    Upload, Download,   \* the client sends, the client receives (both: bidirectional)
    Tos,            \* the clients whose parameters set a type of service
    MaxServes,      \* bound: calls of iperf_run_server (1 for a one-off server)
    MaxBreaks       \* bound: connections reset

ASSUME ProtocolConstants ==
    /\ NoClient \notin Clients
    /\ NumStreams \in Nat \ {0}
    /\ {Timed, Upload, Download} \subseteq BOOLEAN
    /\ Tos \subseteq Clients
    /\ Upload \/ Download
    /\ MaxServes \in Nat /\ MaxBreaks \in Nat

\* Messages: state bytes, and the cookie and JSON documents sent between them.
States == {"none", "IPERF_START", "PARAM_EXCHANGE", "CREATE_STREAMS", "TEST_START",
           "TEST_RUNNING", "TEST_END", "EXCHANGE_RESULTS", "DISPLAY_RESULTS",
           "IPERF_DONE", "ACCESS_DENIED", "SERVER_ERROR"}
Messages == States \cup {"cookie", "params", "results"}
Pending == [client : Clients, kind : {"control", "stream"}]

VARIABLES
    cpc,        \* where iperf_run_client is: idle, loop, results, closing, returned
    cstate, cdone,
    cret,       \* its return code; 1 before it returned
    spc,        \* where iperf_run_server is: returned, loop, cookie, params, starting,
                \* results, closing
    sstate, sdone, sret, sctrl,
    accepted,   \* whose stream connections were accepted, in order
    sstop,      \* stop() was called: the runner does not call iperf_run_server again
    serves,
    listening, backlog,     \* the listener and the connections it has not accepted
    up, down, upEnd, downEnd, lost, breaks,
    exchanged,  \* clients whose results the server has received
    started,    \* clients whose test the server has started
    finished    \* clients for which the server reached iperf_json_finish

clientVars == <<cpc, cstate, cdone, cret>>
serverVars == <<spc, sstate, sdone, sret, sctrl, accepted, sstop, serves>>
listenVars == <<listening, backlog>>
linkVars   == <<up, down, upEnd, downEnd, lost, breaks>>
ghosts     == <<exchanged, started, finished>>
vars == <<clientVars, serverVars, listenVars, linkVars, ghosts>>

TypeOK ==
    /\ cpc \in [Clients -> {"idle", "loop", "results", "closing", "returned"}]
    /\ cstate \in [Clients -> States]
    /\ cdone \in [Clients -> BOOLEAN]
    /\ cret \in [Clients -> {-1, 0, 1}]
    /\ spc \in {"returned", "loop", "cookie", "params", "starting", "results", "closing"}
    /\ sstate \in States /\ sdone \in BOOLEAN /\ sret \in {-2, -1, 0, 2}
    /\ sctrl \in Clients \cup {NoClient}
    /\ accepted \in Seq(Clients) /\ Len(accepted) <= NumStreams
    /\ sstop \in BOOLEAN /\ serves \in 0..MaxServes
    /\ listening \in BOOLEAN /\ backlog \in Seq(Pending) /\ (listening \/ backlog = <<>>)
    /\ up \in [Clients -> Seq(Messages)] /\ down \in [Clients -> Seq(Messages)]
    /\ upEnd \in [Clients -> BOOLEAN] /\ downEnd \in [Clients -> BOOLEAN]
    /\ lost \in [Clients -> BOOLEAN] /\ breaks \in 0..MaxBreaks
    /\ exchanged \subseteq Clients /\ started \subseteq Clients /\ finished \subseteq Clients

Init ==
    /\ cpc = [c \in Clients |-> "idle"]
    /\ cstate = [c \in Clients |-> "none"]
    /\ cdone = [c \in Clients |-> FALSE]
    /\ cret = [c \in Clients |-> 1]
    /\ spc = "returned" /\ sstate = "none" /\ sdone = FALSE /\ sret = 0
    /\ sctrl = NoClient /\ accepted = <<>> /\ sstop = FALSE /\ serves = 0
    /\ listening = FALSE /\ backlog = <<>>
    /\ up = [c \in Clients |-> <<>>] /\ down = [c \in Clients |-> <<>>]
    /\ upEnd = [c \in Clients |-> FALSE] /\ downEnd = [c \in Clients |-> FALSE]
    /\ lost = [c \in Clients |-> FALSE] /\ breaks = 0
    /\ exchanged = {} /\ started = {} /\ finished = {}

-----------------------------------------------------------------------------
\* Writing.  What is written to a peer that is closing is drained unread.

SentUp(c, msgs) ==
    IF lost[c] \/ downEnd[c] THEN up ELSE [up EXCEPT ![c] = @ \o msgs]
SentDown(c, msgs) ==
    IF lost[c] \/ upEnd[c] THEN down ELSE [down EXCEPT ![c] = @ \o msgs]

NextIs(stream, msg) == stream # <<>> /\ Head(stream) = msg

-----------------------------------------------------------------------------
\* The client.

Set(f, c, v) == [f EXCEPT ![c] = v]

\* iperf_client_end with the local state at s: the summary, IPERF_DONE unless
\* the state is an error the server sent, and the half close.  rest is what is
\* left to read.
ClientEnd(c, s, ret, rest) ==
    /\ cpc' = Set(cpc, c, "closing")
    /\ cstate' = Set(cstate, c, s)
    /\ cret' = Set(cret, c, ret)
    /\ up' = IF s \in {"none", "ACCESS_DENIED", "SERVER_ERROR"}
             THEN up ELSE SentUp(c, <<"IPERF_DONE">>)
    /\ upEnd' = Set(upEnd, c, TRUE)
    /\ down' = Set(down, c, rest)
    /\ UNCHANGED cdone

\* cleanup_and_fail.
ClientFails(c, s, rest) == ClientEnd(c, s, -1, rest)

ServerSide == <<serverVars, ghosts>>

\* iperf_connect: dial the server and send the cookie.
Connect(c) ==
    /\ cpc[c] = "idle"
    /\ IF listening
       THEN /\ cpc' = Set(cpc, c, "loop")
            /\ backlog' = Append(backlog, [client |-> c, kind |-> "control"])
            /\ up' = SentUp(c, <<"cookie">>)
            /\ UNCHANGED cret
       ELSE /\ cpc' = Set(cpc, c, "returned")
            /\ cret' = Set(cret, c, -1)
            /\ UNCHANGED <<backlog, up>>
    /\ UNCHANGED <<cstate, cdone, listening, down, upEnd, downEnd, lost, breaks, ServerSide>>

Receives(c, msg) == cpc[c] = "loop" /\ NextIs(down[c], msg)
ClientLinkKeeps == <<downEnd, lost, breaks>>

\* iperf_exchange_parameters, client side.
ReadParamExchange(c) ==
    /\ Receives(c, "PARAM_EXCHANGE")
    /\ down' = Set(down, c, Tail(down[c]))
    /\ cstate' = Set(cstate, c, "PARAM_EXCHANGE")
    /\ up' = SentUp(c, <<"params">>)
    /\ UNCHANGED <<cpc, cdone, cret, upEnd, ClientLinkKeeps, listenVars, ServerSide>>

\* iperf_create_streams: every connection is dialled and its cookie sent.
ReadCreateStreams(c) ==
    /\ Receives(c, "CREATE_STREAMS")
    /\ IF listening
       THEN /\ backlog' = backlog \o [i \in 1..NumStreams |-> [client |-> c, kind |-> "stream"]]
            /\ down' = Set(down, c, Tail(down[c]))
            /\ cstate' = Set(cstate, c, "CREATE_STREAMS")
            /\ UNCHANGED <<cpc, cdone, cret, up, upEnd>>
       ELSE /\ ClientFails(c, "CREATE_STREAMS", Tail(down[c]))
            /\ UNCHANGED backlog
    /\ UNCHANGED <<listening, ClientLinkKeeps, ServerSide>>

\* iperf_init_test and create_client_timers, which clears done.
ReadTestStart(c) ==
    /\ Receives(c, "TEST_START")
    /\ down' = Set(down, c, Tail(down[c]))
    /\ cstate' = Set(cstate, c, "TEST_START")
    /\ cdone' = Set(cdone, c, cdone[c] /\ ~Timed)
    /\ UNCHANGED <<cpc, cret, up, upEnd, ClientLinkKeeps, listenVars, ServerSide>>

ReadTestRunning(c) ==
    /\ Receives(c, "TEST_RUNNING")
    /\ down' = Set(down, c, Tail(down[c]))
    /\ cstate' = Set(cstate, c, "TEST_RUNNING")
    /\ UNCHANGED <<cpc, cdone, cret, up, upEnd, ClientLinkKeeps, listenVars, ServerSide>>

\* iperf_exchange_results, client side: send_results, then get_results blocks.
ReadExchangeResults(c) ==
    /\ Receives(c, "EXCHANGE_RESULTS")
    /\ cpc' = Set(cpc, c, "results")
    /\ down' = Set(down, c, Tail(down[c]))
    /\ cstate' = Set(cstate, c, "EXCHANGE_RESULTS")
    /\ up' = SentUp(c, <<"results">>)
    /\ UNCHANGED <<cdone, cret, upEnd, ClientLinkKeeps, listenVars, ServerSide>>

GetResults(c) ==
    /\ cpc[c] = "results" /\ NextIs(down[c], "results")
    /\ cpc' = Set(cpc, c, "loop")
    /\ down' = Set(down, c, Tail(down[c]))
    /\ UNCHANGED <<cstate, cdone, cret, up, upEnd, ClientLinkKeeps, listenVars, ServerSide>>

\* Nothing arrived in time, the connection ended, or what arrived is no result.
GetResultsFails(c) ==
    /\ cpc[c] = "results"
    /\ ~NextIs(down[c], "results")
    /\ ClientFails(c, cstate[c], <<>>)
    /\ UNCHANGED <<ClientLinkKeeps, listenVars, ServerSide>>

\* on_test_finish and iperf_client_end; the loop ends with IPERF_DONE.
ReadDisplayResults(c) ==
    /\ Receives(c, "DISPLAY_RESULTS")
    /\ ClientEnd(c, "IPERF_DONE", 0, Tail(down[c]))
    /\ UNCHANGED <<ClientLinkKeeps, listenVars, ServerSide>>

\* SERVER_ERROR, ACCESS_DENIED, or the stream has ended.
ReadRefusal(c) ==
    /\ \/ \E msg \in {"SERVER_ERROR", "ACCESS_DENIED"} :
            Receives(c, msg) /\ ClientFails(c, msg, Tail(down[c]))
       \/ /\ cpc[c] = "loop" /\ down[c] = <<>> /\ (downEnd[c] \/ lost[c])
          /\ ClientFails(c, cstate[c], <<>>)
    /\ UNCHANGED <<ClientLinkKeeps, listenVars, ServerSide>>

\* test_timer_proc.  The timer exists from TEST_START and runs in TEST_RUNNING.
TestTimer(c) ==
    /\ Timed /\ cpc[c] = "loop" /\ cstate[c] = "TEST_RUNNING" /\ ~cdone[c]
    /\ cdone' = Set(cdone, c, TRUE)
    /\ UNCHANGED <<cpc, cstate, cret, linkVars, listenVars, ServerSide>>

\* stop(), from another thread at any time.
ClientStop(c) ==
    /\ cpc[c] \in {"loop", "results"} /\ ~cdone[c]
    /\ cdone' = Set(cdone, c, TRUE)
    /\ UNCHANGED <<cpc, cstate, cret, linkVars, listenVars, ServerSide>>

\* The end condition: done, or the byte or block count of an untimed test.
EndTest(c) ==
    /\ cpc[c] = "loop" /\ cstate[c] = "TEST_RUNNING"
    /\ cdone[c] \/ ~Timed
    /\ cdone' = Set(cdone, c, TRUE)
    /\ IF lost[c]
       THEN /\ cpc' = Set(cpc, c, "closing") /\ cret' = Set(cret, c, -1)
            /\ upEnd' = Set(upEnd, c, TRUE) /\ UNCHANGED up
       ELSE up' = SentUp(c, <<"TEST_END">>) /\ UNCHANGED <<cpc, cret, upEnd>>
    /\ cstate' = Set(cstate, c, "TEST_END")
    /\ UNCHANGED <<down, ClientLinkKeeps, listenVars, ServerSide>>

\* A receiving client that has received no block for rcv_timeout (IENOMSG).
ClientNoMessage(c) ==
    /\ cpc[c] = "loop" /\ cstate[c] = "TEST_RUNNING" /\ Download
    /\ ClientFails(c, cstate[c], down[c])
    /\ UNCHANGED <<ClientLinkKeeps, listenVars, ServerSide>>

\* The peer has closed, or ten seconds have passed: close and return.
ClientClosed(c) ==
    /\ cpc[c] = "closing"
    /\ cpc' = Set(cpc, c, "returned")
    /\ down' = Set(down, c, <<>>)
    /\ UNCHANGED <<cstate, cdone, cret, up, upEnd, ClientLinkKeeps, listenVars, ServerSide>>

-----------------------------------------------------------------------------
\* The server.

ClientSide == <<clientVars, upEnd, breaks>>

\* Closing the listener resets the control connections still in its backlog.
CloseListener ==
    /\ listening' = FALSE /\ backlog' = <<>>
    /\ lost' = [c \in Clients |-> \/ lost[c]
                                  \/ \E i \in 1..Len(backlog) :
                                       backlog[i] = [client |-> c, kind |-> "control"]]

\* cleanup_server, then return ret.  err says that i_errno is set, so that
\* SERVER_ERROR is sent; s is the state otherwise.
Cleanup(err, s, ret) ==
    /\ sret' = ret
    /\ sstate' = IF err /\ sctrl # NoClient THEN "SERVER_ERROR" ELSE s
    /\ IF sctrl = NoClient
       THEN /\ spc' = "returned"
            /\ CloseListener
            /\ UNCHANGED <<down, downEnd>>
       ELSE /\ spc' = "closing"
            /\ down' = SentDown(sctrl, IF err THEN <<"SERVER_ERROR">> ELSE <<>>)
            /\ downEnd' = Set(downEnd, sctrl, TRUE)
            /\ UNCHANGED <<listening, backlog, lost>>
    /\ UNCHANGED <<sctrl, accepted, sstop, serves, ClientSide>>

\* iperf_sync_close_socket returned: the peer closed or ten seconds passed.
ServerClosed ==
    /\ spc = "closing"
    /\ spc' = "returned"
    /\ sctrl' = NoClient
    /\ up' = Set(up, sctrl, <<>>)
    /\ CloseListener
    /\ UNCHANGED <<sstate, sdone, sret, accepted, sstop, serves, down, downEnd, ClientSide, ghosts>>

\* The runner calls iperf_run_server, after iperf_reset_test when it served before.
Listen ==
    /\ spc = "returned" /\ ~sstop /\ serves < MaxServes
    /\ serves' = serves + 1
    /\ sdone' = FALSE
    /\ accepted' = <<>>
    /\ \/ /\ spc' = "loop" /\ sstate' = "IPERF_START" /\ listening' = TRUE
          /\ UNCHANGED sret
       \/ /\ sret' = -2 /\ sstate' = "none"
          /\ UNCHANGED <<spc, listening>>
    /\ UNCHANGED <<sctrl, sstop, backlog, clientVars, linkVars, ghosts>>

\* stop(), from another thread at any time.
ServerStop ==
    /\ ~sstop
    /\ sstop' = TRUE /\ sdone' = TRUE
    /\ UNCHANGED <<spc, sstate, sret, sctrl, accepted, serves, listenVars, clientVars,
                   linkVars, ghosts>>

\* The check of done after select.
ObserveDone ==
    /\ spc = "loop" /\ sdone
    /\ Cleanup(FALSE, sstate, 0)
    /\ UNCHANGED <<sdone, up, ghosts>>

InLoop == spc = "loop" /\ ~sdone

\* No connection for idle_timeout.
IdleTimeout ==
    /\ InLoop /\ sstate = "IPERF_START"
    /\ Cleanup(FALSE, sstate, 2)
    /\ UNCHANGED <<sdone, up, ghosts>>

\* iperf_accept: a free server takes the connection and reads its cookie.
AcceptControl ==
    /\ InLoop /\ backlog # <<>> /\ sctrl = NoClient
    /\ sctrl' = Head(backlog).client
    /\ backlog' = Tail(backlog)
    /\ spc' = "cookie"
    /\ UNCHANGED <<sstate, sdone, sret, accepted, sstop, serves, listening, clientVars,
                   linkVars, ghosts>>

\* A connection is refused: ACCESS_DENIED is written and the socket closed.
Deny(c) ==
    /\ backlog' = Tail(backlog)
    /\ down' = SentDown(c, <<"ACCESS_DENIED">>)
    /\ downEnd' = Set(downEnd, c, TRUE)

\* iperf_accept while a test is active.
DenyControl ==
    /\ InLoop /\ backlog # <<>> /\ sctrl # NoClient /\ sstate # "CREATE_STREAMS"
    /\ Deny(Head(backlog).client)
    /\ UNCHANGED <<serverVars, listening, up, lost, ClientSide, ghosts>>

ReadCookie ==
    /\ spc = "cookie" /\ up[sctrl] # <<>>
    /\ up' = Set(up, sctrl, Tail(up[sctrl]))
    /\ down' = SentDown(sctrl, <<"PARAM_EXCHANGE">>)
    /\ sstate' = "PARAM_EXCHANGE"
    /\ spc' = "params"
    /\ UNCHANGED <<sdone, sret, sctrl, accepted, sstop, serves, listenVars, downEnd, lost,
                   ClientSide, ghosts>>

\* get_parameters, test_is_authorized and the protocol's listen succeeded.
ReadParams ==
    /\ spc = "params" /\ NextIs(up[sctrl], "params")
    /\ up' = Set(up, sctrl, Tail(up[sctrl]))
    /\ down' = SentDown(sctrl, <<"CREATE_STREAMS">>)
    /\ sstate' = "CREATE_STREAMS"
    /\ spc' = "loop"
    /\ UNCHANGED <<sdone, sret, sctrl, accepted, sstop, serves, listenVars, downEnd, lost,
                   ClientSide, ghosts>>

\* The cookie or the parameters did not arrive, or the parameters are refused.
RejectClient ==
    /\ \/ spc = "cookie" /\ up[sctrl] = <<>>
       \/ spc = "params"
    /\ Cleanup(TRUE, sstate, -1)
    /\ UNCHANGED <<sdone, up, ghosts>>

\* Mutant: the cookie is not compared.
CookieIgnored == TRUE

\* The connection at the head of the backlog carries the test's cookie.
CookieMatches == Head(backlog).client = sctrl

AcceptingStreams == InLoop /\ sstate = "CREATE_STREAMS" /\ backlog # <<>>

AcceptStream ==
    /\ AcceptingStreams /\ CookieMatches
    /\ accepted' = Append(accepted, Head(backlog).client)
    /\ backlog' = Tail(backlog)
    /\ spc' = IF Len(accepted') = NumStreams THEN "starting" ELSE spc
    /\ UNCHANGED <<sstate, sdone, sret, sctrl, sstop, serves, listening, clientVars, linkVars,
                   ghosts>>

\* Mutant: the server runs without telling the client to.
StartTestSilently ==
    /\ spc = "starting"
    /\ down' = SentDown(sctrl, <<"TEST_START">>)
    /\ sstate' = "TEST_RUNNING"
    /\ started' = started \cup {sctrl}
    /\ sdone' = (sdone /\ ~Timed)
    /\ spc' = "loop"
    /\ UNCHANGED <<sret, sctrl, accepted, sstop, serves, downEnd, listenVars, lost, ClientSide,
                   up, exchanged, finished>>

\* All streams are there: TEST_START, create_server_timers (which clears done,
\* also one that stop() has raised since the last select), TEST_RUNNING and the
\* workers follow before the next select.
StartTest ==
    /\ spc = "starting"
    /\ IF lost[sctrl]
       THEN Cleanup(TRUE, sstate, -1) /\ UNCHANGED <<started, sdone>>
       ELSE /\ down' = SentDown(sctrl, <<"TEST_START", "TEST_RUNNING">>)
            /\ sstate' = "TEST_RUNNING"
            /\ started' = started \cup {sctrl}
            /\ sdone' = (sdone /\ ~Timed)
            /\ spc' = "loop"
            /\ UNCHANGED <<sret, sctrl, accepted, sstop, serves, downEnd, listenVars, lost,
                           ClientSide>>
    /\ UNCHANGED <<up, exchanged, finished>>

\* The total rate the client asks for is above the server's limit, which sets i_errno
\* only after the clean-up; or, when TEST_START has been sent, the test or a timer of it
\* cannot be made, and when TEST_RUNNING has, a worker.
StartTestFails ==
    /\ spc = "starting" /\ ~lost[sctrl]
    /\ \E sent \in {<<>>, <<"TEST_START", "SERVER_ERROR">>,
                     <<"TEST_START", "TEST_RUNNING", "SERVER_ERROR">>} :
         /\ down' = SentDown(sctrl, sent)
         /\ sstate' = IF sent = <<>> THEN sstate ELSE "SERVER_ERROR"
         /\ started' = IF Len(sent) = 3 THEN started \cup {sctrl} ELSE started
         /\ sdone' \in {sdone, sdone /\ ~(Timed /\ sent # <<>>)}
    /\ sret' = -1 /\ spc' = "closing"
    /\ downEnd' = Set(downEnd, sctrl, TRUE)
    /\ UNCHANGED <<sctrl, accepted, sstop, serves, listenVars, lost, ClientSide, up, exchanged,
                   finished>>

\* iperf_tcp_accept refuses a foreign cookie and returns the closed socket; with
\* a type of service iperf_common_sockopts fails on it and the test ends, as it
\* does when the cookie cannot be read.
DenyStream ==
    /\ AcceptingStreams /\ ~CookieMatches
    /\ LET c == Head(backlog).client
       IN  IF sctrl \in Tos \/ lost[c]
           THEN /\ backlog' = Tail(backlog)
                /\ down' = [SentDown(c, <<"ACCESS_DENIED">>) EXCEPT ![sctrl] =
                              SentDown(sctrl, <<"SERVER_ERROR">>)[sctrl]]
                /\ downEnd' = [downEnd EXCEPT ![c] = TRUE, ![sctrl] = TRUE]
                /\ spc' = "closing" /\ sret' = -1 /\ sstate' = "SERVER_ERROR"
           ELSE Deny(c) /\ UNCHANGED <<spc, sret, sstate>>
    /\ UNCHANGED <<sdone, sctrl, accepted, sstop, serves, listening, up, lost, ClientSide, ghosts>>

HasMessage(msg) == InLoop /\ sctrl # NoClient /\ NextIs(up[sctrl], msg)

\* Mutant: the server sends its results before it has the client's.
ReadTestEndSendsFirst ==
    /\ HasMessage("TEST_END")
    /\ sdone' = TRUE
    /\ up' = Set(up, sctrl, Tail(up[sctrl]))
    /\ down' = SentDown(sctrl, <<"EXCHANGE_RESULTS", "results", "DISPLAY_RESULTS">>)
    /\ sstate' = "DISPLAY_RESULTS"
    /\ spc' = "loop"
    /\ UNCHANGED <<sret, sctrl, accepted, sstop, serves, listenVars, downEnd, lost, ClientSide,
                   ghosts>>

\* The client ended the test: done, the last statistics, EXCHANGE_RESULTS, and
\* get_results blocks.
ReadTestEnd ==
    /\ HasMessage("TEST_END")
    /\ sdone' = TRUE
    /\ up' = Set(up, sctrl, Tail(up[sctrl]))
    /\ down' = SentDown(sctrl, <<"EXCHANGE_RESULTS">>)
    /\ sstate' = "EXCHANGE_RESULTS"
    /\ spc' = "results"
    /\ UNCHANGED <<sret, sctrl, accepted, sstop, serves, listenVars, downEnd, lost, ClientSide,
                   ghosts>>

\* send_results and DISPLAY_RESULTS.
ReadResults ==
    /\ spc = "results" /\ NextIs(up[sctrl], "results")
    /\ up' = Set(up, sctrl, Tail(up[sctrl]))
    /\ down' = SentDown(sctrl, <<"results", "DISPLAY_RESULTS">>)
    /\ exchanged' = exchanged \cup {sctrl}
    /\ sstate' = "DISPLAY_RESULTS"
    /\ spc' = "loop"
    /\ UNCHANGED <<sdone, sret, sctrl, accepted, sstop, serves, listenVars, downEnd, lost,
                   ClientSide, started, finished>>

\* No results in time, the connection ended, or something else arrived.
ReadResultsFails ==
    /\ spc = "results"
    /\ ~NextIs(up[sctrl], "results")
    /\ Cleanup(TRUE, sstate, -1)
    /\ UNCHANGED <<sdone, up, ghosts>>

\* IPERF_DONE, or the client closed its end: the loop ends, iperf_json_finish.
ReadDone ==
    /\ \/ HasMessage("IPERF_DONE") /\ Cleanup(FALSE, "IPERF_DONE", 0)
       \/ /\ InLoop /\ sctrl # NoClient /\ up[sctrl] = <<>> /\ upEnd[sctrl] /\ ~lost[sctrl]
          /\ Cleanup(TRUE, "IPERF_DONE", 0)
    /\ finished' = finished \cup {sctrl}
    /\ UNCHANGED <<sdone, up, exchanged, started>>


\* The control connection failed, a receiving server saw no block for
\* rcv_timeout, or the average rate exceeds the server's limit.
AbortTest ==
    /\ InLoop /\ sctrl # NoClient
    /\ lost[sctrl] \/ Upload \/ sstate = "TEST_RUNNING"
    /\ Cleanup(TRUE, sstate, -1)
    /\ UNCHANGED <<sdone, up, ghosts>>

\* server_timer_proc: the test outlived its duration and the grace period.
ServerTimer ==
    /\ InLoop /\ Timed /\ sstate = "TEST_RUNNING" /\ sctrl # NoClient
    /\ sdone' = TRUE
    /\ down' = SentDown(sctrl, <<"SERVER_ERROR">>)
    /\ downEnd' = Set(downEnd, sctrl, TRUE)
    /\ up' = Set(up, sctrl, <<>>)
    /\ sstate' = "SERVER_ERROR"
    /\ sctrl' = NoClient
    /\ UNCHANGED <<spc, sret, accepted, sstop, serves, listenVars, lost, ClientSide, ghosts>>

-----------------------------------------------------------------------------
\* A control connection is reset: what is in flight is lost, and both sides see
\* it at their next read or write.
Break(c) ==
    /\ breaks < MaxBreaks
    /\ cpc[c] \in {"loop", "results", "closing"} /\ ~lost[c]
    /\ breaks' = breaks + 1
    /\ lost' = Set(lost, c, TRUE)
    /\ up' = Set(up, c, <<>>) /\ down' = Set(down, c, <<>>)
    /\ UNCHANGED <<clientVars, serverVars, listenVars, upEnd, downEnd, ghosts>>

ClientStep(c) ==
    \/ ReadParamExchange(c) \/ ReadCreateStreams(c) \/ ReadTestStart(c)
    \/ ReadTestRunning(c) \/ ReadExchangeResults(c) \/ GetResults(c)
    \/ GetResultsFails(c) \/ ReadDisplayResults(c) \/ ReadRefusal(c)
    \/ TestTimer(c) \/ EndTest(c) \/ ClientNoMessage(c) \/ ClientClosed(c)

ServerStep ==
    \/ ObserveDone \/ IdleTimeout \/ AcceptControl \/ DenyControl \/ ReadCookie
    \/ ReadParams \/ RejectClient \/ AcceptStream \/ StartTest \/ StartTestFails \/ DenyStream
    \/ ReadTestEnd \/ ReadResults \/ ReadResultsFails \/ ReadDone \/ AbortTest
    \/ ServerTimer \/ ServerClosed

Next ==
    \/ ServerStep \/ Listen \/ ServerStop
    \/ \E c \in Clients : Connect(c) \/ ClientStep(c) \/ ClientStop(c) \/ Break(c)

Spec == Init /\ [][Next]_vars

-----------------------------------------------------------------------------
\* Safety.

\* A client that returns success has given its results to the server: the
\* server displays results only after get_results (iperf_exchange_results).
SuccessMeansExchanged ==
    \A c \in Clients : cret[c] = 0 => c \in exchanged

\* A measurement involves exactly the streams of the client that negotiated it:
\* neither side runs before the server has accepted NumStreams connections, all
\* with the cookie of the control connection (iperf_tcp_accept).
StreamsBelongToClient ==
    /\ sctrl # NoClient => \A i \in 1..Len(accepted) : accepted[i] = sctrl
    /\ sctrl # NoClient /\ sstate = "TEST_RUNNING" =>
         sctrl \in started /\ Len(accepted) = NumStreams
    /\ \A c \in Clients :
         cpc[c] \in {"loop", "results"} /\ cstate[c] \in {"TEST_RUNNING", "TEST_END",
                                             "EXCHANGE_RESULTS", "DISPLAY_RESULTS"} =>
            c \in started

\* When nothing is in flight between the server and the client it serves, and
\* neither is closing, both are in the same protocol state; and the server that
\* has started the test of its client holds all streams of that test until it
\* lets the client go, in whatever state (iperf_run_server).
QuietAgreement ==
    sctrl # NoClient =>
        LET c == sctrl
        IN  /\ spc = "loop" /\ cpc[c] = "loop" /\ up[c] = <<>> /\ down[c] = <<>> /\ ~lost[c] =>
                 cstate[c] = sstate
            /\ c \in started => Len(accepted) = NumStreams

\* "the callback still receives the start, interval, and end events": a server
\* that exchanged results with a client reaches iperf_json_finish before it
\* returns.
ServerEmitsEnd ==
    \A c \in exchanged : spc = "returned" => c \in finished

-----------------------------------------------------------------------------
\* Liveness.

\* The server's engine keeps running: its selects return, its timers and the
\* time-out of every blocking read expire.  Clients may hang at any point, and
\* nobody is obliged to connect, stop or restart.
FairSpec == Spec /\ WF_vars(ServerStep)

=============================================================================
