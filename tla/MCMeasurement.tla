---------------------------- MODULE MCMeasurement ----------------------------
(***************************************************************************)
(* Measurement for TLC: one test of each kind, and one to stop.             *)
(***************************************************************************)
EXTENDS Measurement

TcpTest == [server |-> FALSE, udp |-> FALSE, n |-> 1, send |-> {1}, wide |-> FALSE,
            duration |-> 4, omit |-> 0, interval |-> 2, goal |-> 0, limit |-> 0, old |-> 0,
            moves |-> 2]

MCTests ==
    {\* a bidirectional client
     [TcpTest EXCEPT !.n = 2, !.duration = 3, !.old = 2, !.moves = 1],
     \* a client that uploads, with an omitted start
     [TcpTest EXCEPT !.omit = 2, !.duration = 3],
     \* a client that downloads a number of bytes, reporting only at the end
     [TcpTest EXCEPT !.send = {}, !.duration = 0, !.interval = 0, !.goal = 2],
     \* a client that sends datagrams
     [TcpTest EXCEPT !.udp = TRUE, !.duration = 3],
     \* a client that receives datagrams
     [TcpTest EXCEPT !.udp = TRUE, !.send = {}, !.duration = 2, !.interval = 0, !.moves = 3],
     \* a server that receives datagrams, with an omitted start
     [TcpTest EXCEPT !.server = TRUE, !.udp = TRUE, !.send = {}, !.omit = 1, !.duration = 1, !.moves = 1],
     \* a server with a rate limit
     [TcpTest EXCEPT !.server = TRUE, !.send = {}, !.limit = 1, !.old = 4]}

MCStopTests == {TcpTest}
=============================================================================
