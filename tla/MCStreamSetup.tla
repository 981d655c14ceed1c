---------------------------- MODULE MCStreamSetup ----------------------------
(***************************************************************************)
(* StreamSetup for TLC: bidirectional tests that go on to the workers, and   *)
(* reverse ones.                                                            *)
(***************************************************************************)
EXTENDS StreamSetup, TLC

\* A zerocopy sender on either side: the server's teardown wakes it, the client's
\* does not.
MCModes == {[server |-> TRUE, tcp |-> TRUE, zerocopy |-> TRUE],
            [server |-> TRUE, tcp |-> FALSE, zerocopy |-> FALSE],
            [server |-> FALSE, tcp |-> TRUE, zerocopy |-> FALSE],
            [server |-> FALSE, tcp |-> TRUE, zerocopy |-> TRUE]}

Setup(server, tcp, relisten, tos, sends) ==
    [server |-> server, tcp |-> tcp, relisten |-> relisten, tos |-> tos, sends |-> sends]
MCSetups ==
    {Setup(TRUE, TRUE, relisten, tos, {2}) : relisten, tos \in BOOLEAN}
    \cup {Setup(TRUE, TRUE, relisten, FALSE, Streams) : relisten \in BOOLEAN}
    \cup {Setup(TRUE, FALSE, FALSE, tos, {2}) : tos \in BOOLEAN}
    \cup {Setup(TRUE, FALSE, FALSE, FALSE, Streams), Setup(FALSE, TRUE, FALSE, FALSE, {2})}
=============================================================================
