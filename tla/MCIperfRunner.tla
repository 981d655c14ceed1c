--------------------------- MODULE MCIperfRunner ---------------------------
(* Small instances of IperfRunner for TLC. *)
EXTENDS IperfRunner

Client(bounded, timed, wakes, valid) ==
    [role |-> "client", oneOff |-> TRUE, bounded |-> bounded, valid |-> valid,
     timed |-> timed, wakes |-> wakes]
Server(oneOff, bounded) ==
    [role |-> "server", oneOff |-> oneOff, bounded |-> bounded, valid |-> TRUE,
     timed |-> FALSE, wakes |-> FALSE]

\* One configuration for each way a run can behave: clients with a duration, without
\* one, and without one or a timer that would wake them; both kinds of server; and a
\* configuration that is refused.
MCConfigs ==
    {Client(FALSE, TRUE, TRUE, TRUE), Client(TRUE, FALSE, TRUE, TRUE),
     Client(TRUE, FALSE, FALSE, TRUE), Server(TRUE, FALSE), Server(FALSE, TRUE),
     Client(FALSE, TRUE, TRUE, FALSE)}

\* For the runs that exhibit a disagreement with a comment of the code.
MCFewConfigs == {Client(FALSE, TRUE, TRUE, TRUE), Server(FALSE, TRUE)}
=============================================================================
