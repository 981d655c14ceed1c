--------------------------- MODULE MCStreamWorkers ---------------------------
(***************************************************************************)
(* StreamWorkers for TLC: a bidirectional test with one stream each way.     *)
(***************************************************************************)
EXTENDS StreamWorkers, TLC

\* A server that receives on one stream and sends on the other.
MCServer == {[server |-> TRUE, tcp |-> TRUE, zerocopy |-> FALSE]}
=============================================================================
