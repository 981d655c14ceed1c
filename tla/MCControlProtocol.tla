------------------------- MODULE MCControlProtocol --------------------------
(* Small instances of ControlProtocol for TLC: two clients of one server. *)
EXTENDS ControlProtocol
=============================================================================
