---------------------------- MODULE MCBoundedLog ----------------------------
(* A two-byte marker, scalars of one, two and four bytes, a file that is new,  *)
(* nearly full or too large, and a server that serves two clients.             *)
EXTENDS BoundedLog

MCExisting == {0, 6, 10}
MCWidths == {1, 2, 4}
=============================================================================
