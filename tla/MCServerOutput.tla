--------------------------- MODULE MCServerOutput ---------------------------
(* Both ends budgeted or the server unmodified, text and JSON, budgets below,  *)
(* at and above what is produced.                                             *)
EXTENDS ServerOutput

MCModes ==
    [budget : {TRUE}, json : {FALSE}, requested : {TRUE}, sLimit : {3, 5}, cLimit : {2, 6}]
    \cup [budget : {TRUE}, json : {TRUE}, requested : {TRUE}, sLimit : {6, 9}, cLimit : {5, 9}]
    \cup [budget : {FALSE}, json : {FALSE}, requested : {TRUE}, sLimit : {1}, cLimit : {2, 6}]
    \cup [budget : {FALSE}, json : {TRUE}, requested : {TRUE}, sLimit : {1}, cLimit : {5, 9}]
    \cup [budget : BOOLEAN, json : {FALSE}, requested : {FALSE}, sLimit : {3}, cLimit : {3}]

MCLines == {<<1, 2>>, <<3>>, <<Bad>>, <<Nul, 1>>}
MCIntervals == {1, 2}
=============================================================================
