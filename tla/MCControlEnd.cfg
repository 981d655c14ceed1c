SPECIFICATION Spec
CONSTANTS
    c1 = c1
    c2 = c2
    Clients = {c1, c2}
    NoClient = NoClient
    NumStreams = 1
    Timed = TRUE
    Upload = TRUE
    Download = FALSE
    Tos = {}
    MaxServes = 1
    MaxBreaks = 0
CHECK_DEADLOCK FALSE
INVARIANT ServerEmitsEnd
