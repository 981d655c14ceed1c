SPECIFICATION FairSpec
CONSTANTS
    c1 = c1
    c2 = c2
    Clients = {c1, c2}
    NoClient = NoClient
    NumStreams = 2
    Timed = TRUE
    Upload = TRUE
    Download = TRUE
    Tos = {c1}
    MaxServes = 2
    MaxBreaks = 1
CHECK_DEADLOCK FALSE
INVARIANTS
    SuccessMeansExchanged
    StreamsBelongToClient
    QuietAgreement

    
