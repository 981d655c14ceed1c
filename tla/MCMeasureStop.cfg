SPECIFICATION Spec
CONSTANTS
    UsecsPerSec = 2
    N = 1
    Tests <- MCStopTests
    Datagrams = 3
    Dups = 1
    Wrap = 4
    Grace = 1
    Slots = 2
    MaxTime = 5
    Stops = TRUE
CHECK_DEADLOCK FALSE
INVARIANT StopDeliversAll
