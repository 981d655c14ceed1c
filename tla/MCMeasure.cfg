SPECIFICATION FairSpec
CONSTANTS
    UsecsPerSec = 2
    N = 2
    Tests <- MCTests
    Datagrams = 3
    Dups = 1
    Wrap = 4
    Grace = 1
    Slots = 2
    MaxTime = 5
    Stops = TRUE
CHECK_DEADLOCK FALSE
INVARIANTS
    TimersWellFormed
    IntervalsAddUp
    DeliveredOnce
    LossIsExact
PROPERTIES
    IntervalsTile
    RateLimitIsAverage
    TestEnds
