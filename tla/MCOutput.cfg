CONSTANTS
    Modes <- MCModes
    Lines <- MCLines
    Intervals <- MCIntervals
    Overhead = 3
    OverheadNodes = 1
    NodeLimit = 3
    MaxLines = 3
    Ticks = 1
SPECIFICATION FairSpec
INVARIANTS DeliveredIsHonest BudgetHeld HonestPeerAccepted ReadOutcome
PROPERTY ReadEnds
CHECK_DEADLOCK FALSE
