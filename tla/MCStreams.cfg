SPECIFICATION SetUpSpec
CONSTANTS
    N = 2
    Senders = {1}
    Modes <- MCModes
    HostOpens = 2
    Setups <- MCSetups
    SetUpOpens = 1
    MaxFaults = 2
    ReverseReads = 3
CHECK_DEADLOCK FALSE
INVARIANTS
    SetUpOwnsDescriptors
    StreamsPair
    WorkersOutlived
    TeardownOwnsDescriptors
    NoDescriptorLeak
PROPERTIES
    SetUpEnds
    TeardownEnds
