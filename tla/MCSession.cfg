SPECIFICATION FairSpec
CONSTANTS
    nil = nil
    inf = inf
    HasRetransmits = TRUE
    ServerConfigs <- MCServerConfigs
    Configs <- MCConfigs
    CommandLines <- MCCommandLines
    Later <- MCLater
    Faulty <- MCFaulty
    MaxClients = 3
    MaxFaults = 1
    SegmentSizes = {1448, 65508}
    Skews <- MCSkews
    Password = "pw"
    Users <- MCUsers
    ExactMax = 2097152
    LLONG_MAX = 536870911
INVARIANT ConfigurationIsFaithful
INVARIANT InStep
INVARIANT PreflightSuffices
INVARIANT SettingsAgree
INVARIANT AuthorizedByOwnToken
INVARIANT FreshForEachClient
INVARIANT ResultsAgree
PROPERTY SessionEnds
CHECK_DEADLOCK FALSE
