SPECIFICATION FairSpec
CONSTANTS
    Runners = {r1, r2}
    NoRunner = NoRunner
    Configs <- MCConfigs
    MaxStarts = 2
INVARIANTS
    CompletesOnce
    TerminalOnce
PROPERTIES
    ImplementsLifecycle
    RunsInOrder
    StopEndsRun
    QueueDrains
CHECK_DEADLOCK FALSE
