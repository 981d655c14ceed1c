SPECIFICATION Spec
CONSTANTS
    Runners = {r1, r2}
    NoRunner = NoRunner
    Configs <- MCFewConfigs
    MaxStarts = 2
INVARIANT
    FailureReported
CHECK_DEADLOCK FALSE
