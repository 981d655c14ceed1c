SPECIFICATION Spec
CONSTANTS
    N = 2
    Senders = {1}
    Modes <- MCServer
    HostOpens = 2
CHECK_DEADLOCK FALSE
INVARIANT ReleasedUntouched
