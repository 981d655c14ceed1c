CONSTANTS
    Limit = 9
    MarkerSize = 2
    Existing <- MCExisting
    Widths <- MCWidths
    MaxPrinted = 12
    MaxSessions = 2
SPECIFICATION Spec
INVARIANTS WithinLimit CountsExact KeepsPrefix
CHECK_DEADLOCK FALSE
