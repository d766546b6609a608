SPECIFICATION Spec
CONSTANTS
    HighCap = 4
    LogCap = 1
    MaxBackoff = 3
    MaxTurns = 2
    MaxFrames = 2
    idleCaller = idleCaller
    Reporters <- MCReporters
    LongPreRoll = FALSE
CHECK_DEADLOCK FALSE
INVARIANTS
    TurnsAreClosed
