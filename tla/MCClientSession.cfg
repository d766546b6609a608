SPECIFICATION Spec
CONSTANTS
    HighCap = 3
    LogCap = 1
    MaxBackoff = 2
    MaxTurns = 2
    MaxFrames = 1
    idleCaller = idleCaller
    Reporters <- MCReporters
    LongPreRoll = TRUE
CHECK_DEADLOCK FALSE
INVARIANTS
    SessionInvariant
PROPERTIES
    SendTurnReturns
    TeardownCompletes
