SPECIFICATION MCSpec
CONSTANTS
    TransitionFrames = 3
    Idlers = {1}
    MaxSessions = 2
    MaxTriggers = 2
    MaxFaults = 1
    Holdable = {"action"}
    Repeating = {"volume"}
    MaxPresses = 2
    MaxRepeats = 1
    MaxUnread = 2
CHECK_DEADLOCK FALSE
INVARIANTS
    RingInvariant
    GestureInvariant
PROPERTIES
    FlashEnds
    RingSettles
    PressesAreReported
