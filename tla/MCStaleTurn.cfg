SPECIFICATION Spec
CONSTANTS
    wakeConsumer = wakeConsumer
    buttonWatcher = buttonWatcher
    f1 = f1
    f2 = f2
    Callers <- MCCallers
    Finishers <- MCFinishers
    TriggerCap = 2
    DoneCap = 1
    MaxSessions = 2
SYMMETRY Symmetry
CHECK_DEADLOCK FALSE
INVARIANTS
    TurnsStayInTheirSession
