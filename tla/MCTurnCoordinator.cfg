SPECIFICATION Spec
CONSTANTS
    wakeConsumer = wakeConsumer
    buttonWatcher = buttonWatcher
    f1 = f1
    f2 = f2
    Callers <- MCCallers
    Finishers = {f1}
    TriggerCap = 2
    DoneCap = 1
    MaxSessions = 2
CHECK_DEADLOCK FALSE
INVARIANTS
    CoordinatorInvariant
PROPERTIES
    RefinesTurnActivity
    IdleCallersArrive
    TurnEnds
    NobodyIsKeptWaiting
