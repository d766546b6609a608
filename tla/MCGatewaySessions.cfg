SPECIFICATION Spec
CONSTANTS
    dot = dot
    sim = sim
    Devices = {dot, sim}
    NoDevice = NoDevice
    MaxConns = 2
    MaxVersion = 2
    MaxTurns = 1
    MaxFrames = 1
    Directory = TRUE
SYMMETRY Symmetry
CHECK_DEADLOCK FALSE
INVARIANTS
    GatewayInvariant
    ReloadIsDelivered
    TurnFilesAreWhole
PROPERTIES
    VersionsNeverRegress
