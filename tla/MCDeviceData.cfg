SPECIFICATION MCSpec
CONSTANTS
    MaxToggles = 1
    Ids = {"a", "b"}
    Digests = {"d", "e"}
    Notes = {"n", "m"}
    Installers = {1, 2}
    Resolvers = {1, 2}
    Limits <- MCLimits
    Releases = {"r1", "r2"}
    Keys = {"k1", "k2"}
    Ssids = {"x", "y"}
    Setters = {1, 2}
    Fleet = {"dot"}
    Fields = {"wake", "logs"}
    Settings = {"p", "q"}
    MaxInstalls = 2
    MaxKills = 1
    MaxCuts = 1
    MaxFaults = 1
    MaxResolves = 3
    MaxBytes = 7
    MaxStarts = 3
    MaxRuns = 2
    MaxRefusals = 2
    MaxRestarts = 1
    MaxVersion = 2
    MaxReloads = 1
CHECK_DEADLOCK FALSE
INVARIANTS
    DaemonInvariant
    StoreInvariant
    IdentityInvariant
    LogInvariant
    TrustInvariant
    WifiInvariant
    ProfileInvariant
PROPERTIES
    ShutdownReturns
