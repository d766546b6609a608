SPECIFICATION MCSpec
CONSTANTS
    Servers = {1, 2, 3}
    Addrs = {x, y}
    Secure = {2, 3}
    Compatible = {1, 2}
    Configs <- MCConfigs
    Labels = {"gw"}
    IPs = {"lan", "vm", "loopback"}
    Usable = {"lan", "vm"}
    MaxIfaces = 2
    Names = {"n1", "n2", "n3"}
    Gateways = {"a", "b"}
    Endpoints = {1, 2}
    AddrLists <- MCAddrLists
    MaxEvents = 3
    MaxMoves = 1
    MaxFaults = 1
CHECK_DEADLOCK FALSE
INVARIANTS
    PairingInvariant
    AdvertisedIsFound
    BrowseInvariant
PROPERTIES
    DiscoveryProgresses
