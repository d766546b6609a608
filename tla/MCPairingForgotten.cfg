SPECIFICATION MCSpec
CONSTANTS
    Servers = {1, 2, 3}
    Addrs = {x, y}
    Secure = {2, 3}
    Compatible = {1, 2}
    Configs <- MCDisabled
    Labels = {"gw"}
    IPs = {"lan", "vm", "loopback"}
    Usable = {"lan", "vm"}
    MaxIfaces = 1
    Names = {"n1"}
    Gateways = {"a", "b"}
    Endpoints = {1, 2}
    AddrLists <- MCAddrLists
    MaxEvents = 1
    MaxMoves = 1
    MaxFaults = 0
PROPERTY PairedIsReached
CHECK_DEADLOCK FALSE
