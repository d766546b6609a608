----------------------------- MODULE MCDiscovery -----------------------------
\* One of the four parts of discovery at a time: the attempts of the device,
\* one browse, one advertisement, one record.  The parts that are not started
\* are in a state in which none of their actions can be taken.
EXTENDS Discovery

Idle ==
    /\ cfg \in {c \in Configs : c.url = 0 /\ c.preferred = 0} /\ ~cfg.skipVerify
    /\ net = [s \in Servers |-> [addr |-> NoAddr, announced |-> FALSE]]
    /\ pairing = NoPairing /\ durable = {NoPairing} /\ welcomed = {}
    /\ phase = "browsing" /\ usePairing = FALSE /\ endpoint = NoEndpoint /\ peer = Nobody
    /\ moves = MaxMoves /\ faults = MaxFaults
RecordIdle ==
    /\ options = [id |-> Record!Empty, host |-> Record!NoHost, port |-> 0, path |-> Record!Empty]
    /\ extra = <<>>
AdvertiserIdle ==
    /\ ifaces = <<>> /\ configured = <<>> /\ advertising = "stopped"
    /\ targets = {} /\ servers = {}
BrowserIdle ==
    /\ entriesByName = <<>> /\ instances = <<>> /\ resolver = "failed"
    /\ window = TRUE /\ parent = "expired" /\ result = [status |-> "error"]
    /\ events = 0 /\ latest = [n \in Names |-> Browsing!NoEvent]

MCInit ==
    \/ Init /\ RecordIdle /\ AdvertiserIdle /\ BrowserIdle
    \/ Idle /\ Record!Init /\ AdvertiserIdle /\ BrowserIdle
    \/ Idle /\ RecordIdle /\ Advertise!Init /\ BrowserIdle
    \/ Idle /\ RecordIdle /\ AdvertiserIdle /\ Browsing!Init
MCNext ==
    \/ Next /\ UNCHANGED <<record, advertiser, browser>>
    \/ Record!Next /\ UNCHANGED <<vars, advertiser, browser>>
    \/ Advertise!Next /\ UNCHANGED <<vars, record, browser>>
    \/ Browsing!Next /\ UNCHANGED <<vars, record, advertiser>>
MCSpec ==
    MCInit /\ [][MCNext]_<<vars, record, advertiser, browser>> /\ Fairness /\ Browsing!Fairness

MCConfigs ==
    [discovery : {"mdns"}, url : {0, 1}, preferred : {0, 2}, skipVerify : BOOLEAN]
MCAddrLists == {<<"x">>, <<"y">>, <<"y", "x">>}
MCDisabled ==
    [discovery : {"disabled"}, url : {0}, preferred : {0}, skipVerify : {FALSE}]

\* GatewayDiscovery and Browse: a gateway that can be reached is reached, and a
\* browse returns.
DiscoveryProgresses == ReachableIsReached /\ Browsing!BrowseReturns
=============================================================================
