-------------------------- MODULE GatewayDiscovery --------------------------
(***************************************************************************)
(* Which gateway a device connects to, over many attempts: the resolution  *)
(* order of internal/discovery, the pairing file, and the attempts of      *)
(* Client.Run, on a network whose gateways come, go and move, and with a   *)
(* disk and a power supply that may fail.  ClientSession has what happens  *)
(* inside a session, Browse how an answer is collected.                    *)
(* An instance is the gateway's id, the host it names, an address, and     *)
(* whether it offers TLS and this build's protocol.                        *)
(***************************************************************************)
EXTENDS Naturals, FiniteSets

CONSTANTS
    Servers,       \* gateways, naturals in the order of their ids
    Addrs,
    Secure,        \* the gateways that announce TLS
    Compatible,    \* those that announce this build's protocol version
    Configs,       \* the options: url and preferred are a server or 0 for none
    MaxMoves,      \* bound on changes of the network
    MaxFaults      \* bound on disk errors and power cuts

ASSUME DiscoveryAssumption ==
    /\ Servers \subseteq Nat \ {0} /\ Secure \subseteq Servers /\ Compatible \subseteq Servers
    /\ Configs \subseteq [discovery : {"mdns", "disabled"}, url : Servers \cup {0},
                          preferred : Servers \cup {0}, skipVerify : BOOLEAN]
    /\ MaxMoves \in Nat /\ MaxFaults \in Nat

VARIABLES
    cfg,
    net,         \* where each gateway is, and whether its announcements arrive
    pairing,     \* the pairing file
    durable,     \* what it may contain after a power cut
    phase, usePairing,
    endpoint,    \* the resolved instance
    peer,        \* the gateway at the other end
    moves, faults,
    welcomed     \* history: the (id, host, address) of every welcome

network == <<net, moves>>
file == <<pairing, durable>>
vars == <<cfg, network, file, phase, usePairing, endpoint, peer, faults, welcomed>>

NoAddr == "by name"
NoPairing == [file |-> "missing"]
Corrupt == [file |-> "corrupt"]
Nobody == 0

Instance == [id : Servers, host : Servers, addr : Addrs \cup {NoAddr},
             tls : BOOLEAN, compatible : BOOLEAN]
InstanceOf(s, addr) ==
    [id |-> s, host |-> s, addr |-> addr, tls |-> s \in Secure, compatible |-> s \in Compatible]
NoEndpoint == [id |-> Nobody]

Up(s) == net[s].addr # NoAddr
Visible == {InstanceOf(s, net[s].addr) : s \in {t \in Servers : Up(t) /\ net[t].announced}}

Placed(n) == \A s, t \in Servers : n[s].addr = n[t].addr /\ n[s].addr # NoAddr => s = t
Networks == {n \in [Servers -> [addr : Addrs \cup {NoAddr}, announced : BOOLEAN]] : Placed(n)}

Init ==
    /\ cfg \in Configs
    /\ net \in {n \in Networks : \A s \in Servers : n[s].announced}
    /\ \/ pairing \in {NoPairing, Corrupt} /\ welcomed = {}
       \/ \E s \in Secure \cap Compatible, a \in Addrs :
              pairing = InstanceOf(s, a) /\ welcomed = {<<s, s, a>>}
    /\ durable = {pairing}
    /\ phase = "resolving" /\ usePairing = TRUE /\ endpoint = NoEndpoint /\ peer = Nobody
    /\ moves = 0 /\ faults = 0

-----------------------------------------------------------------------------
\* Mutant: a failed attempt does not put the pairing aside.
EndAttemptPaired(wasWelcomed) ==
    /\ phase' = "resolving" /\ usePairing' = TRUE
    /\ endpoint' = NoEndpoint /\ peer' = Nobody

\* runOnce returned without a welcome, or after one.
EndAttempt(wasWelcomed) ==
    /\ phase' = "resolving" /\ usePairing' = wasWelcomed
    /\ endpoint' = NoEndpoint /\ peer' = Nobody

\* loadPairing: an unusable file is ignored.
Paired == usePairing /\ pairing \in Instance

\* fromPaired.
PairedIsUsable ==
    /\ Paired /\ pairing.compatible
    /\ cfg.preferred # 0 => pairing.id = cfg.preferred

\* Resolve: an explicit URL, then the pairing, then a browse.  requireWSS ends
\* the attempt when the endpoint is not a TLS one.
Target(inst) ==
    IF inst.tls THEN /\ phase' = "dialing" /\ endpoint' = inst
                     /\ UNCHANGED <<usePairing, peer>>
                ELSE EndAttempt(FALSE)
Resolve ==
    /\ phase = "resolving"
    /\ CASE cfg.url # 0 -> Target([InstanceOf(cfg.url, NoAddr) EXCEPT !.tls = TRUE, !.compatible = TRUE])
         [] cfg.url = 0 /\ PairedIsUsable -> Target(pairing)
         [] cfg.url = 0 /\ ~PairedIsUsable /\ cfg.discovery = "disabled" -> EndAttempt(FALSE)
         [] OTHER -> phase' = "browsing" /\ UNCHANGED <<usePairing, endpoint, peer>>
    /\ UNCHANGED <<cfg, network, file, faults, welcomed>>

\* pick: the preferred gateway among the compatible ones, else the first.
Pick(answer) ==
    LET candidates == {inst \in answer : inst.compatible}
        liked == {inst \in candidates : cfg.preferred \in {0, inst.id}}
        from == IF liked = {} THEN candidates ELSE liked
    IN  CHOOSE inst \in from : \A other \in from : inst.id <= other.id

\* The browse answers with some of the gateways whose announcements arrive, or
\* with an error, which is like nobody.
BrowseAnswers(answer) ==
    /\ phase = "browsing"
    /\ IF \E inst \in answer : inst.compatible THEN Target(Pick(answer)) ELSE EndAttempt(FALSE)
    /\ UNCHANGED <<cfg, network, file, faults, welcomed>>
Browsed == \E answer \in SUBSET Visible : BrowseAnswers(answer)

\* The gateway an endpoint leads to now: by its name, or whoever has the
\* address and, unless verification is off, the certificate of the name.
Leads(inst, s) ==
    /\ Up(s)
    /\ IF inst.addr = NoAddr THEN s = inst.host ELSE net[s].addr = inst.addr
    /\ cfg.skipVerify \/ s = inst.host
Dial ==
    /\ phase = "dialing"
    /\ \/ \E s \in Servers : /\ Leads(endpoint, s) /\ peer' = s /\ phase' = "handshake"
                             /\ UNCHANGED <<usePairing, endpoint>>
       \/ ~(\E s \in Servers : Leads(endpoint, s)) /\ EndAttempt(FALSE)
    /\ UNCHANGED <<cfg, network, file, faults, welcomed>>

\* Mutant: the endpoint is saved whatever became of the welcome.
WelcomeUnread ==
    /\ phase = "handshake" /\ phase' = "saving"
    /\ welcomed' = IF Leads(endpoint, peer)
                   THEN welcomed \cup {<<peer, endpoint.host, endpoint.addr>>} ELSE welcomed
    /\ UNCHANGED <<cfg, network, file, usePairing, endpoint, peer, faults>>

\* handshake up to the pairing: hello, welcome, configuration and its result.
Welcome ==
    /\ phase = "handshake"
    /\ IF Leads(endpoint, peer)
       THEN /\ phase' = "saving" /\ welcomed' = welcomed \cup {<<peer, endpoint.host, endpoint.addr>>}
            /\ UNCHANGED <<usePairing, endpoint, peer>>
       ELSE EndAttempt(FALSE) /\ UNCHANGED welcomed
    /\ UNCHANGED <<cfg, network, file, faults>>

\* PairingStore.Save: the staged file is complete before the rename shows it,
\* and the directory is synced after.
Renamed(inst) == pairing' = inst /\ durable' = durable \cup {inst}
\* pairingInstance keeps the endpoint and takes the id from the welcome.
Rename ==
    /\ phase = "saving" /\ phase' = "syncing"
    /\ Renamed([endpoint EXCEPT !.id = peer])
    /\ UNCHANGED <<cfg, network, usePairing, endpoint, peer, faults, welcomed>>

\* Mutant: the directory is not synced.
SyncNothing ==
    /\ phase = "syncing" /\ phase' = "session"
    /\ UNCHANGED <<cfg, network, file, usePairing, endpoint, peer, faults, welcomed>>

Sync ==
    /\ phase = "syncing" /\ phase' = "session" /\ durable' = {pairing}
    /\ UNCHANGED <<cfg, network, pairing, usePairing, endpoint, peer, faults, welcomed>>
\* A save that fails anywhere fails the handshake.
SaveFails ==
    /\ phase \in {"saving", "syncing"} /\ faults < MaxFaults /\ faults' = faults + 1
    /\ EndAttempt(FALSE)
    /\ UNCHANGED <<cfg, network, file, welcomed>>

\* The session ends when its gateway is gone, or for a reason of its own.
SessionEnds ==
    /\ phase = "session" /\ EndAttempt(TRUE)
    /\ UNCHANGED <<cfg, network, file, faults, welcomed>>

-----------------------------------------------------------------------------
\* A gateway starts, stops or gets another address; a multicast domain changes.
Move ==
    /\ moves < MaxMoves /\ moves' = moves + 1
    /\ \E s \in Servers, place \in [addr : Addrs \cup {NoAddr}, announced : BOOLEAN] :
           net' = [net EXCEPT ![s] = place] /\ Placed(net')
    /\ UNCHANGED <<cfg, file, phase, usePairing, endpoint, peer, faults, welcomed>>

\* The device loses power: what was not synced may be undone.
PowerCut ==
    /\ faults < MaxFaults /\ faults' = faults + 1
    /\ \E content \in durable : pairing' = content /\ durable' = {content}
    /\ EndAttempt(TRUE)
    /\ UNCHANGED <<cfg, network, welcomed>>

Client == Resolve \/ Browsed \/ Dial \/ Welcome \/ Rename \/ Sync
Next == Client \/ SaveFails \/ SessionEnds \/ Move \/ PowerCut

\* The client goes on, notices the loss of its gateway, and a browse that is
\* repeated for ever is answered by every announced gateway at least once in
\* a while.
Lost == phase = "session" /\ ~Leads(endpoint, peer) /\ SessionEnds
Fairness ==
    /\ WF_vars(Resolve) /\ WF_vars(Dial) /\ WF_vars(Welcome) /\ WF_vars(Rename) /\ WF_vars(Sync)
    /\ WF_vars(Browsed) /\ SF_vars(BrowseAnswers(Visible)) /\ WF_vars(Lost)
Spec == Init /\ [][Next]_vars /\ Fairness

-----------------------------------------------------------------------------
TypeOK ==
    /\ cfg \in Configs /\ net \in Networks
    /\ pairing \in Instance \cup {NoPairing, Corrupt} /\ pairing \in durable
    /\ durable \subseteq Instance \cup {NoPairing, Corrupt}
    /\ phase \in {"resolving", "browsing", "dialing", "handshake", "saving", "syncing", "session"}
    /\ endpoint \in Instance \cup {NoEndpoint} /\ peer \in Servers \cup {Nobody}
    /\ usePairing \in BOOLEAN /\ moves \in 0..MaxMoves /\ faults \in 0..MaxFaults

\* Whatever the pairing file may contain, now or after a power cut, is a gateway
\* that has welcomed this device at exactly that place, or the unusable content
\* the device was started with: no discovery answer, no failed attempt and no
\* half-written file ever becomes a pairing.
PairingWasWelcomed ==
    \A content \in durable \cap Instance :
        <<content.id, content.host, content.addr>> \in welcomed

\* Once a session is usable, the device finds its gateway again after a power
\* cut without browsing.
SessionIsRemembered ==
    phase = "session" => durable = {[endpoint EXCEPT !.id = peer]}

\* A device that may browse, or that has a URL, is connected again and again
\* once the network is such that the gateway it would choose can be reached,
\* however stale its pairing is.
Reachable ==
    IF cfg.url # 0 THEN Up(cfg.url)
    ELSE /\ cfg.discovery = "mdns"
         /\ \E inst \in Visible : inst.compatible
         /\ Pick(Visible).tls
ReachableIsReached == <>[]Reachable => []<>(phase = "session")

\* Client.Run and resolve.go: with discovery disabled a device uses an explicit
\* URL or its paired gateway.  So a paired gateway that can be reached for good
\* at the place in the pairing file should be reached.
PairedIsReachable ==
    /\ cfg.url = 0 /\ cfg.discovery = "disabled"
    /\ pairing \in Instance /\ pairing.compatible /\ pairing.tls
    /\ cfg.preferred \in {0, pairing.id}
    /\ \E s \in Servers : Leads(pairing, s)
PairedIsReached == <>[]PairedIsReachable => []<>(phase = "session")

\* The pairing file against sessions, failed saves and power cuts.
PairingInvariant == TypeOK /\ PairingWasWelcomed /\ SessionIsRemembered
=============================================================================
