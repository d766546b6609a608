----------------------------- MODULE Advertiser -----------------------------
(***************************************************************************)
(* The advertising side of internal/discovery/mdns: the interfaces a       *)
(* gateway publishes on, the addresses each may name, one mDNS server for  *)
(* each interface, and their shutdown when one cannot be opened or the     *)
(* gateway ends.                                                           *)
(***************************************************************************)
EXTENDS Naturals, Sequences, FiniteSets, SequencesExt

CONSTANTS
    Addrs,       \* IP addresses
    Usable,      \* those that are not loopback, unspecified or link-local
    MaxIfaces    \* bound on the interfaces of the host

VARIABLES
    ifaces,      \* net.Interfaces: usable for multicast, and their addresses
    configured,  \* the advertised instance's own addresses
    phase,       \* where register and Advertise are
    targets,     \* what advertisementTargets selected, in the order of the interfaces
    servers      \* the targets whose mDNS server is open

vars == <<ifaces, configured, phase, targets, servers>>

\* usableMulticastInterface and interfaceAdvertiseAddresses: an interface that
\* is down, or whose addresses cannot be read, contributes nothing.
Assigned(i) == ifaces[i].addrs \cap Usable
Selected == {i \in DOMAIN ifaces : ifaces[i].multicast /\ ifaces[i].readable /\ Assigned(i) # {}}

\* The map `assigned`: the last interface that has the address.
Owner(addr) ==
    LET at == {i \in Selected : addr \in Assigned(i)}
    IN  IF at = {} THEN 0 ELSE CHOOSE i \in at : \A j \in at : j <= i

\* Mutant: configured addresses that nobody has are skipped.
SelectableAny == Selected # {}

\* advertisementTargets fails without a usable interface, and when a configured
\* address is not one of theirs.
Selectable == Selected # {} /\ \A a \in Range(configured) : a \in Usable /\ Owner(a) # 0

Targets(ips) == {[iface |-> i, ips |-> ips[i]] : i \in {j \in Selected : ips[j] # {}}}
All == [i \in Selected |-> Assigned(i)]
Owned == [i \in Selected |-> {a \in Range(configured) : Owner(a) = i}]
\* Mutant: every interface announces every configured address.
TargetsEverywhere ==
    Targets(IF configured = <<>> THEN All ELSE [i \in Selected |-> Range(configured)])

AdvertisementTargets == Targets(IF configured = <<>> THEN All ELSE Owned)

Init ==
    /\ ifaces \in SeqOf([multicast : BOOLEAN, readable : BOOLEAN, addrs : SUBSET Addrs], MaxIfaces)
    /\ configured \in SeqOf(Addrs, 2)
    /\ phase = "select" /\ targets = {} /\ servers = {}

Select ==
    /\ phase = "select"
    /\ IF Selectable THEN targets' = AdvertisementTargets /\ phase' = "register"
                     ELSE targets' = {} /\ phase' = "failed"
    /\ UNCHANGED <<ifaces, configured, servers>>

Unopened == targets \ servers
Opened(t) ==
    /\ t \in Unopened /\ \A u \in Unopened : t.iface <= u.iface
    /\ servers' = servers \cup {t} /\ UNCHANGED phase

\* Mutant: the servers opened before the failure stay.
RegisterHalf ==
    /\ phase = "register" /\ Unopened # {}
    /\ (\E t \in targets : Opened(t)) \/ (phase' = "failed" /\ UNCHANGED servers)
    /\ UNCHANGED <<ifaces, configured, targets>>

\* registerProxy of the next target; when it fails the servers that were
\* opened before it are shut down.
Register ==
    /\ phase = "register" /\ Unopened # {}
    /\ (\E t \in targets : Opened(t)) \/ (phase' = "failed" /\ servers' = {})
    /\ UNCHANGED <<ifaces, configured, targets>>

\* Advertise waits for its context and then shuts every server down.
Serve ==
    /\ phase = "register" /\ Unopened = {}
    /\ phase' = "serving" /\ UNCHANGED <<ifaces, configured, targets, servers>>
Stop ==
    /\ phase = "serving" /\ phase' = "stopped" /\ servers' = {}
    /\ UNCHANGED <<ifaces, configured, targets>>

Next == Select \/ Register \/ Serve \/ Stop
Spec == Init /\ [][Next]_vars

-----------------------------------------------------------------------------
\* Nothing is left on the network by an advertisement that failed or ended:
\* a device would go on finding a gateway that does not answer.
NothingLeftPublished == phase \in {"failed", "stopped"} => servers = {}

\* Each interface names only addresses assigned to it, so that no response
\* claims that an address of another network is reachable on this one, and no
\* interface is published twice.
OwnAddressesOnly ==
    /\ \A t \in servers : t.ips # {} /\ t.ips \subseteq ifaces[t.iface].addrs \cap Usable
                          /\ ifaces[t.iface].multicast
    /\ \A t, u \in servers : t.iface = u.iface => t = u

\* A gateway that serves is published: on every usable interface, or under
\* every address it was configured with and no other.
ServingIsComplete ==
    phase = "serving" =>
        /\ servers # {}
        /\ IF configured = <<>>
           THEN \A i \in DOMAIN ifaces :
                    ifaces[i].multicast /\ ifaces[i].readable /\ ifaces[i].addrs \cap Usable # {}
                    => \E t \in servers : t.iface = i
           ELSE UNION {t.ips : t \in servers} = Range(configured)

\* What is on the network stands for the gateway as it is, at every moment.
AdvertisementIsTrue == NothingLeftPublished /\ OwnAddressesOnly /\ ServingIsComplete
=============================================================================
