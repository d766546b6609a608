------------------------------ MODULE Discovery ------------------------------
(***************************************************************************)
(* The parts of discovery, which a browse and an advertisement reach       *)
(* through the network only: the attempts of a device (GatewayDiscovery),  *)
(* the record of a gateway, the servers that publish it, and one browse.   *)
(***************************************************************************)
EXTENDS GatewayDiscovery, Sequences

CONSTANTS
    Labels,                           \* of host names
    IPs, Usable, MaxIfaces,           \* of the gateway's host
    Names, Gateways, Endpoints, AddrLists, MaxEvents

VARIABLES
    options, extra,
    ifaces, configured, advertising, targets, servers,
    entriesByName, instances, resolver, window, parent, result, events, latest

Record == INSTANCE ServiceRecord
Advertise == INSTANCE Advertiser WITH Addrs <- IPs, phase <- advertising
Browsing == INSTANCE Browse

\* Endpoints are compared as endpointKey compares them, and the mDNS library
\* reports no address of a service twice.
ASSUME BrowseAssumption ==
    /\ Endpoints \subseteq Nat /\ MaxEvents \in Nat
    /\ \A list \in AddrLists :
           /\ list \in Seq({list[i] : i \in DOMAIN list})
           /\ \A i, j \in DOMAIN list : list[i] = list[j] => i = j
ASSUME IfacesAssumption == MaxIfaces \in Nat

record == <<options, extra>>
advertiser == <<ifaces, configured, advertising, targets, servers>>
browser == <<entriesByName, instances, resolver, window, parent, result, events, latest>>

-----------------------------------------------------------------------------
\* The properties of the parts, stated in their modules.

\* ServiceRecord and Advertiser: what is published is the gateway as it is, and a
\* device that receives it unchanged finds the gateway.
AdvertisedIsFound == Record!RecordIsFaithful /\ Advertise!AdvertisementIsTrue
\* Browse: the answer is what is announced, in whatever order it came.
BrowseInvariant == Browsing!BrowseInvariant
=============================================================================
