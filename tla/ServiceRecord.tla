---------------------------- MODULE ServiceRecord ----------------------------
(***************************************************************************)
(* What a gateway puts into a DNS-SD record and what a device reads out of *)
(* it: internal/discovery TXTRecord and Instance, the host name the mDNS   *)
(* client publishes, and the endpoint built from a response.  A host name  *)
(* is its label with the domain behind it, a TXT string is a key with a    *)
(* value; the words themselves are model values or small strings.          *)
(***************************************************************************)
EXTENDS Naturals, Sequences

DefaultPort == 8770
MaxPort == 65535
DefaultPath == "device"    \* paths without their slash
Empty == ""

\* DNS names, as far as the code tells them apart: what follows the label and
\* whether the name ends with a dot.
Domains == {"none", "local", "dns", "dns.local"}
HostNames(labels) == [label : labels, domain : Domains, dot : BOOLEAN]
NoHost == [label |-> Empty, domain |-> "none", dot |-> FALSE]

\* strings.TrimSuffix(host, ".").
TrimDot(host) == [host EXCEPT !.dot = FALSE]
IsLocal(host) == host.domain \in {"local", "dns.local"}

\* proxyHost: the bare label the publisher wants.  forkHostname puts the mDNS
\* domain behind whatever is left.
ProxyHost(host) ==
    [TrimDot(host) EXCEPT !.domain = CASE host.domain = "local" -> "none"
                                       [] host.domain = "dns.local" -> "dns"
                                       [] OTHER -> @]
ForkHostname(host) ==
    [host EXCEPT !.domain = IF host.domain = "dns" THEN "dns.local" ELSE "local"]

\* TXTRecord.Encode: four keys in stable order, the path never empty.
Text(key, value) == [key |-> key, value |-> value, found |-> TRUE]
Encode(txt) ==
    << Text("protocol", txt.protocol), Text("server_id", txt.id),
       Text("tls", IF txt.tls THEN "1" ELSE "0"),
       Text("path", IF txt.path = Empty THEN DefaultPath ELSE txt.path) >>

\* The last value of a key, as repeated assignments leave it.
ValueOf(entries, key, default) ==
    LET at == {i \in DOMAIN entries : entries[i].key = key /\ entries[i].found}
    IN  IF at = {} THEN default
        ELSE entries[CHOOSE i \in at : \A j \in at : j <= i].value

\* Mutant: a credential without a value passes.
ReadableKeysOnly(entries) ==
    \A i \in DOMAIN entries : entries[i].found =>
        /\ entries[i].key # "credential"
        /\ entries[i].key = "protocol" => entries[i].value \in Nat

\* ParseTXT: a key that looks like a credential fails the record even without
\* a value, and so does a protocol that is no number; unknown keys are skipped.
Readable(entries) ==
    \A i \in DOMAIN entries :
        /\ entries[i].key # "credential"
        /\ entries[i].key = "protocol" /\ entries[i].found => entries[i].value \in Nat
\* Mutant: the encoder's "1" is not understood.
ParseWords(entries) ==
    LET path == ValueOf(entries, "path", Empty)
    IN  [protocol |-> ValueOf(entries, "protocol", 0),
         id |-> ValueOf(entries, "server_id", Empty),
         tls |-> ValueOf(entries, "tls", "0") \in {"true", "TRUE"},
         path |-> IF path = Empty THEN DefaultPath ELSE path]

ParseTXT(entries) ==
    LET path == ValueOf(entries, "path", Empty)
    IN  [protocol |-> ValueOf(entries, "protocol", 0),
         id |-> ValueOf(entries, "server_id", Empty),
         tls |-> ValueOf(entries, "tls", "0") \in {"1", "true", "TRUE"},
         path |-> IF path = Empty THEN DefaultPath ELSE path]

\* TXTRecord.Validate; a relative path does not begin with "/".
ValidTXT(txt) == txt.id # Empty /\ txt.protocol > 0 /\ txt.path # "relative"

\* EndpointURL: a response's address stands in for a .local host.
ByAddress(inst) == inst.addrs # <<>> /\ (inst.host = NoHost \/ IsLocal(TrimDot(inst.host)))
HasEndpoint(inst) == ByAddress(inst) \/ inst.host # NoHost
EndpointURL(inst) ==
    [scheme |-> IF inst.txt.tls THEN "wss" ELSE "ws",
     host |-> IF ByAddress(inst) THEN Head(inst.addrs) ELSE inst.host,
     port |-> IF inst.port = 0 THEN DefaultPort ELSE inst.port,
     path |-> IF inst.txt.path = Empty THEN DefaultPath ELSE inst.txt.path]

\* Endpoint keeps the DNS name for the certificate when an address is dialled.
TLSServerName(inst) ==
    IF inst.addrs # <<>> /\ IsLocal(TrimDot(inst.host)) THEN TrimDot(inst.host) ELSE NoHost

\* Instance.Validate.
ValidInstance(inst) ==
    /\ inst.id # Empty /\ inst.port \in 0..MaxPort
    /\ HasEndpoint(inst) /\ ValidTXT(inst.txt) /\ inst.id = inst.txt.id

\* cmd/gateway advertisement: the instance built from the options, refused
\* unless it is valid.
Advertisement(o) ==
    [id |-> o.id, host |-> o.host, port |-> o.port, addrs |-> <<>>,
     txt |-> [protocol |-> 1, id |-> o.id, tls |-> TRUE, path |-> o.path]]

\* Client.Advertise publishes TLS endpoints at the device path only.
Advertisable(inst) ==
    ValidInstance(inst) /\ inst.port # 0 /\ inst.txt.tls /\ inst.txt.path = DefaultPath

\* preferInterfaceSubnets: addresses on a network of the device come first.
Those(addrs, wanted) ==
    LET upto[k \in 0..Len(addrs)] ==
            IF k = 0 THEN <<>>
            ELSE IF addrs[k] \in wanted THEN Append(upto[k - 1], addrs[k]) ELSE upto[k - 1]
    IN  upto[Len(addrs)]
PreferInterfaceSubnets(addrs, near) ==
    Those(addrs, near) \o Those(addrs, {addrs[i] : i \in DOMAIN addrs} \ near)

\* registerProxy: the service handed to the mDNS library for an interface.
Publish(inst, addrs) ==
    [hostname |-> ForkHostname(ProxyHost(inst.host)), port |-> inst.port,
     addrs |-> addrs, text |-> Encode(inst.txt)]

\* forkResolver.Browse: what the device makes of the service it received.
Received(service, near) ==
    [service EXCEPT !.addrs = PreferInterfaceSubnets(@, near)]

\* instanceFromEntry: the instance a response stands for, and whether it is
\* one a device may use.
FromEntry(entry) ==
    LET txt == ParseTXT(entry.text)
    IN  [id |-> txt.id, host |-> entry.hostname, port |-> entry.port,
         addrs |-> entry.addrs, txt |-> txt]
Accepted(entry) ==
    /\ entry.port \in 1..MaxPort
    /\ Readable(entry.text) /\ ValidInstance(FromEntry(entry))

(***************************************************************************)
(* The inputs a check runs over: the options of a gateway and what a third *)
(* party may have appended to its TXT record on the way.                   *)
(***************************************************************************)
CONSTANT Labels

VARIABLES options, extra

Options ==
    [id : {Empty, "home"}, host : HostNames(Labels) \cup {NoHost},
     port : {0, DefaultPort, MaxPort + 1}, path : {Empty, DefaultPath, "relative", "other"}]
Extras ==
    {<<>>} \cup {<<[key |-> k, value |-> v, found |-> f]>> :
                   k \in {"credential", "other", "protocol", "tls"},
                   v \in {"0", "bad"}, f \in BOOLEAN}

Init == options \in Options /\ extra \in Extras
Next == UNCHANGED <<options, extra>>
Spec == Init /\ [][Next]_<<options, extra>>

entry ==
    LET service == Publish(Advertisement(options), <<"vm", "lan">>)
    IN  Received([service EXCEPT !.text = @ \o extra], {"lan"})

-----------------------------------------------------------------------------
\* Whatever a gateway advertises, the device that receives it unchanged
\* accepts it and builds an endpoint for the same port and path over TLS, at
\* the address on its own network, and
\* verifies the certificate against the host the gateway was configured with;
\* a host of another domain than .local is the exception the code has.
FoundAsAdvertised ==
    LET inst == Advertisement(options)
        found == FromEntry(entry)
    IN  extra = <<>> /\ Advertisable(inst) =>
            /\ Accepted(entry) /\ found.id = inst.id
            /\ EndpointURL(found).scheme = "wss"
            /\ EndpointURL(found).host = "lan"
            /\ EndpointURL(found).port = EndpointURL(inst).port
            /\ EndpointURL(found).path = EndpointURL(inst).path
            /\ IsLocal(inst.host) => TLSServerName(found) = TrimDot(inst.host)

\* A record somebody added a credential-shaped key to is refused as a whole,
\* with or without a value, and a record that lost its TLS mark is never one
\* the device would speak TLS to.
TamperedIsNotTrusted ==
    \A i \in DOMAIN extra :
        /\ extra[i].key = "credential" => ~Accepted(entry)
        /\ extra[i].key = "tls" /\ extra[i].found => EndpointURL(FromEntry(entry)).scheme = "ws"

\* A record on its way from the options of a gateway to the endpoint of a device.
RecordIsFaithful == FoundAsAdvertised /\ TamperedIsNotTrusted
=============================================================================
