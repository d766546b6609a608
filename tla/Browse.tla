------------------------------- MODULE Browse -------------------------------
(***************************************************************************)
(* One Client.Browse of internal/discovery/mdns: responses are collected   *)
(* by instance name, merged by gateway after every change, and returned    *)
(* when the browse window of three seconds or the caller's context ends.   *)
(* The order in which Go walks a map is a choice.  A host with its port is *)
(* a number in the order of endpointKey.                                   *)
(***************************************************************************)
EXTENDS Naturals, Sequences, FiniteSets, SequencesExt

CONSTANTS
    Names,       \* instance names
    Gateways,    \* server ids
    Endpoints,   \* host and port pairs, a set of naturals
    AddrLists,   \* the addresses a response may carry, none of them twice
    MaxEvents    \* bound on the responses of one browse

VARIABLES
    entriesByName,  \* compatible responses by instance name
    instances,      \* the gateways merged from them
    resolver,       \* the resolver goroutine: "browsing", or what is in errCh
    window,         \* the browse window has ended
    parent,         \* the caller's context: "live", "expired" or "canceled"
    result,         \* what Browse returned
    \* History, read by properties only:
    events,         \* number of responses
    latest          \* the last response under each name, NoEvent if removed

vars == <<entriesByName, instances, resolver, window, parent, result, events, latest>>

NoEvent == [id |-> "none"]
Incompatible == [id |-> "incompatible"]
Pending == [status |-> "pending"]
Failed(why) == [status |-> why]

Instance == [id : Gateways, endpoint : Endpoints, addrs : AddrLists]
Done == window \/ parent # "live"

-----------------------------------------------------------------------------
\* appendUniqueAddrs: the addresses that are not there yet, behind those that are.
AppendUnique(dst, addrs) ==
    LET after[k \in 0..Len(addrs)] ==
            IF k = 0 THEN dst
            ELSE IF addrs[k] \in Range(after[k - 1]) THEN after[k - 1]
            ELSE Append(after[k - 1], addrs[k])
    IN  after[Len(addrs)]

Put(merged, inst) ==
    [id \in DOMAIN merged \cup {inst.id} |-> IF id = inst.id THEN inst ELSE merged[id]]
\* Mutant: the response merged last wins.
MergeLast(merged, inst) == Put(merged, inst)

\* mergeInstance: of two endpoints of a gateway the smaller one wins, the
\* addresses of equal ones are joined, earlier ones first.
MergeInstance(merged, inst) ==
    IF inst.id \notin DOMAIN merged \/ inst.endpoint < merged[inst.id].endpoint
    THEN Put(merged, inst)
    ELSE IF inst.endpoint = merged[inst.id].endpoint
    THEN Put(merged, [inst EXCEPT !.addrs = AppendUnique(merged[inst.id].addrs, @)])
    ELSE merged

\* rebuildInstances starts over and takes the entries in any order.
Orders(names) == {order \in [1..Cardinality(names) -> names] : Range(order) = names}
Rebuild(entries, order) ==
    LET after[k \in 0..Len(order)] ==
            IF k = 0 THEN <<>> ELSE MergeInstance(after[k - 1], entries[order[k]])
    IN  after[Len(order)]
Rebuilds(entries) == {Rebuild(entries, order) : order \in Orders(DOMAIN entries)}

Init ==
    /\ entriesByName = <<>> /\ instances = <<>>
    /\ resolver = "browsing" /\ window = FALSE /\ parent = "live"
    /\ result = Pending /\ events = 0 /\ latest = [n \in Names |-> NoEvent]

\* The loop takes a response the resolver offers; once the context is done the
\* resolver may drop it, and the loop may return instead.
Offered ==
    /\ result = Pending /\ resolver = "browsing"
    /\ events < MaxEvents /\ events' = events + 1
    /\ UNCHANGED <<resolver, window, parent, result>>

Respond(name, inst) ==
    /\ Offered
    /\ entriesByName' = [n \in DOMAIN entriesByName \cup {name} |->
                            IF n = name THEN inst ELSE entriesByName[n]]
    /\ instances' \in Rebuilds(entriesByName')
    /\ latest' = [latest EXCEPT ![name] = inst]

\* A response instanceFromEntry refuses is ignored, whatever was known under
\* its name before.
Ignore(name) ==
    /\ Offered /\ latest' = [latest EXCEPT ![name] = Incompatible]
    /\ UNCHANGED <<entriesByName, instances>>

\* Mutant: the merged gateways are not rebuilt.
WithdrawEntry(name) ==
    /\ Offered
    /\ entriesByName' = [n \in DOMAIN entriesByName \ {name} |-> entriesByName[n]]
    /\ latest' = [latest EXCEPT ![name] = NoEvent] /\ UNCHANGED instances

Withdraw(name) ==
    /\ Offered
    /\ entriesByName' = [n \in DOMAIN entriesByName \ {name} |-> entriesByName[n]]
    /\ instances' \in Rebuilds(entriesByName')
    /\ latest' = [latest EXCEPT ![name] = NoEvent]

\* The window and the caller's context end on their own; a caller that waits
\* no longer than the window ends both at once.
WindowEnds ==
    /\ ~Done /\ window' = TRUE /\ parent' \in {"live", "expired"}
    /\ UNCHANGED <<entriesByName, instances, resolver, result, events, latest>>
ParentEnds ==
    /\ parent = "live" /\ parent' \in {"expired", "canceled"}
    /\ UNCHANGED <<entriesByName, instances, resolver, window, result, events, latest>>

\* forkResolver.Browse returns: without sockets at once, else when its context
\* is done, with an error unless a deadline passed.
ResolverFails ==
    /\ resolver = "browsing" /\ events = 0 /\ resolver' = "failed"
    /\ UNCHANGED <<entriesByName, instances, window, parent, result, events, latest>>
ResolverReturns ==
    /\ resolver = "browsing" /\ Done
    /\ resolver' = IF parent = "canceled" /\ ~window THEN "failed" ELSE "ended"
    /\ UNCHANGED <<entriesByName, instances, window, parent, result, events, latest>>

\* sorted: the gateways in the order of their ids.
Sorted(merged) == [status |-> "found", instances |-> merged]

\* The select of Browse: an error in errCh and the end of the context may both
\* be ready.
ReturnOnResolver ==
    /\ result = Pending /\ resolver \in {"failed", "ended"}
    /\ result' = IF resolver = "failed" THEN Failed("error") ELSE Sorted(instances)
    /\ UNCHANGED <<entriesByName, instances, resolver, window, parent, events, latest>>
\* Mutant: the end of the window is an error too.
ReturnError ==
    /\ result = Pending /\ Done /\ result' = Failed("error")
    /\ UNCHANGED <<entriesByName, instances, resolver, window, parent, events, latest>>

\* Mutant: only the caller's context is watched.
ReturnOnParent ==
    /\ result = Pending /\ parent # "live" /\ result' = Failed("error")
    /\ UNCHANGED <<entriesByName, instances, resolver, window, parent, events, latest>>

ReturnOnDeadline ==
    /\ result = Pending /\ Done
    /\ result' = IF parent # "live" THEN Failed("error") ELSE Sorted(instances)
    /\ UNCHANGED <<entriesByName, instances, resolver, window, parent, events, latest>>

Next ==
    \/ \E name \in Names : (\E inst \in Instance : Respond(name, inst)) \/ Ignore(name) \/ Withdraw(name)
    \/ WindowEnds \/ ParentEnds \/ ResolverFails \/ ResolverReturns
    \/ ReturnOnResolver \/ ReturnOnDeadline

\* Time passes, and the select is taken when one of its cases is ready.
Fairness == WF_vars(WindowEnds) /\ WF_vars(ReturnOnResolver \/ ReturnOnDeadline)
Spec == Init /\ [][Next]_vars /\ Fairness

-----------------------------------------------------------------------------
TypeOK ==
    /\ DOMAIN entriesByName \subseteq Names
    /\ \A n \in DOMAIN entriesByName : entriesByName[n] \in Instance
    /\ DOMAIN instances \subseteq Gateways
    /\ resolver \in {"browsing", "failed", "ended"}
    /\ parent \in {"live", "expired", "canceled"} /\ window \in BOOLEAN
    /\ events \in 0..MaxEvents

\* What the merge is meant to compute, without an order: for each gateway the
\* smallest endpoint under any of its names, with the addresses of that one.
Best(entries, id) ==
    LET own == {n \in DOMAIN entries : entries[n].id = id}
        best == {n \in own : \A m \in own : entries[n].endpoint <= entries[m].endpoint}
    IN  [endpoint |-> entries[CHOOSE n \in best : TRUE].endpoint,
         addrs |-> UNION {Range(entries[n].addrs) : n \in best}]

\* However the responses arrived and whichever way the map was walked, the
\* answer has each gateway that is still announced once, with its first
\* endpoint and every address of that endpoint once; a withdrawal takes away
\* what that name alone contributed and nothing else.
AnswerIsOrderFree ==
    result.status = "found" =>
        LET entries == entriesByName
        IN  /\ DOMAIN result.instances = {entries[n].id : n \in DOMAIN entries}
            /\ \A id \in DOMAIN result.instances :
                   LET inst == result.instances[id]
                   IN  /\ inst.endpoint = Best(entries, id).endpoint
                       /\ Range(inst.addrs) = Best(entries, id).addrs
                       /\ IsInjective(inst.addrs)

\* Every gateway in an answer was announced under a name that has not been
\* withdrawn since, and every announced one is in it, except that a name whose
\* last response was incompatible may still stand for an older one.
AnswerIsCurrent ==
    result.status = "found" =>
        /\ \A n \in Names : latest[n] \in Instance => latest[n].id \in DOMAIN result.instances
        /\ \A id \in DOMAIN result.instances :
               \E n \in Names : latest[n] = Incompatible \/ (latest[n] \in Instance /\ latest[n].id = id)

\* A caller that waits longer than the window gets what was found: only a
\* context that ended with or before the window, or a resolver that could not
\* start, turns an answer into an error.
PatientCallerIsAnswered ==
    result.status = "error" => parent # "live" \/ resolver = "failed"

\* Browse returns.
BrowseReturns == <>(result # Pending)

\* The answer of a browse, whatever arrived in which order and what ended it.
BrowseInvariant == TypeOK /\ AnswerIsOrderFree /\ AnswerIsCurrent /\ PatientCallerIsAnswered
=============================================================================
