---------------------------- MODULE DeviceIdentity ----------------------------
(***************************************************************************)
(* The id a device is known by: the hardware serial, or else an id that is *)
(* generated once and kept in a file.  echod and `echoctl status` resolve  *)
(* it, possibly at the same time and across power cuts.                    *)
(***************************************************************************)
EXTENDS Naturals

CONSTANTS
    Resolvers,
    MaxResolves, MaxCuts, MaxFaults  \* bounds

Sources == 1..3  \* sysfs, the kernel's command line, the device tree
Readings == {"absent", "empty", "denied", "unusable", "serial"}
NoId == 0     \* there is no file
Blank == 99   \* a file without a usable id; generated ids are 1, 2, ...

VARIABLES
    source,     \* what each serial source gives
    file,       \* the persisted id as processes see it
    durable,    \* and as a power cut would leave it
    pc, fresh,  \* of each resolver; the id it generated
    resolves, cuts, faults,
    \* History, read by properties only:
    returned, failed,
    blankAtFirst,
    early       \* an id was read that a power cut could still take back

vars == <<source, file, durable, pc, fresh, resolves, cuts, faults, returned, failed, blankAtFirst, early>>

Valid(id) == id \notin {NoId, Blank}

Init ==
    /\ source \in [Sources -> Readings] /\ file \in {NoId, Blank} /\ durable = file
    /\ pc = [p \in Resolvers |-> "idle"] /\ fresh = [p \in Resolvers |-> NoId]
    /\ resolves = 0 /\ cuts = 0 /\ faults = 0
    /\ returned = {} /\ failed = FALSE /\ blankAtFirst = (file = Blank) /\ early = FALSE

Goto(p, label) == pc' = [pc EXCEPT ![p] = label]
Fails(p) == Goto(p, "idle") /\ failed' = TRUE

\* SerialReader.Read: the first source that says anything; one that is not
\* there is passed over, any other error ends it.
Serial ==
    LET telling == {s \in Sources : source[s] \notin {"absent", "empty"}}
    IN  IF telling = {} THEN "none" ELSE source[CHOOSE s \in telling : \A t \in telling : s <= t]

\* readPersistedID by a resolver that returns what it finds.
Returns(p) ==
    /\ Goto(p, "idle") /\ returned' = returned \cup {file}
    /\ early' = (early \/ file # durable)

-----------------------------------------------------------------------------
\* Resolve: the serial, the persisted id, or a new one in a synced temporary
\* file of its own.
Resolve(p) ==
    /\ pc[p] = "idle" /\ resolves < MaxResolves /\ resolves' = resolves + 1
    /\ CASE Serial = "serial" -> UNCHANGED <<pc, fresh, returned, failed, early>>
         [] Serial \in {"denied", "unusable"} -> Fails(p) /\ UNCHANGED <<fresh, returned, early>>
         [] Serial = "none" /\ Valid(file) -> Returns(p) /\ UNCHANGED <<fresh, failed>>
         [] OTHER -> Goto(p, "link") /\ fresh' = [fresh EXCEPT ![p] = resolves']
                     /\ UNCHANGED <<returned, failed, early>>
    /\ UNCHANGED <<source, file, durable, cuts, faults, blankAtFirst>>

\* Mutant: the temporary file is renamed over what is there.
LinkOver(p) ==
    /\ pc[p] \in {"link", "relink"} /\ file' = fresh[p] /\ Goto(p, "sync")
    /\ UNCHANGED <<source, durable, fresh, resolves, cuts, faults, returned, failed, blankAtFirst, early>>
\* Mutant: that a file is there is an error.
LinkOrFail(p) ==
    /\ pc[p] \in {"link", "relink"}
    /\ IF file = NoId THEN file' = fresh[p] /\ Goto(p, "sync") /\ UNCHANGED failed
       ELSE Fails(p) /\ UNCHANGED file
    /\ UNCHANGED <<source, durable, fresh, resolves, cuts, faults, returned, blankAtFirst, early>>

\* publishDeviceID links, which fails if there is a file by now.
Link(p) ==
    /\ pc[p] \in {"link", "relink"}
    /\ IF file = NoId THEN file' = fresh[p] /\ Goto(p, "sync")
       ELSE Goto(p, IF pc[p] = "link" THEN "check" ELSE "recheck") /\ UNCHANGED file
    /\ UNCHANGED <<source, durable, fresh, resolves, cuts, faults, returned, failed, blankAtFirst, early>>

\* What is there is used when it is valid; it is not synced.
Check(p) ==
    /\ \/ pc[p] = "check" /\ Goto(p, IF Valid(file) THEN "read" ELSE "remove") /\ UNCHANGED failed
       \/ pc[p] = "recheck" /\ Valid(file) /\ Goto(p, "read") /\ UNCHANGED failed
       \/ pc[p] = "recheck" /\ ~Valid(file) /\ Fails(p)
    /\ UNCHANGED <<source, file, durable, fresh, resolves, cuts, faults, returned, blankAtFirst, early>>

\* Whatever is there by now is removed.
Remove(p) ==
    /\ pc[p] = "remove" /\ file' = NoId /\ Goto(p, "relink")
    /\ UNCHANGED <<source, durable, fresh, resolves, cuts, faults, returned, failed, blankAtFirst, early>>

SyncDirectory(p) ==
    /\ pc[p] = "sync" /\ durable' = file /\ Goto(p, "read")
    /\ UNCHANGED <<source, file, fresh, resolves, cuts, faults, returned, failed, blankAtFirst, early>>

ReadBack(p) ==
    /\ pc[p] = "read"
    /\ IF Valid(file) THEN Returns(p) /\ UNCHANGED failed
       ELSE Fails(p) /\ UNCHANGED <<returned, early>>
    /\ UNCHANGED <<source, file, durable, fresh, resolves, cuts, faults, blankAtFirst>>

\* An error of the file system in any of these.
Fault(p) ==
    /\ pc[p] # "idle" /\ faults < MaxFaults /\ faults' = faults + 1 /\ Goto(p, "idle")
    /\ UNCHANGED <<source, file, durable, fresh, resolves, cuts, returned, failed, blankAtFirst, early>>

PowerCut ==
    /\ cuts < MaxCuts /\ cuts' = cuts + 1
    /\ file' \in {file, durable} /\ durable' = file' /\ pc' = [p \in Resolvers |-> "idle"]
    /\ UNCHANGED <<source, fresh, resolves, faults, returned, failed, blankAtFirst, early>>

Next ==
    \/ \E p \in Resolvers : \/ Resolve(p) \/ Link(p) \/ Check(p) \/ Remove(p) \/ SyncDirectory(p)
                            \/ ReadBack(p) \/ Fault(p)
    \/ PowerCut
Spec == Init /\ [][Next]_vars

-----------------------------------------------------------------------------
TypeOK == \A id \in {file, durable} \cup returned : id \in 0..MaxResolves \cup {Blank}

\* "the stable fleet ID": however resolvers interleave and whenever the power
\* goes, a device without a serial is known by one id.  Not so when the file
\* was there without an id at first (the second resolver to see that removes
\* what the first one wrote), or when one read the id another had linked and
\* not yet synced.
IdentityIsStable == blankAtFirst \/ early \/ \A a, b \in returned : a = b

\* Nothing but an error of the file system or of a serial source makes a
\* resolver fail, but for two that repair the same invalid file.
ResolveSucceeds == failed => blankAtFirst \/ Serial \in {"denied", "unusable"}

\* The id across interleaved resolvers, errors and power cuts.
IdentityInvariant == TypeOK /\ IdentityIsStable /\ ResolveSucceeds
=============================================================================
