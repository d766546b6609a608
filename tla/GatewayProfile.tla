---------------------------- MODULE GatewayProfile ----------------------------
(***************************************************************************)
(* The gateway's profile of desired device configurations: defaults that   *)
(* state every field, overrides of single devices, and a version.  It is   *)
(* read from a file the operator edits, at the start and on every SIGHUP;  *)
(* connecting devices are given what it says at the time.                  *)
(***************************************************************************)
EXTENDS Naturals, FiniteSets

CONSTANTS
    Devices, Fields,
    Settings,     \* the valid settings of a field
    MaxVersion, MaxReloads  \* bounds

Unset == "unset"
Invalid == "invalid"
Raw == [Fields -> Settings \cup {Unset, Invalid}]
Documents == [version : 0..MaxVersion, defaults : Raw, overrides : UNION {[D -> Raw] : D \in SUBSET Devices}]

VARIABLES
    current,  \* Store.current
    reloads,
    handed    \* history: the configurations given to devices, by device

vars == <<current, reloads, handed>>

-----------------------------------------------------------------------------
\* rawComplete.complete: every field is stated, and valid.
Complete(raw) == \A f \in Fields : raw[f] \notin {Unset, Invalid}
\* rawOverride.toOverride wants something to be stated.
Empty(raw) == \A f \in Fields : raw[f] = Unset
\* override.apply.
Apply(raw, config) == [f \in Fields |-> IF raw[f] = Unset THEN config[f] ELSE raw[f]]
\* DeviceConfig.Validate.
Validate(config) == \A f \in Fields : config[f] # Invalid

\* Mutant: an override is valid when it states something.
LoadsUnapplied(document) ==
    /\ document.version > 0 /\ Complete(document.defaults)
    /\ \A d \in DOMAIN document.overrides : ~Empty(document.overrides[d])

\* Load accepts a document or gives nothing.
Loads(document) ==
    /\ document.version > 0 /\ Complete(document.defaults)
    /\ \A d \in DOMAIN document.overrides :
        /\ ~Empty(document.overrides[d])
        /\ Validate(Apply(document.overrides[d], document.defaults))

\* Snapshot.Effective; a device without an override is given the defaults.
Effective(profile, d) ==
    [version |-> profile.version,
     settings |-> IF d \in DOMAIN profile.overrides THEN Apply(profile.overrides[d], profile.defaults)
                  ELSE profile.defaults]

-----------------------------------------------------------------------------
Init ==
    /\ current \in {x \in Documents : Loads(x)}
    /\ reloads = 0 /\ handed = [d \in Devices |-> {}]

\* Mutant: the version may stay the same.
ReloadEqual ==
    /\ reloads < MaxReloads /\ reloads' = reloads + 1
    /\ \E document \in Documents, connected \in SUBSET Devices :
        IF Loads(document) /\ document.version >= current.version
        THEN /\ current' = document
             /\ handed' = [d \in Devices |-> IF d \in connected THEN handed[d] \cup {Effective(document, d)}
                                             ELSE handed[d]]
        ELSE UNCHANGED <<current, handed>>

\* SIGHUP: Store.Reload, and what it returns is pushed to the connected devices.
Reload ==
    /\ reloads < MaxReloads /\ reloads' = reloads + 1
    /\ \E document \in Documents, connected \in SUBSET Devices :
        IF Loads(document) /\ document.version > current.version
        THEN /\ current' = document
             /\ handed' = [d \in Devices |-> IF d \in connected THEN handed[d] \cup {Effective(document, d)}
                                             ELSE handed[d]]
        ELSE UNCHANGED <<current, handed>>

\* A device connects and is welcomed with its configuration.
Connect(d) ==
    /\ handed' = [handed EXCEPT ![d] = @ \cup {Effective(current, d)}]
    /\ UNCHANGED <<current, reloads>>

Next == Reload \/ \E d \in Devices : Connect(d)
Spec == Init /\ [][Next]_vars

-----------------------------------------------------------------------------
\* No device, with an override or without, is given an incomplete or invalid
\* setting, whatever the operator wrote.
HandedIsValid ==
    \A d \in Devices : \A c \in handed[d] : \A f \in Fields : c.settings[f] \in Settings

\* A device that has a version and is offered the same version again need not
\* look at it: within one run of the gateway a version names one configuration.
\* (A gateway that is started again takes any version.)
VersionNamesOneConfig ==
    \A d \in Devices : \A c1, c2 \in handed[d] : c1.version = c2.version => c1 = c2

\* What devices are given, across reloads of files good and bad.
ProfileInvariant == HandedIsValid /\ VersionNamesOneConfig
=============================================================================
