------------------------------ MODULE DeviceData ------------------------------
(***************************************************************************)
(* What the system's processes keep and give back, beside the hardware an  *)
(* echod process takes: the store of wake models, the device's id, the     *)
(* log, the check of a release bundle, the networks of the supplicant, the *)
(* gateway's profile.  The parts share no state; here they share the       *)
(* bounds on power cuts and errors, and have variables of their own.       *)
(***************************************************************************)
EXTENDS Daemon

CONSTANTS
    Ids, Digests, Notes, Installers, Resolvers, Limits, Releases, Keys, Ssids, Setters,
    Fleet, Fields, Settings,
    MaxInstalls, MaxKills, MaxCuts, MaxFaults, MaxResolves, MaxBytes, MaxStarts,
    MaxRuns, MaxRefusals, MaxRestarts, MaxVersion, MaxReloads  \* bounds

VARIABLES
    artifact, metadata, index, sdurable, spc, request, copy, installs, kills, scuts, sfaults,
    acked, unsynced,
    source, idfile, idurable, ipc, fresh, resolves, icuts, ifaults, returned, ifailed,
    blankAtFirst, early,
    file, limit, lpc, current, open, next, written, starts, lfaults, shortened, disturbed,
    manifest, sig, rartifact, allowUnsigned, given, linked, rpc, notes, line,
    networks, saved, wpc, ssid, listed, nid, at, runs, wfaults, restarts, met, lost, first, mixed, made,
    profile, reloads, handed

Store == INSTANCE WakeStore WITH durable <- sdurable, pc <- spc, cuts <- scuts, faults <- sfaults
Identity == INSTANCE DeviceIdentity WITH
    file <- idfile, durable <- idurable, pc <- ipc, cuts <- icuts, faults <- ifaults, failed <- ifailed
Rotating == INSTANCE LogRotation WITH pc <- lpc, faults <- lfaults
Release == INSTANCE ReleaseTrust WITH artifact <- rartifact, pc <- rpc
Wifi == INSTANCE WifiProvisioning WITH
    MaxFaults <- MaxRefusals, pc <- wpc, id <- nid, faults <- wfaults
Profile == INSTANCE GatewayProfile WITH Devices <- Fleet, current <- profile

\* A sidecar is not no sidecar, and no generated id is the mark of a file without one.
ASSUME NotesAssumption == Store!Absent \notin Notes
ASSUME ResolvesAssumption == MaxResolves \in Nat /\ MaxResolves < Identity!Blank
\* NewRotatingWriter refuses limits that do not allow one byte per file.
ASSUME LimitsAssumption == Limits \subseteq [count : 1..4, bytes : Nat \ {0}]
\* An operator names a network; add_network makes one without a name.
ASSUME SsidsAssumption == Wifi!Blank \notin Ssids

store == <<artifact, metadata, index, sdurable, spc, request, copy, installs, kills, scuts, sfaults,
           acked, unsynced>>
identity == <<source, idfile, idurable, ipc, fresh, resolves, icuts, ifaults, returned, ifailed,
              blankAtFirst, early>>
rotating == <<file, limit, lpc, current, open, next, written, starts, lfaults, shortened, disturbed>>
verify == <<manifest, sig, rartifact, allowUnsigned, given, linked, rpc, notes, line>>
wifi == <<networks, saved, wpc, ssid, listed, nid, at, runs, wfaults, restarts, met, lost, first, mixed, made>>
gateway == <<profile, reloads, handed>>

-----------------------------------------------------------------------------
\* The properties of the parts, stated in their modules.

\* WakeStore: what is installed is listed, stays and has its sidecar.
StoreInvariant == Store!StoreInvariant
\* DeviceIdentity: one device, one id, and it is resolved.
IdentityInvariant == Identity!IdentityInvariant
\* LogRotation: the log is the bounded end of what was written.
LogInvariant == Rotating!LogInvariant
\* ReleaseTrust: what is accepted was released, or is warned of.
TrustInvariant == Release!TrustInvariant
\* WifiProvisioning: a saved network stays usable, and a run that fails leaves none.
WifiInvariant == Wifi!WifiInvariant
\* GatewayProfile: devices are given valid settings, one per version.
ProfileInvariant == Profile!ProfileInvariant
=============================================================================
