----------------------------- MODULE MCDeviceData -----------------------------
\* The parts of DeviceData, one of them at a time.  Those that are not started
\* are in a state in which none of their actions changes anything.
EXTENDS DeviceData

MCLimits == {[count |-> 1, bytes |-> 2], [count |-> 2, bytes |-> 2], [count |-> 3, bytes |-> 1],
             [count |-> 3, bytes |-> 2], [count |-> 4, bytes |-> 1]}

DaemonIdle ==
    /\ o = [wakeOnly |-> FALSE, file |-> TRUE, led |-> FALSE] /\ gpio = "0" /\ ring = "dark"
    /\ pc = "exit" /\ steps = <<>> /\ deferred = <<>> /\ observed = "none"
    /\ cached = [d \in Devices |-> "nothing"] /\ mic = "closed" /\ engine = "none"
    /\ worker = [w \in Workers |-> "none"] /\ stopped = FALSE /\ cancelled = FALSE
    /\ anim = "none" /\ hand = "dark" /\ want = "lit" /\ ticking = FALSE /\ tick = FALSE
    /\ toggles = 0 /\ failed = {} /\ claimed = FALSE /\ late = FALSE
StoreIdle ==
    /\ artifact = [id \in Ids |-> {}]
    /\ metadata = [f \in Ids \X Digests |-> Store!Absent] /\ index = Store!NoIndex
    /\ sdurable = Store!Directory(artifact, metadata, index)
    /\ spc = [i \in Installers |-> "idle"] /\ request = [i \in Installers |-> [id |-> Store!Absent]]
    /\ copy = [i \in Installers |-> Store!NoIndex]
    /\ installs = MaxInstalls /\ kills = MaxKills /\ scuts = MaxCuts /\ sfaults = MaxFaults
    /\ acked = Store!NoIndex /\ unsynced = FALSE
IdentityIdle ==
    /\ source = [s \in 1..3 |-> "absent"] /\ idfile = 0 /\ idurable = 0
    /\ ipc = [p \in Resolvers |-> "idle"] /\ fresh = [p \in Resolvers |-> 0]
    /\ resolves = MaxResolves /\ icuts = MaxCuts /\ ifaults = MaxFaults
    /\ returned = {} /\ ifailed = FALSE /\ blankAtFirst = FALSE /\ early = FALSE
RotatingIdle ==
    /\ file = [g \in 0..3 |-> <<>>] /\ limit = [count |-> 1, bytes |-> 2]
    /\ lpc = "none" /\ current = 0 /\ open = FALSE /\ next = 0
    /\ written = 0 /\ starts = MaxStarts /\ lfaults = 0 /\ shortened = FALSE /\ disturbed = FALSE
VerifyIdle ==
    /\ manifest = [of |-> CHOOSE r \in Releases : TRUE, edited |-> Release!None, complete |-> FALSE]
    /\ sig = Release!NoSignature /\ rartifact = Release!NoArtifact
    /\ allowUnsigned = FALSE /\ given = "none" /\ linked = "none"
    /\ rpc = "rejected" /\ notes = {} /\ line = "none"
WifiIdle ==
    /\ networks = <<>> /\ saved = <<>> /\ wpc = <<"idle", "idle">> /\ ssid = <<"x", "x">>
    /\ listed = <<<<>>, <<>>>> /\ nid = <<0, 0>> /\ at = <<1, 1>>
    /\ runs = MaxRuns /\ wfaults = MaxRefusals /\ restarts = MaxRestarts
    /\ met = <<FALSE, FALSE>> /\ lost = <<FALSE, FALSE>> /\ first = <<>>
    /\ mixed = <<FALSE, FALSE>> /\ made = <<{}, {}>>
ProfileIdle ==
    /\ profile = [version |-> 1, defaults |-> [f \in Fields |-> CHOOSE s \in Settings : TRUE], overrides |-> <<>>]
    /\ reloads = MaxReloads /\ handed = [d \in Fleet |-> {Profile!Effective(profile, d)}]
\* Names and setters can be exchanged: the first sets x.
WifiInit ==
    /\ Wifi!Init /\ ssid[1] = "x"
    /\ [i \in DOMAIN saved |-> saved[i].ssid] \in {<<>>, <<"x", "x">>, <<"y", "x">>}
\* Releases can be exchanged: the manifest is of the first.
ReleaseInit == Release!Init /\ manifest.of = CHOOSE r \in Releases : TRUE

MCInit ==
    \/ Init /\ StoreIdle /\ IdentityIdle /\ RotatingIdle /\ VerifyIdle /\ WifiIdle /\ ProfileIdle
    \/ DaemonIdle /\ Store!Init /\ IdentityIdle /\ RotatingIdle /\ VerifyIdle /\ WifiIdle /\ ProfileIdle
    \/ DaemonIdle /\ StoreIdle /\ Identity!Init /\ RotatingIdle /\ VerifyIdle /\ WifiIdle /\ ProfileIdle
    \/ DaemonIdle /\ StoreIdle /\ IdentityIdle /\ Rotating!Init /\ VerifyIdle /\ WifiIdle /\ ProfileIdle
    \/ DaemonIdle /\ StoreIdle /\ IdentityIdle /\ RotatingIdle /\ ReleaseInit /\ WifiIdle /\ ProfileIdle
    \/ DaemonIdle /\ StoreIdle /\ IdentityIdle /\ RotatingIdle /\ VerifyIdle /\ WifiInit /\ ProfileIdle
    \/ DaemonIdle /\ StoreIdle /\ IdentityIdle /\ RotatingIdle /\ VerifyIdle /\ WifiIdle /\ Profile!Init
MCNext ==
    \/ Next /\ UNCHANGED <<store, identity, rotating, verify, wifi, gateway>>
    \/ Store!Next /\ UNCHANGED <<vars, identity, rotating, verify, wifi, gateway>>
    \/ Identity!Next /\ UNCHANGED <<vars, store, rotating, verify, wifi, gateway>>
    \/ Rotating!Next /\ UNCHANGED <<vars, store, identity, verify, wifi, gateway>>
    \/ Release!Next /\ UNCHANGED <<vars, store, identity, rotating, wifi, gateway>>
    \/ Wifi!Next /\ UNCHANGED <<vars, store, identity, rotating, verify, gateway>>
    \/ Profile!Next /\ UNCHANGED <<vars, store, identity, rotating, verify, wifi>>
MCSpec == MCInit /\ [][MCNext]_<<vars, store, identity, rotating, verify, wifi, gateway>> /\ Fairness
=============================================================================
