--------------------------- MODULE DeviceDataProofs ---------------------------
(***************************************************************************)
(* What the processes keep and give back, for every set of models,         *)
(* installers, resolvers, limits, releases, networks and devices and every *)
(* bound: an echod process leaves the hardware as it should, the store     *)
(* stays whole, a device has one id, the log is the bounded end of what    *)
(* was written, a bundle that is accepted was released, a network that was *)
(* saved can be joined, devices are given valid settings.                  *)
(***************************************************************************)
EXTENDS DeviceData, Integers, FiniteSetTheorems, TLAPS

-----------------------------------------------------------------------------
(* The process.                                                            *)

Members(s) == {s[i] : i \in DOMAIN s}
Distinct(s) == \A i, j \in DOMAIN s : s[i] = s[j] => i = j
Steps == {"identity", "led", "state", "mic", "parts", "engine", "client", "buttons", "test"}
Down == {"unwind", "cleanup", "restore", "exit"}

DaemonTypes ==
    /\ TypeOK
    /\ pc \in {"snapshot", "services", "setup", "running", "close", "join"} \cup Down
    /\ steps \in Seq(Steps) /\ hand \in {"lit", "dark"} /\ want \in {"lit", "dark"}
    /\ cached \in [Devices -> {"nothing", "lit", "dark"}]
    /\ worker \in [Workers -> {"none", "running", "returned", "taken"}]
    /\ ticking \in BOOLEAN /\ tick \in BOOLEAN /\ claimed \in BOOLEAN /\ late \in BOOLEAN
    /\ o.file => pc \notin {"snapshot", "services", "cleanup", "restore"}
    /\ ~o.file /\ observed = "none" => pc \in {"snapshot", "exit"}

\* What is deferred was set up once, by a step that is over.
PlanShape ==
    /\ Distinct(steps) /\ Distinct(deferred) /\ Members(steps) \cap Members(deferred) = {}
    /\ "nothing" \in Members(deferred) => pc \notin {"snapshot", "services", "setup"}
    /\ \A c \in Members(steps) \cup Members(deferred) :
        /\ c = "test" => o.wakeOnly /\ ~o.file
        /\ c = "led" => ~o.wakeOnly \/ o.file
    /\ pc \in {"snapshot", "services"} =>
        /\ cached = [d \in Devices |-> "nothing"] /\ anim = "none" /\ ~ticking /\ ~tick
    /\ pc \in {"snapshot", "services", "cleanup", "restore", "exit"} => deferred = <<>>

\* Only what has a deferred call is open, or what is about to be closed.
OpenShape ==
    /\ mic = "open" => "mic" \in Members(deferred) \/ pc \in {"running", "close"}
    /\ engine = "open" => "engine" \in Members(deferred)
    /\ engine = "closed" => pc \in Down
    /\ pc \in Down => \A w \in Workers : worker[w] \in {"none", "taken"}
    /\ pc \in {"snapshot", "services", "setup"} => \A w \in Workers : worker[w] = "none"

MuteShape ==
    /\ o.file => observed = "none"
    /\ pc = "snapshot" => observed = "none" /\ ~claimed
    /\ MuteIsRestored

\* Nothing will clear the ring any more, unless the cleanup has yet to look at it.
Cleared ==
    /\ "led" \notin Members(deferred) /\ "test" \notin Members(deferred)
    /\ pc # "services" /\ (pc = "cleanup" => cached["prepare"] = "dark")

RingShape ==
    /\ ticking <=> "led" \in Members(deferred)
    /\ ticking \/ late \/ ~InHand
    /\ "test" \in Members(deferred) => cached["test"] = "lit"
    /\ o.wakeOnly /\ ~o.file => anim = "none" /\ cached["animator"] = "nothing"
    /\ pc \in {"setup", "running", "close", "join", "unwind"} /\ ~o.file => cached["prepare"] = "dark"
    /\ cached["prepare"] # "lit"
    /\ "ring" \in failed \/
        /\ cached["animator"] \in {"nothing", ring}
        /\ pc = "cleanup" /\ cached["prepare"] # "dark" => anim = "none" /\ cached["animator"] = "nothing"
        /\ claimed /\ Cleared /\ ~late => ring = "dark"

DaemonIInv == DaemonTypes /\ PlanShape /\ OpenShape /\ MuteShape /\ RingShape

-----------------------------------------------------------------------------
(* The store.                                                              *)

SidecarsOf == [Ids \X Digests -> Notes \cup {Store!Absent}]
IndexesOf == [Ids -> Store!Entries \cup {Store!NoEntry}]
StoreLabels == {"idle", "lock", "read", "artifact", "artifact_sync", "metadata", "metadata_sync",
                "index", "index_sync"}

StoreTypes ==
    /\ artifact \in [Ids -> SUBSET Digests] /\ metadata \in SidecarsOf /\ index \in IndexesOf
    /\ sdurable \in [artifact : [Ids -> SUBSET Digests], metadata : SidecarsOf, index : IndexesOf]
    /\ acked \in IndexesOf /\ unsynced \in BOOLEAN
    /\ spc \in [Installers -> StoreLabels] /\ copy \in [Installers -> IndexesOf]
    /\ request \in [Installers -> Store!Requests \cup {[id |-> Store!Absent]}]

\* One installer works at a time, on what it has asked for and on the index as
\* it is, and finds in place what it has published.
InstallerShape ==
    /\ \A i, j \in Installers : spc[i] \notin {"idle", "lock"} /\ spc[j] \notin {"idle", "lock"} => i = j
    /\ \A i \in Installers : spc[i] # "idle" => request[i] \in Store!Requests
    /\ \A i \in Installers : spc[i] \in {"artifact", "artifact_sync", "metadata", "metadata_sync", "index"} =>
        copy[i] = index
    /\ \A i \in Installers : spc[i] \in {"artifact_sync", "metadata", "metadata_sync", "index", "index_sync"} =>
        request[i].digest \in artifact[request[i].id]
    /\ \A i \in Installers : spc[i] \in {"metadata_sync", "index", "index_sync"} =>
        metadata[<<request[i].id, request[i].digest>>] = request[i].note
    /\ \A i \in Installers : spc[i] = "index_sync" =>
        index[request[i].id] = [digest |-> request[i].digest, note |-> request[i].note]

\* An index names what is there, with the sidecar that is there.
InPlace(x, a, m) ==
    \A id \in Ids : \/ x[id] = Store!NoEntry
                    \/ x[id].digest \in a[id] /\ m[<<id, x[id].digest>>] = x[id].note

\* While no rename was left without its sync, a power cut takes back the rename
\* under way at most, and nothing that an index names.
DiskShape ==
    unsynced \/
    /\ \A id \in Ids : sdurable.artifact[id] \subseteq artifact[id]
    /\ \A f \in Ids \X Digests : sdurable.metadata[f] \in {Store!Absent, metadata[f]}
    /\ InPlace(index, sdurable.artifact, sdurable.metadata)
    /\ InPlace(sdurable.index, sdurable.artifact, sdurable.metadata)
    /\ (\A i \in Installers : spc[i] # "artifact_sync") => sdurable.artifact = artifact
    /\ (\A i \in Installers : spc[i] # "metadata_sync") => sdurable.metadata = metadata
    /\ (\A i \in Installers : spc[i] # "index_sync") => sdurable.index = index

AckShape ==
    \A id \in Ids : acked[id] # Store!NoEntry => index[id] = acked[id] /\ sdurable.index[id] = acked[id]

StoreIInv == StoreTypes /\ InstallerShape /\ DiskShape /\ AckShape

-----------------------------------------------------------------------------
(* The id.                                                                 *)

Known == 0..MaxResolves \cup {Identity!Blank}

\* Without a file that had no id at first nothing is ever removed, an id that is
\* there stays unless it was not synced, and what was returned was synced.
IdentityIInv ==
    /\ idfile \in Known /\ idurable \in Known /\ returned \subseteq Known
    /\ resolves \in 0..MaxResolves /\ fresh \in [Resolvers -> 0..MaxResolves]
    /\ ipc \in [Resolvers -> {"idle", "link", "check", "remove", "relink", "recheck", "sync", "read"}]
    /\ blankAtFirst \in BOOLEAN /\ early \in BOOLEAN /\ ifailed \in BOOLEAN
    /\ \A p \in Resolvers : ipc[p] = "link" => fresh[p] # Identity!NoId
    /\ blankAtFirst \/
        /\ idfile # Identity!Blank /\ idurable \in {Identity!NoId, idfile}
        /\ \A p \in Resolvers : ipc[p] \notin {"remove", "relink", "recheck"}
        /\ \A p \in Resolvers : ipc[p] \in {"check", "read", "sync"} => idfile # Identity!NoId
        /\ early \/ returned \subseteq {idurable} \ {Identity!NoId}
        /\ ifailed => Identity!Serial \in {"denied", "unusable"}

-----------------------------------------------------------------------------
(* The log.                                                                *)

Size(f, g) == Len(f[g])
Total(f) == Size(f, 0) + Size(f, 1) + Size(f, 2) + Size(f, 3)

\* The numbers that follow b.
Follow(s, b) == \A i \in 1..Len(s) : s[i] = b + i

\* Each generation goes on where the one before it ends, and the newest ends
\* with w.
EndsWith(f, w) ==
    /\ Follow(f[0], w - Size(f, 0))
    /\ Follow(f[1], w - Size(f, 0) - Size(f, 1))
    /\ Follow(f[2], w - Size(f, 0) - Size(f, 1) - Size(f, 2))
    /\ Follow(f[3], w - Size(f, 0) - Size(f, 1) - Size(f, 2) - Size(f, 3))

LogTypes ==
    /\ file \in [Rotating!Generations -> Seq(Nat)] /\ limit \in Limits
    /\ lpc \in {"none", "ready", "remove", "rename", "create"}
    /\ next \in Rotating!Generations /\ written \in Nat

\* A writer can write to the newest generation and knows its size; a rotation
\* moves generations into a place that is free.
WriterShape ==
    /\ open => lpc = "ready" /\ current = Size(file, 0)
    /\ lpc = "remove" => Size(file, 0) = limit.bytes
    /\ lpc = "rename" => next < limit.count /\ file[next] = <<>>
    /\ lpc = "create" => next = 0 /\ file[0] = <<>>

\* No generation is longer than allowed, none is older.
SizesAreBounded ==
    \A g \in Rotating!Generations : IF g < limit.count THEN Size(file, g) <= limit.bytes ELSE Size(file, g) = 0

LogFollows == ~shortened => EndsWith(file, written)

\* The generation that may be shorter than the others: the one that is written,
\* or the place that is free.
Partial == IF lpc = "rename" THEN next ELSE 0
Whole(g) == Size(file, g) = limit.bytes

\* An undisturbed log is whole up to its oldest generation, and has lost
\* something only if there are as many as may be.
GenerationsAreWhole ==
    ~disturbed =>
        /\ \A g \in Rotating!Generations : g # Partial /\ file[g] # <<>> =>
               \A h \in Rotating!Generations : h <= g /\ h # Partial => Whole(h)
        /\ \/ Total(file) = written
           \/ \A g \in Rotating!Generations : g < limit.count /\ g # Partial => Whole(g)

LogIInv == LogTypes /\ WriterShape /\ SizesAreBounded /\ LogFollows /\ GenerationsAreWhole

-----------------------------------------------------------------------------
(* The release.                                                            *)

\* What TrustPolicy.Check lets pass.
Passes == \/ (sig = Release!NoSignature \/ Release!KeyMissing) /\ allowUnsigned
          \/ sig # Release!NoSignature /\ ~Release!KeyMissing /\ Release!Verifies

TrustIInv ==
    /\ rpc \in {"report", "artifact", "accepted"} => Passes
    /\ rpc \in {"artifact", "accepted"} =>
        /\ allowUnsigned => notes # {}
        /\ line = (IF sig = Release!NoSignature THEN "absent" ELSE "verified")
    /\ rpc = "accepted" /\ rartifact # Release!NoArtifact =>
        rartifact.whole /\ rartifact.of = manifest.of

-----------------------------------------------------------------------------
(* The profile.                                                            *)

Overrides == UNION {[D -> Profile!Raw] : D \in SUBSET Fleet}

ProfileIInv ==
    /\ profile \in Profile!Documents /\ Profile!Loads(profile)
    /\ DOMAIN handed = Fleet
    /\ \A d \in Fleet : \A c \in handed[d] :
        /\ c.version \in 0..profile.version
        /\ c.version = profile.version => c = Profile!Effective(profile, d)
        /\ \A f \in Fields : c.settings[f] \in Settings
    /\ Profile!VersionNamesOneConfig

-----------------------------------------------------------------------------
(* The networks.                                                           *)

Entry == [ssid : Ssids \cup {Wifi!Blank}, key : BOOLEAN, on : BOOLEAN]
AtWork == {s \in Setters : wpc[s] \in {"setup", "cleanup"}}

WifiTypes ==
    /\ DOMAIN networks \in SUBSET Nat /\ IsFiniteSet(DOMAIN networks)
    /\ networks \in [DOMAIN networks -> Entry] /\ saved \in Seq(Entry)
    /\ wpc \in [Setters -> {"idle", "remove", "setup", "cleanup", "ok", "failed"}]
    /\ ssid \in [Setters -> Ssids] /\ listed \in [Setters -> Seq(Nat)]
    /\ nid \in [Setters -> Nat] /\ at \in [Setters -> 1..7]
    /\ \A s \in Setters : wpc[s] = "setup" => at[s] # 7
    /\ lost = [s \in Setters |-> lost[s]]

\* What a run is about to remove is all there is of its name, what it sets up is
\* there, so far as it has come, and alone of its name.
RunAt(s) ==
    /\ wpc[s] = "remove" =>
           /\ \A k \in DOMAIN listed[s] :
                  /\ listed[s][k] \in DOMAIN networks /\ networks[listed[s][k]].ssid = ssid[s]
                  /\ \A l \in DOMAIN listed[s] : listed[s][k] = listed[s][l] => k = l
           /\ \A i \in Wifi!Named(networks, ssid[s]) : \E k \in DOMAIN listed[s] : listed[s][k] = i
    /\ s \in AtWork =>
           /\ nid[s] \in DOMAIN networks /\ networks[nid[s]].ssid \in {Wifi!Blank, ssid[s]}
           /\ Wifi!Named(networks, ssid[s]) \subseteq {nid[s]}
    /\ wpc[s] = "setup" =>
           /\ networks[nid[s]].ssid = IF at[s] = 1 THEN Wifi!Blank ELSE ssid[s]
           /\ at[s] >= 4 => networks[nid[s]].key

\* Runs that nothing met have names and networks of their own.
RunShape ==
    /\ \A s, t \in Wifi!Running : ssid[s] = ssid[t] => s = t
    /\ \A s, t \in AtWork : nid[s] = nid[t] => s = t
    /\ \A s \in Setters : RunAt(s)

\* The only run for a name.
Only(s) == \A t \in Setters \ {s} : ssid[t] # ssid[s] \/ wpc[t] = "idle"
Single(entries, name) == \E i \in DOMAIN entries : Wifi!Named(entries, name) = {i} /\ entries[i].key

\* What the only run for a name has saved is alone of that name.
NameAt(s) == wpc[s] = "ok" => Single(networks, ssid[s]) /\ Single(saved, ssid[s])
NameShape == \A s \in Setters : Only(s) => NameAt(s)

\* The networks after a command that names one of them.
Alike(nets, after, i) ==
    /\ DOMAIN after = DOMAIN nets /\ after \in [DOMAIN nets -> Entry]
    /\ \A j \in DOMAIN nets : j # i => after[j].ssid = nets[j].ssid /\ after[j].key = nets[j].key

\* A network that a run has added is gone with the run.
MadeShape ==
    \A s \in Setters : \A i \in made[s] \cap DOMAIN networks :
        wpc[s] = "ok" \/ lost[s] \/ (wpc[s] \in {"setup", "cleanup"} /\ nid[s] = i)

Explained == \E s \in Setters : lost[s] \/ mixed[s]
HalfShape ==
    /\ \A i \in DOMAIN networks : networks[i].key \/ Explained \/ \E s \in AtWork : nid[s] = i
    /\ \A i \in DOMAIN saved : saved[i].key \/ Explained

\* A network that was saved runs unless a run has removed it, and is saved unless
\* another run saved what this one had left.
UsableShape ==
    \A name \in Ssids : Wifi!Joinable(first, name) =>
        /\ \/ Wifi!Joinable(networks, name)
           \/ \E s \in Setters : ssid[s] = name /\ (wpc[s] \notin {"idle", "ok"} \/ mixed[s])
        /\ Wifi!Joinable(saved, name) \/ \E s \in Setters : ssid[s] = name /\ mixed[s]

WifiIInv == WifiTypes /\ MadeShape /\ (Wifi!Alone => RunShape /\ NameShape /\ HalfShape /\ UsableShape)

\* A step of a run leaves what is not its own.
Stays(j) ==
    /\ j \in DOMAIN networks /\ j \in DOMAIN networks'
    /\ networks'[j].ssid = networks[j].ssid /\ networks'[j].key = networks[j].key
LeavesOthers(s) ==
    /\ \A j \in DOMAIN networks : \/ Stays(j)
                                  \/ wpc[s] = "remove" /\ networks[j].ssid = ssid[s]
                                  \/ s \in AtWork /\ j = nid[s]
    /\ \A j \in DOMAIN networks' : Stays(j) \/ networks'[j].ssid \in {Wifi!Blank, ssid[s]}
    /\ s \in Wifi!Running /\ wpc'[s] # "idle" /\ UNCHANGED <<ssid, met, first>>
    /\ \A t \in Setters \ {s} : wpc'[t] = wpc[t] /\ listed'[t] = listed[t] /\ nid'[t] = nid[t] /\ at'[t] = at[t]
    /\ \A t \in Setters : (lost[t] => lost'[t]) /\ (mixed[t] => mixed'[t])
    /\ UNCHANGED saved \/ (saved' = Wifi!InOrder(networks) /\ UNCHANGED networks)

-----------------------------------------------------------------------------
(* Proofs: the release.                                                    *)

\* No step of `echoctl release verify` lets pass what TrustPolicy.Check does not,
\* and its report is written from what was checked.
LEMMA TrustInv == TrustIInv /\ [Release!Next]_(Release!vars) => TrustIInv'
<1> SUFFICES ASSUME TrustIInv, [Release!Next]_(Release!vars) PROVE TrustIInv'
    OBVIOUS
<1> USE DEF TrustIInv
<1>1. CASE UNCHANGED <<Release!files, Release!policy>>
    <2>1. UNCHANGED <<manifest, sig, rartifact, allowUnsigned, given, linked, Passes>>
        BY <1>1 DEF Passes, Release!files, Release!policy, Release!KeyMissing, Release!PublicKey,
                    Release!Verifies
    <2>2. CASE Release!ParseManifest
        BY <2>1, <2>2 DEF Release!ParseManifest, Release!Goto, Release!Reject
    <2>3. CASE Release!TrustPolicy
        BY <2>1, <2>3 DEF Release!TrustPolicy, Release!Goto, Release!Reject
    <2>4. CASE Release!Check
        BY <2>1, <2>4 DEF Release!Check, Release!Goto, Release!Reject, Passes
    <2>5. CASE Release!Report
        BY <2>1, <2>5 DEF Release!Report
    <2>6. CASE Release!VerifyArtifact
        BY <2>1, <2>6 DEF Release!VerifyArtifact, Release!Goto, Release!Reject
    <2>7. CASE UNCHANGED Release!vars
        BY <2>1, <2>7 DEF Release!vars
    <2> QED
        BY <2>2, <2>3, <2>4, <2>5, <2>6, <2>7 DEF Release!Next
<1>2. UNCHANGED <<Release!files, Release!policy>>
    BY DEF Release!Next, Release!vars, Release!ParseManifest, Release!TrustPolicy, Release!Check,
           Release!Report, Release!VerifyArtifact, Release!Goto, Release!Reject
<1> QED
    BY <1>1, <1>2

\* verifyRelease: what the secure policy accepts is one release as it was signed;
\* what is accepted unverified comes with a warning; and the report does not call
\* a signature verified, except where a build without a key was told to accept it.
THEOREM TrustSafe == Release!Spec => []TrustInvariant
<1>1. Release!Init => TrustIInv
    BY DEF Release!Init, TrustIInv
<1>2. TrustIInv => TrustInvariant
    BY DEF TrustIInv, Passes, TrustInvariant, Release!TrustInvariant, Release!AcceptedIsReleased,
           Release!AcceptanceIsExplained, Release!SignatureLineIsTrue, Release!KeyMissing,
           Release!PublicKey, Release!Verifies
<1> QED
    BY <1>1, <1>2, TrustInv, PTL DEF Release!Spec

-----------------------------------------------------------------------------
(* Proofs: the profile.                                                    *)

\* override.apply on a profile that loads gives every field a valid setting.
LEMMA EffectiveIsValid ==
    ASSUME NEW x \in Profile!Documents, Profile!Loads(x), NEW d \in Fleet, NEW f \in Fields
    PROVE  /\ Profile!Effective(x, d).settings[f] \in Settings
           /\ Profile!Effective(x, d).version = x.version
<1>1. x.defaults \in Profile!Raw /\ x.overrides \in Overrides
    BY DEF Profile!Documents, Overrides
<1>2. x.defaults[f] \in Settings
    BY <1>1 DEF Profile!Raw, Profile!Loads, Profile!Complete
<1>3. CASE d \in DOMAIN x.overrides
    <2>1. x.overrides[d] \in Profile!Raw
        BY <1>1, <1>3 DEF Overrides
    <2>2. Profile!Apply(x.overrides[d], x.defaults)[f] # Profile!Invalid
        BY <1>3 DEF Profile!Loads, Profile!Validate
    <2> QED
        BY <1>2, <1>3, <2>1, <2>2 DEF Profile!Effective, Profile!Apply, Profile!Raw
<1> QED
    BY <1>2, <1>3 DEF Profile!Effective

\* A newer profile is given under a version of its own.
LEMMA ProfileInv == ProfileIInv /\ [Profile!Next]_(Profile!vars) => ProfileIInv'
<1> SUFFICES ASSUME ProfileIInv, [Profile!Next]_(Profile!vars) PROVE ProfileIInv'
    OBVIOUS
<1> USE DEF ProfileIInv
<1>1. CASE Profile!Reload
    <2> PICK document \in Profile!Documents, connected \in SUBSET Fleet :
            IF Profile!Loads(document) /\ document.version > profile.version
            THEN /\ profile' = document
                 /\ handed' = [d \in Fleet |->
                                 IF d \in connected THEN handed[d] \cup {Profile!Effective(document, d)}
                                 ELSE handed[d]]
            ELSE UNCHANGED <<profile, handed>>
        BY <1>1 DEF Profile!Reload
    <2>1. CASE Profile!Loads(document) /\ document.version > profile.version
        <3>1. document.version \in Nat /\ profile.version \in Nat /\ profile.version < document.version
            BY <2>1 DEF Profile!Documents
        <3>2. ASSUME NEW d \in Fleet, NEW c \in handed'[d]
              PROVE  \/ c \in handed[d]
                     \/ c = Profile!Effective(document, d)
            BY <2>1
        <3>3. ASSUME NEW d \in Fleet, NEW c \in handed'[d]
              PROVE  /\ c.version \in 0..document.version
                     /\ c.version = document.version => c = Profile!Effective(document, d)
                     /\ \A f \in Fields : c.settings[f] \in Settings
            <4>1. CASE c \in handed[d]
                BY <3>1, <4>1
            <4>2. CASE c = Profile!Effective(document, d)
                <5>1. c.version = document.version
                    BY <4>2 DEF Profile!Effective
                <5> QED
                    BY <2>1, <3>1, <4>2, <5>1, EffectiveIsValid
            <4> QED
                BY <3>2, <4>1, <4>2
        <3>4. ASSUME NEW d \in Fleet, NEW c1 \in handed'[d], NEW c2 \in handed'[d],
                     c1.version = c2.version
              PROVE  c1 = c2
            <4>1. CASE c1.version = document.version
                BY <3>3, <3>4, <4>1
            <4>2. CASE c1.version # document.version
                <5>1. c1 \in handed[d] /\ c2 \in handed[d]
                    BY <3>2, <3>4, <4>2 DEF Profile!Effective
                <5> QED
                    BY <3>4, <5>1 DEF Profile!VersionNamesOneConfig
            <4> QED
                BY <4>1, <4>2
        <3> QED
            BY <2>1, <3>3, <3>4 DEF Profile!VersionNamesOneConfig, Profile!Loads, Profile!Complete
    <2>2. CASE ~(Profile!Loads(document) /\ document.version > profile.version)
        BY <2>2 DEF Profile!VersionNamesOneConfig, Profile!Effective, Profile!Apply, Profile!Loads,
                    Profile!Complete, Profile!Empty, Profile!Validate
    <2> QED
        BY <2>1, <2>2
<1>2. ASSUME NEW e \in Fleet, Profile!Connect(e) PROVE ProfileIInv'
    <2>1. profile' = profile /\ handed' = [handed EXCEPT ![e] = @ \cup {Profile!Effective(profile, e)}]
        BY <1>2 DEF Profile!Connect
    <2>2. profile.version \in Nat
        BY DEF Profile!Documents
    <2>3. ASSUME NEW d \in Fleet, NEW c \in handed'[d]
          PROVE  c \in handed[d] \/ c = Profile!Effective(profile, d)
        BY <2>1
    <2>4. ASSUME NEW d \in Fleet, NEW c \in handed'[d]
          PROVE  /\ c.version \in 0..profile.version
                 /\ c.version = profile.version => c = Profile!Effective(profile, d)
                 /\ \A f \in Fields : c.settings[f] \in Settings
        <3>1. CASE c \in handed[d]
            BY <3>1
        <3>2. CASE c = Profile!Effective(profile, d)
            <4>1. c.version = profile.version
                BY <3>2 DEF Profile!Effective
            <4> QED
                BY <2>2, <3>2, <4>1, EffectiveIsValid
        <3> QED
            BY <2>3, <3>1, <3>2
    <2>5. ASSUME NEW d \in Fleet, NEW c1 \in handed'[d], NEW c2 \in handed'[d], c1.version = c2.version
          PROVE  c1 = c2
        <3>1. CASE c1.version = profile.version
            BY <2>4, <2>5, <3>1
        <3>2. CASE c1.version # profile.version
            BY <2>3, <2>5, <3>2 DEF Profile!VersionNamesOneConfig, Profile!Effective
        <3> QED
            BY <3>1, <3>2
    <2>6. Profile!Loads(profile)' /\ DOMAIN handed' = Fleet /\ profile' \in Profile!Documents
        BY <2>1 DEF Profile!Loads, Profile!Complete, Profile!Empty, Profile!Validate, Profile!Apply
    <2>7. \A d \in Fleet : Profile!Effective(profile, d)' = Profile!Effective(profile, d)
        BY <2>1 DEF Profile!Effective, Profile!Apply
    <2> QED
        BY <2>1, <2>4, <2>5, <2>6, <2>7 DEF Profile!VersionNamesOneConfig
<1>3. CASE UNCHANGED Profile!vars
    BY <1>3 DEF Profile!vars, Profile!VersionNamesOneConfig, Profile!Effective, Profile!Apply,
                Profile!Loads, Profile!Complete, Profile!Empty, Profile!Validate
<1> QED
    BY <1>1, <1>2, <1>3 DEF Profile!Next

\* config.Store: whatever the operator writes into the file and however often it
\* is reloaded, no device is given an invalid setting, and a version names one
\* configuration of a device.
THEOREM ProfileSafe == Profile!Spec => []ProfileInvariant
<1>1. Profile!Init => ProfileIInv
    BY DEF Profile!Init, ProfileIInv, Profile!VersionNamesOneConfig
<1>2. ProfileIInv => ProfileInvariant
    BY DEF ProfileIInv, ProfileInvariant, Profile!ProfileInvariant, Profile!HandedIsValid
<1> QED
    BY <1>1, <1>2, ProfileInv, PTL DEF Profile!Spec

-----------------------------------------------------------------------------
(* Proofs: the id.                                                         *)

\* The types of what a resolver works with are kept by every step.
LEMMA IdentityTypes ==
    ASSUME IdentityIInv, [Identity!Next]_(Identity!vars)
    PROVE  /\ idfile' \in Known /\ idurable' \in Known /\ returned' \subseteq Known
           /\ resolves' \in 0..MaxResolves /\ fresh' \in [Resolvers -> 0..MaxResolves]
           /\ ipc' \in [Resolvers -> {"idle", "link", "check", "remove", "relink", "recheck", "sync", "read"}]
           /\ early' \in BOOLEAN /\ ifailed' \in BOOLEAN
           /\ UNCHANGED <<source, blankAtFirst>>
           /\ \A p \in Resolvers : ipc'[p] = "link" => fresh'[p] # Identity!NoId
<1> USE ResolvesAssumption DEF Identity!Goto, Identity!Fails, Identity!Returns
<1>1. /\ idfile \in Known /\ idurable \in Known /\ returned \subseteq Known
      /\ resolves \in 0..MaxResolves /\ fresh \in [Resolvers -> 0..MaxResolves]
      /\ ipc \in [Resolvers -> {"idle", "link", "check", "remove", "relink", "recheck", "sync", "read"}]
      /\ early \in BOOLEAN /\ ifailed \in BOOLEAN
      /\ \A p \in Resolvers : ipc[p] = "link" => fresh[p] # Identity!NoId
      /\ 0 \in Known /\ \A n \in 0..MaxResolves : n \in Known
    BY DEF IdentityIInv, Known
<1>2. ASSUME NEW p \in Resolvers, Identity!Resolve(p)
      PROVE  /\ resolves' \in 0..MaxResolves /\ fresh' \in [Resolvers -> 0..MaxResolves]
             /\ \A q \in Resolvers : ipc'[q] = "link" => fresh'[q] # Identity!NoId
             /\ returned' \subseteq Known /\ early' \in BOOLEAN /\ ifailed' \in BOOLEAN
             /\ ipc' \in [Resolvers -> {"idle", "link", "check", "remove", "relink", "recheck", "sync", "read"}]
             /\ UNCHANGED <<source, blankAtFirst, idfile, idurable>>
    <2>1. resolves' = resolves + 1 /\ resolves' \in 1..MaxResolves
        BY <1>1, <1>2 DEF Identity!Resolve
    <2>2. UNCHANGED <<source, blankAtFirst, idfile, idurable>>
        BY <1>2 DEF Identity!Resolve
    <2>3. \/ UNCHANGED <<ipc, fresh, returned, ifailed, early>>
          \/ Identity!Fails(p) /\ UNCHANGED <<fresh, returned, early>>
          \/ Identity!Returns(p) /\ UNCHANGED <<fresh, ifailed>>
          \/ /\ Identity!Goto(p, "link") /\ fresh' = [fresh EXCEPT ![p] = resolves']
             /\ UNCHANGED <<returned, ifailed, early>>
        BY <1>2 DEF Identity!Resolve
    <2>4. CASE UNCHANGED <<ipc, fresh, returned, ifailed, early>>
        BY <1>1, <2>1, <2>2, <2>4
    <2>5. CASE Identity!Fails(p) /\ UNCHANGED <<fresh, returned, early>>
        BY <1>1, <2>1, <2>2, <2>5
    <2>6. CASE Identity!Returns(p) /\ UNCHANGED <<fresh, ifailed>>
        <3>1. early' \in BOOLEAN
            BY <2>6
        <3>2. returned' \subseteq Known /\ ipc' = [ipc EXCEPT ![p] = "idle"]
            BY <1>1, <2>6
        <3> QED
            BY <1>1, <2>1, <2>2, <2>6, <3>1, <3>2
    <2>7. CASE /\ Identity!Goto(p, "link") /\ fresh' = [fresh EXCEPT ![p] = resolves']
               /\ UNCHANGED <<returned, ifailed, early>>
        <3>1. resolves' # 0 /\ resolves' \in 0..MaxResolves
            BY <2>1
        <3>2. fresh' \in [Resolvers -> 0..MaxResolves]
            BY <1>1, <2>7, <3>1
        <3>3. ASSUME NEW q \in Resolvers, ipc'[q] = "link" PROVE fresh'[q] # 0
            BY <1>1, <2>7, <3>1, <3>3 DEF Identity!NoId
        <3> QED
            BY <1>1, <2>1, <2>2, <2>7, <3>2, <3>3 DEF Identity!NoId
    <2> QED
        BY <2>3, <2>4, <2>5, <2>6, <2>7
<1>3. ASSUME NEW p \in Resolvers, Identity!Link(p) PROVE idfile' \in Known
    BY <1>1, <1>3 DEF Identity!Link
<1>4. CASE \E p \in Resolvers : Identity!Resolve(p)
    BY <1>1, <1>2, <1>4
<1>5. CASE \E p \in Resolvers : Identity!Link(p)
    BY <1>1, <1>3, <1>5 DEF Identity!Link
<1>6. CASE \E p \in Resolvers : Identity!Check(p)
    BY <1>1, <1>6 DEF Identity!Check
<1>7. CASE \E p \in Resolvers : Identity!Remove(p)
    BY <1>1, <1>7 DEF Identity!Remove, Identity!NoId
<1>8. CASE \E p \in Resolvers : Identity!SyncDirectory(p)
    BY <1>1, <1>8 DEF Identity!SyncDirectory
<1>9. CASE \E p \in Resolvers : Identity!ReadBack(p)
    <2> PICK p \in Resolvers : Identity!ReadBack(p)
        BY <1>9
    <2>1. UNCHANGED <<source, idfile, idurable, fresh, resolves, icuts, ifaults, blankAtFirst>>
        BY DEF Identity!ReadBack
    <2>2. CASE Identity!Valid(idfile)
        <3>1. Identity!Returns(p) /\ UNCHANGED ifailed
            BY <2>2 DEF Identity!ReadBack
        <3>2. early' \in BOOLEAN
            BY <3>1
        <3>3. returned' \subseteq Known /\ ipc' = [ipc EXCEPT ![p] = "idle"]
            BY <1>1, <3>1
        <3> QED
            BY <1>1, <2>1, <3>1, <3>2, <3>3
    <2>3. CASE ~Identity!Valid(idfile)
        <3>1. Identity!Fails(p) /\ UNCHANGED <<returned, early>>
            BY <2>3 DEF Identity!ReadBack
        <3> QED
            BY <1>1, <2>1, <3>1
    <2> QED
        BY <2>2, <2>3
<1>10. CASE \E p \in Resolvers : Identity!Fault(p)
    BY <1>1, <1>10 DEF Identity!Fault
<1>11. CASE Identity!PowerCut
    BY <1>1, <1>11 DEF Identity!PowerCut
<1>12. CASE UNCHANGED Identity!vars
    BY <1>1, <1>12 DEF Identity!vars
<1> QED
    BY <1>4, <1>5, <1>6, <1>7, <1>8, <1>9, <1>10, <1>11, <1>12 DEF Identity!Next

\* Unless there was a file without an id at first, an id that was linked is
\* taken back by a power cut only, and never after it was synced.
LEMMA IdentityInv == IdentityIInv /\ [Identity!Next]_(Identity!vars) => IdentityIInv'
<1> SUFFICES ASSUME IdentityIInv, [Identity!Next]_(Identity!vars), ~blankAtFirst
             PROVE  /\ idfile' # Identity!Blank /\ idurable' \in {Identity!NoId, idfile'}
                    /\ \A p \in Resolvers : ipc'[p] \notin {"remove", "relink", "recheck"}
                    /\ \A p \in Resolvers : ipc'[p] \in {"check", "read", "sync"} => idfile' # Identity!NoId
                    /\ early' \/ returned' \subseteq {idurable'} \ {Identity!NoId}
                    /\ ifailed' => Identity!Serial' \in {"denied", "unusable"}
    <2> SUFFICES ASSUME IdentityIInv, [Identity!Next]_(Identity!vars) PROVE IdentityIInv'
        OBVIOUS
    <2>1. blankAtFirst \in BOOLEAN
        BY DEF IdentityIInv
    <2> QED
        BY <2>1, IdentityTypes DEF IdentityIInv
<1> USE DEF Identity!Goto, Identity!Fails, Identity!Returns, Identity!Valid, Identity!NoId
<1>1. /\ idfile # Identity!Blank /\ idurable \in {0, idfile}
      /\ \A p \in Resolvers : ipc[p] \notin {"remove", "relink", "recheck"}
      /\ \A p \in Resolvers : ipc[p] \in {"check", "read", "sync"} => idfile # 0
      /\ early \/ returned \subseteq {idurable} \ {0}
      /\ ifailed => Identity!Serial \in {"denied", "unusable"}
      /\ ipc \in [Resolvers -> {"idle", "link", "check", "remove", "relink", "recheck", "sync", "read"}]
      /\ early \in BOOLEAN /\ ifailed \in BOOLEAN
    BY DEF IdentityIInv
<1>2. UNCHANGED source
    BY IdentityTypes
<1>3. Identity!Serial' = Identity!Serial
    BY <1>2 DEF Identity!Serial
<1>4. CASE \E p \in Resolvers : Identity!Resolve(p)
    <2> PICK p \in Resolvers : Identity!Resolve(p)
        BY <1>4
    <2>1. UNCHANGED <<idfile, idurable>>
        BY DEF Identity!Resolve
    <2>2. \/ UNCHANGED <<ipc, returned, ifailed, early>>
          \/ Identity!Serial \in {"denied", "unusable"} /\ Identity!Fails(p) /\ UNCHANGED <<returned, early>>
          \/ Identity!Valid(idfile) /\ Identity!Returns(p) /\ UNCHANGED ifailed
          \/ Identity!Goto(p, "link") /\ UNCHANGED <<returned, ifailed, early>>
        BY DEF Identity!Resolve
    <2>3. CASE Identity!Valid(idfile) /\ Identity!Returns(p) /\ UNCHANGED ifailed
        <3>1. early' \/ returned' \subseteq {idurable'} \ {0}
            BY <1>1, <2>1, <2>3
        <3>2. ipc' = [ipc EXCEPT ![p] = "idle"]
            BY <2>3
        <3> QED
            BY <1>1, <1>3, <2>1, <2>3, <3>1, <3>2
    <2>4. CASE ~(Identity!Valid(idfile) /\ Identity!Returns(p) /\ UNCHANGED ifailed)
        BY <1>1, <1>3, <2>1, <2>2, <2>4
    <2> QED
        BY <2>3, <2>4
<1>5. CASE \E p \in Resolvers : Identity!Link(p)
    <2> PICK p \in Resolvers : Identity!Link(p)
        BY <1>5
    <2>1. ipc[p] = "link" /\ UNCHANGED <<idurable, returned, ifailed, early>>
        BY <1>1 DEF Identity!Link
    <2>2. CASE idfile = 0
        <3>1. idfile' = fresh[p] /\ Identity!Goto(p, "sync")
            BY <2>2 DEF Identity!Link
        <3>2. idfile' # 0 /\ idfile' # Identity!Blank
            <4>1. fresh[p] \in 0..MaxResolves /\ fresh[p] # 0
                BY <2>1 DEF IdentityIInv
            <4> QED
                BY <3>1, <4>1, ResolvesAssumption
        <3> QED
            BY <1>1, <1>3, <2>1, <2>2, <3>1, <3>2
    <2>3. CASE idfile # 0
        <3>1. UNCHANGED idfile /\ Identity!Goto(p, "check")
            BY <2>1, <2>3 DEF Identity!Link
        <3> QED
            BY <1>1, <1>3, <2>1, <2>3, <3>1
    <2> QED
        BY <2>2, <2>3
<1>6. CASE \E p \in Resolvers : Identity!Check(p)
    BY <1>1, <1>3, <1>6 DEF Identity!Check
<1>7. CASE \E p \in Resolvers : Identity!Remove(p)
    BY <1>1, <1>7 DEF Identity!Remove
<1>8. CASE \E p \in Resolvers : Identity!SyncDirectory(p)
    BY <1>1, <1>3, <1>8 DEF Identity!SyncDirectory
<1>9. CASE \E p \in Resolvers : Identity!ReadBack(p)
    BY <1>1, <1>3, <1>9 DEF Identity!ReadBack
<1>10. CASE \E p \in Resolvers : Identity!Fault(p)
    BY <1>1, <1>3, <1>10 DEF Identity!Fault
<1>11. CASE Identity!PowerCut
    BY <1>1, <1>3, <1>11 DEF Identity!PowerCut, Identity!Blank
<1>12. CASE UNCHANGED Identity!vars
    BY <1>1, <1>3, <1>12 DEF Identity!vars
<1> QED
    BY <1>4, <1>5, <1>6, <1>7, <1>8, <1>9, <1>10, <1>11, <1>12 DEF Identity!Next

\* system.Resolve: however resolvers interleave, fail and are cut off the power,
\* a device without a serial is known by one id and gets it, but for the known
\* exceptions.
THEOREM IdentitySafe == Identity!Spec => []IdentityInvariant
<1>1. ASSUME Identity!Init PROVE IdentityIInv
    <2>1. /\ idfile \in {0, Identity!Blank} /\ idurable = idfile /\ resolves = 0 /\ returned = {}
          /\ ipc = [p \in Resolvers |-> "idle"] /\ fresh = [p \in Resolvers |-> 0]
        BY <1>1 DEF Identity!Init, Identity!NoId
    <2>2. blankAtFirst \in BOOLEAN /\ early = FALSE /\ ifailed = FALSE
        BY <1>1 DEF Identity!Init
    <2>3. ~blankAtFirst => idfile = 0
        BY <1>1 DEF Identity!Init, Identity!NoId
    <2>4. 0 \in 0..MaxResolves /\ 0 # Identity!Blank
        BY ResolvesAssumption DEF Identity!Blank
    <2> QED
        BY <2>1, <2>2, <2>3, <2>4 DEF IdentityIInv, Known, Identity!NoId
<1>2. IdentityIInv => IdentityInvariant
    BY DEF IdentityIInv, IdentityInvariant, Identity!IdentityInvariant, Identity!TypeOK, Known,
           Identity!IdentityIsStable, Identity!ResolveSucceeds
<1> QED
    BY <1>1, <1>2, IdentityInv, PTL DEF Identity!Spec

-----------------------------------------------------------------------------
(* Proofs: the log.                                                        *)

\* What a writer leaves of the files that it finds: enforceExistingLimit.
LEMMA EnforcedIs ==
    ASSUME LogTypes, NEW l \in Limits
    PROVE  /\ Rotating!Enforced(l) \in [Rotating!Generations -> Seq(Nat)]
           /\ \A g \in Rotating!Generations :
                  IF g < l.count THEN Len(Rotating!Enforced(l)[g]) <= l.bytes ELSE Rotating!Enforced(l)[g] = <<>>
           /\ Rotating!Long(l) = {} => \A g \in Rotating!Generations : g < l.count => Rotating!Enforced(l)[g] = file[g]
<1>1. file \in [Rotating!Generations -> Seq(Nat)] /\ l.count \in 1..4 /\ l.bytes \in Nat \ {0}
    BY LimitsAssumption DEF LogTypes
<1>2. ASSUME NEW g \in Rotating!Generations
      PROVE  /\ g >= l.count => Rotating!Enforced(l)[g] = <<>>
             /\ g < l.count /\ Len(file[g]) > l.bytes => Rotating!Enforced(l)[g] = SubSeq(file[g], 1, l.bytes)
             /\ g < l.count /\ ~(Len(file[g]) > l.bytes) => Rotating!Enforced(l)[g] = file[g]
    <2>1. Rotating!Enforced(l)[g] = CASE g \notin Rotating!Kept(l) -> <<>>
                             [] g \in Rotating!Long(l) -> SubSeq(file[g], 1, l.bytes)
                             [] OTHER -> file[g]
        BY DEF Rotating!Enforced
    <2>2. g \in Rotating!Kept(l) <=> g < l.count
        BY DEF Rotating!Kept
    <2>3. g \in Rotating!Long(l) <=> g < l.count /\ Len(file[g]) > l.bytes
        BY <2>2 DEF Rotating!Long
    <2>4. g \in Nat /\ ~(g >= l.count /\ g < l.count)
        BY <1>1 DEF Rotating!Generations
    <2> QED
        BY <2>1, <2>2, <2>3, <2>4
<1>3. ASSUME NEW g \in Rotating!Generations, Len(file[g]) > l.bytes
      PROVE  /\ SubSeq(file[g], 1, l.bytes) \in Seq(Nat) /\ Len(SubSeq(file[g], 1, l.bytes)) = l.bytes
    <2>1. file[g] \in Seq(Nat) /\ Len(file[g]) \in Nat
        BY <1>1
    <2> QED
        BY <1>1, <1>3, <2>1
<1>4. ASSUME NEW g \in Rotating!Generations
      PROVE  /\ Rotating!Enforced(l)[g] \in Seq(Nat)
             /\ g < l.count => Len(Rotating!Enforced(l)[g]) <= l.bytes
             /\ ~(g < l.count) => Rotating!Enforced(l)[g] = <<>>
    <2>1. /\ g \in Nat /\ file[g] \in Seq(Nat) /\ Len(file[g]) \in Nat
          /\ g >= l.count <=> ~(g < l.count)
        BY <1>1 DEF Rotating!Generations
    <2>0. <<>> \in Seq(Nat) /\ l.bytes <= l.bytes
        BY <1>1
    <2>2. CASE g >= l.count
        BY <1>2, <2>0, <2>1, <2>2
    <2>3. CASE g < l.count /\ Len(file[g]) > l.bytes
        BY <1>2, <1>3, <2>0, <2>1, <2>3
    <2>4. CASE g < l.count /\ ~(Len(file[g]) > l.bytes)
        BY <1>1, <1>2, <2>1, <2>4
    <2> QED
        BY <2>1, <2>2, <2>3, <2>4
<1>5. Rotating!Enforced(l) = [g \in Rotating!Generations |-> Rotating!Enforced(l)[g]]
    BY DEF Rotating!Enforced
<1>6. ASSUME Rotating!Long(l) = {}, NEW g \in Rotating!Generations, g < l.count PROVE Rotating!Enforced(l)[g] = file[g]
    <2>1. ~(Len(file[g]) > l.bytes)
        BY <1>6 DEF Rotating!Long, Rotating!Kept
    <2> QED
        BY <1>2, <1>6, <2>1
<1> QED
    BY <1>4, <1>5, <1>6

\* A start: NewRotatingWriter.
LEMMA StartKeepsLog ==
    ASSUME LogIInv, NEW l \in Limits, Rotating!NewRotatingWriter(l)
    PROVE  LogIInv'
<1>1. /\ LogTypes /\ SizesAreBounded /\ LogFollows /\ GenerationsAreWhole
      /\ file \in [Rotating!Generations -> Seq(Nat)] /\ l.count \in 1..4 /\ l.bytes \in Nat \ {0}
    BY LimitsAssumption DEF LogIInv, LogTypes
<1>2. /\ lpc = "none" /\ limit' = l /\ lpc' = "ready" /\ open' = TRUE /\ file' = Rotating!Enforced(l)
      /\ current' = Len(file'[0]) /\ next' = next /\ written' = written
      /\ shortened' = (shortened \/ Rotating!Long(l) # {}) /\ disturbed' = (disturbed \/ l # limit)
    BY DEF Rotating!NewRotatingWriter
<1>3. /\ file' \in [Rotating!Generations -> Seq(Nat)]
      /\ \A g \in Rotating!Generations : IF g < l.count THEN Len(file'[g]) <= l.bytes ELSE file'[g] = <<>>
      /\ Rotating!Long(l) = {} => \A g \in Rotating!Generations : g < l.count => file'[g] = file[g]
    BY <1>1, <1>2, EnforcedIs
<1>4. LogTypes' /\ WriterShape' /\ SizesAreBounded'
    BY <1>1, <1>2, <1>3 DEF LogTypes, WriterShape, SizesAreBounded, Size
<1>5. LogFollows'
    <2>1. SUFFICES ASSUME ~shortened, Rotating!Long(l) = {} PROVE EndsWith(file', written)
        BY <1>2 DEF LogFollows
    <2>2. EndsWith(file, written)
        BY <1>1, <2>1 DEF LogFollows
    <2>3. \A g \in Rotating!Generations : file'[g] = IF g < l.count THEN file[g] ELSE <<>>
        BY <1>3, <2>1
    <2>4. /\ file[0] \in Seq(Nat) /\ file[1] \in Seq(Nat) /\ file[2] \in Seq(Nat) /\ file[3] \in Seq(Nat)
          /\ written \in Nat
        BY <1>1 DEF Rotating!Generations, LogTypes
    <2>5. Len(<<>>) = 0 /\ \A b : Follow(<<>>, b)
        BY DEF Follow
    <2>12. PICK k \in Nat, m \in Nat, n \in Nat, q \in Nat :
               Len(file[0]) = k /\ Len(file[1]) = m /\ Len(file[2]) = n /\ Len(file[3]) = q
        BY <2>4
    <2>13. /\ Follow(file[0], written - k) /\ Follow(file[1], written - k - m)
           /\ Follow(file[2], written - k - m - n) /\ Follow(file[3], written - k - m - n - q)
        BY <2>2, <2>12 DEF EndsWith, Size
    <2>6. PICK c \in 1..4 : l.count = c
        BY <1>1
    <2>7. \A g \in Rotating!Generations : file'[g] = IF g < c THEN file[g] ELSE <<>>
        BY <2>3, <2>6
    <2>8. CASE c = 1
        <3>1. file'[0] = file[0] /\ file'[1] = <<>> /\ file'[2] = <<>> /\ file'[3] = <<>>
            BY <2>7, <2>8 DEF Rotating!Generations
        <3> QED
            BY <2>5, <2>12, <2>13, <3>1 DEF EndsWith, Size
    <2>9. CASE c = 2
        <3>1. file'[0] = file[0] /\ file'[1] = file[1] /\ file'[2] = <<>> /\ file'[3] = <<>>
            BY <2>7, <2>9 DEF Rotating!Generations
        <3> QED
            BY <2>5, <2>12, <2>13, <3>1 DEF EndsWith, Size
    <2>10. CASE c = 3
        <3>1. file'[0] = file[0] /\ file'[1] = file[1] /\ file'[2] = file[2] /\ file'[3] = <<>>
            BY <2>7, <2>10 DEF Rotating!Generations
        <3> QED
            BY <2>5, <2>12, <2>13, <3>1 DEF EndsWith, Size
    <2>11. CASE c = 4
        <3>1. file'[0] = file[0] /\ file'[1] = file[1] /\ file'[2] = file[2] /\ file'[3] = file[3]
            BY <2>7, <2>11 DEF Rotating!Generations
        <3> QED
            BY <2>2, <3>1 DEF EndsWith, Size
    <2> QED
        BY <2>6, <2>8, <2>9, <2>10, <2>11
<1>6. GenerationsAreWhole'
    <2>1. SUFFICES ASSUME ~disturbed, l = limit PROVE GenerationsAreWhole'
        BY <1>2 DEF GenerationsAreWhole
    <2>2. \A g \in Rotating!Generations : IF g < l.count THEN Len(file[g]) <= l.bytes ELSE file[g] = <<>>
        <3>1. ASSUME NEW g \in Rotating!Generations, Len(file[g]) = 0 PROVE file[g] = <<>>
            BY <1>1, <3>1
        <3> QED
            BY <1>1, <2>1, <3>1 DEF SizesAreBounded, Size
    <2>3. Rotating!Long(l) = {}
        BY <1>1, <2>2, SMTT(30) DEF Rotating!Long, Rotating!Kept, Rotating!Generations
    <2>4. \A g \in Rotating!Generations : file'[g] = file[g]
        BY <1>3, <2>2, <2>3
    <2>5. file' = file
        BY <1>1, <1>3, <2>4
    <2>6. limit' = limit /\ lpc # "rename" /\ lpc' # "rename"
        BY <1>2, <2>1
    <2> QED
        BY <1>1, <1>2, <2>5, <2>6 DEF GenerationsAreWhole, Partial, Whole, Size, Total
<1> QED
    BY <1>4, <1>5, <1>6 DEF LogIInv

\* A byte is written.
LEMMA WriteKeepsLog ==
    ASSUME LogIInv, Rotating!WriteByte
    PROVE  LogIInv'
<1>1. /\ LogTypes /\ WriterShape /\ SizesAreBounded /\ LogFollows /\ GenerationsAreWhole
      /\ file \in [Rotating!Generations -> Seq(Nat)] /\ written \in Nat
    BY DEF LogIInv, LogTypes
<1>2. /\ lpc = "ready" /\ current < limit.bytes /\ open /\ written' = written + 1 /\ current' = current + 1
      /\ file' = [file EXCEPT ![0] = Append(file[0], written + 1)]
      /\ limit' = limit /\ lpc' = lpc /\ open' = open /\ next' = next
      /\ shortened' = shortened /\ disturbed' = disturbed
    BY DEF Rotating!WriteByte
<1>3. PICK s \in Seq(Nat) : file[0] = s
    BY <1>1 DEF Rotating!Generations
<1>4. /\ Append(s, written + 1) \in Seq(Nat) /\ Len(Append(s, written + 1)) = Len(s) + 1 /\ Len(s) \in Nat
      /\ \A i \in 1..Len(s) : Append(s, written + 1)[i] = s[i]
      /\ Append(s, written + 1)[Len(s) + 1] = written + 1
    BY <1>1, <1>3
<1>5. /\ file' \in [Rotating!Generations -> Seq(Nat)] /\ file'[0] = Append(s, written + 1)
      /\ \A g \in Rotating!Generations : g # 0 => file'[g] = file[g]
    BY <1>1, <1>2, <1>3, <1>4 DEF Rotating!Generations
<1>6. /\ file'[1] = file[1] /\ file'[2] = file[2] /\ file'[3] = file[3]
      /\ Len(file[1]) \in Nat /\ Len(file[2]) \in Nat /\ Len(file[3]) \in Nat
    BY <1>1, <1>5 DEF Rotating!Generations
<1>7. current = Len(s)
    BY <1>1, <1>2, <1>3 DEF WriterShape, Size
<1>8. LogTypes'
    BY <1>1, <1>2, <1>5 DEF LogTypes
<1>9. WriterShape'
    BY <1>2, <1>4, <1>5, <1>7 DEF WriterShape, Size
<1>10. SizesAreBounded'
    <2>1. limit.bytes \in Nat /\ limit.count \in 1..4
        BY <1>1, LimitsAssumption DEF LogTypes
    <2>2. Len(file'[0]) <= limit.bytes /\ 0 < limit.count
        BY <1>2, <1>4, <1>5, <1>7, <2>1
    <2> QED
        BY <1>1, <1>2, <1>5, <2>2 DEF SizesAreBounded, Size
<1>11. LogFollows'
    <2>1. SUFFICES ASSUME ~shortened PROVE EndsWith(file', written + 1)
        BY <1>2 DEF LogFollows
    <2>2. EndsWith(file, written)
        BY <1>1, <2>1 DEF LogFollows
    <2>3. Follow(Append(s, written + 1), (written + 1) - (Len(s) + 1))
        <3>1. \A i \in 1..Len(s) : s[i] = written - Len(s) + i
            BY <1>3, <2>2 DEF EndsWith, Follow, Size
        <3>2. ASSUME NEW i \in 1..(Len(s) + 1)
              PROVE  Append(s, written + 1)[i] = (written + 1) - (Len(s) + 1) + i
            <4>1. CASE i = Len(s) + 1
                BY <1>1, <1>4, <4>1
            <4>2. CASE i \in 1..Len(s)
                BY <1>1, <1>4, <3>1, <4>2
            <4> QED
                BY <1>4, <4>1, <4>2
        <3> QED
            BY <1>4, <3>2 DEF Follow
    <2>4. /\ (written + 1) - (Len(s) + 1) - Len(file[1]) = written - Len(s) - Len(file[1])
          /\ (written + 1) - (Len(s) + 1) - Len(file[1]) - Len(file[2])
                 = written - Len(s) - Len(file[1]) - Len(file[2])
          /\ (written + 1) - (Len(s) + 1) - Len(file[1]) - Len(file[2]) - Len(file[3])
                 = written - Len(s) - Len(file[1]) - Len(file[2]) - Len(file[3])
        BY <1>1, <1>4, <1>6
    <2>5. /\ Follow(file[1], written - Len(s) - Len(file[1]))
          /\ Follow(file[2], written - Len(s) - Len(file[1]) - Len(file[2]))
          /\ Follow(file[3], written - Len(s) - Len(file[1]) - Len(file[2]) - Len(file[3]))
        BY <1>3, <2>2 DEF EndsWith, Size
    <2>6. /\ Follow(file'[0], (written + 1) - Len(file'[0]))
          /\ Follow(file'[1], (written + 1) - Len(file'[0]) - Len(file'[1]))
          /\ Follow(file'[2], (written + 1) - Len(file'[0]) - Len(file'[1]) - Len(file'[2]))
          /\ Follow(file'[3], (written + 1) - Len(file'[0]) - Len(file'[1]) - Len(file'[2]) - Len(file'[3]))
        <3>1. Len(file'[0]) = Len(s) + 1
            BY <1>4, <1>5
        <3> QED
            BY <1>5, <1>6, <2>3, <2>4, <2>5, <3>1
    <2> QED
        BY <2>6 DEF EndsWith, Size
<1>12. GenerationsAreWhole'
    <2>1. SUFFICES ASSUME ~disturbed PROVE GenerationsAreWhole'
        BY <1>2 DEF GenerationsAreWhole
    <2>2. Total(file)' = Total(file) + 1
        <3>1. Len(file'[0]) = Len(file[0]) + 1 /\ Len(file[0]) \in Nat
            BY <1>3, <1>4, <1>5
        <3>2. PICK k \in Nat, m \in Nat, n \in Nat, q \in Nat :
                  Len(file[0]) = k /\ Len(file[1]) = m /\ Len(file[2]) = n /\ Len(file[3]) = q
            BY <1>6, <3>1
        <3>3. Len(file'[0]) = k + 1 /\ Len(file'[1]) = m /\ Len(file'[2]) = n /\ Len(file'[3]) = q
            BY <1>6, <3>1, <3>2
        <3> QED
            BY <3>2, <3>3 DEF Total, Size
    <2>3. /\ \A g \in Rotating!Generations : g # 0 /\ file[g] # <<>> =>
                 \A h \in Rotating!Generations : h <= g /\ h # 0 => Len(file[h]) = limit.bytes
          /\ \/ Total(file) = written
             \/ \A g \in Rotating!Generations : g < limit.count /\ g # 0 => Len(file[g]) = limit.bytes
        BY <1>1, <1>2, <2>1 DEF GenerationsAreWhole, Partial, Whole, Size
    <2>4. Total(file) = written => Total(file)' = written'
        BY <1>1, <1>2, <2>2
    <2> QED
        BY <1>2, <1>5, <2>3, <2>4 DEF GenerationsAreWhole, Partial, Whole, Size
<1> QED
    BY <1>8, <1>9, <1>10, <1>11, <1>12 DEF LogIInv

\* The writer closes the file that is full.
LEMMA CloseKeepsLog ==
    ASSUME LogIInv, Rotating!CloseFull
    PROVE  LogIInv'
<1>1. /\ LogTypes /\ WriterShape /\ SizesAreBounded /\ LogFollows /\ GenerationsAreWhole
    BY DEF LogIInv
<1>2. /\ lpc = "ready" /\ current = limit.bytes /\ open /\ ~open' /\ lpc' = "remove" /\ file' = file
      /\ limit' = limit /\ next' = next /\ written' = written
      /\ shortened' = shortened /\ disturbed' = disturbed
    BY DEF Rotating!CloseFull
<1>3. LogTypes' /\ WriterShape' /\ SizesAreBounded' /\ LogFollows'
    BY <1>1, <1>2 DEF LogTypes, WriterShape, SizesAreBounded, LogFollows, EndsWith, Size
<1>4. GenerationsAreWhole'
    BY <1>1, <1>2 DEF GenerationsAreWhole, Partial, Whole, Total, Size
<1> QED
    BY <1>3, <1>4 DEF LogIInv

\* The oldest generation is removed.
LEMMA RemoveKeepsLog ==
    ASSUME LogIInv, Rotating!RemoveOldest
    PROVE  LogIInv'
<1>1. /\ LogTypes /\ WriterShape /\ SizesAreBounded /\ LogFollows /\ GenerationsAreWhole
      /\ file \in [Rotating!Generations -> Seq(Nat)] /\ limit.count \in 1..4 /\ limit.bytes \in Nat \ {0}
      /\ written \in Nat
    BY LimitsAssumption DEF LogIInv, LogTypes
<1>2. PICK k \in 0..3 : limit.count - 1 = k
    BY <1>1
<1>3. /\ limit.count = k + 1 /\ k \in Rotating!Generations /\ 0 \in Rotating!Generations
      /\ \A g \in Rotating!Generations : g < limit.count <=> g <= k
    BY <1>1, <1>2 DEF Rotating!Generations
<1>4. /\ lpc = "remove" /\ lpc' = "rename" /\ next' = k /\ file' = [file EXCEPT ![k] = <<>>]
      /\ limit' = limit /\ open' = open /\ current' = current /\ written' = written
      /\ shortened' = shortened /\ disturbed' = disturbed
    BY <1>2 DEF Rotating!RemoveOldest
<1>5. /\ file' \in [Rotating!Generations -> Seq(Nat)] /\ file'[k] = <<>>
      /\ \A g \in Rotating!Generations : g # k => file'[g] = file[g]
    BY <1>1, <1>3, <1>4
<1>6. Len(<<>>) = 0 /\ \A g \in Rotating!Generations : g > k => Len(file[g]) = 0
    BY <1>1, <1>3 DEF SizesAreBounded, Size, Rotating!Generations
<1>7. LogTypes'
    BY <1>1, <1>3, <1>4, <1>5 DEF LogTypes
<1>8. ~open
    BY <1>1, <1>4 DEF WriterShape
<1>9. WriterShape'
    BY <1>2, <1>3, <1>4, <1>5, <1>8 DEF WriterShape
<1>10. SizesAreBounded'
    <2>1. ASSUME NEW g \in Rotating!Generations
          PROVE  IF g < limit.count THEN Len(file'[g]) <= limit.bytes ELSE Len(file'[g]) = 0
        <3>1. IF g < limit.count THEN Len(file[g]) <= limit.bytes ELSE Len(file[g]) = 0
            BY <1>1 DEF SizesAreBounded, Size
        <3>2. 0 <= limit.bytes
            BY <1>1
        <3> QED
            BY <1>5, <1>6, <3>1, <3>2
    <2> QED
        BY <1>4, <2>1 DEF SizesAreBounded, Size
<1>11. PICK a \in Nat, b \in Nat, c \in Nat, d \in Nat :
           Len(file[0]) = a /\ Len(file[1]) = b /\ Len(file[2]) = c /\ Len(file[3]) = d
    BY <1>1 DEF Rotating!Generations
<1>12. LogFollows'
    <2>1. SUFFICES ASSUME ~shortened PROVE EndsWith(file', written)
        BY <1>4 DEF LogFollows
    <2>2. EndsWith(file, written)
        BY <1>1, <2>1 DEF LogFollows
    <2>3. /\ Follow(file[0], written - a) /\ Follow(file[1], written - a - b)
          /\ Follow(file[2], written - a - b - c) /\ Follow(file[3], written - a - b - c - d)
        BY <1>11, <2>2 DEF EndsWith, Size
    <2>4. \A m : Follow(<<>>, m)
        BY DEF Follow
    <2>5. ASSUME NEW m, NEW g \in Rotating!Generations, g > k PROVE Follow(file'[g], m)
        <3>1. g # k
            BY <1>1, <1>2, <2>5 DEF Rotating!Generations
        <3>2. Len(file'[g]) = 0
            BY <1>5, <1>6, <2>5, <3>1
        <3> QED
            BY <3>2 DEF Follow
    <2>6. CASE k = 0
        <3>1. file'[0] = <<>> /\ \A m : Follow(file'[1], m) /\ Follow(file'[2], m) /\ Follow(file'[3], m)
            BY <1>5, <2>5, <2>6 DEF Rotating!Generations
        <3> QED
            BY <2>4, <3>1 DEF EndsWith
    <2>7. CASE k = 1
        <3>1. file'[0] = file[0] /\ file'[1] = <<>> /\ \A m : Follow(file'[2], m) /\ Follow(file'[3], m)
            BY <1>5, <2>5, <2>7 DEF Rotating!Generations
        <3> QED
            BY <1>11, <2>3, <2>4, <3>1 DEF EndsWith, Size
    <2>8. CASE k = 2
        <3>1. /\ file'[0] = file[0] /\ file'[1] = file[1] /\ file'[2] = <<>>
              /\ \A m : Follow(file'[3], m)
            BY <1>5, <2>5, <2>8 DEF Rotating!Generations
        <3> QED
            BY <1>11, <2>3, <2>4, <3>1 DEF EndsWith, Size
    <2>9. CASE k = 3
        <3>1. file'[0] = file[0] /\ file'[1] = file[1] /\ file'[2] = file[2] /\ file'[3] = <<>>
            BY <1>5, <2>9 DEF Rotating!Generations
        <3> QED
            BY <1>11, <2>3, <2>4, <3>1 DEF EndsWith, Size
    <2> QED
        BY <2>6, <2>7, <2>8, <2>9
<1>13. GenerationsAreWhole'
    <2>1. SUFFICES ASSUME ~disturbed PROVE GenerationsAreWhole'
        BY <1>4 DEF GenerationsAreWhole
    <2>2. Len(file[0]) = limit.bytes
        BY <1>1, <1>4 DEF WriterShape, Size
    <2>3. /\ \A g \in Rotating!Generations : g # 0 /\ file[g] # <<>> =>
                 \A h \in Rotating!Generations : h <= g /\ h # 0 => Len(file[h]) = limit.bytes
          /\ \/ Total(file) = written
             \/ \A g \in Rotating!Generations : g < limit.count /\ g # 0 => Len(file[g]) = limit.bytes
        BY <1>1, <1>4, <2>1 DEF GenerationsAreWhole, Partial, Whole, Size
    <2>4. ASSUME NEW g \in Rotating!Generations, g # k, file'[g] # <<>>,
                 NEW h \in Rotating!Generations, h <= g, h # k
          PROVE  Len(file'[h]) = limit.bytes
        <3>1. file'[h] = file[h] /\ file[g] # <<>>
            BY <1>5, <2>4
        <3>2. g = 0 => h = 0
            BY <2>4 DEF Rotating!Generations
        <3> QED
            BY <2>2, <2>3, <2>4, <3>1, <3>2
    <2>5. \/ Total(file)' = written
          \/ \A g \in Rotating!Generations : g < limit.count /\ g # k => Len(file'[g]) = limit.bytes
        <3>1. CASE file[k] = <<>> /\ Total(file) = written
            <4>1. file' = file
                BY <1>1, <1>3, <1>4, <3>1
            <4> QED
                BY <3>1, <4>1 DEF Total, Size
        <3>2. CASE file[k] # <<>> \/ Total(file) # written
            <4>1. ASSUME NEW g \in Rotating!Generations, g <= k, g # 0 PROVE Len(file[g]) = limit.bytes
                <5>1. k # 0
                    BY <4>1 DEF Rotating!Generations
                <5> QED
                    BY <1>3, <2>3, <3>2, <4>1, <5>1
            <4>2. ASSUME NEW g \in Rotating!Generations, g < limit.count, g # k PROVE Len(file'[g]) = limit.bytes
                <5>1. file'[g] = file[g]
                    BY <1>5, <4>2
                <5>2. g <= k
                    BY <1>3, <4>2
                <5> QED
                    BY <2>2, <4>1, <5>1, <5>2
            <4> QED
                BY <4>2
        <3> QED
            BY <3>1, <3>2
    <2> QED
        BY <1>4, <2>4, <2>5 DEF GenerationsAreWhole, Partial, Whole, Size
<1> QED
    BY <1>7, <1>9, <1>10, <1>12, <1>13 DEF LogIInv

\* A generation is renamed, to a place that is free.
LEMMA RenameKeepsLog ==
    ASSUME LogIInv, Rotating!Rename
    PROVE  LogIInv'
<1>1. /\ LogTypes /\ WriterShape /\ SizesAreBounded /\ LogFollows /\ GenerationsAreWhole
      /\ file \in [Rotating!Generations -> Seq(Nat)] /\ limit.count \in 1..4 /\ limit.bytes \in Nat \ {0}
      /\ written \in Nat /\ next \in 0..3
    BY LimitsAssumption DEF LogIInv, LogTypes, Rotating!Generations
<1>2. /\ lpc = "rename" /\ limit' = limit /\ open' = open /\ current' = current /\ written' = written
      /\ shortened' = shortened /\ disturbed' = disturbed
    BY DEF Rotating!Rename
<1>3. ~open /\ next < limit.count /\ file[next] = <<>>
    BY <1>1, <1>2 DEF WriterShape
<1>4. CASE next = 0
    <2>1. lpc' = "create" /\ file' = file /\ next' = next
        BY <1>4 DEF Rotating!Rename
    <2>2. LogTypes' /\ WriterShape' /\ SizesAreBounded' /\ LogFollows'
        BY <1>1, <1>2, <1>3, <1>4, <2>1
           DEF LogTypes, WriterShape, SizesAreBounded, LogFollows, EndsWith, Size
    <2>3. GenerationsAreWhole'
        BY <1>1, <1>2, <1>4, <2>1 DEF GenerationsAreWhole, Partial, Whole, Total, Size
    <2> QED
        BY <2>2, <2>3 DEF LogIInv
<1>5. CASE next # 0
    <2>1. PICK n \in 1..3 : next = n
        BY <1>1, <1>5
    <2>2. /\ n \in Rotating!Generations /\ n - 1 \in Rotating!Generations /\ n - 1 # n /\ next' = n - 1 /\ lpc' = "rename"
          /\ file' = IF file[n - 1] # <<>>
                     THEN [file EXCEPT ![n - 1] = <<>>, ![n] = file[n - 1]] ELSE file
        BY <1>2, <1>5, <2>1 DEF Rotating!Rename, Rotating!Generations
    <2>3. /\ file' \in [Rotating!Generations -> Seq(Nat)] /\ file'[n - 1] = <<>> /\ file'[n] = file[n - 1]
          /\ \A g \in Rotating!Generations : g # n - 1 /\ g # n => file'[g] = file[g]
        <3>1. CASE file[n - 1] = <<>>
            BY <1>1, <1>3, <2>1, <2>2, <3>1
        <3>2. CASE file[n - 1] # <<>>
            <4>1. PICK x \in Seq(Nat) : file[n - 1] = x
                BY <1>1, <2>2
            <4>2. PICK e \in Rotating!Generations : n - 1 = e
                BY <2>2
            <4>3. file' = [file EXCEPT ![e] = <<>>, ![n] = x] /\ e # n
                BY <2>2, <3>2, <4>1, <4>2
            <4>4. /\ file' \in [Rotating!Generations -> Seq(Nat)] /\ file'[e] = <<>> /\ file'[n] = x
                  /\ \A g \in Rotating!Generations : g # e /\ g # n => file'[g] = file[g]
                <5>1. <<>> \in Seq(Nat) /\ file \in [Rotating!Generations -> Seq(Nat)]
                    BY <1>1
                <5> QED
                    BY <2>2, <4>3, <5>1
            <4> QED
                BY <4>1, <4>2, <4>4
        <3> QED
            BY <3>1, <3>2
    <2>4. PICK a \in Nat, b \in Nat, c \in Nat, d \in Nat :
              Len(file[0]) = a /\ Len(file[1]) = b /\ Len(file[2]) = c /\ Len(file[3]) = d
        BY <1>1 DEF Rotating!Generations
    <2>5. Len(<<>>) = 0 /\ Len(file[n]) = 0 /\ \A m : Follow(<<>>, m)
        BY <1>3, <2>1 DEF Follow
    <2>6. LogTypes' /\ WriterShape'
        <3>1. n - 1 < limit.count
            BY <1>1, <1>3, <2>1
        <3> QED
            BY <1>1, <1>2, <1>3, <2>2, <2>3, <3>1 DEF LogTypes, WriterShape
    <2>7. SizesAreBounded'
        <3>1. n < limit.count /\ n - 1 < limit.count /\ 0 <= limit.bytes
            BY <1>1, <1>3, <2>1
        <3>2. \A g \in Rotating!Generations : IF g < limit.count THEN Len(file[g]) <= limit.bytes ELSE Len(file[g]) = 0
            BY <1>1 DEF SizesAreBounded, Size
        <3>3. Len(file'[n]) <= limit.bytes /\ Len(file'[n - 1]) <= limit.bytes
            BY <2>2, <2>3, <2>5, <3>1, <3>2
        <3>4. \A g \in Rotating!Generations :
                  IF g < limit.count THEN Len(file'[g]) <= limit.bytes ELSE Len(file'[g]) = 0
            BY <2>3, <3>1, <3>2, <3>3
        <3> QED
            BY <1>2, <3>4 DEF SizesAreBounded, Size
    <2>8. /\ n = 1 => file'[0] = <<>> /\ file'[1] = file[0] /\ file'[2] = file[2] /\ file'[3] = file[3]
          /\ n = 2 => file'[0] = file[0] /\ file'[1] = <<>> /\ file'[2] = file[1] /\ file'[3] = file[3]
          /\ n = 3 => file'[0] = file[0] /\ file'[1] = file[1] /\ file'[2] = <<>> /\ file'[3] = file[2]
        BY <2>3 DEF Rotating!Generations
    <2>9. LogFollows'
        <3>1. SUFFICES ASSUME ~shortened PROVE EndsWith(file', written)
            BY <1>2 DEF LogFollows
        <3>2. EndsWith(file, written)
            BY <1>1, <3>1 DEF LogFollows
        <3>3. /\ Follow(file[0], written - a) /\ Follow(file[1], written - a - b)
              /\ Follow(file[2], written - a - b - c) /\ Follow(file[3], written - a - b - c - d)
            BY <2>4, <3>2 DEF EndsWith, Size
        <3>4. CASE n = 1
            <4>1. b = 0
                BY <2>4, <2>5, <3>4
            <4>2. Len(file'[0]) = 0 /\ Len(file'[1]) = a /\ Len(file'[2]) = c /\ Len(file'[3]) = d
                BY <2>4, <2>5, <2>8, <3>4
            <4>3. /\ Follow(file'[0], written - 0) /\ Follow(file'[1], written - 0 - a)
                  /\ Follow(file'[2], written - 0 - a - c) /\ Follow(file'[3], written - 0 - a - c - d)
                BY <1>1, <2>5, <2>8, <3>3, <3>4, <4>1
            <4> QED
                BY <4>2, <4>3 DEF EndsWith, Size
        <3>5. CASE n = 2
            <4>1. c = 0
                BY <2>4, <2>5, <3>5
            <4>2. Len(file'[0]) = a /\ Len(file'[1]) = 0 /\ Len(file'[2]) = b /\ Len(file'[3]) = d
                BY <2>4, <2>5, <2>8, <3>5
            <4>3. /\ Follow(file'[0], written - a) /\ Follow(file'[1], written - a - 0)
                  /\ Follow(file'[2], written - a - 0 - b) /\ Follow(file'[3], written - a - 0 - b - d)
                BY <1>1, <2>5, <2>8, <3>3, <3>5, <4>1
            <4> QED
                BY <4>2, <4>3 DEF EndsWith, Size
        <3>6. CASE n = 3
            <4>1. d = 0
                BY <2>4, <2>5, <3>6
            <4>2. Len(file'[0]) = a /\ Len(file'[1]) = b /\ Len(file'[2]) = 0 /\ Len(file'[3]) = c
                BY <2>4, <2>5, <2>8, <3>6
            <4>3. /\ Follow(file'[0], written - a) /\ Follow(file'[1], written - a - b)
                  /\ Follow(file'[2], written - a - b - 0) /\ Follow(file'[3], written - a - b - 0 - c)
                BY <1>1, <2>5, <2>8, <3>3, <3>6, <4>1
            <4> QED
                BY <4>2, <4>3 DEF EndsWith, Size
        <3> QED
            BY <3>4, <3>5, <3>6
    <2>10. GenerationsAreWhole'
        <3>1. SUFFICES ASSUME ~disturbed PROVE GenerationsAreWhole'
            BY <1>2 DEF GenerationsAreWhole
        <3>2. /\ \A g \in Rotating!Generations : g # n /\ file[g] # <<>> =>
                     \A h \in Rotating!Generations : h <= g /\ h # n => Len(file[h]) = limit.bytes
              /\ \/ Total(file) = written
                 \/ \A g \in Rotating!Generations : g < limit.count /\ g # n => Len(file[g]) = limit.bytes
            BY <1>1, <1>2, <2>1, <3>1 DEF GenerationsAreWhole, Partial, Whole, Size
        <3>3. ASSUME NEW g \in Rotating!Generations, g # n - 1, file'[g] # <<>>,
                     NEW h \in Rotating!Generations, h <= g, h # n - 1
              PROVE  Len(file'[h]) = limit.bytes
            <4>1. CASE g = n
                <5>1. file[n - 1] # <<>> /\ (h = n \/ h <= n - 1)
                    BY <2>3, <3>3, <4>1 DEF Rotating!Generations
                <5>2. \A i \in Rotating!Generations : i <= n - 1 /\ i # n => Len(file[i]) = limit.bytes
                    BY <2>2, <3>2, <5>1
                <5>3. Len(file[n - 1]) = limit.bytes
                    BY <2>2, <5>2 DEF Rotating!Generations
                <5> QED
                    BY <2>3, <3>3, <5>1, <5>2, <5>3
            <4>2. CASE g # n
                <5>1. file[g] # <<>>
                    BY <2>3, <3>3, <4>2
                <5>2. h # n => Len(file[h]) = limit.bytes
                    BY <3>2, <3>3, <4>2, <5>1
                <5>3. h = n => Len(file[n - 1]) = limit.bytes
                    <6>1. h = n => n - 1 <= g
                        BY <3>3 DEF Rotating!Generations
                    <6> QED
                        BY <2>2, <3>2, <4>2, <5>1, <6>1
                <5> QED
                    BY <2>3, <3>3, <5>2, <5>3
            <4> QED
                BY <4>1, <4>2
        <3>4. Total(file)' = Total(file)
            <4>1. CASE n = 1
                <5>1. b = 0 /\ Len(file'[0]) = 0 /\ Len(file'[1]) = a /\ Len(file'[2]) = c /\ Len(file'[3]) = d
                    BY <2>4, <2>5, <2>8, <4>1
                <5> QED
                    BY <2>4, <5>1 DEF Total, Size
            <4>2. CASE n = 2
                <5>1. c = 0 /\ Len(file'[0]) = a /\ Len(file'[1]) = 0 /\ Len(file'[2]) = b /\ Len(file'[3]) = d
                    BY <2>4, <2>5, <2>8, <4>2
                <5> QED
                    BY <2>4, <5>1 DEF Total, Size
            <4>3. CASE n = 3
                <5>1. d = 0 /\ Len(file'[0]) = a /\ Len(file'[1]) = b /\ Len(file'[2]) = 0 /\ Len(file'[3]) = c
                    BY <2>4, <2>5, <2>8, <4>3
                <5> QED
                    BY <2>4, <5>1 DEF Total, Size
            <4> QED
                BY <4>1, <4>2, <4>3
        <3>5. ASSUME \A g \in Rotating!Generations : g < limit.count /\ g # n => Len(file[g]) = limit.bytes,
                     NEW g \in Rotating!Generations, g < limit.count, g # n - 1
              PROVE  Len(file'[g]) = limit.bytes
            <4>1. n - 1 < limit.count
                BY <1>1, <1>3, <2>1
            <4> QED
                BY <2>2, <2>3, <3>5, <4>1
        <3> QED
            BY <1>2, <2>2, <3>2, <3>3, <3>4, <3>5 DEF GenerationsAreWhole, Partial, Whole, Size
    <2> QED
        BY <2>6, <2>7, <2>9, <2>10 DEF LogIInv
<1> QED
    BY <1>4, <1>5

\* The new file, an error of the file system, the end of the process.
LEMMA OthersKeepLog ==
    ASSUME LogIInv, Rotating!Create \/ Rotating!Fault \/ Rotating!Stop \/ UNCHANGED Rotating!vars
    PROVE  LogIInv'
<1>1. /\ LogTypes /\ WriterShape /\ SizesAreBounded /\ LogFollows /\ GenerationsAreWhole
      /\ file \in [Rotating!Generations -> Seq(Nat)] /\ 0 \in Rotating!Generations
    BY DEF LogIInv, LogTypes, Rotating!Generations
<1>2. CASE Rotating!Create
    <2>1. /\ lpc = "create" /\ lpc' = "ready" /\ open' /\ current' = 0 /\ file' = [file EXCEPT ![0] = <<>>]
          /\ limit' = limit /\ next' = next /\ written' = written
          /\ shortened' = shortened /\ disturbed' = disturbed
        BY <1>2 DEF Rotating!Create
    <2>2. file[0] = <<>> /\ Len(<<>>) = 0
        BY <1>1, <2>1 DEF WriterShape
    <2>3. file' = file
        BY <1>1, <2>1, <2>2
    <2>4. LogTypes' /\ WriterShape' /\ SizesAreBounded' /\ LogFollows'
        BY <1>1, <2>1, <2>2, <2>3
           DEF LogTypes, WriterShape, SizesAreBounded, LogFollows, EndsWith, Size
    <2>5. GenerationsAreWhole'
        BY <1>1, <2>1, <2>3 DEF GenerationsAreWhole, Partial, Whole, Total, Size
    <2> QED
        BY <2>4, <2>5 DEF LogIInv
<1>3. CASE Rotating!Fault
    <2>1. /\ lpc # "ready" /\ lpc' = "ready" /\ open' = open /\ disturbed' /\ file' = file
          /\ limit' = limit /\ next' = next /\ written' = written /\ shortened' = shortened
        BY <1>3 DEF Rotating!Fault
    <2>2. LogTypes' /\ WriterShape' /\ SizesAreBounded' /\ LogFollows'
        BY <1>1, <2>1 DEF LogTypes, WriterShape, SizesAreBounded, LogFollows, EndsWith, Size
    <2>3. GenerationsAreWhole'
        BY <2>1 DEF GenerationsAreWhole
    <2> QED
        BY <2>2, <2>3 DEF LogIInv
<1>4. CASE Rotating!Stop
    <2>1. /\ lpc' = "none" /\ ~open' /\ next' = 0 /\ disturbed' = (disturbed \/ lpc # "ready") /\ file' = file
          /\ limit' = limit /\ written' = written /\ shortened' = shortened
        BY <1>4 DEF Rotating!Stop
    <2>2. LogTypes' /\ WriterShape' /\ SizesAreBounded' /\ LogFollows'
        BY <1>1, <2>1 DEF LogTypes, WriterShape, SizesAreBounded, LogFollows, EndsWith, Size
    <2>3. GenerationsAreWhole'
        BY <1>1, <2>1 DEF GenerationsAreWhole, Partial, Whole, Total, Size
    <2> QED
        BY <2>2, <2>3 DEF LogIInv
<1>5. CASE UNCHANGED Rotating!vars
    BY <1>1, <1>5 DEF Rotating!vars, Rotating!writer, LogIInv, LogTypes, WriterShape, SizesAreBounded, LogFollows, EndsWith,
           GenerationsAreWhole, Partial, Whole, Total, Size
<1> QED
    BY <1>2, <1>3, <1>4, <1>5

\* Two sequences one after the other.
LEMMA JoinedBytes ==
    ASSUME NEW p \in Seq(Nat), NEW q \in Seq(Nat)
    PROVE  p \o q \in Seq(Nat) /\ Len(p \o q) = Len(p) + Len(q)
    OBVIOUS

\* Bytes that follow each other still do when they are read one file after the
\* other.
LEMMA FilesFollow ==
    ASSUME NEW p \in Seq(Nat), NEW q \in Seq(Nat), NEW w \in Int,
           Follow(p, w - Len(q) - Len(p)), Follow(q, w - Len(q))
    PROVE  Follow(p \o q, w - Len(p \o q))
<1>1. PICK a \in Nat, b \in Nat : Len(p) = a /\ Len(q) = b
    OBVIOUS
<1>2. Len(p \o q) = a + b
    BY <1>1
<1>3. ASSUME NEW i \in 1..(a + b) PROVE (p \o q)[i] = w - (a + b) + i
    <2>1. CASE i <= a
        <3>1. (p \o q)[i] = p[i] /\ i \in 1..a
            BY <1>1, <2>1
        <3>2. p[i] = w - b - a + i
            BY <1>1, <3>1 DEF Follow
        <3> QED
            BY <3>1, <3>2
    <2>2. CASE i > a
        <3>1. (p \o q)[i] = q[i - a] /\ i - a \in 1..b
            BY <1>1, <2>2, SMTT(30)
        <3>2. q[i - a] = w - b + (i - a)
            BY <1>1, <3>1 DEF Follow
        <3> QED
            BY <3>1, <3>2
    <2> QED
        BY <1>1, <1>3, <2>1, <2>2
<1> QED
    BY <1>2, <1>3 DEF Follow

\* What the invariant says of the log that an operator reads.
LEMMA LogIsSafe ==
    ASSUME LogIInv
    PROVE  Rotating!LogInvariant
<1>1. /\ LogTypes /\ WriterShape /\ SizesAreBounded /\ LogFollows /\ GenerationsAreWhole
      /\ written \in Nat
    BY DEF LogIInv, LogTypes
<1>2. PICK c \in 1..4, m \in Nat \ {0} : limit.count = c /\ limit.bytes = m
    BY <1>1, LimitsAssumption DEF LogTypes
<1>3. PICK f0 \in Seq(Nat), f1 \in Seq(Nat), f2 \in Seq(Nat), f3 \in Seq(Nat) :
          file[0] = f0 /\ file[1] = f1 /\ file[2] = f2 /\ file[3] = f3
    BY <1>1 DEF LogTypes, Rotating!Generations
<1>4. PICK s0 \in Nat, s1 \in Nat, s2 \in Nat, s3 \in Nat :
          Len(f0) = s0 /\ Len(f1) = s1 /\ Len(f2) = s2 /\ Len(f3) = s3
    BY <1>3
<1>5. PICK p \in Seq(Nat) : f3 \o f2 = p /\ Len(p) = s3 + s2
    <2>1. f3 \o f2 \in Seq(Nat) /\ Len(f3 \o f2) = Len(f3) + Len(f2)
        BY JoinedBytes
    <2> QED
        BY <1>4, <2>1
<1>6. PICK q \in Seq(Nat) : p \o f1 = q /\ Len(q) = s3 + s2 + s1
    <2>1. p \o f1 \in Seq(Nat) /\ Len(p \o f1) = Len(p) + Len(f1)
        BY JoinedBytes
    <2> QED
        BY <1>4, <1>5, <2>1
<1>7. Rotating!Log = q \o f0 /\ Len(Rotating!Log) = s3 + s2 + s1 + s0
    <2>1. Rotating!Log = q \o f0
        BY <1>3, <1>5, <1>6 DEF Rotating!Log
    <2>2. Len(q \o f0) = Len(q) + Len(f0)
        BY JoinedBytes
    <2> QED
        BY <1>4, <1>6, <2>1, <2>2
<1>8. Rotating!TotalIsBounded
    <2>1. \A g \in Rotating!Generations : IF g < c THEN Len(file[g]) <= m ELSE Len(file[g]) = 0
        BY <1>1, <1>2 DEF SizesAreBounded, Size
    <2>2. /\ IF 0 < c THEN s0 <= m ELSE s0 = 0
          /\ IF 1 < c THEN s1 <= m ELSE s1 = 0
          /\ IF 2 < c THEN s2 <= m ELSE s2 = 0
          /\ IF 3 < c THEN s3 <= m ELSE s3 = 0
        <3>1. 0 \in Rotating!Generations /\ 1 \in Rotating!Generations /\ 2 \in Rotating!Generations /\ 3 \in Rotating!Generations
            BY DEF Rotating!Generations
        <3> QED
            BY <1>3, <1>4, <2>1, <3>1
    <2>3. CASE c = 1
        BY <1>2, <1>7, <2>2, <2>3 DEF Rotating!TotalIsBounded
    <2>4. CASE c = 2
        BY <1>2, <1>7, <2>2, <2>4 DEF Rotating!TotalIsBounded
    <2>5. CASE c = 3
        BY <1>2, <1>7, <2>2, <2>5 DEF Rotating!TotalIsBounded
    <2>6. CASE c = 4
        BY <1>2, <1>7, <2>2, <2>6 DEF Rotating!TotalIsBounded
    <2> QED
        BY <1>2, <2>3, <2>4, <2>5, <2>6
<1>9. Rotating!NewestBytesAreKept
    <2>1. CASE shortened
        BY <2>1 DEF Rotating!NewestBytesAreKept
    <2>2. CASE ~shortened
        <3>1. /\ Follow(f0, written - s0) /\ Follow(f1, written - s0 - s1)
              /\ Follow(f2, written - s0 - s1 - s2) /\ Follow(f3, written - s0 - s1 - s2 - s3)
            BY <1>1, <1>3, <1>4, <2>2 DEF LogFollows, EndsWith, Size
        <3>2. Follow(p, written - s0 - s1 - Len(p))
            <4>1. PICK w \in Int : written - s0 - s1 = w
                BY <1>1
            <4>2. Follow(f2, w - Len(f2)) /\ Follow(f3, w - Len(f2) - Len(f3))
                BY <1>4, <3>1, <4>1
            <4>3. Follow(f3 \o f2, w - Len(f3 \o f2))
                BY <4>2, FilesFollow
            <4> QED
                BY <1>5, <4>1, <4>3
        <3>3. Follow(q, written - s0 - Len(q))
            <4>1. PICK w \in Int : written - s0 = w
                BY <1>1
            <4>2. Follow(f1, w - Len(f1)) /\ Follow(p, w - Len(f1) - Len(p))
                BY <1>4, <3>1, <3>2, <4>1
            <4>3. Follow(p \o f1, w - Len(p \o f1))
                BY <4>2, FilesFollow
            <4> QED
                BY <1>6, <4>1, <4>3
        <3>4. Follow(q \o f0, written - Len(q \o f0))
            <4>1. Follow(f0, written - Len(f0)) /\ Follow(q, written - Len(f0) - Len(q)) /\ written \in Int
                BY <1>1, <1>4, <3>1, <3>3
            <4> QED
                BY <4>1, FilesFollow
        <3> QED
            BY <1>7, <3>4 DEF Follow, Rotating!NewestBytesAreKept
    <2> QED
        BY <2>1, <2>2
<1>10. Rotating!GenerationsAreKept
    <2>1. CASE disturbed
        BY <2>1 DEF Rotating!GenerationsAreKept
    <2>2. CASE ~disturbed
        <3>1. \/ Total(file) = written
              \/ \A g \in Rotating!Generations : g < c /\ g # Partial => Len(file[g]) = m
            BY <1>1, <1>2, <2>2 DEF GenerationsAreWhole, Whole, Size
        <3>2. CASE Total(file) = written
            <4>1. Len(Rotating!Log) = written
                BY <1>3, <1>4, <1>7, <3>2 DEF Total, Size
            <4>2. (c - 1) * m \in Int
                BY <1>2
            <4> QED
                BY <1>1, <1>2, <4>1, <4>2 DEF Rotating!GenerationsAreKept
        <3>3. CASE \A g \in Rotating!Generations : g < c /\ g # Partial => Len(file[g]) = m
            <4>1. PICK e \in 0..3 : Partial = e
                BY <1>1 DEF LogTypes, Partial, Rotating!Generations
            <4>5. e < c
                BY <1>1, <1>2, <4>1 DEF Partial, WriterShape
            <4>2. /\ 0 < c /\ 0 # e => s0 = m
                  /\ 1 < c /\ 1 # e => s1 = m
                  /\ 2 < c /\ 2 # e => s2 = m
                  /\ 3 < c /\ 3 # e => s3 = m
                BY <1>3, <1>4, <3>3, <4>1, SMTT(30) DEF Rotating!Generations
            <4>3. s3 + s2 + s1 + s0 >= (c - 1) * m
                <5>1. CASE c = 1
                    BY <1>2, <1>4, <5>1
                <5>2. CASE c = 2
                    BY <1>2, <1>4, <4>1, <4>2, <4>5, <5>2
                <5>3. CASE c = 3
                    BY <1>2, <1>4, <4>1, <4>2, <4>5, <5>3
                <5>4. CASE c = 4
                    BY <1>2, <1>4, <4>1, <4>2, <4>5, <5>4
                <5> QED
                    BY <1>2, <5>1, <5>2, <5>3, <5>4
            <4>4. PICK full \in Int : (c - 1) * m = full
                BY <1>2
            <4> QED
                BY <1>1, <1>2, <1>4, <1>7, <4>3, <4>4 DEF Rotating!GenerationsAreKept
        <3> QED
            BY <3>1, <3>2, <3>3
    <2> QED
        BY <2>1, <2>2
<1> QED
    BY <1>8, <1>9, <1>10 DEF Rotating!LogInvariant

\* The log is never longer than allowed and ends with the last byte written.
THEOREM LogSafe == Rotating!Spec => []LogInvariant
<1>1. Rotating!Init => LogIInv
    <2> SUFFICES ASSUME Rotating!Init PROVE LogIInv
        OBVIOUS
    <2>1. /\ file = [g \in Rotating!Generations |-> <<>>] /\ limit \in Limits /\ lpc = "none" /\ ~open /\ next = 0
          /\ written = 0 /\ Len(<<>>) = 0 /\ <<>> \in Seq(Nat)
        BY DEF Rotating!Init
    <2>2. limit.count \in 1..4 /\ limit.bytes \in Nat
        BY <2>1, LimitsAssumption
    <2>3. LogTypes /\ WriterShape /\ SizesAreBounded
        BY <2>1, <2>2 DEF LogTypes, WriterShape, SizesAreBounded, Size, Rotating!Generations
    <2>4. file[0] = <<>> /\ file[1] = <<>> /\ file[2] = <<>> /\ file[3] = <<>>
        BY <2>1 DEF Rotating!Generations
    <2>5. LogFollows
        <3>1. \A w : Follow(<<>>, w)
            BY DEF Follow
        <3> QED
            BY <2>4, <3>1 DEF LogFollows, EndsWith
    <2>6. GenerationsAreWhole
        <3>1. \A g \in Rotating!Generations : file[g] = <<>>
            BY <2>1
        <3>2. Total(file) = written
            <4>1. Len(file[0]) = 0 /\ Len(file[1]) = 0 /\ Len(file[2]) = 0 /\ Len(file[3]) = 0
                BY <2>1, <2>4
            <4>2. written = 0
                BY <2>1
            <4> QED
                BY <4>1, <4>2 DEF Total, Size
        <3> QED
            BY <3>1, <3>2 DEF GenerationsAreWhole
    <2> QED
        BY <2>3, <2>5, <2>6 DEF LogIInv
<1>2. LogIInv /\ [Rotating!Next]_(Rotating!vars) => LogIInv'
    BY StartKeepsLog, WriteKeepsLog, CloseKeepsLog, RemoveKeepsLog, RenameKeepsLog, OthersKeepLog DEF Rotating!Next
<1>3. LogIInv => LogInvariant
    BY LogIsSafe DEF LogInvariant
<1> QED
    BY <1>1, <1>2, <1>3, PTL DEF Rotating!Spec

-----------------------------------------------------------------------------
(* Proofs: the store.                                                      *)

\* What an installer has published stays where an index names it.
LEMMA StaysInPlace ==
    ASSUME NEW x, NEW a, NEW m, NEW a2, NEW m2, InPlace(x, a, m), x \in IndexesOf,
           \A id \in Ids : a[id] \subseteq a2[id],
           \A f \in Ids \X Digests : m[f] \in {Store!Absent, m2[f]}
    PROVE  InPlace(x, a2, m2)
<1> SUFFICES ASSUME NEW id \in Ids
             PROVE  x[id] = Store!NoEntry \/ (x[id].digest \in a2[id] /\ m2[<<id, x[id].digest>>] = x[id].note)
    BY DEF InPlace
<1>1. x[id] = Store!NoEntry \/ x[id] \in Store!Entries
    BY DEF IndexesOf
<1>2. CASE x[id] \in Store!Entries /\ x[id] # Store!NoEntry
    <2>1. x[id].digest \in Digests /\ x[id].note \in Notes
        BY <1>2 DEF Store!Entries
    <2>2. x[id].digest \in a[id] /\ m[<<id, x[id].digest>>] = x[id].note
        BY <1>2 DEF InPlace
    <2>3. m[<<id, x[id].digest>>] = m2[<<id, x[id].digest>>]
        BY <2>1, <2>2, NotesAssumption
    <2> QED
        BY <2>2, <2>3
<1> QED
    BY <1>1, <1>2 DEF InPlace

\* An installer that returns, or is killed, leaves the others and the lock.
LEMMA InstallerEnds ==
    ASSUME StoreTypes, InstallerShape, NEW i \in Installers, Store!Ends(i),
           UNCHANGED <<artifact, metadata, index>>
    PROVE  /\ InstallerShape'
           /\ spc' = [spc EXCEPT ![i] = "idle"] /\ spc' \in [Installers -> StoreLabels]
           /\ copy' \in [Installers -> IndexesOf]
           /\ request' \in [Installers -> Store!Requests \cup {[id |-> Store!Absent]}]
<1>1. /\ spc' = [spc EXCEPT ![i] = "idle"] /\ request' = [request EXCEPT ![i] = [id |-> Store!Absent]]
      /\ copy' = [copy EXCEPT ![i] = Store!NoIndex]
    BY DEF Store!Ends, Store!Goto
<1>2. Store!NoIndex \in IndexesOf
    BY DEF Store!NoIndex, IndexesOf
<1>3. /\ spc' \in [Installers -> StoreLabels] /\ copy' \in [Installers -> IndexesOf]
      /\ request' \in [Installers -> Store!Requests \cup {[id |-> Store!Absent]}]
    BY <1>1, <1>2 DEF StoreTypes, StoreLabels
<1>4. spc'[i] = "idle" /\ \A j \in Installers \ {i} :
        spc'[j] = spc[j] /\ request'[j] = request[j] /\ copy'[j] = copy[j]
    BY <1>1 DEF StoreTypes
<1>5. InstallerShape'
    BY <1>4 DEF InstallerShape
<1> QED
    BY <1>1, <1>3, <1>5

\* The label of one installer changes and nothing that is published: the lock is
\* held by one, who knows what it knew.
LEMMA InstallerGoes ==
    ASSUME StoreTypes, NEW i \in Installers, NEW label \in StoreLabels, Store!Goto(i, label)
    PROVE  /\ spc'[i] = label /\ spc' \in [Installers -> StoreLabels]
           /\ \A j \in Installers \ {i} : spc'[j] = spc[j]
BY DEF StoreTypes, Store!Goto

\* An entry of an index is what an installer asked for.
LEMMA RequestShape ==
    ASSUME StoreTypes, InstallerShape, NEW i \in Installers, spc[i] # "idle"
    PROVE  /\ request[i].id \in Ids /\ request[i].digest \in Digests /\ request[i].note \in Notes
           /\ <<request[i].id, request[i].digest>> \in Ids \X Digests
           /\ [digest |-> request[i].digest, note |-> request[i].note] \in Store!Entries
           /\ [digest |-> request[i].digest, note |-> request[i].note] # Store!NoEntry
<1>1. request[i] \in Store!Requests
    BY DEF InstallerShape
<1>2. request[i].id \in Ids /\ request[i].digest \in Digests /\ request[i].note \in Notes
    BY <1>1 DEF Store!Requests
<1>3. [digest |-> request[i].digest, note |-> request[i].note] # Store!NoEntry
    BY <1>2, NotesAssumption DEF Store!NoEntry
<1> QED
    BY <1>2, <1>3 DEF Store!Entries

\* prepareInstall, and the lock.
LEMMA StoreLocks ==
    ASSUME StoreIInv, NEW i \in Installers, Store!PrepareInstall(i) \/ Store!Lock(i)
    PROVE  StoreIInv'
<1> USE DEF StoreIInv
<1>1. UNCHANGED <<artifact, metadata, index, sdurable, acked, unsynced, copy>>
    BY DEF Store!PrepareInstall, Store!Lock, Store!directory
<1>2. CASE Store!PrepareInstall(i)
    <2>1. PICK r \in Store!Requests : request' = [request EXCEPT ![i] = r]
        BY <1>2 DEF Store!PrepareInstall
    <2>2. spc[i] = "idle" /\ spc'[i] = "lock" /\ spc' \in [Installers -> StoreLabels]
          /\ \A j \in Installers \ {i} : spc'[j] = spc[j]
        BY <1>2, InstallerGoes DEF Store!PrepareInstall, StoreLabels
    <2>3. StoreTypes'
        BY <1>1, <2>1, <2>2 DEF StoreTypes
    <2>4. \A j \in Installers \ {i} : request'[j] = request[j]
        BY <2>1 DEF StoreTypes
    <2>5. request'[i] = r
        BY <2>1 DEF StoreTypes
    <2>6. InstallerShape'
        BY <1>1, <2>2, <2>4, <2>5 DEF InstallerShape
    <2>7. DiskShape' /\ AckShape'
        BY <1>1, <2>2 DEF DiskShape, AckShape, InPlace
    <2> QED
        BY <2>3, <2>6, <2>7
<1>3. CASE Store!Lock(i)
    <2>1. spc[i] = "lock" /\ spc'[i] = "read" /\ spc' \in [Installers -> StoreLabels]
          /\ \A j \in Installers \ {i} : spc'[j] = spc[j]
        BY <1>3, InstallerGoes DEF Store!Lock, StoreLabels
    <2>2. UNCHANGED request /\ \A j \in Installers : spc[j] \in {"idle", "lock"}
        BY <1>3 DEF Store!Lock, Store!Locked
    <2>3. StoreTypes'
        BY <1>1, <2>1, <2>2 DEF StoreTypes
    <2>4. InstallerShape'
        BY <1>1, <2>1, <2>2 DEF InstallerShape
    <2>5. DiskShape' /\ AckShape'
        BY <1>1, <2>1 DEF DiskShape, AckShape, InPlace
    <2> QED
        BY <2>3, <2>4, <2>5
<1> QED
    BY <1>2, <1>3

\* The index is read under the lock; an id that is there may end the install.
LEMMA StoreReads ==
    ASSUME StoreIInv, NEW i \in Installers, Store!ReadIndex(i)
    PROVE  StoreIInv'
<1> USE DEF StoreIInv
<1>1. spc[i] = "read" /\ UNCHANGED <<artifact, metadata, index, sdurable, acked, unsynced>>
    BY DEF Store!ReadIndex, Store!directory
<1>2. CASE Store!Ends(i)
    <2>1. InstallerShape' /\ spc' = [spc EXCEPT ![i] = "idle"] /\ StoreTypes'
        BY <1>1, <1>2, InstallerEnds DEF StoreTypes
    <2>2. \A j \in Installers : spc'[j] = spc[j] \/ spc[j] = "read"
        BY <1>1, <2>1 DEF StoreTypes
    <2>3. DiskShape' /\ AckShape'
        BY <1>1, <2>1, <2>2 DEF DiskShape, AckShape, InPlace
    <2> QED
        BY <2>1, <2>3
<1>3. CASE ~Store!Ends(i)
    <2>1. Store!Goto(i, "artifact") /\ copy' = [copy EXCEPT ![i] = index] /\ UNCHANGED request
        BY <1>3 DEF Store!ReadIndex
    <2>2. spc'[i] = "artifact" /\ spc' \in [Installers -> StoreLabels]
          /\ \A j \in Installers \ {i} : spc'[j] = spc[j]
        BY <2>1, InstallerGoes DEF StoreLabels
    <2>3. copy'[i] = index /\ (\A j \in Installers \ {i} : copy'[j] = copy[j])
          /\ copy' \in [Installers -> IndexesOf]
        BY <2>1 DEF StoreTypes
    <2>4. StoreTypes'
        BY <1>1, <2>1, <2>2, <2>3 DEF StoreTypes
    <2>5. InstallerShape'
        BY <1>1, <2>1, <2>2, <2>3 DEF InstallerShape
    <2>6. DiskShape' /\ AckShape'
        BY <1>1, <2>2 DEF DiskShape, AckShape, InPlace
    <2> QED
        BY <2>4, <2>5, <2>6
<1> QED
    BY <1>2, <1>3

\* While an installer publishes, the others wait: nothing else is under way.
LEMMA Alone ==
    ASSUME StoreIInv, NEW i \in Installers, spc[i] \notin {"idle", "lock"}
    PROVE  \A j \in Installers \ {i} : spc[j] \in {"idle", "lock"}
BY DEF StoreIInv, InstallerShape

\* publishImmutable of the artifact.
LEMMA StoreArtifact ==
    ASSUME StoreIInv, NEW i \in Installers, Store!PublishArtifact(i)
    PROVE  StoreIInv'
<1> DEFINE r == request[i]
<1> USE DEF StoreIInv
<1>1. spc[i] = "artifact" /\ UNCHANGED <<metadata, index, sdurable, request, copy, acked, unsynced>>
    BY DEF Store!PublishArtifact
<1>2. \A j \in Installers \ {i} : spc[j] \in {"idle", "lock"}
    BY <1>1, Alone
<1>3. r.id \in Ids /\ r.digest \in Digests
    BY <1>1, RequestShape
<1>4. CASE r.digest \in artifact[r.id]
    <2>1. Store!Goto(i, "metadata") /\ UNCHANGED artifact
        BY <1>4 DEF Store!PublishArtifact
    <2>2. spc'[i] = "metadata" /\ spc' \in [Installers -> StoreLabels]
          /\ \A j \in Installers \ {i} : spc'[j] = spc[j]
        BY <2>1, InstallerGoes DEF StoreLabels
    <2>3. StoreTypes'
        BY <1>1, <2>1, <2>2 DEF StoreTypes
    <2>4. InstallerShape'
        BY <1>1, <1>2, <1>4, <2>1, <2>2 DEF InstallerShape
    <2>5. DiskShape' /\ AckShape'
        BY <1>1, <2>1, <2>2 DEF DiskShape, AckShape, InPlace
    <2> QED
        BY <2>3, <2>4, <2>5
<1>5. CASE r.digest \notin artifact[r.id]
    <2>1. Store!Goto(i, "artifact_sync") /\ artifact' = [artifact EXCEPT ![r.id] = @ \cup {r.digest}]
        BY <1>5 DEF Store!PublishArtifact
    <2>2. spc'[i] = "artifact_sync" /\ spc' \in [Installers -> StoreLabels]
          /\ \A j \in Installers \ {i} : spc'[j] = spc[j]
        BY <2>1, InstallerGoes DEF StoreLabels
    <2>3. artifact' \in [Ids -> SUBSET Digests] /\ r.digest \in artifact'[r.id]
          /\ \A id \in Ids : artifact[id] \subseteq artifact'[id]
        BY <1>3, <2>1 DEF StoreTypes
    <2>4. StoreTypes'
        BY <1>1, <2>2, <2>3 DEF StoreTypes
    <2>5. InstallerShape'
        BY <1>1, <1>2, <2>2, <2>3 DEF InstallerShape
    <2>6. AckShape'
        BY <1>1 DEF AckShape
    <2>7. DiskShape'
        BY <1>1, <1>2, <2>2, <2>3 DEF DiskShape, InPlace
    <2> QED
        BY <2>4, <2>5, <2>6, <2>7
<1> QED
    BY <1>4, <1>5

\* publishImmutable of the sidecar.
LEMMA StoreSidecar ==
    ASSUME StoreIInv, NEW i \in Installers, Store!PublishMetadata(i)
    PROVE  StoreIInv'
<1> DEFINE r == request[i]
           f == <<r.id, r.digest>>
<1> USE DEF StoreIInv
<1>1. spc[i] = "metadata" /\ UNCHANGED <<artifact, index, sdurable, acked, unsynced>>
    BY DEF Store!PublishMetadata
<1>2. \A j \in Installers \ {i} : spc[j] \in {"idle", "lock"}
    BY <1>1, Alone
<1>3. r.note \in Notes /\ f \in Ids \X Digests
    BY <1>1, RequestShape
<1>4. CASE metadata[f] = Store!Absent
    <2>1. metadata' = [metadata EXCEPT ![f] = r.note] /\ Store!Goto(i, "metadata_sync")
          /\ UNCHANGED <<request, copy>>
        BY <1>3, <1>4, NotesAssumption DEF Store!PublishMetadata
    <2>2. spc'[i] = "metadata_sync" /\ spc' \in [Installers -> StoreLabels]
          /\ \A j \in Installers \ {i} : spc'[j] = spc[j]
        BY <2>1, InstallerGoes DEF StoreLabels
    <2>3. metadata' \in SidecarsOf /\ metadata'[f] = r.note
          /\ \A g \in Ids \X Digests : g # f => metadata'[g] = metadata[g]
        BY <1>3, <2>1 DEF StoreTypes, SidecarsOf
    <2>4. StoreTypes'
        BY <1>1, <2>1, <2>2, <2>3 DEF StoreTypes
    <2>5. InstallerShape'
        BY <1>1, <1>2, <2>1, <2>2, <2>3 DEF InstallerShape
    <2>6. AckShape'
        BY <1>1 DEF AckShape
    <2>7. ASSUME ~unsynced, NEW g \in Ids \X Digests PROVE sdurable.metadata[g] \in {Store!Absent, metadata'[g]}
        BY <1>4, <2>3, <2>7 DEF DiskShape
    <2>8. \A j \in Installers : spc'[j] # "metadata_sync" => j # i
        BY <2>2
    <2>9. DiskShape'
        BY <1>1, <1>2, <2>2, <2>7 DEF DiskShape, InPlace
    <2> QED
        BY <2>4, <2>5, <2>6, <2>9
<1>5. CASE metadata[f] = r.note
    <2>1. Store!Goto(i, "index") /\ UNCHANGED <<metadata, request, copy>>
        BY <1>3, <1>5, NotesAssumption DEF Store!PublishMetadata
    <2>2. spc'[i] = "index" /\ spc' \in [Installers -> StoreLabels]
          /\ \A j \in Installers \ {i} : spc'[j] = spc[j]
        BY <2>1, InstallerGoes DEF StoreLabels
    <2>3. StoreTypes'
        BY <1>1, <2>1, <2>2 DEF StoreTypes
    <2>4. InstallerShape'
        BY <1>1, <1>2, <1>5, <2>1, <2>2 DEF InstallerShape
    <2>5. DiskShape' /\ AckShape'
        BY <1>1, <2>1, <2>2 DEF DiskShape, AckShape, InPlace
    <2> QED
        BY <2>3, <2>4, <2>5
<1>6. CASE metadata[f] \notin {Store!Absent, r.note}
    <2>1. Store!Ends(i) /\ UNCHANGED metadata
        BY <1>6 DEF Store!PublishMetadata
    <2>2. InstallerShape' /\ spc' = [spc EXCEPT ![i] = "idle"] /\ StoreTypes'
        BY <1>1, <2>1, InstallerEnds DEF StoreTypes
    <2>3. \A j \in Installers : spc'[j] = spc[j] \/ spc[j] = "metadata"
        BY <1>1, <2>2 DEF StoreTypes
    <2>4. DiskShape' /\ AckShape'
        BY <1>1, <2>1, <2>2, <2>3 DEF DiskShape, AckShape, InPlace
    <2> QED
        BY <2>2, <2>4
<1> QED
    BY <1>4, <1>5, <1>6

\* updateIndex: what the entry names is there, synced, and the other entries are
\* those of the index as it is.
LEMMA StoreIndex ==
    ASSUME StoreIInv, NEW i \in Installers, Store!UpdateIndex(i)
    PROVE  StoreIInv'
<1> DEFINE r == request[i]
           entry == [digest |-> r.digest, note |-> r.note]
<1> USE DEF StoreIInv
<1>1. /\ spc[i] = "index" /\ Store!Goto(i, "index_sync")
      /\ index' = [copy[i] EXCEPT ![r.id] = entry] /\ acked' = [acked EXCEPT ![r.id] = Store!NoEntry]
      /\ UNCHANGED <<artifact, metadata, sdurable, request, copy, unsynced>>
    BY DEF Store!UpdateIndex
<1>2. \A j \in Installers \ {i} : spc[j] \in {"idle", "lock"}
    BY <1>1, Alone
<1>3. r.id \in Ids /\ r.digest \in Digests /\ entry \in Store!Entries
    BY <1>1, RequestShape
<1>4. spc'[i] = "index_sync" /\ spc' \in [Installers -> StoreLabels]
      /\ \A j \in Installers \ {i} : spc'[j] = spc[j]
    BY <1>1, InstallerGoes DEF StoreLabels
<1>5. copy[i] = index /\ r.digest \in artifact[r.id] /\ metadata[<<r.id, r.digest>>] = r.note
    BY <1>1 DEF InstallerShape
<1>6. index' \in IndexesOf /\ index'[r.id] = entry /\ \A id \in Ids \ {r.id} : index'[id] = index[id]
    BY <1>1, <1>3, <1>5 DEF StoreTypes, IndexesOf
<1>7. acked' \in IndexesOf /\ acked'[r.id] = Store!NoEntry /\ \A id \in Ids \ {r.id} : acked'[id] = acked[id]
    BY <1>1, <1>3 DEF StoreTypes, IndexesOf
<1>8. StoreTypes'
    BY <1>1, <1>4, <1>6, <1>7 DEF StoreTypes
<1>9. InstallerShape'
    <2> HIDE DEF entry
    <2>1. index'[r.id] = [digest |-> r.digest, note |-> r.note]
        BY <1>6 DEF entry
    <2> QED
        BY <1>1, <1>2, <1>4, <1>5, <2>1 DEF InstallerShape
<1>10. AckShape'
    BY <1>1, <1>6, <1>7 DEF AckShape
<1>11. ASSUME ~unsynced PROVE DiskShape'
    <2>1. sdurable.artifact = artifact /\ sdurable.metadata = metadata
        BY <1>1, <1>2, <1>11 DEF DiskShape
    <2>2. InPlace(index, sdurable.artifact, sdurable.metadata)
        BY <1>11 DEF DiskShape
    <2>3. entry.digest = r.digest /\ entry.note = r.note
        OBVIOUS
    <2>4. InPlace(index', sdurable.artifact, sdurable.metadata)
        BY <1>5, <1>6, <2>1, <2>2, <2>3 DEF InPlace
    <2>5. InPlace(sdurable.index, sdurable.artifact, sdurable.metadata)
        BY <1>11 DEF DiskShape
    <2>6. /\ \A id \in Ids : sdurable.artifact[id] \subseteq artifact[id]
          /\ \A f \in Ids \X Digests : sdurable.metadata[f] \in {Store!Absent, metadata[f]}
        BY <1>11 DEF DiskShape
    <2> HIDE DEF entry
    <2>7. InPlace(index, sdurable.artifact, sdurable.metadata)'
        BY <1>1, <2>4
    <2>8. InPlace(sdurable.index, sdurable.artifact, sdurable.metadata)'
        BY <1>1, <2>5
    <2> QED
        BY <1>1, <1>4, <2>1, <2>6, <2>7, <2>8 DEF DiskShape
<1> QED
    BY <1>1, <1>8, <1>9, <1>10, <1>11 DEF DiskShape

\* syncStoreDirectory: the directory is what a power cut would leave.
LEMMA StoreSyncs ==
    ASSUME StoreIInv, NEW i \in Installers, Store!SyncDirectory(i)
    PROVE  StoreIInv'
<1> DEFINE r == request[i]
           entry == [digest |-> r.digest, note |-> r.note]
<1> USE DEF StoreIInv
<1>1. /\ spc[i] \in {"artifact_sync", "metadata_sync", "index_sync"}
      /\ sdurable' = [artifact |-> artifact, metadata |-> metadata, index |-> index]
      /\ UNCHANGED <<artifact, metadata, index, unsynced>>
    BY DEF Store!SyncDirectory, Store!SyncLabels, Store!Directory, Store!directory
<1>2. \A j \in Installers \ {i} : spc[j] \in {"idle", "lock"}
    BY <1>1, Alone
<1>3. r.id \in Ids /\ entry \in Store!Entries
    BY <1>1, RequestShape
<1>4. /\ sdurable'.artifact = artifact /\ sdurable'.metadata = metadata /\ sdurable'.index = index
      /\ sdurable' \in [artifact : [Ids -> SUBSET Digests], metadata : SidecarsOf, index : IndexesOf]
    BY <1>1 DEF StoreTypes
<1>5. ~unsynced => InPlace(index, artifact, metadata)
    BY StaysInPlace DEF DiskShape, StoreTypes
<1>6. DiskShape'
    BY <1>1, <1>4, <1>5 DEF DiskShape, InPlace
<1>7. CASE spc[i] = "index_sync"
    <2>1. Store!Ends(i) /\ acked' = [acked EXCEPT ![r.id] = entry]
        BY <1>7 DEF Store!SyncDirectory
    <2>2. acked' \in IndexesOf /\ acked'[r.id] = entry /\ \A id \in Ids \ {r.id} : acked'[id] = acked[id]
        BY <1>3, <2>1 DEF StoreTypes, IndexesOf
    <2>3. InstallerShape' /\ StoreTypes'
        BY <1>1, <1>4, <2>1, <2>2, InstallerEnds DEF StoreTypes
    <2>4. index[r.id] = entry
        BY <1>7 DEF InstallerShape
    <2>5. AckShape'
        BY <1>1, <1>4, <2>2, <2>4 DEF AckShape
    <2> QED
        BY <1>6, <2>3, <2>5
<1>8. CASE spc[i] # "index_sync"
    <2>1. Store!Goto(i, Store!After(spc[i])) /\ UNCHANGED <<request, copy, acked>>
        BY <1>8 DEF Store!SyncDirectory
    <2>2. Store!After(spc[i]) = (IF spc[i] = "artifact_sync" THEN "metadata" ELSE "index")
        BY <1>1, <1>8 DEF Store!After
    <2>3. spc'[i] = (IF spc[i] = "artifact_sync" THEN "metadata" ELSE "index")
          /\ spc' \in [Installers -> StoreLabels] /\ \A j \in Installers \ {i} : spc'[j] = spc[j]
        BY <2>1, <2>2, InstallerGoes DEF StoreLabels
    <2>4. StoreTypes'
        BY <1>1, <1>4, <2>1, <2>3 DEF StoreTypes
    <2>5. InstallerShape'
        BY <1>1, <1>2, <1>8, <2>1, <2>3 DEF InstallerShape
    <2>6. AckShape'
        BY <1>1, <1>4, <2>1 DEF AckShape
    <2> QED
        BY <1>6, <2>4, <2>5, <2>6
<1> QED
    BY <1>7, <1>8

\* An installer that fails or is killed leaves its last rename to the next sync.
LEMMA StoreFails ==
    ASSUME StoreIInv, NEW i \in Installers, Store!Fault(i) \/ Store!Kill(i)
    PROVE  StoreIInv'
<1> USE DEF StoreIInv
<1>1. Store!Ends(i) /\ UNCHANGED <<artifact, metadata, index, sdurable, acked>>
    BY DEF Store!Fault, Store!Kill, Store!directory
<1>2. unsynced' = (unsynced \/ spc[i] \in Store!SyncLabels)
    BY DEF Store!Fault, Store!Kill
<1>3. unsynced' \in BOOLEAN
    BY <1>2
<1>4. InstallerShape' /\ spc' = [spc EXCEPT ![i] = "idle"]
    BY <1>1, InstallerEnds
<1>5. StoreTypes'
    BY <1>1, <1>3, InstallerEnds DEF StoreTypes
<1>6. AckShape'
    BY <1>1 DEF AckShape
<1>7. ASSUME ~unsynced' PROVE DiskShape'
    <2>1. ~unsynced /\ spc[i] \notin {"artifact_sync", "metadata_sync", "index_sync"}
        BY <1>2, <1>7 DEF Store!SyncLabels
    <2>2. \A j \in Installers : spc'[j] = spc[j] \/ spc[j] \notin {"artifact_sync", "metadata_sync", "index_sync"}
        BY <1>4, <2>1 DEF StoreTypes
    <2> QED
        BY <1>1, <2>1, <2>2 DEF DiskShape, InPlace
<1> QED
    BY <1>4, <1>5, <1>6, <1>7 DEF DiskShape

\* A power cut: each of the renames made since the last sync is kept or not.
LEMMA StorePowerCut ==
    ASSUME StoreIInv, Store!PowerCut
    PROVE  StoreIInv'
<1> USE DEF StoreIInv
<1>1. /\ artifact' \in {artifact, sdurable.artifact} /\ metadata' \in {metadata, sdurable.metadata}
      /\ index' \in {index, sdurable.index}
      /\ sdurable' = [artifact |-> artifact', metadata |-> metadata', index |-> index']
      /\ spc' = [j \in Installers |-> "idle"] /\ copy' = [j \in Installers |-> Store!NoIndex]
      /\ request' = [j \in Installers |-> [id |-> Store!Absent]]
      /\ UNCHANGED <<acked, unsynced>>
    BY DEF Store!PowerCut, Store!Directory
<1>2. /\ artifact' \in [Ids -> SUBSET Digests] /\ metadata' \in SidecarsOf /\ index' \in IndexesOf
      /\ sdurable'.artifact = artifact' /\ sdurable'.metadata = metadata' /\ sdurable'.index = index'
    BY <1>1 DEF StoreTypes
<1>3. sdurable' \in [artifact : [Ids -> SUBSET Digests], metadata : SidecarsOf, index : IndexesOf]
    BY <1>1, <1>2
<1>4. Store!NoIndex \in IndexesOf
    BY DEF Store!NoIndex, IndexesOf
<1>5. StoreTypes'
    BY <1>1, <1>2, <1>3, <1>4 DEF StoreTypes, StoreLabels
<1>6. InstallerShape'
    BY <1>1 DEF InstallerShape
<1>7. AckShape'
    BY <1>1, <1>2 DEF AckShape
<1>8. ASSUME ~unsynced PROVE InPlace(index', artifact', metadata')
    <2>1. InPlace(index', sdurable.artifact, sdurable.metadata)
        BY <1>1, <1>8 DEF DiskShape
    <2>2. \A id \in Ids : sdurable.artifact[id] \subseteq artifact'[id]
        BY <1>1, <1>8 DEF DiskShape
    <2>3. \A f \in Ids \X Digests : sdurable.metadata[f] \in {Store!Absent, metadata'[f]}
        BY <1>1, <1>8 DEF DiskShape
    <2> QED
        BY <1>2, <2>1, <2>2, <2>3, StaysInPlace
<1>9. DiskShape'
    BY <1>1, <1>2, <1>8 DEF DiskShape, InPlace
<1> QED
    BY <1>5, <1>6, <1>7, <1>9

\* The store stays whole under every step.
LEMMA StoreInv == StoreIInv /\ [Store!Next]_(Store!vars) => StoreIInv'
<1> SUFFICES ASSUME StoreIInv, [Store!Next]_(Store!vars) PROVE StoreIInv'
    OBVIOUS
<1>1. CASE UNCHANGED Store!vars
    BY <1>1 DEF Store!vars, Store!directory, StoreIInv, StoreTypes, InstallerShape, DiskShape, AckShape,
                InPlace
<1> QED
    BY <1>1, StoreLocks, StoreReads, StoreArtifact, StoreSidecar, StoreIndex, StoreSyncs, StoreFails,
       StorePowerCut
    DEF Store!Next

\* Store.Install, Store.List: however installs are interleaved, killed, fail and
\* are cut off the power, what was installed is found and every entry of the index
\* has its files, unless an installer ended between a rename and its sync.
THEOREM StoreSafe == Store!Spec => []StoreInvariant
<1>1. ASSUME Store!Init PROVE StoreIInv
    <2>1. Store!NoIndex \in IndexesOf /\ \A id \in Ids : Store!NoIndex[id] = Store!NoEntry
        BY DEF Store!NoIndex, IndexesOf
    <2>2. /\ artifact = [id \in Ids |-> {}] /\ metadata = [f \in Ids \X Digests |-> Store!Absent]
          /\ index = Store!NoIndex /\ acked = Store!NoIndex /\ unsynced = FALSE
          /\ sdurable = [artifact |-> artifact, metadata |-> metadata, index |-> index]
          /\ spc = [i \in Installers |-> "idle"] /\ copy = [i \in Installers |-> Store!NoIndex]
          /\ request = [i \in Installers |-> [id |-> Store!Absent]]
        BY <1>1 DEF Store!Init, Store!Directory
    <2>3. artifact \in [Ids -> SUBSET Digests] /\ metadata \in SidecarsOf
        BY <2>2 DEF SidecarsOf
    <2>4. sdurable \in [artifact : [Ids -> SUBSET Digests], metadata : SidecarsOf, index : IndexesOf]
          /\ sdurable.artifact = artifact /\ sdurable.metadata = metadata /\ sdurable.index = index
        BY <2>1, <2>2, <2>3
    <2>5. StoreTypes
        BY <2>1, <2>2, <2>3, <2>4 DEF StoreTypes, StoreLabels
    <2>6. InstallerShape /\ AckShape
        BY <2>1, <2>2 DEF InstallerShape, AckShape
    <2>7. DiskShape
        BY <2>1, <2>2, <2>4 DEF DiskShape, InPlace
    <2> QED
        BY <2>5, <2>6, <2>7 DEF StoreIInv
<1>2. ASSUME StoreIInv PROVE StoreInvariant
    <2>1. Store!TypeOK
        BY <1>2 DEF StoreIInv, StoreTypes, SidecarsOf, IndexesOf, Store!TypeOK
    <2>2. ~unsynced => InPlace(index, artifact, metadata)
        BY <1>2, StaysInPlace DEF StoreIInv, DiskShape, StoreTypes
    <2>3. Store!EntriesAreListed
        BY <2>2 DEF Store!EntriesAreListed, Store!List, Store!Backed, InPlace
    <2>4. Store!SidecarAgrees
        BY <2>2 DEF Store!SidecarAgrees, InPlace
    <2>5. Store!InstalledStays
        BY <1>2 DEF StoreIInv, AckShape, Store!InstalledStays
    <2> QED
        BY <2>1, <2>3, <2>4, <2>5 DEF StoreInvariant, Store!StoreInvariant
<1> QED
    BY <1>1, <1>2, StoreInv, PTL DEF Store!Spec

-----------------------------------------------------------------------------
(* Proofs: the process.                                                    *)

\* What a call of defer does to the members of a sequence.
LEMMA PutInFront ==
    ASSUME NEW S, NEW s \in Seq(S), NEW e \in S
    PROVE  /\ <<e>> \o s \in Seq(S) /\ Members(<<e>> \o s) = {e} \cup Members(s)
           /\ Distinct(s) /\ e \notin Members(s) => Distinct(<<e>> \o s)
<1> DEFINE z == <<e>> \o s
<1>1. z \in Seq(S) /\ Len(z) = Len(s) + 1 /\ z[1] = e /\ DOMAIN z = 1..Len(s) + 1 /\ DOMAIN s = 1..Len(s)
    OBVIOUS
<1>2. \A i \in 1..Len(s) : z[i + 1] = s[i]
    OBVIOUS
<1>3. \A i \in 2..Len(s) + 1 : z[i] = s[i - 1] /\ i - 1 \in 1..Len(s)
    OBVIOUS
<1>4. Members(z) = {e} \cup Members(s)
    <2> HIDE DEF z
    <2>1. ASSUME NEW m \in Members(z) PROVE m \in {e} \cup Members(s)
        BY <1>1, <1>3 DEF Members
    <2>2. ASSUME NEW m \in {e} \cup Members(s) PROVE m \in Members(z)
        BY <1>1, <1>2, SMTT(30) DEF Members
    <2> QED
        BY <2>1, <2>2
<1>5. ASSUME Distinct(s), e \notin Members(s) PROVE Distinct(z)
    <2> HIDE DEF z
    <2> SUFFICES ASSUME NEW i \in DOMAIN z, NEW j \in DOMAIN z, z[i] = z[j] PROVE i = j
        BY DEF Distinct
    <2>1. CASE i = 1 /\ j # 1
        BY <1>1, <1>3, <1>5, <2>1, SMTT(30) DEF Members
    <2>2. CASE i # 1 /\ j = 1
        BY <1>1, <1>3, <1>5, <2>2 DEF Members
    <2>3. CASE i # 1 /\ j # 1
        <3>1. i - 1 \in DOMAIN s /\ j - 1 \in DOMAIN s /\ s[i - 1] = s[j - 1]
            BY <1>1, <1>3, <2>3
        <3>2. i - 1 = j - 1
            BY <1>5, <3>1 DEF Distinct
        <3> QED
            BY <1>1, <3>2
    <2> QED
        BY <2>1, <2>2, <2>3
<1> QED
    BY <1>1, <1>4, <1>5

\* What is left of a sequence when its first member is taken.
LEMMA TakeFirst ==
    ASSUME NEW S, NEW s \in Seq(S), s # <<>>
    PROVE  /\ Tail(s) \in Seq(S) /\ Head(s) \in S /\ Members(s) = {Head(s)} \cup Members(Tail(s))
           /\ Distinct(s) => Distinct(Tail(s)) /\ Head(s) \notin Members(Tail(s))
<1> DEFINE z == Tail(s)
<1>1. z \in Seq(S) /\ Head(s) \in S /\ Head(s) = s[1] /\ DOMAIN z = 1..Len(s) - 1
      /\ DOMAIN s = 1..Len(s) /\ Len(s) \in Nat \ {0}
    OBVIOUS
<1>2. \A i \in 1..Len(s) - 1 : z[i] = s[i + 1] /\ i + 1 \in 2..Len(s)
    OBVIOUS
<1>3. \A i \in 2..Len(s) : z[i - 1] = s[i] /\ i - 1 \in 1..Len(s) - 1
    OBVIOUS
<1> HIDE DEF z
<1>4. Members(s) = {Head(s)} \cup Members(z)
    <2>1. ASSUME NEW m \in Members(s) PROVE m \in {Head(s)} \cup Members(z)
        BY <1>1, <1>3 DEF Members
    <2>2. ASSUME NEW m \in {Head(s)} \cup Members(z) PROVE m \in Members(s)
        BY <1>1, <1>2 DEF Members
    <2> QED
        BY <2>1, <2>2
<1>5. ASSUME Distinct(s) PROVE Distinct(z)
    <2> SUFFICES ASSUME NEW i \in DOMAIN z, NEW j \in DOMAIN z, z[i] = z[j] PROVE i = j
        BY DEF Distinct
    <2>1. i + 1 = j + 1
        BY <1>1, <1>2, <1>5 DEF Distinct
    <2> QED
        BY <1>1, <2>1
<1>6. ASSUME Distinct(s) PROVE Head(s) \notin Members(z)
    <2> SUFFICES ASSUME NEW i \in DOMAIN z, z[i] = Head(s) PROVE FALSE
        BY DEF Members
    <2>1. i + 1 = 1
        BY <1>1, <1>2, <1>6 DEF Distinct
    <2> QED
        BY <1>1, <2>1
<1> QED
    BY <1>1, <1>4, <1>5, <1>6 DEF z

\* No step of the setup comes twice, and the ring is either lit by the test
\* indicator or has a service, never both.
LEMMA SetupShape ==
    ASSUME NEW x \in Options
    PROVE  /\ Setup(x) \in Seq(Steps) /\ Distinct(Setup(x))
           /\ "test" \in Members(Setup(x)) => x.wakeOnly /\ ~x.file
           /\ "led" \in Members(Setup(x)) => ~x.wakeOnly \/ x.file
<1> USE DEF Members, Distinct, Steps
<1>1. x.wakeOnly \in BOOLEAN /\ x.file \in BOOLEAN
    BY DEF Options
<1>2. CASE ~x.wakeOnly
    <2>1. Setup(x) = <<"identity", "led", "state", "mic", "parts", "engine", "client", "buttons">>
        BY <1>1, <1>2 DEF Setup
    <2> QED
        BY <1>2, <2>1
<1>3. CASE x.wakeOnly /\ x.file
    <2>1. Setup(x) = <<"identity", "engine", "mic", "parts", "led", "buttons">>
        BY <1>1, <1>3 DEF Setup
    <2> QED
        BY <1>3, <2>1
<1>4. CASE x.wakeOnly /\ ~x.file
    <2>1. Setup(x) = <<"identity", "engine", "test", "mic", "parts", "buttons">>
        BY <1>1, <1>4 DEF Setup
    <2> QED
        BY <1>4, <2>1
<1> QED
    BY <1>1, <1>2, <1>3, <1>4

\* Device.WriteFrame keeps the types of the ring and the caches.
LEMMA WriteTypes ==
    ASSUME DaemonTypes, NEW d \in Devices, NEW frame \in {"lit", "dark"}, Writes(d, frame) \/ Fails(d, frame)
    PROVE  /\ ring' \in {"lit", "dark"} /\ cached' \in [Devices -> {"nothing", "lit", "dark"}]
           /\ failed' \subseteq {"ring", "gpio"}
BY DEF Writes, Fails, DaemonTypes, TypeOK

\* The flags stay flags.
LEMMA FlagTypes ==
    ASSUME DaemonTypes, [Next]_vars
    PROVE  ticking' \in BOOLEAN /\ tick' \in BOOLEAN /\ claimed' \in BOOLEAN /\ late' \in BOOLEAN
<1>1. ticking \in BOOLEAN /\ tick \in BOOLEAN /\ claimed \in BOOLEAN /\ late \in BOOLEAN
    BY DEF DaemonTypes
<1>2. CASE SetUp
    <2>1. UNCHANGED <<tick, late>>
        BY <1>2 DEF SetUp
    <2>2. ticking' \in BOOLEAN
        BY <1>1, <1>2 DEF SetUp
    <2>3. claimed' \in BOOLEAN
        BY <1>1, <1>2 DEF SetUp
    <2> QED
        BY <1>1, <2>1, <2>2, <2>3
<1>3. CASE Unwind
    <2>1. UNCHANGED <<tick, claimed>>
        BY <1>3 DEF Unwind, animator
    <2>2. ticking' \in BOOLEAN
        BY <1>1, <1>3 DEF Unwind
    <2>3. late' \in BOOLEAN
        BY <1>1, <1>3 DEF Unwind
    <2> QED
        BY <1>1, <2>1, <2>2, <2>3
<1>4. CASE Snapshot \/ Prepare \/ StartTest \/ StartWorkers \/ FirstResult \/ CloseSource
    BY <1>1, <1>4 DEF Snapshot, Prepare, StartTest, StartWorkers, FirstResult, CloseSource, animator, history
<1>5. CASE Join \/ Unwound \/ Cleanup \/ Restore \/ (\E w \in Workers : WorkerEnds(w)) \/ Command
    BY <1>1, <1>5 DEF Join, Unwound, Cleanup, Restore, WorkerEnds, Command, animator, history
<1>6. CASE Animates
    BY <1>1, <1>6 DEF Animates, AnimatorStops
<1>7. CASE TickerFires \/ Signal \/ Toggle \/ UNCHANGED vars
    BY <1>1, <1>7 DEF TickerFires, Signal, Toggle, animator, history, vars
<1> QED
    BY <1>2, <1>3, <1>4, <1>5, <1>6, <1>7 DEF Next, Main

\* Every step keeps the types.
LEMMA DaemonTypesInv == DaemonTypes /\ [Next]_vars => DaemonTypes'
<1> SUFFICES ASSUME DaemonTypes, [Next]_vars PROVE DaemonTypes'
    OBVIOUS
<1>1. ticking' \in BOOLEAN /\ tick' \in BOOLEAN /\ claimed' \in BOOLEAN /\ late' \in BOOLEAN
    BY FlagTypes
<1>2. /\ o \in Options /\ gpio \in {"unexported", "0", "1"} /\ observed \in {"none", "0", "1"}
      /\ ring \in {"lit", "dark"} /\ mic \in {"closed", "open"} /\ engine \in {"none", "open", "closed"}
      /\ anim \in {"none", "render", "write", "tick", "done"} /\ deferred \in Seq(Calls)
      /\ failed \subseteq {"ring", "gpio"} /\ steps \in Seq(Steps)
      /\ hand \in {"lit", "dark"} /\ want \in {"lit", "dark"}
      /\ cached \in [Devices -> {"nothing", "lit", "dark"}]
      /\ worker \in [Workers -> {"none", "running", "returned", "taken"}]
      /\ pc \in {"snapshot", "services", "setup", "running", "close", "join"} \cup Down
      /\ o.file => pc \notin {"snapshot", "services", "cleanup", "restore"}
      /\ ~o.file /\ observed = "none" => pc \in {"snapshot", "exit"}
    BY DEF DaemonTypes, TypeOK
<1>3. o' = o
    BY DEF Next, Main, Snapshot, Prepare, SetUp, StartTest, StartWorkers, FirstResult, CloseSource, Join, Unwind,
           Unwound, Cleanup, Restore, WorkerEnds, Animates, TickerFires, Command, Signal, Toggle, vars
<1> DEFINE Kept == /\ gpio' \in {"unexported", "0", "1"} /\ observed' \in {"none", "0", "1"}
                   /\ ring' \in {"lit", "dark"} /\ mic' \in {"closed", "open"}
                   /\ engine' \in {"none", "open", "closed"}
                   /\ anim' \in {"none", "render", "write", "tick", "done"} /\ deferred' \in Seq(Calls)
                   /\ failed' \subseteq {"ring", "gpio"} /\ steps' \in Seq(Steps)
                   /\ hand' \in {"lit", "dark"} /\ want' \in {"lit", "dark"}
                   /\ cached' \in [Devices -> {"nothing", "lit", "dark"}]
                   /\ worker' \in [Workers -> {"none", "running", "returned", "taken"}]
                   /\ pc' \in {"snapshot", "services", "setup", "running", "close", "join"} \cup Down
                   /\ o.file => pc' \notin {"snapshot", "services", "cleanup", "restore"}
                   /\ ~o.file /\ observed' = "none" => pc' \in {"snapshot", "exit"}
<1>4. Kept => DaemonTypes'
    BY <1>1, <1>2, <1>3 DEF DaemonTypes, TypeOK
<1>5. CASE Snapshot
    BY <1>2, <1>4, <1>5 DEF Snapshot, Down, work, animator
<1>6. CASE Prepare
    <2>1. ring' \in {"lit", "dark"} /\ cached' \in [Devices -> {"nothing", "lit", "dark"}]
          /\ failed' \subseteq {"ring", "gpio"}
        BY <1>2, <1>6, WriteTypes DEF Prepare, Devices
    <2> QED
        BY <1>2, <1>4, <1>6, <2>1 DEF Prepare, Down, work, animator
<1>7. CASE SetUp
    <2>1. Head(steps) \in Steps /\ Tail(steps) \in Seq(Steps)
        BY <1>2, <1>7, TakeFirst DEF SetUp
    <2>2. UNCHANGED <<gpio, ring, observed, cached, worker, hand, want, failed>>
        BY <1>7 DEF SetUp, device, work
    <2>3. steps' \in Seq(Steps) /\ pc = "setup" /\ pc' \in {"setup", "unwind"}
        BY <1>2, <1>7, <2>1 DEF SetUp
    <2>4. deferred' \in Seq(Calls)
        <3>1. \A c \in {"engine", "mic", "led"} : <<c>> \o deferred \in Seq(Calls)
            BY <1>2, PutInFront DEF Calls
        <3> QED
            BY <1>2, <1>7, <3>1 DEF SetUp
    <2>5. mic' \in {"closed", "open"} /\ engine' \in {"none", "open", "closed"}
          /\ anim' \in {"none", "render", "write", "tick", "done"}
        BY <1>2, <1>7 DEF SetUp
    <2> QED
        BY <1>2, <2>2, <2>3, <2>4, <2>5, <1>4 DEF Down
<1>8. CASE StartTest
    <2>1. Tail(steps) \in Seq(Steps) /\ <<"test">> \o deferred \in Seq(Calls)
        BY <1>2, <1>8, TakeFirst, PutInFront DEF StartTest, Calls
    <2>2. UNCHANGED <<gpio, observed, mic, engine, worker, anim, hand, want>> /\ pc = "setup"
        BY <1>8 DEF StartTest, work, animator
    <2>3. steps' \in Seq(Steps) /\ deferred' \in Seq(Calls) /\ pc' \in {"setup", "unwind"}
        BY <1>2, <1>8, <2>1, <2>2 DEF StartTest, TestIndicator
    <2>4. ring' \in {"lit", "dark"} /\ cached' \in [Devices -> {"nothing", "lit", "dark"}]
          /\ failed' \subseteq {"ring", "gpio"}
        <3>1. \/ ring' = "lit" /\ cached' = [cached EXCEPT !["test"] = "lit"] /\ failed' = failed
              \/ ring' \in {ring, "lit", "dark"} /\ cached' = cached /\ failed' = failed \cup {"ring"}
              \/ ring' = "dark" /\ cached' = cached /\ failed' = failed
            BY <1>8 DEF StartTest, TestIndicator
        <3>2. [cached EXCEPT !["test"] = "lit"] \in [Devices -> {"nothing", "lit", "dark"}]
            BY <1>2
        <3>3. cached' \in [Devices -> {"nothing", "lit", "dark"}]
            BY <1>2, <3>1, <3>2
        <3> QED
            BY <1>2, <3>1, <3>3
    <2> QED
        BY <1>2, <1>4, <2>2, <2>3, <2>4 DEF Down
<1>9. CASE StartWorkers
    <2>1. deferred' \in Seq(Calls)
        BY <1>2, <1>9 DEF StartWorkers, Calls
    <2> QED
        BY <1>2, <1>4, <1>9, <2>1 DEF StartWorkers, device, history
<1>10. CASE FirstResult
    BY <1>2, <1>4, <1>10 DEF FirstResult, Take, device, animator, history
<1>11. CASE CloseSource
    BY <1>2, <1>4, <1>11 DEF CloseSource, Closed, device, work, animator, history
<1>12. CASE Join
    BY <1>2, <1>4, <1>12 DEF Join, Take, Down, device, animator, history
<1>13. CASE Unwind
    <2>1. Tail(deferred) \in Seq(Calls)
        BY <1>2, <1>13, TakeFirst DEF Unwind
    <2>2. ring' \in {"lit", "dark"} /\ cached' \in [Devices -> {"nothing", "lit", "dark"}]
          /\ failed' \subseteq {"ring", "gpio"}
        BY <1>2, <1>13, WriteTypes DEF Unwind, Devices
    <2>3. engine' \in {"none", "open", "closed"} /\ mic' \in {"closed", "open"}
        BY <1>2, <1>13 DEF Unwind, Closed
    <2> QED
        BY <1>2, <1>4, <1>13, <2>1, <2>2, <2>3 DEF Unwind, work, animator
<1>14. CASE Unwound
    BY <1>2, <1>4, <1>14 DEF Unwound, Down, device, work, animator, history
<1>15. CASE Cleanup
    <2>1. ring' \in {"lit", "dark"} /\ cached' \in [Devices -> {"nothing", "lit", "dark"}]
          /\ failed' \subseteq {"ring", "gpio"}
        BY <1>2, <1>15, WriteTypes DEF Cleanup, Devices
    <2> QED
        BY <1>2, <1>4, <1>15, <2>1 DEF Cleanup, Down, work, animator
<1>16. CASE Restore
    <2>1. gpio' \in {"unexported", "0", "1"} /\ failed' \subseteq {"ring", "gpio"}
        BY <1>2, <1>16 DEF Restore
    <2> QED
        BY <1>2, <1>4, <1>16, <2>1 DEF Restore, Down, work, animator
<1>17. CASE \E w \in Workers : WorkerEnds(w)
    BY <1>2, <1>4, <1>17 DEF WorkerEnds, main, device, animator, history
<1>18. CASE Animates
    <2>1. ring' \in {"lit", "dark"} /\ cached' \in [Devices -> {"nothing", "lit", "dark"}]
          /\ failed' \subseteq {"ring", "gpio"}
        BY <1>2, <1>18, WriteTypes DEF Animates, AnimatorStops, Devices
    <2>2. anim' \in {"none", "render", "write", "tick", "done"} /\ hand' \in {"lit", "dark"}
        BY <1>2, <1>18 DEF Animates, AnimatorStops
    <2> QED
        BY <1>2, <1>4, <1>18, <2>1, <2>2 DEF Animates, main, work
<1>19. CASE TickerFires \/ Command \/ Signal \/ Toggle
    <2>1. UNCHANGED <<ring, observed, cached, mic, engine, worker, anim, hand, failed, main>>
        BY <1>19 DEF TickerFires, Command, Signal, Toggle, device, work, animator, history
    <2>2. want' \in {"lit", "dark"} /\ gpio' \in {"unexported", "0", "1"}
        BY <1>2, <1>19 DEF TickerFires, Command, Signal, Toggle, device
    <2> QED
        BY <1>2, <1>4, <2>1, <2>2 DEF main
<1>20. CASE UNCHANGED vars
    BY <1>2, <1>4, <1>20 DEF vars, main, device, work, animator, history
<1> QED
    BY <1>4, <1>5, <1>6, <1>7, <1>8, <1>9, <1>10, <1>11, <1>12, <1>13, <1>14, <1>15, <1>16, <1>17, <1>18,
       <1>19, <1>20 DEF Next, Main

\* A step of the setup that is over is taken from the plan, and deferred when
\* something has to be undone.
LEMMA StepIsOver ==
    ASSUME DaemonTypes, PlanShape, pc = "setup", UNCHANGED <<o, pc>>, steps # <<>>, steps' = Tail(steps),
           \/ UNCHANGED deferred
           \/ Head(steps) \in Calls /\ deferred' = <<Head(steps)>> \o deferred
    PROVE  /\ PlanShape' /\ Head(steps) \notin Members(deferred)
           /\ deferred' = <<Head(steps)>> \o deferred =>
                Members(deferred') = {Head(steps)} \cup Members(deferred)
<1>1. steps \in Seq(Steps) /\ deferred \in Seq(Calls)
    BY DEF DaemonTypes, TypeOK
<1>2. /\ Distinct(steps) /\ Distinct(deferred) /\ Members(steps) \cap Members(deferred) = {}
      /\ "nothing" \notin Members(deferred)
      /\ \A c \in Members(steps) \cup Members(deferred) :
        (c = "test" => o.wakeOnly /\ ~o.file) /\ (c = "led" => ~o.wakeOnly \/ o.file)
    BY DEF PlanShape
<1>3. /\ Head(steps) \in Steps /\ Members(steps) = {Head(steps)} \cup Members(Tail(steps))
      /\ Distinct(Tail(steps)) /\ Head(steps) \notin Members(Tail(steps))
    BY <1>1, <1>2, TakeFirst
<1>4. Head(steps) \notin Members(deferred)
    BY <1>2, <1>3
<1>5. CASE UNCHANGED deferred
    <2>1. Members(steps') \cap Members(deferred') = {} /\ Distinct(steps')
        BY <1>2, <1>3, <1>5
    <2>2. Members(steps)' = Members(steps') /\ Members(deferred)' = Members(deferred') /\ Members(deferred') = Members(deferred)
        BY <1>5 DEF Members
    <2>3. Distinct(steps)' = Distinct(steps') /\ Distinct(deferred)' = Distinct(deferred)
        BY <1>5 DEF Distinct
    <2>4. Members(steps') \subseteq Members(steps)
        BY <1>3
    <2>5. PlanShape'
        BY <1>2, <2>1, <2>2, <2>3, <2>4 DEF PlanShape
    <2>6. Len(<<Head(steps)>> \o deferred) # Len(deferred)
        BY <1>1, <1>3
    <2> QED
        BY <1>4, <1>5, <2>5, <2>6
<1>6. CASE Head(steps) \in Calls /\ deferred' = <<Head(steps)>> \o deferred
    <2>1. Members(deferred') = {Head(steps)} \cup Members(deferred) /\ Distinct(deferred')
        BY <1>1, <1>2, <1>4, <1>6, PutInFront
    <2>2. Members(steps)' = Members(steps') /\ Members(deferred)' = Members(deferred')
        BY DEF Members
    <2>3. Distinct(steps)' = Distinct(steps') /\ Distinct(deferred)' = Distinct(deferred')
        BY DEF Distinct
    <2>4. Members(steps') \cap Members(deferred') = {} /\ Distinct(steps')
        BY <1>2, <1>3, <2>1
    <2>5. Members(steps') \cup Members(deferred') \subseteq Members(steps) \cup Members(deferred)
        BY <1>3, <2>1
    <2>6. "nothing" \notin Members(deferred')
        BY <1>2, <1>3, <2>1 DEF Steps
    <2>7. \A c \in Members(steps') \cup Members(deferred') :
            (c = "test" => o'.wakeOnly /\ ~o'.file) /\ (c = "led" => ~o'.wakeOnly \/ o'.file)
        BY <1>2, <2>5
    <2>8. Distinct(deferred')
        BY <2>1
    <2>9. PlanShape'
        BY <2>2, <2>3, <2>4, <2>6, <2>7, <2>8 DEF PlanShape
    <2> QED
        BY <1>4, <2>1, <2>9
<1> QED
    BY <1>5, <1>6

\* A deferred call is made once.
LEMMA CallIsMade ==
    ASSUME DaemonTypes, PlanShape, pc = "unwind", UNCHANGED <<o, pc, steps>>, deferred # <<>>,
           deferred' = Tail(deferred)
    PROVE  /\ PlanShape' /\ Head(deferred) \notin Members(deferred')
           /\ Members(deferred) = {Head(deferred)} \cup Members(deferred')
<1>1. deferred \in Seq(Calls) /\ Distinct(deferred)
    BY DEF DaemonTypes, TypeOK, PlanShape
<1>2. /\ Members(deferred) = {Head(deferred)} \cup Members(deferred') /\ Distinct(deferred')
      /\ Head(deferred) \notin Members(deferred')
    BY <1>1, TakeFirst
<1>3. Members(steps)' = Members(steps) /\ Members(deferred)' = Members(deferred')
    BY DEF Members
<1>4. Distinct(steps)' = Distinct(steps) /\ Distinct(deferred)' = Distinct(deferred')
    BY DEF Distinct
<1>5. PlanShape'
    BY <1>2, <1>3, <1>4 DEF PlanShape
<1> QED
    BY <1>2, <1>5

\* The wake-only mode gives the deferred close of the microphone up.
LEMMA CloseGivenUp ==
    ASSUME DaemonTypes, PlanShape, StartWorkers
    PROVE  /\ PlanShape'
           /\ \A c \in {"led", "test", "engine"} : c \in Members(deferred') <=> c \in Members(deferred)
<1>1. /\ pc = "setup" /\ pc' = "running" /\ UNCHANGED <<o, steps>>
      /\ deferred' = [i \in DOMAIN deferred |->
                        IF o.wakeOnly /\ deferred[i] = "mic" THEN "nothing" ELSE deferred[i]]
    BY DEF StartWorkers
<1>2. "nothing" \notin Members(deferred) /\ Distinct(deferred)
    BY <1>1 DEF PlanShape
<1>3. \A c \in {"led", "test", "engine"} : c \in Members(deferred') <=> c \in Members(deferred)
    BY <1>1 DEF Members
<1>4. Members(deferred') \subseteq Members(deferred) \cup {"nothing"}
    BY <1>1 DEF Members
<1>5. Distinct(deferred')
    <2> SUFFICES ASSUME NEW i \in DOMAIN deferred, NEW j \in DOMAIN deferred, deferred'[i] = deferred'[j]
                 PROVE  i = j
        BY <1>1 DEF Distinct
    <2>1. deferred[i] = deferred[j]
        BY <1>1, <1>2 DEF Members
    <2> QED
        BY <1>2, <2>1 DEF Distinct
<1>6. "nothing" \notin Members(steps)
    BY DEF DaemonTypes, Steps, Members
<1>7. Members(steps)' = Members(steps) /\ Members(deferred)' = Members(deferred')
      /\ Distinct(steps)' = Distinct(steps) /\ Distinct(deferred)' = Distinct(deferred')
    BY <1>1 DEF Members, Distinct
<1>8. PlanShape'
    BY <1>1, <1>4, <1>5, <1>6, <1>7 DEF PlanShape
<1> QED
    BY <1>3, <1>8

\* Every step keeps the plan of what is to be done and undone.
LEMMA PlanInv == DaemonTypes /\ PlanShape /\ [Next]_vars => PlanShape'
<1> SUFFICES ASSUME DaemonTypes, PlanShape, [Next]_vars PROVE PlanShape'
    OBVIOUS
<1>1. ASSUME UNCHANGED <<o, steps, deferred>>,
             pc' \in {"snapshot", "services"} =>
                /\ cached' = [d \in Devices |-> "nothing"] /\ anim' = "none" /\ ~ticking' /\ ~tick',
             pc' \in {"snapshot", "services", "cleanup", "restore", "exit"} => deferred = <<>>,
             pc' = "setup" => pc = "setup" \/ deferred = <<>>
      PROVE  PlanShape'
    <2>1. Members(steps)' = Members(steps) /\ Members(deferred)' = Members(deferred)
          /\ Distinct(steps)' = Distinct(steps) /\ Distinct(deferred)' = Distinct(deferred)
        BY <1>1 DEF Members, Distinct
    <2>2. "nothing" \in Members(deferred) => pc' \notin {"snapshot", "services", "setup"}
        BY <1>1 DEF PlanShape, Members
    <2> QED
        BY <1>1, <2>1, <2>2 DEF PlanShape
<1>2. CASE Snapshot
    BY <1>1, <1>2 DEF Snapshot, PlanShape, animator
<1>3. CASE Prepare
    BY <1>1, <1>3 DEF Prepare, PlanShape
<1>4. CASE SetUp
    <2>1. CASE steps' = Tail(steps)
        <3>1. \/ UNCHANGED deferred
              \/ Head(steps) \in Calls /\ deferred' = <<Head(steps)>> \o deferred
            BY <1>4, <2>1 DEF SetUp, Calls, DaemonTypes, TypeOK
        <3>2. pc = "setup" /\ UNCHANGED <<o, pc>> /\ steps # <<>>
            BY <1>4, <2>1 DEF SetUp, DaemonTypes
        <3> QED
            BY <2>1, <3>1, <3>2, StepIsOver
    <2>2. CASE pc' = "unwind" /\ UNCHANGED <<steps, deferred>>
        BY <1>1, <1>4, <2>2 DEF SetUp
    <2> QED
        BY <1>4, <2>1, <2>2 DEF SetUp
<1>5. CASE StartTest
    <2>1. CASE steps' = Tail(steps) /\ UNCHANGED pc
        BY <1>5, <2>1, StepIsOver DEF StartTest, TestIndicator, Calls
    <2>2. CASE pc' = "unwind" /\ UNCHANGED <<steps, deferred>>
        BY <1>1, <1>5, <2>2 DEF StartTest
    <2> QED
        BY <1>5, <2>1, <2>2 DEF StartTest, TestIndicator
<1>6. CASE StartWorkers
    BY <1>6, CloseGivenUp
<1>7. CASE FirstResult \/ CloseSource \/ Join
    BY <1>1, <1>7 DEF FirstResult, CloseSource, Join
<1>8. CASE Unwind
    BY <1>8, CallIsMade DEF Unwind
<1>9. CASE Unwound \/ Cleanup \/ Restore
    BY <1>1, <1>9 DEF Unwound, Cleanup, Restore, PlanShape
<1>10. CASE (\E w \in Workers : WorkerEnds(w)) \/ TickerFires \/ Command \/ Signal \/ Toggle
    BY <1>1, <1>10 DEF WorkerEnds, TickerFires, Command, Signal, Toggle, PlanShape, main, animator
<1>11. CASE Animates
    BY <1>1, <1>11 DEF Animates, AnimatorStops, PlanShape, main
<1>12. CASE UNCHANGED vars
    BY <1>1, <1>12 DEF vars, main, animator, PlanShape
<1> QED
    BY <1>2, <1>3, <1>4, <1>5, <1>6, <1>7, <1>8, <1>9, <1>10, <1>11, <1>12 DEF Next, Main

\* What is opened is closed by its deferred call or after the workers' first
\* result, and an engine is closed when no worker runs any more.
LEMMA OpenInv == DaemonTypes /\ PlanShape /\ OpenShape /\ [Next]_vars => OpenShape'
<1> SUFFICES ASSUME DaemonTypes, PlanShape, OpenShape, [Next]_vars PROVE OpenShape'
    OBVIOUS
<1>1. /\ mic \in {"closed", "open"} /\ engine \in {"none", "open", "closed"}
      /\ worker \in [Workers -> {"none", "running", "returned", "taken"}]
      /\ mic = "open" => "mic" \in Members(deferred) \/ pc \in {"running", "close"}
      /\ engine = "open" => "engine" \in Members(deferred)
      /\ engine = "closed" => pc \in Down
      /\ pc \in Down => \A w \in Workers : worker[w] \in {"none", "taken"}
      /\ pc \in {"snapshot", "services", "setup"} => \A w \in Workers : worker[w] = "none"
    BY DEF DaemonTypes, TypeOK, OpenShape
<1>2. Members(deferred)' = Members(deferred')
    BY DEF Members
<1>3. ASSUME UNCHANGED <<mic, engine, worker, deferred>>,
             pc \in {"running", "close"} => pc' \in {"running", "close"},
             pc \in Down => pc' \in Down,
             pc' \in Down => pc \in Down \cup {"snapshot", "services", "setup"},
             pc' \in {"snapshot", "services", "setup"} => pc \in {"snapshot", "services", "setup"}
      PROVE  OpenShape'
    BY <1>1, <1>2, <1>3 DEF OpenShape
<1>4. CASE Snapshot \/ Prepare \/ (StartTest /\ UNCHANGED deferred)
    BY <1>3, <1>4 DEF Snapshot, Prepare, StartTest, TestIndicator, work, Down
<1>5. CASE SetUp
    <2>1. pc = "setup" /\ pc' \in {"setup", "unwind"} /\ UNCHANGED worker
        BY <1>5 DEF SetUp, work
    <2>2. CASE UNCHANGED <<deferred, engine, mic>>
        BY <1>3, <2>1, <2>2 DEF Down
    <2>3. CASE /\ steps' = Tail(steps) /\ UNCHANGED pc
               /\ deferred' = (IF Head(steps) \in {"engine", "mic"} \/ (Head(steps) = "led" /\ o.led)
                                THEN <<Head(steps)>> \o deferred ELSE deferred)
               /\ engine' = (IF Head(steps) = "engine" THEN "open" ELSE engine)
               /\ mic' = (IF Head(steps) = "mic" THEN "open" ELSE mic)
        <3>1. \/ UNCHANGED deferred /\ Head(steps) \notin {"engine", "mic"}
              \/ Head(steps) \in Calls /\ deferred' = <<Head(steps)>> \o deferred
            BY <2>3 DEF Calls
        <3>2. UNCHANGED o /\ steps # <<>>
            BY <1>5 DEF SetUp
        <3>3. \/ UNCHANGED deferred /\ Head(steps) \notin {"engine", "mic"}
              \/ Members(deferred') = {Head(steps)} \cup Members(deferred)
            BY <2>1, <2>3, <3>1, <3>2, StepIsOver
        <3>4. Members(deferred) \subseteq Members(deferred')
              /\ (Head(steps) \in {"engine", "mic"} => Head(steps) \in Members(deferred'))
            BY <3>3
        <3> QED
            BY <1>1, <1>2, <2>1, <2>3, <3>4 DEF OpenShape, Down
    <2> QED
        BY <1>5, <2>2, <2>3 DEF SetUp
<1>6. CASE StartTest /\ ~UNCHANGED deferred
    <2>1. /\ UNCHANGED <<mic, engine, worker, pc, o>> /\ pc = "setup" /\ steps # <<>> /\ Head(steps) = "test"
          /\ steps' = Tail(steps) /\ deferred' = <<"test">> \o deferred
        BY <1>6 DEF StartTest, TestIndicator, work
    <2>2. Members(deferred') = {"test"} \cup Members(deferred)
        BY <2>1, StepIsOver DEF Calls
    <2> QED
        BY <1>1, <1>2, <2>1, <2>2 DEF OpenShape, Down
<1>7. CASE StartWorkers
    <2>1. pc = "setup" /\ pc' = "running" /\ UNCHANGED <<mic, engine>>
        BY <1>7 DEF StartWorkers
    <2>2. "engine" \in Members(deferred') <=> "engine" \in Members(deferred)
        BY <1>7, CloseGivenUp
    <2> QED
        BY <1>1, <1>2, <2>1, <2>2 DEF OpenShape, Down
<1>8. CASE FirstResult
    BY <1>1, <1>2, <1>8 DEF FirstResult, Take, OpenShape, Down
<1>9. CASE CloseSource
    BY <1>1, <1>2, <1>9 DEF CloseSource, Closed, OpenShape, Down, work
<1>10. CASE Join
    BY <1>1, <1>2, <1>10 DEF Join, Take, OpenShape, Down
<1>11. CASE Unwind
    <2>1. /\ pc = "unwind" /\ pc' = "unwind" /\ UNCHANGED worker
          /\ engine' = (IF Head(deferred) = "engine" THEN "closed" ELSE engine)
          /\ mic' = (IF Head(deferred) = "mic" THEN Closed ELSE mic)
        BY <1>11 DEF Unwind, work
    <2>2. Members(deferred) = {Head(deferred)} \cup Members(deferred')
        BY <1>11, CallIsMade DEF Unwind
    <2>3. mic' = "open" => mic = "open" /\ Head(deferred) # "mic"
        BY <1>1, <2>1 DEF Closed
    <2> QED
        BY <1>1, <1>2, <2>1, <2>2, <2>3 DEF OpenShape, Down
<1>12. CASE Unwound \/ Cleanup \/ Restore
    BY <1>3, <1>12 DEF Unwound, Cleanup, Restore, work, Down
<1>13. CASE \E w \in Workers : WorkerEnds(w)
    <2> PICK w \in Workers : WorkerEnds(w)
        BY <1>13
    <2>1. worker[w] = "running" /\ worker' = [worker EXCEPT ![w] = "returned"]
          /\ UNCHANGED <<pc, deferred, mic, engine>>
        BY DEF WorkerEnds, main
    <2> QED
        BY <1>1, <1>2, <2>1 DEF OpenShape
<1>14. CASE Animates \/ TickerFires \/ Command \/ Signal \/ Toggle \/ UNCHANGED vars
    BY <1>3, <1>14 DEF Animates, TickerFires, Command, Signal, Toggle, vars, main, work, Down
<1> QED
    BY <1>4, <1>5, <1>6, <1>7, <1>8, <1>9, <1>10, <1>11, <1>12, <1>13, <1>14 DEF Next, Main

\* The GPIO is restored last, to what was read first.
LEMMA MuteInv == DaemonTypes /\ MuteShape /\ [Next]_vars => MuteShape'
<1> SUFFICES ASSUME DaemonTypes, MuteShape, [Next]_vars PROVE MuteShape'
    OBVIOUS
<1> USE DEF MuteShape, MuteIsRestored
<1>1. CASE Snapshot
    BY <1>1 DEF Snapshot, DaemonTypes
<1>2. CASE Prepare
    BY <1>2 DEF Prepare
<1>3. CASE SetUp \/ StartTest \/ StartWorkers
    BY <1>3 DEF SetUp, StartTest, TestIndicator, StartWorkers
<1>4. CASE FirstResult \/ CloseSource \/ Join \/ Unwind
    BY <1>4 DEF FirstResult, CloseSource, Join, Unwind
<1>5. CASE Unwound \/ Cleanup
    BY <1>5 DEF Unwound, Cleanup
<1>6. CASE Restore
    BY <1>6 DEF Restore, DaemonTypes
<1>7. CASE (\E w \in Workers : WorkerEnds(w)) \/ TickerFires \/ Command \/ Signal \/ UNCHANGED vars
    BY <1>7 DEF WorkerEnds, TickerFires, Command, Signal, vars, main, device, history
<1>8. CASE Animates
    <2>1. UNCHANGED <<o, pc, gpio, observed, claimed>>
        BY <1>8 DEF Animates, main
    <2>2. failed \subseteq failed'
        BY <1>8 DEF Animates, AnimatorStops, Writes, Fails
    <2> QED
        BY <2>1, <2>2
<1>9. CASE Toggle
    BY <1>9 DEF Toggle, Alive, main, history
<1> QED
    BY <1>1, <1>2, <1>3, <1>4, <1>5, <1>6, <1>7, <1>8, <1>9 DEF Next, Main

\* Device.WriteFrame of one device leaves the caches of the others.
LEMMA WritesOne ==
    ASSUME DaemonTypes, NEW d \in Devices, NEW frame \in {"lit", "dark"}, Writes(d, frame) \/ Fails(d, frame)
    PROVE  /\ \A e \in Devices \ {d} : cached'[e] = cached[e]
           /\ failed \subseteq failed'
           /\ \/ "ring" \in failed'
              \/ cached[d] = frame /\ cached'[d] = frame /\ UNCHANGED ring
              \/ ring' = frame /\ cached'[d] = frame
           /\ cached'[d] \in {cached[d], frame}
BY DEF Writes, Fails, DaemonTypes

\* The ring is dark when nothing will clear it any more, unless a write failed or
\* the animator had a frame in hand.
LEMMA RingInv == DaemonTypes /\ PlanShape /\ MuteShape /\ RingShape /\ [Next]_vars => RingShape'
<1> SUFFICES ASSUME DaemonTypes, PlanShape, MuteShape, RingShape, [Next]_vars PROVE RingShape'
    OBVIOUS
<1> DEFINE M == Members(deferred)
           Undone == Members(deferred')
           Staged == {"setup", "running", "close", "join", "unwind"}
<1>1. Members(deferred)' = Undone
    BY DEF Members
<1>2. /\ ticking <=> "led" \in M
      /\ ticking \/ late \/ ~InHand
      /\ "test" \in M => cached["test"] = "lit"
      /\ o.wakeOnly /\ ~o.file => anim = "none" /\ cached["animator"] = "nothing"
      /\ pc \in Staged /\ ~o.file => cached["prepare"] = "dark"
      /\ cached["prepare"] # "lit"
      /\ "ring" \in failed \/ cached["animator"] \in {"nothing", ring}
      /\ "ring" \in failed \/ (pc = "cleanup" /\ cached["prepare"] # "dark" =>
                                anim = "none" /\ cached["animator"] = "nothing")
      /\ "ring" \in failed \/ (claimed /\ Cleared /\ ~late => ring = "dark")
    BY DEF RingShape
<1>3. /\ ring \in {"lit", "dark"} /\ cached \in [Devices -> {"nothing", "lit", "dark"}]
      /\ ticking \in BOOLEAN /\ tick \in BOOLEAN /\ claimed \in BOOLEAN /\ late \in BOOLEAN
      /\ o.wakeOnly \in BOOLEAN /\ o.file \in BOOLEAN /\ o.led \in BOOLEAN
      /\ o.file => pc \notin {"snapshot", "services", "cleanup", "restore"}
    BY DEF DaemonTypes, TypeOK, Options
<1>4. \A c \in Members(steps) \cup M :
        (c = "test" => o.wakeOnly /\ ~o.file) /\ (c = "led" => ~o.wakeOnly \/ o.file)
    BY DEF PlanShape
<1> HIDE DEF M, Undone
<1>5. ASSUME UNCHANGED <<o, ring, cached, ticking, late, claimed, anim, tick>>,
             "led" \in Undone <=> "led" \in M, "test" \in Undone <=> "test" \in M,
             failed \subseteq failed',
             pc' \in Staged => pc \in Staged,
             pc' = "cleanup" /\ cached["prepare"] # "dark" => pc = "cleanup",
             pc = "services" => pc' = "services",
             pc = "cleanup" /\ cached["prepare"] # "dark" => pc' = "cleanup"
      PROVE  RingShape'
    <2>1. Cleared' => Cleared
        BY <1>1, <1>5 DEF Cleared, M
    <2>2. InHand' = InHand
        BY <1>5 DEF InHand
    <2> QED
        BY <1>1, <1>2, <1>5, <2>1, <2>2 DEF RingShape
<1>6. CASE UNCHANGED deferred
    <2>1. Undone = M
        BY <1>6 DEF Undone, M
    <2>2. CASE Snapshot
        <3>1. pc = "snapshot" /\ pc' \in {"services", "exit"}
              /\ UNCHANGED <<o, ring, cached, ticking, late, anim, tick, failed>>
            BY <2>2 DEF Snapshot, animator
        <3>2. pc' = "exit" => ~claimed'
            BY <2>2 DEF Snapshot, MuteShape
        <3>3. InHand' = InHand
            BY <3>1 DEF InHand
        <3>4. Cleared' => pc' = "exit"
            BY <3>1 DEF Cleared
        <3> QED
            BY <1>1, <1>2, <2>1, <3>1, <3>2, <3>3, <3>4 DEF RingShape
    <2>3. CASE Prepare
        <3>1. /\ pc = "services" /\ UNCHANGED <<o, ticking, late, claimed, anim, tick>>
              /\ cached = [d \in Devices |-> "nothing"] /\ anim = "none" /\ M = {}
            <4>1. deferred = <<>>
                BY <2>3 DEF Prepare, PlanShape
            <4> QED
                BY <2>3, <4>1 DEF Prepare, animator, PlanShape, M, Members
        <3>2. ~InHand' /\ ~InHand
            BY <3>1 DEF InHand
        <3>3. CASE Writes("prepare", "dark") /\ pc' = "setup"
            <4>1. ring' = "dark" /\ cached'["prepare"] = "dark" /\ cached'["animator"] = "nothing"
                  /\ UNCHANGED failed
                BY <3>1, <3>3 DEF Writes, Devices
            <4> QED
                BY <1>1, <1>2, <2>1, <3>1, <3>2, <3>3, <4>1 DEF RingShape
        <3>4. CASE Fails("prepare", "dark") /\ pc' = "cleanup"
            <4>1. "ring" \in failed' /\ UNCHANGED <<ring, cached>>
                BY <3>4 DEF Fails
            <4> QED
                BY <1>1, <1>2, <2>1, <3>1, <3>2, <3>4, <4>1 DEF RingShape
        <3>5. CASE pc' = "cleanup" /\ UNCHANGED <<ring, cached, failed>>
            <4>1. ~Cleared'
                BY <3>1, <3>5 DEF Cleared, Devices
            <4> QED
                BY <1>1, <1>2, <2>1, <3>1, <3>2, <3>5, <4>1 DEF RingShape, Devices
        <3> QED
            BY <2>3, <3>3, <3>4, <3>5 DEF Prepare
    <2>4. CASE FirstResult \/ CloseSource \/ Join \/ Restore
        BY <1>5, <2>1, <2>4 DEF FirstResult, CloseSource, Join, Restore, animator, device, history
    <2>5. CASE Unwound
        BY <1>2, <1>3, <1>5, <2>1, <2>5 DEF Unwound, animator, device, history
    <2>6. CASE Cleanup
        <3>1. /\ pc = "cleanup" /\ pc' = "restore" /\ UNCHANGED <<o, ticking, late, claimed, anim, tick>>
              /\ Writes("prepare", "dark") \/ Fails("prepare", "dark")
            BY <2>6 DEF Cleanup, animator
        <3>2. /\ cached'["animator"] = cached["animator"] /\ cached'["test"] = cached["test"]
              /\ failed \subseteq failed' /\ cached'["prepare"] # "lit"
              /\ \/ "ring" \in failed'
                 \/ cached["prepare"] = "dark" /\ UNCHANGED ring
                 \/ ring' = "dark"
            BY <1>2, <3>1, WritesOne DEF Devices
        <3>3. InHand' = InHand
            BY <3>1 DEF InHand
        <3>4. Cleared' /\ cached["prepare"] = "dark" => Cleared
            BY <1>1, <2>1, <3>1 DEF Cleared, M
        <3>5. "ring" \in failed' \/ cached'["animator"] \in {"nothing", ring'}
            BY <1>2, <1>3, <3>1, <3>2 DEF Writes, Fails
        <3>6. "ring" \in failed' \/ (claimed' /\ Cleared' /\ ~late' => ring' = "dark")
            BY <1>2, <3>1, <3>2, <3>4
        <3> QED
            BY <1>1, <1>2, <2>1, <3>1, <3>2, <3>3, <3>5, <3>6 DEF RingShape
    <2>7. CASE (\E w \in Workers : WorkerEnds(w)) \/ Command \/ Signal \/ Toggle \/ UNCHANGED vars
        BY <1>5, <2>1, <2>7 DEF WorkerEnds, Command, Signal, Toggle, vars, main, animator, device, history
    <2>8. CASE TickerFires
        <3>1. ticking /\ UNCHANGED <<o, pc, ring, cached, ticking, late, claimed, anim, failed>>
            BY <2>8 DEF TickerFires, main, device, history
        <3>2. Cleared' = Cleared
            BY <1>1, <2>1, <3>1 DEF Cleared, M
        <3> QED
            BY <1>1, <1>2, <2>1, <3>1, <3>2 DEF RingShape
    <2>9. CASE Animates
        <3>1. UNCHANGED <<o, pc, ticking, late, claimed>> /\ anim # "none" /\ failed \subseteq failed'
            BY <2>9 DEF Animates, AnimatorStops, main, Writes, Fails
        <3>2. cached'["test"] = cached["test"] /\ cached'["prepare"] = cached["prepare"]
            BY <1>3, <2>9 DEF Animates, AnimatorStops, Writes, Fails, Devices
        <3>3. Cleared' = Cleared
            BY <1>1, <2>1, <3>1, <3>2 DEF Cleared, M
        <3>4. ticking \/ late \/ ~InHand'
            BY <1>2, <2>9 DEF Animates, AnimatorStops, InHand
        <3>5. "ring" \in failed' \/ cached'["animator"] \in {"nothing", ring'}
            BY <1>2, <1>3, <2>9 DEF Animates, AnimatorStops, Writes, Fails, Devices
        <3>6. anim = "write" \/ UNCHANGED <<ring, cached, failed>>
            BY <2>9 DEF Animates, AnimatorStops
        <3>7. anim = "write" => ticking \/ late
            BY <1>2 DEF InHand
        <3>8. Cleared => ~ticking
            BY <1>2 DEF Cleared, M
        <3>9. "ring" \in failed' \/ (claimed' /\ Cleared' /\ ~late' => ring' = "dark")
            BY <1>2, <3>1, <3>3, <3>6, <3>7, <3>8
        <3>10. ~(o.wakeOnly /\ ~o.file)
            BY <1>2, <3>1
        <3>11. "ring" \in failed \/ ~(pc = "cleanup" /\ cached["prepare"] # "dark")
            BY <1>2, <3>1
        <3> QED
            BY <1>1, <1>2, <2>1, <3>1, <3>2, <3>4, <3>5, <3>9, <3>10, <3>11 DEF RingShape
    <2>10. CASE SetUp
        <3>1. pc = "setup" /\ pc' \in {"setup", "unwind"} /\ UNCHANGED <<o, ring, cached, tick, late, failed>>
            BY <2>10 DEF SetUp, device
        <3>2. UNCHANGED <<anim, ticking, claimed>>
            <4>1. CASE steps' = Tail(steps) /\ Head(steps) = "led" /\ o.led
                <5>1. deferred' = <<"led">> \o deferred
                    BY <2>10, <4>1 DEF SetUp
                <5> QED
                    BY <1>6, <5>1 DEF DaemonTypes, TypeOK, Calls
            <4>2. CASE ~(steps' = Tail(steps) /\ Head(steps) = "led" /\ o.led)
                BY <1>3, <2>10, <4>2 DEF SetUp
            <4> QED
                BY <4>1, <4>2
        <3> QED
            BY <1>5, <2>1, <3>1, <3>2
    <2>11. CASE StartTest
        <3>1. /\ pc = "setup" /\ pc' \in {"setup", "unwind"} /\ steps # <<>> /\ Head(steps) = "test"
              /\ UNCHANGED <<o, ticking, late, claimed, anim, tick>>
            BY <2>11 DEF StartTest, TestIndicator, animator
        <3>2. o.wakeOnly /\ ~o.file
            <4>1. "test" \in Members(steps)
                BY <3>1, TakeFirst DEF DaemonTypes
            <4> QED
                BY <1>4, <4>1
        <3>3. UNCHANGED cached /\ ("ring" \in failed' \/ (ring' = "dark" /\ UNCHANGED failed))
            <4>1. ~(deferred' = <<"test">> \o deferred)
                BY <1>6 DEF DaemonTypes, TypeOK, Calls
            <4> QED
                BY <2>11, <4>1 DEF StartTest, TestIndicator
        <3>4. InHand' = InHand
            BY <3>1 DEF InHand
        <3> QED
            BY <1>1, <1>2, <2>1, <3>1, <3>2, <3>3, <3>4 DEF RingShape
    <2>12. CASE StartWorkers
        <3>1. /\ pc = "setup" /\ pc' = "running" /\ UNCHANGED <<o, ring, cached, tick, late, claimed, failed, ticking>>
              /\ anim' = IF o.wakeOnly /\ ticking THEN "render" ELSE anim
            BY <2>12 DEF StartWorkers, device, history
        <3>2. ticking => ~o.wakeOnly \/ o.file
            BY <1>2, <1>4
        <3>3. ticking \/ InHand' = InHand
            BY <1>3, <3>1 DEF InHand
        <3>4. Cleared' = Cleared
            BY <1>1, <2>1, <3>1 DEF Cleared, M
        <3> QED
            BY <1>1, <1>2, <1>3, <2>1, <3>1, <3>2, <3>3, <3>4 DEF RingShape
    <2>13. ~Unwind
        <3> SUFFICES ASSUME Unwind PROVE FALSE
            OBVIOUS
        <3>1. Head(deferred) \notin Undone /\ Head(deferred) \in M
            BY CallIsMade DEF Unwind, Undone, M
        <3> QED
            BY <2>1, <3>1
    <2> QED
        BY <2>2, <2>3, <2>4, <2>5, <2>6, <2>7, <2>8, <2>9, <2>10, <2>11, <2>12, <2>13 DEF Next, Main
<1>7. CASE ~UNCHANGED deferred
    <2>1. CASE SetUp
        <3>1. /\ pc = "setup" /\ UNCHANGED <<o, pc, ring, cached, tick, late, failed>> /\ steps # <<>>
              /\ steps' = Tail(steps) /\ deferred' = <<Head(steps)>> \o deferred
              /\ Head(steps) \in {"engine", "mic"} \/ (Head(steps) = "led" /\ o.led)
              /\ anim' = (IF Head(steps) = "led" /\ o.led /\ ~o.wakeOnly THEN "render" ELSE anim)
              /\ ticking' = (ticking \/ (Head(steps) = "led" /\ o.led))
              /\ claimed' = (claimed \/ (Head(steps) = "led" /\ o.led))
            BY <1>7, <2>1 DEF SetUp, device
        <3>2. Undone = {Head(steps)} \cup M
            BY <3>1, StepIsOver DEF Undone, M, Calls
        <3>3. CASE Head(steps) \in {"engine", "mic"}
            BY <1>3, <1>5, <3>1, <3>2, <3>3
        <3>4. CASE Head(steps) = "led" /\ o.led
            <4>1. ticking' /\ "led" \in Undone /\ ("test" \in Undone <=> "test" \in M)
                BY <3>1, <3>2, <3>4
            <4>2. ~o.wakeOnly \/ o.file
                <5>1. "led" \in Members(steps)
                    BY <3>1, <3>4, TakeFirst DEF DaemonTypes
                <5> QED
                    BY <1>4, <5>1
            <4>3. ~Cleared'
                BY <1>1, <4>1 DEF Cleared
            <4> QED
                BY <1>1, <1>2, <3>1, <4>1, <4>2, <4>3 DEF RingShape
        <3> QED
            BY <3>1, <3>3, <3>4
    <2>2. CASE StartTest
        <3>1. /\ pc = "setup" /\ UNCHANGED <<o, pc, ticking, late, claimed, anim, tick, failed>>
              /\ steps # <<>> /\ Head(steps) = "test" /\ steps' = Tail(steps)
              /\ deferred' = <<"test">> \o deferred /\ cached' = [cached EXCEPT !["test"] = "lit"]
            BY <1>7, <2>2 DEF StartTest, TestIndicator, animator
        <3>2. Undone = {"test"} \cup M
            BY <3>1, StepIsOver DEF Undone, M, Calls
        <3>3. o.wakeOnly /\ ~o.file
            <4>1. "test" \in Members(steps)
                BY <3>1, TakeFirst DEF DaemonTypes
            <4> QED
                BY <1>4, <4>1
        <3>4. cached'["test"] = "lit" /\ cached'["animator"] = cached["animator"]
              /\ cached'["prepare"] = cached["prepare"]
            BY <1>3, <3>1 DEF Devices
        <3>5. InHand' = InHand
            BY <3>1 DEF InHand
        <3>6. ~Cleared'
            BY <1>1, <3>2 DEF Cleared
        <3> QED
            BY <1>1, <1>2, <3>1, <3>2, <3>3, <3>4, <3>5, <3>6 DEF RingShape
    <2>3. CASE StartWorkers
        <3>1. /\ pc = "setup" /\ pc' = "running"
              /\ UNCHANGED <<o, ring, cached, tick, late, claimed, failed, ticking>>
              /\ anim' = IF o.wakeOnly /\ ticking THEN "render" ELSE anim
            BY <2>3 DEF StartWorkers, device, history
        <3>2. \A c \in {"led", "test"} : c \in Undone <=> c \in M
            BY <2>3, CloseGivenUp DEF Undone, M
        <3>3. ticking => ~o.wakeOnly \/ o.file
            BY <1>2, <1>4
        <3>4. ticking \/ InHand' = InHand
            BY <1>3, <3>1 DEF InHand
        <3>5. Cleared' = Cleared
            BY <1>1, <3>1, <3>2 DEF Cleared, M
        <3> QED
            BY <1>1, <1>2, <1>3, <3>1, <3>2, <3>3, <3>4, <3>5 DEF RingShape
    <2>4. CASE Unwind
        <3>1. /\ pc = "unwind" /\ UNCHANGED <<o, pc, anim, tick, claimed>>
              /\ ticking' = (ticking /\ Head(deferred) # "led")
              /\ late' = (late \/ (Head(deferred) = "led" /\ InHand))
            BY <2>4 DEF Unwind, animator
        <3>2. M = {Head(deferred)} \cup Undone /\ Head(deferred) \notin Undone
            BY <2>4, CallIsMade DEF Unwind, M, Undone
        <3>3. InHand' = InHand
            BY <3>1 DEF InHand
        <3>4. CASE Head(deferred) = "led"
            <4>1. Writes("animator", "dark") \/ Fails("animator", "dark")
                BY <2>4, <3>4 DEF Unwind
            <4>2. /\ cached'["prepare"] = cached["prepare"] /\ cached'["test"] = cached["test"]
                  /\ failed \subseteq failed'
                  /\ "ring" \in failed' \/ (cached'["animator"] = "dark" /\ ring' = "dark")
                BY <1>2, <4>1, WritesOne DEF Devices
            <4>3. ~ticking' /\ (late' \/ ~InHand') /\ "led" \notin Undone /\ ("test" \in Undone => "test" \in M)
                BY <1>3, <3>1, <3>2, <3>3, <3>4
            <4>4. ~o.wakeOnly \/ o.file
                BY <1>4, <3>2, <3>4
            <4> QED
                BY <1>1, <1>2, <3>1, <4>2, <4>3, <4>4 DEF RingShape
        <3>5. CASE Head(deferred) = "test"
            <4>1. Writes("test", "dark") \/ Fails("test", "dark")
                BY <2>4, <3>5 DEF Unwind
            <4>2. /\ cached'["prepare"] = cached["prepare"] /\ cached'["animator"] = cached["animator"]
                  /\ failed \subseteq failed'
                  /\ "ring" \in failed' \/ ring' = "dark"
                BY <1>2, <3>2, <3>5, <4>1, WritesOne DEF Devices
            <4>3. ticking' = ticking /\ late' = late /\ "test" \notin Undone /\ ("led" \in Undone <=> "led" \in M)
                BY <1>3, <3>1, <3>2, <3>5
            <4>4. o.wakeOnly /\ ~o.file
                BY <1>4, <3>2, <3>5
            <4> QED
                BY <1>1, <1>2, <3>1, <3>3, <4>2, <4>3, <4>4 DEF RingShape
        <3>6. CASE Head(deferred) \notin {"led", "test"}
            <4>1. ticking' = ticking /\ late' = late
                BY <1>3, <3>1, <3>6
            <4>2. UNCHANGED <<ring, cached, failed>>
                BY <2>4, <3>6 DEF Unwind
            <4> QED
                BY <1>5, <3>1, <3>2, <3>6, <4>1, <4>2
        <3> QED
            BY <3>4, <3>5, <3>6
    <2>5. UNCHANGED deferred \/ SetUp \/ StartTest \/ StartWorkers \/ Unwind
        BY DEF Next, Main, Snapshot, Prepare, FirstResult, CloseSource, Join, Unwound, Cleanup, Restore,
               WorkerEnds, Animates, TickerFires, Command, Signal, Toggle, vars, main
    <2> QED
        BY <1>7, <2>1, <2>2, <2>3, <2>4, <2>5
<1> QED
    BY <1>6, <1>7

\* prepareDeviceStartup, runConnected, runWakeOnly, runWakeWorkers and the
\* animator: however setup, workers or cleanup fail and whenever the firmware
\* touches the GPIO, it is restored to what was found, the ring is left dark but
\* for the known cause, and nothing is left open.
THEOREM DaemonSafe == Spec => []DaemonInvariant
<1>1. ASSUME Init PROVE DaemonIInv
    <2>1. /\ o \in Options /\ steps = Setup(o) /\ deferred = <<>> /\ Members(deferred) = {}
          /\ o.wakeOnly \in BOOLEAN /\ o.file \in BOOLEAN
        BY <1>1 DEF Init, Members, Options
    <2>2. /\ Setup(o) \in Seq(Steps) /\ Distinct(Setup(o))
          /\ "test" \in Members(Setup(o)) => o.wakeOnly /\ ~o.file
          /\ "led" \in Members(Setup(o)) => ~o.wakeOnly \/ o.file
        BY <2>1, SetupShape
    <2>3. DaemonTypes
        <3>1. /\ gpio \in {"unexported", "0", "1"} /\ ring \in {"lit", "dark"} /\ observed = "none"
              /\ pc = (IF o.file THEN "setup" ELSE "snapshot") /\ mic = "closed" /\ engine = "none"
              /\ anim = "none" /\ hand = "dark" /\ want = "lit" /\ failed = {}
              /\ ticking = FALSE /\ tick = FALSE /\ claimed = FALSE /\ late = FALSE
            BY <1>1 DEF Init
        <3>2. cached \in [Devices -> {"nothing", "lit", "dark"}]
              /\ worker \in [Workers -> {"none", "running", "returned", "taken"}]
            BY <1>1 DEF Init
        <3>3. deferred \in Seq(Calls)
            BY <2>1
        <3>4. TypeOK
            BY <2>1, <3>1, <3>2, <3>3 DEF TypeOK
        <3> QED
            BY <2>1, <2>2, <3>1, <3>2, <3>4 DEF DaemonTypes, Down
    <2>4. PlanShape
        BY <1>1, <2>1, <2>2 DEF Init, PlanShape, Distinct
    <2>5. OpenShape /\ MuteShape
        BY <1>1 DEF Init, OpenShape, MuteShape, MuteIsRestored, Down
    <2>6. RingShape
        BY <1>1, <2>1 DEF Init, RingShape, InHand, Devices
    <2> QED
        BY <2>3, <2>4, <2>5, <2>6 DEF DaemonIInv
<1>2. DaemonIInv /\ [Next]_vars => DaemonIInv'
    BY DaemonTypesInv, PlanInv, OpenInv, MuteInv, RingInv DEF DaemonIInv
<1>3. ASSUME DaemonIInv PROVE DaemonInvariant
    <2>1. TypeOK /\ MuteIsRestored
        BY <1>3 DEF DaemonIInv, DaemonTypes, MuteShape
    <2>2. pc \in {"cleanup", "restore", "exit"} => Members(deferred) = {}
        BY <1>3 DEF DaemonIInv, PlanShape, Members
    <2>3. RingIsLeftDark
        BY <1>3, <2>2 DEF DaemonIInv, RingShape, Cleared, RingIsLeftDark
    <2>4. NothingIsLeftOpen
        BY <1>3, <2>2 DEF DaemonIInv, OpenShape, NothingIsLeftOpen, Down
    <2> QED
        BY <2>1, <2>3, <2>4 DEF DaemonInvariant
<1> QED
    BY <1>1, <1>2, <1>3, PTL DEF Spec

-----------------------------------------------------------------------------
(* Proofs: the networks.                                                   *)

\* The instance counts as the library does.
LEMMA CountsAlike ==
    ASSUME NEW S
    PROVE  /\ Wifi!Cardinality(S) = Cardinality(S)
           /\ Wifi!Ascending(S) = [k \in 1..Cardinality(S) |->
                                       CHOOSE i \in S : Cardinality({j \in S : j < i}) = k - 1]
    BY DEF Wifi!Cardinality, Wifi!Ascending, Cardinality

\* The numbers of a finite set in ascending order: each has a place, and one.
LEMMA RanksAre ==
    ASSUME NEW S \in SUBSET Nat, IsFiniteSet(S)
    PROVE  /\ Cardinality(S) \in Nat /\ Wifi!Ascending(S) \in [1..Cardinality(S) -> S]
           /\ \A i \in S : \E k \in 1..Cardinality(S) : Wifi!Ascending(S)[k] = i
           /\ \A k, l \in 1..Cardinality(S) : Wifi!Ascending(S)[k] = Wifi!Ascending(S)[l] => k = l
           /\ S # {} => \E i \in S : \A j \in S : j <= i
<1>1. PICK n \in Nat : Cardinality(S) = n
    BY FS_CardinalityType
<1> DEFINE Below(i) == {j \in S : j < i}
           r == [i \in S |-> Cardinality(Below(i))]
<1>2. ASSUME NEW i \in S PROVE IsFiniteSet(Below(i)) /\ Cardinality(Below(i)) \in 0..n - 1
    <2>1. PICK B : B = Below(i)
        OBVIOUS
    <2>2. B \in SUBSET S /\ i \notin B
        BY <2>1
    <2>3. IsFiniteSet(B) /\ Cardinality(B) <= n /\ Cardinality(B) # n
        BY <1>1, <2>2, FS_Subset
    <2>4. Cardinality(B) \in Nat
        BY <2>3, FS_CardinalityType
    <2>5. Cardinality(B) \in 0..n - 1
        BY <1>1, <2>3, <2>4
    <2> QED
        BY <2>1, <2>3, <2>5
<1>3. ASSUME NEW i \in S, NEW j \in S, i < j PROVE r[i] < r[j]
    <2>1. PICK B, C : B = Below(i) /\ C = Below(j)
        OBVIOUS
    <2>2. B \in SUBSET C /\ i \in C /\ i \notin B
        <3>1. i \in Nat /\ j \in Nat /\ ~(i < i)
            OBVIOUS
        <3>2. ASSUME NEW m \in S, m < i PROVE m < j
            <4>1. m \in Nat
                OBVIOUS
            <4> QED
                BY <1>3, <3>1, <3>2, <4>1
        <3>3. B \in SUBSET C
            BY <2>1, <3>2
        <3> QED
            BY <1>3, <2>1, <3>1, <3>3
    <2>3. IsFiniteSet(C) /\ Cardinality(C) \in Nat /\ Cardinality(B) \in Nat
        BY <1>2, <2>1
    <2>4. Cardinality(B) <= Cardinality(C) /\ Cardinality(B) # Cardinality(C)
        BY <2>2, <2>3, FS_Subset
    <2>5. Cardinality(B) < Cardinality(C)
        BY <2>3, <2>4
    <2> QED
        BY <2>1, <2>5
<1>4. \A i \in S : r[i] \in 0..n - 1
    BY <1>2
<1>5. r \in Injection(S, 0..n - 1)
    <2>1. r \in [S -> 0..n - 1]
        BY <1>4
    <2>2. ASSUME NEW i \in S, NEW j \in S, r[i] = r[j] PROVE i = j
        <3> HIDE DEF r
        <3>1. r[i] \in Int /\ r[j] \in Int
            BY <1>4
        <3>2. ~(i < j) /\ ~(j < i)
            BY <1>3, <2>2, <3>1
        <3> QED
            BY <3>2
    <2> HIDE DEF r
    <2> QED
        BY <2>1, <2>2 DEF Injection, IsInjective
<1>6. r \in Surjection(S, 0..n - 1)
    <2>1. IsFiniteSet(0..n - 1) /\ Cardinality(0..n - 1) = n
        <3>1. IsFiniteSet(0..n - 1) /\ Cardinality(0..n - 1) = IF 0 > n - 1 THEN 0 ELSE n - 1 - 0 + 1
            BY FS_Interval
        <3> QED
            BY <3>1
    <2> HIDE DEF r
    <2> QED
        BY <1>1, <1>5, <2>1, FS_Injection
<1>7. \A k \in 0..n - 1 : \E i \in S : r[i] = k
    <2> HIDE DEF r
    <2> QED
        BY <1>6 DEF Surjection
<1>8. ASSUME NEW k \in 1..n PROVE Wifi!Ascending(S)[k] \in S /\ r[Wifi!Ascending(S)[k]] = k - 1
    <2>1. PICK i \in S : Cardinality(Below(i)) = k - 1
        BY <1>7
    <2>2. Wifi!Ascending(S)[k] = CHOOSE e \in S : Cardinality(Below(e)) = k - 1
        BY <1>1, CountsAlike
    <2>3. Wifi!Ascending(S)[k] \in S /\ Cardinality(Below(Wifi!Ascending(S)[k])) = k - 1
        BY <2>1, <2>2
    <2> QED
        BY <2>3
<1>9. Wifi!Ascending(S) \in [1..n -> S]
    BY <1>1, <1>8, CountsAlike
<1>10. ASSUME NEW i \in S PROVE \E k \in 1..n : Wifi!Ascending(S)[k] = i
    <2>1. PICK k \in 1..n : r[i] = k - 1
        <3> HIDE DEF r
        <3>1. r[i] \in 0..n - 1
            BY <1>4
        <3>2. r[i] + 1 \in 1..n /\ r[i] = (r[i] + 1) - 1
            BY <3>1
        <3> QED
            BY <3>2
    <2>2. Wifi!Ascending(S)[k] \in S /\ r[Wifi!Ascending(S)[k]] = r[i]
        BY <1>8, <2>1
    <2> HIDE DEF r
    <2> QED
        BY <1>5, <2>2 DEF Injection, IsInjective
<1>11. ASSUME NEW k \in 1..n, NEW l \in 1..n, Wifi!Ascending(S)[k] = Wifi!Ascending(S)[l] PROVE k = l
    <2> HIDE DEF r
    <2>1. k - 1 = l - 1
        BY <1>8, <1>11
    <2> QED
        BY <2>1
<1>12. ASSUME S # {} PROVE \E i \in S : \A j \in S : j <= i
    <2> HIDE DEF r
    <2>1. n - 1 \in 0..n - 1
        BY <1>1, <1>12, FS_EmptySet
    <2>2. PICK i \in S : r[i] = n - 1
        BY <1>7, <2>1
    <2>3. ASSUME NEW j \in S, i < j PROVE FALSE
        <3>1. r[j] \in 0..n - 1 /\ n - 1 < r[j]
            BY <1>3, <1>4, <2>2, <2>3
        <3> QED
            BY <3>1
    <2>4. \A j \in S : i \in Nat /\ j \in Nat /\ ~(i < j)
        BY <2>3
    <2> QED
        BY <2>4
<1> QED
    BY <1>1, <1>9, <1>10, <1>11, <1>12

\* A finite set of numbers has a largest one.
LEMMA LargestIs ==
    ASSUME NEW S \in SUBSET Nat, IsFiniteSet(S), S # {}
    PROVE  Wifi!Max(S) \in Nat /\ Wifi!Max(S) + 1 \notin S
<1>1. PICK x \in S : \A y \in S : y <= x
    BY RanksAre
<1>2. PICK m \in S : Wifi!Max(S) = m /\ \A y \in S : m >= y
    <2>1. \A y \in S : x >= y
        BY <1>1
    <2> QED
        BY <2>1 DEF Wifi!Max
<1>3. m \in Nat /\ m + 1 \notin S
    BY <1>2
<1> QED
    BY <1>2, <1>3

\* What is saved are the networks that run.
LEMMA OrderedIs ==
    ASSUME NEW nets, DOMAIN nets \in SUBSET Nat, IsFiniteSet(DOMAIN nets), nets \in [DOMAIN nets -> Entry]
    PROVE  /\ Wifi!InOrder(nets) \in Seq(Entry)
           /\ \A k \in DOMAIN Wifi!InOrder(nets) : \E i \in DOMAIN nets : Wifi!InOrder(nets)[k] = nets[i]
           /\ \A i \in DOMAIN nets : \E k \in DOMAIN Wifi!InOrder(nets) : Wifi!InOrder(nets)[k] = nets[i]
           /\ \A name : Single(nets, name) => Single(Wifi!InOrder(nets), name)
<1>1. PICK S \in SUBSET Nat : DOMAIN nets = S
    OBVIOUS
<1>2. PICK n \in Nat : Cardinality(S) = n
    BY <1>1, FS_CardinalityType
<1>3. PICK a \in [1..n -> S] : Wifi!Ascending(S) = a
    BY <1>1, <1>2, RanksAre
<1>4. /\ \A i \in S : \E k \in 1..n : a[k] = i
      /\ \A k, l \in 1..n : a[k] = a[l] => k = l
    <2>1. IsFiniteSet(S)
        BY <1>1
    <2> QED
        BY <1>2, <1>3, <2>1, RanksAre
<1>5. PICK q : Wifi!InOrder(nets) = q
    OBVIOUS
<1>6. q = [k \in 1..n |-> nets[a[k]]]
    <2>1. DOMAIN a = 1..n
        OBVIOUS
    <2> QED
        BY <1>1, <1>3, <1>5, <2>1 DEF Wifi!InOrder
<1>7. \A k \in 1..n : nets[a[k]] \in Entry
    BY <1>1, <1>3
<1>8. q \in Seq(Entry) /\ DOMAIN q = 1..n
    <2>1. q \in [1..n -> Entry]
        BY <1>6, <1>7
    <2> QED
        BY <2>1
<1>9. \A k \in 1..n : q[k] = nets[a[k]] /\ a[k] \in S
    BY <1>6
<1>10. ASSUME NEW name, Single(nets, name) PROVE Single(q, name)
    <2>1. PICK i \in S : Wifi!Named(nets, name) = {i} /\ nets[i].key
        BY <1>1, <1>10 DEF Single
    <2>2. PICK k \in 1..n : a[k] = i
        BY <1>4
    <2>3. ASSUME NEW l \in 1..n PROVE q[l].ssid = name <=> l = k
        <3>1. nets[a[l]].ssid = name <=> a[l] = i
            BY <1>1, <1>9, <2>1 DEF Wifi!Named
        <3> QED
            BY <1>4, <1>9, <2>2, <3>1
    <2>4. Wifi!Named(q, name) = {k}
        BY <1>8, <2>3 DEF Wifi!Named
    <2>5. q[k].key
        BY <1>9, <2>1, <2>2
    <2> QED
        BY <1>8, <2>4, <2>5 DEF Single
<1> QED
    BY <1>1, <1>4, <1>5, <1>8, <1>9, <1>10

\* What runs after a restart is what was saved.
LEMMA NumberedIs ==
    ASSUME NEW s \in Seq(Entry)
    PROVE  /\ DOMAIN Wifi!Numbered(s) \in SUBSET Nat /\ IsFiniteSet(DOMAIN Wifi!Numbered(s))
           /\ Wifi!Numbered(s) \in [DOMAIN Wifi!Numbered(s) -> Entry]
           /\ \A i \in DOMAIN Wifi!Numbered(s) : i + 1 \in DOMAIN s /\ Wifi!Numbered(s)[i] = s[i + 1]
           /\ \A k \in DOMAIN s : k - 1 \in DOMAIN Wifi!Numbered(s) /\ Wifi!Numbered(s)[k - 1] = s[k]
           /\ \A name : Single(s, name) => Single(Wifi!Numbered(s), name)
<1>1. PICK n \in Nat : Len(s) = n
    OBVIOUS
<1>2. PICK f : Wifi!Numbered(s) = f
    OBVIOUS
<1>3. f = [i \in 0..n - 1 |-> s[i + 1]]
    BY <1>1, <1>2 DEF Wifi!Numbered
<1>4. DOMAIN f = 0..n - 1 /\ DOMAIN s = 1..n
    BY <1>1, <1>3
<1>5. IsFiniteSet(0..n - 1)
    BY FS_Interval
<1>6. \A i \in 0..n - 1 : i + 1 \in 1..n /\ f[i] = s[i + 1] /\ s[i + 1] \in Entry
    BY <1>1, <1>3
<1>7. f \in [0..n - 1 -> Entry]
    BY <1>3, <1>6
<1>8. ASSUME NEW k \in 1..n PROVE k - 1 \in 0..n - 1 /\ f[k - 1] = s[k]
    <2>1. k - 1 \in 0..n - 1 /\ (k - 1) + 1 = k
        OBVIOUS
    <2> QED
        BY <1>6, <2>1
<1>9. ASSUME NEW name, Single(s, name) PROVE Single(f, name)
    <2>1. PICK k \in 1..n : Wifi!Named(s, name) = {k} /\ s[k].key
        BY <1>4, <1>9 DEF Single
    <2>2. PICK j \in 0..n - 1 : k - 1 = j
        OBVIOUS
    <2>3. ASSUME NEW i \in 0..n - 1 PROVE f[i].ssid = name <=> i = j
        <3>1. s[i + 1].ssid = name <=> i + 1 = k
            BY <1>4, <1>6, <2>1 DEF Wifi!Named
        <3>2. i + 1 = k <=> i = j
            BY <2>2
        <3> QED
            BY <1>6, <3>1, <3>2
    <2>4. Wifi!Named(f, name) = {j}
        BY <1>4, <2>3 DEF Wifi!Named
    <2>5. f[j] = s[k]
        BY <1>8, <2>2
    <2> QED
        BY <1>4, <2>1, <2>4, <2>5 DEF Single
<1> QED
    BY <1>2, <1>4, <1>5, <1>6, <1>7, <1>8, <1>9

\* What the commands change of an entry.
LEMMA EntryChanges ==
    ASSUME NEW e \in Entry, NEW name \in Ssids, NEW b \in BOOLEAN
    PROVE  /\ [e EXCEPT !.ssid = name] \in Entry /\ [e EXCEPT !.ssid = name].ssid = name
           /\ [e EXCEPT !.ssid = name].key = e.key
           /\ [e EXCEPT !.key = TRUE] \in Entry /\ [e EXCEPT !.key = TRUE].ssid = e.ssid
           /\ [e EXCEPT !.key = TRUE].key
           /\ [e EXCEPT !.on = b] \in Entry /\ [e EXCEPT !.on = b].ssid = e.ssid
           /\ [e EXCEPT !.on = b].key = e.key
    BY DEF Entry

\* A command of configureNetwork is carried out or fails, and may fail though it
\* is carried out.
LEMMA ConfigureDoes ==
    ASSUME WifiTypes, NEW s \in Setters, Wifi!Configure(s)
    PROVE  /\ wpc[s] = "setup" /\ at[s] \in 1..6 /\ at' = [at EXCEPT ![s] = at[s] + 1] /\ mixed' = Wifi!Mixed(s)
           /\ UNCHANGED <<ssid, listed, nid, met, lost, first, made>>
           /\ \/ /\ wpc' = [wpc EXCEPT ![s] = "cleanup"] /\ UNCHANGED <<networks, saved>>
              \/ /\ \/ wpc' = [wpc EXCEPT ![s] = "cleanup"]
                    \/ wpc' = [wpc EXCEPT ![s] = IF at[s] = 6 THEN "ok" ELSE "setup"]
                 /\ \/ at[s] = 6 /\ saved' = Wifi!InOrder(networks) /\ UNCHANGED networks
                    \/ /\ at[s] # 6 /\ UNCHANGED saved /\ nid[s] \in DOMAIN networks
                       /\ Alike(networks, networks', nid[s])
                       /\ networks'[nid[s]].ssid = IF at[s] = 1 THEN ssid[s] ELSE networks[nid[s]].ssid
                       /\ at[s] = 3 => networks'[nid[s]].key
                       /\ at[s] # 3 => networks'[nid[s]].key = networks[nid[s]].key
<1>1. /\ wpc[s] = "setup" /\ at' = [at EXCEPT ![s] = at[s] + 1] /\ mixed' = Wifi!Mixed(s)
      /\ UNCHANGED <<ssid, listed, nid, met, lost, first, made>>
    BY DEF Wifi!Configure
<1>2. PICK n \in 1..6 : at[s] = n
    BY <1>1 DEF WifiTypes
<1>3. PICK i \in Nat : nid[s] = i
    BY DEF WifiTypes
<1>4. \/ wpc' = [wpc EXCEPT ![s] = "cleanup"] /\ UNCHANGED <<networks, saved>>
      \/ /\ \/ wpc' = [wpc EXCEPT ![s] = "cleanup"]
            \/ wpc' = [wpc EXCEPT ![s] = IF n = 6 THEN "ok" ELSE "setup"]
         /\ ~Wifi!Nameless(s) /\ Wifi!Do(Wifi!Setup[n], s)
    <2>1. Len(Wifi!Setup) = 6
        BY DEF Wifi!Setup
    <2> QED
        BY <1>2, <2>1 DEF Wifi!Configure, Wifi!Carried, Wifi!Refused, Wifi!Unanswered, Wifi!supplicant
<1>5. SUFFICES ASSUME ~Wifi!Nameless(s), Wifi!Do(Wifi!Setup[n], s)
               PROVE  \/ n = 6 /\ saved' = Wifi!InOrder(networks) /\ UNCHANGED networks
                      \/ /\ n # 6 /\ UNCHANGED saved /\ i \in DOMAIN networks
                         /\ Alike(networks, networks', i)
                         /\ networks'[i].ssid = IF n = 1 THEN ssid[s] ELSE networks[i].ssid
                         /\ n = 3 => networks'[i].key
                         /\ n # 3 => networks'[i].key = networks[i].key
    BY <1>1, <1>2, <1>3, <1>4
<1>6. /\ Wifi!Setup[1] = "ssid" /\ Wifi!Setup[2] = "scan_ssid" /\ Wifi!Setup[3] = "key" /\ Wifi!Setup[4] = "enable"
      /\ Wifi!Setup[5] = "select" /\ Wifi!Setup[6] = "save"
    BY DEF Wifi!Setup
<1>7. n # 6 => i \in DOMAIN networks
    BY <1>2, <1>3, <1>5, <1>6 DEF Wifi!Nameless
<1>8. networks \in [DOMAIN networks -> Entry] /\ ssid[s] \in Ssids
    BY DEF WifiTypes
<1>9. CASE n = 1
    <2>1. networks' = [networks EXCEPT ![i] = [networks[i] EXCEPT !.ssid = ssid[s]]] /\ UNCHANGED saved
        BY <1>3, <1>5, <1>6, <1>9 DEF Wifi!Do
    <2>2. PICK e \in Entry : networks[i] = e
        BY <1>7, <1>8, <1>9
    <2>3. PICK f \in Entry : [e EXCEPT !.ssid = ssid[s]] = f /\ f.ssid = ssid[s] /\ f.key = e.key
        BY <1>8, EntryChanges
    <2>4. networks' = [networks EXCEPT ![i] = f]
        BY <2>1, <2>2, <2>3
    <2>5. /\ DOMAIN networks' = DOMAIN networks /\ networks' \in [DOMAIN networks -> Entry] /\ networks'[i] = f
          /\ \A j \in DOMAIN networks : j # i => networks'[j] = networks[j]
        BY <1>7, <1>8, <1>9, <2>2, <2>4
    <2>6. Alike(networks, networks', i)
        BY <2>5 DEF Alike
    <2>7. networks'[i].ssid = f.ssid /\ networks'[i].key = f.key /\ networks[i].ssid = e.ssid /\ networks[i].key = e.key
        BY <2>2, <2>5
    <2> QED
        BY <1>7, <1>9, <2>1, <2>3, <2>6, <2>7
<1>10. CASE n = 2
    <2>1. networks' = networks /\ saved' = saved
        BY <1>5, <1>6, <1>10 DEF Wifi!Do, Wifi!supplicant
    <2> QED
        BY <1>7, <1>8, <1>10, <2>1 DEF Alike
<1>11. CASE n = 3
    <2>1. networks' = [networks EXCEPT ![i] = [networks[i] EXCEPT !.key = TRUE]] /\ UNCHANGED saved
        BY <1>3, <1>5, <1>6, <1>11 DEF Wifi!Do
    <2>2. PICK e \in Entry : networks[i] = e
        BY <1>7, <1>8, <1>11
    <2>3. PICK f \in Entry : [e EXCEPT !.key = TRUE] = f /\ f.ssid = e.ssid /\ f.key
        BY <1>8, EntryChanges
    <2>4. networks' = [networks EXCEPT ![i] = f]
        BY <2>1, <2>2, <2>3
    <2>5. /\ DOMAIN networks' = DOMAIN networks /\ networks' \in [DOMAIN networks -> Entry] /\ networks'[i] = f
          /\ \A j \in DOMAIN networks : j # i => networks'[j] = networks[j]
        BY <1>7, <1>8, <1>11, <2>2, <2>4
    <2>6. Alike(networks, networks', i)
        BY <2>5 DEF Alike
    <2>7. networks'[i].ssid = f.ssid /\ networks'[i].key = f.key /\ networks[i].ssid = e.ssid /\ networks[i].key = e.key
        BY <2>2, <2>5
    <2> QED
        BY <1>7, <1>11, <2>1, <2>3, <2>6, <2>7
<1>12. CASE n = 4
    <2>1. networks' = [networks EXCEPT ![i] = [networks[i] EXCEPT !.on = TRUE]] /\ UNCHANGED saved
        BY <1>3, <1>5, <1>6, <1>12 DEF Wifi!Do
    <2>2. PICK e \in Entry : networks[i] = e
        BY <1>7, <1>8, <1>12
    <2>3. PICK f \in Entry : [e EXCEPT !.on = TRUE] = f /\ f.ssid = e.ssid /\ f.key = e.key
        BY <1>8, EntryChanges
    <2>4. networks' = [networks EXCEPT ![i] = f]
        BY <2>1, <2>2, <2>3
    <2>5. /\ DOMAIN networks' = DOMAIN networks /\ networks' \in [DOMAIN networks -> Entry] /\ networks'[i] = f
          /\ \A j \in DOMAIN networks : j # i => networks'[j] = networks[j]
        BY <1>7, <1>8, <1>12, <2>2, <2>4
    <2>6. Alike(networks, networks', i)
        BY <2>5 DEF Alike
    <2>7. networks'[i].ssid = f.ssid /\ networks'[i].key = f.key /\ networks[i].ssid = e.ssid /\ networks[i].key = e.key
        BY <2>2, <2>5
    <2> QED
        BY <1>7, <1>12, <2>1, <2>3, <2>6, <2>7
<1>13. CASE n = 5
    <2>1. /\ networks' = [j \in DOMAIN networks |-> [networks[j] EXCEPT !.on = j = i]]
          /\ UNCHANGED saved
        BY <1>3, <1>5, <1>6, <1>13 DEF Wifi!Do
    <2>2. ASSUME NEW j \in DOMAIN networks
          PROVE  networks'[j] \in Entry /\ networks'[j].ssid = networks[j].ssid /\ networks'[j].key = networks[j].key
        <3>1. PICK e \in Entry : networks[j] = e
            BY <1>8
        <3>2. PICK b \in BOOLEAN : (j = i) = b
            OBVIOUS
        <3>3. networks'[j] = [e EXCEPT !.on = b]
            BY <2>1, <3>1, <3>2
        <3>4. [e EXCEPT !.on = b] \in Entry /\ [e EXCEPT !.on = b].ssid = e.ssid /\ [e EXCEPT !.on = b].key = e.key
            BY <1>8, EntryChanges
        <3> QED
            BY <3>1, <3>3, <3>4
    <2> QED
        BY <1>7, <1>8, <1>13, <2>1, <2>2 DEF Alike
<1>14. CASE n = 6
    BY <1>5, <1>6, <1>14 DEF Wifi!Do
<1> QED
    BY <1>9, <1>10, <1>11, <1>12, <1>13, <1>14

\* A network less.
LEMMA WithoutIs ==
    ASSUME WifiTypes, NEW i \in DOMAIN networks
    PROVE  /\ DOMAIN Wifi!Without(networks, i) = DOMAIN networks \ {i}
           /\ IsFiniteSet(DOMAIN networks \ {i})
           /\ Wifi!Without(networks, i) \in [DOMAIN networks \ {i} -> Entry]
           /\ \A j \in DOMAIN networks \ {i} : Wifi!Without(networks, i)[j] = networks[j]
<1>1. IsFiniteSet(DOMAIN networks) /\ networks \in [DOMAIN networks -> Entry]
    BY DEF WifiTypes
<1>2. IsFiniteSet(DOMAIN networks \ {i})
    BY <1>1, FS_RemoveElement
<1>3. \A j \in DOMAIN networks \ {i} : networks[j] \in Entry
    BY <1>1
<1> QED
    BY <1>2, <1>3 DEF Wifi!Without

\* A run looks for the networks of its name, or cannot.
LEMMA ListDoes ==
    ASSUME WifiTypes, NEW s \in Setters, Wifi!List(s)
    PROVE  /\ wpc[s] = "idle" /\ UNCHANGED <<networks, saved, ssid, nid, at, lost, first, mixed, made>>
           /\ met' = [t \in Setters |->
                          \/ met[t]
                          \/ t \in Wifi!Running /\ ssid[t] = ssid[s]
                          \/ t = s /\ \E u \in Wifi!Running : ssid[u] = ssid[s]]
           /\ \/ /\ wpc' = [wpc EXCEPT ![s] = "remove"] /\ listed' = [listed EXCEPT ![s] = listed'[s]]
                 /\ listed'[s] \in Seq(Nat)
                 /\ \A i \in Wifi!Named(networks, ssid[s]) : \E k \in DOMAIN listed'[s] : listed'[s][k] = i
                 /\ \A k \in DOMAIN listed'[s] :
                        /\ listed'[s][k] \in Wifi!Named(networks, ssid[s])
                        /\ \A l \in DOMAIN listed'[s] : listed'[s][k] = listed'[s][l] => k = l
              \/ wpc' = [wpc EXCEPT ![s] = "failed"] /\ UNCHANGED listed
<1>1. /\ wpc[s] = "idle" /\ UNCHANGED <<networks, saved, ssid, nid, at, lost, first, mixed, made>>
    BY DEF Wifi!List, Wifi!Refused, Wifi!supplicant, Wifi!Fails
<1>2. met' = [t \in Setters |-> \/ met[t]
                                \/ t \in Wifi!Running /\ ssid[t] = ssid[s]
                                \/ t = s /\ \E u \in Wifi!Running : ssid[u] = ssid[s]]
    <2>1. PICK others : others = {t \in Wifi!Running : ssid[t] = ssid[s]}
        OBVIOUS
    <2>2. met' = [t \in Setters |-> met[t] \/ t \in others \/ (t = s /\ others # {})]
        BY <2>1 DEF Wifi!List
    <2>3. others # {} <=> \E u \in Wifi!Running : ssid[u] = ssid[s]
        BY <2>1
    <2>4. \A t \in Setters : t \in others <=> t \in Wifi!Running /\ ssid[t] = ssid[s]
        BY <2>1
    <2> QED
        BY <2>2, <2>3, <2>4
<1>3. CASE wpc' = [wpc EXCEPT ![s] = "failed"] /\ UNCHANGED listed
    BY <1>1, <1>2, <1>3
<1>4. CASE /\ listed' = [listed EXCEPT ![s] = Wifi!Ascending({i \in DOMAIN networks : networks[i].ssid = ssid[s]})]
           /\ wpc' = [wpc EXCEPT ![s] = "remove"]
    <2>1. PICK S : S = Wifi!Named(networks, ssid[s])
        OBVIOUS
    <2>2. S \in SUBSET DOMAIN networks /\ S \in SUBSET Nat
        BY <2>1 DEF Wifi!Named, WifiTypes
    <2>3. IsFiniteSet(S)
        BY <2>2, FS_Subset DEF WifiTypes
    <2>9. PICK n \in Nat : Cardinality(S) = n
        BY <2>3, FS_CardinalityType
    <2>4. PICK a \in [1..n -> S] : Wifi!Ascending(S) = a
        BY <2>2, <2>3, <2>9, RanksAre
    <2>5. (\A i \in S : \E k \in 1..n : a[k] = i) /\ (\A k, l \in 1..n : a[k] = a[l] => k = l)
        BY <2>2, <2>3, <2>4, <2>9, RanksAre
    <2>6. listed' = [listed EXCEPT ![s] = a] /\ listed'[s] = a
        BY <1>4, <2>1, <2>4 DEF Wifi!Named, WifiTypes
    <2>7. a \in Seq(Nat) /\ DOMAIN a = 1..n
        <3>1. a \in [1..n -> Nat]
            BY <2>2
        <3> QED
            BY <3>1
    <2>8. /\ \A i \in Wifi!Named(networks, ssid[s]) : \E k \in DOMAIN a : a[k] = i
          /\ \A k \in DOMAIN a : /\ a[k] \in Wifi!Named(networks, ssid[s])
                                 /\ \A l \in DOMAIN a : a[k] = a[l] => k = l
        BY <2>1, <2>4, <2>5, <2>7
    <2> QED
        BY <1>1, <1>2, <1>4, <2>6, <2>7, <2>8
<1> QED
    BY <1>3, <1>4 DEF Wifi!List, Wifi!Fails

\* A run removes a network that it listed, or fails.
LEMMA RemoveDoes ==
    ASSUME WifiTypes, NEW s \in Setters, Wifi!RemoveListed(s)
    PROVE  /\ wpc[s] = "remove" /\ listed[s] # <<>> /\ listed' = [listed EXCEPT ![s] = Tail(listed[s])]
           /\ UNCHANGED <<saved, ssid, nid, at, lost, met, first, mixed, made>>
           /\ \/ /\ listed[s][1] \in DOMAIN networks /\ networks' = Wifi!Without(networks, listed[s][1])
                 /\ (UNCHANGED wpc \/ Wifi!Fails(s))
              \/ UNCHANGED networks /\ Wifi!Fails(s)
    BY DEF Wifi!RemoveListed, Wifi!Carried, Wifi!Refused, Wifi!Unanswered, Wifi!Removal, Wifi!Missing, Wifi!supplicant, WifiTypes

\* A run adds a network, or fails, and may fail though it has added one.
LEMMA AddDoes ==
    ASSUME WifiTypes, NEW s \in Setters, Wifi!Add(s)
    PROVE  /\ wpc[s] = "remove" /\ listed[s] = <<>> /\ UNCHANGED <<saved, ssid, listed, met, first, mixed>>
           /\ \/ Wifi!Fails(s) /\ UNCHANGED <<networks, nid, at, lost, made>>
              \/ \E new \in Nat \ DOMAIN networks :
                     /\ DOMAIN networks' = DOMAIN networks \cup {new}
                     /\ networks' \in [DOMAIN networks \cup {new} -> Entry]
                     /\ networks'[new].ssid = Wifi!Blank /\ ~networks'[new].key
                     /\ \A j \in DOMAIN networks : networks'[j] = networks[j]
                     /\ made' = [t \in Setters |-> IF t = s THEN {new} ELSE made[t] \ {new}]
                     /\ \/ /\ wpc' = [wpc EXCEPT ![s] = "setup"] /\ nid' = [nid EXCEPT ![s] = new]
                           /\ at' = [at EXCEPT ![s] = 1] /\ UNCHANGED lost
                        \/ Wifi!Fails(s) /\ lost' = [lost EXCEPT ![s] = TRUE] /\ UNCHANGED <<nid, at>>
<1>1. wpc[s] = "remove" /\ listed[s] = <<>> /\ UNCHANGED <<saved, ssid, listed, met, first, mixed>>
    BY DEF Wifi!Add, Wifi!Carried, Wifi!Refused, Wifi!Unanswered, Wifi!supplicant
<1>2. PICK new : new = IF DOMAIN networks = {} THEN 0 ELSE Wifi!Max(DOMAIN networks) + 1
    OBVIOUS
<1>3. new \in Nat \ DOMAIN networks
    <2>1. DOMAIN networks # {} => Wifi!Max(DOMAIN networks) \in Nat /\ Wifi!Max(DOMAIN networks) + 1 \notin DOMAIN networks
        BY LargestIs DEF WifiTypes
    <2> QED
        BY <1>2, <2>1
<1>4. PICK blank : blank = [ssid |-> Wifi!Blank, key |-> FALSE, on |-> FALSE]
    OBVIOUS
<1>5. blank \in Entry /\ blank.ssid = Wifi!Blank /\ ~blank.key
    BY <1>4 DEF Entry
<1> DEFINE After == [i \in DOMAIN networks \cup {new} |-> IF i = new THEN blank ELSE networks[i]]
<1>6. /\ DOMAIN After = DOMAIN networks \cup {new} /\ After \in [DOMAIN networks \cup {new} -> Entry]
      /\ After[new] = blank /\ \A j \in DOMAIN networks : After[j] = networks[j]
    <2>1. \A j \in DOMAIN networks : networks[j] \in Entry /\ j # new
        BY <1>3 DEF WifiTypes
    <2> QED
        BY <1>5, <2>1
<1>7. \/ Wifi!Fails(s) /\ UNCHANGED <<networks, nid, at, lost, made>>
      \/ /\ networks' = After /\ made' = [t \in Setters |-> IF t = s THEN {new} ELSE made[t] \ {new}]
         /\ \/ /\ wpc' = [wpc EXCEPT ![s] = "setup"] /\ nid' = [nid EXCEPT ![s] = new]
               /\ at' = [at EXCEPT ![s] = 1] /\ UNCHANGED lost
            \/ Wifi!Fails(s) /\ lost' = [lost EXCEPT ![s] = TRUE] /\ UNCHANGED <<nid, at>>
    BY <1>2, <1>4 DEF Wifi!Add, Wifi!Carried, Wifi!Refused, Wifi!Unanswered, Wifi!supplicant
<1> HIDE DEF After
<1>8. CASE Wifi!Fails(s) /\ UNCHANGED <<networks, nid, at, lost, made>>
    BY <1>1, <1>8
<1>9. CASE /\ networks' = After /\ made' = [t \in Setters |-> IF t = s THEN {new} ELSE made[t] \ {new}]
           /\ \/ /\ wpc' = [wpc EXCEPT ![s] = "setup"] /\ nid' = [nid EXCEPT ![s] = new]
                 /\ at' = [at EXCEPT ![s] = 1] /\ UNCHANGED lost
              \/ Wifi!Fails(s) /\ lost' = [lost EXCEPT ![s] = TRUE] /\ UNCHANGED <<nid, at>>
    <2>1. /\ DOMAIN networks' = DOMAIN networks \cup {new}
          /\ networks' \in [DOMAIN networks \cup {new} -> Entry]
          /\ networks'[new].ssid = Wifi!Blank /\ ~networks'[new].key
          /\ \A j \in DOMAIN networks : networks'[j] = networks[j]
        BY <1>5, <1>6, <1>9
    <2> QED
        BY <1>1, <1>3, <1>9, <2>1
<1> QED
    BY <1>7, <1>8, <1>9

\* A run that failed removes its network, or does not.
LEMMA CleanupDoes ==
    ASSUME WifiTypes, NEW s \in Setters, Wifi!Cleanup(s)
    PROVE  /\ wpc[s] = "cleanup" /\ Wifi!Fails(s) /\ UNCHANGED <<saved, ssid, listed, nid, at, met, first, mixed, made>>
           /\ \/ /\ nid[s] \in DOMAIN networks /\ networks' = Wifi!Without(networks, nid[s]) /\ UNCHANGED lost
              \/ nid[s] \notin DOMAIN networks /\ UNCHANGED <<networks, lost>>
              \/ UNCHANGED networks /\ lost' = [lost EXCEPT ![s] = TRUE]
    BY DEF Wifi!Cleanup, Wifi!Carried, Wifi!Refused, Wifi!Unanswered, Wifi!Removal, Wifi!Missing, Wifi!supplicant

\* The types of the supplicant and of the runs.
LEMMA WifiTypesKept ==
    ASSUME WifiTypes, [Wifi!Next]_(Wifi!vars)
    PROVE  WifiTypes'
<1> DEFINE Nets(nets) == /\ DOMAIN nets \in SUBSET Nat /\ IsFiniteSet(DOMAIN nets)
                         /\ nets \in [DOMAIN nets -> Entry]
           Runs == /\ wpc \in [Setters -> {"idle", "remove", "setup", "cleanup", "ok", "failed"}]
                   /\ ssid \in [Setters -> Ssids] /\ listed \in [Setters -> Seq(Nat)]
                   /\ nid \in [Setters -> Nat] /\ at \in [Setters -> 1..7]
                   /\ \A s \in Setters : wpc[s] = "setup" => at[s] # 7
                   /\ lost = [s \in Setters |-> lost[s]]
<1>1. Nets(networks) /\ saved \in Seq(Entry) /\ Runs
    BY DEF WifiTypes
<1>2. SUFFICES Nets(networks') /\ saved' \in Seq(Entry) /\ Runs'
    BY DEF WifiTypes
<1>3. ASSUME NEW i \in DOMAIN networks PROVE Nets(Wifi!Without(networks, i))
    <2>1. PICK w : Wifi!Without(networks, i) = w
        OBVIOUS
    <2>2. DOMAIN w = DOMAIN networks \ {i} /\ IsFiniteSet(DOMAIN networks \ {i})
          /\ w \in [DOMAIN networks \ {i} -> Entry]
        BY <2>1, WithoutIs
    <2>3. Nets(w)
        BY <1>1, <2>2
    <2> HIDE DEF Nets
    <2> QED
        BY <2>1, <2>3
<1>4. CASE \E s \in Setters : Wifi!List(s)
    <2>1. PICK s \in Setters : Wifi!List(s)
        BY <1>4
    <2>2. /\ UNCHANGED <<networks, saved, ssid, nid, at, lost>>
          /\ \/ /\ wpc' = [wpc EXCEPT ![s] = "remove"] /\ listed' = [listed EXCEPT ![s] = listed'[s]]
                /\ listed'[s] \in Seq(Nat)
             \/ wpc' = [wpc EXCEPT ![s] = "failed"] /\ UNCHANGED listed
        BY <2>1, ListDoes
    <2> QED
        BY <1>1, <2>2
<1>5. CASE \E s \in Setters : Wifi!RemoveListed(s)
    <2>1. PICK s \in Setters : Wifi!RemoveListed(s)
        BY <1>5
    <2>2. /\ listed[s] # <<>> /\ listed' = [listed EXCEPT ![s] = Tail(listed[s])]
          /\ UNCHANGED <<saved, ssid, nid, at, lost>>
          /\ UNCHANGED wpc \/ wpc' = [wpc EXCEPT ![s] = "failed"]
          /\ \/ listed[s][1] \in DOMAIN networks /\ networks' = Wifi!Without(networks, listed[s][1])
             \/ UNCHANGED networks
        BY <2>1, RemoveDoes DEF Wifi!Fails
    <2>3. Nets(networks')
        <3> HIDE DEF Nets
        <3> QED
            BY <1>1, <1>3, <2>2
    <2>4. listed' \in [Setters -> Seq(Nat)]
        <3>1. Tail(listed[s]) \in Seq(Nat)
            BY <1>1, <2>2
        <3> QED
            BY <1>1, <2>2, <3>1
    <2>5. Runs'
        BY <1>1, <2>2, <2>4
    <2> QED
        BY <1>1, <2>2, <2>3, <2>5
<1>6. CASE \E s \in Setters : Wifi!Add(s)
    <2>1. PICK s \in Setters : Wifi!Add(s)
        BY <1>6
    <2>2. /\ wpc[s] = "remove" /\ UNCHANGED <<saved, ssid, listed>>
          /\ \/ wpc' = [wpc EXCEPT ![s] = "failed"] /\ UNCHANGED <<networks, nid, at, lost>>
             \/ \E new \in Nat \ DOMAIN networks :
                    /\ DOMAIN networks' = DOMAIN networks \cup {new}
                    /\ networks' \in [DOMAIN networks \cup {new} -> Entry]
                    /\ \/ /\ wpc' = [wpc EXCEPT ![s] = "setup"] /\ nid' = [nid EXCEPT ![s] = new]
                          /\ at' = [at EXCEPT ![s] = 1] /\ UNCHANGED lost
                       \/ /\ wpc' = [wpc EXCEPT ![s] = "failed"]
                          /\ lost' = [lost EXCEPT ![s] = TRUE] /\ UNCHANGED <<nid, at>>
        BY <2>1, AddDoes DEF Wifi!Fails
    <2>3. CASE wpc' = [wpc EXCEPT ![s] = "failed"] /\ UNCHANGED <<networks, nid, at, lost>>
        BY <1>1, <2>2, <2>3
    <2>4. ASSUME NEW new \in Nat \ DOMAIN networks, DOMAIN networks' = DOMAIN networks \cup {new},
                 networks' \in [DOMAIN networks \cup {new} -> Entry]
          PROVE  Nets(networks')
        <3>1. IsFiniteSet(DOMAIN networks \cup {new})
            BY <1>1, FS_AddElement
        <3> QED
            BY <1>1, <2>4, <3>1
    <2>5. CASE \E new \in Nat \ DOMAIN networks :
                    /\ DOMAIN networks' = DOMAIN networks \cup {new}
                    /\ networks' \in [DOMAIN networks \cup {new} -> Entry]
                    /\ wpc' = [wpc EXCEPT ![s] = "setup"] /\ nid' = [nid EXCEPT ![s] = new]
                    /\ at' = [at EXCEPT ![s] = 1] /\ UNCHANGED lost
        <3>1. Nets(networks')
            BY <2>4, <2>5
        <3>2. Runs'
            BY <1>1, <2>2, <2>5
        <3> QED
            BY <1>1, <2>2, <3>1, <3>2
    <2>6. CASE \E new \in Nat \ DOMAIN networks :
                    /\ DOMAIN networks' = DOMAIN networks \cup {new}
                    /\ networks' \in [DOMAIN networks \cup {new} -> Entry]
                    /\ wpc' = [wpc EXCEPT ![s] = "failed"]
                    /\ lost' = [lost EXCEPT ![s] = TRUE] /\ UNCHANGED <<nid, at>>
        <3>1. Nets(networks')
            BY <2>4, <2>6
        <3>2. Runs'
            BY <1>1, <2>2, <2>6
        <3> QED
            BY <1>1, <2>2, <3>1, <3>2
    <2> HIDE DEF Nets, Runs
    <2> QED
        BY <2>2, <2>3, <2>5, <2>6
<1>7. CASE \E s \in Setters : Wifi!Configure(s)
    <2>1. PICK s \in Setters : Wifi!Configure(s)
        BY <1>7
    <2>2. /\ at[s] \in 1..6 /\ at' = [at EXCEPT ![s] = at[s] + 1]
          /\ UNCHANGED <<ssid, listed, nid, lost>>
          /\ \/ wpc' = [wpc EXCEPT ![s] = "cleanup"]
             \/ wpc' = [wpc EXCEPT ![s] = IF at[s] = 6 THEN "ok" ELSE "setup"]
        BY <2>1, ConfigureDoes
    <2>3. /\ UNCHANGED networks \/ Alike(networks, networks', nid[s])
          /\ UNCHANGED saved \/ saved' = Wifi!InOrder(networks)
        BY <2>1, ConfigureDoes
    <2>4. Nets(networks')
        BY <1>1, <2>3 DEF Alike
    <2>5. saved' \in Seq(Entry)
        <3>1. Wifi!InOrder(networks) \in Seq(Entry)
            BY <1>1, OrderedIs
        <3> QED
            BY <1>1, <2>3, <3>1
    <2>6. Runs'
        <3>1. at[s] + 1 \in 1..7 /\ (at[s] # 6 => at[s] + 1 # 7)
            BY <2>2
        <3>2. at' \in [Setters -> 1..7]
            BY <1>1, <2>2, <3>1
        <3>3. \A t \in Setters : wpc'[t] = "setup" => at'[t] # 7
            BY <1>1, <2>2, <3>1
        <3>4. wpc' \in [Setters -> {"idle", "remove", "setup", "cleanup", "ok", "failed"}]
            BY <1>1, <2>2
        <3> QED
            BY <1>1, <2>2, <3>2, <3>3, <3>4
    <2> QED
        BY <2>4, <2>5, <2>6
<1>8. CASE \E s \in Setters : Wifi!Cleanup(s)
    <2>1. PICK s \in Setters : Wifi!Cleanup(s)
        BY <1>8
    <2>2. /\ wpc' = [wpc EXCEPT ![s] = "failed"] /\ UNCHANGED <<saved, ssid, listed, nid, at>>
          /\ UNCHANGED lost \/ lost' = [lost EXCEPT ![s] = TRUE]
          /\ \/ nid[s] \in DOMAIN networks /\ networks' = Wifi!Without(networks, nid[s])
             \/ UNCHANGED networks
        BY <2>1, CleanupDoes DEF Wifi!Fails
    <2>3. Nets(networks')
        <3> HIDE DEF Nets
        <3> QED
            BY <1>1, <1>3, <2>2
    <2>4. Runs'
        BY <1>1, <2>2
    <2> QED
        BY <1>1, <2>2, <2>3, <2>4
<1>9. CASE Wifi!Restart
    <2>1. networks' = Wifi!Numbered(saved) /\ UNCHANGED <<saved, wpc, ssid, listed, nid, at, lost>>
        BY <1>9 DEF Wifi!Restart, Wifi!run
    <2>2. Nets(networks')
        BY <1>1, <2>1, NumberedIs
    <2> QED
        BY <1>1, <2>1, <2>2
<1>10. CASE UNCHANGED Wifi!vars
    BY <1>1, <1>10 DEF Wifi!vars, Wifi!supplicant, Wifi!run, Wifi!history
<1> HIDE DEF Nets, Runs
<1> QED
    BY <1>4, <1>5, <1>6, <1>7, <1>8, <1>9, <1>10 DEF Wifi!Next

\* A run that removes a network removes one of its name.
LEMMA RemoveLeaves ==
    ASSUME WifiTypes, RunShape, NEW s \in Setters, Wifi!RemoveListed(s)
    PROVE  LeavesOthers(s)
<1>1. PICK i : i = listed[s][1]
    OBVIOUS
<1>2. /\ wpc[s] = "remove" /\ listed[s] # <<>> /\ listed' = [listed EXCEPT ![s] = Tail(listed[s])]
      /\ UNCHANGED <<saved, ssid, nid, at, lost, met, first, mixed>>
      /\ UNCHANGED wpc \/ wpc' = [wpc EXCEPT ![s] = "failed"]
      /\ (i \in DOMAIN networks /\ networks' = Wifi!Without(networks, i)) \/ UNCHANGED networks
    BY <1>1, RemoveDoes DEF Wifi!Fails
<1>3. i \in DOMAIN networks => networks[i].ssid = ssid[s]
    <2>1. listed[s] \in Seq(Nat)
        BY DEF WifiTypes
    <2>2. 1 \in DOMAIN listed[s]
        BY <1>2, <2>1
    <2> QED
        BY <1>1, <1>2, <2>2 DEF RunShape, RunAt
<1>4. /\ \A j \in DOMAIN networks : Stays(j) \/ networks[j].ssid = ssid[s]
      /\ \A j \in DOMAIN networks' : Stays(j)
    <2>1. CASE UNCHANGED networks
        BY <2>1 DEF Stays
    <2>2. CASE i \in DOMAIN networks /\ networks' = Wifi!Without(networks, i)
        BY <1>3, <2>2 DEF Stays, Wifi!Without
    <2> QED
        BY <1>2, <2>1, <2>2
<1>5. s \in Wifi!Running /\ wpc'[s] # "idle" /\ \A t \in Setters \ {s} : wpc'[t] = wpc[t] /\ listed'[t] = listed[t]
    BY <1>2 DEF WifiTypes, Wifi!Running
<1> QED
    BY <1>2, <1>4, <1>5 DEF LeavesOthers

\* A network that is added is a new one, and has no name.
LEMMA AddLeaves ==
    ASSUME WifiTypes, NEW s \in Setters, Wifi!Add(s)
    PROVE  LeavesOthers(s)
<1>1. /\ wpc[s] = "remove" /\ UNCHANGED <<saved, ssid, listed, met, first, mixed>>
      /\ \/ wpc' = [wpc EXCEPT ![s] = "failed"] /\ UNCHANGED <<networks, nid, at, lost>>
         \/ \E new \in Nat \ DOMAIN networks :
                /\ DOMAIN networks' = DOMAIN networks \cup {new} /\ networks'[new].ssid = Wifi!Blank
                /\ \A j \in DOMAIN networks : networks'[j] = networks[j]
                /\ \/ /\ wpc' = [wpc EXCEPT ![s] = "setup"] /\ nid' = [nid EXCEPT ![s] = new]
                      /\ at' = [at EXCEPT ![s] = 1] /\ UNCHANGED lost
                   \/ wpc' = [wpc EXCEPT ![s] = "failed"] /\ lost' = [lost EXCEPT ![s] = TRUE] /\ UNCHANGED <<nid, at>>
    BY AddDoes DEF Wifi!Fails
<1>2. /\ \A j \in DOMAIN networks : Stays(j)
      /\ \A j \in DOMAIN networks' : Stays(j) \/ networks'[j].ssid = Wifi!Blank
    BY <1>1 DEF Stays
<1>3. s \in Wifi!Running /\ wpc'[s] # "idle" /\ \A t \in Setters \ {s} : wpc'[t] = wpc[t] /\ nid'[t] = nid[t] /\ at'[t] = at[t]
    BY <1>1 DEF WifiTypes, Wifi!Running
<1>4. \A t \in Setters : lost[t] => lost'[t]
    BY <1>1 DEF WifiTypes
<1> QED
    BY <1>1, <1>2, <1>3, <1>4 DEF LeavesOthers

\* A command of configureNetwork changes the run's own network.
LEMMA ConfigureLeaves ==
    ASSUME WifiTypes, RunShape, NEW s \in Setters, Wifi!Configure(s)
    PROVE  LeavesOthers(s)
<1>1. PICK i : i = nid[s]
    OBVIOUS
<1>2. /\ wpc[s] = "setup" /\ at' = [at EXCEPT ![s] = at[s] + 1] /\ mixed' = Wifi!Mixed(s)
      /\ UNCHANGED <<ssid, listed, nid, met, lost, first>>
      /\ \/ wpc' = [wpc EXCEPT ![s] = "cleanup"]
         \/ wpc' = [wpc EXCEPT ![s] = IF at[s] = 6 THEN "ok" ELSE "setup"]
      /\ \/ UNCHANGED <<networks, saved>>
         \/ saved' = Wifi!InOrder(networks) /\ UNCHANGED networks
         \/ /\ UNCHANGED saved /\ i \in DOMAIN networks /\ Alike(networks, networks', i)
            /\ networks'[i].ssid = ssid[s] \/ networks'[i].ssid = networks[i].ssid
    BY <1>1, ConfigureDoes
<1>3. s \in AtWork /\ networks[i].ssid \in {Wifi!Blank, ssid[s]}
    BY <1>1, <1>2 DEF RunShape, RunAt, AtWork
<1>4. /\ \A j \in DOMAIN networks : Stays(j) \/ j = i
      /\ \A j \in DOMAIN networks' : Stays(j) \/ networks'[j].ssid \in {Wifi!Blank, ssid[s]}
    <2>1. CASE UNCHANGED networks
        BY <2>1 DEF Stays
    <2>2. CASE /\ Alike(networks, networks', i)
               /\ networks'[i].ssid = ssid[s] \/ networks'[i].ssid = networks[i].ssid
        BY <1>3, <2>2 DEF Stays, Alike
    <2> QED
        BY <1>2, <2>1, <2>2
<1>5. s \in Wifi!Running /\ wpc'[s] # "idle" /\ \A t \in Setters \ {s} : wpc'[t] = wpc[t] /\ at'[t] = at[t]
    BY <1>2 DEF WifiTypes, Wifi!Running
<1>6. \A t \in Setters : (lost[t] => lost'[t]) /\ (mixed[t] => mixed'[t])
    BY <1>2 DEF Wifi!Mixed
<1> QED
    BY <1>1, <1>2, <1>3, <1>4, <1>5, <1>6 DEF LeavesOthers

\* cleanupNetwork removes the run's own network.
LEMMA CleanupLeaves ==
    ASSUME WifiTypes, NEW s \in Setters, Wifi!Cleanup(s)
    PROVE  LeavesOthers(s)
<1>1. PICK i : i = nid[s]
    OBVIOUS
<1>2. /\ wpc[s] = "cleanup" /\ wpc' = [wpc EXCEPT ![s] = "failed"]
      /\ UNCHANGED <<saved, ssid, listed, nid, at, met, first, mixed>>
      /\ UNCHANGED lost \/ lost' = [lost EXCEPT ![s] = TRUE]
      /\ (i \in DOMAIN networks /\ networks' = Wifi!Without(networks, i)) \/ UNCHANGED networks
    BY <1>1, CleanupDoes DEF Wifi!Fails
<1>3. /\ \A j \in DOMAIN networks : Stays(j) \/ j = i
      /\ \A j \in DOMAIN networks' : Stays(j)
    <2>1. CASE UNCHANGED networks
        BY <2>1 DEF Stays
    <2>2. CASE i \in DOMAIN networks /\ networks' = Wifi!Without(networks, i)
        BY <2>2 DEF Stays, Wifi!Without
    <2> QED
        BY <1>2, <2>1, <2>2
<1>4. s \in Wifi!Running /\ s \in AtWork /\ wpc'[s] # "idle" /\ \A t \in Setters \ {s} : wpc'[t] = wpc[t]
    BY <1>2 DEF WifiTypes, Wifi!Running, AtWork
<1>5. \A t \in Setters : lost[t] => lost'[t]
    BY <1>2 DEF WifiTypes
<1> QED
    BY <1>1, <1>2, <1>3, <1>4, <1>5 DEF LeavesOthers

\* The networks of a name that is not the run's own stay as they are.
LEMMA NamesStay ==
    ASSUME WifiTypes, RunShape, NEW s \in Setters, LeavesOthers(s), NEW name \in Ssids, name # ssid[s]
    PROVE  /\ Wifi!Named(networks', name) = Wifi!Named(networks, name)
           /\ \A j \in Wifi!Named(networks, name) : Stays(j)
           /\ Single(networks, name) => Single(networks', name)
           /\ Wifi!Joinable(networks, name) => Wifi!Joinable(networks', name)
<1>1. ASSUME NEW j \in DOMAIN networks, networks[j].ssid = name PROVE Stays(j)
    <2>1. name # Wifi!Blank
        BY SsidsAssumption
    <2>2. ~(s \in AtWork /\ j = nid[s])
        BY <1>1, <2>1 DEF RunShape, RunAt
    <2> QED
        BY <1>1, <2>2 DEF LeavesOthers
<1>2. ASSUME NEW j \in DOMAIN networks', networks'[j].ssid = name PROVE Stays(j)
    BY <1>2, SsidsAssumption DEF LeavesOthers
<1>3. Wifi!Named(networks', name) = Wifi!Named(networks, name)
    BY <1>1, <1>2 DEF Wifi!Named, Stays
<1>4. \A j \in Wifi!Named(networks, name) : Stays(j)
    BY <1>1 DEF Wifi!Named
<1>5. ASSUME Single(networks, name) PROVE Single(networks', name)
    <2>1. PICK j \in DOMAIN networks : Wifi!Named(networks, name) = {j} /\ networks[j].key
        BY <1>5 DEF Single
    <2>2. j \in DOMAIN networks' /\ networks'[j].key
        BY <1>4, <2>1 DEF Stays
    <2> QED
        BY <1>3, <2>1, <2>2 DEF Single
<1>6. ASSUME Wifi!Joinable(networks, name) PROVE Wifi!Joinable(networks', name)
    <2>1. PICK j \in DOMAIN networks : networks[j].ssid = name /\ networks[j].key
        BY <1>6 DEF Wifi!Joinable
    <2>2. j \in DOMAIN networks' /\ networks'[j].ssid = name /\ networks'[j].key
        BY <1>1, <2>1 DEF Stays
    <2> QED
        BY <2>2 DEF Wifi!Joinable
<1> QED
    BY <1>3, <1>4, <1>5, <1>6

\* The other runs have what they had.
LEMMA OthersStay ==
    ASSUME WifiTypes, RunShape, NameShape, NEW s \in Setters, LeavesOthers(s), NEW t \in Setters \ {s}
    PROVE  /\ RunAt(t)'
           /\ Only(t)' => NameAt(t)'
<1>1. /\ wpc'[t] = wpc[t] /\ listed'[t] = listed[t] /\ nid'[t] = nid[t] /\ at'[t] = at[t] /\ UNCHANGED ssid
      /\ s \in Wifi!Running /\ wpc'[s] # "idle"
    BY DEF LeavesOthers
<1>2. ssid[t] \in Ssids /\ ssid[s] \in Ssids
    BY DEF WifiTypes
<1>3. t \in Wifi!Running => ssid[t] # ssid[s]
    BY <1>1 DEF RunShape
<1>4. RunAt(t)'
    <2>1. RunAt(t)
        BY DEF RunShape
    <2>2. ASSUME wpc[t] = "remove", NEW k \in DOMAIN listed[t]
          PROVE  listed[t][k] \in DOMAIN networks' /\ networks'[listed[t][k]].ssid = ssid[t]
        <3>1. listed[t][k] \in Wifi!Named(networks, ssid[t])
            BY <2>1, <2>2 DEF RunAt, Wifi!Named
        <3>2. t \in Wifi!Running
            BY <2>2 DEF Wifi!Running
        <3>3. Stays(listed[t][k])
            BY <1>2, <1>3, <3>1, <3>2, NamesStay
        <3> QED
            BY <3>1, <3>3 DEF Stays, Wifi!Named
    <2>3. t \in AtWork => Stays(nid[t])
        <3>1. SUFFICES ASSUME t \in AtWork PROVE Stays(nid[t])
            OBVIOUS
        <3>2. t \in Wifi!Running /\ nid[t] \in DOMAIN networks /\ networks[nid[t]].ssid \in {Wifi!Blank, ssid[t]}
            BY <2>1, <3>1 DEF RunAt, AtWork, Wifi!Running
        <3>3. networks[nid[t]].ssid # ssid[s]
            BY <1>2, <1>3, <3>2, SsidsAssumption
        <3>4. ~(s \in AtWork /\ nid[t] = nid[s])
            BY <3>1 DEF RunShape
        <3> QED
            BY <3>2, <3>3, <3>4 DEF LeavesOthers
    <2>4. (t \in AtWork)' <=> t \in AtWork
        BY <1>1 DEF AtWork
    <2>5. wpc[t] = "setup" => t \in AtWork
        BY DEF AtWork
    <2>6. t \in AtWork \/ wpc[t] = "remove" => Wifi!Named(networks', ssid[t]) = Wifi!Named(networks, ssid[t])
        <3>1. t \in AtWork \/ wpc[t] = "remove" => t \in Wifi!Running
            BY DEF AtWork, Wifi!Running
        <3> QED
            BY <1>2, <1>3, <3>1, NamesStay
    <2> QED
        BY <1>1, <2>1, <2>2, <2>3, <2>4, <2>5, <2>6 DEF RunAt, Stays
<1>5. ASSUME Only(t)' PROVE NameAt(t)'
    <2>1. ssid[t] # ssid[s]
        BY <1>1, <1>5 DEF Only
    <2>2. Only(t)
        BY <1>1, <1>5 DEF Only, LeavesOthers
    <2>3. NameAt(t)
        BY <2>2 DEF NameShape
    <2>4. Single(networks, ssid[t]) => Single(networks', ssid[t])
        BY <1>2, <2>1, NamesStay
    <2>5. ASSUME Single(networks, ssid[t]), Single(saved, ssid[t]) PROVE Single(saved', ssid[t])
        <3>1. CASE UNCHANGED saved
            BY <2>5, <3>1
        <3>2. CASE saved' = Wifi!InOrder(networks)
            BY <2>5, <3>2, OrderedIs DEF WifiTypes
        <3> QED
            BY <3>1, <3>2 DEF LeavesOthers
    <2> QED
        BY <1>1, <2>3, <2>4, <2>5 DEF NameAt
<1> QED
    BY <1>4, <1>5

\* A run that has removed a network has those that follow yet to remove.
LEMMA RemoveOwn ==
    ASSUME WifiTypes, RunShape, NEW s \in Setters, Wifi!RemoveListed(s)
    PROVE  RunAt(s)' /\ NameAt(s)' /\ s \notin AtWork'
<1>1. PICK q \in Seq(Nat) : q = listed[s]
    BY DEF WifiTypes
<1>2. /\ wpc[s] = "remove" /\ q # <<>> /\ listed'[s] = Tail(q) /\ UNCHANGED ssid
      /\ wpc'[s] = "failed" \/ (wpc'[s] = "remove" /\ q[1] \in DOMAIN networks /\ networks' = Wifi!Without(networks, q[1]))
    BY <1>1, RemoveDoes DEF Wifi!Fails, WifiTypes
<1>3. CASE wpc'[s] = "failed"
    BY <1>3 DEF RunAt, NameAt, AtWork
<1>4. CASE wpc'[s] = "remove" /\ q[1] \in DOMAIN networks /\ networks' = Wifi!Without(networks, q[1])
    <2>1. PICK n \in Nat : Len(q) = n /\ n > 0
        <3>1. Len(q) \in Nat /\ (Len(q) = 0 => q = <<>>)
            OBVIOUS
        <3>2. Len(q) # 0
            BY <1>2, <3>1
        <3> QED
            BY <3>1, <3>2
    <2>2. PICK r \in Seq(Nat) : r = Tail(q)
        <3>1. q # <<>>
            BY <1>2
        <3>2. Tail(q) \in Seq(Nat)
            BY <3>1
        <3> QED
            BY <3>2
    <2>3. DOMAIN r = 1..n - 1 /\ DOMAIN q = 1..n /\ \A k \in 1..n - 1 : r[k] = q[k + 1]
        BY <1>2, <2>1, <2>2
    <2>4. RunAt(s)
        BY DEF RunShape
    <2>5. \A k \in 1..n : /\ q[k] \in DOMAIN networks /\ networks[q[k]].ssid = ssid[s]
                          /\ \A l \in 1..n : q[k] = q[l] => k = l
        BY <1>1, <1>2, <2>3, <2>4 DEF RunAt
    <2>6. ASSUME NEW k \in 1..n - 1
          PROVE  /\ r[k] \in DOMAIN networks' /\ networks'[r[k]].ssid = ssid[s]
                 /\ \A l \in 1..n - 1 : r[k] = r[l] => k = l
        <3>1. k + 1 \in 1..n /\ k + 1 # 1 /\ 1 \in 1..n
            BY <2>1
        <3>2. q[k + 1] # q[1] /\ q[k + 1] \in DOMAIN networks /\ networks[q[k + 1]].ssid = ssid[s]
            BY <2>5, <3>1
        <3>3. q[k + 1] \in DOMAIN networks' /\ networks'[q[k + 1]].ssid = ssid[s]
            BY <1>4, <3>2 DEF Wifi!Without
        <3>4. ASSUME NEW l \in 1..n - 1, r[k] = r[l] PROVE k = l
            <4>1. l + 1 \in 1..n /\ q[k + 1] = q[l + 1]
                <5>1. r[k] = q[k + 1] /\ r[l] = q[l + 1]
                    BY <2>3
                <5>2. l + 1 \in 1..n
                    BY <2>1
                <5> QED
                    BY <3>4, <5>1, <5>2
            <4>2. k + 1 = l + 1
                BY <2>5, <3>1, <4>1
            <4> QED
                BY <4>2
        <3> QED
            BY <2>3, <3>3, <3>4
    <2>7. ASSUME NEW i \in Wifi!Named(networks', ssid[s]) PROVE \E k \in 1..n - 1 : r[k] = i
        <3>1. i \in Wifi!Named(networks, ssid[s]) /\ i # q[1]
            BY <1>4 DEF Wifi!Named, Wifi!Without
        <3>2. PICK k \in 1..n : q[k] = i
            <4>1. \E k \in DOMAIN listed[s] : listed[s][k] = i
                BY <1>2, <2>4, <3>1 DEF RunAt
            <4> QED
                BY <1>1, <2>3, <4>1
        <3>3. PICK l \in 1..n - 1 : l + 1 = k
            <4>1. k # 1
                BY <3>1, <3>2
            <4>2. k - 1 \in 1..n - 1 /\ (k - 1) + 1 = k
                BY <2>1, <4>1
            <4> QED
                BY <4>2
        <3> QED
            BY <2>3, <3>2, <3>3
    <2>8. wpc'[s] = "remove" /\ listed'[s] = r /\ ssid' = ssid
        BY <1>2, <1>4, <2>2
    <2>9. s \notin AtWork' /\ NameAt(s)'
        BY <2>8 DEF AtWork, NameAt
    <2> QED
        BY <2>3, <2>6, <2>7, <2>8, <2>9 DEF RunAt
<1> QED
    BY <1>2, <1>3, <1>4

\* A run that has added a network has one that no other run sets up.
LEMMA AddOwn ==
    ASSUME WifiTypes, RunShape, NEW s \in Setters, Wifi!Add(s)
    PROVE  /\ RunAt(s)' /\ NameAt(s)'
           /\ s \in AtWork' => \A t \in AtWork : nid'[s] # nid[t]
<1>1. /\ wpc[s] = "remove" /\ listed[s] = <<>> /\ UNCHANGED ssid
      /\ \A t \in Setters \ {s} : wpc'[t] = wpc[t]
      /\ \/ wpc'[s] = "failed"
         \/ \E new \in Nat \ DOMAIN networks :
                /\ DOMAIN networks' = DOMAIN networks \cup {new} /\ networks'[new].ssid = Wifi!Blank
                /\ \A j \in DOMAIN networks : networks'[j] = networks[j]
                /\ wpc'[s] = "setup" /\ nid'[s] = new /\ at'[s] = 1
    <2>1. /\ wpc[s] = "remove" /\ listed[s] = <<>> /\ UNCHANGED ssid
          /\ \/ wpc' = [wpc EXCEPT ![s] = "failed"]
             \/ \E new \in Nat \ DOMAIN networks :
                    /\ DOMAIN networks' = DOMAIN networks \cup {new} /\ networks'[new].ssid = Wifi!Blank
                    /\ \A j \in DOMAIN networks : networks'[j] = networks[j]
                    /\ \/ /\ wpc' = [wpc EXCEPT ![s] = "setup"] /\ nid' = [nid EXCEPT ![s] = new]
                          /\ at' = [at EXCEPT ![s] = 1]
                       \/ wpc' = [wpc EXCEPT ![s] = "failed"]
        BY AddDoes DEF Wifi!Fails
    <2>2. CASE wpc' = [wpc EXCEPT ![s] = "failed"]
        BY <2>1, <2>2 DEF WifiTypes
    <2>3. ASSUME NEW new \in Nat \ DOMAIN networks, wpc' = [wpc EXCEPT ![s] = "setup"],
                 nid' = [nid EXCEPT ![s] = new], at' = [at EXCEPT ![s] = 1]
          PROVE  /\ wpc'[s] = "setup" /\ nid'[s] = new /\ at'[s] = 1
                 /\ \A t \in Setters \ {s} : wpc'[t] = wpc[t]
        BY <2>3 DEF WifiTypes
    <2> QED
        BY <2>1, <2>2, <2>3
<1>2. CASE wpc'[s] = "failed"
    BY <1>2 DEF RunAt, NameAt, AtWork
<1>3. CASE wpc'[s] = "setup"
    <2>1. PICK new \in Nat \ DOMAIN networks :
                /\ DOMAIN networks' = DOMAIN networks \cup {new} /\ networks'[new].ssid = Wifi!Blank
                /\ \A j \in DOMAIN networks : networks'[j] = networks[j]
                /\ nid'[s] = new /\ at'[s] = 1
        BY <1>1, <1>3
    <2>2. Wifi!Named(networks', ssid[s]) \subseteq {new}
        <3>1. Wifi!Named(networks, ssid[s]) = {}
            BY <1>1 DEF RunShape, RunAt
        <3> QED
            BY <2>1, <3>1 DEF Wifi!Named
    <2>3. RunAt(s)' /\ NameAt(s)'
        BY <1>1, <1>3, <2>1, <2>2 DEF RunAt, NameAt
    <2>4. \A t \in AtWork : nid[t] \in DOMAIN networks
        BY DEF RunShape, RunAt, AtWork
    <2> QED
        BY <2>1, <2>3, <2>4
<1> QED
    BY <1>1, <1>2, <1>3

\* A run that has set up its network has the only one of its name, with its key.
LEMMA ConfigureOwn ==
    ASSUME WifiTypes, RunShape, NEW s \in Setters, Wifi!Configure(s)
    PROVE  /\ RunAt(s)' /\ NameAt(s)'
           /\ s \in AtWork /\ nid'[s] = nid[s]
<1>1. PICK i : i = nid[s]
    OBVIOUS
<1>2. PICK n \in 1..6 : at[s] = n
    BY ConfigureDoes
<1>3. /\ wpc[s] = "setup" /\ at'[s] = n + 1 /\ UNCHANGED <<ssid, nid>>
      /\ \A t \in Setters \ {s} : wpc'[t] = wpc[t]
      /\ \/ wpc'[s] = "cleanup" /\ UNCHANGED networks
         \/ /\ wpc'[s] \in {"setup", "cleanup", "ok"} /\ (wpc'[s] = "setup" => n # 6) /\ (wpc'[s] = "ok" => n = 6)
            /\ \/ n = 6 /\ saved' = Wifi!InOrder(networks) /\ UNCHANGED networks
               \/ /\ n # 6 /\ i \in DOMAIN networks /\ Alike(networks, networks', i)
                  /\ networks'[i].ssid = IF n = 1 THEN ssid[s] ELSE networks[i].ssid
                  /\ n = 3 => networks'[i].key
                  /\ n # 3 => networks'[i].key = networks[i].key
    BY <1>1, <1>2, ConfigureDoes DEF WifiTypes
<1>4. /\ i \in DOMAIN networks /\ networks[i].ssid = IF n = 1 THEN Wifi!Blank ELSE ssid[s]
      /\ n >= 4 => networks[i].key
      /\ Wifi!Named(networks, ssid[s]) \subseteq {i} /\ s \in AtWork
    BY <1>1, <1>2, <1>3 DEF RunShape, RunAt, AtWork
<1>5. /\ i \in DOMAIN networks' /\ networks'[i].ssid \in {Wifi!Blank, ssid[s]}
      /\ wpc'[s] = "setup" => /\ networks'[i].ssid = ssid[s] /\ n + 1 # 1
                              /\ n + 1 >= 4 => networks'[i].key
    <2>1. n + 1 # 1 /\ (n + 1 >= 4 => n = 3 \/ n >= 4)
        OBVIOUS
    <2>2. wpc'[s] = "setup" => n # 6 /\ Alike(networks, networks', i)
        BY <1>3
    <2> QED
        BY <1>3, <1>4, <2>1, <2>2 DEF Alike
<1>6. Wifi!Named(networks', ssid[s]) \subseteq {i}
    <2>1. UNCHANGED networks \/ Alike(networks, networks', i)
        BY <1>3
    <2> QED
        BY <1>4, <2>1 DEF Alike, Wifi!Named
<1>7. RunAt(s)'
    <2>1. wpc'[s] # "remove"
        BY <1>3
    <2> QED
        BY <1>1, <1>3, <1>5, <1>6, <2>1 DEF RunAt
<1>8. NameAt(s)'
    <2>1. ASSUME wpc'[s] = "ok" PROVE Single(networks', ssid[s]) /\ Single(saved', ssid[s])
        <3>1. n = 6 /\ saved' = Wifi!InOrder(networks) /\ UNCHANGED networks
            BY <1>3, <2>1
        <3>2. networks[i].ssid = ssid[s] /\ networks[i].key
            BY <1>4, <3>1
        <3>3. Wifi!Named(networks, ssid[s]) = {i}
            BY <1>4, <3>2 DEF Wifi!Named
        <3>4. Single(networks, ssid[s])
            BY <1>4, <3>2, <3>3 DEF Single
        <3>5. Single(Wifi!InOrder(networks), ssid[s])
            BY <3>4, OrderedIs DEF WifiTypes
        <3> QED
            BY <3>1, <3>4, <3>5
    <2> QED
        BY <1>3, <2>1 DEF NameAt
<1> QED
    BY <1>3, <1>4, <1>7, <1>8

\* A run that has cleaned up is over.
LEMMA CleanupOwn ==
    ASSUME WifiTypes, NEW s \in Setters, Wifi!Cleanup(s)
    PROVE  RunAt(s)' /\ NameAt(s)' /\ s \notin AtWork'
    BY CleanupDoes DEF Wifi!Fails, WifiTypes, RunAt, NameAt, AtWork

\* The runs after a step of one.
LEMMA RunsKept ==
    ASSUME WifiTypes, RunShape, NameShape, NEW s \in Setters,
           Wifi!RemoveListed(s) \/ Wifi!Add(s) \/ Wifi!Configure(s) \/ Wifi!Cleanup(s)
    PROVE  LeavesOthers(s) /\ RunShape' /\ NameShape'
<1>1. LeavesOthers(s)
    BY RemoveLeaves, AddLeaves, ConfigureLeaves, CleanupLeaves
<1>2. /\ RunAt(s)' /\ NameAt(s)'
      /\ s \in AtWork' => (\A t \in AtWork \ {s} : nid'[s] # nid[t])
    <2>1. CASE Wifi!RemoveListed(s)
        BY <2>1, RemoveOwn
    <2>2. CASE Wifi!Add(s)
        BY <2>2, AddOwn
    <2>3. CASE Wifi!Configure(s)
        <3>1. \A t \in AtWork \ {s} : s \in AtWork => nid[s] # nid[t]
            BY DEF RunShape
        <3> QED
            BY <2>3, <3>1, ConfigureOwn
    <2>4. CASE Wifi!Cleanup(s)
        BY <2>4, CleanupOwn
    <2> QED
        BY <2>1, <2>2, <2>3, <2>4
<1>3. \A t \in Setters \ {s} : RunAt(t)' /\ (Only(t)' => NameAt(t)')
    BY <1>1, OthersStay
<1>4. \A t, u \in Wifi!Running' : ssid'[t] = ssid'[u] => t = u
    <2>1. Wifi!Running' \subseteq Wifi!Running /\ UNCHANGED ssid
        BY <1>1 DEF LeavesOthers, Wifi!Running
    <2> QED
        BY <2>1 DEF RunShape
<1>5. \A t, u \in AtWork' : nid'[t] = nid'[u] => t = u
    <2>1. \A t \in Setters \ {s} : nid'[t] = nid[t] /\ (t \in AtWork' => t \in AtWork)
        BY <1>1 DEF LeavesOthers, AtWork
    <2>2. AtWork' \subseteq Setters
        BY DEF AtWork
    <2> QED
        BY <1>2, <2>1, <2>2 DEF RunShape
<1> QED
    BY <1>1, <1>2, <1>3, <1>4, <1>5 DEF RunShape, NameShape

\* Nothing is half set up after a step of a run.
LEMMA HalfKept ==
    ASSUME WifiTypes, RunShape, NameShape, HalfShape, NEW s \in Setters,
           Wifi!RemoveListed(s) \/ Wifi!Add(s) \/ Wifi!Configure(s) \/ Wifi!Cleanup(s)
    PROVE  HalfShape'
<1>1. LeavesOthers(s)
    BY RunsKept
<1>2. Explained => Explained'
    BY <1>1 DEF LeavesOthers, Explained
<1>3. SUFFICES ASSUME ~Explained'
               PROVE  /\ \A i \in DOMAIN networks' : networks'[i].key \/ \E t \in AtWork' : nid'[t] = i
                      /\ \A i \in DOMAIN saved' : saved'[i].key
    BY DEF HalfShape
<1>4. /\ \A i \in DOMAIN networks : networks[i].key \/ \E t \in AtWork : nid[t] = i
      /\ \A i \in DOMAIN saved : saved[i].key
    BY <1>2, <1>3 DEF HalfShape
<1>5. ASSUME NEW t \in AtWork \ {s} PROVE t \in AtWork' /\ nid'[t] = nid[t]
    BY <1>1 DEF LeavesOthers, AtWork
<1>6. CASE Wifi!RemoveListed(s)
    <2>1. /\ wpc[s] = "remove" /\ UNCHANGED <<saved, nid>>
          /\ networks' = Wifi!Without(networks, listed[s][1]) \/ UNCHANGED networks
        BY <1>6, RemoveDoes
    <2>2. \A i \in DOMAIN networks' : i \in DOMAIN networks /\ networks'[i] = networks[i]
        BY <2>1 DEF Wifi!Without
    <2>3. s \notin AtWork
        BY <2>1 DEF AtWork
    <2> QED
        BY <1>4, <1>5, <2>1, <2>2, <2>3
<1>7. CASE Wifi!Add(s)
    <2>1. wpc[s] = "remove" /\ UNCHANGED saved
        BY <1>7, AddDoes
    <2>2. s \notin AtWork
        BY <2>1 DEF AtWork
    <2>3. CASE UNCHANGED networks
        BY <1>4, <1>5, <2>1, <2>2, <2>3
    <2>4. ASSUME NEW new \in Nat \ DOMAIN networks, DOMAIN networks' = DOMAIN networks \cup {new},
                 \A j \in DOMAIN networks : networks'[j] = networks[j],
                 wpc' = [wpc EXCEPT ![s] = "setup"], nid' = [nid EXCEPT ![s] = new],
                 NEW i \in DOMAIN networks'
          PROVE  networks'[i].key \/ \E t \in AtWork' : nid'[t] = i
        <3>1. s \in AtWork' /\ nid'[s] = new
            BY <2>4 DEF AtWork, WifiTypes
        <3>2. CASE i = new
            BY <3>1, <3>2
        <3>3. CASE i # new
            <4>1. i \in DOMAIN networks /\ networks'[i] = networks[i]
                BY <2>4, <3>3
            <4> QED
                BY <1>4, <1>5, <2>2, <4>1
        <3> QED
            BY <3>2, <3>3
    <2>5. ~(lost' = [lost EXCEPT ![s] = TRUE])
        BY <1>3 DEF Explained, WifiTypes
    <2>6. \/ UNCHANGED networks
          \/ \E new \in Nat \ DOMAIN networks :
                 /\ DOMAIN networks' = DOMAIN networks \cup {new}
                 /\ \A j \in DOMAIN networks : networks'[j] = networks[j]
                 /\ wpc' = [wpc EXCEPT ![s] = "setup"] /\ nid' = [nid EXCEPT ![s] = new]
        BY <1>7, <2>5, AddDoes
    <2>7. \A i \in DOMAIN networks' : networks'[i].key \/ \E t \in AtWork' : nid'[t] = i
        BY <1>4, <1>5, <2>2, <2>3, <2>4, <2>6
    <2> QED
        BY <1>4, <2>1, <2>7
<1>8. CASE Wifi!Configure(s)
    <2>1. PICK n \in 1..6 : at[s] = n
        BY <1>8, ConfigureDoes
    <2>2. /\ wpc[s] = "setup" /\ mixed' = Wifi!Mixed(s) /\ UNCHANGED nid
          /\ \/ wpc'[s] \in {"setup", "cleanup"}
             \/ n = 6
          /\ \/ UNCHANGED <<networks, saved>>
             \/ n = 6 /\ saved' = Wifi!InOrder(networks) /\ UNCHANGED networks
             \/ n # 6 /\ UNCHANGED saved /\ Alike(networks, networks', nid[s])
        BY <1>8, <2>1, ConfigureDoes DEF WifiTypes
    <2>3. s \in AtWork /\ (n = 6 => networks[nid[s]].key)
        BY <2>1, <2>2 DEF RunShape, RunAt, AtWork
    <2>4. ASSUME NEW i \in DOMAIN networks' PROVE networks'[i].key \/ \E t \in AtWork' : nid'[t] = i
        <3>1. i \in DOMAIN networks /\ (i # nid[s] => networks'[i].key = networks[i].key)
              /\ (n = 6 => networks'[i].key = networks[i].key)
            BY <2>2 DEF Alike
        <3>2. CASE i = nid[s]
            <4>1. n # 6 => s \in AtWork'
                BY <2>2, <2>3 DEF AtWork
            <4> QED
                BY <2>2, <2>3, <3>1, <3>2, <4>1
        <3>3. CASE i # nid[s]
            <4>1. networks[i].key \/ \E t \in AtWork \ {s} : nid[t] = i
                BY <1>4, <3>1, <3>3
            <4> QED
                BY <1>5, <3>1, <3>3, <4>1
        <3> QED
            BY <3>2, <3>3
    <2>5. ASSUME NEW k \in DOMAIN saved', ~saved'[k].key PROVE FALSE
        <3>1. saved' # saved /\ saved' = Wifi!InOrder(networks)
            BY <1>4, <2>2, <2>5
        <3>2. PICK i \in DOMAIN networks : saved'[k] = networks[i]
            BY <2>5, <3>1, OrderedIs DEF WifiTypes
        <3>3. PICK t \in AtWork : nid[t] = i
            BY <1>4, <2>5, <3>2
        <3>4. t # s /\ t \in Setters /\ wpc[t] \notin {"idle", "ok"}
            BY <2>2, <2>3, <2>5, <3>1, <3>2, <3>3 DEF AtWork
        <3>5. ~Wifi!Joinable(networks, ssid[t])
            <4>1. Wifi!Named(networks, ssid[t]) \subseteq {i}
                BY <3>3 DEF RunShape, RunAt, AtWork
            <4> QED
                BY <2>5, <3>2, <4>1 DEF Wifi!Joinable, Wifi!Named
        <3>6. mixed'[t]
            BY <2>2, <3>1, <3>4, <3>5 DEF Wifi!Mixed
        <3> QED
            BY <1>3, <3>4, <3>6 DEF Explained
    <2> QED
        BY <2>4, <2>5
<1>9. CASE Wifi!Cleanup(s)
    <2>1. /\ wpc[s] = "cleanup" /\ UNCHANGED <<saved, nid>>
          /\ \/ nid[s] \in DOMAIN networks /\ networks' = Wifi!Without(networks, nid[s])
             \/ nid[s] \notin DOMAIN networks /\ UNCHANGED networks
             \/ lost' = [lost EXCEPT ![s] = TRUE]
        BY <1>9, CleanupDoes
    <2>2. ~(lost' = [lost EXCEPT ![s] = TRUE])
        BY <1>3 DEF Explained, WifiTypes
    <2>3. nid[s] \in DOMAIN networks
        BY <2>1 DEF RunShape, RunAt, AtWork
    <2>4. \A i \in DOMAIN networks' : i \in DOMAIN networks /\ i # nid[s] /\ networks'[i] = networks[i]
        BY <2>1, <2>2, <2>3 DEF Wifi!Without
    <2> QED
        BY <1>4, <1>5, <2>1, <2>4
<1> QED
    BY <1>6, <1>7, <1>8, <1>9

\* What a step of a run does to its own name: it goes on or fails, and leaves what
\* is saved, or it saves its network.
LEMMA OwnName ==
    ASSUME WifiTypes, RunShape, NEW s \in Setters,
           Wifi!RemoveListed(s) \/ Wifi!Add(s) \/ Wifi!Configure(s) \/ Wifi!Cleanup(s)
    PROVE  \/ UNCHANGED saved /\ wpc'[s] \notin {"idle", "ok"}
           \/ Wifi!Joinable(networks', ssid[s]) /\ Wifi!Joinable(saved', ssid[s])
<1>1. CASE Wifi!RemoveListed(s)
    BY <1>1, RemoveDoes DEF Wifi!Fails, WifiTypes
<1>2. CASE Wifi!Add(s)
    BY <1>2, AddDoes DEF Wifi!Fails, WifiTypes
<1>3. CASE Wifi!Configure(s)
    <2>1. PICK n \in 1..6 : at[s] = n
        BY <1>3, ConfigureDoes
    <2>2. /\ wpc[s] = "setup"
          /\ \/ wpc'[s] \in {"setup", "cleanup"} /\ UNCHANGED saved
             \/ n = 6 /\ saved' = Wifi!InOrder(networks) /\ UNCHANGED networks
        BY <1>3, <2>1, ConfigureDoes DEF WifiTypes
    <2>3. CASE n = 6 /\ saved' = Wifi!InOrder(networks) /\ UNCHANGED networks
        <3>1. nid[s] \in DOMAIN networks /\ networks[nid[s]].ssid = ssid[s] /\ networks[nid[s]].key
            BY <2>1, <2>2, <2>3 DEF RunShape, RunAt, AtWork
        <3>2. PICK k \in DOMAIN saved' : saved'[k] = networks[nid[s]]
            <4>1. \A i \in DOMAIN networks :
                      \E k \in DOMAIN Wifi!InOrder(networks) : Wifi!InOrder(networks)[k] = networks[i]
                BY OrderedIs DEF WifiTypes
            <4> QED
                BY <2>3, <3>1, <4>1
        <3> QED
            BY <2>3, <3>1, <3>2 DEF Wifi!Joinable
    <2> QED
        BY <2>2, <2>3
<1>4. CASE Wifi!Cleanup(s)
    BY <1>4, CleanupDoes DEF Wifi!Fails, WifiTypes
<1> QED
    BY <1>1, <1>2, <1>3, <1>4

\* What a run saves that is not what was saved spoils those that have removed
\* their network and not replaced it.
LEMMA SaveMixes ==
    ASSUME WifiTypes, NEW s \in Setters, NEW t \in Setters \ {s},
           Wifi!RemoveListed(s) \/ Wifi!Add(s) \/ Wifi!Configure(s) \/ Wifi!Cleanup(s),
           saved' # saved, wpc[t] \notin {"idle", "ok"}, ~Wifi!Joinable(networks, ssid[t])
    PROVE  mixed'[t]
<1>1. Wifi!Configure(s)
    BY RemoveDoes, AddDoes, CleanupDoes
<1>2. mixed' = Wifi!Mixed(s)
    BY <1>1, ConfigureDoes
<1> QED
    BY <1>2 DEF Wifi!Mixed

\* What was saved stays usable after a step of a run.
LEMMA UsableKept ==
    ASSUME WifiTypes, RunShape, NameShape, UsableShape, NEW s \in Setters,
           Wifi!RemoveListed(s) \/ Wifi!Add(s) \/ Wifi!Configure(s) \/ Wifi!Cleanup(s)
    PROVE  UsableShape'
<1>1. LeavesOthers(s)
    BY RunsKept
<1>2. /\ UNCHANGED <<ssid, first>> /\ \A t \in Setters \ {s} : wpc'[t] = wpc[t]
      /\ \A t \in Setters : mixed[t] => mixed'[t]
    BY <1>1 DEF LeavesOthers
<1>3. SUFFICES ASSUME NEW name \in Ssids, Wifi!Joinable(first, name)
               PROVE  /\ \/ Wifi!Joinable(networks', name)
                         \/ \E t \in Setters : ssid[t] = name /\ (wpc'[t] \notin {"idle", "ok"} \/ mixed'[t])
                      /\ Wifi!Joinable(saved', name) \/ \E t \in Setters : ssid[t] = name /\ mixed'[t]
    BY <1>2 DEF UsableShape
<1>4. /\ \/ Wifi!Joinable(networks, name)
         \/ \E t \in Setters : ssid[t] = name /\ (wpc[t] \notin {"idle", "ok"} \/ mixed[t])
      /\ Wifi!Joinable(saved, name) \/ \E t \in Setters : ssid[t] = name /\ mixed[t]
    BY <1>3 DEF UsableShape
<1>5. CASE name = ssid[s]
    <2>1. \/ UNCHANGED saved /\ wpc'[s] \notin {"idle", "ok"}
          \/ Wifi!Joinable(networks', name) /\ Wifi!Joinable(saved', name)
        BY <1>5, OwnName
    <2> QED
        BY <1>2, <1>4, <1>5, <2>1
<1>6. CASE name # ssid[s]
    <2>1. Wifi!Joinable(networks, name) => Wifi!Joinable(networks', name)
        BY <1>1, <1>6, NamesStay
    <2>2. \A t \in Setters : ssid[t] = name => t # s
        BY <1>6
    <2>3. CASE UNCHANGED saved
        BY <1>2, <1>4, <2>1, <2>2, <2>3
    <2>4. CASE saved' = Wifi!InOrder(networks) /\ saved' # saved
        <3>1. ASSUME Wifi!Joinable(networks, name) PROVE Wifi!Joinable(saved', name)
            <4>1. PICK i \in DOMAIN networks : networks[i].ssid = name /\ networks[i].key
                BY <3>1 DEF Wifi!Joinable
            <4>2. PICK k \in DOMAIN saved' : saved'[k] = networks[i]
                BY <2>4, OrderedIs DEF WifiTypes
            <4> QED
                BY <4>1, <4>2 DEF Wifi!Joinable
        <3>2. ASSUME ~Wifi!Joinable(networks, name) PROVE \E t \in Setters : ssid[t] = name /\ mixed'[t]
            <4>1. PICK t \in Setters : ssid[t] = name /\ (wpc[t] \notin {"idle", "ok"} \/ mixed[t])
                BY <1>4, <3>2
            <4>2. wpc[t] \notin {"idle", "ok"} => mixed'[t]
                BY <2>2, <2>4, <3>2, <4>1, SaveMixes
            <4> QED
                BY <1>2, <4>1, <4>2
        <3> QED
            BY <1>2, <1>4, <2>1, <2>2, <3>1, <3>2
    <2> QED
        BY <1>1, <2>3, <2>4 DEF LeavesOthers
<1> QED
    BY <1>5, <1>6

\* What a run has added goes with it, whatever it meets.
LEMMA MadeKept ==
    ASSUME WifiTypes, MadeShape, [Wifi!Next]_(Wifi!vars)
    PROVE  MadeShape'
<1> DEFINE Owned(i, s) == wpc[s] = "ok" \/ lost[s] \/ (wpc[s] \in {"setup", "cleanup"} /\ nid[s] = i)
<1>1. \A s \in Setters : \A i \in made[s] \cap DOMAIN networks : Owned(i, s)
    BY DEF MadeShape
<1>2. SUFFICES ASSUME NEW t \in Setters, NEW i \in made'[t] \cap DOMAIN networks' PROVE Owned(i, t)'
    BY DEF MadeShape
<1>3. CASE \E s \in Setters : Wifi!List(s)
    <2>1. PICK s \in Setters : Wifi!List(s)
        BY <1>3
    <2>2. /\ wpc[s] = "idle" /\ UNCHANGED <<networks, nid, lost, made>>
          /\ wpc' = [wpc EXCEPT ![s] = "remove"] \/ wpc' = [wpc EXCEPT ![s] = "failed"]
        BY <2>1, ListDoes
    <2>3. \A u \in Setters \ {s} : wpc'[u] = wpc[u]
        BY <2>2 DEF WifiTypes
    <2> QED
        BY <1>1, <2>2, <2>3
<1>4. CASE \E s \in Setters : Wifi!RemoveListed(s)
    <2>1. PICK s \in Setters : Wifi!RemoveListed(s)
        BY <1>4
    <2>2. /\ wpc[s] = "remove" /\ UNCHANGED <<nid, lost, made>>
          /\ \A u \in Setters \ {s} : wpc'[u] = wpc[u]
          /\ networks' = Wifi!Without(networks, listed[s][1]) \/ UNCHANGED networks
        BY <2>1, RemoveDoes DEF Wifi!Fails, WifiTypes
    <2>3. i \in DOMAIN networks
        BY <2>2 DEF Wifi!Without
    <2> QED
        BY <1>1, <2>2, <2>3
<1>5. CASE \E s \in Setters : Wifi!Add(s)
    <2>1. PICK s \in Setters : Wifi!Add(s)
        BY <1>5
    <2>2. wpc[s] = "remove"
        BY <2>1, AddDoes
    <2>3. CASE Wifi!Fails(s) /\ UNCHANGED <<networks, nid, lost, made>>
        <3>1. \A u \in Setters \ {s} : wpc'[u] = wpc[u]
            BY <2>3 DEF Wifi!Fails, WifiTypes
        <3> QED
            BY <1>1, <2>2, <2>3, <3>1
    <2>4. ASSUME NEW new \in Nat \ DOMAIN networks, DOMAIN networks' = DOMAIN networks \cup {new},
                 made' = [u \in Setters |-> IF u = s THEN {new} ELSE made[u] \ {new}],
                 \/ wpc' = [wpc EXCEPT ![s] = "setup"] /\ nid' = [nid EXCEPT ![s] = new] /\ UNCHANGED lost
                 \/ Wifi!Fails(s) /\ lost' = [lost EXCEPT ![s] = TRUE] /\ UNCHANGED nid
          PROVE  Owned(i, t)'
        <3>1. CASE t = s
            <4>1. i = new
                BY <2>4, <3>1
            <4> QED
                BY <2>4, <3>1, <4>1 DEF WifiTypes
        <3>2. CASE t # s
            <4>1. i \in made[t] \cap DOMAIN networks
                BY <2>4, <3>2
            <4>2. wpc'[t] = wpc[t] /\ nid'[t] = nid[t] /\ lost'[t] = lost[t]
                BY <2>4, <3>2 DEF Wifi!Fails, WifiTypes
            <4> QED
                BY <1>1, <4>1, <4>2
        <3> QED
            BY <3>1, <3>2
    <2>5. \/ Wifi!Fails(s) /\ UNCHANGED <<networks, nid, lost, made>>
          \/ \E new \in Nat \ DOMAIN networks :
                 /\ DOMAIN networks' = DOMAIN networks \cup {new}
                 /\ made' = [u \in Setters |-> IF u = s THEN {new} ELSE made[u] \ {new}]
                 /\ \/ wpc' = [wpc EXCEPT ![s] = "setup"] /\ nid' = [nid EXCEPT ![s] = new] /\ UNCHANGED lost
                    \/ Wifi!Fails(s) /\ lost' = [lost EXCEPT ![s] = TRUE] /\ UNCHANGED nid
        BY <2>1, AddDoes
    <2> HIDE DEF Owned
    <2> QED
        BY <2>3, <2>4, <2>5
<1>6. CASE \E s \in Setters : Wifi!Configure(s)
    <2>1. PICK s \in Setters : Wifi!Configure(s)
        BY <1>6
    <2>2. /\ wpc[s] = "setup" /\ wpc'[s] \in {"setup", "cleanup", "ok"} /\ UNCHANGED <<nid, lost, made>>
          /\ \A u \in Setters \ {s} : wpc'[u] = wpc[u]
          /\ UNCHANGED networks \/ Alike(networks, networks', nid[s])
        BY <2>1, ConfigureDoes DEF WifiTypes
    <2>3. DOMAIN networks' = DOMAIN networks
        BY <2>2 DEF Alike
    <2> QED
        BY <1>1, <2>2, <2>3
<1>7. CASE \E s \in Setters : Wifi!Cleanup(s)
    <2>1. PICK s \in Setters : Wifi!Cleanup(s)
        BY <1>7
    <2>2. /\ wpc[s] = "cleanup" /\ wpc' = [wpc EXCEPT ![s] = "failed"] /\ UNCHANGED <<nid, made>>
          /\ \/ networks' = Wifi!Without(networks, nid[s]) /\ UNCHANGED lost
             \/ nid[s] \notin DOMAIN networks /\ UNCHANGED <<networks, lost>>
             \/ UNCHANGED networks /\ lost' = [lost EXCEPT ![s] = TRUE]
        BY <2>1, CleanupDoes DEF Wifi!Fails
    <2>3. i \in made[t] \cap DOMAIN networks
        BY <2>2 DEF Wifi!Without
    <2>4. CASE t = s
        <3>1. lost'[s] \/ (nid[s] \notin DOMAIN networks' /\ UNCHANGED lost)
            BY <2>2 DEF Wifi!Without, WifiTypes
        <3>2. wpc[s] # "ok"
            BY <2>2
        <3> QED
            BY <1>1, <2>3, <2>4, <3>1, <3>2
    <2>5. CASE t # s
        <3>1. wpc'[t] = wpc[t] /\ lost'[t] = lost[t] /\ nid'[t] = nid[t]
            BY <2>2, <2>5 DEF WifiTypes
        <3> QED
            BY <1>1, <2>3, <3>1
    <2> QED
        BY <2>4, <2>5
<1>8. CASE Wifi!Restart
    BY <1>8 DEF Wifi!Restart
<1>9. CASE UNCHANGED Wifi!vars
    BY <1>1, <1>9 DEF Wifi!vars, Wifi!supplicant, Wifi!run, Wifi!history
<1> HIDE DEF Owned
<1> QED
    BY <1>3, <1>4, <1>5, <1>6, <1>7, <1>8, <1>9 DEF Wifi!Next

\* A run that begins has met nobody of its name.
LEMMA ListKept ==
    ASSUME WifiTypes, RunShape, NameShape, HalfShape, UsableShape, NEW s \in Setters, Wifi!List(s), Wifi!Alone'
    PROVE  RunShape' /\ NameShape' /\ HalfShape' /\ UsableShape'
<1>1. /\ wpc[s] = "idle" /\ UNCHANGED <<networks, saved, ssid, nid, at, lost, first, mixed, made>>
      /\ wpc'[s] \in {"remove", "failed"}
      /\ \A t \in Setters \ {s} : wpc'[t] = wpc[t] /\ listed'[t] = listed[t]
      /\ wpc'[s] = "remove" =>
             /\ \A i \in Wifi!Named(networks, ssid[s]) : \E k \in DOMAIN listed'[s] : listed'[s][k] = i
             /\ \A k \in DOMAIN listed'[s] :
                    /\ listed'[s][k] \in Wifi!Named(networks, ssid[s])
                    /\ \A l \in DOMAIN listed'[s] : listed'[s][k] = listed'[s][l] => k = l
    <2>1. /\ wpc[s] = "idle" /\ UNCHANGED <<networks, saved, ssid, nid, at, lost, first, mixed, made>>
          /\ \/ /\ wpc' = [wpc EXCEPT ![s] = "remove"] /\ listed' = [listed EXCEPT ![s] = listed'[s]]
                /\ \A i \in Wifi!Named(networks, ssid[s]) : \E k \in DOMAIN listed'[s] : listed'[s][k] = i
                /\ \A k \in DOMAIN listed'[s] :
                       /\ listed'[s][k] \in Wifi!Named(networks, ssid[s])
                       /\ \A l \in DOMAIN listed'[s] : listed'[s][k] = listed'[s][l] => k = l
             \/ wpc' = [wpc EXCEPT ![s] = "failed"] /\ UNCHANGED listed
        BY ListDoes
    <2>2. CASE wpc' = [wpc EXCEPT ![s] = "remove"] /\ listed' = [listed EXCEPT ![s] = listed'[s]]
        <3>1. wpc'[s] = "remove" /\ \A t \in Setters \ {s} : wpc'[t] = wpc[t] /\ listed'[t] = listed[t]
            BY <2>2 DEF WifiTypes
        <3>2. wpc' # [wpc EXCEPT ![s] = "failed"]
            BY <2>2 DEF WifiTypes
        <3> QED
            BY <2>1, <3>1, <3>2
    <2>3. CASE wpc' = [wpc EXCEPT ![s] = "failed"] /\ UNCHANGED listed
        <3>1. wpc'[s] = "failed" /\ \A t \in Setters \ {s} : wpc'[t] = wpc[t] /\ listed'[t] = listed[t]
            BY <2>3 DEF WifiTypes
        <3> QED
            BY <2>1, <3>1
    <2> QED
        BY <2>1, <2>2, <2>3
<1>2. ASSUME NEW t \in Wifi!Running PROVE ssid[t] # ssid[s]
    <2>1. met' = [u \in Setters |-> \/ met[u]
                                    \/ u \in Wifi!Running /\ ssid[u] = ssid[s]
                                    \/ u = s /\ \E v \in Wifi!Running : ssid[v] = ssid[s]]
        BY ListDoes
    <2>2. ~met'[t] /\ t \in Setters
        BY DEF Wifi!Alone, Wifi!Running
    <2> QED
        BY <2>1, <2>2
<1>3. Wifi!Running' \subseteq Wifi!Running \cup {s} /\ Wifi!Running \subseteq Wifi!Running' /\ AtWork' = AtWork
    BY <1>1 DEF Wifi!Running, AtWork
<1>4. RunShape'
    <2>1. \A t, u \in Wifi!Running' : ssid[t] = ssid[u] => t = u
        BY <1>2, <1>3 DEF RunShape
    <2>2. ASSUME NEW t \in Setters \ {s} PROVE RunAt(t)'
        <3>1. RunAt(t)
            BY DEF RunShape
        <3> QED
            BY <1>1, <1>3, <3>1 DEF RunAt
    <2>3. RunAt(s)'
        BY <1>1 DEF RunAt, AtWork, Wifi!Named
    <2>4. \A t, u \in AtWork' : nid'[t] = nid'[u] => t = u
        BY <1>1, <1>3 DEF RunShape
    <2> QED
        BY <1>1, <2>1, <2>2, <2>3, <2>4 DEF RunShape
<1>5. NameShape'
    <2>1. ASSUME NEW t \in Setters \ {s}, Only(t)' PROVE NameAt(t)'
        <3>1. Only(t)
            BY <1>1, <2>1 DEF Only
        <3>2. NameAt(t)
            BY <3>1 DEF NameShape
        <3> QED
            BY <1>1, <3>2 DEF NameAt
    <2>2. NameAt(s)'
        BY <1>1 DEF NameAt
    <2> QED
        BY <2>1, <2>2 DEF NameShape
<1>6. HalfShape'
    BY <1>1, <1>3 DEF HalfShape, Explained
<1>7. UsableShape'
    <2>1. \A u \in Setters : wpc[u] \notin {"idle", "ok"} => wpc'[u] \notin {"idle", "ok"}
        BY <1>1
    <2>2. UNCHANGED <<networks, saved, first, ssid, mixed>>
        BY <1>1
    <2> QED
        BY <2>1, <2>2 DEF UsableShape
<1> QED
    BY <1>4, <1>5, <1>6, <1>7

\* A restart that no run met brings back what was saved.
LEMMA RestartKept ==
    ASSUME WifiTypes, RunShape, NameShape, HalfShape, UsableShape, Wifi!Restart, Wifi!Alone'
    PROVE  RunShape' /\ NameShape' /\ HalfShape' /\ UsableShape'
<1>1. networks' = Wifi!Numbered(saved) /\ UNCHANGED <<saved, wpc, ssid, listed, nid, at, lost, first, mixed>>
    BY DEF Wifi!Restart, Wifi!run
<1>2. Wifi!Running = {} /\ AtWork = {}
    <2>1. met' = [s \in Setters |-> met[s] \/ s \in Wifi!Running]
        BY DEF Wifi!Restart
    <2>2. \A s \in Setters : s \notin Wifi!Running
        BY <2>1 DEF Wifi!Alone
    <2>3. Wifi!Running \subseteq Setters /\ AtWork \subseteq Wifi!Running
        BY DEF Wifi!Running, AtWork
    <2> QED
        BY <2>2, <2>3
<1>3. Wifi!Running' = {} /\ AtWork' = {} /\ \A s \in Setters : wpc'[s] \in {"idle", "ok", "failed"}
    <2>1. Wifi!Running' = Wifi!Running /\ AtWork' = AtWork
        BY <1>1 DEF Wifi!Running, AtWork
    <2>2. \A s \in Setters : wpc[s] \in {"idle", "ok", "failed"}
        BY <1>2 DEF Wifi!Running, WifiTypes
    <2> QED
        BY <1>1, <1>2, <2>1, <2>2
<1>4. saved \in Seq(Entry)
    BY DEF WifiTypes
<1>5. RunShape'
    BY <1>3 DEF RunShape, RunAt
<1>6. NameShape'
    <2>1. ASSUME NEW s \in Setters, Only(s)' PROVE NameAt(s)'
        <3>1. Only(s)
            BY <1>1, <2>1 DEF Only
        <3>2. wpc[s] = "ok" => Single(saved, ssid[s])
            BY <3>1 DEF NameShape, NameAt
        <3>3. Single(saved, ssid[s]) => Single(networks', ssid[s])
            BY <1>1, <1>4, NumberedIs
        <3> QED
            BY <1>1, <1>3, <3>2, <3>3 DEF NameAt
    <2> QED
        BY <2>1 DEF NameShape
<1>7. HalfShape'
    <2>1. \A i \in DOMAIN networks' : i + 1 \in DOMAIN saved /\ networks'[i] = saved[i + 1]
        BY <1>1, <1>4, NumberedIs
    <2>2. Explained' <=> Explained
        BY <1>1 DEF Explained
    <2> QED
        BY <1>1, <2>1, <2>2 DEF HalfShape
<1>8. UsableShape'
    <2>1. ASSUME NEW name \in Ssids, Wifi!Joinable(saved, name) PROVE Wifi!Joinable(networks', name)
        <3>1. PICK k \in DOMAIN saved : saved[k].ssid = name /\ saved[k].key
            BY <2>1 DEF Wifi!Joinable
        <3>2. k - 1 \in DOMAIN networks' /\ networks'[k - 1] = saved[k]
            BY <1>1, <1>4, NumberedIs
        <3> QED
            BY <3>1, <3>2 DEF Wifi!Joinable
    <2> QED
        BY <1>1, <2>1 DEF UsableShape
<1> QED
    BY <1>5, <1>6, <1>7, <1>8

\* The shapes are kept while nothing is met.
LEMMA WifiKept ==
    ASSUME WifiIInv, [Wifi!Next]_(Wifi!vars)
    PROVE  WifiIInv'
<1>1. WifiTypes /\ WifiTypes' /\ MadeShape'
    BY WifiTypesKept, MadeKept DEF WifiIInv
<1>2. SUFFICES ASSUME Wifi!Alone' PROVE RunShape' /\ NameShape' /\ HalfShape' /\ UsableShape'
    BY <1>1 DEF WifiIInv
<1>3. Wifi!Alone => RunShape /\ NameShape /\ HalfShape /\ UsableShape
    BY DEF WifiIInv
<1>4. CASE \E s \in Setters : Wifi!List(s)
    <2>1. PICK s \in Setters : Wifi!List(s)
        BY <1>4
    <2>2. met' = [t \in Setters |-> \/ met[t]
                                    \/ t \in Wifi!Running /\ ssid[t] = ssid[s]
                                    \/ t = s /\ \E u \in Wifi!Running : ssid[u] = ssid[s]]
        BY <1>1, <2>1, ListDoes
    <2>3. Wifi!Alone
        BY <1>2, <2>2 DEF Wifi!Alone
    <2> QED
        BY <1>1, <1>2, <1>3, <2>1, <2>3, ListKept
<1>5. CASE \E s \in Setters : Wifi!RemoveListed(s) \/ Wifi!Add(s) \/ Wifi!Configure(s) \/ Wifi!Cleanup(s)
    <2>1. PICK s \in Setters : Wifi!RemoveListed(s) \/ Wifi!Add(s) \/ Wifi!Configure(s) \/ Wifi!Cleanup(s)
        BY <1>5
    <2>2. UNCHANGED met
        BY <2>1 DEF Wifi!RemoveListed, Wifi!Add, Wifi!Configure, Wifi!Cleanup
    <2>3. Wifi!Alone
        BY <1>2, <2>2 DEF Wifi!Alone
    <2> QED
        BY <1>1, <1>3, <2>1, <2>3, RunsKept, HalfKept, UsableKept
<1>6. CASE Wifi!Restart
    <2>1. met' = [s \in Setters |-> met[s] \/ s \in Wifi!Running]
        BY <1>6 DEF Wifi!Restart
    <2>2. Wifi!Alone
        BY <1>2, <2>1 DEF Wifi!Alone
    <2> QED
        BY <1>1, <1>2, <1>3, <1>6, <2>2, RestartKept
<1>7. CASE UNCHANGED Wifi!vars
    <2>1. UNCHANGED <<networks, saved, wpc, ssid, listed, nid, at, met, lost, first, mixed>>
        BY <1>7 DEF Wifi!vars, Wifi!supplicant, Wifi!run, Wifi!history
    <2>2. Wifi!Alone /\ UNCHANGED Wifi!Running /\ UNCHANGED AtWork /\ UNCHANGED Explained
        BY <1>2, <2>1 DEF Wifi!Alone, Wifi!Running, AtWork, Explained
    <2>3. RunShape' /\ NameShape'
        <3>1. \A s \in Setters : (RunAt(s)' <=> RunAt(s)) /\ (Only(s)' <=> Only(s)) /\ (NameAt(s)' <=> NameAt(s))
            BY <2>1, <2>2 DEF RunAt, Only, NameAt
        <3> QED
            BY <1>3, <2>1, <2>2, <3>1 DEF RunShape, NameShape
    <2>4. HalfShape' /\ UsableShape'
        BY <1>3, <2>1, <2>2 DEF HalfShape, UsableShape
    <2> QED
        BY <2>3, <2>4
<1> QED
    BY <1>4, <1>5, <1>6, <1>7 DEF Wifi!Next

\* At first every network is saved, with its key.
LEMMA WifiFirst == Wifi!Init => WifiIInv
<1> SUFFICES ASSUME Wifi!Init PROVE WifiIInv
    OBVIOUS
<1>1. PICK n \in 0..2 : saved \in [1..n -> Wifi!Entries]
    BY DEF Wifi!Init
<1>2. Wifi!Entries \subseteq Entry /\ \A e \in Wifi!Entries : e.key
    <2>1. ASSUME NEW e \in Wifi!Entries PROVE e \in Entry /\ e.key
        <3>1. PICK s \in Ssids : [ssid |-> s, key |-> TRUE, on |-> TRUE] = e
            BY DEF Wifi!Entries
        <3>2. PICK f : f = [ssid |-> s, key |-> TRUE, on |-> TRUE]
            OBVIOUS
        <3>3. f \in Entry /\ f.key
            BY <3>2 DEF Entry
        <3> QED
            BY <3>1, <3>2, <3>3
    <2> QED
        BY <2>1
<1>3. saved \in Seq(Entry) /\ \A k \in DOMAIN saved : saved[k].key
    <2>1. saved \in [1..n -> Entry] /\ n \in Nat
        BY <1>1, <1>2
    <2> QED
        BY <1>1, <1>2, <2>1
<1>4. networks = Wifi!Numbered(saved) /\ first = saved /\ (\A s \in Setters : made[s] = {}) /\ \A s \in Setters : wpc[s] = "idle"
    BY DEF Wifi!Init
<1>5. WifiTypes
    <2>1. /\ DOMAIN networks \in SUBSET Nat /\ IsFiniteSet(DOMAIN networks)
          /\ networks \in [DOMAIN networks -> Entry]
        BY <1>3, <1>4, NumberedIs
    <2> QED
        BY <1>3, <1>4, <2>1 DEF Wifi!Init, WifiTypes
<1>6. Wifi!Running = {} /\ AtWork = {}
    BY <1>4 DEF Wifi!Running, AtWork
<1>7. RunShape /\ NameShape
    BY <1>4, <1>6 DEF RunShape, RunAt, NameShape, NameAt
<1>8. HalfShape
    BY <1>3, <1>4, NumberedIs DEF HalfShape
<1>9. UsableShape
    <2>1. ASSUME NEW name \in Ssids, Wifi!Joinable(first, name) PROVE Wifi!Joinable(networks, name)
        <3>1. PICK k \in DOMAIN saved : saved[k].ssid = name /\ saved[k].key
            BY <1>4, <2>1 DEF Wifi!Joinable
        <3>2. k - 1 \in DOMAIN networks /\ networks[k - 1] = saved[k]
            BY <1>3, <1>4, NumberedIs
        <3> QED
            BY <3>1, <3>2 DEF Wifi!Joinable
    <2> QED
        BY <1>4, <2>1 DEF UsableShape
<1>10. MadeShape
    BY <1>4 DEF MadeShape
<1> QED
    BY <1>5, <1>7, <1>8, <1>9, <1>10 DEF WifiIInv

\* The shapes are what the networks need.
LEMMA WifiShown == WifiIInv => WifiInvariant
<1> SUFFICES ASSUME WifiIInv PROVE WifiInvariant
    OBVIOUS
<1>1. MadeShape /\ (Wifi!Alone => NameShape /\ HalfShape /\ UsableShape)
    BY DEF WifiIInv
<1>2. Wifi!SuccessIsSaved
    <2>1. ASSUME NEW s \in Setters, wpc[s] = "ok", Wifi!Alone, \A t \in Setters \ {s} : ssid[t] # ssid[s] \/ wpc[t] = "idle"
          PROVE  /\ Cardinality(Wifi!Named(saved, ssid[s])) = 1 /\ \A i \in Wifi!Named(saved, ssid[s]) : saved[i].key
                 /\ Cardinality(Wifi!Named(networks, ssid[s])) = 1
        <3>1. Single(networks, ssid[s]) /\ Single(saved, ssid[s])
            BY <1>1, <2>1 DEF NameShape, Only, NameAt
        <3>2. PICK i : Wifi!Named(networks, ssid[s]) = {i}
            BY <3>1 DEF Single
        <3>3. PICK k : Wifi!Named(saved, ssid[s]) = {k} /\ saved[k].key
            BY <3>1 DEF Single
        <3>4. Cardinality({i}) = 1 /\ Cardinality({k}) = 1
            BY FS_Singleton
        <3> QED
            BY <3>2, <3>3, <3>4, CountsAlike
    <2> QED
        BY <2>1, CountsAlike DEF Wifi!SuccessIsSaved
<1>3. Wifi!FailureLeavesNothing
    BY <1>1 DEF Wifi!FailureLeavesNothing, MadeShape, HalfShape, Explained
<1>4. Wifi!SavedStaysUsable
    BY <1>1 DEF Wifi!SavedStaysUsable, UsableShape
<1> QED
    BY <1>2, <1>3, <1>4 DEF WifiInvariant, Wifi!WifiInvariant

\* echoctl wifi set, whatever commands fail and however often the supplicant is
\* restarted.  A run that fails at any of its six commands leaves nothing of the
\* network it added, unless the answer to add_network was lost or the removal
\* refused.  While no run is met by a restart or by another run of its name: one
\* that reports success has saved its network as the only one of its name, and a
\* network that was saved can be joined, unless another run saved while none of
\* that name was running.
THEOREM WifiSafe == Wifi!Spec => []WifiInvariant
<1>1. WifiIInv /\ [Wifi!Next]_(Wifi!vars) => WifiIInv'
    BY WifiKept
<1> QED
    BY <1>1, WifiFirst, WifiShown, PTL DEF Wifi!Spec
=============================================================================
