------------------------------- MODULE WakeStore -------------------------------
(***************************************************************************)
(* The store of wake models: immutable artifacts and sidecars named by id  *)
(* and digest, and index.json that names the ones in use.  `echoctl wake   *)
(* install` processes write it under a file lock; echod and echoctl list   *)
(* it without one.  A rename is durable when the directory was synced      *)
(* after it: a power cut keeps any of the renames made since.              *)
(***************************************************************************)
EXTENDS Naturals

CONSTANTS
    Ids, Digests, Notes,  \* model ids, artifacts by digest, what else a sidecar says
    Installers,           \* processes that run Store.Install
    MaxInstalls, MaxKills, MaxCuts, MaxFaults  \* bounds

Absent == "absent"
Requests == [id : Ids, digest : Digests, note : Notes, overwrite : BOOLEAN]
Entries == [digest : Digests, note : Notes]
NoEntry == [digest |-> Absent, note |-> Absent]

VARIABLES
    artifact, metadata, index,  \* the directory as processes see it
    durable,                    \* the directory as a power cut would leave it, renames lost
    pc, request, copy,          \* of each installer; copy is the index it read
    installs, kills, cuts, faults,
    \* History, read by properties only:
    acked,   \* the entry of the last install of an id that succeeded, until another replaces it
    unsynced \* an installer ended between a rename and its sync

directory == <<artifact, metadata, index>>
bounds == <<installs, kills, cuts, faults>>
vars == <<directory, durable, pc, request, copy, bounds, acked, unsynced>>

NoIndex == [id \in Ids |-> NoEntry]
Directory(a, m, x) == [artifact |-> a, metadata |-> m, index |-> x]

Init ==
    /\ artifact = [id \in Ids |-> {}] /\ metadata = [f \in Ids \X Digests |-> Absent]
    /\ index = NoIndex /\ durable = Directory(artifact, metadata, index)
    /\ pc = [i \in Installers |-> "idle"]
    /\ request = [i \in Installers |-> [id |-> Absent]] /\ copy = [i \in Installers |-> NoIndex]
    /\ installs = 0 /\ kills = 0 /\ cuts = 0 /\ faults = 0
    /\ acked = NoIndex /\ unsynced = FALSE

Goto(i, label) == pc' = [pc EXCEPT ![i] = label]
\* Any return gives up the lock and what the process knew.
Ends(i) ==
    /\ Goto(i, "idle") /\ request' = [request EXCEPT ![i] = [id |-> Absent]]
    /\ copy' = [copy EXCEPT ![i] = NoIndex]
Pending == durable # Directory(artifact, metadata, index)
Locked == \E i \in Installers : pc[i] \notin {"idle", "lock"}

-----------------------------------------------------------------------------
\* prepareInstall: the request names a local artifact whose bytes have the
\* expected digest and a sidecar that agrees with it.
PrepareInstall(i) ==
    /\ pc[i] = "idle" /\ installs < MaxInstalls /\ installs' = installs + 1
    /\ \E r \in Requests : request' = [request EXCEPT ![i] = r]
    /\ Goto(i, "lock")
    /\ UNCHANGED <<directory, durable, copy, kills, cuts, faults, acked, unsynced>>

\* Mutant: installers do not wait for each other.
LockShared(i) ==
    /\ pc[i] = "lock" /\ Goto(i, "read")
    /\ UNCHANGED <<directory, durable, request, copy, bounds, acked, unsynced>>

Lock(i) ==
    /\ pc[i] = "lock" /\ ~Locked /\ Goto(i, "read")
    /\ UNCHANGED <<directory, durable, request, copy, bounds, acked, unsynced>>

\* An id that is installed is replaced only on demand.
ReadIndex(i) ==
    /\ pc[i] = "read"
    /\ IF index[request[i].id] # NoEntry /\ ~request[i].overwrite
       THEN Ends(i)
       ELSE Goto(i, "artifact") /\ copy' = [copy EXCEPT ![i] = index] /\ UNCHANGED request
    /\ UNCHANGED <<directory, durable, bounds, acked, unsynced>>

\* publishImmutable of the artifact: its name holds the digest, so what exists
\* under it has the same bytes.
PublishArtifact(i) ==
    LET r == request[i]
    IN  /\ pc[i] = "artifact"
        /\ IF r.digest \in artifact[r.id]
           THEN Goto(i, "metadata") /\ UNCHANGED artifact
           ELSE Goto(i, "artifact_sync")
                /\ artifact' = [artifact EXCEPT ![r.id] = @ \cup {r.digest}]
        /\ UNCHANGED <<metadata, index, durable, request, copy, bounds, acked, unsynced>>

\* Mutant: what exists is taken for what was to be written.
PublishMetadataUnread(i) ==
    LET r == request[i]
        file == <<r.id, r.digest>>
    IN  /\ pc[i] = "metadata"
        /\ \/ metadata[file] = Absent /\ metadata' = [metadata EXCEPT ![file] = r.note]
              /\ Goto(i, "metadata_sync") /\ UNCHANGED <<request, copy>>
           \/ metadata[file] # Absent /\ Goto(i, "index") /\ UNCHANGED <<metadata, request, copy>>
        /\ UNCHANGED <<artifact, index, durable, bounds, acked, unsynced>>

\* publishImmutable of the sidecar: the same bytes with another sidecar are
\* refused, to an overwriting install too.
PublishMetadata(i) ==
    LET r == request[i]
        file == <<r.id, r.digest>>
    IN  /\ pc[i] = "metadata"
        /\ \/ metadata[file] = Absent /\ metadata' = [metadata EXCEPT ![file] = r.note]
              /\ Goto(i, "metadata_sync") /\ UNCHANGED <<request, copy>>
           \/ metadata[file] = r.note /\ Goto(i, "index") /\ UNCHANGED <<metadata, request, copy>>
           \/ metadata[file] \notin {Absent, r.note} /\ Ends(i) /\ UNCHANGED metadata
        /\ UNCHANGED <<artifact, index, durable, bounds, acked, unsynced>>

\* updateIndex puts the entry into the index that was read.
UpdateIndex(i) ==
    LET r == request[i]
    IN  /\ pc[i] = "index" /\ Goto(i, "index_sync")
        /\ index' = [copy[i] EXCEPT ![r.id] = [digest |-> r.digest, note |-> r.note]]
        /\ acked' = [acked EXCEPT ![r.id] = NoEntry]
        /\ UNCHANGED <<artifact, metadata, durable, request, copy, bounds, unsynced>>

SyncLabels == {"artifact_sync", "metadata_sync", "index_sync"}
After(label) == CASE label = "artifact_sync" -> "metadata" [] label = "metadata_sync" -> "index"

\* Mutant: only the last rename is followed by a sync of the directory.
SyncLast(i) ==
    LET r == request[i]
    IN  /\ pc[i] \in SyncLabels
        /\ IF pc[i] = "index_sync"
           THEN /\ durable' = Directory(artifact, metadata, index) /\ Ends(i)
                /\ acked' = [acked EXCEPT ![r.id] = [digest |-> r.digest, note |-> r.note]]
           ELSE Goto(i, After(pc[i])) /\ UNCHANGED <<durable, request, copy, acked>>
        /\ UNCHANGED <<directory, bounds, unsynced>>

\* syncStoreDirectory, after which an install is durable up to here, and with
\* the index in place successful.
SyncDirectory(i) ==
    LET r == request[i]
    IN  /\ pc[i] \in SyncLabels /\ durable' = Directory(artifact, metadata, index)
        /\ IF pc[i] = "index_sync"
           THEN Ends(i) /\ acked' = [acked EXCEPT ![r.id] = [digest |-> r.digest, note |-> r.note]]
           ELSE Goto(i, After(pc[i])) /\ UNCHANGED <<request, copy, acked>>
        /\ UNCHANGED <<directory, bounds, unsynced>>

-----------------------------------------------------------------------------
\* An error of the file system: of a staged file before its rename, or of the
\* sync after it, which leaves the rename in place.
Fault(i) ==
    /\ pc[i] \notin {"idle", "lock"} /\ faults < MaxFaults /\ faults' = faults + 1
    /\ Ends(i) /\ unsynced' = (unsynced \/ pc[i] \in SyncLabels)
    /\ UNCHANGED <<directory, durable, installs, kills, cuts, acked>>
Kill(i) ==
    /\ pc[i] # "idle" /\ kills < MaxKills /\ kills' = kills + 1
    /\ Ends(i) /\ unsynced' = (unsynced \/ pc[i] \in SyncLabels)
    /\ UNCHANGED <<directory, durable, installs, cuts, faults, acked>>

PowerCut ==
    /\ Pending /\ cuts < MaxCuts /\ cuts' = cuts + 1
    /\ artifact' \in {artifact, durable.artifact} /\ metadata' \in {metadata, durable.metadata}
    /\ index' \in {index, durable.index}
    /\ durable' = Directory(artifact', metadata', index')
    /\ pc' = [i \in Installers |-> "idle"] /\ copy' = [i \in Installers |-> NoIndex]
    /\ request' = [i \in Installers |-> [id |-> Absent]]
    /\ UNCHANGED <<installs, kills, faults, acked, unsynced>>

Next ==
    \/ \E i \in Installers :
        \/ PrepareInstall(i) \/ Lock(i) \/ ReadIndex(i) \/ PublishArtifact(i)
        \/ PublishMetadata(i) \/ UpdateIndex(i) \/ SyncDirectory(i) \/ Fault(i) \/ Kill(i)
    \/ PowerCut
Spec == Init /\ [][Next]_vars

-----------------------------------------------------------------------------
TypeOK ==
    /\ \A id \in Ids : artifact[id] \subseteq Digests /\ index[id] \in Entries \cup {NoEntry}
    /\ metadata \in [Ids \X Digests -> Notes \cup {Absent}]

\* List reads every entry's artifact and gives up at the first it cannot verify.
Backed(id) == index[id] = NoEntry \/ index[id].digest \in artifact[id]
List == IF \A id \in Ids : Backed(id) THEN {id \in Ids : index[id] # NoEntry} ELSE {}

\* One bad entry would hide every model from List and Get.  No order of
\* installs and no power cut makes one, but for an installer that ended between
\* a rename and the sync of the directory: the next one finds the file there,
\* takes it for published and does not sync it.
EntriesAreListed == unsynced \/ List = {id \in Ids : index[id] # NoEntry}

\* An install that returned success is found from then on, across installs of
\* other models and power cuts, until another install replaces it.
InstalledStays == \A id \in Ids : acked[id] # NoEntry => index[id] = acked[id]

\* The sidecar that is kept beside an artifact in use says what the index says.
SidecarAgrees ==
    \A id \in Ids : index[id] # NoEntry =>
        unsynced \/ metadata[<<id, index[id].digest>>] = index[id].note

\* The store across interleaved installs, kills, errors and power cuts.
StoreInvariant == TypeOK /\ EntriesAreListed /\ InstalledStays /\ SidecarAgrees
=============================================================================
