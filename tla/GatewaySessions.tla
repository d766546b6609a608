--------------------------- MODULE GatewaySessions ---------------------------
(***************************************************************************)
(* devices.Server of internal/gateway/devices, the profile store of        *)
(* internal/gateway/config and the loop of cmd/gateway that reloads it.    *)
(* Every connection has a handler goroutine, the loop pushes a reloaded    *)
(* profile to the registered sessions, and any of them may close any       *)
(* session.  A step is one critical section of Server.mu or session.mu or  *)
(* one operation on a connection.  A profile is its version, which all of  *)
(* its effective configurations carry; a connection is the number of its   *)
(* authentication.  Session metadata is only reported and is left out.     *)
(***************************************************************************)
EXTENDS TurnReceiver, FiniteSets

CONSTANTS
    Devices,     \* device ids
    MaxConns,    \* bound on authenticated connections
    MaxVersion,  \* bound on profile versions
    MaxTurns,    \* bound on turns, over all connections
    MaxFrames,   \* bound on PCM frames of a turn
    NoDevice

ASSUME GatewayAssumption ==
    /\ MaxConns \in Nat /\ MaxVersion \in Nat \ {0}
    /\ MaxTurns \in Nat /\ MaxFrames \in Nat
    /\ IsFiniteSet(Devices) /\ NoDevice \notin Devices

Conns == 1..MaxConns
Turns == 1..MaxTurns
NoConn == 0
NoTurn == 0

VARIABLES
    store,     \* Store.current, by version
    sessions,  \* Server.sessions
    device,    \* of each connection, from its hello
    handler,   \* where each handler goroutine is
    config,    \* local of ServeHTTP until the welcome: the version read for it
    old,       \* local of register
    conn,      \* the connection is open
    once,      \* of each session: close has not begun, runs, has run
    frame,     \* the frame the handler has read and not handled
    active,    \* session.active, by number of the turn
    begun, receiver, files,    \* how many turns Begin accepted; of each of them
    loop, listed, targets,     \* the loop of cmd/gateway and its locals
    victim,    \* the session the loop is closing
    \* History, read by properties only:
    got,       \* the last version each connection was sent
    owed,      \* connections registered when the last reload began
    completed  \* turns whose Stop succeeded

registry == <<store, sessions, device, config, old>>
transport == <<conn, once>>
turns == <<active, begun, receiver, files, completed>>
reload == <<loop, listed, targets, victim, owed>>
vars == <<registry, transport, handler, frame, turns, reload, got>>

Init ==
    /\ store = 1 /\ sessions = [d \in Devices |-> NoConn]
    /\ device = [h \in Conns |-> NoDevice] /\ handler = [h \in Conns |-> "none"]
    /\ config = [h \in Conns |-> 0] /\ old = [h \in Conns |-> NoConn]
    /\ conn = [h \in Conns |-> FALSE] /\ once = [h \in Conns |-> "open"]
    /\ frame = [h \in Conns |-> "none"] /\ active = [h \in Conns |-> NoTurn]
    /\ receiver = [t \in Turns |-> Begin] /\ files = [t \in Turns |-> Nothing]
    /\ begun = 0 /\ loop = "idle" /\ listed = {} /\ targets = {} /\ victim = NoConn
    /\ got = [h \in Conns |-> 0] /\ owed = {} /\ completed = {}

Goes(h, from, to) == handler[h] = from /\ handler' = [handler EXCEPT ![h] = to]
-----------------------------------------------------------------------------
(* ServeHTTP, until the session is registered.                             *)

\* The token and the hello are accepted; a connection that fails one of them
\* leaves no trace.  Connections are numbered in this order.
Authenticate(h, d) ==
    /\ \A g \in Conns : g < h => handler[g] # "none"
    /\ Goes(h, "none", "hello")
    /\ device' = [device EXCEPT ![h] = d] /\ conn' = [conn EXCEPT ![h] = TRUE]
    /\ UNCHANGED <<store, sessions, config, old, once, frame, turns, reload, got>>

\* The effective configuration is read from the store ...
ReadConfig(h) ==
    /\ Goes(h, "hello", "welcome")
    /\ config' = [config EXCEPT ![h] = store]
    /\ UNCHANGED <<store, sessions, device, old, transport, frame, turns, reload, got>>

\* ... and sent in the welcome, which may fail.
WriteWelcome(h) ==
    /\ \/ Goes(h, "welcome", "register") /\ got' = [got EXCEPT ![h] = config[h]] /\ conn' = conn
       \/ Goes(h, "welcome", "gone") /\ conn' = [conn EXCEPT ![h] = FALSE] /\ got' = got
    /\ config' = [config EXCEPT ![h] = 0]
    /\ UNCHANGED <<store, sessions, device, old, once, frame, turns, reload>>

\* register puts the session in the place of whichever is there ...
register(h) ==
    /\ Goes(h, "register", "replacing")
    /\ old' = [old EXCEPT ![h] = sessions[device[h]]]
    /\ sessions' = [sessions EXCEPT ![device[h]] = h]
    /\ UNCHANGED <<store, device, config, transport, frame, turns, reload, got>>

\* ... and returns when that one is closed.
Replaced(h) ==
    /\ old[h] # NoConn => once[old[h]] = "closed"
    /\ Goes(h, "replacing", "reading")
    /\ old' = [old EXCEPT ![h] = NoConn]
    /\ UNCHANGED <<store, sessions, device, config, transport, frame, turns, reload, got>>
-----------------------------------------------------------------------------
(* session.close: the body runs once, and every caller waits for its end.  *)

\* Somebody has called close on the session and has not returned.
Closing(h) ==
    \/ handler[h] = "ended"
    \/ \E n \in Conns : handler[n] = "replacing" /\ old[n] = h
    \/ victim = h

CloseConn(h) ==
    /\ once[h] = "open" /\ Closing(h)
    /\ once' = [once EXCEPT ![h] = "closing"] /\ conn' = [conn EXCEPT ![h] = FALSE]
    /\ UNCHANGED <<registry, handler, frame, turns, reload, got>>

SetTurn(t, o) ==
    /\ receiver' = [receiver EXCEPT ![t] = o.active]
    /\ files' = [files EXCEPT ![t] = o.files]

NoTurnChanges == UNCHANGED <<receiver, files>>

\* Mutant: the turn is forgotten, not aborted.
CloseTurnForgets(h) ==
    /\ once[h] = "closing"
    /\ once' = [once EXCEPT ![h] = "closed"]
    /\ active' = [active EXCEPT ![h] = NoTurn]
    /\ NoTurnChanges
    /\ UNCHANGED <<registry, handler, conn, frame, begun, completed, reload, got>>

\* The critical section that aborts the active turn.
CloseTurn(h) ==
    /\ once[h] = "closing"
    /\ once' = [once EXCEPT ![h] = "closed"]
    /\ active' = [active EXCEPT ![h] = NoTurn]
    /\ IF active[h] = NoTurn THEN NoTurnChanges
         ELSE SetTurn(active[h], Abort(receiver[active[h]], files[active[h]]))
    /\ UNCHANGED <<registry, handler, conn, frame, begun, completed, reload, got>>
-----------------------------------------------------------------------------
(* The session's frames.                                                   *)

FrameKinds == {"turn.start", "audio.start", "pcm", "audio.stop", "other"}

Read(h) ==
    /\ handler[h] = "reading" /\ frame[h] = "none" /\ conn[h]
    /\ \E k \in FrameKinds : frame' = [frame EXCEPT ![h] = k]
    /\ UNCHANGED <<registry, transport, handler, turns, reload, got>>

\* The connection fails or is closed, or the frame is too large or of no
\* known type.
ReadFails(h) ==
    /\ frame[h] = "none"
    /\ Goes(h, "reading", "leaving")
    /\ conn' = [conn EXCEPT ![h] = FALSE]
    /\ UNCHANGED <<registry, once, frame, turns, reload, got>>

Handles(h, kind) ==
    /\ frame[h] = kind /\ frame' = [frame EXCEPT ![h] = "none"]
    /\ UNCHANGED <<registry, once, reload, got>>

Continues == UNCHANGED <<handler, conn>>

\* closeProtocol, and ServeHTTP returns.
Rejects(h) ==
    /\ Goes(h, "reading", "leaving")
    /\ conn' = [conn EXCEPT ![h] = FALSE]

\* binary: PCM outside a window is ignored; a frame that cannot be taken
\* aborts the turn.
Binary(h) ==
    LET t == active[h] IN
    /\ Handles(h, "pcm")
    /\ IF t = NoTurn \/ ~receiver[t].open
         THEN Continues /\ NoTurnChanges /\ active' = active
         ELSE \E o \in Write(receiver[t], files[t]) :
                /\ o.active.bytes <= MaxFrames
                /\ IF o.ok
                     THEN SetTurn(t, o) /\ active' = active /\ Continues
                     ELSE /\ SetTurn(t, Abort(o.active, o.files))
                          /\ active' = [active EXCEPT ![h] = NoTurn] /\ Rejects(h)
    /\ UNCHANGED <<begun, completed>>

\* The turn number is the id the device chose; turn.start is refused while a
\* turn is active, and for a payload or an id that is not valid.
TurnStart(h) ==
    /\ Handles(h, "turn.start")
    /\ \/ Rejects(h) /\ UNCHANGED <<active, begun>>
       \/ /\ active[h] = NoTurn /\ begun < MaxTurns
          /\ begun' = begun + 1 /\ active' = [active EXCEPT ![h] = begun + 1]
          /\ Continues
    /\ NoTurnChanges /\ completed' = completed

\* audio.start: without a turn, for another one or in another format it is
\* refused as well.
AudioStart(h) ==
    LET t == active[h] IN
    /\ Handles(h, "audio.start")
    /\ IF t = NoTurn
         THEN Rejects(h) /\ NoTurnChanges
         ELSE \E o \in StartAudio(receiver[t], files[t]) :
                SetTurn(t, o) /\ IF o.ok THEN Continues ELSE Rejects(h)
    /\ UNCHANGED <<active, begun, completed>>

\* audio.stop: a turn whose Stop fails stays active until close.
AudioStop(h) ==
    LET t == active[h] IN
    /\ Handles(h, "audio.stop")
    /\ IF t = NoTurn
         THEN Rejects(h) /\ NoTurnChanges /\ UNCHANGED <<active, completed>>
         ELSE \E o \in Stop(receiver[t], files[t]) :
                /\ SetTurn(t, o)
                /\ IF o.ok
                     THEN /\ active' = [active EXCEPT ![h] = NoTurn]
                          /\ completed' = completed \cup {t} /\ Continues
                     ELSE Rejects(h) /\ UNCHANGED <<active, completed>>
    /\ begun' = begun

\* config.result, log and ping change metadata at most; a malformed or
\* invalid frame ends the session.
OtherFrame(h) ==
    /\ Handles(h, "other")
    /\ Continues \/ Rejects(h)
    /\ UNCHANGED turns

\* Mutant: the entry is deleted whoever it belongs to.
unregisterAny(h) ==
    /\ Goes(h, "leaving", "ended")
    /\ sessions' = [sessions EXCEPT ![device[h]] = NoConn]
    /\ UNCHANGED <<store, device, config, old, transport, frame, turns, reload, got>>

\* unregister deletes the session's own entry, and closes it.
unregister(h) ==
    /\ Goes(h, "leaving", "ended")
    /\ sessions' = [d \in Devices |-> IF sessions[d] = h THEN NoConn ELSE sessions[d]]
    /\ UNCHANGED <<store, device, config, old, transport, frame, turns, reload, got>>

Returns(h) ==
    /\ once[h] = "closed"
    /\ Goes(h, "ended", "gone")
    /\ UNCHANGED <<registry, transport, frame, turns, reload, got>>
-----------------------------------------------------------------------------
(* The loop of cmd/gateway.                                                *)

Registered == {h \in Conns : \E d \in Devices : sessions[d] = h}

\* SIGHUP: the profile is read again, for the devices registered now.
DeviceIDs ==
    /\ loop = "idle"
    /\ loop' = "listed"
    /\ listed' = {d \in Devices : sessions[d] # NoConn} /\ owed' = Registered
    /\ UNCHANGED <<targets, victim, registry, transport, handler, frame, turns, got>>

\* Mutant: any valid profile replaces the current one.
ReloadUnordered ==
    /\ loop = "listed"
    /\ \E v \in 1..MaxVersion : store' = v
    /\ loop' = "loaded"
    /\ UNCHANGED <<listed, owed, sessions, device, config, old, targets, victim, transport, handler,
                   frame, turns, got>>

\* Reload: an invalid profile, or one that is not newer, changes nothing.
Reload ==
    /\ loop = "listed"
    /\ \/ \E v \in (store + 1)..MaxVersion :
            store' = v /\ loop' = "loaded" /\ UNCHANGED <<listed, owed>>
       \/ loop' = "idle" /\ listed' = {} /\ owed' = {} /\ store' = store
    /\ UNCHANGED <<sessions, device, config, old, targets, victim, transport, handler, frame,
                   turns, got>>

\* PushConfig collects the sessions the listed devices have by now ...
PushConfig ==
    /\ loop = "loaded"
    /\ loop' = "pushing"
    /\ targets' = {sessions[d] : d \in listed} \ {NoConn}
    /\ UNCHANGED <<listed, owed, victim, registry, transport, handler, frame, turns, got>>

\* Mutant: a failed write is only logged.
PushOnlyLogs(h) ==
    /\ loop = "pushing" /\ victim = NoConn /\ h \in targets
    /\ targets' = targets \ {h}
    /\ \/ conn[h] /\ got' = [got EXCEPT ![h] = store]
       \/ got' = got
    /\ UNCHANGED <<victim, loop, listed, owed, registry, transport, handler, frame, turns>>

\* ... and writes to one after the other, each within five seconds; a session
\* that cannot be written to is closed.
Push(h) ==
    /\ loop = "pushing" /\ victim = NoConn /\ h \in targets
    /\ targets' = targets \ {h}
    /\ \/ conn[h] /\ got' = [got EXCEPT ![h] = store] /\ victim' = victim
       \/ victim' = h /\ got' = got
    /\ UNCHANGED <<loop, listed, owed, registry, transport, handler, frame, turns>>

VictimClosed ==
    /\ victim # NoConn /\ once[victim] = "closed"
    /\ victim' = NoConn
    /\ UNCHANGED <<loop, listed, owed, targets, registry, transport, handler, frame, turns, got>>

\* The loop waits for the next signal.
Pushed ==
    /\ loop = "pushing" /\ victim = NoConn /\ targets = {}
    /\ loop' = "idle" /\ listed' = {}
    /\ UNCHANGED <<owed, targets, victim, registry, transport, handler, frame, turns, got>>

\* The context is done: Close collects the registered sessions and closes
\* them.  The process ends some time after that, whatever the handlers do.
Close ==
    /\ loop = "idle"
    /\ loop' = "closing" /\ targets' = Registered
    /\ UNCHANGED <<listed, owed, victim, registry, transport, handler, frame, turns, got>>

CloseNext(h) ==
    /\ loop = "closing" /\ victim = NoConn /\ h \in targets
    /\ targets' = targets \ {h} /\ victim' = h
    /\ UNCHANGED <<loop, listed, owed, registry, transport, handler, frame, turns, got>>
-----------------------------------------------------------------------------
Serve(h) ==
    \/ ReadConfig(h) \/ WriteWelcome(h) \/ register(h) \/ Replaced(h)
    \/ Binary(h) \/ TurnStart(h) \/ AudioStart(h) \/ AudioStop(h) \/ OtherFrame(h)
    \/ unregister(h) \/ Returns(h)
CloseSession(h) == CloseConn(h) \/ CloseTurn(h)
Loop ==
    \/ DeviceIDs \/ Reload \/ PushConfig \/ VictimClosed \/ Pushed \/ Close
    \/ \E h \in Conns : Push(h) \/ CloseNext(h)

Next ==
    \/ \E h \in Conns : \E d \in Devices : Authenticate(h, d)
    \/ \E h \in Conns : Serve(h) \/ Read(h) \/ ReadFails(h) \/ CloseSession(h)
    \/ Loop

\* Safety only: nothing has to happen.
Spec == Init /\ [][Next]_vars
-----------------------------------------------------------------------------
TypeOK ==
    /\ store \in 1..MaxVersion /\ sessions \in [Devices -> Conns \cup {NoConn}]
    /\ device \in [Conns -> Devices \cup {NoDevice}]
    /\ \A h \in Conns : device[h] = NoDevice <=> handler[h] = "none"
    /\ handler \in [Conns -> {"none", "hello", "welcome", "register", "replacing", "reading",
                              "leaving", "ended", "gone"}]
    /\ config \in [Conns -> 0..MaxVersion] /\ old \in [Conns -> Conns \cup {NoConn}]
    /\ conn \in [Conns -> BOOLEAN] /\ once \in [Conns -> {"open", "closing", "closed"}]
    /\ frame \in [Conns -> FrameKinds \cup {"none"}]
    /\ active \in [Conns -> Turns \cup {NoTurn}] /\ begun \in 0..MaxTurns
    /\ receiver \in [Turns -> Receivers] /\ files \in [Turns -> Files]
    /\ loop \in {"idle", "listed", "loaded", "pushing", "closing"}
    /\ listed \subseteq Devices /\ targets \subseteq Conns /\ victim \in Conns \cup {NoConn}
    /\ got \in [Conns -> 0..MaxVersion] /\ owed \subseteq Conns /\ completed \subseteq Turns

\* The registry and the live sessions agree, whichever of a reconnecting
\* device's handlers is delayed where: an entry is never left to a handler
\* that has returned, and a session that serves frames is the registered one
\* of its device or about to be closed by the handler that took its place.
RegistryIsLive ==
    /\ \A d \in Devices : sessions[d] # NoConn =>
           device[sessions[d]] = d /\ handler[sessions[d]] \in {"replacing", "reading", "leaving"}
    /\ \A h \in Conns : handler[h] = "reading" /\ once[h] = "open" =>
           \/ sessions[device[h]] = h
           \/ \E n \in Conns : handler[n] = "replacing" /\ old[n] = h

\* A session that was registered when a reload began and still is when the
\* loop is back has been sent the new configuration, or is being closed
\* because it could not be.
ReloadIsDelivered ==
    loop = "idle" =>
        \A h \in owed : h \in Registered /\ once[h] = "open" => got[h] = store \/ ~conn[h]

\* On one connection versions never decrease: the welcome and any number of
\* pushes come from different goroutines.
VersionsNeverRegress == [][\A h \in Conns : got'[h] >= got[h]]_got

\* No staged diagnostic outlives its session: it belongs to the active turn of
\* one whose close has not aborted it, although the frame that begins or ends
\* a turn may be waiting for the mutex while the session is closed.
StagesAreOwned ==
    \A t \in Turns : files[t].staged =>
        \E h \in Conns : active[h] = t /\ receiver[t].stage /\ once[h] # "closed"

\* "No output is promoted for incomplete or invalid turns": what is published
\* is a whole window, with the header that announces all of it, and a turn
\* that completed has its diagnostic published and nothing staged.
PublishedIsComplete ==
    \A t \in Turns :
        /\ files[t].final =>
               ~receiver[t].open /\ files[t].header = receiver[t].bytes /\ files[t].data = receiver[t].bytes
        /\ t \in completed => files[t].final = Directory /\ ~files[t].staged
-----------------------------------------------------------------------------
(* What the documents say and the interleavings do not keep.               *)

\* Reload "returns each connected device's new effective config", and
\* PushConfig sends it "to each currently connected recipient": with the loop
\* idle and no connection on its way, every session runs the current profile.
EveryoneIsCurrent ==
    loop = "idle" /\ (\A h \in Conns : handler[h] \in {"none", "reading", "gone"}) =>
        \A h \in Registered : once[h] = "open" /\ conn[h] => got[h] = store

\* "The newest authenticated session replaces an older session with the same
\* device_id": not the other way round.
NewestReplaces == [][\A d \in Devices : sessions'[d] # NoConn => sessions'[d] >= sessions[d]]_sessions

\* The registry, whoever registers, replaces, closes and returns.
GatewayInvariant == TypeOK /\ RegistryIsLive

\* The files of a turn, wherever it fails and whoever ends it: what is staged has
\* an owner that will remove it, and what is published is whole.
TurnFilesAreWhole == StagesAreOwned /\ PublishedIsComplete
=============================================================================
