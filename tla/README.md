# Formal model of echo-satellite

echo-satellite turns an Echo Dot into an open voice satellite. `echod` runs on the
device: it listens for a wake word, records the command that follows and sends it to a
gateway over an authenticated WebSocket. `gateway` accepts devices, gives each its
configuration and receives their turns; `dotsim` is a simulated device and `echoctl` a set of
diagnostics. This directory holds TLA+ models of the parts of that system where several
goroutines, two processes or a restart decide what happens, the TLC instances that check them
and TLAPS proofs of their safety.

Contents: [1 the system](#1-the-system), [2 the modules](#2-the-modules-and-the-code),
[3 the runs](#3-the-runs), [4 fairness](#4-fairness), [5 what is proved](#5-what-is-proved),
[6 where the code and its documents disagree](#6-where-the-code-and-its-documents-disagree),
[7 what is not modelled](#7-what-is-not-modelled), [8 the plan](#8-the-plan).

To check a module: `tlc -config MCEndpointing.cfg MCListening.tla`; to check its proofs:
`tlapm ListeningProofs.tla`.

## 1 The system

### A turn, end to end

1. A capture goroutine reads frames from ALSA and hands each to a *fanout*, which copies it to
   its subscribers without waiting: a subscriber that is slow loses frames and its drop counter
   grows. One subscriber is the *wake pipeline*, the other the *turn coordinator*.
2. The wake pipeline scores frames with the loaded model; a detection becomes
   `Trigger(...)` on the coordinator, together with the pre-roll of its ring. A button press
   calls `TriggerButton`.
3. The coordinator reserves the turn (`pending`), starts it on its own goroutine (`active`) and
   feeds frames to the *endpoint controller*, which ends it: trailing silence, no speech, the
   hard limit. A dropped frame ends it as `capture_overrun`.
4. `finish` puts the completed turn into a channel of capacity one, and calls `onIdle`. The
   *client session*'s forwarder takes it and queues `turn.start`, `audio.start`, PCM frames and
   `audio.stop` into the bounded queue the session's writer sends from.
5. The gateway's *session* hands them to the *turn receiver*, which may record a diagnostic WAV,
   staged under a temporary name and published by a hard link.

Configuration goes the other way. The gateway's *store* holds a versioned profile; a SIGHUP
reloads it and pushes each connected device its effective configuration, a welcome carries it
to a connecting one. On the device the client's reader calls `Apply`: a revision that arrives
during a turn is *held* and applied by the next `onIdle`; applying it saves the state file,
stages the endpoint configuration, swaps the wake engine and answers with `config.result`.

### Components

| component | source | state it keeps | operations | what is hard | what makes it correct |
|---|---|---|---|---|---|
| endpoint controller | `internal/device/endpointing` | state, current/held/turn revision, three counters | StageConfig, Start, Observe, EOF, Cancel | counters compared after each frame; five ways a turn ends, each a revision boundary | verdict = reading of the whole history; a turn keeps its revision, the latest one is next; every turn ends |
| turn coordinator | `cmd/echod/runtime.go` | connected, active, pending, two channels, current turn | Trigger, Run (start, observe), finish, SetConnected, Next | checks under a lock, sends after it; one goroutine per finish; disconnects in between | active only while connected; each end of a turn owes one idle call; turns end, reservations are released |
| device runtime configuration | `cmd/echod/runtime.go`, `internal/device/config` | settings, held revision and engine, live engine, state file | Apply, applyPending, applyLocked, Save, Load, Swap, Score | acts on an answer of another lock; failures half way; crashes | nothing held is stranded, no engine leaks or is used closed, what runs is one revision |
| client session | `internal/device/client` | connection, priority queue, log queue, turn flag, backoff | Run, runOnce, writer, reader, forwarder, SendTurn, ReportConfigResult, Log | three workers of a session plus outsiders on one bounded queue; teardown | ordered turns of the present session only; TurnSent is true; nobody waits for ever |
| gateway device sessions | `internal/gateway/devices` | registry, a session per connection with its active turn | ServeHTTP, register, unregister, close, control/binary, PushConfig, Close | reconnects replace sessions; anybody closes any session | registry of live sessions, staged files are owned |
| gateway turn receiver | `internal/gateway/turns` | audio window, staged and published file | Begin, StartAudio, Write, Stop, Abort | failure at each file operation | published means whole |
| gateway profile store, reload loop | `internal/gateway/config`, `cmd/gateway` | profile by version | Load, Reload, Effective, the SIGHUP loop | list, reload and push are three steps; a bad file in between | a reload reaches who was connected; a version names one valid configuration |
| wire protocol | `internal/protocol` | none | validation, encoding | bounds of payloads | what is accepted is valid |
| capture, fanout, ring | `internal/device/audio` | ring contents, drop counters, offsets | Run, Subscribe; Write, Tail, EnsureDuration | offsets across drops | a turn's audio is contiguous or the turn says so |
| wake pipeline, gate | `internal/device/wake` | lookback, refractory time, statistics, position | Run, processStep | configuration that changes under kept state; position after a dropped frame | decisions follow the lookback in force, detections are apart |
| inference | `internal/device/wake/{engine,tflite}` | mel tail, stream buffers, ring of embeddings | Score, Reset, NewStream, Write | buffers carried from step to step | incremental evaluation is evaluation of whole windows |
| wake model store | `internal/device/wake/store.go` | directory of models, index, lock file | Install, List, Get | processes killed and power cuts between renames | a listed model is whole, an installed one stays |
| LED animator, connection indicator | `internal/device/led`, `cmd/echod`, `cmd/echoctl` | display state, boot timer, frame | SessionChanged, Set, Off, Run, Close | unordered commands of five goroutines | the ring shows the last command, and that is the right one |
| buttons | `internal/device/buttons` | press state, timers | Run, Feed, the timers | two clocks, a slow consumer, a device that goes away | one gesture per press, each reported to its end |
| process of echod | `cmd/echod/main.go`, `internal/device/system/startup.go` | GPIO, ring, microphone, engine, workers | Prepare, setup, workers, cleanup | any step of the way up or down may fail | what was taken is given back, shutdown returns |
| device identity | `internal/device/system/identity.go` | serial sources, id file | Resolve | two first starts, power cuts | one device, one id |
| log rotation | `internal/device/system/logrotate.go` | generations of a file | NewRotatingWriter, Write, rotate | errors and kills between renames, changed limits | bounded, newest bytes, no holes |
| discovery, pairing | `internal/discovery` | pairing file; entries of a browse; servers of an advertisement | Resolve, Save; Browse; Advertise | gateways that move, responses in any order, crashes | a reachable gateway is reached; only a welcome is remembered |
| release trust | `internal/release`, `cmd/echoctl` | none | verifyRelease | files of several releases mixed | what is accepted is a release or is warned of |
| Wi-Fi provisioning | `internal/device/wifi` | the supplicant's networks, as they run and as they are saved | Configure | a dozen commands that fail or lose their answer, restarts | a saved network stays usable, a failed run leaves nothing of its own |
| the rest | simulator, other `echoctl` commands, ALSA, mixer, kernels, options | | | | see [7](#7-what-is-not-modelled) |

### Who shares what

* The client's reader, its forwarder, the session driver, the wake consumer, the button watchers
  and every `go t.finish` meet in the coordinator's mutex and its two channels.
* `deviceRuntimeConfig.mu` is held for the whole of Apply and applyPending, but the turn they ask
  about is under the coordinator's lock, so their answer ages while they work.
* The wake engine is behind a read-write lock: Score holds the read side, Swap the write side.
* The client's queue is filled by the forwarder, the reader and any goroutine that reports a
  configuration result, and emptied by the writer, which also sends log records and heartbeats.
* In the gateway, `Server.mu` guards the registry and each `session.mu` its active turn; a
  session is closed by its own handler, by the handler that replaces it, by a failed push or by
  the shutdown, and `sync.Once` makes the later callers wait for the first.
* The ring is written by the animator only, but what it shows is set by sessions, the boot timer,
  turns, idle calls and buttons, each knowing nothing of the others; cleanup writes it through a
  device of its own, with a cache of its own.
* The model store, the id file, the log and the supplicant are shared by processes: `echod` and any
  number of `echoctl`, killed at any time. Only the store's installers lock.

`PROJECT.json` lists the hazards these interactions expose, each at its line with the
properties that would catch it.

## 2 The modules and the code

```
AudioRing ── CaptureHandoff ─┐                      (capture, wake pipeline, turn audio)
  WakeGate, WakeEngine ──────┤                      (decision and inference of a wake step)
  Endpointing ───────────────┴─ Listening           (endpoint controller)
                                  ├─ ListeningProofs
                                  └─ MCListening
TurnActivity                                        (what the coordinator promises)
  ├─ TurnCoordinator ─── TurnCoordinatorProofs      (implements it)
  └─ RuntimeConfig ───── RuntimeConfigProofs        (relies on it)
ClientSession ────────── ClientSessionProofs        (device side of a connection)
TurnReceiver ── GatewaySessions ── GatewaySessionsProofs  (gateway side of all connections)
GatewayDiscovery ────────────┐                      (resolution, pairing, attempts)
  ServiceRecord, Advertiser, │
  Browse ────────────────────┴─ Discovery           (records, publishing, browsing)
                                  ├─ DiscoveryProofs
                                  └─ MCDiscovery
Indicator ───────────────────┐                      (ring of a connected device)
  Buttons ───────────────────┴─ Panel ── PanelProofs (a watcher beside it)
    WakeFeedback ────────────── MCPanel             (flashes of the wake test)
Daemon ──────────────────────┐                      (a process, from setup to cleanup)
  WakeStore, DeviceIdentity, LogRotation,
  ReleaseTrust, WifiProvisioning, GatewayProfile
                       └─ DeviceData                (what is kept in files and devices)
                            ├─ DeviceDataProofs
                            └─ MCDeviceData
```

`Listening`, `Discovery`, `Panel` and `DeviceData` give modules that share no state their variables and constants and state
their invariants side by side, so that the run and the proofs speak of the same formulas.

`MCListening`, `MCDiscovery`, `MCPanel` and `MCDeviceData` check several modules in one run. Exactly one part of such a run moves in a
behaviour, the others rest in a state in which none of their actions changes anything, so the state space
is the sum of the parts' and not their product; each part keeps its own Init, Next, fairness and properties.

Components that interact are composed by assume and guarantee. `TurnCoordinator` is shown to
implement `TurnActivity`; `RuntimeConfig` contains `TurnActivity` as its environment, step for
step. `Endpointing`'s `TurnEnds` justifies the fairness `TurnCoordinator` puts on the
controller's verdict, and its `LatestRevisionIsNext` is why `RuntimeConfig` may represent the
controller by the one revision staged last. `RuntimeConfig`'s reports are `ClientSession`'s
reporters. Nothing in one module is taken on trust that another one refutes.

In every module an action is a critical section or one channel, file or connection operation;
what the code does after an unlock is a step of its own. Variables have the code's names, those
under the word *history* are written by actions and read by properties only. Definitions
marked *Mutant* are plausible mistakes used to show that each property can fail; they are part
of no specification.

### Endpointing — `internal/device/endpointing/endpointing.go`

Every method of `Controller` runs under its mutex, so each is one action. A frame is its
duration and the score the detector reports after it, a millisecond a small natural. `Observe`
keeps the order of the code: elapsed time first, the hard limit, then speech or silence.
`StageConfig` includes `Validate` (`internal/protocol/config.go`). The reference the counters are
compared with, `ReasonAt`, reads the frame history declaratively (is
there a run of speech of the onset's length? is there a trailing run of silence after it?) and
keeps no counter.

### TurnCoordinator — `turnCoordinator` in `cmd/echod/runtime.go`

| code | actions |
|---|---|
| `Trigger` | `TriggerCheck` (the critical section), `TriggerSend` (the send or the roll-back) |
| `start` | `StartRefused`, `StartTurn`; the replay of remembered frames may already spawn a finish |
| `observe`, `appendFrame` | `DropFrame`, `ObserveBroken`, `ObserveVerdict`, `ObserveIdle` |
| `Run` | picks among the above; `CaptureEnds`, `RunCancelled` |
| `finish` | `FinishLock`, `FinishSend`, `FinishIdle` |
| `SetConnected` | `Connect`; `Disconnect`, `Drain`, `Drained`, `DisconnectIdle` |
| `Next` | `NextTurn` |

Whether a frame joins the ones before it is one Boolean, `broken`; the offsets behind it are in
`CaptureHandoff`. A turn carries the number of the session
its trigger was accepted in and of the one it started in, which the code does not record.

### AudioRing and CaptureHandoff — `internal/device/audio`, `internal/device/wake/pipeline.go`, `cmd/echod/runtime.go`

`AudioRing` is `Ring`: the circular array with its start and length, `WriteSample` one round of
the loop of `Write`. `CaptureHandoff` follows the samples. A sample is its position in what was
captured, so that audio can be compared with what it should be.

| code | actions |
|---|---|
| `Capturer.Run`, the callback of `Fanout.Run` | `Emit`: each subscription takes the frame or drops it |
| `Pipeline.Run`, `processStep` | `ReceiveFrame`, `ProcessStep` (any step may be a detection) |
| `ensurePreRoll` | `GrowRing` |
| `consumeWakeEvents`, `TriggerButton` | `TriggerWake`; `ReadOffset`, `TriggerButton` |
| `start` | `StartRefused`, `Start` with `Replay` of the remembered frames |
| `observe` | `ObserveIdle` (with `remember`), `ObserveOverrun`, `ObserveTurn` (with `appendFrame`) |
| `finish` | `finish` |

The drop count a turn compares is kept as the Boolean it compares to, `overrun`; the goroutine
structure of the same code, with disconnects and `done`, is `TurnCoordinator`'s.

### WakeGate and WakeEngine — `internal/device/wake/{pipeline,gate,stats,config}.go`, `internal/device/wake/tflite`

`WakeGate` is `processStep` once more, as the decision: `observeVAD`, the engine's score,
`Gate.Decide`, `Stats.Observe` with its circular windows, and the event, which is sent or given up.
The configuration is another variable that may change between any two steps, as the gateway's profile
does. `WakeEngine` is `Engine.Score`, `NewStream`, `Stream.Write` and the classifier's history. Values
are terms: a kernel's output is the tuple of the rows it reads, so that two outputs are equal only
when they were computed from the same audio; the arithmetic inside a kernel is left out. The
instance runs over every chain of one and two operators that differ in window, stride, dilation, padding and
constants, those `NewStream` refuses included, and over some of three. (`NewStream` looks at the rows of
four-dimensional constants only; an operator with several rows in a constant of fewer is not modelled.)
`Windowed`, `Receptive` and `Stride` are the whole model on one window, the rows such a window has and the rows from one to the next; the
code's stream never computes them.

### RuntimeConfig — `deviceRuntimeConfig`, `swappableWakeEngine`, `deviceconfig.Store`

The holder of `c.mu` is `lock`, where it is `pc`, its locals `job`. `ApplyPrepared` asks
`turns.Active()` once, and `ApplyHold` or `applyLocked` acts on the answer later. `applyLocked`
is `SaveSucceeds` or `SaveFails` (before the rename or, from the directory sync, after it),
`Swap` and `Publish`; on behalf of `applyPending` the last step reports and discharges the idle
call, on behalf of `Apply` it leaves an answer the reader queues in a later step, because the
code queues it after the unlock. Engines are handles that are reused when closed, so a leak
shows as a handle nobody owns. `Restart` is a crash at any point and the next start; `DiskFails`
damages the state file between two starts. Validation, missing models and lack of resources are
one nondeterministic rejection: they change nothing.

### ClientSession — `internal/device/client/client.go`

`phase` follows `Run` and `runOnce`: attempt, handshake, publication of the connection,
`SessionChanged(true)`, the session, the first error, `workers.Wait`, `drainHigh`, the deferred
`SessionChanged(false)` and `disconnect`, backoff. The writer is at its poll, in its select, or
holds a log record and looks at the queue again; the reader reads or has a reply to queue; the
forwarder waits for a turn or is at a frame of `SendTurn`. `ReportCheck` and `ReportSend` are the
two halves of `enqueue`. A frame is its kind and the number of its turn; `wire` and `told` record
what the gateway of the current session was sent and what `TurnSent` was called for.

### TurnReceiver and GatewaySessions — `internal/gateway/{turns,devices,config}`, `cmd/gateway`

`Receiver`'s methods run under the session's mutex: each is an operator that gives the set of
outcomes it can have, as records of the receiver, the turn's files and whether an error came
back. `Stop` has six: refused, no diagnostic, or failing at the header, the link, the removal or
the directory sync, or succeeding (the last two failures leave the published name behind).
`GatewaySessions` has a handler per connection from its hello to its return, the frames it reads,
`session.close` in its two halves under `sync.Once`, and the loop of `cmd/gateway` with its
listing, reload, pushes and shutdown. A profile is its version, which all effective
configurations carry. Metadata is only reported and left out.

### GatewayDiscovery, ServiceRecord, Advertiser, Browse — `internal/discovery`, `cmd/gateway`

| module | code | actions |
|---|---|---|
| `GatewayDiscovery` | `Resolve`, `Client.Run` and `handshake` as far as they choose a gateway, `PairingStore` | `Resolve`, `BrowseAnswers`, `Dial`, `Welcome`, `Rename`, `Sync`, `SaveFails`, `SessionEnds`; the network's `Move`, the device's `PowerCut` |
| `ServiceRecord` | `TXTRecord`, `Instance`, the conversions on both sides of mDNS | one step: whatever was appended to a record on its way |
| `Advertiser` | `Advertise`, `register`, `advertisementTargets` | `Select`, `Register`, `Serve`, `Stop` |
| `Browse` | `Client.Browse`, `rebuildInstances`, `mergeInstance` | responses and withdrawals in any order, the two deadlines, the select |

The packets and caches of the mDNS library are external. `Browse` picks the order in which Go walks a
map anew at every rebuild. Some consequences of the code that the model makes visible and no document
denies: a host of another DNS domain gets `.local` appended; an incompatible update leaves the
older compatible entry of the same name in place; a browse that finds several gateways always gives the
same first one; a pairing that cannot be saved fails the handshake.

### Indicator, Buttons, WakeFeedback — `internal/device/{led,buttons}`, `cmd/{echod,echoctl}`

`Indicator` has the connection indicator, the animator and the five goroutines that command them; a
frame is the state it renders, or a blend. A turn is its acceptance, its end and the idle call that
follows. `Buttons` has the key events with the kernel's time, the recognizer, the timers of gestures
(armed, fired, taken) and the consumer. A timer that has fired cannot be called back; its generation
says whether it is still wanted. `WakeFeedback` is the flash of `echoctl`'s wake test.

### Daemon — `cmd/echod/main.go`, `internal/device/system/startup.go`, `internal/device/led`

A process from the snapshot of the GPIO to its exit, in both modes, from a microphone or a file. `Setup`
lists what `runConnected` and `runWakeOnly` open, each step may fail, and each puts a deferred call
on `deferred` (in the wake-only mode the microphone's becomes *nothing* once the workers own it). `Init` is a device as a killed process may have left it. The animator of the
connected mode is not joined by anybody. Cleanup overrides what others did to the mute while the process ran; a
`MaxToggles` of 1 makes that happen.

### WakeStore, DeviceIdentity, LogRotation, ReleaseTrust, WifiProvisioning, GatewayProfile

One process per installer, resolver, writer or operator; each file operation is a step, each
may fail, and a process may be killed between two. Two copies of a directory are kept where it
matters: as processes see it, and what a power cut leaves, which is what was synced and any part of what
was renamed since. `LogRotation` numbers the bytes written, so that the log can be read as a
sequence. `ReleaseTrust` runs `verifyRelease` over every mixture of manifest, signature, artifact, keys
and flags; an edit of the manifest may leave size and digest alone, which are all that is compared with the
artifact. `WifiProvisioning` lets a command be refused, or be carried out with its answer
lost; the supplicant that answers is external. Its history has which networks a run has added (`made`), and which
runs had no whole network of their name running when another run saved (`mixed`): these are what a failed run owes
a cleanup for, and the one way a saved network is lost. `GatewayProfile` has `Load`, the merge of overrides
and `Store.Reload` over every document of two fields.

## 3 The runs

Nine runs pass and three show a disagreement (section 6). Where a cfg says
`CHECK_DEADLOCK FALSE` the system really may stop: a model with a bounded number of sessions,
turns or connections runs out of them, a cancelled client returns, a gateway shuts down.

| run | asks | instance and why it is enough |
|---|---|---|
| `endpointing` (`MCListening`) | do counters agree with the reference, do revisions switch at turn boundaries, do turns end | three valid revisions that differ in which limit is the tightest and one invalid; scores 0–2, frames of length 1 and 2 so that limits are met exactly and jumped over, pre-rolls 0, 1 and one beyond every limit |
| `coordinator` | session, reservation and idle-call safety; refinement of `TurnActivity`; do turns end, are triggers decided, idle calls made, is the controller freed, does a disconnect return | two trigger sources, the code's channel capacities 2 and 1, two sessions so that something can outlive the first. One goroutine in `finish`: it already races with a disconnect, with `Run`'s own finish and with the next turn, and the theorems cover the safety of any number; the run of `stale_turn` has two |
| `runtime_config` | held revisions, engines, coherence, and that a held revision is resolved | two versions with two contents (a conflict needs two), three engines (live, held and one being prepared; a fourth is never open at once), two idle callers |
| `wake_path` (`MCListening`) | is a turn's audio what was captured; are wake decisions right when the configuration changes; is incremental inference inference | *handoff:* steps of two samples in frames of one or two, so that frames straddle steps; subscriptions of one and two frames, so that each loses what the other gets; pre-rolls 1, 3 and 4 (shorter than a step, and a growth from a wrapped array), a history of three of the four samples captured, so that it forgets. *gate:* three configurations that differ in every field, one change, four steps, a timing window of two so that it wraps. *engine:* every chain of one and of two operators with windows of 1–3 rows, strides 0–3, dilation 1–2, padding and row constants, and chains of three with windows of two; six steps, enough for every window to fill and move |
| `client_session` | frames of a session's turns, TurnSent, the turn flag; does SendTurn return, does teardown complete | a queue of 3, the least that admits a turn, so every send can find it full; two turns of at most one PCM frame, one outside reporter; a pre-roll too long for a frame, and backoff that reaches its cap |
| `gateway` | registry, reload, staged and published files, versions | two connections of either of two (symmetric) devices, one reload, one turn of one frame with diagnostics on; more connections than two repeat the same replacement |
| `discovery` | is a reachable gateway reached, what may the pairing file hold, is what is found what was advertised | three gateways (the first without TLS, the third incompatible), with and without a URL and a preferred one, two addresses that may change hands, one move, one disk error or power cut. *record:* valid and invalid options, and an appended TXT string. *advertiser:* every two interfaces with three addresses. *browse:* three names of two gateways at two endpoints, lists of one and two addresses that overlap, three events |
| `panel` | does the ring show the truth in the end, is every press one gesture, does a flash end | two sessions, two triggers, one idle caller, a transition of three frames, one write error. *buttons:* a key that holds and one that repeats, two presses, one repeat, two unread events. *feedback:* three flashes, so that one timer can be late by a whole flash |
| `device_data` | is what was taken given back; do files and networks survive failures, kills and power cuts; is an accepted bundle a release | *daemon:* both modes, file and microphone, any step failing, one change of the GPIO by others. *store:* two installers, two ids, digests and sidecars, a kill, a power cut, an error. *identity:* three serial sources, two resolvers with three tries. *log:* five limits that differ in count and size, seven bytes, three starts. *release:* two releases, two keys. *wifi:* two operators, two names, two faults, a restart. *profile:* one device, two fields, two settings |

The properties, one formula for each question; each is a conjunction of named parts where the question has
several, and has mutants in `PROJECT.json` that break it, one for each part.

* `ControllerInvariant`: the latest revision staged is the next one used, a turn keeps the one it
  started with and is below its limits. `ReasonMatchesHistory`, `TurnEnds`.
* `CoordinatorInvariant`: no microphone audio is collected offline, however old the trigger; an active
  turn has a listening controller or a finish on its way; a reservation has a trigger behind it.
  `RefinesTurnActivity`; `IdleCallersArrive` (the same refinement with the abstract fairness); `TurnEnds`;
  `NobodyIsKeptWaiting`: triggers are decided, the controller is freed, a disconnect returns.
* `RuntimeInvariant`: a held revision always has an active turn or an outstanding idle call
  behind it, native memory has one owner, inference is never in a closed engine. `RuntimeIsCoherent`: with
  the mutex free, settings, engine, endpoint configuration and file are one revision.
  `HeldRevisionOnlyAdvances`, `HeldRevisionResolves`.
* `RingHoldsLatest`: whatever was written in which portions and however the ring grew, `Tail` is
  the latest samples in order, as many as were there before and have room; growing loses none. `HandoffInvariant`:
  the audio of a turn positioned before a loss of
  the wake subscription is what was captured from its position on, each sample once; if all frames before
  a turn are remembered, none fails to join it. `GateInvariant`: a decision is by the voice activity
  of the lookback in force, accepted wakes are apart by the interval in force, counts and timings
  are of the right steps. `InferenceIsIncremental`: the embeddings are those of one full window
  after the other, the classifier reads the newest.
* `SessionInvariant`: the gateway of a session sees well-ordered frames of turns of that session only,
  `TurnSent` is true, the turn flag is released. `SendTurnReturns`; `TeardownCompletes`.
* `GatewayInvariant`: an entry never belongs to a handler that has returned, a serving session is
  registered or about to be closed. `ReloadIsDelivered`: who was registered when a reload began
  has it, or is being closed. `TurnFilesAreWhole`: no staged file outlives its session, what is
  published is whole. `VersionsNeverRegress`: on one connection.
* `PairingInvariant`: the pairing file holds, now and after a power cut, a gateway that has welcomed this
  device at that place; a session is remembered. `AdvertisedIsFound`: a record leads the
  device to the endpoint it was made for or is refused, and what is published stands for the gateway.
  `BrowseInvariant`: an answer is what is announced, in whatever order it came. `DiscoveryProgresses`.
* `RingInvariant`: the indicator's last command is the one for the connection, the animator shows the last
  command, and outside of turns the ring misleads for known causes only. `RingSettles`.
  `GestureInvariant`, `PressesAreReported`: one well-formed gesture per press, from its own timer, told to its
  end. `FlashEnds`.
* `DaemonInvariant`: mute restored, ring dark, nothing left open. `ShutdownReturns`. `StoreInvariant`,
  `IdentityInvariant`, `LogInvariant`, `TrustInvariant`, `WifiInvariant`, `ProfileInvariant`.

Exceptions that some of them need, each a way the code falls short of a simpler statement: a listed model
may be missing when an installer ended between a rename and its sync, and then one bad entry hides every model from
List and Get; an id is unstable when its file was blank at first, or was read before it was synced; lowering the
limit of a log cuts its newest bytes; a ring stays lit when a write failed or the animator had a frame in
hand; a network restarted under a run renumbers the ids the run uses. They are conjuncts or antecedents of the
properties, and named there.

Bounds are constants named in the modules and appear in guards or in the sets actions choose
from: `MaxSessions`, `MaxVersion`, `MaxIdlers`, `MaxTurns`, `MaxFrames`, `MaxConns`, `MaxOffset`, `MaxFinishes` (beyond
it finishes are not counted), `Finishers` (goroutines running `finish` at once; with all of them busy
`Spawn` waits), `MaxSteps`, `MaxDelay`, `MaxChanges`, `MaxMoves`, `MaxFaults`, `MaxEvents`, `MaxIfaces`, `MaxPresses`,
`MaxRepeats`, `MaxUnread`, `MaxTriggers`, `MaxFlashes`, `MaxToggles`, `MaxInstalls`, `MaxKills`, `MaxCuts`,
`MaxResolves`, `MaxBytes`, `MaxStarts`, `MaxRuns`, `MaxRefusals`, `MaxRestarts`, `MaxReloads`.

## 4 Fairness

Fairness is put on what goroutines do by themselves, never on what the world decides (triggers,
sessions, messages, failures, reloads).

* *Goroutines run.* Weak fairness of the steps of a goroutine that is able to take one.
* *Frames keep coming* (`ObserveFrame`, `RunObserve`): capture delivers a frame every few
  milliseconds while it runs; properties of `TurnCoordinator` are conditional on `running`.
* *A `select` is random among ready channels*, so a queued trigger is taken (`RunStart`).
* *Locks are handed over*: strong fairness of `Idle` (Go's mutex gives itself to a waiter that was
  overtaken for a millisecond) and of `Swap` (a waiting writer blocks new readers).
* *A blocked channel send is first in line* for the next slot: strong fairness of `SendPCM`.
* *Writes end*, if need be by TCP's own timeout: `Writer`. A read may last for ever as long as the
  session's context is not done; `Done /\ ReaderStops` is fair, `ReaderStops` is not.

* *Announcements arrive in the end*: strong fairness of a browse that is answered by every
  gateway there is. *Deadlines pass, timers fire, ticks come* (`WindowEnds`, `TimerFires`, `Fire`, `Tick`).
* *A watcher's select is fair to its timers*: strong fairness of `Take`. Nobody is obliged to press or
  release a key; that a press was seen to begin and end is a premise.
* *A cancelled worker returns*, the capture only when its microphone is closed (`MustEnd`).

The other modules are checked for safety only, their specifications state no fairness.

## 5 What is proved

The theorems hold for every value of the constants that satisfies the module's assumption. Those
assumptions are weak: the bounds are naturals (channel capacities positive), the sets of callers
and finishers finite, the nil pointers are not revisions or engines, frame lengths and the frames of an
inference step positive. Where an assumption says something of the code's surroundings, it is named below.

* `ListeningProofs`, about each part of `Listening`.
  *Handoff.* `HandoffSafe` (`HandoffInvariant`) and `RingIsWindow` (`RingHoldsLatest`), for all sizes of steps, channels, pre-rolls and
  history. `PipelineShape`: what waits for the pipeline is in order, holes included, and the array is a window on what was written
  (`IsWindow`), which a lemma for each method of `Ring` keeps, of a length that only the capacity
  of the time bounds (`kept`); so a detection's request is placed where its pre-roll is,
  as long as nothing is missing (`RequestShape`). `TurnShape` says the same of the turn. `NothingIsMissing` gives a gap its
  cause: unless a frame was forgotten, history and channel are the captured audio without a hole (`Seamless`), and in a turn
  what waits begins behind nothing later than its end.
  *Gate.* `GateSafe` (`GateInvariant`): `ScoresAreKept`, `LastIsKept` and `TimingsAreAged` say which steps of the log the kept
  scores, the last acceptance and the circular window of timings stand for, through changes of the lookback.
  *Endpoint.* `EndpointTypes`; `ControllerSafe` (`ControllerInvariant`), inductive as it stands; `ReasonSafe`
  (`ReasonMatchesHistory`): `CountersFollowFrames` relates the three counters to sums over the whole history and to the
  longest run of frames that ends with the last.
  *Engine.* `InferenceSafe` (`InferenceIsIncremental`), for any chain of the modelled operators that `NewStream` accepts, of any length,
  and any steps and resets. The inductive invariant `StreamIsWhole` says that what the stages hold back
  belongs to a list of streams, the first of them the frames heard and the last the embeddings, each of which is what its
  operator makes of the one before it (`Streams`), a stage holding what its next window needs; `RingIsNewest` has the history of the classifier.
  `Fits` counts windows, and `FitsGrow` says how many more there are with more rows. From that: `KernelIs` (a kernel given so many
  rows), `RunIs` (a stage given more rows passes on exactly what the whole stream has in addition, or fails),
  `StreamGrows` (so does a whole write), `FramesGrow` and `RingGrows`. `Counts`, `WindowIs` and `StreamIs` go from there to the
  statement: a stream has one embedding for each window of `Receptive` rows, `Stride` rows apart, and that embedding
  is what the whole model computes of that window. Operators whose kernel reads further than
  their stage waits (a dilation) are part of it: they have never passed on a row (`Runs`).
  One assumption is about the model file: a dilation is positive, as the format has it. `decodeOptions` does not
  check that (`schema.go:401-402`), and for a dilation of 0 the statement is false: the stage waits for rows its kernel does
  not need, so the first embedding comes after more frames than the whole model reads.

  What a recursive function computes is proved by a least counterexample: `NatMin` (a set of naturals has a least
  element), from it `RecursiveFunction` (the function exists) and `Upwards` (what holds at every place).
* `TurnCoordinatorProofs`. The invariants of the run are not inductive: they need `SessionShape`,
  which ties `connected`, `pending` and `becameIdle` to the progress of SetConnected (a
  disconnect clears both flags in the critical section in which it stops being connected).
  `IInv` is its conjunction with `TypeOK`, `ActiveTurnCanEnd` and `PendingIsBacked`. From it
  `TypeCorrect`, `CoordinatorSafe` and `CoordinatorRefines`: every step is a step of
  `TurnActivity` or leaves its two variables alone. The mapping counts goroutines, so the proof
  follows the cardinality of the set of finishes that owe a call.
* `RuntimeConfigProofs`. `IInv` adds to the checked invariants `HolderShape`, what the holder of the mutex may rely on
  at each point of its body (for example that at `hold` a turn is active or its idle call is
  outstanding, although the answer of `Active()` is old: the turn may have ended, but then its
  idle call waits for the mutex), and
  `EngineShape`, which engine has which owner. From it `TypeCorrect`, `NeverStranded` and
  `EnginesSafe`, together `RuntimeSafe` (`RuntimeInvariant`). On top of it `CoherentShape` says which copies of the revision (file, endpoint,
  engine, settings) are already the new one at each point of `applyLocked`; it gives
  `OneRevisionRuns` (`RuntimeIsCoherent`) and `HeldAdvances` (`HeldRevisionOnlyAdvances`).

* `ClientSessionProofs`. `SessionSafe` (`SessionInvariant`) for any number of turns and reporters and every queue capacity from
  three on. What the connection and the queue hold between other frames is one stream, ended by the frame the sender is
  about to queue; `StreamShape` says that each frame may follow the one before it, that nothing of a turn comes after its
  `audio.stop`, and that the PCM frames on the connection, in the queue and still to be queued are as many as
  the turn has. `WorkerShape` and `SessionShape` say which part of it is empty in which phase: this is where the
  draining of the queue and the room for three control frames are used.
* `GatewaySessionsProofs`. `RegistrySafe` (`GatewayInvariant`), `ReloadDelivered` (`ReloadIsDelivered`),
  `TurnFilesSafe` (`TurnFilesAreWhole`) and `VersionsMonotone` (`VersionsNeverRegress`), for any number of devices,
  connections, reloads and turns. `RegistryIsLive` is not inductive: a handler between `register` and the
  close of its predecessor must be covered too (`RegistryShape`), and only a handler that has registered is known to
  anybody (`ConnShape`). `LoopShape` has what the reload loop still owes at each of its points, `VersionShape` that
  nobody is ahead of the store. For the files, `OwnerShape` gives each turn one session and `TurnShape` relates
  receiver and directory twice: while frames may come, and after an operation failed (`Serving`, `Sound`); a lemma for
  each method of the receiver says which of the two it keeps.
* `DiscoveryProofs`. `PairingSafe` (`PairingInvariant`), for any gateways, addresses, moves and disk errors.
  `AttemptShape` is what an attempt may rely on when it gets to a phase: a gateway at the other end of its endpoint, that
  gateway's welcome, and the file it renamed.
  `BrowseSafe` (`BrowseInvariant`), for any names, gateways, endpoints, addresses and number of responses. The merge is a
  recursion over the entries in an order Go chooses; `IsGathered` says what a set of entries comes to without
  naming an order (each gateway, its least endpoint, the addresses given for that one, each once),
  `MergeGathers` that one merge keeps it for one entry more, and `RebuildGathers` that so does the whole walk, whichever it is.
  `BrowseShape` is `IsGathered` for what is known of the names now, with what was last heard under
  each of them. One assumption is about the mDNS library: no response carries an address twice (`instanceFromEntry`
  does not look for that, and an answer would repeat it).
  `AdvertisedSafe` (`AdvertisedIsFound`): *record*, for any host labels, from the options of the gateway
  through what may have been appended to the endpoint of the device (`AdvertisedFound`, `TamperedRefused`, on lemmas of what
  `ParseTXT` and `preferInterfaceSubnets` return); *advertiser*, for any number of interfaces with any addresses:
  `TargetsAreRight` says of `advertisementTargets` that the targets of its successful return have addresses of their own
  interface only and together every configured one, `AdvertiserShape` which of them are open at each point of `register`.
* `DeviceDataProofs`. `DaemonSafe`: mute, ring, microphone and engine are given back, in both modes, wherever setup or shutdown fails; the
  inductive invariant adds which steps of the plan are ahead and which calls are deferred (`PlanShape`), that only
  what has a deferred call is open (`OpenShape`), and which device remembers which frame (`RingShape`, the
  reason for the exceptions of `RingIsLeftDark`). `StoreSafe`, for any number of installers, models, kills and
  power cuts: at each label of an installer, which of its files are visible and which durable
  (`InstallerShape`, `DiskShape`), and that the index was durable before success was reported (`AckShape`).
  `IdentitySafe`, for any number of resolvers; `TrustSafe`, for any releases and keys; `ProfileSafe`, for any documents,
  devices and reloads.
  `LogSafe` (`LogInvariant`), for any limits of up to four files, kills and errors: each generation goes on where the one
  before it ends (`LogFollows`), each is bounded, and the one a rotation moves finds its place free (`WriterShape`); an undisturbed
  log is whole up to its oldest generation, with one place that may be short: the file that is written, or the one
  the rotation has just freed (`GenerationsAreWhole`).
  `WifiSafe` (`WifiInvariant`), for any operators, names, refusals and restarts. While no run has met a restart or
  another run for its name, runs have names and networks of their own (`RunShape`), so a step of one leaves what is another's
  (`LeavesOthers`); the only run for a name has listed every network of that name (`NameShape`). `MadeShape` says, of restarts and
  rivals too, that a network a run has added is the one it is at work on, or the run has succeeded, or its number was never learnt, or
  its removal was refused; `HalfShape` that a network without a key, running or saved, has such a reason (`Explained`); and
  `UsableShape` where a network that was saved is to be found: saved, unless another run saved while
  none of its name was running (`SaveMixes`).
  Numbers of networks are ranks in a finite set: `RanksAre` shows that each has one place.
  Four assumptions tie the constants to what the code refuses and to markers of the model: a log has at least one byte per
  file, an operator's name is not the blank one of a new network, *no sidecar at all* is not a
  sidecar, and the ids resolvers make up, which are numbered, do not reach the number that stands for
  a blank file.
* `PanelProofs`. `RingSafe` (`RingInvariant`), for any number of sessions, triggers and turns and any length of an animation.
  `LinkShape` ties what the indicator was told to where the session is and says that before the next session the ring
  is right, stray or booting; `FrameShape` what the animator knows of the last request it has not seen changed: its
  target, and a frame that is that target or a step of the way there. `GesturesSafe` (`GestureInvariant`), for any keys, presses and
  repeats. `KeyShape` says that in the stream a key goes down and up in turn, so that the recognizer has it up when a press is
  read; `PressShape` that nothing was said of a press before it is read; `TimerShape` that of the timers of a key,
  running, fired or about to be started again, at most one is of the current generation and it is of the press under
  way: those that fired are not in the invariant of the run, but one of them could become the gesture of another press;
  `GestureShape` relates what was said of a press, what waits for the consumer and what the
  recognizer remembers. The assumption keeps the codes of watched keys apart from the markers of the model.

Attempts that failed led to changes of the models: a CASE whose arms overlap leaves open which of
them is meant (TLC takes the first), so the sender of `ClientSession`, the plan of `Daemon` and two
references of the runs are written with disjoint ones; `Daemon` names what the deferred close of
the microphone becomes instead of filtering the list; and the loops of `AudioRing` and `CaptureHandoff` are recursive
functions instead of folds, of whose definition the provers know nothing; so are the loops of `Browse`, `ServiceRecord`
and `WakeEngine`, which now takes chains of any length. The targets
of `Advertiser` are a set, opened in the order of their interfaces. For the same reason `WifiProvisioning`
orders numbers by rank, and `LogRotation` has one sequence of bytes per generation, empty where no file is.

Model-checked only: all liveness, the proof system having no rule for it here, nor for ENABLED. Every other property of a run
that passes, invariant or action property, has its theorem.

No module uses a RECURSIVE operator.

## 6 Where the code and its documents disagree

Three runs end in a counterexample; `PROJECT.json` quotes the sentence each contradicts.

| run | what happens |
|---|---|
| `stale_turn` | `finish` reads `connected`, unlocks, and sends after a disconnect has drained the channel and a new session has begun: audio of the old session is sent in the new one |
| `lost_stop` | room for three control frames is tested and then used up by PCM, so `audio.stop` is refused and the next `turn.start` comes inside the unclosed turn |
| `pairing_forgotten` | with discovery disabled an attempt that was not welcomed puts the pairing aside, and only a welcome takes it up again: a device whose paired gateway was away once never connects |

Further statements, some of the documents and some that a reader may take for granted, are written down as
properties that no run checks. TLC refutes each of them.

* `NoDuplicates` (CaptureHandoff): the pipeline counts the samples it was handed, not those
  captured: once its subscription has lost a frame, every later pre-roll is placed too early and frames it
  contains are appended to it again.
* `RevisionsNeverRegress` (RuntimeConfig): `Apply` finds no turn any more and applies a newer
  revision directly while an older one is still held; the outstanding idle call applies the older over it.
* `EveryoneIsCurrent` (GatewaySessions): a device that has read its welcome configuration and
  registers after the reload has listed the devices keeps the old profile.
* `TriggersStayInTheirSession` (TurnCoordinator): `Trigger` sends after its check; the same race
  as `stale_turn` at the other channel.
* `OverrunIsReal` (TurnCoordinator): every frame of a broken turn spawns a finish; one that is
  left over ends the next turn as `capture_overrun`, which dropped nothing.
* `PendingComesFirst` (RuntimeConfig): the reader queues `pending` after the idle caller reported
  `applied` for the same revision.
* `SwapsOnlyWhenIdle` (RuntimeConfig): a turn begins between the answer of `Active()` and the swap.
  `ScoresOpenEngine` shows that this is harmless for inference.
* `RefusedStaysOut` (RuntimeConfig): the directory sync fails after the rename; the revision is
  refused and run at the next start.
* `AlwaysStarts` (RuntimeConfig): an unreadable state file gives zero settings instead of the
  bootstrap ones, and the endpoint controller refuses them.
* `NewestReplaces` (GatewaySessions): a handler that was delayed between its welcome and
  `register` replaces the session of a later connection.
* `EngineHearsEverything` (WakeGate): with scoring on voice only, the engine is not given the steps in
  between and scores audio with holes.
* `AcceptedStreamRuns` (WakeEngine): a dilated convolution is accepted by `NewStream` and fails
  with the first full window.
* `OfflineIsRed` (Indicator): nothing corrects a stray command until the session changes or a turn ends.
* `HoldsEndAsHolds` (Buttons): the timer's clock and the kernel's disagree about a release close to the
  threshold; a hold starts and ends as a tap. `FlashIsWhole` (WakeFeedback): a callback that waits for the
  mutex cuts the next flash short.
* `CloseLeavesRingDark` (Daemon): the animator has a frame in hand when its service is closed; a write that
  fails leaves the test indicator lit, and the cached clear of its device does not help.
* `WriterRecovers` (LogRotation): a failed rotation leaves the file closed, and every further one ends at
  closing it again.
* `VerifiedMeansVerified` (ReleaseTrust): with unsigned releases allowed and no key at all, the report says
  of a signature that it was verified.
* `FailureLeavesOnline` (WifiProvisioning): a run that fails leaves the supplicant without the
  network it was to replace, and a failure after the selection leaves every other off.

Smaller facts the modelling met: reinstalling the same bytes with another sidecar is refused, with overwrite
too; the protocol has no maximum for the lookback while the device's `wake.Config` has one of 10 s, so the
gateway accepts a profile that every device refuses; a gateway that is started again takes any version;
`Engine.Reset` has no caller outside tests, and neither has `release.Eligible`.

## 7 What is not modelled

* *Inside the modelled components:* the WebSocket and mDNS libraries and TLS (a connection works until
  it fails); ping and pong in the gateway, which none of the programs here sends to it; metadata
  snapshots; wording of errors and logs; errors of `os.Remove` the code itself ignores. A write
  that hangs without failing is bounded by TCP only, and its effect on the heartbeat, which runs
  on the same goroutine, is a listed hazard without a property.
* *Numeric code:* ALSA, mixer, sample conversion, the arithmetic of the inference kernels, the energy detector, the
  model file format. What a kernel reads is modelled, what it computes is not.
* *Without state:* option parsing, log levels, most of `echoctl` (one-shot commands that call the
  modelled code), key derivation of the Wi-Fi passphrase.
* *Without a caller outside tests:* `release.Eligible`, `Ring.Reset`.
* `system/resources.go` reads `/proc/self` for the worker that logs statistics in the wake-only mode
  (`logWakeStats`); a read that fails ends that worker, which is one of `Daemon`'s workers that may end by
  themselves. The figures are left out.
* *The simulator* is a second composition root over the same client and the same state file; its turn
  source hands out the one turn of its WAV file, run through the controller `Endpointing` models.

## 8 The plan

Everything of section 1 that keeps state is written. Next, in order of importance:

1. `TurnWire`: `ClientSession`'s frames against `GatewaySessions`' receiver, with an abstract
   specification of a turn as delivered whole or not at all.
2. `DesiredState`: gateway store, pushes, `RuntimeConfig` and results over two sessions; an
   abstract specification of convergence to the newest profile.
3. One abstract specification of atomic publication that `WakeStore`, `DeviceIdentity` and the pairing
   file implement.
