---------------------------- MODULE RuntimeConfig ----------------------------
(***************************************************************************)
(* Desired-state delivery on the device: deviceRuntimeConfig and           *)
(* swappableWakeEngine of cmd/echod/runtime.go over deviceconfig.Store.    *)
(* The client's reader calls Apply, every end of a turn calls applyPending *)
(* through onIdle; both hold c.mu for their whole body, but the turn they  *)
(* ask about with turns.Active() lives under another lock and moves on.    *)
(* Turns appear as TurnActivity, which TurnCoordinator implements, and the *)
(* endpoint controller as the revision staged to it last, which is what    *)
(* its next turn uses (LatestRevisionIsNext of Endpointing).               *)
(***************************************************************************)
EXTENDS Naturals, FiniteSets

CONSTANTS
    MaxVersion,  \* bound on revision numbers a gateway sends
    Contents,    \* what two revisions with the same number may differ in
    NoRevision,  \* the nil pending pointer, and a missing state file
    Engines,     \* handles of prepared wake engines, reused once closed
    NoEngine,
    MaxIdlers    \* bound on outstanding onIdle callers

Bootstrap == [version |-> 0, content |-> "local"]
Revisions == [version : 1..MaxVersion, content : Contents]

ASSUME RuntimeAssumption ==
    /\ MaxVersion \in Nat /\ MaxIdlers \in Nat
    /\ NoRevision \notin Revisions \cup {Bootstrap}
    /\ NoEngine \notin Engines /\ Engines # {}

VARIABLES
    up,             \* the process runs
    settings, pending, pendingEngine,
    lock,           \* holder of deviceRuntimeConfig.mu: "free", "apply" or "idle"
    pc, job,        \* where the holder is, and its locals
    endpoint,       \* the revision the endpoint controller uses next
    live,           \* swappableWakeEngine.engine
    open,           \* engines prepared and not closed
    madeFor,        \* the revision an engine was prepared for
    scoring,        \* the engine a Score call holds the read lock on
    stored, disk,   \* the state file: what Save wrote last, and its condition
    reply,          \* a result Apply returned and the reader has not queued yet
    active, idlers, \* TurnActivity
    \* History, read by properties only:
    sent,           \* the last result queued for the gateway
    unsynced        \* the file holds a revision whose Save reported an error

config == <<settings, pending, pendingEngine>>
wake == <<live, open, madeFor, scoring>>
turns == <<active, idlers>>
results == <<reply, sent>>
vars == <<up, config, lock, pc, job, endpoint, wake, stored, disk, results, turns, unsynced>>

Turns == INSTANCE TurnActivity

NoResult == [version |-> 0, status |-> "none"]
Result(c, status) == [version |-> c.version, status |-> status]
Job(c, e) == [candidate |-> c, engine |-> e, previous |-> NoEngine]
NoJob == Job(NoRevision, NoEngine)

\* The handle of a newly prepared engine; which of the free ones is no matter.
Handle(free) == CHOOSE e \in free : TRUE

\* A process that has just loaded the revision r.
Fresh(r) ==
    /\ settings' = r /\ pending' = NoRevision /\ pendingEngine' = NoEngine
    /\ lock' = "free" /\ pc' = "none" /\ job' = NoJob
    /\ endpoint' = r /\ scoring' = NoEngine
    /\ live' = Handle(Engines) /\ open' = {live'} /\ madeFor' = [madeFor EXCEPT ![live'] = r]
    /\ reply' = NoResult /\ sent' = NoResult
    /\ active' = FALSE /\ idlers' = 0

Init ==
    /\ up = TRUE
    /\ settings = Bootstrap /\ pending = NoRevision /\ pendingEngine = NoEngine
    /\ lock = "free" /\ pc = "none" /\ job = NoJob
    /\ endpoint = Bootstrap /\ scoring = NoEngine
    /\ live = Handle(Engines) /\ open = {live} /\ madeFor = [e \in Engines |-> Bootstrap]
    /\ stored = NoRevision /\ disk = "good"
    /\ reply = NoResult /\ sent = NoResult
    /\ Turns!Init
    /\ unsynced = FALSE
-----------------------------------------------------------------------------
(* Apply.  The reader handles one message at a time and queues the result  *)
(* of one before it reads the next.                                        *)

Receives(c) == up /\ lock = "free" /\ reply = NoResult

\* Mutant: a held revision is ignored by the comparison.
CurrentIgnoringPending == settings

current == IF pending # NoRevision THEN pending ELSE settings

\* deviceconfig.Compare lets a revision pass if it is the current one or has
\* a higher number; the bootstrap revision 0 is below all of them.
Newer(c) == c.version > current.version

Answer(result) == reply' = result /\ sent' = sent

\* stale_version, conflicting_version, or for any revision whatever the
\* gateway's message or the model store makes fail: invalid_config,
\* model_unavailable, resource_unavailable.
ApplyRejected(c) ==
    /\ Receives(c)
    /\ Answer(Result(c, "rejected"))
    /\ UNCHANGED <<up, config, lock, pc, job, endpoint, wake, stored, disk, turns, unsynced>>

\* The revision in force, or held, arrives again.
ApplyAgain(c) ==
    /\ Receives(c)
    /\ current.version # 0 /\ c = current
    /\ Answer(Result(c, IF pending # NoRevision THEN "pending" ELSE "applied"))
    /\ UNCHANGED <<up, config, lock, pc, job, endpoint, wake, stored, disk, turns, unsynced>>

\* Mutant: the turn is looked at before the mutex is taken, so the answer and
\* its use are not protected against applyPending.
ApplyPreparedUnlocked(c) ==
    /\ up /\ reply = NoResult /\ pc = "none"
    /\ Newer(c)
    /\ Engines \ open # {}
    /\ LET e == Handle(Engines \ open) IN
        /\ open' = open \cup {e} /\ madeFor' = [madeFor EXCEPT ![e] = c]
        /\ job' = Job(c, e)
    /\ lock' = IF active THEN "free" ELSE "apply"
    /\ pc' = IF active THEN "hold" ELSE "save"
    /\ UNCHANGED <<up, config, endpoint, live, scoring, stored, disk, results, turns, unsynced>>

\* Validation, pre-roll growth and preparation succeed; then turns.Active()
\* is asked once, and what follows acts on that answer.
ApplyPrepared(c) ==
    /\ Receives(c)
    /\ Newer(c)
    /\ Engines \ open # {}
    /\ LET e == Handle(Engines \ open) IN
        /\ open' = open \cup {e} /\ madeFor' = [madeFor EXCEPT ![e] = c]
        /\ job' = Job(c, e)
    /\ lock' = "apply"
    /\ pc' = IF active THEN "hold" ELSE "save"
    /\ UNCHANGED <<up, config, endpoint, live, scoring, stored, disk, results, turns, unsynced>>

Release == lock' = "free" /\ pc' = "none" /\ job' = NoJob

\* Mutant: the engine of a superseded revision is forgotten.
ApplyHoldLeaks ==
    /\ pc = "hold"
    /\ pending' = job.candidate /\ pendingEngine' = job.engine
    /\ Release
    /\ Answer(Result(job.candidate, "pending"))
    /\ UNCHANGED <<up, settings, endpoint, wake, stored, disk, turns, unsynced>>

\* A turn was active: the revision is held, in place of one held before.
ApplyHold ==
    /\ pc = "hold"
    /\ open' = open \ {pendingEngine}
    /\ pending' = job.candidate /\ pendingEngine' = job.engine
    /\ Release
    /\ Answer(Result(job.candidate, "pending"))
    /\ UNCHANGED <<up, settings, endpoint, live, madeFor, scoring, stored, disk, turns, unsynced>>

\* The reader queues what Apply returned.
QueueResult ==
    /\ up /\ reply # NoResult
    /\ sent' = reply /\ reply' = NoResult
    /\ UNCHANGED <<up, config, lock, pc, job, endpoint, wake, stored, disk, turns, unsynced>>
-----------------------------------------------------------------------------
(* applyPending, from onIdle.                                              *)

\* Nothing is held, or another turn is active already: the caller returns.
IdleReturns ==
    /\ up /\ lock = "free" /\ idlers > 0
    /\ pending = NoRevision \/ active
    /\ Turns!OnIdle
    /\ UNCHANGED <<up, config, lock, pc, job, endpoint, wake, stored, disk, results, unsynced>>

\* A held revision and no turn: the caller goes on to applyLocked.
IdleApplies ==
    /\ up /\ lock = "free" /\ idlers > 0
    /\ pending # NoRevision /\ ~active
    /\ lock' = "idle" /\ pc' = "save"
    /\ job' = Job(pending, pendingEngine)
    /\ UNCHANGED <<up, config, endpoint, wake, stored, disk, results, turns, unsynced>>

\* report queues a result from inside applyPending.
Report(result) == sent' = result /\ reply' = reply

Forget == pending' = NoRevision /\ pendingEngine' = NoEngine
-----------------------------------------------------------------------------
(* applyLocked, on behalf of either.                                       *)

\* Store.Save succeeds and the controller is staged.
SaveSucceeds ==
    /\ pc = "save"
    /\ stored' = job.candidate /\ disk' = "good"
    /\ unsynced' = FALSE
    /\ endpoint' = job.candidate
    /\ pc' = "swap"
    /\ UNCHANGED <<up, config, lock, job, wake, results, turns>>

\* Mutant: the deferred revision stays held after its persistence failed.
SaveFailsKeepingPending ==
    /\ pc = "save"
    /\ \/ UNCHANGED <<stored, disk, unsynced>>
       \/ stored' = job.candidate /\ disk' = "good" /\ unsynced' = TRUE
    /\ open' = open \ {job.engine}
    /\ Release
    /\ IF lock = "apply"
         THEN /\ Answer(Result(job.candidate, "rejected"))
              /\ UNCHANGED <<pending, pendingEngine, turns>>
         ELSE /\ Report(Result(job.candidate, "rejected"))
              /\ Turns!OnIdle /\ UNCHANGED <<pending, pendingEngine>>
    /\ UNCHANGED <<up, settings, endpoint, live, madeFor, scoring>>

\* Save reports an error, before the rename or, from the directory sync,
\* after it.  The prepared engine is closed and the revision given up.
SaveFails ==
    /\ pc = "save"
    /\ \/ UNCHANGED <<stored, disk, unsynced>>
       \/ stored' = job.candidate /\ disk' = "good" /\ unsynced' = TRUE
    /\ open' = open \ {job.engine}
    /\ Release
    /\ IF lock = "apply"
         THEN /\ Answer(Result(job.candidate, "rejected"))
              /\ UNCHANGED <<pending, pendingEngine, turns>>
         ELSE /\ Report(Result(job.candidate, "rejected"))
              /\ Turns!OnIdle /\ Forget
    /\ UNCHANGED <<up, settings, endpoint, live, madeFor, scoring>>

\* Mutant: Swap does not wait for Score calls.
SwapWithoutWriteLock ==
    /\ pc = "swap"
    /\ job' = [job EXCEPT !.previous = live]
    /\ live' = job.engine
    /\ pc' = "publish"
    /\ UNCHANGED <<up, config, lock, endpoint, open, madeFor, scoring, stored, disk, results,
                   turns, unsynced>>

\* Swap under the write lock: no Score call is inside the engine.
Swap ==
    /\ pc = "swap" /\ scoring = NoEngine
    /\ job' = [job EXCEPT !.previous = live]
    /\ live' = job.engine
    /\ pc' = "publish"
    /\ UNCHANGED <<up, config, lock, endpoint, open, madeFor, scoring, stored, disk, results,
                   turns, unsynced>>

\* Mutant: settings is published by Apply only.
PublishForgetsIdle ==
    /\ pc = "publish"
    /\ open' = open \ {job.previous}
    /\ Release
    /\ IF lock = "apply"
         THEN /\ settings' = job.candidate
              /\ Answer(Result(job.candidate, "applied"))
              /\ UNCHANGED <<pending, pendingEngine, turns>>
         ELSE /\ settings' = settings
              /\ Report(Result(job.candidate, "applied"))
              /\ Turns!OnIdle /\ Forget
    /\ UNCHANGED <<up, endpoint, live, madeFor, scoring, stored, disk, unsynced>>

\* The replaced engine is closed after the unlock, settings is assigned, and
\* the caller answers or reports.  Apply does not clear a held revision.
Publish ==
    /\ pc = "publish"
    /\ open' = open \ {job.previous}
    /\ settings' = job.candidate
    /\ Release
    /\ IF lock = "apply"
         THEN /\ Answer(Result(job.candidate, "applied"))
              /\ UNCHANGED <<pending, pendingEngine, turns>>
         ELSE /\ Report(Result(job.candidate, "applied"))
              /\ Turns!OnIdle /\ Forget
    /\ UNCHANGED <<up, endpoint, live, madeFor, scoring, stored, disk, unsynced>>
-----------------------------------------------------------------------------
(* The surroundings: wake inference, turns, restarts, the disk.            *)

Others == <<up, config, lock, pc, job, endpoint, live, open, madeFor, stored, disk, results, unsynced>>

ScoreBegins == up /\ scoring = NoEngine /\ scoring' = live /\ UNCHANGED <<Others, turns>>
ScoreEnds == scoring # NoEngine /\ scoring' = NoEngine /\ UNCHANGED <<Others, turns>>

TurnBegins == up /\ Turns!Begin /\ UNCHANGED <<Others, scoring>>
TurnStops == idlers < MaxIdlers /\ Turns!End /\ UNCHANGED <<Others, scoring>>
TriggerDiscarded == up /\ idlers < MaxIdlers /\ Turns!DiscardTrigger /\ UNCHANGED <<Others, scoring>>

\* The state file is damaged: it no longer parses, or cannot be read.
DiskFails ==
    /\ stored # NoRevision /\ disk = "good"
    /\ disk' \in {"corrupt", "unreadable"}
    /\ UNCHANGED <<up, config, lock, pc, job, endpoint, wake, stored, results, turns, unsynced>>

\* A crash at any point and the next start, which reads the state file.
\* Store.Load returns zero settings for an unreadable file, and runConnected
\* then fails to create the endpoint controller.
Restart ==
    /\ Fresh(IF stored = NoRevision \/ disk # "good" THEN Bootstrap ELSE stored)
    /\ up' = (stored = NoRevision \/ disk # "unreadable")
    /\ UNCHANGED <<stored, disk, unsynced>>
-----------------------------------------------------------------------------
ApplyLocked == SaveSucceeds \/ SaveFails \/ Swap \/ Publish
Idle == IdleReturns \/ IdleApplies

Next ==
    \/ \E c \in Revisions : ApplyRejected(c) \/ ApplyAgain(c) \/ ApplyPrepared(c)
    \/ ApplyHold \/ QueueResult
    \/ Idle \/ ApplyLocked
    \/ ScoreBegins \/ ScoreEnds
    \/ TurnBegins \/ TurnStops \/ TriggerDiscarded
    \/ DiskFails \/ Restart

\* Goroutines that hold the mutex run, and a Score call returns.  Strong
\* fairness where locks are acquired: Go's Mutex hands itself to a waiter that
\* was overtaken for long, and its RWMutex blocks new readers behind a waiting
\* writer, so neither applyPending nor Swap is overtaken for ever.  Gateway messages, turns
\* and failures are up to the world.
Fairness ==
    /\ WF_vars(ApplyHold) /\ WF_vars(QueueResult) /\ SF_vars(Idle)
    /\ WF_vars(SaveSucceeds \/ SaveFails) /\ SF_vars(Swap) /\ WF_vars(Publish)
    /\ WF_vars(ScoreEnds)

Spec == Init /\ [][Next]_vars /\ Fairness
-----------------------------------------------------------------------------
Results == [version : 0..MaxVersion, status : {"none", "pending", "applied", "rejected"}]

TypeOK ==
    /\ up \in BOOLEAN
    /\ settings \in Revisions \cup {Bootstrap} /\ pending \in Revisions \cup {NoRevision}
    /\ pendingEngine \in Engines \cup {NoEngine}
    /\ lock \in {"free", "apply", "idle"} /\ pc \in {"none", "hold", "save", "swap", "publish"}
    /\ job \in [candidate : Revisions \cup {NoRevision}, engine : Engines \cup {NoEngine},
                previous : Engines \cup {NoEngine}]
    /\ endpoint \in Revisions \cup {Bootstrap}
    /\ live \in Engines /\ open \subseteq Engines /\ scoring \in Engines \cup {NoEngine}
    /\ madeFor \in [Engines -> Revisions \cup {Bootstrap}]
    /\ stored \in Revisions \cup {NoRevision} /\ disk \in {"good", "corrupt", "unreadable"}
    /\ reply \in Results /\ sent \in Results
    /\ active \in BOOLEAN /\ idlers \in Nat
    /\ unsynced \in BOOLEAN

\* A held revision is never stranded: a turn is active whose end will owe an
\* onIdle call, or such a call is outstanding ("disconnect cancellation now
\* runs the idle callback so pending desired state is not stranded").
HeldRevisionIsOwed == pending # NoRevision => active \/ idlers > 0

\* Every open engine has an owner that will close it, and owners do not share:
\* no sequence of superseded, deferred, failed and replaced revisions leaks a
\* prepared model or closes one twice.
EnginesAreAccountedFor ==
    /\ open = ({live, pendingEngine, job.engine, job.previous} \ {NoEngine})
    /\ pending = NoRevision <=> pendingEngine = NoEngine
    /\ live # pendingEngine \/ lock = "idle"

\* Wake inference never runs inside a closed engine ("closing the replaced
\* engine cannot race local wake inference").
ScoresOpenEngine == scoring # NoEngine => scoring \in open

\* Whenever the mutex is free, what the device runs is one revision: settings,
\* the wake engine in use and the endpoint configuration agree, and so does
\* the state file unless the disk was damaged or Save reported an error.
RuntimeIsCoherent ==
    up /\ lock = "free" =>
        /\ madeFor[live] = settings /\ endpoint = settings
        /\ disk = "good" /\ ~unsynced =>
               settings = IF stored = NoRevision THEN Bootstrap ELSE stored

\* The revision held for the idle boundary is only ever replaced by one with a
\* higher number; a stale or conflicting one that arrives meanwhile is not
\* held in its place.
HeldRevisionOnlyAdvances ==
    [][NoRevision \notin {pending, pending'} /\ pending' # pending
        => pending'.version > pending.version]_vars

\* Once turns stop, held revisions are resolved: applied, rejected or replaced.
HeldRevisionResolves == <>[](~active) => []<>(pending = NoRevision)
-----------------------------------------------------------------------------
(* What the documents say and the interleavings do not keep.               *)

\* "Devices reject lower versions"; pending revisions take part in the
\* comparison, "avoiding ... revision rollback": with a sound disk the running
\* revision number never decreases.
RevisionsNeverRegress == [][disk = "good" => settings'.version >= settings.version]_vars

\* "reports pending, applies only after idle, then reports applied": the
\* gateway does not hear pending for the revision it has just heard applied for.
PendingComesFirst ==
    [][sent.status = "applied" /\ sent'.status = "pending" => sent'.version # sent.version]_vars

\* "swappableWakeEngine changes model resources only while a turn is idle."
SwapsOnlyWhenIdle == [][pc = "swap" /\ pc' = "publish" => ~active]_vars

\* "persistence errors reject the entire revision and leave the prior runtime
\* untouched": a revision that was refused is not run.
RefusedStaysOut == unsynced => settings # stored

\* "Corrupt or unusable state is reported and falls back to local version 0":
\* the device comes up again whatever the state file holds.
AlwaysStarts == up

\* What holds in every state, also half way through a change: no revision is
\* held for nobody, every engine has its owner and none is used when closed.
RuntimeInvariant ==
    TypeOK /\ HeldRevisionIsOwed /\ EnginesAreAccountedFor /\ ScoresOpenEngine
=============================================================================
