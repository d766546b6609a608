--------------------------- MODULE TurnCoordinator ---------------------------
(***************************************************************************)
(* turnCoordinator of cmd/echod/runtime.go: the sole subscriber of active  *)
(* audio.  Five kinds of goroutine meet in it: the wake consumer and the   *)
(* button watchers call Trigger, Run takes triggers and frames, every      *)
(* `go t.finish` ends a turn, the client session calls SetConnected and    *)
(* its forwarder calls Next.  A step is one critical section of t.mu or    *)
(* one channel operation; whatever the code does after an unlock is a step *)
(* of its own.  Frames are abstracted to what they make appendFrame and    *)
(* the endpoint controller return.                                         *)
(***************************************************************************)
EXTENDS Naturals, Sequences, FiniteSets

CONSTANTS
    Callers,     \* goroutines that call Trigger
    Finishers,   \* bound on goroutines running finish at the same time
    TriggerCap,  \* capacity of the triggers channel, 2 in the code
    DoneCap,     \* capacity of the done channel, 1 in the code
    MaxSessions  \* bound on gateway sessions

ASSUME BoundsAssumption ==
    /\ IsFiniteSet(Finishers) /\ IsFiniteSet(Callers)
    /\ TriggerCap \in Nat \ {0} /\ DoneCap \in Nat \ {0} /\ MaxSessions \in Nat \ {0}

Reasons == {"endpointed", "capture_overrun", "eof"}

VARIABLES
    connected, active, pending,
    listening,   \* the endpoint controller has a turn of its own
    \* Of the active turn; the code keeps its last values, which nobody reads:
    broken,      \* frames were dropped or do not join: every further frame fails
    turn,        \* of t.turn, the sessions of its trigger and of its start
    triggers, done,
    running,     \* Run has not returned
    session,     \* where the client session is in SessionChanged
    becameIdle,  \* local of SetConnected
    caller,      \* 0, or the session in which the caller passed Trigger's check
    fin,         \* the goroutines running finish
    epoch        \* history: number of the current or last session

vars == <<connected, active, pending, listening, broken, turn, triggers, done,
          running, session, becameIdle, caller, fin, epoch>>

Sessions == 1..MaxSessions
Turns == [trigger : 0..MaxSessions, start : 0..MaxSessions]
Finished == [turn : Turns, reason : Reasons, broken : BOOLEAN]

NoTurn == [trigger |-> 0, start |-> 0]
Idle == [pc |-> "none", reason |-> "eof", connected |-> FALSE, turn |-> NoTurn, broken |-> FALSE]

EndTurn == active' = FALSE /\ broken' = FALSE /\ turn' = NoTurn

Init ==
    /\ connected = FALSE /\ active = FALSE /\ pending = FALSE
    /\ listening = FALSE /\ broken = FALSE /\ turn = NoTurn
    /\ triggers = <<>> /\ done = <<>>
    /\ running = TRUE /\ session = "down" /\ becameIdle = FALSE
    /\ caller = [c \in Callers |-> 0]
    /\ fin = [f \in Finishers |-> Idle]
    /\ epoch = 0
-----------------------------------------------------------------------------
(* Trigger, called by the wake consumer and by TriggerButton.              *)

\* The check under the lock; a refused trigger changes nothing.
TriggerCheck(c) ==
    /\ caller[c] = 0
    /\ connected /\ ~active /\ ~pending
    /\ pending' = TRUE
    /\ caller' = [caller EXCEPT ![c] = epoch]
    /\ UNCHANGED <<connected, active, listening, broken, turn, triggers, done, running,
                   session, becameIdle, fin, epoch>>

\* The send after the unlock, or the roll-back if the channel is full.
TriggerSend(c) ==
    /\ caller[c] # 0
    /\ IF Len(triggers) < TriggerCap
         THEN triggers' = Append(triggers, caller[c]) /\ pending' = pending
         ELSE triggers' = triggers /\ pending' = FALSE
    /\ caller' = [caller EXCEPT ![c] = 0]
    /\ UNCHANGED <<connected, active, listening, broken, turn, done, running,
                   session, becameIdle, fin, epoch>>
-----------------------------------------------------------------------------
(* Run: triggers and frames, in whatever order select picks them.          *)

\* `go t.finish(reason)`: a goroutine that has not taken the lock yet.
Spawn(reason) ==
    \E f \in Finishers :
        /\ fin[f].pc = "none"
        /\ fin' = [fin EXCEPT ![f] = [Idle EXCEPT !.pc = "spawned", !.reason = reason]]

Consume == running /\ triggers # <<>> /\ triggers' = Tail(triggers)

\* start gives up: the session is gone, a turn is active, or the controller
\* has not finished its own turn (controller.Start fails).
StartRefused ==
    /\ Consume
    /\ ~connected \/ active \/ listening
    /\ pending' = FALSE
    /\ UNCHANGED <<connected, active, listening, broken, turn, done, running, session,
                   becameIdle, caller, fin, epoch>>

\* Mutant: start relies on the check Trigger made.
StartUnchecked ==
    /\ Consume
    /\ ~active /\ ~listening
    /\ pending' = FALSE
    /\ active' = TRUE /\ listening' = TRUE
    /\ turn' = [trigger |-> Head(triggers), start |-> epoch]
    /\ broken' \in BOOLEAN
    /\ UNCHANGED <<connected, done, running, session, becameIdle, caller, fin, epoch>>

\* start begins the turn.  The remembered frames may already end it: one of
\* them does not join the pre-roll (a gap, which stays), or the controller
\* reaches a verdict on them.  A gap may also lie in frames still to come.
StartTurn ==
    /\ Consume
    /\ connected /\ ~active /\ ~listening
    /\ pending' = FALSE
    /\ active' = TRUE
    /\ turn' = [trigger |-> Head(triggers), start |-> epoch]
    /\ broken' \in BOOLEAN
    /\ \/ listening' = TRUE /\ fin' = fin
       \/ broken' /\ listening' = TRUE /\ Spawn("capture_overrun")
       \/ listening' = FALSE /\ Spawn("endpointed")
    /\ UNCHANGED <<connected, done, running, session, becameIdle, caller, epoch>>

\* The fanout drops a frame of the active turn, or one in front of it.
DropFrame ==
    /\ active /\ ~broken
    /\ broken' = TRUE
    /\ UNCHANGED <<connected, active, pending, listening, turn, triggers, done, running,
                   session, becameIdle, caller, fin, epoch>>

\* observe in a broken turn: every further frame spawns another finish.
ObserveBroken ==
    /\ running /\ active /\ broken
    /\ Spawn("capture_overrun")
    /\ UNCHANGED <<connected, active, pending, listening, broken, turn, triggers, done,
                   running, session, becameIdle, caller, epoch>>

\* Mutant: the verdict is dropped by observe.
ObserveIgnoresVerdict ==
    /\ running /\ active /\ ~broken /\ listening
    /\ listening' = FALSE
    /\ UNCHANGED <<connected, active, pending, broken, turn, triggers, done, running,
                   session, becameIdle, caller, fin, epoch>>

\* observe when the appended frame completes the controller's turn.  A frame
\* that does not is invisible here.
ObserveVerdict ==
    /\ running /\ active /\ ~broken /\ listening
    /\ listening' = FALSE
    /\ Spawn("endpointed")
    /\ UNCHANGED <<connected, active, pending, broken, turn, triggers, done, running,
                   session, becameIdle, caller, epoch>>

\* Mutant: without an active turn the controller is not fed.
ObserveIdleReturns ==
    /\ running /\ ~active /\ listening
    /\ UNCHANGED vars

\* observe without an active turn only warms the detector, but a controller
\* whose turn was ended by an overrun is still listening and may complete.
ObserveIdle ==
    /\ running /\ ~active /\ listening
    /\ listening' = FALSE
    /\ UNCHANGED <<connected, active, pending, broken, turn, triggers, done, running,
                   session, becameIdle, caller, fin, epoch>>

\* The subscription closes: Run calls finish itself and returns.
CaptureEnds ==
    /\ running
    /\ running' = FALSE
    /\ Spawn("eof")
    /\ UNCHANGED <<connected, active, pending, listening, broken, turn, triggers, done,
                   session, becameIdle, caller, epoch>>

\* The context is cancelled: Run returns and leaves everything as it is.
RunCancelled ==
    /\ running
    /\ running' = FALSE
    /\ UNCHANGED <<connected, active, pending, listening, broken, turn, triggers, done,
                   session, becameIdle, caller, fin, epoch>>
-----------------------------------------------------------------------------
(* finish, on a goroutine of its own.                                      *)

\* The critical section: whichever turn is active ends, with this goroutine's
\* reason; none active, and finish returns.  The controller is not told.
FinishLock(f) ==
    /\ fin[f].pc = "spawned"
    /\ IF active
         THEN /\ EndTurn
              /\ fin' = [fin EXCEPT ![f].pc = "send", ![f].connected = connected,
                                    ![f].turn = turn, ![f].broken = broken]
         ELSE /\ UNCHANGED <<active, broken, turn>>
              /\ fin' = [fin EXCEPT ![f] = Idle]
    /\ UNCHANGED <<connected, pending, listening, triggers, done, running,
                   session, becameIdle, caller, epoch>>

\* Mutant: the send waits for room in the channel.
FinishSendBlocking(f) ==
    /\ fin[f].pc = "send"
    /\ fin[f].connected => Len(done) < DoneCap
    /\ done' = IF fin[f].connected
                 THEN Append(done, [turn |-> fin[f].turn, reason |-> fin[f].reason,
                                    broken |-> fin[f].broken])
                 ELSE done
    /\ fin' = [fin EXCEPT ![f].pc = "idle"]
    /\ UNCHANGED <<connected, active, pending, listening, broken, turn, triggers, running,
                   session, becameIdle, caller, epoch>>

\* The non-blocking send after the unlock, on the connection state read
\* before it: a turn that finds the channel full is lost.
FinishSend(f) ==
    /\ fin[f].pc = "send"
    /\ done' = IF fin[f].connected /\ Len(done) < DoneCap
                 THEN Append(done, [turn |-> fin[f].turn, reason |-> fin[f].reason,
                                    broken |-> fin[f].broken])
                 ELSE done
    /\ fin' = [fin EXCEPT ![f].pc = "idle"]
    /\ UNCHANGED <<connected, active, pending, listening, broken, turn, triggers, running,
                   session, becameIdle, caller, epoch>>

\* onIdle, and the goroutine ends.
FinishIdle(f) ==
    /\ fin[f].pc = "idle"
    /\ fin' = [fin EXCEPT ![f] = Idle]
    /\ UNCHANGED <<connected, active, pending, listening, broken, turn, triggers, done,
                   running, session, becameIdle, caller, epoch>>
-----------------------------------------------------------------------------
(* SetConnected, called by the client session, and Next, by its forwarder. *)

Connect ==
    /\ session = "down" /\ epoch < MaxSessions
    /\ session' = "up" /\ connected' = TRUE /\ epoch' = epoch + 1
    /\ UNCHANGED <<active, pending, listening, broken, turn, triggers, done, running,
                   becameIdle, caller, fin>>

\* Mutant: the reservation of a queued trigger survives the disconnect.
DisconnectKeepsPending ==
    /\ session = "up"
    /\ session' = "draining" /\ connected' = FALSE
    /\ becameIdle' = (active \/ pending)
    /\ EndTurn /\ listening' = FALSE
    /\ UNCHANGED <<pending, triggers, done, running, caller, fin, epoch>>

\* Mutant: onIdle is owed for a queued trigger only.
DisconnectForgetsTurn ==
    /\ session = "up"
    /\ session' = "draining" /\ connected' = FALSE
    /\ becameIdle' = pending
    /\ EndTurn /\ pending' = FALSE /\ listening' = FALSE
    /\ UNCHANGED <<triggers, done, running, caller, fin, epoch>>

\* The critical section of SetConnected(false).
Disconnect ==
    /\ session = "up"
    /\ session' = "draining" /\ connected' = FALSE
    /\ becameIdle' = (active \/ pending)
    /\ EndTurn /\ pending' = FALSE /\ listening' = FALSE
    /\ UNCHANGED <<triggers, done, running, caller, fin, epoch>>

\* One round of the drain loop.
Drain ==
    /\ session = "draining"
    /\ \/ done # <<>> /\ done' = Tail(done) /\ triggers' = triggers
       \/ triggers # <<>> /\ triggers' = Tail(triggers) /\ done' = done
    /\ UNCHANGED <<connected, active, pending, listening, broken, turn, running, session,
                   becameIdle, caller, fin, epoch>>

\* Mutant: an unlabelled break leaves the select and not the loop.
DrainedForEver ==
    /\ session = "draining" /\ done = <<>> /\ triggers = <<>>
    /\ UNCHANGED vars

\* Both channels were empty: the loop ends.
Drained ==
    /\ session = "draining" /\ done = <<>> /\ triggers = <<>>
    /\ session' = IF becameIdle THEN "idling" ELSE "down"
    /\ UNCHANGED <<connected, active, pending, listening, broken, turn, triggers, done,
                   running, becameIdle, caller, fin, epoch>>

\* onIdle on the session's goroutine.
DisconnectIdle ==
    /\ session = "idling"
    /\ session' = "down" /\ becameIdle' = FALSE
    /\ UNCHANGED <<connected, active, pending, listening, broken, turn, triggers, done,
                   running, caller, fin, epoch>>

\* Next hands a completed turn to the forwarder, which lives as long as its
\* session; Next's own test of the connection never fails there.
NextTurn ==
    /\ session = "up" /\ connected /\ done # <<>>
    /\ done' = Tail(done)
    /\ UNCHANGED <<connected, active, pending, listening, broken, turn, triggers, running,
                   session, becameIdle, caller, fin, epoch>>
-----------------------------------------------------------------------------
SessionStep == Drain \/ Drained \/ DisconnectIdle
RunStart == StartRefused \/ StartTurn
RunObserve == ObserveBroken \/ ObserveVerdict \/ ObserveIdle
FinishStep(f) == FinishLock(f) \/ FinishSend(f) \/ FinishIdle(f)

Next ==
    \/ \E c \in Callers : TriggerCheck(c) \/ TriggerSend(c)
    \/ RunStart \/ RunObserve
    \/ DropFrame \/ CaptureEnds \/ RunCancelled
    \/ \E f \in Finishers : FinishStep(f)
    \/ Connect \/ Disconnect \/ SessionStep \/ NextTurn

\* Goroutines that can run do run; select picks among ready channels at
\* random, so a queued trigger is not passed over for ever; frames keep
\* coming while Run runs and, as TurnEnds of Endpointing shows, the controller
\* completes on them.  Sessions, triggers and drops are up to the world.
Fairness ==
    /\ WF_vars(SessionStep) /\ WF_vars(RunStart) /\ WF_vars(RunObserve)
    /\ \A c \in Callers : WF_vars(TriggerSend(c))
    /\ \A f \in Finishers : WF_vars(FinishStep(f))

Spec == Init /\ [][Next]_vars /\ Fairness
-----------------------------------------------------------------------------
FinishRecords ==
    [pc : {"none", "spawned", "send", "idle"}, reason : Reasons, connected : BOOLEAN,
     turn : Turns, broken : BOOLEAN]

TypeOK ==
    /\ connected \in BOOLEAN /\ active \in BOOLEAN /\ pending \in BOOLEAN
    /\ listening \in BOOLEAN /\ broken \in BOOLEAN
    /\ running \in BOOLEAN /\ becameIdle \in BOOLEAN
    /\ turn \in Turns
    /\ triggers \in Seq(Sessions) /\ Len(triggers) <= TriggerCap
    /\ done \in Seq(Finished) /\ Len(done) <= DoneCap
    /\ session \in {"down", "up", "draining", "idling"}
    /\ caller \in [Callers -> 0..MaxSessions]
    /\ fin \in [Finishers -> FinishRecords]
    /\ epoch \in 0..MaxSessions

\* No microphone audio is collected offline: start takes its decision on the
\* connection state at that moment, however long ago the trigger was accepted
\* ("never queue idle or disconnected microphone audio").
ActiveOnlyWhileConnected == active => connected /\ session = "up"

\* An active turn can always end: the controller is listening and will reach
\* a verdict, or a finish is already on its way.  Otherwise the coordinator
\* would stay active, refuse every trigger and hold back every configuration.
ActiveTurnCanEnd == active => listening \/ \E f \in Finishers : fin[f].pc = "spawned"

\* The reservation pending stands for a trigger that is queued or about to be:
\* a reservation without one would refuse every further trigger.
PendingIsBacked == pending => triggers # <<>> \/ \E c \in Callers : caller[c] # 0

\* The goroutines that ended a turn and have not called onIdle yet.
OwingFinishers == {f \in Finishers : fin[f].pc \in {"send", "idle"}}
Idlers == Cardinality(OwingFinishers) + (IF becameIdle THEN 1 ELSE 0)

\* What the coordinator offers to those who wait for idle.
Activity == INSTANCE TurnActivity WITH active <- active, idlers <- Idlers

\* Every end of a turn, by finish or by a disconnect, owes a call of onIdle by
\* the goroutine that ended it, and no goroutine calls it unasked: the promise
\* RuntimeConfig relies on.
RefinesTurnActivity == Activity!Safety

\* The calls that are owed are made.
IdleCallersArrive == Activity!Spec

\* A turn ends as long as frames arrive, however many finishes and sessions
\* race for it.
TurnEnds == active ~> ~active \/ ~running

\* An accepted trigger is decided: it does not hold its reservation for ever.
TriggerIsDecided == pending ~> ~pending \/ ~running

\* finish does not tell the controller, which goes on listening after an
\* overrun and makes start drop every trigger: it is freed again as long as
\* frames arrive.
ControllerIsFreed == listening ~> ~listening \/ ~running

\* SetConnected(false) returns: the drain loop cannot chase late senders for
\* ever.
DisconnectReturns == session = "draining" ~> session = "down"
-----------------------------------------------------------------------------
(* What the code's documents say and its interleavings do not keep.  The   *)
(* forwarder of a live session can take what is in done at any moment.     *)

\* "disconnected sessions cancel/discard turns rather than retain microphone
\* audio for a later reconnect": a turn the forwarder can take was recorded
\* in the session it is taken to.
TurnsStayInTheirSession ==
    session = "up" => \A i \in DOMAIN done : done[i].turn.start = epoch

\* "disconnected triggers and stale queued requests cannot carry microphone
\* audio across a reconnect": a turn starts in the session of its trigger.
TriggersStayInTheirSession == turn.trigger = turn.start

\* "uses capture_overrun if active-turn fanout delivery drops frames": a turn
\* that reports an overrun had one.
OverrunIsReal == \A i \in DOMAIN done : done[i].reason = "capture_overrun" => done[i].broken

\* What holds in every state of the coordinator, however triggers, frames,
\* finishes and the ends of sessions interleave.
CoordinatorInvariant ==
    TypeOK /\ ActiveOnlyWhileConnected /\ ActiveTurnCanEnd /\ PendingIsBacked

\* Nobody who calls the coordinator waits for ever: the source of a trigger, the
\* next trigger behind a turn whose controller runs on, the end of a session.
NobodyIsKeptWaiting == TriggerIsDecided /\ ControllerIsFreed /\ DisconnectReturns
=============================================================================
