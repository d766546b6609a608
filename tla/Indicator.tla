------------------------------ MODULE Indicator ------------------------------
(***************************************************************************)
(* The light ring of a connected echod: the connection indicator of        *)
(* cmd/echod, the display commands of turns and buttons, and the animator  *)
(* and device of internal/device/led that carry the last of them out.      *)
(* Commands come from five goroutines and none of them knows of the        *)
(* others'.  A frame is the state it renders, "dark", or "blend" on the    *)
(* way from one to the other; a turn is one from its acceptance to its     *)
(* end, TurnCoordinator has what is in between.                            *)
(***************************************************************************)
EXTENDS Naturals

CONSTANTS
    TransitionFrames,  \* transitionFrames
    Idlers,            \* calls of onIdle that may be outstanding at once
    MaxSessions, MaxTriggers, MaxFaults

Triggers == {"wake", "button"}
States == {"thinking", "offline", "listening"}

VARIABLES
    connected, hasConnected, booting,  \* connectionIndicator
    timer,          \* its timer: "armed", "fired" (waiting for the mutex), "done"
    session,        \* SessionChanged: "down", "joining", "up", "leaving"
    active,         \* turns.active, or a trigger accepted for it
    trigger,        \* what each trigger source is about to do
    idler,          \* where each call of onIdle is
    state, off, changed, target, steps,  \* Animator
    frame,          \* the frame Run has rendered
    run,            \* Animator.Run: "render", "write", "tick" or "failed"
    shown, cached,  \* the controller's frame, Device.last
    sessions, triggers, faults,
    \* History, read by properties only:
    said,           \* the connection indicator's last command
    stray           \* a later command came at a time it was not meant for

link == <<connected, hasConnected, booting, timer, session, said>>
turns == <<active, trigger, idler>>
request == <<state, off, changed>>
renderer == <<target, steps, frame, run, shown, cached>>
bounds == <<sessions, triggers, faults>>
vars == <<link, turns, request, renderer, bounds, stray>>

Requested == IF off THEN "dark" ELSE state
Connected == session \in {"up", "joining"}

-----------------------------------------------------------------------------
\* Mutant: turning the ring off is not noticed as a change.
OffUnmarked == off' = TRUE /\ UNCHANGED <<state, changed>>

\* Service.Set and Off.
Set(s) == state' = s /\ off' = FALSE /\ changed' = TRUE
Off == off' = TRUE /\ changed' = TRUE /\ UNCHANGED state

\* A command of the connection indicator, and what it leaves behind.
Says(s) == /\ said' = s /\ stray' = FALSE
           /\ IF s = "dark" THEN Off ELSE Set(s)

\* newConnectionIndicator; the animator is started after it.
Init ==
    /\ connected = FALSE /\ hasConnected = FALSE /\ booting = TRUE /\ timer = "armed"
    /\ session = "down" /\ active = FALSE
    /\ trigger = [t \in Triggers |-> "none"] /\ idler = [i \in Idlers |-> "none"]
    /\ state = "thinking" /\ off = FALSE /\ changed = TRUE
    /\ target = "dark" /\ steps = 0 /\ frame = "dark" /\ run = "render"
    /\ shown \in {"dark", "blend"} /\ cached = "nothing"
    /\ sessions = 0 /\ triggers = 0 /\ faults = 0
    /\ said = "thinking" /\ stray = FALSE

TimerFires ==
    /\ timer = "armed" /\ timer' = "fired"
    /\ UNCHANGED <<connected, hasConnected, booting, session, said, turns, request, renderer,
                   bounds, stray>>

\* Mutant: the end of the animation takes the device for offline.
BootEndsOffline ==
    /\ timer = "fired" /\ timer' = "done" /\ booting' = FALSE /\ Says("offline")
    /\ UNCHANGED <<connected, hasConnected, session, turns, renderer, bounds>>

\* The callback of the boot timer.
BootEnds ==
    /\ timer = "fired" /\ timer' = "done" /\ booting' = FALSE
    /\ Says(IF connected THEN "dark" ELSE "offline")
    /\ UNCHANGED <<connected, hasConnected, session, turns, renderer, bounds>>

\* SessionChanged(true): the coordinator first, then the indicator.
Joins ==
    /\ session = "down" /\ sessions < MaxSessions
    /\ session' = "joining" /\ sessions' = sessions + 1
    /\ UNCHANGED <<connected, hasConnected, booting, timer, said, turns, request, renderer,
                   triggers, faults, stray>>
SetConnected ==
    /\ session = "joining" /\ session' = "up"
    /\ connected' = TRUE /\ hasConnected' = TRUE
    /\ IF booting THEN UNCHANGED <<said, stray, request>> ELSE Says("dark")
    /\ UNCHANGED <<booting, timer, turns, renderer, bounds>>

\* SessionChanged(false): the coordinator ends the active turn and calls onIdle,
\* which finds no connection; then the indicator.  A timer that has fired is
\* not stopped any more.
Leaves ==
    /\ session = "up" /\ session' = "leaving" /\ active' = FALSE
    /\ UNCHANGED <<connected, hasConnected, booting, timer, said, trigger, idler, request,
                   renderer, bounds, stray>>
SetDisconnected ==
    /\ session = "leaving" /\ session' = "down"
    /\ connected' = FALSE
    /\ IF hasConnected
       THEN /\ booting' = FALSE /\ timer' = (IF timer = "armed" THEN "done" ELSE timer)
            /\ Says("offline")
       ELSE UNCHANGED <<booting, timer, said, stray, request>>
    /\ UNCHANGED <<hasConnected, turns, renderer, bounds>>

-----------------------------------------------------------------------------
\* consumeWakeEvents shows a turn that was accepted; handleActionTap shows
\* listening whatever became of its trigger, after the button's callback has
\* shown it too if it was accepted: the two are one command here.
Trigger(t) ==
    /\ trigger[t] = "none" /\ triggers < MaxTriggers /\ triggers' = triggers + 1
    /\ \/ Connected /\ ~active /\ active' = TRUE /\ trigger' = [trigger EXCEPT ![t] = "show"]
       \/ /\ UNCHANGED active
          /\ trigger' = [trigger EXCEPT ![t] = IF t = "button" THEN "show" ELSE "none"]
    /\ UNCHANGED <<link, idler, request, renderer, sessions, faults, stray>>
ShowListening(t) ==
    /\ trigger[t] = "show" /\ trigger' = [trigger EXCEPT ![t] = "none"]
    /\ Set("listening") /\ stray' = (stray \/ ~active)
    /\ UNCHANGED <<link, active, idler, renderer, bounds>>

\* A turn ends, and its end is followed by one call of onIdle, which asks for
\* the connection, then for the animation, and then acts.
TurnEnds(i) ==
    /\ active /\ idler[i] = "none"
    /\ active' = FALSE /\ idler' = [idler EXCEPT ![i] = "connection"]
    /\ UNCHANGED <<link, trigger, request, renderer, bounds, stray>>
OnIdleAsks(i) ==
    /\ \/ idler[i] = "connection" /\ idler' = [idler EXCEPT ![i] = IF Connected THEN "booting" ELSE "none"]
       \/ idler[i] = "booting" /\ idler' = [idler EXCEPT ![i] = IF booting THEN "none" ELSE "off"]
    /\ UNCHANGED <<link, active, trigger, request, renderer, bounds, stray>>

\* Mutant: the idle call leaves the ring alone.
OnIdleForgets(i) ==
    /\ idler[i] = "off" /\ idler' = [idler EXCEPT ![i] = "none"]
    /\ UNCHANGED <<link, active, trigger, request, renderer, bounds, stray>>

OnIdle(i) ==
    /\ idler[i] = "off" /\ idler' = [idler EXCEPT ![i] = "none"]
    /\ Off /\ stray' = (said # "dark")
    /\ UNCHANGED <<link, active, trigger, renderer, bounds>>

-----------------------------------------------------------------------------
\* Mutant: a transition goes on after the ring was turned off.
RenderOn ==
    /\ run = "render" /\ run' = "write" /\ changed' = FALSE
    /\ target' = IF changed THEN Requested ELSE target
    /\ LET left == IF changed /\ ~off THEN TransitionFrames ELSE steps
       IN  /\ frame' = IF left > 1 THEN "blend" ELSE IF left = 0 /\ ~off THEN state ELSE target'
           /\ steps' = IF left > 0 THEN left - 1 ELSE 0
    /\ UNCHANGED <<state, off, shown, cached, link, turns, bounds, stray>>

\* One round of Animator.Run under its lock.
Render ==
    /\ run = "render" /\ run' = "write" /\ changed' = FALSE
    /\ target' = IF changed THEN Requested ELSE target
    /\ LET left == IF changed THEN (IF off THEN 0 ELSE TransitionFrames) ELSE steps
       IN  /\ frame' = IF left > 1 THEN "blend" ELSE IF left = 0 /\ ~off THEN state ELSE target'
           /\ steps' = IF left > 0 THEN left - 1 ELSE 0
    /\ UNCHANGED <<state, off, shown, cached, link, turns, bounds, stray>>

\* Device.WriteFrame: equal frames are not written again; blends never are
\* equal here.
WriteFrame ==
    /\ run = "write" /\ run' = "tick"
    /\ IF cached = frame /\ frame # "blend" THEN UNCHANGED <<shown, cached>>
       ELSE shown' = frame /\ cached' = frame
    /\ UNCHANGED <<request, target, steps, frame, link, turns, bounds, stray>>
\* An error ends Run, and with it the daemon.
WriteFails ==
    /\ run = "write" /\ ~(cached = frame /\ frame # "blend")
    /\ faults < MaxFaults /\ faults' = faults + 1 /\ run' = "failed"
    /\ UNCHANGED <<request, target, steps, frame, shown, cached, link, turns, sessions, triggers, stray>>
Tick ==
    /\ run = "tick" /\ run' = "render"
    /\ UNCHANGED <<request, target, steps, frame, shown, cached, link, turns, bounds, stray>>

Next ==
    \/ TimerFires \/ BootEnds \/ Joins \/ SetConnected \/ Leaves \/ SetDisconnected
    \/ \E t \in Triggers : Trigger(t) \/ ShowListening(t)
    \/ \E i \in Idlers : TurnEnds(i) \/ OnIdleAsks(i) \/ OnIdle(i)
    \/ Render \/ WriteFrame \/ WriteFails \/ Tick

\* Goroutines go on, timers and ticks come.
Fairness ==
    /\ WF_vars(TimerFires) /\ WF_vars(BootEnds) /\ WF_vars(SetConnected) /\ WF_vars(SetDisconnected)
    /\ WF_vars(Render) /\ WF_vars(WriteFrame) /\ WF_vars(Tick)
    /\ \A t \in Triggers : WF_vars(ShowListening(t))
    /\ \A i \in Idlers : WF_vars(OnIdleAsks(i) \/ OnIdle(i))
Spec == Init /\ [][Next]_vars /\ Fairness

-----------------------------------------------------------------------------
TypeOK ==
    /\ timer \in {"armed", "fired", "done"} /\ session \in {"down", "joining", "up", "leaving"}
    /\ state \in States /\ steps \in 0..TransitionFrames
    /\ {target, frame, shown} \subseteq States \cup {"dark", "blend"}
    /\ cached \in States \cup {"dark", "blend", "nothing"}
    /\ \A t \in Triggers : trigger[t] \in {"none", "show"}
    /\ \A i \in Idlers : idler[i] \in {"none", "connection", "booting", "off"}
    /\ run \in {"render", "write", "tick", "failed"}

\* "animated blue while booting, red while offline, and off while connected":
\* the indicator's own last command is the one for the connection it knows of,
\* however the boot timer races with a session that comes or goes.
IndicatorIsRight ==
    said = CASE booting -> "thinking"
             [] ~booting /\ connected -> "dark"
             [] ~booting /\ ~connected -> "offline"

\* Whenever the animator waits for a tick it shows what was last asked of it
\* before its round: dark at once, and a state when its transition is over.
RingIsCurrent ==
    run = "tick" /\ ~changed => \/ shown = Requested
                                \/ steps > 0 /\ ~off /\ shown = "blend"

\* Outside of turns the ring says what the indicator said, except when a turn
\* ended during the boot animation, whose timer then corrects it, and after a
\* command that came at the wrong time: listening shown for a turn that had
\* ended or was refused, darkness for a session that had gone.  A session that
\* leaves ends the turn just before it speaks.
MisleadingHasACause ==
    \/ Requested = said \/ stray \/ booting
    \/ active \/ session = "leaving" \/ \E i \in Idlers : idler[i] # "none" \/ \E t \in Triggers : trigger[t] # "none"

\* The ring always comes to show the last command.
RingSettles == []<>(run = "failed" \/ shown = Requested)

\* Not so: nothing corrects a stray command until the session changes or a turn
\* ends, so that a device whose gateway is away may stay dark or look like one
\* that listens.
OfflineIsRed == <>[](session = "down" /\ ~booting) => <>[](Requested = "offline")

\* What the ring shows: the indicator's last command is right, the animator shows
\* the last command, and what misleads has one of the known causes.
RingInvariant == TypeOK /\ IndicatorIsRight /\ RingIsCurrent /\ MisleadingHasACause
=============================================================================
