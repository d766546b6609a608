------------------------------- MODULE Buttons -------------------------------
(***************************************************************************)
(* One Watcher of internal/device/buttons: key events of an input device   *)
(* are turned into taps, holds and repeats.  Three parties work on a key:  *)
(* the stream of its events, judged by the time the kernel gave them; the  *)
(* timers, which run by the watcher's own clock and cannot be called back  *)
(* once they have fired; and the consumer of the presses, which may be     *)
(* slow.  Times are kept as what is compared with them: a press is old     *)
(* when HoldThreshold has passed since it began.                           *)
(***************************************************************************)
EXTENDS Naturals, Sequences, FiniteSets, SequencesExt

CONSTANTS
    Holdable,     \* KeyAction and KeyMute
    Repeating,    \* the volume keys
    MaxPresses,   \* bound on the presses
    MaxRepeats,   \* bound on the repeats of one press
    MaxUnread     \* bound on the events that wait to be read

Keys == Holdable \cup Repeating
Ids == 1..MaxPresses

VARIABLES
    down,       \* the press each key is held down by, 0 if it is up
    old,        \* the presses that began HoldThreshold ago
    stream,     \* the events not read, then what ends the stream
    run,        \* Watcher.Run: "select", "sending" or what it returned
    out,        \* presses it has still to send
    after,      \* the timer it starts after that
    pressed,    \* Recognizer.pressed
    gen,        \* generations
    armed,      \* running timers
    due,        \* timers that fired: in their channel, or waiting to get into it
    cancelled,
    \* History, read by properties only:
    presses, log

input == <<down, old, presses>>
vars == <<input, stream, run, out, after, pressed, gen, armed, due, cancelled, log>>

Up == [press |-> 0, hold |-> FALSE]
NoTimer == [key |-> "none"]
Open ==
    /\ run \in {"select", "sending"} /\ Len(stream) < MaxUnread
    /\ stream # <<>> => Last(stream).key # "end"
Event(key, value, press, long) == [key |-> key, value |-> value, press |-> press, long |-> long]

\* A key may be down before the device is opened.
Init ==
    /\ \/ down = [k \in Keys |-> 0] /\ presses = 0
       \/ \E key \in Keys : down = [k \in Keys |-> IF k = key THEN 1 ELSE 0] /\ presses = 1
    /\ old = {} /\ stream = <<>> /\ run = "select" /\ out = <<>> /\ after = NoTimer
    /\ pressed = [k \in Keys |-> Up] /\ gen = [k \in Keys |-> 0]
    /\ armed = {} /\ due = <<>> /\ cancelled = FALSE
    /\ log = [p \in Ids |-> <<>>]

-----------------------------------------------------------------------------
(* The keys, and time.                                                     *)
Watcher == <<run, out, after, pressed, gen, armed, due, cancelled, log>>

Press(key) ==
    /\ down[key] = 0 /\ presses < MaxPresses /\ Open
    /\ presses' = presses + 1 /\ down' = [down EXCEPT ![key] = presses + 1]
    /\ stream' = Append(stream, Event(key, 1, presses + 1, FALSE))
    /\ UNCHANGED <<old, Watcher>>
Release(key) ==
    /\ down[key] # 0 /\ Open
    /\ down' = [down EXCEPT ![key] = 0]
    /\ stream' = Append(stream, Event(key, 0, down[key], down[key] \in old))
    /\ UNCHANGED <<old, presses, Watcher>>
RepeatsOf(p) == Len(SelectSeq(log[p], LAMBDA a : a = "repeat"))
\* The kernel repeats a key of its own accord, or reports one nobody watches.
KernelRepeat(key) ==
    /\ down[key] # 0 /\ Open
    /\ RepeatsOf(down[key]) < MaxRepeats /\ gen[key] <= MaxPresses + MaxRepeats
    /\ stream' = Append(stream, Event(key, 2, down[key], FALSE))
    /\ UNCHANGED <<input, Watcher>>
Foreign ==
    /\ presses < MaxPresses /\ presses' = presses + 1 /\ Open
    /\ stream' = Append(stream, Event("other", 1, presses + 1, FALSE))
    /\ UNCHANGED <<down, old, Watcher>>
Ages(p) ==
    /\ p \in 1..presses \ old /\ Open /\ old' = old \cup {p}
    /\ \E key \in Holdable : p \in {down[key], pressed[key].press}
    /\ UNCHANGED <<down, presses, stream, Watcher>>
\* The device goes away, between two records or within one.
Unplug(how) ==
    /\ Open /\ stream' = Append(stream, Event("end", how, 0, FALSE))
    /\ UNCHANGED <<input, Watcher>>
Cancel ==
    /\ ~cancelled /\ cancelled' = TRUE
    /\ UNCHANGED <<input, stream, run, out, after, pressed, gen, armed, due, log>>

-----------------------------------------------------------------------------
(* Recognizer.                                                             *)
Does(key, press, action) == [key |-> key, press |-> press, action |-> action]

\* Mutant: the end of a hold is told by the timer alone.
feedTapHoldByTimer(e) ==
    LET state == pressed[e.key]
        Is(action) == Does(e.key, state.press, action)
    IN  CASE e.value = 1 -> [state |-> [press |-> e.press, hold |-> FALSE], out |-> <<>>]
          [] e.value = 0 /\ state # Up ->
                [state |-> Up, out |-> IF state.hold THEN <<Is("hold-end")>>
                                       ELSE IF e.long THEN <<>> ELSE <<Is("tap")>>]
          [] OTHER -> [state |-> state, out |-> <<>>]

\* Mutant: the release reports the start of a hold again.
feedTapHoldTwice(e) ==
    LET state == pressed[e.key]
        Is(action) == Does(e.key, state.press, action)
    IN  CASE e.value = 1 -> [state |-> [press |-> e.press, hold |-> FALSE], out |-> <<>>]
          [] e.value = 0 /\ state # Up ->
                [state |-> Up, out |-> IF ~e.long THEN <<Is("tap")>>
                                       ELSE <<Is("hold-start"), Is("hold-end")>>]
          [] OTHER -> [state |-> state, out |-> <<>>]

\* feedTapHold: the release decides by its time whether there was a hold, and
\* reports a start the timer has not.
feedTapHold(e) ==
    LET state == pressed[e.key]
        Is(action) == Does(e.key, state.press, action)
    IN  CASE e.value = 1 -> [state |-> [press |-> e.press, hold |-> FALSE], out |-> <<>>]
          [] e.value = 0 /\ state # Up ->
                [state |-> Up, out |-> IF ~e.long THEN <<Is("tap")>>
                                       ELSE IF state.hold THEN <<Is("hold-end")>>
                                       ELSE <<Is("hold-start"), Is("hold-end")>>]
          [] OTHER -> [state |-> state, out |-> <<>>]
feedVolume(e) ==
    LET state == pressed[e.key]
    IN  CASE e.value = 1 -> [state |-> [press |-> e.press, hold |-> FALSE],
                             out |-> <<Does(e.key, e.press, "tap")>>]
          [] e.value = 2 -> [state |-> state, out |-> IF state = Up THEN <<>>
                                                      ELSE <<Does(e.key, state.press, "repeat")>>]
          [] OTHER -> [state |-> Up, out |-> <<>>]
Feed(e) == IF e.key \in Holdable THEN feedTapHold(e) ELSE feedVolume(e)

-----------------------------------------------------------------------------
(* Watcher.Run.                                                            *)
Sends(presses_, then) == run' = "sending" /\ out' = presses_ /\ after' = then

Stopped(key) == {t \in armed : t.key # key}
\* Mutant: a repeat of the kernel ends a hold that begins.
InterruptsAlways(e) == e.value \in {0, 2}

\* Whatever ends or interrupts a press makes its timers obsolete.
Interrupts(e) == e.value = 0 \/ (e.value = 2 /\ e.key \in Repeating)

handleEvent ==
    /\ run = "select" /\ stream # <<>> /\ Head(stream).key # "end"
    /\ stream' = Tail(stream)
    /\ LET e == Head(stream)
       IN  IF e.key \notin Keys THEN UNCHANGED <<run, out, after, pressed, gen, armed>>
           ELSE /\ IF Interrupts(e)
                   THEN gen' = [gen EXCEPT ![e.key] = @ + 1] /\ armed' = Stopped(e.key)
                   ELSE UNCHANGED <<gen, armed>>
                /\ pressed' = [pressed EXCEPT ![e.key] = Feed(e).state]
                /\ Sends(Feed(e).out, IF e.value = 1 THEN [key |-> e.key, gen |-> 0, press |-> e.press]
                                      ELSE NoTimer)
    /\ UNCHANGED <<input, due, cancelled, log>>

Taken(i) == due' = RemoveAt(due, i)
Obsolete(i) ==
    /\ run = "select" /\ i \in DOMAIN due /\ due[i].gen # gen[due[i].key]
    /\ Taken(i) /\ UNCHANGED <<input, stream, run, out, after, pressed, gen, armed, cancelled, log>>

handleHold(i) ==
    /\ run = "select" /\ i \in DOMAIN due
    /\ LET t == due[i]
       IN  /\ t.key \in Holdable /\ t.gen = gen[t.key]
           /\ pressed' = [pressed EXCEPT ![t.key].hold = @ \/ pressed[t.key] # Up]
           /\ Sends(IF pressed[t.key] = Up \/ pressed[t.key].hold THEN <<>>
                    ELSE <<Does(t.key, pressed[t.key].press, "hold-start")>>, NoTimer)
    /\ Taken(i) /\ UNCHANGED <<input, stream, gen, armed, cancelled, log>>

\* The next repeat is started by this one.
handleRepeat(i) ==
    /\ run = "select" /\ i \in DOMAIN due
    /\ LET t == due[i]
       IN  /\ t.key \in Repeating /\ t.gen = gen[t.key]
           /\ IF pressed[t.key] = Up THEN Sends(<<>>, NoTimer)
              ELSE Sends(<<Does(t.key, pressed[t.key].press, "repeat")>>, t)
    /\ Taken(i) /\ UNCHANGED <<input, stream, pressed, gen, armed, cancelled, log>>

\* sendPresses: the consumer takes one, or the context ends.
sendPress ==
    /\ run = "sending" /\ out # <<>>
    /\ out' = Tail(out)
    /\ log' = [log EXCEPT ![Head(out).press] = Append(@, Head(out).action)]
    /\ UNCHANGED <<input, stream, run, after, pressed, gen, armed, due, cancelled>>

\* Mutant: the timer of a press is not replaced by that of the next.
ResumeOverlapping ==
    /\ run = "sending" /\ out = <<>> /\ run' = "select" /\ after' = NoTimer
    /\ IF after = NoTimer THEN UNCHANGED <<gen, armed>>
       ELSE armed' = armed \cup {after} /\ UNCHANGED gen
    /\ UNCHANGED <<input, stream, out, pressed, due, cancelled, log>>

\* The end of handleEvent and handleRepeat: a press begins a new generation, a
\* repeat goes on with its own.
Resume ==
    /\ run = "sending" /\ out = <<>> /\ run' = "select" /\ after' = NoTimer
    /\ LET next == IF after.gen = 0 THEN gen[after.key] + 1 ELSE after.gen
       IN  IF after = NoTimer THEN UNCHANGED <<gen, armed>>
           ELSE /\ gen' = [gen EXCEPT ![after.key] = next]
                /\ armed' = (IF after.gen = 0 THEN Stopped(after.key) ELSE armed)
                            \cup {[after EXCEPT !.gen = next]}
    /\ UNCHANGED <<input, stream, out, pressed, due, cancelled, log>>

\* A timer fires: a hold no earlier than its threshold after the press.
Fire(t) ==
    /\ t \in armed /\ (t.key \in Holdable => t.press \in old)
    /\ t.key \in Repeating => RepeatsOf(t.press) < MaxRepeats
    /\ armed' = armed \ {t} /\ due' = Append(due, t)
    /\ UNCHANGED <<input, stream, run, out, after, pressed, gen, cancelled, log>>

\* Mutant: only the select watches the context.
ReturnWhenIdle ==
    /\ run = "select" /\ cancelled /\ run' = "stopped" /\ armed' = {}
    /\ UNCHANGED <<input, stream, out, after, pressed, gen, due, cancelled, log>>

\* The context ends the select and every send; the stream ends with nil or an
\* error once what precedes it was read.  stopTimers stops what is armed.
Return ==
    /\ run \in {"select", "sending"}
    /\ \/ cancelled /\ run' = "stopped"
       \/ /\ run = "select" /\ stream # <<>> /\ Head(stream).key = "end"
          /\ run' = IF cancelled THEN "stopped" ELSE Head(stream).value
    /\ armed' = {}
    /\ UNCHANGED <<input, stream, out, after, pressed, gen, due, cancelled, log>>

Keyboard ==
    \/ \E key \in Keys : Press(key) \/ Release(key) \/ KernelRepeat(key)
    \/ Foreign \/ \E p \in Ids : Ages(p)
    \/ \E how \in {"eof", "error"} : Unplug(how)
Work ==
    \/ handleEvent \/ sendPress \/ Resume \/ Return
    \/ \E i \in DOMAIN due : Obsolete(i) \/ handleHold(i) \/ handleRepeat(i)
Take(key) ==
    \E i \in DOMAIN due : due[i].key = key /\ (Obsolete(i) \/ handleHold(i) \/ handleRepeat(i))
Next == Keyboard \/ Cancel \/ Work \/ \E t \in armed : Fire(t)

\* The watcher's goroutine and its consumer go on, its select is fair to the
\* timers, and a timer fires in the end.  Nobody is obliged to press a key.
Fairness ==
    /\ WF_vars(Work) /\ WF_vars(Return)
    /\ \A k \in Keys : WF_vars(\E t \in {u \in armed : u.key = k} : Fire(t))
    /\ \A k \in Holdable : SF_vars(Take(k))
Spec == Init /\ [][Next]_vars /\ Fairness

-----------------------------------------------------------------------------
Returned == run \in {"stopped", "eof", "error"}

TypeOK ==
    /\ run \in {"select", "sending", "stopped", "eof", "error"}
    /\ \A k \in Keys : down[k] \in 0..MaxPresses /\ pressed[k].press \in 0..presses
    /\ \A t \in armed \cup Range(due) : t.key \in Keys /\ t.gen \in 1..gen[t.key] /\ t.press \in 1..presses
    /\ old \subseteq 1..presses /\ Len(out) <= 2

\* What a press is reported as, whichever order its release, its timer and the
\* consumer came in: a tap or a hold that started, each reported once and never
\* after its end; a volume press is a tap and then repeats.  A hold the timer
\* announced may still be closed by a tap: that is stated as HoldsEndAsHolds.
Gestures ==
    {<<>>, <<"tap">>, <<"hold-start">>, <<"hold-start", "hold-end">>, <<"hold-start", "tap">>}
GestureIsWellFormed ==
    \A p \in Ids :
        \/ log[p] \in Gestures
        \/ log[p][1] = "tap" /\ \A i \in 2..Len(log[p]) : log[p][i] = "repeat"

\* A running timer is the only one of its key and belongs to the press that is
\* under way: no hold or repeat of an earlier press interferes with this one.
TimerIsOfThisPress ==
    \A t \in armed :
        /\ \A u \in armed : u.key = t.key => u = t
        /\ t.gen = gen[t.key] /\ t.press = pressed[t.key].press

\* A press that was seen to begin and end is reported to an end, and a key held
\* down for the threshold as a hold, unless the watcher stops.
SeenToEnd(p) ==
    /\ \E k \in Holdable : pressed[k].press = p
    /\ \E i \in DOMAIN stream : stream[i].press = p /\ stream[i].value = 0
ReleaseIsReported ==
    \A p \in Ids : SeenToEnd(p) ~> (Returned \/ \E a \in {"tap", "hold-end"} : a \in Range(log[p]))
HoldIsReported ==
    \A p \in Ids : (p \in old /\ \E k \in Holdable : down[k] = p /\ pressed[k].press = p)
                   ~> (Returned \/ "hold-start" \in Range(log[p]))

\* "It owns and closes the stream so cancellation interrupts an in-flight
\* device read": Run returns when its context ends, also in the middle of a
\* send to a consumer that has gone.
WatcherReturns == cancelled ~> Returned

\* Not so: the timer's clock and the kernel's disagree about a release close to
\* the threshold, or one that waits in the stream while the timer is taken
\* first; the consumer then sees a hold that starts and a tap.
HoldsEndAsHolds == \A p \in Ids : log[p] # <<"hold-start", "tap">>

\* Gestures, whatever the timers and the consumer do.
GestureInvariant == TypeOK /\ GestureIsWellFormed /\ TimerIsOfThisPress

\* Every press, every hold and every cancellation has its answer.
PressesAreReported == ReleaseIsReported /\ HoldIsReported /\ WatcherReturns
=============================================================================
