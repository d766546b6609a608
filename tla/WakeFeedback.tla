----------------------------- MODULE WakeFeedback -----------------------------
(***************************************************************************)
(* The wake feedback of echoctl's live wake test: the ring is red, a       *)
(* detection turns it green and a timer turns it back.  A timer that has   *)
(* fired cannot be stopped: its callback waits for the mutex behind the    *)
(* next flash or the close.                                                *)
(***************************************************************************)
EXTENDS Naturals

CONSTANTS MaxFlashes, MaxFaults  \* bounds

Ids == 1..MaxFlashes

VARIABLES
    shown,     \* the ring
    armed,     \* f.timer, by the flash that set it; 0 if it is not running
    fired,     \* callbacks that wait for the mutex
    closed, err,
    indicator, \* what the test itself last wrote: "red" or "cleared"
    flashes, faults

vars == <<shown, armed, fired, closed, err, indicator, flashes, faults>>

\* startLiveWakeIndicator leaves the ring red.
Init ==
    /\ shown = "red" /\ armed = 0 /\ fired = {} /\ closed = FALSE /\ err = FALSE
    /\ indicator = "red" /\ flashes = 0 /\ faults = 0

Faulty == faults < MaxFaults /\ faults' = faults + 1

\* Mutant: the timer of the flash before is stopped after the new one is set.
flashUnarmed ==
    /\ indicator = "red" /\ flashes < MaxFlashes /\ flashes' = flashes + 1
    /\ ~err /\ ~closed /\ shown' = "green" /\ armed' = IF armed = 0 THEN flashes' ELSE 0
    /\ UNCHANGED <<fired, closed, err, indicator, faults>>

\* flash: a write that fails leaves the old timer stopped.
flash ==
    /\ indicator = "red" /\ flashes < MaxFlashes /\ flashes' = flashes + 1
    /\ IF err \/ closed THEN UNCHANGED <<armed, shown, faults>>
       ELSE \/ armed' = flashes' /\ shown' = "green" /\ UNCHANGED faults
            \/ armed' = 0 /\ Faulty /\ UNCHANGED shown
    /\ UNCHANGED <<fired, closed, err, indicator>>
Fire ==
    /\ armed # 0 /\ armed' = 0 /\ fired' = fired \cup {armed}
    /\ UNCHANGED <<shown, closed, err, indicator, flashes, faults>>

\* Mutant: the callback does not look at closed.
restoreAnyway(i) ==
    /\ i \in fired /\ fired' = fired \ {i} /\ shown' = "red"
    /\ UNCHANGED <<armed, closed, err, indicator, flashes, faults>>

\* The callback.
restore(i) ==
    /\ i \in fired /\ fired' = fired \ {i}
    /\ IF closed THEN UNCHANGED <<shown, err, faults>>
       ELSE \/ shown' = "red" /\ UNCHANGED <<err, faults>>
            \/ err' = TRUE /\ Faulty /\ UNCHANGED shown
    /\ UNCHANGED <<armed, closed, indicator, flashes>>
close ==
    /\ ~closed /\ closed' = TRUE /\ armed' = 0
    /\ UNCHANGED <<shown, fired, err, indicator, flashes, faults>>
\* The end of the test, after the close.
Clear ==
    /\ closed /\ indicator = "red" /\ indicator' = "cleared" /\ shown' = "dark"
    /\ UNCHANGED <<armed, fired, closed, err, flashes, faults>>

Next == flash \/ Fire \/ close \/ Clear \/ \E i \in Ids : restore(i)
\* Timers fire and callbacks get the mutex.
Fairness == WF_vars(Fire) /\ \A i \in Ids : WF_vars(restore(i))
Spec == Init /\ [][Next]_vars /\ Fairness

-----------------------------------------------------------------------------
\* The ring stays dark after the test has cleared it, whatever timer was on its
\* way.
StaysDark == indicator = "cleared" => shown = "dark"

\* Green does not stay: the ring is red again unless a write failed or the
\* feedback was closed.
ReturnsToRed == (shown = "green") ~> (shown # "green" \/ closed \/ faults > 0)

\* Not so: a callback that waits for the mutex while the next flash has it cuts
\* that flash short.
FlashIsWhole == armed # 0 => shown = "green"

\* A flash ends: by its timer, and for good with the test.
FlashEnds == []StaysDark /\ ReturnsToRed
=============================================================================
