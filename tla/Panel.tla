-------------------------------- MODULE Panel --------------------------------
(***************************************************************************)
(* The ring of a connected device and, beside it, a watcher of its         *)
(* buttons.  The two share no state: what a button does to the ring is a   *)
(* trigger of Indicator.                                                   *)
(***************************************************************************)
EXTENDS Indicator, Sequences

CONSTANTS Holdable, Repeating, MaxPresses, MaxRepeats, MaxUnread

VARIABLES
    down, old, stream, run_, out, after, pressed, gen, armed, due, cancelled, presses, log

Watch == INSTANCE Buttons WITH run <- run_

\* The animation has a length, a key may be pressed, the actions of a key are one
\* recognizer's, and the codes of watched keys are not the marks of anything else.
ASSUME PanelAssumption ==
    /\ TransitionFrames \in Nat /\ MaxPresses \in Nat \ {0}
    /\ Holdable \cap Repeating = {} /\ Watch!Keys \cap {"none", "end", "other"} = {}

watcher == <<down, old, stream, run_, out, after, pressed, gen, armed, due, cancelled, presses, log>>

-----------------------------------------------------------------------------
\* Buttons: what a press is reported as is one gesture, by its own timer.
GestureInvariant == Watch!GestureInvariant
=============================================================================
