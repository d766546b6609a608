---------------------------- MODULE TurnActivity ----------------------------
(***************************************************************************)
(* What the turn coordinator of cmd/echod promises to the components that  *)
(* wait for the device to become idle: a turn is active or not, and every  *)
(* time an active turn ends somebody is on the way to call onIdle.  The    *)
(* callers run on their own goroutines, so turns may start and end while   *)
(* any number of them are still outstanding.                               *)
(***************************************************************************)
EXTENDS Naturals

VARIABLES
    active,  \* turnCoordinator.active
    idlers   \* goroutines that still have to call onIdle

vars == <<active, idlers>>

Init == active = FALSE /\ idlers = 0

\* start accepts a trigger.
Begin == ~active /\ active' = TRUE /\ idlers' = idlers

\* finish or a disconnect ends the turn and owes one onIdle call.
End == active /\ active' = FALSE /\ idlers' = idlers + 1

\* A disconnect that only discards an accepted trigger owes the call as well.
DiscardTrigger == ~active /\ active' = FALSE /\ idlers' = idlers + 1

\* One of the callers runs onIdle.
OnIdle == idlers > 0 /\ active' = active /\ idlers' = idlers - 1

Next == Begin \/ End \/ DiscardTrigger \/ OnIdle

Safety == Init /\ [][Next]_vars

\* Nothing obliges a turn to begin; each caller gets to run.
Spec == Safety /\ WF_vars(OnIdle)
=============================================================================
