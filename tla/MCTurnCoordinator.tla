-------------------------- MODULE MCTurnCoordinator --------------------------
(* Instances of TurnCoordinator for TLC.                                   *)
EXTENDS TurnCoordinator, TLC

CONSTANTS wakeConsumer, buttonWatcher, f1, f2

MCCallers == {wakeConsumer, buttonWatcher}
MCFinishers == {f1, f2}

\* Goroutines of one kind are interchangeable; used for safety only.
Symmetry == Permutations(MCCallers) \cup Permutations(MCFinishers)
=============================================================================
