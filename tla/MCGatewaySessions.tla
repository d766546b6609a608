-------------------------- MODULE MCGatewaySessions --------------------------
(* Instances of GatewaySessions for TLC.                                   *)
EXTENDS GatewaySessions, TLC

CONSTANTS dot, sim

\* Devices are interchangeable; used for safety only.
Symmetry == Permutations({dot, sim})
=============================================================================
