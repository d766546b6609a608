--------------------------- MODULE MCRuntimeConfig ---------------------------
(* Instances of RuntimeConfig for TLC.                                     *)
EXTENDS RuntimeConfig

CONSTANTS a, b, e1, e2, e3
=============================================================================
