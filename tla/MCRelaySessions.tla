--------------------------- MODULE MCRelaySessions --------------------------
(* Instances of RelaySessions for TLC.                                     *)
EXTENDS RelaySessions

CONSTANTS a, b

TwoNodes == {a, b}
=============================================================================
