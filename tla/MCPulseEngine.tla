--------------------------- MODULE MCPulseEngine ---------------------------
(***************************************************************************)
(* Instances of PulseEngine for TLC: two outputs and three timer objects,  *)
(* so that a pulse, the timer it cancels too late and a third pulse meet.  *)
(***************************************************************************)
EXTENDS PulseEngine

CONSTANTS r1, r2, t1, t2, t3
=============================================================================
