--------------------------- MODULE MCUG405OpMode ---------------------------
(***************************************************************************)
(* Instances of UG405OpMode for TLC: a bitmask field of two bits (F1, F2)  *)
(* and a field of one bit (DX).                                            *)
(***************************************************************************)
EXTENDS UG405OpMode

CONSTANTS F1, F2, DX
=============================================================================
