----------------------------- MODULE MCServices -----------------------------
(***************************************************************************)
(* An instance of Services for TLC: one parameter with one output, which   *)
(* is given by its name, two units, two signals for dimming and two        *)
(* command threads.                                                        *)
(***************************************************************************)
EXTENDS Services

CONSTANTS u1, o1, s1, s2, A, B, t1, t2

MCUnitList == <<A, B>>

MCUriOf == [o \in Outputs |-> u1]
=============================================================================
