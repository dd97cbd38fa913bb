---------------------------- MODULE MCXkopDriver ----------------------------
(***************************************************************************)
(* An instance of XkopDriver for TLC: two outputs in packets of one, so    *)
(* that a scan needs two packets, one of them with a value the two bytes   *)
(* of a packet cannot hold.                                                *)
(***************************************************************************)
EXTENDS XkopDriver

CONSTANTS o1, o2, i1, w1
=============================================================================
