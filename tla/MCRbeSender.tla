---------------------------- MODULE MCRbeSender ----------------------------
(***************************************************************************)
(* Instances of RbeSender for TLC: reply signals in fields of their own.   *)
(***************************************************************************)
EXTENDS RbeSender

CONSTANTS g1, g2

MCFieldOf == [s \in Signals |-> s]
=============================================================================
