------------------------- MODULE MCOfflineHandover -------------------------
(***************************************************************************)
(* Instances of OfflineHandover for TLC: a bitmask signal F1 and a single  *)
(* signal DX; two plans of which one names DX in its first offset only;    *)
(* and two plan files.                                                     *)
(***************************************************************************)
EXTENDS OfflineHandover, TLC

CONSTANTS F1, DX, A, B

At(at, on, off, single) == [at |-> at, masks |-> <<[on |-> on, off |-> off]>>, single |-> single]

Plans ==
  [AM |-> <<At(0, {F1}, {}, <<<<DX, 1>>>>), At(1, {}, {F1}, << >>)>>,
   PM |-> <<At(0, {}, {F1}, <<<<DX, 0>>>>)>>]

Entry(days, start, p) == [days |-> days, start |-> start, plan |-> p]

Timetable == <<Entry({0}, 0, "PM"), Entry({0}, 1, "AM"), Entry({1}, 1, NoPlan)>>

MCContent ==
  (A :> [scn |-> TRUE, plans |-> Plans, timetable |-> Timetable, modes |-> {1, 2, 3}]
   @@ B :> [scn |-> TRUE, plans |-> [AM |-> <<At(1, {}, {F1}, <<<<DX, 1>>>>)>>],
            timetable |-> <<Entry({0, 1}, 0, "AM")>>, modes |-> {1}])
=============================================================================
