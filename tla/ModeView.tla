------------------------------ MODULE ModeView ------------------------------
(***************************************************************************)
(* What the live socket of pci.ug405 promises to the mode tracker of       *)
(* pci.offline (src/offline/service.py): once nothing that is on the way   *)
(* disagrees with the mode, the tracker only ever turns to the mode, or to *)
(* 1 when it has no connection; and only a change of mode can put          *)
(* something on the way that disagrees.  ModeChannel implements this.      *)
(***************************************************************************)
EXTENDS Naturals

VARIABLES
  opMode,   \* the mode in pci.ug405
  tracked,  \* UG405OpModeTracker._op_mode
  settled   \* nothing that is on the way disagrees with opMode

viewVars == <<opMode, tracked, settled>>

ViewInit == opMode = 1 /\ tracked = 1 /\ settled = TRUE

Change(m) ==
  /\ m # opMode
  /\ opMode' = m
  /\ settled' \in BOOLEAN
  /\ UNCHANGED tracked

Settle ==
  /\ settled' = TRUE
  /\ UNCHANGED <<opMode, tracked>>

\* Something arrives; it may have been the last that disagreed.
Track(m) ==
  /\ settled => m = opMode
  /\ tracked' = m
  /\ settled' \in {settled, TRUE}
  /\ UNCHANGED opMode

Lose ==
  /\ tracked' = 1
  /\ UNCHANGED <<opMode, settled>>

ViewNext ==
  \/ \E m \in 1..3 : Change(m) \/ Track(m)
  \/ Settle \/ Lose

ViewSpec == ViewInit /\ [][ViewNext]_viewVars
=============================================================================
