--------------------------- MODULE MCSignalTable ---------------------------
(***************************************************************************)
(* Instances of SignalTable for TLC: a signal of the MOVA kernel with an   *)
(* inverting, halving condition, a signal shared by pci.ug405 and          *)
(* pci.offline, and a halved controller input that only the driver         *)
(* registers.                                                              *)
(***************************************************************************)
EXTENDS SignalTable, TLC

CONSTANTS force, shared, input,          \* signals
          mova, ug405, offline, iobus,   \* services
          movaConn, ug405Conn, offlineConn, driverThread

MCSignals == {force, shared, input}
MCServices == {mova, ug405, offline, iobus}
MCServiceOf == [t \in Threads |-> CASE t = movaConn -> mova
                                    [] t = ug405Conn -> ug405
                                    [] t = offlineConn -> offline
                                    [] t = driverThread -> iobus]
MCConfigured == (force :> {mova}) @@ (shared :> {ug405, offline}) @@ (input :> {})
MCScale == [s \in MCSignals |->
              IF s # shared THEN [num |-> 1, den |-> 2] ELSE [num |-> 1, den |-> 1]]
MCSubscribers == <<"gpio", "live">>
=============================================================================
