------------------------------ MODULE Detectors ------------------------------
(***************************************************************************)
(* The detector services: pci.agd (src/agd/service.py), whose units send   *)
(* frames with the state of their zones, and pci.flir                      *)
(* (src/flir/service.py), whose cameras send an event when a zone changes. *)
(* Each unit has a thread and one zone here; "detected" stands for each of *)
(* the zone's signals and any_detected for each of the any_* signals.      *)
(* After a change the thread reads the zones of all units one by one and   *)
(* writes any_detected, with no lock against the other threads.            *)
(*                                                                         *)
(* The service has one connection to the IOBus: without it zones read as   *)
(* 0 and writes are lost.  As committed, neither service gets that far:    *)
(* main calls connect() of its bus client, which calls a method that       *)
(* src/shared/iobus_client.py does not have.  The model begins behind that *)
(* call, with a client whose own connection logic is used.                 *)
(***************************************************************************)
EXTENDS Naturals, Sequences

CONSTANTS UnitList  \* the units in the order of the configuration file

ASSUME UnitListAssumption == Len(UnitList) \in Nat

Units == {UnitList[i] : i \in 1..Len(UnitList)}

VARIABLES
  service,   \* "agd" or "flir"
  noted,     \* "agd": prev_state of each unit's zone, or Unnoted
  faulted,   \* "agd": units that are in fault
  zone,      \* the zones' signals on the bus
  anyOn,     \* the any_detected signal
  upd,       \* each thread's place in _update_globals
  linkUp,    \* the service is connected to the IOBus
  lostZones, \* history: units whose zone's last write was lost
  raced      \* history: the last update ran beside another or met an outage

zoneBus      == <<zone, anyOn, linkUp>>
hist         == <<lostZones, raced>>
detectorVars == <<service, noted, faulted, zoneBus, upd, hist>>

Unnoted == 2
Idle == [next |-> 0, found |-> 0]
-----------------------------------------------------------------------------
DetectorsInit ==
  /\ service \in {"agd", "flir"}
  /\ noted = [u \in Units |-> Unnoted] /\ faulted = {}
  /\ zone = [u \in Units |-> 0] /\ anyOn = 0
  /\ upd = [u \in Units |-> Idle]
  /\ linkUp = TRUE /\ lostZones = {} /\ raced = FALSE

Working(u) == upd[u] # Idle
Quiet == \A u \in Units : ~Working(u)

\* A write of the zone: lost without the connection.
WriteZone(u, v) ==
  /\ zone' = IF linkUp THEN [zone EXCEPT ![u] = v] ELSE zone
  /\ lostZones' = IF linkUp THEN lostZones \ {u} ELSE lostZones \cup {u}

\* _update_globals begins.
Update(u) ==
  /\ upd' = [upd EXCEPT ![u] = [next |-> 1, found |-> 0]]
  /\ raced' = (~Quiet \/ ~linkUp)

-----------------------------------------------------------------------------
(* agd: _unit_loop and _process_frame *)

\* Faulty variant of Frame: the unit stays in fault.
FrameKeepsFault(u, v) ==
  /\ service = "agd" /\ ~Working(u)
  /\ IF noted[u] # v
     THEN WriteZone(u, v) /\ Update(u)
     ELSE UNCHANGED <<zone, upd, hist>>
  /\ noted' = [noted EXCEPT ![u] = v]
  /\ UNCHANGED <<service, faulted, anyOn, linkUp>>

\* A frame says what is in the zone; only a change is written, and noted
\* whether the write was lost or not.
Frame(u, v) ==
  /\ service = "agd" /\ ~Working(u)
  /\ faulted' = faulted \ {u}
  /\ IF noted[u] # v
     THEN WriteZone(u, v) /\ Update(u)
     ELSE UNCHANGED <<zone, upd, hist>>
  /\ noted' = [noted EXCEPT ![u] = v]
  /\ UNCHANGED <<service, anyOn, linkUp>>

\* A frame that cannot be parsed: the unit is not in fault any more, and nothing
\* is known of its zone.
BadFrame(u) ==
  /\ service = "agd" /\ ~Working(u)
  /\ faulted' = faulted \ {u}
  /\ UNCHANGED <<service, noted, zoneBus, upd, hist>>

\* No frame for frame_timeout: the zone is put off, once.
Silence(u) ==
  /\ service = "agd" /\ ~Working(u) /\ u \notin faulted
  /\ faulted' = faulted \cup {u}
  /\ WriteZone(u, 0) /\ Update(u)
  /\ noted' = [noted EXCEPT ![u] = Unnoted]
  /\ UNCHANGED <<service, anyOn, linkUp>>

(* flir: _publish_event *)

\* A Begin or an End is written as it comes.
Event(u, v) ==
  /\ service = "flir" /\ ~Working(u)
  /\ WriteZone(u, v) /\ Update(u)
  /\ UNCHANGED <<service, noted, faulted, anyOn, linkUp>>

-----------------------------------------------------------------------------
(* _update_globals *)

\* Faulty variant of ReadZone: a zone that is off ends the reading.
ReadZoneAll(u) ==
  /\ upd[u].next \in 1..Len(UnitList)
  /\ LET on == linkUp /\ zone[UnitList[upd[u].next]] = 1
     IN upd' = [upd EXCEPT ![u] = [next  |-> IF on THEN @.next + 1 ELSE Len(UnitList) + 1,
                                   found |-> IF on THEN 1 ELSE 0]]
  /\ raced' = (raced \/ ~linkUp)
  /\ UNCHANGED <<service, noted, faulted, zoneBus, lostZones>>

\* any() reads until a zone is on.
ReadZone(u) ==
  /\ upd[u].next \in 1..Len(UnitList)
  /\ LET on == linkUp /\ zone[UnitList[upd[u].next]] = 1
     IN upd' = [upd EXCEPT ![u] = [next  |-> IF on THEN Len(UnitList) + 1 ELSE @.next + 1,
                                   found |-> IF on THEN 1 ELSE 0]]
  /\ raced' = (raced \/ ~linkUp)
  /\ UNCHANGED <<service, noted, faulted, zoneBus, lostZones>>

WriteAny(u) ==
  /\ upd[u].next = Len(UnitList) + 1
  /\ anyOn' = IF linkUp THEN upd[u].found ELSE anyOn
  /\ raced' = (raced \/ ~linkUp)
  /\ upd' = [upd EXCEPT ![u] = Idle]
  /\ UNCHANGED <<service, noted, faulted, zone, linkUp, lostZones>>

-----------------------------------------------------------------------------
(* The bus *)

Link ==
  /\ linkUp' = ~linkUp
  /\ UNCHANGED <<service, noted, faulted, zone, anyOn, upd, hist>>

\* pci.iobus is started again, with all its signals off.
BusLosesZones ==
  /\ linkUp' = FALSE
  /\ zone' = [u \in Units |-> 0] /\ anyOn' = 0
  /\ raced' = (raced \/ ~Quiet)
  /\ UNCHANGED <<service, noted, faulted, upd, lostZones>>

-----------------------------------------------------------------------------
Work(u) == BadFrame(u) \/ Silence(u) \/ ReadZone(u) \/ WriteAny(u)

DetectorsNext ==
  \/ \E u \in Units : Work(u) \/ (\E v \in {0, 1} : Frame(u, v) \/ Event(u, v))
  \/ Link \/ BusLosesZones

-----------------------------------------------------------------------------
DetectorsSpec == DetectorsInit /\ [][DetectorsNext]_detectorVars

\* Every variable has its type.
DetectorsTypeOK ==
  /\ service \in {"agd", "flir"} /\ faulted \subseteq Units
  /\ noted \in [Units -> {0, 1, Unnoted}] /\ zone \in [Units -> {0, 1}] /\ anyOn \in {0, 1}
  /\ upd \in [Units -> [next : 0..Len(UnitList) + 1, found : {0, 1}]]
  /\ linkUp \in BOOLEAN /\ lostZones \subseteq Units /\ raced \in BOOLEAN

\* When no thread is at work, any_detected is on exactly if some zone is, unless
\* the updates of two threads ran side by side or met an outage of the bus
\* (_update_globals, src/agd/service.py:226).
AnyAgrees ==
  Quiet /\ ~raced => ((anyOn = 1) <=> \E u \in Units : zone[u] = 1)

\* any_detected is never on for the sake of a unit in fault: when it is on and no
\* thread at work, some unit that is not in fault has said so in its last frame,
\* unless updates ran side by side or a write of a zone was lost (_unit_loop,
\* _zero_unit, src/agd/service.py:137).
AnyBacked ==
  service = "agd" /\ Quiet /\ ~raced /\ lostZones = {} /\ anyOn = 1
  => \E u \in Units \ faulted : noted[u] = 1
=============================================================================
