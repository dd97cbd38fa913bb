---------------------------- MODULE ModeChannel ----------------------------
(***************************************************************************)
(* The live socket of pci.ug405 (src/ug405/ipc/server.py) and the mode     *)
(* tracker of pci.offline that listens to it (src/offline/service.py).     *)
(*                                                                         *)
(* The mode is told in three ways that share one socket: an event queued   *)
(* by the thread that changed it, after it has zeroed the signals; a       *)
(* snapshot of the push loop every second; and a snapshot of the accept    *)
(* thread for a new client, which is on the list by then.  The SNMP thread *)
(* and the watchdog may queue their events in the opposite order of their  *)
(* changes, and a snapshot may be overtaken by an event.                   *)
(***************************************************************************)
EXTENDS Naturals, Sequences

CONSTANTS
  MaxQueue,   \* events queued at one time
  MaxStream   \* lines in the socket; a full one blocks sendall

ASSUME ChannelAssumption == MaxQueue \in Nat /\ MaxStream \in Nat

VARIABLES
  opMode,   \* op_mode['value']
  untold,   \* for each thread, the mode it has set and not yet queued, or 0
  events,   \* _event_q
  snap,     \* the mode in the push loop's snapshot, or 0
  hello,    \* the mode in the accept thread's snapshot, 0 when it is to be
            \* taken, or NoHello
  member,   \* the tracker's connection is in _clients
  stream,   \* lines on their way to the tracker
  linked,   \* the tracker reads from a connection
  tracked   \* UG405OpModeTracker._op_mode

channelVars == <<opMode, untold, events, snap, hello, member, stream, linked, tracked>>

NoHello == 4
-----------------------------------------------------------------------------
ChannelInit ==
  /\ opMode = 1
  /\ untold = [t \in {"snmp", "dog"} |-> 0]
  /\ events = << >> /\ snap = 0 /\ hello = NoHello /\ member = FALSE
  /\ stream = << >> /\ linked = FALSE /\ tracked = 1

\* OpModeInstance.setValue, or _drop_to_standalone.
SetMode(t, m) ==
  /\ untold[t] = 0
  /\ t = "dog" => opMode > 1 /\ m = 1
  /\ opMode' = m
  /\ untold' = [untold EXCEPT ![t] = m]
  /\ UNCHANGED <<events, snap, hello, member, stream, linked, tracked>>

\* _push_update(opmode=...)
Announce(t) ==
  /\ untold[t] # 0 /\ Len(events) < MaxQueue
  /\ events' = Append(events, untold[t])
  /\ untold' = [untold EXCEPT ![t] = 0]
  /\ UNCHANGED <<opMode, snap, hello, member, stream, linked, tracked>>

\* _push_to_all: to the tracker if it is a client.
Send(m) ==
  IF member THEN Len(stream) < MaxStream /\ stream' = Append(stream, m)
  ELSE UNCHANGED stream

\* _push_loop: the queue is drained first ...
PushEvent ==
  /\ snap = 0 /\ events # << >>
  /\ Send(Head(events))
  /\ events' = Tail(events)
  /\ UNCHANGED <<opMode, untold, snap, hello, member, linked, tracked>>

\* ... then a snapshot is taken, the mode last of all, and sent.
TakeSnap ==
  /\ snap = 0 /\ events = << >>
  /\ snap' = opMode
  /\ UNCHANGED <<opMode, untold, events, hello, member, stream, linked, tracked>>

\* Faulty variant of PushSnap: the mode is left out.
PushSnapBare ==
  /\ snap # 0
  /\ snap' = 0
  /\ UNCHANGED <<opMode, untold, events, hello, member, stream, linked, tracked>>

PushSnap ==
  /\ snap # 0
  /\ Send(snap)
  /\ snap' = 0
  /\ UNCHANGED <<opMode, untold, events, hello, member, linked, tracked>>

\* A signal that cannot be read from the IOBus spoils the snapshot.
SnapFails ==
  /\ snap # 0
  /\ snap' = 0
  /\ UNCHANGED <<opMode, untold, events, hello, member, stream, linked, tracked>>

-----------------------------------------------------------------------------
(* A client connects: _push_accept and UG405OpModeTracker *)

Accept ==
  /\ ~linked
  /\ linked' = TRUE /\ member' = TRUE
  /\ stream' = << >>
  /\ hello' = 0
  /\ UNCHANGED <<opMode, untold, events, snap, tracked>>

TakeHello ==
  /\ hello = 0
  /\ hello' \in {opMode, NoHello}
  /\ UNCHANGED <<opMode, untold, events, snap, member, stream, linked, tracked>>

SendHello ==
  /\ hello \in 1..3
  /\ Send(hello)
  /\ hello' = NoHello
  /\ UNCHANGED <<opMode, untold, events, snap, member, linked, tracked>>

Receive ==
  /\ linked /\ stream # << >>
  /\ tracked' = Head(stream)
  /\ stream' = Tail(stream)
  /\ UNCHANGED <<opMode, untold, events, snap, hello, member, linked>>

\* pci.ug405 stops and is started again: in standalone, with no clients.
UtcRestart ==
  /\ opMode' = 1
  /\ untold' = [t \in {"snmp", "dog"} |-> 0]
  /\ events' = << >> /\ snap' = 0 /\ hello' = NoHello /\ member' = FALSE
  /\ UNCHANGED <<stream, linked, tracked>>

\* Faulty variant of EndOfFile: no connection counts as monitor mode.
EndOfFileMonitor ==
  /\ linked /\ ~member /\ stream = << >>
  /\ linked' = FALSE
  /\ tracked' = 2
  /\ UNCHANGED <<opMode, untold, events, snap, hello, member, stream>>

\* The tracker has read what there was: standalone on disconnect.
EndOfFile ==
  /\ linked /\ ~member /\ stream = << >>
  /\ linked' = FALSE
  /\ tracked' = 1
  /\ UNCHANGED <<opMode, untold, events, snap, hello, member, stream>>

-----------------------------------------------------------------------------
Push == PushEvent \/ TakeSnap \/ PushSnap

ChannelNext ==
  \/ \E t \in {"snmp", "dog"} : Announce(t) \/ \E m \in 1..3 : SetMode(t, m)
  \/ Push \/ SnapFails
  \/ Accept \/ TakeHello \/ SendHello \/ Receive
  \/ UtcRestart \/ EndOfFile

ChannelSpec == ChannelInit /\ [][ChannelNext]_channelVars
-----------------------------------------------------------------------------
\* Every variable has its type.
ChannelTypeOK ==
  /\ opMode \in 1..3 /\ tracked \in 1..3 /\ snap \in 0..3 /\ hello \in 0..NoHello
  /\ untold \in [{"snmp", "dog"} -> 0..3]
  /\ events \in Seq(1..3) /\ Len(events) <= MaxQueue
  /\ stream \in Seq(1..3) /\ Len(stream) <= MaxStream
  /\ member \in BOOLEAN /\ linked \in BOOLEAN

Queued   == {events[i] : i \in DOMAIN events}
InStream == {stream[i] : i \in DOMAIN stream}
OnTheWay == {untold["snmp"], untold["dog"], snap, hello} \cup Queued \cup InStream

\* What agrees with the mode, or is nothing.
Harmless == {0, opMode, NoHello}

View == INSTANCE ModeView WITH settled <- OnTheWay \subseteq Harmless

\* The socket keeps ModeView's promise: events, snapshots and reconnections
\* bring in nothing that is older than the last change of mode.
ImplementsModeView == View!ViewSpec

\* When the mode rests, the tracker ends up with it and keeps it, although
\* events may arrive in the wrong order (_push_loop, _read_loop).
TrackerFollows ==
  \/ []<><<UtcRestart>>_channelVars \/ []<><<TRUE>>_opMode
  \/ <>[](tracked = opMode)
=============================================================================
