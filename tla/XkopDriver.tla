----------------------------- MODULE XkopDriver -----------------------------
(***************************************************************************)
(* The XKOP driver of pci.iobus (src/iobus/driver_xkop.py): it keeps a     *)
(* traffic light controller's outputs equal to the signal table's and      *)
(* copies the controller's inputs into the table, over one TCP connection. *)
(*                                                                         *)
(* The connect thread connects, zeroes the inputs and runs the send loop;  *)
(* a receive thread runs beside it.  A service's write changes the table   *)
(* first and sets the driver's event in a later step, on its own thread    *)
(* (SignalTable.write and its callbacks).  The wire is a FIFO of batches;  *)
(* a connection the controller has left still takes sends for a while.     *)
(*                                                                         *)
(* A receive thread is gone when its connection is: the next one is made   *)
(* no earlier than 2 s later, and it polls every 20 ms.                    *)
(***************************************************************************)
EXTENDS Integers, Sequences, SequencesExt

CONSTANTS
  Outputs,   \* xkop.o.* signals
  Inputs,    \* xkop.i.* signals
  OutValues, \* values services write to outputs
  InValues,  \* values the controller sends, 0 among them
  Writers,   \* threads of services that write outputs
  Batch,     \* signals in a packet (4)
  MaxWire    \* packets the socket buffer holds

WordMax == 65535
Words   == 0..WordMax  \* what the two bytes of a packet hold

ASSUME XkopDriverAssumption ==
  /\ OutValues \subseteq Nat /\ 0 \in OutValues
  /\ InValues \subseteq Words /\ 0 \in InValues
  /\ Batch \in Nat \ {0} /\ MaxWire \in Nat \ {0}

VARIABLES
  output,    \* the table: [Outputs -> OutValues]
  input,     \* the table: [Inputs -> InValues]
  notify,    \* writers whose write() has yet to call _on_table_change
  event,     \* _send_event
  lastSent,  \* _last_sent: [Outputs -> OutValues \cup {Unsent}]
  drv,       \* the connect thread: pc, signals still to visit, pending list
  receiving, \* the receive thread runs
  silence,   \* keepalive intervals since _last_recv, up to 4
  open,      \* the controller's end of the connection is open
  wire,      \* packets sent and not yet received
  remote,    \* the controller's outputs, 16 bits each
  told       \* history: the inputs the controller sent on this connection

vars == <<output, input, notify, event, lastSent, drv, receiving, silence,
          open, wire, remote, told>>

Unsent == -1             \* in _last_sent: to be sent whatever the table holds
DeadTimeout == 3         \* DEAD_TIMEOUT / KEEP_ALIVE_INTERVAL

Connected == drv.pc # "connect"

\* Faulty variant of Encode: nothing is cut off.
EncodeWhole(v) == v

\* _make_packet: the two bytes of a value.
Encode(v) == v % (WordMax + 1)

At(pc) == [pc |-> pc, todo |-> {}, pending |-> << >>]
-----------------------------------------------------------------------------
Init ==
  /\ output = [o \in Outputs |-> 0]
  /\ input = [i \in Inputs |-> 0]
  /\ notify = {}
  /\ event = FALSE
  /\ lastSent = [o \in Outputs |-> Unsent]
  /\ drv = At("connect")
  /\ receiving = FALSE
  /\ silence = 0
  /\ open = FALSE
  /\ wire = << >>
  /\ remote \in {[o \in Outputs |-> 0], [o \in Outputs |-> 1]}
  /\ told = [i \in Inputs |-> 0]

\* A service changes an output: the locked part of SignalTable.write.
Write(w, o, v) ==
  /\ w \notin notify
  /\ output[o] # v
  /\ output' = [output EXCEPT ![o] = v]
  /\ notify' = notify \cup {w}
  /\ UNCHANGED <<input, event, lastSent, drv, receiving, silence, open, wire, remote, told>>

\* Then _on_table_change on the writer's thread.
Notify(w) ==
  /\ w \in notify
  /\ notify' = notify \ {w}
  /\ event' = TRUE
  /\ UNCHANGED <<output, input, lastSent, drv, receiving, silence, open, wire, remote, told>>

-----------------------------------------------------------------------------
(* The connect thread: _connect_loop, _send_loop *)

\* Faulty variant of Connect: the receive thread starts before the zeroing.
ConnectReceives ==
  /\ ~Connected
  /\ open' = TRUE /\ wire' = << >> /\ silence' = 0
  /\ told' = [i \in Inputs |-> 0]
  /\ drv' = [At("zero") EXCEPT !.todo = Inputs]
  /\ receiving' = TRUE
  /\ UNCHANGED <<output, input, notify, event, lastSent, remote>>

Connect ==
  /\ ~Connected
  /\ open' = TRUE /\ wire' = << >> /\ silence' = 0
  /\ told' = [i \in Inputs |-> 0]
  /\ drv' = [At("zero") EXCEPT !.todo = Inputs]
  /\ UNCHANGED <<output, input, notify, event, lastSent, receiving, remote>>

\* _zero_inputs
ZeroInput(i) ==
  /\ drv.pc = "zero" /\ i \in drv.todo
  /\ input' = [input EXCEPT ![i] = 0]
  /\ drv' = [drv EXCEPT !.todo = @ \ {i}]
  /\ UNCHANGED <<output, notify, event, lastSent, receiving, silence, open, wire, remote, told>>

\* Faulty variant of StartLoops: _last_sent survives the connection.
StartLoopsKeepSent ==
  /\ drv.pc = "zero" /\ drv.todo = {}
  /\ receiving' = TRUE
  /\ drv' = At("wait")
  /\ UNCHANGED <<output, input, notify, event, lastSent, silence, open, wire, remote, told>>

\* Everything is to be sent again; the receive thread starts.
StartLoops ==
  /\ drv.pc = "zero" /\ drv.todo = {}
  /\ lastSent' = [o \in Outputs |-> Unsent]
  /\ receiving' = TRUE
  /\ drv' = At("wait")
  /\ UNCHANGED <<output, input, notify, event, silence, open, wire, remote, told>>

\* _send_event.wait returns: the event is set or the keepalive interval over.
Wake ==
  /\ drv.pc = "wait"
  /\ drv' = At("clear")
  /\ UNCHANGED <<output, input, notify, event, lastSent, receiving, silence, open, wire, remote, told>>

ClearEvent ==
  /\ drv.pc = "clear"
  /\ event' = FALSE
  /\ drv' = [At("scan") EXCEPT !.todo = Outputs]
  /\ UNCHANGED <<output, input, notify, lastSent, receiving, silence, open, wire, remote, told>>

\* An output is compared with what was sent last, and noted as sent.
Scan(o) ==
  /\ drv.pc = "scan" /\ o \in drv.todo
  /\ lastSent' = [lastSent EXCEPT ![o] = output[o]]
  /\ drv' = [drv EXCEPT !.todo = @ \ {o},
                        !.pending = IF lastSent[o] = output[o] THEN @
                                    ELSE Append(@, <<o, output[o]>>)]
  /\ UNCHANGED <<output, input, notify, event, receiving, silence, open, wire, remote, told>>

\* Faulty variant of EndScan: the event is cleared after the comparison too.
EndScanClears ==
  /\ drv.pc = "scan" /\ drv.todo = {}
  /\ event' = FALSE
  /\ drv' = [drv EXCEPT !.pc = IF drv.pending = << >> THEN "dead" ELSE "send"]
  /\ UNCHANGED <<output, input, notify, lastSent, receiving, silence, open, wire, remote, told>>

EndScan ==
  /\ drv.pc = "scan" /\ drv.todo = {}
  /\ drv' = [drv EXCEPT !.pc = IF drv.pending = << >> THEN "dead" ELSE "send"]
  /\ UNCHANGED <<output, input, notify, event, lastSent, receiving, silence, open, wire, remote, told>>

\* The next packet goes into the socket's buffer; nobody reads it if the
\* controller has left.
Send ==
  LET n    == IF Len(drv.pending) < Batch THEN Len(drv.pending) ELSE Batch
      rest == SubSeq(drv.pending, n + 1, Len(drv.pending))
      sent == SubSeq(drv.pending, 1, n)
  IN /\ drv.pc = "send"
     /\ Len(wire) < MaxWire
     /\ wire' = IF open THEN Append(wire, sent) ELSE wire
     /\ drv' = [drv EXCEPT !.pending = rest, !.pc = IF rest = << >> THEN "dead" ELSE "send"]
     /\ UNCHANGED <<output, input, notify, event, lastSent, receiving, silence, open, remote, told>>

\* Faulty variant of Close: silence is not watched.
CloseOnError ==
  /\ drv.pc = "send" /\ (~open \/ Len(wire) = MaxWire)
  /\ drv' = At("connect")
  /\ receiving' = FALSE
  /\ open' = FALSE /\ wire' = << >>
  /\ UNCHANGED <<output, input, notify, event, lastSent, silence, remote, told>>

\* The connection ends: a send fails (the controller has left, or the
\* non-blocking socket's buffer is full), or nothing was heard for too long.
Close ==
  /\ \/ drv.pc = "send" /\ (~open \/ Len(wire) = MaxWire)
     \/ drv.pc = "dead" /\ (silence > DeadTimeout \/ ~open)
  /\ drv' = At("connect")
  /\ receiving' = FALSE
  /\ open' = FALSE /\ wire' = << >>
  /\ UNCHANGED <<output, input, notify, event, lastSent, silence, remote, told>>

\* The keepalive goes out, and the loop waits again.
Alive ==
  /\ drv.pc = "dead"
  /\ silence <= DeadTimeout
  /\ drv' = At("wait")
  /\ UNCHANGED <<output, input, notify, event, lastSent, receiving, silence, open, wire, remote, told>>

-----------------------------------------------------------------------------
(* The receive thread, the controller and time *)

Receive(i, v) ==
  /\ receiving /\ open
  /\ input' = [input EXCEPT ![i] = v]
  /\ told' = [told EXCEPT ![i] = v]
  /\ silence' = 0
  /\ UNCHANGED <<output, notify, event, lastSent, drv, receiving, open, wire, remote>>

ReceiveKeepAlive ==
  /\ receiving /\ open
  /\ silence > 0
  /\ silence' = 0
  /\ UNCHANGED <<output, input, notify, event, lastSent, drv, receiving, open, wire, remote, told>>

\* End of file, or an error: the thread ends and wakes the send loop, which
\* finds self.conn still there.
ReceiveEnd ==
  /\ receiving /\ ~open
  /\ receiving' = FALSE
  /\ event' = TRUE
  /\ UNCHANGED <<output, input, notify, lastSent, drv, silence, open, wire, remote, told>>

\* The controller takes a packet.  It has an output once at most, as the round
\* of comparisons it comes from does.
Deliver ==
  /\ wire # << >>
  /\ wire' = Tail(wire)
  /\ remote' = [o \in Outputs |->
       LET new == {v \in OutValues : <<o, v>> \in Range(Head(wire))}
       IN IF new = {} THEN remote[o] ELSE Encode(CHOOSE v \in new : TRUE)]
  /\ UNCHANGED <<output, input, notify, event, lastSent, drv, receiving, silence, open, told>>

\* The controller leaves, restarting perhaps, with what is on the wire.
Leave ==
  /\ open
  /\ open' = FALSE /\ wire' = << >>
  /\ remote' \in {remote, [o \in Outputs |-> 0]}
  /\ UNCHANGED <<output, input, notify, event, lastSent, drv, receiving, silence, told>>

Tick ==
  /\ Connected
  /\ silence <= DeadTimeout
  /\ silence' = silence + 1
  /\ UNCHANGED <<output, input, notify, event, lastSent, drv, receiving, open, wire, remote, told>>

SomeWrite == \E w \in Writers, o \in Outputs, v \in OutValues : Write(w, o, v)

DriverWork ==
  \/ Connect \/ (\E i \in Inputs : ZeroInput(i)) \/ StartLoops
  \/ Wake \/ ClearEvent \/ (\E o \in Outputs : Scan(o)) \/ EndScan
  \/ Send \/ Close \/ Alive

Next ==
  \/ SomeWrite \/ \E w \in Writers : Notify(w)
  \/ DriverWork
  \/ \E i \in Inputs, v \in InValues : Receive(i, v)
  \/ ReceiveKeepAlive \/ ReceiveEnd
  \/ Deliver \/ Leave \/ Tick

\* The driver's threads and the writers' callbacks run, the network delivers,
\* and time passes; a controller that is there answers sooner or later.
Fairness ==
  /\ WF_vars(DriverWork) /\ WF_vars(ReceiveEnd)
  /\ \A w \in Writers : WF_vars(Notify(w))
  /\ WF_vars(Deliver) /\ WF_vars(Tick)

Spec == Init /\ [][Next]_vars /\ Fairness
-----------------------------------------------------------------------------
\* Every variable has its type.
TypeOK ==
  /\ output \in [Outputs -> OutValues]
  /\ input \in [Inputs -> InValues]
  /\ notify \subseteq Writers
  /\ event \in BOOLEAN
  /\ lastSent \in [Outputs -> OutValues \cup {Unsent}]
  /\ drv.pc \in {"connect", "zero", "wait", "clear", "scan", "send", "dead"}
  /\ drv.todo \subseteq Outputs \cup Inputs
  /\ Range(drv.pending) \subseteq Outputs \X OutValues
  /\ receiving \in BOOLEAN
  /\ silence \in 0..(DeadTimeout + 1)
  /\ open \in BOOLEAN
  /\ Len(wire) <= MaxWire
  /\ remote \in [Outputs -> Words]
  /\ told \in [Inputs -> InValues]

\* When the send loop waits while an output differs from what was sent, the
\* event is set or is about to be: no write falls between the clearing of the
\* event and the comparison (_send_loop, _on_table_change).
NoLostWakeup ==
  drv.pc = "wait" /\ (\E o \in Outputs : lastSent[o] \notin {output[o], Unsent})
    => event \/ notify # {}

\* Inputs are what the controller sent on this connection, and 0 until then:
\* "Zero inputs so stale values don't persist".
InputsOfThisConnection ==
  Connected /\ drv.pc # "zero" => input = told

\* While the connection stays up and no service writes, the controller's
\* outputs come to be the table's, to 16 bits, and stay so.
RemoteConverges ==
  \/ []<>(~Connected \/ ~open)
  \/ []<><<SomeWrite>>_vars
  \/ <>[](\A o \in Outputs : remote[o] = Encode(output[o]))

\* A connection the controller has left is given up, and made anew.
DeadIsNoticed == Connected /\ ~open ~> ~Connected
=============================================================================
