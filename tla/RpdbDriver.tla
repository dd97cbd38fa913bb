----------------------------- MODULE RpdbDriver -----------------------------
(***************************************************************************)
(* The RPDB driver of pci.iobus (src/iobus/driver_rpdb.py).  It registers  *)
(* the elements of a controller's parameters as input signals, keeps them  *)
(* equal to the controller's by a first fetch and a subscription, and      *)
(* writes the rpdb.o.* outputs with SET_VALUE requests.                    *)
(*                                                                         *)
(* Each parameter (URI) has one element here.  The first fetch and every   *)
(* batch of SETs use a connection of their own: they may fail while the    *)
(* subscription's connection is well, and a batch may have had its effect  *)
(* although it counts as failed.  The dedicated write socket is opened,    *)
(* closed and never used; it is left out.                                  *)
(* The controller may change an element at any time, and stop, come back or *)
(* end the session long before the driver notices.                         *)
(***************************************************************************)
EXTENDS Integers, Sequences

CONSTANTS
  Uris,     \* parameters subscribed to
  Outputs,  \* rpdb.o.* signals
  Named,    \* outputs given by an element's name
  UriOf,    \* the parameter of each output
  MaxPush   \* pushes on the way at one time

VARIABLES
  element,    \* the controller's inputs
  remote,     \* the controller's outputs
  reachable,  \* the controller answers
  intact,     \* the controller's end of the subscription's connection stands
  input,      \* the table's copy of element
  output,     \* the table's outputs
  notify,     \* a write() has yet to call _on_table_change
  foreign,    \* parameters whose signal signals.cfg gives to a service
  registered, \* parameters whose element is in _input_signals
  outs,       \* _output_signals
  drv,        \* the connect thread: pc, what it has still to visit, the batch
  connected,  \* self.connected
  receiving,  \* the receive thread runs
  event,      \* _send_event
  lastSent,   \* _last_sent
  pushes,     \* subscription messages on the way
  skewed,     \* the receive thread has lost the frame boundaries
  unsure      \* history: outputs of a batch that failed and may have had its effect

table == <<input, output, notify>>
ctrl  == <<element, remote, reachable, intact>>
names == <<foreign, registered, outs>>
recv  == <<receiving, pushes, skewed>>
sent  == <<lastSent, unsure>>
vars  == <<table, ctrl, names, drv, connected, recv, event, sent>>

Unsent == -1
At(pc) == [pc |-> pc, todo |-> {}, dirty |-> {}]
-----------------------------------------------------------------------------
Init ==
  /\ element \in [Uris -> {0, 1}] /\ remote = [o \in Outputs |-> 0]
  /\ reachable \in BOOLEAN /\ intact = FALSE
  /\ input = [u \in Uris |-> 0] /\ output = [o \in Outputs |-> 0] /\ notify = FALSE
  /\ foreign \in SUBSET Uris /\ registered = {} /\ outs = {}
  /\ drv = At("register")
  /\ connected = FALSE /\ receiving = FALSE /\ event = FALSE
  /\ lastSent = [o \in Outputs |-> Unsent]
  /\ pushes = << >> /\ skewed = FALSE /\ unsure = {}

\* table.write: refused for a signal the driver does not own.
Refresh(u, v) ==
  input' = IF u \in registered \ foreign THEN [input EXCEPT ![u] = v] ELSE input

-----------------------------------------------------------------------------
(* The connect thread: start, _connect_loop *)

\* _fetch_names, _register_inputs and _register_outputs.  Every parameter is a
\* query of its own: some may fail.  A signal that a service owns is put into
\* _input_signals all the same.
Register ==
  /\ drv.pc = "register"
  /\ \E got \in IF reachable THEN SUBSET Uris ELSE {{}},
        named \in IF reachable THEN SUBSET Named ELSE {{}} :
       /\ registered' = registered \cup got
       /\ outs' = outs \cup (Outputs \ Named) \cup named
  /\ drv' = At("connect")
  /\ UNCHANGED <<table, ctrl, foreign, connected, recv, event, sent>>

\* Log in, subscribe, forget what was sent.
Connect ==
  /\ drv.pc = "connect" /\ reachable
  /\ connected' = TRUE /\ intact' = TRUE
  /\ lastSent' = [o \in Outputs |-> Unsent]
  /\ pushes' = << >> /\ skewed' = FALSE
  /\ drv' = [At("fetch") EXCEPT !.todo = Uris]
  /\ UNCHANGED <<table, element, remote, reachable, names, receiving, event, unsure>>

ConnectFails ==
  /\ drv.pc = "connect"
  /\ drv' = At("backoff")
  /\ UNCHANGED <<table, ctrl, names, connected, recv, event, sent>>

\* _initial_fetch, on a connection of its own: one parameter.
Fetch(u) ==
  /\ drv.pc = "fetch" /\ u \in drv.todo
  /\ drv' = [drv EXCEPT !.todo = @ \ {u}]
  /\ (reachable /\ Refresh(u, element[u])) \/ UNCHANGED input
  /\ UNCHANGED <<output, notify, ctrl, names, connected, recv, event, sent>>

StartLoops ==
  /\ drv.pc = "fetch" /\ drv.todo = {}
  /\ receiving' = TRUE
  /\ drv' = At("wait")
  /\ UNCHANGED <<table, ctrl, names, connected, pushes, skewed, event, sent>>

\* The event is set or PING_INTERVAL is over.
Wake ==
  /\ drv.pc = "wait" /\ connected
  /\ event' = FALSE
  /\ drv' = [At("scan") EXCEPT !.todo = outs]
  /\ UNCHANGED <<table, ctrl, names, connected, recv, sent>>

\* One signal of the scan for what is dirty.
Scan(o) ==
  /\ drv.pc = "scan" /\ o \in drv.todo
  /\ drv' = [drv EXCEPT !.todo = @ \ {o},
                        !.dirty = IF output[o] # lastSent[o] THEN @ \cup {<<o, output[o]>>} ELSE @]
  /\ UNCHANGED <<table, ctrl, names, connected, recv, event, sent>>

Batch(u) == {d \in drv.dirty : UriOf[d[1]] = u}

Scanned(u) == drv.pc = "scan" /\ drv.todo = {} /\ Batch(u) # {}

\* The controller's outputs when the SETs of a batch have been carried out.
Set(batch) == [o \in Outputs |-> IF \E v \in {0, 1} : <<o, v>> \in batch
                                 THEN CHOOSE v \in {0, 1} : <<o, v>> \in batch
                                 ELSE remote[o]]

SignalsOf(batch) == {d[1] : d \in batch}

\* _set_values_pipeline for the changes of one parameter: all acknowledged ...
SetAll(u) ==
  /\ Scanned(u) /\ reachable
  /\ remote' = Set(Batch(u))
  /\ lastSent' = [o \in Outputs |-> IF o \in SignalsOf(Batch(u)) THEN remote'[o] ELSE lastSent[o]]
  /\ unsure' = unsure \ SignalsOf(Batch(u))
  /\ drv' = [drv EXCEPT !.dirty = @ \ Batch(u)]
  /\ UNCHANGED <<table, element, reachable, intact, names, connected, recv, event>>

\* Faulty variant of SetSome: what failed is noted as sent.
SetSomeNoted(u) ==
  /\ Scanned(u)
  /\ \E done \in IF reachable THEN SUBSET Batch(u) ELSE {{}} :
       /\ remote' = Set(done)
       /\ unsure' = unsure \cup SignalsOf(done)
  /\ lastSent' = [o \in Outputs |-> IF o \in SignalsOf(Batch(u)) THEN output[o] ELSE lastSent[o]]
  /\ drv' = [drv EXCEPT !.dirty = @ \ Batch(u)]
  /\ UNCHANGED <<table, element, reachable, intact, names, connected, recv, event>>

\* ... or not: no connection, a SET refused, an answer that did not come.
SetSome(u) ==
  /\ Scanned(u)
  /\ \E done \in IF reachable THEN SUBSET Batch(u) ELSE {{}} :
       /\ remote' = Set(done)
       /\ unsure' = unsure \cup SignalsOf(done)
  /\ drv' = [drv EXCEPT !.dirty = @ \ Batch(u)]
  /\ UNCHANGED <<table, element, reachable, intact, names, connected, recv, event, lastSent>>

Scanned0 ==
  /\ drv.pc = "scan" /\ drv.todo = {} /\ drv.dirty = {}
  /\ drv' = At("wait")
  /\ UNCHANGED <<table, ctrl, names, connected, recv, event, sent>>

\* The send loop ends, the connection is closed.
Close ==
  /\ drv.pc = "wait" /\ ~connected
  /\ intact' = FALSE /\ pushes' = << >>
  /\ drv' = At("backoff")
  /\ UNCHANGED <<table, element, remote, reachable, names, connected, receiving, skewed, event,
                 sent>>

\* Registration is tried again only while nothing at all is registered.
Retry ==
  /\ drv.pc = "backoff"
  /\ drv' = At(IF registered = {} THEN "register" ELSE "connect")
  /\ UNCHANGED <<table, ctrl, names, connected, recv, event, sent>>

-----------------------------------------------------------------------------
(* The receive thread: _recv_loop *)

Receive ==
  /\ receiving /\ pushes # << >>
  /\ Refresh(Head(pushes).uri, Head(pushes).value)
  /\ pushes' = Tail(pushes)
  /\ UNCHANGED <<output, notify, ctrl, names, drv, connected, receiving, skewed, event, sent>>

\* _recv_exact times out in the middle of a frame and drops what it has read.
\* From then on no message of this connection means anything: they are left out.
Skew ==
  /\ receiving /\ pushes # << >>
  /\ skewed' = TRUE
  /\ pushes' = << >>
  /\ UNCHANGED <<table, ctrl, names, drv, connected, receiving, event, sent>>

\* Faulty variant of ReceiveEnds: the thread ends and tells nobody.
ReceiveEndsQuietly ==
  /\ receiving /\ (~intact \/ skewed)
  /\ receiving' = FALSE
  /\ UNCHANGED <<table, ctrl, names, drv, connected, pushes, skewed, event, sent>>

\* CLOSE, end of file, or a ping that cannot be sent.
ReceiveEnds ==
  /\ receiving /\ (~intact \/ skewed)
  /\ receiving' = FALSE
  /\ connected' = FALSE
  /\ event' = TRUE
  /\ UNCHANGED <<table, ctrl, names, drv, pushes, skewed, sent>>

-----------------------------------------------------------------------------
(* The services, and the controller *)

Write(o) ==
  /\ output' = [output EXCEPT ![o] = 1 - @]
  /\ notify' = TRUE
  /\ UNCHANGED <<input, ctrl, names, drv, connected, recv, event, sent>>

Notify ==
  /\ notify
  /\ notify' = FALSE
  /\ event' = TRUE
  /\ UNCHANGED <<input, output, ctrl, names, drv, connected, recv, sent>>

\* An element changes whenever it likes.
Element(u) ==
  /\ element' = [element EXCEPT ![u] = 1 - @]
  /\ UNCHANGED <<table, remote, reachable, intact, names, drv, connected, recv, event, sent>>

\* SUBSCRIBE_VALUE_ONTIME: every so many ticks the current value is pushed.
Heartbeat(u) ==
  /\ intact /\ ~skewed /\ Len(pushes) < MaxPush
  /\ pushes' = Append(pushes, [uri |-> u, value |-> element[u]])
  /\ UNCHANGED <<table, ctrl, names, drv, connected, receiving, skewed, event, sent>>

\* The controller stops; its outputs are off when it is back.
Stop ==
  /\ reachable
  /\ reachable' = FALSE /\ intact' = FALSE
  /\ remote' = [o \in Outputs |-> 0]
  /\ unsure' = {}
  /\ UNCHANGED <<table, element, names, drv, connected, recv, event, lastSent>>

\* It is back, whether or not the driver has noticed.
Return ==
  /\ ~reachable
  /\ reachable' = TRUE
  /\ UNCHANGED <<table, element, remote, intact, names, drv, connected, recv, event, sent>>

\* The controller ends the session, or the network does, and goes on.
Cut ==
  /\ intact
  /\ intact' = FALSE
  /\ UNCHANGED <<table, element, remote, reachable, names, drv, connected, recv, event, sent>>

-----------------------------------------------------------------------------
DriverWork ==
  \/ Register \/ Connect \/ ConnectFails \/ StartLoops \/ Wake \/ Scanned0 \/ Close \/ Retry
  \/ \E u \in Uris : Fetch(u) \/ SetAll(u) \/ SetSome(u)
  \/ \E o \in Outputs : Scan(o)

Next ==
  \/ DriverWork \/ Receive \/ Skew \/ ReceiveEnds \/ Notify \/ Stop \/ Return \/ Cut
  \/ \E o \in Outputs : Write(o)
  \/ \E u \in Uris : Element(u) \/ Heartbeat(u)

Spec == Init /\ [][Next]_vars
-----------------------------------------------------------------------------
Driver == [pc : {"register", "connect", "fetch", "wait", "scan", "backoff"},
           todo : SUBSET (Uris \cup Outputs), dirty : SUBSET (Outputs \X {0, 1})]
PushType == [uri : Uris, value : {0, 1}]

\* Every variable has its type.
TypeOK ==
  /\ element \in [Uris -> {0, 1}] /\ input \in [Uris -> {0, 1}]
  /\ remote \in [Outputs -> {0, 1}] /\ output \in [Outputs -> {0, 1}]
  /\ reachable \in BOOLEAN /\ intact \in BOOLEAN /\ notify \in BOOLEAN /\ connected \in BOOLEAN
  /\ receiving \in BOOLEAN /\ event \in BOOLEAN /\ skewed \in BOOLEAN
  /\ foreign \subseteq Uris /\ registered \subseteq Uris /\ outs \subseteq Outputs /\ unsure \subseteq Outputs
  /\ drv \in Driver /\ lastSent \in [Outputs -> {0, 1, Unsent}]
  /\ pushes \in Seq(PushType) /\ Len(pushes) <= MaxPush

\* Registered inputs that are the driver's own come to agree with the controller's
\* elements and stay so, whatever the first fetch missed and although it may
\* have read a newer value than pushes that are still on the way: on a connection
\* that stays up, and keeps its frame boundaries, with elements that rest
\* (_initial_fetch, _recv_loop).
InputsFollow ==
  \/ []<>~connected \/ []<>skewed
  \/ \E u \in Uris : []<><<Element(u)>>_vars
  \/ <>[](\A u \in registered \ foreign : input[u] = element[u])

\* Outputs come to agree with the table and stay so: on a connection that stays
\* up, while services rest and batches succeed, unless one that failed had an
\* effect (_send_loop).
OutputsFollow ==
  \/ []<>~connected
  \/ \E o \in Outputs : []<><<Write(o)>>_vars
  \/ \E u \in Uris : []<><<SetSome(u)>>_vars
  \/ []<>(unsure # {})
  \/ <>[](\A o \in outs : remote[o] = output[o])
=============================================================================
