----------------------------- MODULE RbeSender -----------------------------
(***************************************************************************)
(* Reply by exception in pci.ug405 (src/ug405/protocol/rbe.py over the     *)
(* polling client src/ug405/iobus_client.py): the instation is kept        *)
(* informed of the reply signals by SNMP INFORMs.                          *)
(*                                                                         *)
(* The poll thread reads the signals from the bus and reports changes; the *)
(* send thread takes the pending changes, the keepalive thread all         *)
(* signals, and each of them builds and sends INFORMs of its own.  They    *)
(* share _last_sent and the backlog counter with no lock.  An INFORM       *)
(* carries every bit of a field of which a bit is to be told, read from    *)
(* the bus when the packet is built.                                       *)
(*                                                                         *)
(* Each field here has an SCN of its own, an instation is configured and   *)
(* ReplyByExceptionKeepAlive > 0; packets are lost but not late.  There is *)
(* no clock: once a field has had an INFORM its hold-off may still run or  *)
(* be over, and a keepalive may be due, whenever a thread looks.           *)
(***************************************************************************)
EXTENDS Integers, FiniteSets

CONSTANTS
  Signals,     \* reply signals, but for those of VSn fields
  Inverted,    \* those that ug405.cfg inverts
  FieldOf,     \* the field of each signal
  Retries,     \* ReplyByExceptionRetryCount
  DepthLimit,  \* NOTIFY_QUEUE_LIMIT
  MaxDepth     \* bound on depth, above the limit

Fields == {FieldOf[s] : s \in Signals}

ASSUME RbeSenderAssumption ==
  /\ Signals # {} /\ IsFiniteSet(Signals)
  /\ Inverted \subseteq Signals
  /\ FieldOf \in [Signals -> Fields]
  /\ Retries \in Nat /\ DepthLimit \in Nat /\ MaxDepth \in Nat /\ MaxDepth > DepthLimit

VARIABLES
  bus,       \* the signal table's values
  link,      \* the IOBus client: "up", "stale" (the server is gone, the
             \* socket still there) or "down" (no socket)
  monitored, \* op_mode['value'] >= 2
  prev,      \* _prev of the poll thread
  changed,   \* the changes the poll thread has yet to report
  pending,   \* _pending
  lastSent,  \* _last_sent
  thread,    \* the send thread and the keepalive thread
  depth,     \* notify_depth_ref[0]
  inst       \* the instation's copy

vars == <<bus, link, monitored, prev, changed, pending, lastSent, thread,
          depth, inst>>

Threads == {"send", "keep"}
None    == -1                       \* no entry in a dict
Dicts   == [Signals -> {0, 1, None}]
Empty   == [s \in Signals |-> None]
Keys(dict) == {s \in Signals : dict[s] # None}

\* dict.update
Update(dict, new) == [s \in Signals |-> IF s \in Keys(new) THEN new[s] ELSE dict[s]]

Conditioned(s, v) == IF s \in Inverted THEN 1 - v ELSE v

\* IOBusClient.batch: zeros from a client that has lost its server
Value(s) == IF link = "up" THEN bus[s] ELSE 0

\* ... which is when it notices
AfterRead == IF link = "stale" THEN "down" ELSE link

\* UG405IOBus.read: the value, inverted after it was read
Read(s) == Conditioned(s, Value(s))

\* _group_by_scn, _build_varbinds: the signals an INFORM about these carries
Carried(signals) == {s \in Signals : \E r \in signals : FieldOf[s] = FieldOf[r]}

\* batch: what the INFORM is about; todo: what has to be read; carry: what it
\* says; tries: attempts that failed; seen: the depth that was read
Idle == [pc |-> "wait", batch |-> Empty, todo |-> {}, carry |-> Empty,
         tries |-> 0, seen |-> 0]

\* dict order
First(signals) == CHOOSE s \in signals : TRUE
-----------------------------------------------------------------------------
Init ==
  /\ bus \in [Signals -> {0, 1}]
  /\ link = "down"
  /\ monitored = FALSE
  /\ prev = Empty
  /\ changed = {}
  /\ pending = Empty
  /\ lastSent = Empty
  /\ thread = [t \in Threads |-> Idle]
  /\ depth = 0
  /\ inst = [s \in Signals |-> 0]

-----------------------------------------------------------------------------
(* The poll thread: UG405IOBus._poll_loop, RBEService._on_bus_change *)

\* Only a client that thinks it is connected is polled.
Poll ==
  LET vals == [s \in Signals |-> Value(s)]
  IN /\ changed = {} /\ link # "down"
     /\ changed' = {s \in Signals : prev[s] # vals[s]}
     /\ prev' = vals
     /\ link' = AfterRead
     /\ UNCHANGED <<bus, monitored, pending, lastSent, thread, depth, inst>>

\* The callback: a change counts only in modes 2 and 3.
Report ==
  LET s == First(changed)
  IN /\ changed # {}
     /\ changed' = changed \ {s}
     /\ pending' = IF monitored THEN [pending EXCEPT ![s] = prev[s]] ELSE pending
     /\ UNCHANGED <<bus, link, monitored, prev, lastSent, thread, depth, inst>>

-----------------------------------------------------------------------------
(* The send thread: _send_loop *)

\* The event is set or a second has passed.  What is pending goes; what is new
\* becomes the batch.
Take ==
  LET new == [s \in Signals |-> IF pending[s] = lastSent[s] THEN None ELSE pending[s]]
  IN /\ thread["send"].pc = "wait" /\ pending # Empty
     /\ pending' = Empty
     /\ thread' = [thread EXCEPT !["send"] =
          IF monitored /\ new # Empty
          THEN [@ EXCEPT !.pc = "check", !.batch = new, !.todo = Carried(Keys(new))]
          ELSE Idle]
     /\ UNCHANGED <<bus, link, monitored, prev, changed, lastSent, depth, inst>>

\* A field of the batch has had an INFORM and its hold-off still runs: the
\* batch goes back, over what has come in since.
PutBack ==
  LET batch == thread["send"].batch
  IN /\ thread["send"].pc = "check"
     /\ Carried(Keys(batch)) \cap Keys(lastSent) # {}
     /\ pending' = Update(pending, batch)
     /\ thread' = [thread EXCEPT !["send"] = Idle]
     /\ UNCHANGED <<bus, link, monitored, prev, changed, lastSent, depth, inst>>

-----------------------------------------------------------------------------
(* The keepalive thread: _keepalive_loop *)

\* Faulty variant of KeepAliveWake: an INFORM only for a value that differs
\* from the last one sent.
KeepAliveIfNew ==
  /\ thread["keep"].pc = "wait" /\ monitored
  /\ \E s \in Signals : lastSent[s] # Read(s)
  /\ thread' = [thread EXCEPT !["keep"].pc = "collect", !["keep"].todo = Signals]
  /\ UNCHANGED <<bus, link, monitored, prev, changed, pending, lastSent, depth,
                 inst>>

\* The last INFORM is long ago.
KeepAliveWake ==
  /\ thread["keep"].pc = "wait" /\ monitored
  /\ thread' = [thread EXCEPT !["keep"].pc = "collect", !["keep"].todo = Signals]
  /\ UNCHANGED <<bus, link, monitored, prev, changed, pending, lastSent, depth,
                 inst>>

\* all_signals holds inverted values; _on_bus_change is given raw ones.
Collect ==
  LET s == First(thread["keep"].todo)
  IN /\ thread["keep"].pc = "collect"
     /\ thread' = [thread EXCEPT !["keep"] =
          IF @.todo = {s}
          THEN [@ EXCEPT !.batch[s] = Read(s), !.pc = "read", !.todo = Signals]
          ELSE [@ EXCEPT !.batch[s] = Read(s), !.todo = thread["keep"].todo \ {s}]]
     /\ link' = AfterRead
     /\ UNCHANGED <<bus, monitored, prev, changed, pending, lastSent, depth, inst>>

-----------------------------------------------------------------------------
(* Both: _build_varbinds, _send_inform *)

\* One bit of the packet; for the send thread the first one shows that no
\* hold-off was in its way.
ReadBit(t) ==
  LET s == First(thread[t].todo)
  IN /\ thread[t].pc \in {"check", "read"}
     /\ thread' = [thread EXCEPT ![t] =
          [@ EXCEPT !.carry[s] = Read(s), !.todo = thread[t].todo \ {s},
                    !.pc = IF thread[t].todo = {s} THEN "attempt" ELSE "read"]]
     /\ link' = AfterRead
     /\ UNCHANGED <<bus, monitored, prev, changed, pending, lastSent, depth, inst>>

\* pci.iobus goes away while it serves a read: the line is empty, batch()
\* returns no value, and the exception ends the thread.
ReadCut(t) ==
  /\ thread[t].pc \in {"collect", "check", "read"} /\ link = "up"
  /\ link' = "stale"
  /\ thread' = [thread EXCEPT ![t] = [Idle EXCEPT !.pc = "dead"]]
  /\ UNCHANGED <<bus, monitored, prev, changed, pending, lastSent, depth, inst>>

\* An attempt is acknowledged in time.
Answered(t) ==
  /\ thread[t].pc = "attempt"
  /\ inst' = Update(inst, thread[t].carry)
  /\ thread' = [thread EXCEPT ![t] = [Idle EXCEPT !.pc = "note", !.batch = thread[t].batch]]
  /\ UNCHANGED <<bus, link, monitored, prev, changed, pending, lastSent, depth>>

\* It is not: the packet or its answer is lost.  After the last attempt the
\* counter is read (below MaxDepth), and nothing is pending for it any more.
Unanswered(t) ==
  /\ thread[t].pc = "attempt"
  /\ thread[t].tries < Retries \/ depth < MaxDepth
  /\ thread' = [thread EXCEPT ![t] =
       IF @.tries < Retries THEN [@ EXCEPT !.tries = thread[t].tries + 1]
                            ELSE [Idle EXCEPT !.pc = "more", !.seen = depth]]
  /\ inst' \in {inst, Update(inst, thread[t].carry)}
  /\ UNCHANGED <<bus, link, monitored, prev, changed, pending, lastSent, depth>>

\* The INFORM is noted as sent, with the values of its batch; the counter is
\* read here and written in a step of its own.
Note(t) ==
  /\ thread[t].pc = "note"
  /\ lastSent' = Update(lastSent, thread[t].batch)
  /\ thread' = [thread EXCEPT ![t] = [Idle EXCEPT !.pc = "less", !.seen = depth]]
  /\ UNCHANGED <<bus, link, monitored, prev, changed, pending, depth, inst>>

\* Faulty variant of CountLess: the counter has no floor.
CountBelow(t) ==
  /\ thread[t].pc = "less"
  /\ depth' = thread[t].seen - 1
  /\ thread' = [thread EXCEPT ![t] = Idle]
  /\ UNCHANGED <<bus, link, monitored, prev, changed, pending, lastSent, inst>>

CountLess(t) ==
  /\ thread[t].pc = "less"
  /\ depth' = IF thread[t].seen > 0 THEN thread[t].seen - 1 ELSE 0
  /\ thread' = [thread EXCEPT ![t] = Idle]
  /\ UNCHANGED <<bus, link, monitored, prev, changed, pending, lastSent, inst>>

\* Faulty variant of CountMore: the counter stops at the limit.
CountToLimit(t) ==
  /\ thread[t].pc = "more"
  /\ depth' = IF thread[t].seen < DepthLimit THEN thread[t].seen + 1 ELSE DepthLimit
  /\ thread' = [thread EXCEPT ![t] = Idle]
  /\ UNCHANGED <<bus, link, monitored, prev, changed, pending, lastSent, inst>>

CountMore(t) ==
  /\ thread[t].pc = "more"
  /\ depth' = thread[t].seen + 1
  /\ thread' = [thread EXCEPT ![t] = Idle]
  /\ UNCHANGED <<bus, link, monitored, prev, changed, pending, lastSent, inst>>

-----------------------------------------------------------------------------
(* The watchdog, the instation and the bus *)

BacklogDrop ==
  /\ monitored /\ depth > DepthLimit
  /\ monitored' = FALSE
  /\ depth' = 0
  /\ UNCHANGED <<bus, link, prev, changed, pending, lastSent, thread, inst>>

\* The instation sets the mode, or the watchdog drops it for another reason.
SetMode ==
  /\ monitored' = ~monitored
  /\ UNCHANGED <<bus, link, prev, changed, pending, lastSent, thread, depth, inst>>

SignalChanges ==
  \E s \in Signals :
    /\ bus' = [bus EXCEPT ![s] = 1 - @]
    /\ UNCHANGED <<link, monitored, prev, changed, pending, lastSent, thread,
                   depth, inst>>

ServerLost ==
  /\ link = "up"
  /\ link' = "stale"
  /\ UNCHANGED <<bus, monitored, prev, changed, pending, lastSent, thread, depth,
                 inst>>

Connect ==
  /\ link = "down"
  /\ link' = "up"
  /\ UNCHANGED <<bus, monitored, prev, changed, pending, lastSent, thread, depth,
                 inst>>

-----------------------------------------------------------------------------
Inform(t) ==
  \/ ReadBit(t) \/ Answered(t) \/ Unanswered(t)
  \/ Note(t) \/ CountLess(t) \/ CountMore(t)

PollWork == Poll \/ Report
SendWork == Take \/ PutBack \/ Inform("send")
KeepWork == KeepAliveWake \/ Collect \/ Inform("keep")

Next ==
  \/ PollWork \/ SendWork \/ KeepWork \/ BacklogDrop
  \/ \E t \in Threads : ReadCut(t)
  \/ SetMode \/ SignalChanges \/ ServerLost \/ Connect

\* The keepalive thread and the watchdog run.  The poll and send threads may be
\* as slow as they like: nothing below rests on them.
Fairness == WF_vars(KeepWork) /\ WF_vars(BacklogDrop)

Spec == Init /\ [][Next]_vars /\ Fairness
-----------------------------------------------------------------------------
Steps  == {"wait", "check", "collect", "read", "attempt", "note", "less", "more", "dead"}
Sender == [pc : Steps, batch : Dicts, todo : SUBSET Signals, carry : Dicts,
           tries : 0..Retries, seen : Nat]

\* Every variable has its type: the counter, though each thread writes it from
\* an old value and the watchdog clears it in between, is never negative
\* (_send_inform).
TypeOK ==
  /\ bus \in [Signals -> {0, 1}] /\ inst \in [Signals -> {0, 1}]
  /\ link \in {"up", "stale", "down"}
  /\ monitored \in BOOLEAN
  /\ changed \subseteq Signals
  /\ prev \in Dicts /\ pending \in Dicts /\ lastSent \in Dicts
  /\ thread \in [Threads -> Sender]
  /\ depth \in Nat

Died == \E t \in Threads : thread[t].pc = "dead"

\* The instation's copy comes to agree with the bus and stays so, once mode and
\* link stay up, signals rest and INFORMs are answered: whatever change got
\* lost or was suppressed, a keepalive repairs it (_keepalive_loop).
InstationFollows ==
  \/ []<>~monitored \/ []<>(link # "up")
  \/ []<><<SignalChanges>>_vars
  \/ []<><<\E t \in Threads : Unanswered(t)>>_vars
  \/ <>Died
  \/ <>[](\A s \in Signals : inst[s] = Conditioned(s, bus[s]))

\* An instation that answers nothing loses the outstation, although the two
\* threads count failures with no lock (_send_inform, _watchdog).
BacklogDrops ==
  \/ []<>~monitored
  \/ []<><<\E t \in Threads : Answered(t)>>_vars
  \/ <>Died

\* When the send thread suppresses a change because _last_sent says that its
\* value has been sent, and the signal still has that value, then the instation
\* has it (_send_loop).
UnchangedIsTold ==
  [][thread["send"].pc = "wait" /\ monitored /\ pending' = Empty
     => \A s \in Keys(pending) :
          pending[s] = lastSent[s] /\ pending[s] = bus[s]
          => inst[s] = Conditioned(s, bus[s])]_vars
=============================================================================
