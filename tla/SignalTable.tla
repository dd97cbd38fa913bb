---------------------------- MODULE SignalTable ----------------------------
(***************************************************************************)
(* The signal table of pci.iobus (src/iobus/server.py): raw values, the    *)
(* owners of each signal, conditioning, and the change callbacks.          *)
(*                                                                         *)
(* Every client connection is served by a thread of its own, and the       *)
(* drivers' threads call the same methods.  write() takes the table's lock *)
(* only for the ownership check and the assignment; the callbacks run on   *)
(* the writer's thread after the lock is released.  A write is therefore   *)
(* one locked step followed by one step per subscriber, and the steps of   *)
(* two writers interleave.                                                 *)
(***************************************************************************)
EXTENDS Integers, Sequences

CONSTANTS
  Signals,       \* signal names
  Raw,           \* raw values a writer may send (a set of naturals with 0)
  Services,      \* identities a connection may announce with HELLO
  Threads,       \* threads that call the table
  ServiceOf,     \* [Threads -> Services], the name a thread's client announces
  DriverThreads, \* the threads of the driver inside pci.iobus: no HELLO needed
  Configured,    \* [Signals -> SUBSET Services], signals.cfg; {} if not listed
  Inverted,      \* signals conditioned with "invert"
  Scale,         \* [Signals -> [num, den]], the rational of "scale=N"
  Subscribers    \* callbacks in subscription order, such as <<"gpio", "live">>

Nobody == "nobody"    \* a connection that has not said HELLO

Subs == {Subscribers[i] : i \in 1..Len(Subscribers)}

ASSUME SignalTableAssumption ==
  /\ Signals # {}
  /\ Raw \subseteq Nat /\ 0 \in Raw
  /\ ServiceOf \in [Threads -> Services]
  /\ DriverThreads \subseteq Threads
  /\ Nobody \notin Services
  /\ Configured \in [Signals -> SUBSET Services]
  /\ Inverted \subseteq Signals
  /\ Scale \in [Signals -> [num : Nat, den : Nat \ {0}]]
  /\ Subscribers \in Seq(Subs) /\ Subscribers # << >>

VARIABLES
  values,     \* [Signals -> Raw]; 0 for a name that is not registered
  owners,     \* [Signals -> SUBSET Services]; {} means not registered
  identity,   \* [Threads -> Services \cup {Nobody}]
  job,        \* per thread: the signal, the conditioned value and the
              \* callbacks its write() has still to call
  delivered,  \* per subscriber and signal: the last value its callback handled
  lost        \* subscribers and signals whose last callback raised

vars == <<values, owners, identity, job, delivered, lost>>

-----------------------------------------------------------------------------
\* What a reader sees: the scaled value, then inverted to 0 or 1.
Apply(s, raw) ==
  LET scaled == (raw * Scale[s].num) \div Scale[s].den
  IN IF s \in Inverted THEN (IF scaled = 0 THEN 1 ELSE 0) ELSE scaled

Read(s) == Apply(s, values[s])

\* The state of a thread that is not inside write().
NoJob == [name |-> CHOOSE s \in Signals : TRUE, value |-> 0, todo |-> << >>]

Idle(t) == job[t].todo = << >>

\* The rest of a write once the callback at the head of its list has run.
NextCallback(j) ==
  IF Len(j.todo) = 1 THEN NoJob ELSE [j EXCEPT !.todo = Tail(@)]

Owns(t, s) == identity[t] \in owners[s]
-----------------------------------------------------------------------------
Init ==
  /\ values = [s \in Signals |-> 0]
  /\ owners = Configured
  /\ identity = [t \in Threads |->
                   IF t \in DriverThreads THEN ServiceOf[t] ELSE Nobody]
  /\ job = [t \in Threads |-> NoJob]
  /\ delivered = [sub \in Subs |-> [s \in Signals |-> Apply(s, 0)]]
  /\ lost = {}

\* A client connects and announces its service name.
Hello(t) ==
  /\ identity[t] = Nobody
  /\ identity' = [identity EXCEPT ![t] = ServiceOf[t]]
  /\ UNCHANGED <<values, owners, job, delivered, lost>>

\* The client closes its socket; the thread leaves its loop at the next read.
Disconnect(t) ==
  /\ t \notin DriverThreads
  /\ identity[t] # Nobody
  /\ Idle(t)
  /\ identity' = [identity EXCEPT ![t] = Nobody]
  /\ UNCHANGED <<values, owners, job, delivered, lost>>

\* Faulty variant of Register: the caller replaces the owner on file.
RegisterOverwrite(t, s) ==
  /\ t \in DriverThreads
  /\ Idle(t)
  /\ owners' = [owners EXCEPT ![s] = {ServiceOf[t]}]
  /\ UNCHANGED <<values, identity, job, delivered, lost>>

\* A driver registers a signal it found on its controller.  A name on file
\* keeps its owners: the call changes nothing, whether the driver is one of
\* them or the call raises ValueError and the driver logs it.
Register(t, s) ==
  /\ t \in DriverThreads
  /\ Idle(t)
  /\ owners[s] = {}
  /\ owners' = [owners EXCEPT ![s] = {ServiceOf[t]}]
  /\ UNCHANGED <<values, identity, job, delivered, lost>>

\* Faulty variant of Write: the callbacks are given the raw value.
WriteTellsRaw(t, s, v) ==
  /\ Idle(t)
  /\ Owns(t, s)
  /\ values[s] # v
  /\ values' = [values EXCEPT ![s] = v]
  /\ job' = [job EXCEPT ![t] = [name |-> s, value |-> v, todo |-> Subscribers]]
  /\ UNCHANGED <<owners, identity, delivered, lost>>

\* Faulty variant of Write: the table keeps the conditioned value.
WriteStoresConditioned(t, s, v) ==
  /\ Idle(t)
  /\ Owns(t, s)
  /\ values[s] # v
  /\ values' = [values EXCEPT ![s] = Apply(s, v)]
  /\ job' = [job EXCEPT ![t] =
               [name |-> s, value |-> Apply(s, v), todo |-> Subscribers]]
  /\ UNCHANGED <<owners, identity, delivered, lost>>

\* The locked part of write(), when the value is new.
Write(t, s, v) ==
  /\ Idle(t)
  /\ Owns(t, s)
  /\ values[s] # v
  /\ values' = [values EXCEPT ![s] = v]
  /\ job' = [job EXCEPT ![t] =
               [name |-> s, value |-> Apply(s, v), todo |-> Subscribers]]
  /\ UNCHANGED <<owners, identity, delivered, lost>>

\* Faulty variant of Notify: an exception ends the loop over the callbacks.
NotifyStopsOnError(t) ==
  LET sub == Head(job[t].todo)
      s   == job[t].name
  IN /\ ~Idle(t)
     /\ \/ /\ delivered' = [delivered EXCEPT ![sub][s] = job[t].value]
           /\ lost' = lost \ {<<sub, s>>}
           /\ job' = [job EXCEPT ![t] = NextCallback(job[t])]
        \/ /\ lost' = lost \cup {<<sub, s>>}
           /\ job' = [job EXCEPT ![t] = NoJob]
           /\ UNCHANGED delivered
     /\ UNCHANGED <<values, owners, identity>>

\* The callback at the head of the list runs; write() catches what it raises
\* and goes on with the next one.
Notify(t) ==
  LET sub == Head(job[t].todo)
      s   == job[t].name
  IN /\ ~Idle(t)
     /\ job' = [job EXCEPT ![t] = NextCallback(job[t])]
     /\ \/ /\ delivered' = [delivered EXCEPT ![sub][s] = job[t].value]
           /\ lost' = lost \ {<<sub, s>>}
        \/ /\ lost' = lost \cup {<<sub, s>>}
           /\ UNCHANGED delivered
     /\ UNCHANGED <<values, owners, identity>>

Next ==
  \E t \in Threads :
    \/ Hello(t)
    \/ Disconnect(t)
    \/ Notify(t)
    \/ \E s \in Signals :
         \/ Register(t, s)
         \/ \E v \in Raw : Write(t, s, v)

Spec == Init /\ [][Next]_vars
-----------------------------------------------------------------------------
\* Every variable has its type; values holds what writers sent, unconditioned.
TypeOK ==
  /\ values \in [Signals -> Raw]
  /\ owners \in [Signals -> SUBSET Services]
  /\ identity \in [Threads -> Services \cup {Nobody}]
  /\ job \in [Threads -> [name : Signals, value : Int, todo : Seq(Subs)]]
  /\ delivered \in [Subs -> [Signals -> Int]]
  /\ lost \subseteq Subs \X Signals

\* At most one thread can ever write s: one owner, with one connection.
Exclusive(s) ==
  \A t, u \in Threads :
    ServiceOf[t] \in owners[s] /\ ServiceOf[u] \in owners[s] => t = u

\* Some thread has yet to call sub for a write to s.
Pending(sub, s) ==
  \E t \in Threads :
    job[t].name = s /\ \E i \in 1..Len(job[t].todo) : job[t].todo[i] = sub

Mirrors(sub, s) ==
  Pending(sub, s) \/ <<sub, s>> \in lost \/ delivered[sub][s] = Read(s)

\* What a callback was told of a signal with a single writer is what a reader
\* of the table sees, except while the write is still calling the subscribers
\* or after that very callback failed (GPIO outputs and the live push, which
\* use the value they are handed: write, driver_gpio._on_table_change).
MirrorCoherent ==
  \A s \in Signals : Exclusive(s) => \A sub \in Subs : Mirrors(sub, s)

\* Whoever changes a signal that signals.cfg lists is a service it lists, and
\* only the driver can change the others, however often the driver registers
\* its inputs again at run time.
RightfulOwner(s) ==
  IF Configured[s] # {} THEN Configured[s]
  ELSE {ServiceOf[t] : t \in DriverThreads}

ConfiguredOwnersOnly ==
  [][\A s \in Signals :
       values'[s] # values[s] =>
         \E t \in Threads : job'[t] # job[t] /\ identity[t] \in RightfulOwner(s)]_vars
=============================================================================
