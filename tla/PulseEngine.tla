---------------------------- MODULE PulseEngine ----------------------------
(***************************************************************************)
(* The output pulses of pci.rtig (class PulseEngine of src/rtig/service.py *)
(* on Python's threading.Timer).                                           *)
(*                                                                         *)
(* pulse() runs under the engine's lock.  A timer is a thread of its own:  *)
(* once its wait is over cancel() no longer stops it, and it may still be  *)
(* waiting for the lock that pulse() holds.  _expire() gives the lock back *)
(* before it writes the 0.                                                 *)
(***************************************************************************)
EXTENDS Integers

CONSTANTS
  Signals,    \* output signals that rules pulse
  TimerIds,   \* timer objects, no more than are alive at one time
  NoTimer,    \* no entry in _timers
  Duration    \* pulse_seconds, in ticks

ASSUME PulseEngineAssumption ==
  /\ Signals # {}
  /\ NoTimer \notin TimerIds
  /\ Duration \in Nat \ {0}

VARIABLES
  output,   \* [Signals -> {0, 1}], as the IOBus holds them
  timers,   \* _timers: [Signals -> TimerIds \cup {NoTimer}]
  timer,    \* per timer object: its signal, its progress and its age
  link,     \* the IOBus client is connected
  astray,   \* signals whose last write, or whose timer, was lost
  last      \* history, per signal: the timer of its last pulse, and whether
            \* no earlier timer of the signal was past cancelling at that pulse

vars == <<output, timers, timer, link, astray, last>>

\* armed: waiting; fired: past cancel(), before the lock; popped: before the
\* write; dead: finished, cancelled or not yet created.
Progress == {"dead", "armed", "fired", "popped"}

DeadTimer == [sig |-> CHOOSE s \in Signals : TRUE, pc |-> "dead", age |-> 0]

Alive(i, s) == timer[i].pc # "dead" /\ timer[i].sig = s

\* IOBusClient.write: the value arrives, or the call returns False, which
\* neither pulse() nor _expire() looks at.
Put(s, v) ==
  IF link THEN /\ output' = [output EXCEPT ![s] = v]
               /\ astray' = astray \ {s}
          ELSE /\ astray' = astray \cup {s}
               /\ UNCHANGED output
-----------------------------------------------------------------------------
Init ==
  /\ output = [s \in Signals |-> 0]
  /\ timers = [s \in Signals |-> NoTimer]
  /\ timer = [i \in TimerIds |-> DeadTimer]
  /\ link = TRUE
  /\ astray = {}
  /\ last = [s \in Signals |-> [id |-> NoTimer, clean |-> FALSE]]

\* No earlier timer of s can write its 0 after this pulse's 1.
CleanStart(s) ==
  \A i \in TimerIds : Alive(i, s) => i = timers[s] /\ timer[i].pc = "armed"

\* Faulty variant of Pulse: the timer of the pulse before is left running.
PulseNoCancel(s, i) ==
  /\ timer[i].pc = "dead"
  /\ timer' = [timer EXCEPT ![i] = [sig |-> s, pc |-> "armed", age |-> 0]]
  /\ timers' = [timers EXCEPT ![s] = i]
  /\ Put(s, 1)
  /\ last' = [last EXCEPT ![s] = [id |-> i, clean |-> CleanStart(s)]]
  /\ UNCHANGED link

\* Faulty variant of Pulse: a pulse on an active signal starts no timer.
PulseNoRestart(s, i) ==
  /\ timer[i].pc = "dead"
  /\ IF timers[s] = NoTimer
     THEN timer' = [timer EXCEPT ![i] = [sig |-> s, pc |-> "armed", age |-> 0]]
     ELSE timer' = [timer EXCEPT ![timers[s]] = IF @.pc = "armed" THEN DeadTimer ELSE @]
  /\ timers' = [timers EXCEPT ![s] = IF @ = NoTimer THEN i ELSE NoTimer]
  /\ Put(s, 1)
  /\ last' = [last EXCEPT ![s] = [id |-> i, clean |-> CleanStart(s)]]
  /\ UNCHANGED link

\* pulse(s): cancel the timer on file, write 1, start a timer and file it.
Pulse(s, i) ==
  /\ timer[i].pc = "dead"
  /\ timer' = [j \in TimerIds |->
       IF j = i THEN [sig |-> s, pc |-> "armed", age |-> 0]
       ELSE IF j = timers[s] /\ timer[j].pc = "armed"
            THEN DeadTimer
            ELSE timer[j]]
  /\ timers' = [timers EXCEPT ![s] = i]
  /\ Put(s, 1)
  /\ last' = [last EXCEPT ![s] = [id |-> i, clean |-> CleanStart(s)]]
  /\ UNCHANGED link

\* The wait of timer i is over: nothing cancels it any more.
Fire(i) ==
  /\ timer[i].pc = "armed"
  /\ timer[i].age = Duration
  /\ timer' = [timer EXCEPT ![i].pc = "fired"]
  /\ UNCHANGED <<output, timers, link, astray, last>>

\* _expire, under the lock: the entry goes, whichever timer it holds.
Pop(i) ==
  /\ timer[i].pc = "fired"
  /\ timer' = [timer EXCEPT ![i].pc = "popped"]
  /\ timers' = [timers EXCEPT ![timer[i].sig] = NoTimer]
  /\ UNCHANGED <<output, link, astray, last>>

\* _expire, after the lock.
WriteOff(i) ==
  /\ timer[i].pc = "popped"
  /\ timer' = [timer EXCEPT ![i] = DeadTimer]
  /\ Put(timer[i].sig, 0)
  /\ UNCHANGED <<timers, link, last>>

\* Faulty variant of Tick: a timer whose wait is over goes on counting.
TickPast ==
  /\ \E i \in TimerIds : timer[i].pc = "armed"
  /\ timer' = [i \in TimerIds |->
       IF timer[i].pc = "armed" THEN [timer[i] EXCEPT !.age = @ + 1] ELSE timer[i]]
  /\ UNCHANGED <<output, timers, link, astray, last>>

Tick ==
  /\ \E i \in TimerIds : timer[i].pc = "armed" /\ timer[i].age < Duration
  /\ timer' = [i \in TimerIds |->
       IF timer[i].pc = "armed" /\ timer[i].age < Duration
       THEN [timer[i] EXCEPT !.age = @ + 1] ELSE timer[i]]
  /\ UNCHANGED <<output, timers, link, astray, last>>

\* The process ends and is started again: its timers are daemon threads, and
\* nothing writes 0 on the way out or on the way in.
Restart ==
  /\ timer' = [i \in TimerIds |-> DeadTimer]
  /\ timers' = [s \in Signals |-> NoTimer]
  /\ astray' = astray \cup {s \in Signals : output[s] = 1}
  /\ last' = [s \in Signals |-> [id |-> NoTimer, clean |-> FALSE]]
  /\ UNCHANGED <<output, link>>

\* The connection is lost; if pci.iobus restarts, its table starts from zero.
IOBusLost ==
  /\ link
  /\ link' = FALSE
  /\ \/ UNCHANGED <<output, astray>>
     \/ /\ output' = [s \in Signals |-> 0]
        /\ astray' = astray \cup {s \in Signals : output[s] = 1}
  /\ UNCHANGED <<timers, timer, last>>

IOBusBack ==
  /\ ~link
  /\ link' = TRUE
  /\ UNCHANGED <<output, timers, timer, astray, last>>

SomePulse == \E s \in Signals, i \in TimerIds : Pulse(s, i)

Expire(i) == Fire(i) \/ Pop(i) \/ WriteOff(i)

Next ==
  \/ SomePulse
  \/ \E i \in TimerIds : Expire(i)
  \/ Tick \/ Restart \/ IOBusLost \/ IOBusBack

\* Timer threads run and time passes; pulses and failures need not happen.
Spec == Init /\ [][Next]_vars /\ WF_vars(Tick) /\ \A i \in TimerIds : WF_vars(Expire(i))
-----------------------------------------------------------------------------
\* Every variable has its type.
TypeOK ==
  /\ output \in [Signals -> {0, 1}]
  /\ timers \in [Signals -> TimerIds \cup {NoTimer}]
  /\ timer \in [TimerIds -> [sig : Signals, pc : Progress, age : 0..Duration]]
  /\ link \in BOOLEAN
  /\ astray \subseteq Signals
  /\ last \in [Signals -> [id : TimerIds \cup {NoTimer}, clean : BOOLEAN]]

\* An output that is on will be put off: some timer of the signal is still to
\* write its 0, whatever _expire pops and whatever pulse() cancels, unless a
\* write was lost or the process restarted during the pulse.
OnHasTimer ==
  \A s \in Signals :
    output[s] = 1 => s \in astray \/ \E i \in TimerIds : Alive(i, s)

\* A pulse that no earlier timer can reach lasts until its own timer fires.
CleanPulseFull ==
  \A s \in Signals :
    LET p == last[s]
    IN p.clean /\ p.id # NoTimer /\ Alive(p.id, s) /\ timer[p.id].pc = "armed"
         => output[s] = 1 \/ s \in astray

\* The same for every pulse, as the docstring of PulseEngine says: "A second
\* pulse on an active signal restarts the timer."
PulseFull ==
  \A s \in Signals :
    LET p == last[s]
    IN p.id # NoTimer /\ Alive(p.id, s) /\ timer[p.id].pc = "armed"
         => output[s] = 1 \/ s \in astray

\* "resets to 0 after duration": when pulses stop, every output goes off for
\* good, or is astray.
OffAgain ==
  \/ []<><<SomePulse>>_vars
  \/ <>[](\A s \in Signals : output[s] = 0 \/ s \in astray)
=============================================================================
