-------------------------- MODULE PulseEngineProofs --------------------------
(***************************************************************************)
(* Proofs about PulseEngine, for any number of signals and timers and any  *)
(* duration.  The strengthening (Filed) says that the timer on file for a  *)
(* signal is a timer of that signal which has not been popped: so pulse()  *)
(* never cancels another signal's timer.  For CleanPulseFull, the timer of *)
(* a clean pulse is the only one its signal has.                           *)
(***************************************************************************)
EXTENDS PulseEngine, TLAPS

Filed == \A s \in Signals : timers[s] # NoTimer =>
  timer[timers[s]].pc \in {"armed", "fired"} /\ timer[timers[s]].sig = s

\* The timer of a clean pulse of s is still waiting.
CleanRuns(s) ==
  /\ last[s].clean /\ last[s].id # NoTimer
  /\ Alive(last[s].id, s) /\ timer[last[s].id].pc = "armed"

CleanIsAlone == \A s \in Signals : CleanRuns(s) =>
  /\ output[s] = 1 \/ s \in astray
  /\ \A j \in TimerIds : Alive(j, s) => j = last[s].id

IInv == TypeOK /\ Filed /\ OnHasTimer /\ CleanIsAlone
-----------------------------------------------------------------------------
LEMMA DeadTimerType ==
  /\ DeadTimer \in [sig : Signals, pc : Progress, age : 0..Duration]
  /\ DeadTimer.pc = "dead"
  BY PulseEngineAssumption DEF DeadTimer, Progress

\* A write leaves the other signals alone; a signal that is then not as
\* written is astray.
LEMMA PutEffect ==
  ASSUME TypeOK, NEW s \in Signals, NEW v \in {0, 1}, Put(s, v)
  PROVE  /\ output' \in [Signals -> {0, 1}] /\ astray' \subseteq Signals
         /\ output'[s] = v \/ s \in astray'
         /\ \A r \in Signals \ {s} : output'[r] = output[r] /\ (r \in astray' <=> r \in astray)
  BY DEF TypeOK, Put

-----------------------------------------------------------------------------
(* The steps *)

LEMMA PulseStep ==
  ASSUME IInv, NEW s \in Signals, NEW i \in TimerIds, Pulse(s, i)
  PROVE  IInv'
<1> DEFINE new == [sig |-> s, pc |-> "armed", age |-> 0]
<1>1. /\ timer[i].pc = "dead" /\ Put(s, 1) /\ link' = link
      /\ timers' = [timers EXCEPT ![s] = i]
      /\ last' = [last EXCEPT ![s] = [id |-> i, clean |-> CleanStart(s)]]
  BY DEF Pulse
<1>2. /\ TypeOK /\ i # NoTimer /\ i # timers[s]
      /\ \A r \in Signals : timers[r] \in TimerIds \cup {NoTimer}
  BY <1>1, PulseEngineAssumption DEF IInv, Filed, TypeOK
<1>3. /\ timer'[i] = new
      /\ \A j \in TimerIds \ {i} :
           timer'[j] = IF j = timers[s] /\ timer[j].pc = "armed" THEN DeadTimer ELSE timer[j]
  BY DEF Pulse
<1>4. new \in [sig : Signals, pc : Progress, age : 0..Duration]
  BY PulseEngineAssumption DEF Progress
<1>5. timer' \in [TimerIds -> [sig : Signals, pc : Progress, age : 0..Duration]]
  BY <1>2, <1>4, DeadTimerType DEF Pulse, TypeOK
<1>6. /\ output' \in [Signals -> {0, 1}] /\ astray' \subseteq Signals
      /\ output'[s] = 1 \/ s \in astray'
      /\ \A r \in Signals \ {s} : output'[r] = output[r] /\ (r \in astray' <=> r \in astray)
  BY <1>1, <1>2, PutEffect
<1>7. CleanStart(s) \in BOOLEAN
  BY DEF CleanStart
<1>8. TypeOK'
  BY <1>1, <1>2, <1>5, <1>6, <1>7 DEF TypeOK
<1>9. \A r \in Signals \ {s}, j \in TimerIds : j # i /\ timer[j].sig = r => timer'[j] = timer[j]
  BY <1>2, <1>3, PulseEngineAssumption DEF IInv, Filed
<1>10. Filed'
  <2> SUFFICES ASSUME NEW r \in Signals, timers'[r] # NoTimer
               PROVE  timer'[timers'[r]].pc \in {"armed", "fired"} /\ timer'[timers'[r]].sig = r
    BY DEF Filed
  <2>1. CASE r = s
    BY <1>1, <1>2, <1>3, <2>1 DEF TypeOK
  <2>2. CASE r # s
    <3>1. timers'[r] = timers[r] /\ timers[r] \in TimerIds /\ timers[r] # NoTimer
      BY <1>1, <1>2, <2>2 DEF TypeOK
    <3>2. timer[timers[r]].pc \in {"armed", "fired"} /\ timer[timers[r]].sig = r
      BY <3>1 DEF IInv, Filed
    <3>3. timers[r] # i
      BY <1>1, <3>2
    <3> QED
      BY <1>9, <2>2, <3>1, <3>2, <3>3
  <2> QED
    BY <2>1, <2>2
<1>11. Alive(i, s)'
  BY <1>3 DEF Alive
<1>12. \A r \in Signals \ {s}, j \in TimerIds : Alive(j, r)' <=> Alive(j, r)
  <2> SUFFICES ASSUME NEW r \in Signals \ {s}, NEW j \in TimerIds
               PROVE  Alive(j, r)' <=> Alive(j, r)
    OBVIOUS
  <2>1. CASE j = i
    BY <1>1, <1>3, <2>1 DEF Alive
  <2>2. CASE j # i /\ timer[j].sig = r
    BY <1>9, <2>2 DEF Alive
  <2>3. CASE j # i /\ timer[j].sig # r
    BY <1>3, <2>3, DeadTimerType DEF Alive
  <2> QED
    BY <2>1, <2>2, <2>3
<1>13. OnHasTimer'
  <2> SUFFICES ASSUME NEW r \in Signals, output'[r] = 1, r \notin astray'
               PROVE  \E j \in TimerIds : Alive(j, r)'
    BY DEF OnHasTimer
  <2>1. CASE r = s
    BY <1>11, <2>1
  <2>2. CASE r # s
    BY <1>6, <1>12, <2>2 DEF IInv, OnHasTimer
  <2> QED
    BY <2>1, <2>2
<1>14. CleanIsAlone'
  <2> SUFFICES ASSUME NEW r \in Signals, CleanRuns(r)'
               PROVE  /\ output'[r] = 1 \/ r \in astray'
                      /\ \A j \in TimerIds : Alive(j, r)' => j = last'[r].id
    BY DEF CleanIsAlone
  <2>1. CASE r = s
    <3>1. last'[s].id = i /\ CleanStart(s)
      BY <1>1, <1>2, <2>1 DEF TypeOK, CleanRuns
    <3>2. \A j \in TimerIds \ {i} : ~Alive(j, s)'
      BY <1>3, <3>1, DeadTimerType DEF CleanStart, Alive
    <3> QED
      BY <1>6, <2>1, <3>1, <3>2
  <2>2. CASE r # s
    <3>1. last'[r] = last[r] /\ last[r].id \in TimerIds
      BY <1>1, <1>2, <2>2 DEF TypeOK, CleanRuns
    <3>2. Alive(last[r].id, r) /\ timer'[last[r].id].pc = "armed"
      BY <1>12, <2>2, <3>1 DEF CleanRuns, Alive
    <3>3. last[r].id # i
      BY <1>1, <3>2 DEF Alive
    <3>4. timer[last[r].id].pc = "armed"
      BY <1>9, <2>2, <3>1, <3>2, <3>3 DEF Alive
    <3>5. /\ output[r] = 1 \/ r \in astray
          /\ \A j \in TimerIds : Alive(j, r) => j = last[r].id
      BY <3>1, <3>2, <3>4 DEF IInv, CleanIsAlone, CleanRuns
    <3> QED
      BY <1>6, <1>12, <2>2, <3>1, <3>5
  <2> QED
    BY <2>1, <2>2
<1> QED
  BY <1>8, <1>10, <1>13, <1>14 DEF IInv

LEMMA FireStep ==
  ASSUME IInv, NEW i \in TimerIds, Fire(i)
  PROVE  IInv'
<1>1. /\ timer[i].pc = "armed" /\ timer' = [timer EXCEPT ![i].pc = "fired"]
      /\ UNCHANGED <<output, timers, link, astray, last>>
  BY DEF Fire
<1>2. TypeOK'
  BY <1>1 DEF IInv, TypeOK, Progress
<1>3. /\ timer'[i].pc = "fired" /\ timer'[i].sig = timer[i].sig
      /\ \A j \in TimerIds \ {i} : timer'[j] = timer[j]
  BY <1>1 DEF IInv, TypeOK
<1>4. \A j \in TimerIds, s \in Signals : Alive(j, s)' <=> Alive(j, s)
  BY <1>1, <1>3 DEF Alive
<1>5. Filed'
  BY <1>1, <1>3 DEF IInv, Filed, TypeOK
<1>6. OnHasTimer'
  BY <1>1, <1>4 DEF IInv, OnHasTimer
<1>7. CleanIsAlone'
  BY <1>1, <1>3, <1>4 DEF IInv, CleanIsAlone, CleanRuns, TypeOK
<1> QED
  BY <1>2, <1>5, <1>6, <1>7 DEF IInv

LEMMA PopStep ==
  ASSUME IInv, NEW i \in TimerIds, Pop(i)
  PROVE  IInv'
<1>1. /\ timer[i].pc = "fired" /\ timer' = [timer EXCEPT ![i].pc = "popped"]
      /\ timers' = [timers EXCEPT ![timer[i].sig] = NoTimer]
      /\ UNCHANGED <<output, link, astray, last>>
  BY DEF Pop
<1>2. TypeOK'
  BY <1>1 DEF IInv, TypeOK, Progress
<1>3. /\ timer'[i].pc = "popped" /\ timer'[i].sig = timer[i].sig
      /\ \A j \in TimerIds \ {i} : timer'[j] = timer[j]
  BY <1>1 DEF IInv, TypeOK
<1>4. \A j \in TimerIds, s \in Signals : Alive(j, s)' <=> Alive(j, s)
  BY <1>1, <1>3 DEF Alive
<1>5. Filed'
  <2> SUFFICES ASSUME NEW s \in Signals, timers'[s] # NoTimer
               PROVE  timer'[timers'[s]].pc \in {"armed", "fired"} /\ timer'[timers'[s]].sig = s
    BY DEF Filed
  <2>1. s # timer[i].sig /\ timers'[s] = timers[s] /\ timers[s] \in TimerIds
    BY <1>1 DEF IInv, TypeOK
  <2>2. timers[s] # i
    BY <2>1 DEF IInv, Filed
  <2> QED
    BY <1>3, <2>1, <2>2 DEF IInv, Filed
<1>6. OnHasTimer'
  BY <1>1, <1>4 DEF IInv, OnHasTimer
<1>7. CleanIsAlone'
  BY <1>1, <1>3, <1>4 DEF IInv, CleanIsAlone, CleanRuns, TypeOK
<1> QED
  BY <1>2, <1>5, <1>6, <1>7 DEF IInv

\* The write of 0 comes after the pop: the timer was not on file any more, and
\* not the armed timer of a clean pulse.
LEMMA WriteOffStep ==
  ASSUME IInv, NEW i \in TimerIds, WriteOff(i)
  PROVE  IInv'
<1> DEFINE s == timer[i].sig
<1>1. /\ timer[i].pc = "popped" /\ timer' = [timer EXCEPT ![i] = DeadTimer]
      /\ Put(s, 0) /\ UNCHANGED <<timers, link, last>>
  BY DEF WriteOff
<1>2. s \in Signals /\ TypeOK
  BY DEF IInv, TypeOK
<1>3. timer'[i].pc = "dead" /\ \A j \in TimerIds \ {i} : timer'[j] = timer[j]
  BY <1>1, <1>2, DeadTimerType DEF TypeOK
<1>4. /\ output' \in [Signals -> {0, 1}] /\ astray' \subseteq Signals
      /\ output'[s] = 0 \/ s \in astray'
      /\ \A r \in Signals \ {s} : output'[r] = output[r] /\ (r \in astray' <=> r \in astray)
  BY <1>1, <1>2, PutEffect
<1>5. TypeOK'
  BY <1>1, <1>2, <1>4, DeadTimerType DEF TypeOK
<1>6. \A r \in Signals \ {s}, j \in TimerIds : Alive(j, r)' <=> Alive(j, r)
  BY <1>3 DEF Alive
<1>7. Filed'
  BY <1>1, <1>2, <1>3 DEF IInv, Filed, TypeOK
<1>8. OnHasTimer'
  BY <1>2, <1>4, <1>6 DEF IInv, OnHasTimer
<1>9. CleanIsAlone'
  <2> SUFFICES ASSUME NEW r \in Signals, CleanRuns(r)'
               PROVE  /\ output'[r] = 1 \/ r \in astray'
                      /\ \A j \in TimerIds : Alive(j, r)' => j = last'[r].id
    BY DEF CleanIsAlone
  <2>1. last'[r] = last[r] /\ last[r].id \in TimerIds /\ last[r].id # i
    BY <1>1, <1>2, <1>3 DEF TypeOK, CleanRuns
  <2>2. Alive(last[r].id, r) /\ timer[last[r].id].pc = "armed"
    BY <1>3, <2>1 DEF Alive, CleanRuns
  <2>3. /\ output[r] = 1 \/ r \in astray
        /\ \A j \in TimerIds : Alive(j, r) => j = last[r].id
    BY <2>1, <2>2 DEF IInv, CleanIsAlone, CleanRuns
  <2>4. r # s
    BY <1>1, <2>1, <2>3 DEF Alive
  <2> QED
    BY <1>4, <1>6, <2>1, <2>3, <2>4
<1> QED
  BY <1>5, <1>7, <1>8, <1>9 DEF IInv

LEMMA TickStep ==
  ASSUME IInv, Tick
  PROVE  IInv'
<1>1. /\ UNCHANGED <<output, timers, link, astray, last>>
      /\ \A j \in TimerIds : timer'[j] =
           IF timer[j].pc = "armed" /\ timer[j].age < Duration
           THEN [timer[j] EXCEPT !.age = @ + 1] ELSE timer[j]
  BY DEF Tick
<1>2. \A j \in TimerIds : timer[j] \in [sig : Signals, pc : Progress, age : 0..Duration]
  BY DEF IInv, TypeOK
<1>3. \A j \in TimerIds : timer'[j] \in [sig : Signals, pc : Progress, age : 0..Duration]
                          /\ timer'[j].pc = timer[j].pc /\ timer'[j].sig = timer[j].sig
  <2> SUFFICES ASSUME NEW j \in TimerIds
               PROVE  /\ timer'[j] \in [sig : Signals, pc : Progress, age : 0..Duration]
                      /\ timer'[j].pc = timer[j].pc /\ timer'[j].sig = timer[j].sig
    OBVIOUS
  <2>1. CASE timer[j].age < Duration
    <3>1. timer[j].age + 1 \in 0..Duration
      BY <1>2, <2>1, PulseEngineAssumption
    <3> QED
      BY <1>1, <1>2, <3>1
  <2>2. CASE ~(timer[j].age < Duration)
    BY <1>1, <1>2, <2>2
  <2> QED
    BY <2>1, <2>2
<1>4. timer' \in [TimerIds -> [sig : Signals, pc : Progress, age : 0..Duration]]
  BY <1>3 DEF Tick
<1>5. TypeOK'
  BY <1>1, <1>4 DEF IInv, TypeOK
<1>6. \A j \in TimerIds, s \in Signals : Alive(j, s)' <=> Alive(j, s)
  BY <1>3 DEF Alive
<1>7. Filed'
  BY <1>1, <1>3 DEF IInv, Filed, TypeOK
<1>8. OnHasTimer'
  BY <1>1, <1>6 DEF IInv, OnHasTimer
<1>9. CleanIsAlone'
  BY <1>1, <1>3, <1>6 DEF IInv, CleanIsAlone, CleanRuns, TypeOK
<1> QED
  BY <1>5, <1>7, <1>8, <1>9 DEF IInv

LEMMA RestartStep ==
  ASSUME IInv, Restart
  PROVE  IInv'
<1>1. /\ \A s \in Signals : timers'[s] = NoTimer /\ ~last'[s].clean
      /\ \A s \in Signals : output'[s] = 1 => s \in astray'
  BY DEF Restart, IInv, TypeOK
<1>2. TypeOK'
  BY DeadTimerType DEF Restart, IInv, TypeOK
<1> QED
  BY <1>1, <1>2 DEF IInv, Filed, OnHasTimer, CleanIsAlone, CleanRuns

LEMMA BusStep ==
  ASSUME IInv, IOBusLost \/ IOBusBack
  PROVE  IInv'
<1>1. UNCHANGED <<timers, timer, last>>
  BY DEF IOBusLost, IOBusBack
<1>2. /\ output' \in [Signals -> {0, 1}] /\ astray' \subseteq Signals /\ link' \in BOOLEAN
      /\ \A s \in Signals : /\ output'[s] = 1 => output[s] = 1
                            /\ s \in astray => s \in astray'
                            /\ output[s] = 1 => output'[s] = 1 \/ s \in astray'
  BY DEF IOBusLost, IOBusBack, IInv, TypeOK
<1>3. TypeOK'
  BY <1>1, <1>2 DEF IInv, TypeOK
<1>4. \A j \in TimerIds, s \in Signals : Alive(j, s)' <=> Alive(j, s)
  BY <1>1 DEF Alive
<1>5. Filed'
  BY <1>1 DEF IInv, Filed
<1>6. OnHasTimer'
  BY <1>2, <1>4 DEF IInv, OnHasTimer
<1>7. CleanIsAlone'
  BY <1>1, <1>2, <1>4 DEF IInv, CleanIsAlone, CleanRuns, TypeOK
<1> QED
  BY <1>3, <1>5, <1>6, <1>7 DEF IInv

LEMMA InvInit == Init => IInv
<1> SUFFICES ASSUME Init PROVE IInv
  OBVIOUS
<1>1. TypeOK
  BY DeadTimerType DEF Init, TypeOK
<1>2. \A s \in Signals : timers[s] = NoTimer /\ output[s] = 0 /\ ~last[s].clean
  BY DEF Init
<1> QED
  BY <1>1, <1>2 DEF IInv, Filed, OnHasTimer, CleanIsAlone, CleanRuns

LEMMA InvStep == IInv /\ [Next]_vars => IInv'
<1> SUFFICES ASSUME IInv, [Next]_vars PROVE IInv'
  OBVIOUS
<1>1. CASE UNCHANGED vars
  BY <1>1 DEF vars, IInv, TypeOK, Filed, OnHasTimer, CleanIsAlone, CleanRuns, Alive
<1> QED
  BY <1>1, PulseStep, FireStep, PopStep, WriteOffStep, TickStep, RestartStep, BusStep
     DEF Next, SomePulse, Expire
-----------------------------------------------------------------------------
\* Outputs, timers and the file of timers keep their types.
THEOREM PulseTypes == Spec => []TypeOK
<1>1. IInv => TypeOK
  BY DEF IInv
<1> QED
  BY <1>1, InvInit, InvStep, PTL DEF Spec

\* An output that is on has a timer that will put it off, whatever pulse()
\* cancels and whatever _expire pops, unless a write was lost or the process
\* restarted.
THEOREM OnHasTimerAlways == Spec => []OnHasTimer
<1>1. IInv => OnHasTimer
  BY DEF IInv
<1> QED
  BY <1>1, InvInit, InvStep, PTL DEF Spec

\* A pulse that no earlier timer can reach stays on until its own timer fires.
THEOREM CleanPulseFullAlways == Spec => []CleanPulseFull
<1>1. IInv => CleanPulseFull
  BY DEF IInv, CleanIsAlone, CleanRuns, CleanPulseFull
<1> QED
  BY <1>1, InvInit, InvStep, PTL DEF Spec
=============================================================================
