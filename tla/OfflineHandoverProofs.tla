------------------------ MODULE OfflineHandoverProofs ------------------------
(***************************************************************************)
(* Proofs about OfflineHandover, for any signals, plan files and           *)
(* timetables and whatever pci.ug405 does.                                 *)
(*                                                                         *)
(* LeavesNothingOn speaks of the time between ticks.  The strengthening    *)
(* says that a tick which writes an offset has an active plan, unless the  *)
(* state was cleared under it, and that a tick which stands down has every *)
(* signal that is still on among the writes it has left.                   *)
(*                                                                         *)
(* PlanShown speaks of the end of a tick.  Its strengthening (ShownInv)    *)
(* says that the plan a tick applies is the active one or was forgotten    *)
(* (Matched), and that each write of the offset noted was made or is still *)
(* to be made (ShowsAll).                                                  *)
(***************************************************************************)
EXTENDS OfflineHandover, WellFoundedInduction, TLAPS

\* s is off, or what it is is not pci.offline's doing.
Clean(s) == s \in astray \/ bits[s] = 0

NothingOn == plan = NoPlan /\ ~forgot => \A s \in Signals : Clean(s)

Writers ==
  /\ tick.pc \in {"apply", "write"} => plan # NoPlan \/ forgot
  /\ tick.pc = "activate" => tick.plan # NoPlan

ZeroesRest ==
  tick.pc = "zero" =>
    /\ tick.todo \subseteq ZeroAll
    /\ plan # NoPlan => \A s \in Signals : Clean(s) \/ <<1, s, 0>> \in tick.todo

\* The variables are functions and records of the right shape.
Shape ==
  /\ bits = [s \in Signals |-> bits[s]]
  /\ tick = [pc |-> tick.pc, mode |-> tick.mode, conf |-> tick.conf,
             plan |-> tick.plan, todo |-> tick.todo]
  /\ file \in Files \cup {Broken} /\ conf \in Files \cup {Nothing}

IInv == Shape /\ NothingOn /\ Writers /\ ZeroesRest
-----------------------------------------------------------------------------
(* Timetable and writes *)

\* NoPlan is not the name of a plan.
LEMMA NoPlanHasNoOffsets ==
  ASSUME NEW c \in Files \cup {Nothing}
  PROVE  NoPlan \notin DOMAIN Has(c).plans
<1>1. CASE c = Nothing
  <2>1. Has(c).plans = << >>
    BY <1>1 DEF Has
  <2>2. DOMAIN << >> = {}
    OBVIOUS
  <2> QED
    BY <2>1, <2>2
<1>2. CASE c # Nothing
  <2>1. Has(c) = Content[c] /\ c \in Files
    BY <1>2 DEF Has
  <2> QED
    BY <2>1, HandoverAssumption
<1> QED
  BY <1>1, <1>2

LEMMA UpcomingZero ==
  ASSUME NEW writes, writes # {}, writes \subseteq ZeroAll
  PROVE  Upcoming(writes) \in writes
<1>1. \A w \in writes : w[1] = 1
  BY DEF ZeroAll
<1>2. \E w \in writes : \A x \in writes : w[1] <= x[1]
  BY <1>1
<1> QED
  BY <1>2 DEF Upcoming

LEMMA AsleepShape ==
  /\ Asleep.pc = "sleep"
  /\ Asleep = [pc |-> Asleep.pc, mode |-> Asleep.mode, conf |-> Asleep.conf,
               plan |-> Asleep.plan, todo |-> Asleep.todo]
  BY DEF Asleep

LEMMA WritingShape ==
  ASSUME NEW writes
  PROVE  /\ Writing(writes).pc \in {"sleep", "write"}
         /\ Writing(writes) = [pc |-> Writing(writes).pc, mode |-> Writing(writes).mode,
              conf |-> Writing(writes).conf, plan |-> Writing(writes).plan,
              todo |-> Writing(writes).todo]
  BY AsleepShape DEF Writing, Asleep

\* A step that leaves the signals and the state alone, and takes the tick
\* elsewhere.
LEMMA MovesOn ==
  ASSUME IInv, UNCHANGED <<bits, astray, forgot, plan>>, Shape',
         tick'.pc \in {"sleep", "load", "look", "stop", "activate", "apply", "write"},
         tick'.pc \in {"apply", "write"} => tick.pc \in {"apply", "write"},
         tick'.pc = "activate" => tick'.plan # NoPlan
  PROVE  IInv'
  BY DEF IInv, NothingOn, Writers, ZeroesRest, Clean

\* The state is cleared: that nothing is on is then only claimed if there was
\* no active plan.
LEMMA Forgets ==
  ASSUME IInv, ForgetState, UNCHANGED <<bits, astray>>, Shape',
         tick'.pc \in {"sleep", "load", "look"} \/ tick' = tick
  PROVE  IInv'
<1>1. plan' = NoPlan /\ (forgot' <=> (forgot \/ plan # NoPlan))
  BY DEF ForgetState
<1>2. NothingOn'
  BY <1>1 DEF IInv, NothingOn, Clean
<1>3. Writers' /\ ZeroesRest'
  BY <1>1 DEF IInv, Writers, ZeroesRest
<1> QED
  BY <1>2, <1>3 DEF IInv
-----------------------------------------------------------------------------
(* The tick *)

LEMMA TickStep ==
  ASSUME IInv, Tick
  PROVE  IInv'
<1>1. UNCHANGED <<bits, astray, file, conf>>
  BY DEF Tick, utcVars, fileVars
<1>2. /\ tick'.pc \in {"load", "look"}
      /\ tick' = [pc |-> tick'.pc, mode |-> tick'.mode, conf |-> tick'.conf,
                  plan |-> tick'.plan, todo |-> tick'.todo]
  BY DEF Tick, Asleep
<1>3. Shape'
  BY <1>1, <1>2 DEF IInv, Shape
<1>4. ForgetState \/ UNCHANGED <<plan, forgot>>
  BY DEF Tick, state
<1> QED
  BY <1>1, <1>2, <1>3, <1>4, Forgets, MovesOn

LEMMA LoadStep ==
  ASSUME IInv, LoadFile
  PROVE  IInv'
<1>1. UNCHANGED <<bits, astray, plan, forgot>>
  BY DEF LoadFile, utcVars, state, history
<1>2. file' = file /\ conf' \in Files \cup {Nothing}
  BY DEF LoadFile, Load, fileVars, IInv, Shape
<1>3. tick' = [pc |-> "look", mode |-> tick.mode, conf |-> tick.conf,
               plan |-> tick.plan, todo |-> tick.todo]
  BY DEF LoadFile, IInv, Shape
<1>4. Shape'
  BY <1>1, <1>2, <1>3 DEF IInv, Shape
<1> QED
  BY <1>1, <1>3, <1>4, MovesOn

LEMMA LookStep ==
  ASSUME IInv, Look
  PROVE  IInv'
<1>1. UNCHANGED <<bits, astray, plan, forgot, file, conf>>
  BY DEF Look, utcVars, fileVars, state, history
<1>2. conf \in Files \cup {Nothing}
  BY DEF IInv, Shape
<1>3. PICK p : tick' = IF ~Has(conf).scn THEN Asleep
                       ELSE IF p \in DOMAIN Has(conf).plans
                       THEN [Asleep EXCEPT !.pc = "activate", !.conf = conf, !.plan = p]
                       ELSE [Asleep EXCEPT !.pc = "stop"]
  BY DEF Look
<1>4. \/ tick' = Asleep
      \/ /\ tick' = [Asleep EXCEPT !.pc = "activate", !.conf = conf, !.plan = p]
         /\ p \in DOMAIN Has(conf).plans
      \/ tick' = [Asleep EXCEPT !.pc = "stop"]
  BY <1>3
<1>5. p \in DOMAIN Has(conf).plans => p # NoPlan
  BY <1>2, NoPlanHasNoOffsets
<1>6. /\ tick' = [pc |-> tick'.pc, mode |-> tick'.mode, conf |-> tick'.conf,
                  plan |-> tick'.plan, todo |-> tick'.todo]
      /\ tick'.pc \in {"sleep", "stop", "activate"}
      /\ tick'.pc = "activate" => tick'.plan # NoPlan
  <2>1. CASE tick' = Asleep
    BY <2>1 DEF Asleep
  <2>2. CASE tick' = [Asleep EXCEPT !.pc = "stop"]
    BY <2>2 DEF Asleep
  <2>3. CASE /\ tick' = [Asleep EXCEPT !.pc = "activate", !.conf = conf, !.plan = p]
             /\ p \in DOMAIN Has(conf).plans
    <3>1. tick' = [pc |-> "activate", mode |-> 1, conf |-> conf, plan |-> p, todo |-> {}]
      BY <2>3 DEF Asleep
    <3>2. p # NoPlan
      BY <1>5, <2>3
    <3> QED
      BY <3>1, <3>2
  <2> QED
    BY <1>4, <2>1, <2>2, <2>3
<1>7. Shape'
  BY <1>1, <1>6 DEF IInv, Shape
<1> QED
  BY <1>1, <1>6, <1>7, MovesOn

LEMMA ActivateStep ==
  ASSUME IInv, Activate
  PROVE  IInv'
<1>1. /\ tick.pc = "activate" /\ plan' = tick.plan
      /\ UNCHANGED <<bits, astray, forgot, file, conf>>
  BY DEF Activate, utcVars, fileVars, history
<1>2. tick' = [pc |-> "apply", mode |-> tick.mode, conf |-> tick.conf,
               plan |-> tick.plan, todo |-> tick.todo]
  BY DEF Activate, IInv, Shape
<1>3. plan' # NoPlan
  BY <1>1 DEF IInv, Writers
<1>4. Shape'
  BY <1>1, <1>2 DEF IInv, Shape
<1> QED
  BY <1>2, <1>3, <1>4 DEF IInv, NothingOn, Writers, ZeroesRest

LEMMA ApplyStep ==
  ASSUME IInv, Apply
  PROVE  IInv'
<1>1. tick.pc = "apply" /\ UNCHANGED <<bits, astray, plan, forgot, file, conf>>
  BY DEF Apply, utcVars, fileVars
<1>2. tick' = Asleep \/ \E writes : tick' = Writing(writes)
  BY DEF Apply
<1>3. /\ tick' = [pc |-> tick'.pc, mode |-> tick'.mode, conf |-> tick'.conf,
                  plan |-> tick'.plan, todo |-> tick'.todo]
      /\ tick'.pc \in {"sleep", "write"}
  BY <1>2, AsleepShape, WritingShape
<1>4. Shape'
  BY <1>1, <1>3 DEF IInv, Shape
<1> QED
  BY <1>1, <1>3, <1>4, MovesOn

\* A write of an offset is made under an active plan, or under one that was
\* forgotten; a write of _zero_scn leaves its signal off, or astray.
LEMMA WriteStep ==
  ASSUME IInv, Write
  PROVE  IInv'
<1> DEFINE w == Upcoming(tick.todo)
<1>1. /\ tick.pc \in {"write", "zero"} /\ tick.todo # {}
      /\ UNCHANGED <<plan, forgot, file, conf>>
      /\ tick' = IF tick.pc = "write" THEN Writing(tick.todo \ {w})
                 ELSE [tick EXCEPT !.todo = tick.todo \ {w}]
  BY DEF Write, fileVars, state
<1>2. \/ bits' = [bits EXCEPT ![w[2]] = w[3]] /\ astray' = astray \ {w[2]}
      \/ bits' = bits /\ astray' = astray \cup {w[2]}
  BY DEF Write, Arrives
<1>3. bits' = [s \in Signals |-> bits'[s]]
  BY <1>2 DEF IInv, Shape
<1>4. CASE tick.pc = "write"
  <2>1. /\ tick' = [pc |-> tick'.pc, mode |-> tick'.mode, conf |-> tick'.conf,
                    plan |-> tick'.plan, todo |-> tick'.todo]
        /\ tick'.pc \in {"sleep", "write"}
    BY <1>1, <1>4, WritingShape
  <2>2. Shape'
    BY <1>1, <1>3, <2>1 DEF IInv, Shape
  <2>3. plan # NoPlan \/ forgot
    BY <1>4 DEF IInv, Writers
  <2> QED
    BY <1>1, <2>1, <2>2, <2>3 DEF IInv, NothingOn, Writers, ZeroesRest
<1>5. CASE tick.pc = "zero"
  <2>1. tick' = [pc |-> "zero", mode |-> tick.mode, conf |-> tick.conf,
                 plan |-> tick.plan, todo |-> tick.todo \ {w}]
    BY <1>1, <1>5 DEF IInv, Shape
  <2>2. Shape'
    BY <1>1, <1>3, <2>1 DEF IInv, Shape
  <2>3. w \in ZeroAll
    BY <1>1, <1>5, UpcomingZero DEF IInv, ZeroesRest
  <2>4. PICK r \in Signals : w = <<1, r, 0>>
    BY <2>3 DEF ZeroAll
  <2>5. w[2] = r /\ w[3] = 0
    BY <2>4
  <2>6. Clean(r)'
    BY <1>2, <2>5 DEF IInv, Shape, Clean
  <2>7. \A s \in Signals \ {r} : Clean(s) => Clean(s)'
    BY <1>2, <2>5 DEF IInv, Shape, Clean
  <2>8. NothingOn'
    BY <1>1, <2>6, <2>7 DEF IInv, NothingOn
  <2>9. ZeroesRest'
    <3>1. ASSUME NEW s \in Signals, plan # NoPlan
          PROVE  Clean(s)' \/ <<1, s, 0>> \in tick.todo \ {w}
      <4>1. CASE s = r
        BY <2>6, <4>1
      <4>2. CASE s # r
        <5>1. <<1, s, 0>> # w
          BY <2>5, <4>2
        <5> QED
          BY <1>5, <2>7, <3>1, <4>2, <5>1 DEF IInv, ZeroesRest
      <4> QED
        BY <4>1, <4>2
    <3> QED
      BY <1>1, <1>5, <2>1, <3>1 DEF IInv, ZeroesRest, ZeroAll
  <2> QED
    BY <2>1, <2>2, <2>8, <2>9 DEF IInv, Writers
<1> QED
  BY <1>1, <1>4, <1>5

LEMMA StopStep ==
  ASSUME IInv, Stop
  PROVE  IInv'
<1>1. UNCHANGED <<bits, astray, plan, forgot, file, conf>>
  BY DEF Stop, utcVars, fileVars, state, history
<1>2. tick' = [pc |-> "zero", mode |-> tick.mode, conf |-> tick.conf, plan |-> tick.plan,
               todo |-> IF plan # NoPlan THEN ZeroAll ELSE {}]
  BY DEF Stop, IInv, Shape
<1>3. Shape'
  BY <1>1, <1>2 DEF IInv, Shape
<1>4. NothingOn' /\ Writers'
  BY <1>1, <1>2 DEF IInv, NothingOn, Writers, Clean
<1>5. ZeroesRest'
  BY <1>1, <1>2 DEF ZeroesRest, ZeroAll
<1> QED
  BY <1>3, <1>4, <1>5 DEF IInv

\* Everything is zeroed by now if a plan was active to the end.
LEMMA StoppedStep ==
  ASSUME IInv, Stopped
  PROVE  IInv'
<1>1. /\ tick.pc = "zero" /\ tick.todo = {} /\ plan' = NoPlan /\ tick' = Asleep
      /\ forgot' <=> (forgot /\ plan = NoPlan)
      /\ UNCHANGED <<bits, astray, file, conf>>
  BY DEF Stopped, utcVars, fileVars
<1>2. Shape'
  BY <1>1, AsleepShape DEF IInv, Shape
<1>3. NothingOn'
  <2>1. CASE plan # NoPlan
    BY <1>1, <2>1 DEF IInv, NothingOn, ZeroesRest, Clean
  <2>2. CASE plan = NoPlan
    BY <1>1, <2>2 DEF IInv, NothingOn, Clean
  <2> QED
    BY <2>1, <2>2
<1> QED
  BY <1>1, <1>2, <1>3, AsleepShape DEF IInv, Writers, ZeroesRest
-----------------------------------------------------------------------------
(* RELOAD, edits, restarts and pci.ug405 *)

LEMMA ReloadStep ==
  ASSUME IInv, Reload
  PROVE  IInv'
<1>1. ForgetState /\ UNCHANGED <<bits, astray, file, conf, tick>>
  BY DEF Reload, utcVars, fileVars
<1>2. Shape'
  BY <1>1 DEF IInv, Shape
<1> QED
  BY <1>1, <1>2, Forgets

LEMMA FileStep ==
  ASSUME IInv, ReloadFile \/ Edit
  PROVE  IInv'
<1>1. UNCHANGED <<bits, astray, plan, forgot, tick>>
  BY DEF ReloadFile, Edit, utcVars, state, history
<1>2. file' \in Files \cup {Broken} /\ conf' \in Files \cup {Nothing}
  BY DEF ReloadFile, Edit, Load, fileVars, IInv, Shape
<1> QED
  BY <1>1, <1>2 DEF IInv, Shape, NothingOn, Writers, ZeroesRest, Clean

LEMMA RestartStep ==
  ASSUME IInv, OfflineRestarts
  PROVE  IInv'
<1>1. /\ tick' = Asleep /\ astray' = Signals
      /\ UNCHANGED <<bits, file>> /\ conf' \in Files \cup {Nothing}
  BY DEF OfflineRestarts, utcVars, IInv, Shape
<1> QED
  BY <1>1, AsleepShape DEF IInv, Shape, NothingOn, Writers, ZeroesRest, Clean

\* What pci.ug405 changes is astray, and what it leaves alone is as before.
LEMMA UtcStepKeeps ==
  ASSUME IInv, UtcStep
  PROVE  IInv'
<1>1. UNCHANGED <<file, conf, plan, tick, forgot>>
      /\ astray' = astray \cup {s \in Signals : bits'[s] # bits[s]}
  BY DEF UtcStep, Touched, fileVars, state
<1>2. bits' = [s \in Signals |-> bits'[s]]
  <2>1. \/ bits' = bits
        \/ \E s, v : bits' = [bits EXCEPT ![s] = v]
        \/ bits' = [s \in Signals |-> 0]
    BY DEF UtcStep, UtcNext, Change, Zero, Decide, Raise, Clear, BusRestarts, Arrives
  <2> QED
    BY <2>1 DEF IInv, Shape
<1>3. \A s \in Signals : Clean(s) => Clean(s)'
  BY <1>1 DEF Clean
<1> QED
  BY <1>1, <1>2, <1>3 DEF IInv, Shape, NothingOn, Writers, ZeroesRest

LEMMA OtherStep ==
  ASSUME IInv, UtcRestarts \/ Track \/ UNCHANGED vars
  PROVE  IInv'
<1>1. UNCHANGED <<bits, file, conf, plan, tick, astray, forgot>>
  BY DEF UtcRestarts, Track, vars, utcVars, fileVars, state, history
<1> QED
  BY <1>1 DEF IInv, Shape, NothingOn, Writers, ZeroesRest, Clean

LEMMA InvInit == Init => IInv
<1> SUFFICES ASSUME Init PROVE IInv
  OBVIOUS
<1>1. /\ bits = [s \in Signals |-> 0] /\ tick = Asleep
      /\ file \in Files /\ conf = file
  BY DEF Init, UtcInit
<1>2. Shape
  BY <1>1, AsleepShape DEF Shape
<1> QED
  BY <1>1, <1>2, AsleepShape DEF IInv, NothingOn, Writers, ZeroesRest, Clean

LEMMA InvStep == IInv /\ [Next]_vars => IInv'
  BY TickStep, LoadStep, LookStep, ActivateStep, ApplyStep, WriteStep, StopStep, StoppedStep,
     ReloadStep, FileStep, RestartStep, UtcStepKeeps, OtherStep DEF Next, TickWork

-----------------------------------------------------------------------------
\* Between ticks, with no plan active, nothing that pci.offline put on is still
\* on, unless its state was cleared while a plan was active (tick, _zero_scn).
THEOREM LeavesNothingOnAlways == Spec => []LeavesNothingOn
<1>1. IInv => LeavesNothingOn
  BY DEF IInv, NothingOn, Clean, LeavesNothingOn
<1> QED
  BY <1>1, InvInit, InvStep, PTL DEF Spec
-----------------------------------------------------------------------------
(* What a plan file holds *)

Writes == Nat \X Signals \X {0, 1}

LEMMA OffsetsTyped ==
  ASSUME NEW c \in Files \cup {Nothing}, NEW p \in DOMAIN Has(c).plans
  PROVE  /\ Has(c).plans[p] \in Seq(Offset)
         /\ \A i \in DOMAIN Has(c).plans[p] : OneValueEach(Has(c).plans[p][i])
<1>1. CASE c = Nothing
  <2>1. Has(c).plans = << >>
    BY <1>1 DEF Has
  <2>2. DOMAIN << >> = {}
    OBVIOUS
  <2> QED
    BY <2>1, <2>2
<1>2. CASE c # Nothing
  <2>1. Has(c) = Content[c] /\ c \in Files
    BY <1>2 DEF Has
  <2> QED
    BY <2>1, HandoverAssumption
<1> QED
  BY <1>1, <1>2

LEMMA MasksTyped ==
  ASSUME NEW masks \in Seq(Mask)
  PROVE  BitsOn(masks) \subseteq Writes /\ BitsOff(masks) \subseteq Writes
<1>1. ASSUME NEW i \in DOMAIN masks
      PROVE  /\ 2 * i \in Nat /\ 2 * i + 1 \in Nat
             /\ masks[i].on \subseteq Signals /\ masks[i].off \subseteq Signals
  <2>1. i \in Nat /\ masks[i] \in Mask
    OBVIOUS
  <2> QED
    BY <2>1 DEF Mask
<1>2. ASSUME NEW w \in BitsOn(masks)
      PROVE  w \in Writes
  <2>1. PICK i \in DOMAIN masks : \E s \in masks[i].on : w = <<2 * i, s, 1>>
    BY DEF BitsOn
  <2> QED
    BY <1>1, <2>1 DEF Writes
<1>3. ASSUME NEW w \in BitsOff(masks)
      PROVE  w \in Writes
  <2>1. PICK i \in DOMAIN masks : \E s \in masks[i].off : w = <<2 * i + 1, s, 0>>
    BY DEF BitsOff
  <2> QED
    BY <1>1, <2>1 DEF Writes
<1> QED
  BY <1>2, <1>3

LEMMA SinglesTyped ==
  ASSUME NEW from \in Nat, NEW single \in Seq(Signals \X {0, 1})
  PROVE  Singles(from, single) \subseteq Writes
<1>1. ASSUME NEW j \in DOMAIN single
      PROVE  from + j \in Nat /\ single[j][1] \in Signals /\ single[j][2] \in {0, 1}
  <2>1. j \in Nat /\ single[j] \in Signals \X {0, 1}
    OBVIOUS
  <2> QED
    BY <2>1
<1> QED
  BY <1>1 DEF Singles, Writes

LEMMA WritesTyped ==
  ASSUME NEW offset \in Offset
  PROVE  WritesOf(offset) \subseteq Writes
<1>1. offset.masks \in Seq(Mask) /\ offset.single \in Seq(Signals \X {0, 1})
  BY DEF Offset
<1>2. 2 * Len(offset.masks) + 2 \in Nat
  BY <1>1
<1> QED
  BY <1>1, <1>2, MasksTyped, SinglesTyped DEF WritesOf

LEMMA UpcomingIn ==
  ASSUME NEW writes, writes # {}, writes \subseteq Writes
  PROVE  Upcoming(writes) \in writes
<1> DEFINE ranks == {w[1] : w \in writes}
<1>1. ranks \subseteq Nat /\ ranks # {}
  BY DEF Writes
<1>2. PICK n \in ranks : \A m \in ranks : <<m, n>> \notin OpToRel(<, Nat)
  BY <1>1, NatLessThanWellFounded, WFMin
<1>3. ASSUME NEW m \in ranks PROVE n <= m
  <2>1. m \in Nat /\ n \in Nat
    BY <1>1
  <2>2. ~(m < n)
    BY <1>2, <2>1 DEF OpToRel
  <2> QED
    BY <2>1, <2>2
<1>4. PICK w \in writes : w[1] = n
  BY <1>2
<1>5. \A x \in writes : w[1] <= x[1]
  BY <1>3, <1>4
<1> QED
  BY <1>4, <1>5 DEF Upcoming

\* A set of indices of a list has a last one.
LEMMA LastIndex ==
  ASSUME NEW n \in Nat, NEW S, S \subseteq 1..n, S # {}
  PROVE  \E i \in S : \A j \in S : j <= i
<1> DEFINE T == {n - i : i \in S}
<1>1. T \subseteq Nat /\ T # {}
  <2>1. \A i \in S : i \in 1..n
    OBVIOUS
  <2>2. \A i \in S : n - i \in Nat
    BY <2>1
  <2>3. PICK i : i \in S
    OBVIOUS
  <2>4. n - i \in T
    BY <2>3
  <2> QED
    BY <2>2, <2>4
<1>2. PICK x \in T : \A y \in T : <<y, x>> \notin OpToRel(<, Nat)
  BY <1>1, NatLessThanWellFounded, WFMin
<1>3. PICK i \in S : x = n - i
  OBVIOUS
<1>4. ASSUME NEW j \in S PROVE j <= i
  <2>1. n - j \in T /\ n - j \in Nat /\ x \in Nat
    BY <1>1
  <2>2. ~(n - j < x)
    BY <1>2, <2>1 DEF OpToRel
  <2> QED
    BY <1>3, <2>2
<1> QED
  BY <1>4

LEMMA ActiveIndexIn ==
  ASSUME NEW offsets \in Seq(Offset), NEW pos
  PROVE  ActiveIndex(offsets, pos) \in {0} \cup DOMAIN offsets
<1> DEFINE due == {i \in DOMAIN offsets : offsets[i].at <= pos}
<1>1. CASE due = {}
  BY <1>1 DEF ActiveIndex
<1>2. CASE due # {}
  <2>1. due \subseteq 1..Len(offsets) /\ Len(offsets) \in Nat
    OBVIOUS
  <2>2. \E i \in due : \A j \in due : j <= i
    BY <1>2, <2>1, LastIndex
  <2>3. (CHOOSE i \in due : \A j \in due : j <= i) \in due
    BY <2>2
  <2>4. ActiveIndex(offsets, pos) = CHOOSE i \in due : \A j \in due : j <= i
    BY <1>2 DEF ActiveIndex
  <2> QED
    BY <2>3, <2>4
<1> QED
  BY <1>1, <1>2

-----------------------------------------------------------------------------
(* Types *)

UtcTypes ==
  /\ opMode \in 1..3 /\ bits \in [Signals -> {0, 1}] /\ raising \subseteq Signals
  /\ zeroing \in [Threads -> SUBSET Signals]

TickTypes ==
  /\ tick.pc \in {"sleep", "load", "look", "activate", "apply", "write", "stop", "zero"}
  /\ tick.mode \in 1..3 /\ tick.conf \in Files \cup {Nothing}
  /\ tick.todo \subseteq Writes
  /\ tick.pc \in {"activate", "apply"} => tick.plan \in DOMAIN Has(tick.conf).plans

ModeTypes == tracked \in 1..3 /\ last \in Int /\ last >= Gone /\ astray \subseteq Signals

Flags ==
  /\ edited \in BOOLEAN /\ reload \in BOOLEAN
  /\ forgot \in BOOLEAN /\ mixed \in BOOLEAN

Types == UtcTypes /\ TickTypes /\ ModeTypes /\ Flags

LEMMA WritingTypes ==
  ASSUME NEW writes, writes \subseteq Writes
  PROVE  Writing(writes) \in [pc : {"sleep", "write"}, mode : {1}, conf : {Nothing},
                              plan : {NoPlan}, todo : {{}, writes}]
  BY DEF Writing, Asleep

LEMMA AsleepTypes ==
  ASSUME tick' = Asleep
  PROVE  TickTypes'
<1>1. tick' = [pc |-> "sleep", mode |-> 1, conf |-> Nothing, plan |-> NoPlan, todo |-> {}]
  BY DEF Asleep
<1> QED
  BY <1>1 DEF TickTypes

LEMMA WriteIsTyped ==
  ASSUME Types, Write
  PROVE  \E w \in tick.todo :
           /\ w \in Writes /\ w = Upcoming(tick.todo) /\ w[2] \in Signals /\ w[3] \in {0, 1}
<1>1. tick.todo # {} /\ tick.todo \subseteq Writes
  BY DEF Write, Types, TickTypes
<1>2. Upcoming(tick.todo) \in tick.todo
  BY <1>1, UpcomingIn
<1>3. \A w \in Writes : w[2] \in Signals /\ w[3] \in {0, 1}
  BY DEF Writes
<1> QED
  BY <1>1, <1>2, <1>3

\* pci.ug405 and the writes of pci.offline.
LEMMA UtcTypesStep ==
  ASSUME Types, [Next]_vars
  PROVE  UtcTypes'
<1> USE DEF Types, UtcTypes
<1>1. CASE UtcStep
  <2>1. ASSUME NEW t \in Threads, NEW m \in 1..3, Change(t, m) PROVE UtcTypes'
    BY <2>1 DEF Change
  <2>2. ASSUME NEW t \in Threads, NEW s \in Signals, Zero(t, s) PROVE UtcTypes'
    BY <2>2 DEF Zero, Arrives
  <2>3. ASSUME NEW s \in Signals, Decide(s) \/ Raise(s) \/ Clear(s) PROVE UtcTypes'
    BY <2>3 DEF Decide, Raise, Clear, Arrives
  <2>4. CASE BusRestarts
    BY <2>4 DEF BusRestarts
  <2> QED
    BY <1>1, <2>1, <2>2, <2>3, <2>4 DEF UtcStep, UtcNext
<1>2. CASE UtcRestarts
  BY <1>2 DEF UtcRestarts
<1>3. CASE Write
  <2>1. UNCHANGED <<opMode, zeroing, raising>>
    BY <1>3 DEF Write
  <2>2. PICK w \in tick.todo : w = Upcoming(tick.todo) /\ w[2] \in Signals /\ w[3] \in {0, 1}
    BY <1>3, WriteIsTyped
  <2>3. bits' = [bits EXCEPT ![w[2]] = w[3]] \/ bits' = bits
    BY <1>3, <2>2 DEF Write, Arrives
  <2> QED
    BY <2>1, <2>2, <2>3
<1>4. CASE UNCHANGED utcVars
  BY <1>4 DEF utcVars
<1> QED
  BY <1>1, <1>2, <1>3, <1>4 DEF Next, TickWork, Tick, LoadFile, Look, Activate, Apply, Stop,
     Stopped, Reload, ReloadFile, Edit, OfflineRestarts, Track, vars

LEMMA LookTypes ==
  ASSUME IInv, Types, Look
  PROVE  TickTypes'
<1>1. conf \in Files \cup {Nothing}
  BY DEF IInv, Shape
<1>2. PICK p : \/ tick' = Asleep
               \/ /\ tick' = [Asleep EXCEPT !.pc = "activate", !.conf = conf, !.plan = p]
                  /\ p \in DOMAIN Has(conf).plans
               \/ tick' = [Asleep EXCEPT !.pc = "stop"]
  BY DEF Look
<1>3. CASE tick' = Asleep
  BY <1>3, AsleepTypes
<1>4. CASE tick' = [Asleep EXCEPT !.pc = "stop"]
  <2>1. tick' = [pc |-> "stop", mode |-> 1, conf |-> Nothing, plan |-> NoPlan, todo |-> {}]
    BY <1>4 DEF Asleep
  <2> QED
    BY <2>1 DEF TickTypes
<1>5. CASE /\ tick' = [Asleep EXCEPT !.pc = "activate", !.conf = conf, !.plan = p]
           /\ p \in DOMAIN Has(conf).plans
  <2>1. tick' = [pc |-> "activate", mode |-> 1, conf |-> conf, plan |-> p, todo |-> {}]
    BY <1>5 DEF Asleep
  <2>2. /\ tick'.pc = "activate" /\ tick'.mode = 1 /\ tick'.conf = conf
        /\ tick'.plan = p /\ tick'.todo = {}
    BY <2>1
  <2>3. tick'.plan \in DOMAIN Has(tick'.conf).plans
    BY <1>5, <2>2
  <2> QED
    BY <1>1, <2>2, <2>3 DEF TickTypes
<1> QED
  BY <1>2, <1>3, <1>4, <1>5

\* The offset that a tick takes up is one of the plan it has looked up.
LEMMA ApplyTypes ==
  ASSUME Types, Apply
  PROVE  \E i \in {0} \cup DOMAIN Has(tick.conf).plans[tick.plan] :
           LET offsets == Has(tick.conf).plans[tick.plan]
           IN /\ last' = i /\ i \in Nat
              /\ \/ (i = last \/ i = 0) /\ tick' = Asleep
                 \/ /\ i # last /\ i # 0
                    /\ i \in DOMAIN offsets /\ OneValueEach(offsets[i])
                    /\ WritesOf(offsets[i]) \subseteq Writes
                    /\ tick' = Writing(WritesOf(offsets[i]))
              /\ mixed' = IF i = last THEN mixed ELSE tick.conf # conf
<1> DEFINE offsets == Has(tick.conf).plans[tick.plan]
<1>1. tick.conf \in Files \cup {Nothing} /\ tick.plan \in DOMAIN Has(tick.conf).plans
  BY DEF Apply, Types, TickTypes
<1>2. offsets \in Seq(Offset) /\ \A i \in DOMAIN offsets : OneValueEach(offsets[i])
  BY <1>1, OffsetsTyped
<1>3. PICK pos \in Positions :
        LET i == ActiveIndex(offsets, pos)
        IN /\ last' = i
           /\ tick' = IF i = last \/ i = 0 THEN Asleep ELSE Writing(WritesOf(offsets[i]))
           /\ mixed' = IF i = last THEN mixed ELSE tick.conf # conf
  BY DEF Apply
<1> DEFINE i == ActiveIndex(offsets, pos)
<1>4. i \in {0} \cup DOMAIN offsets
  BY <1>2, ActiveIndexIn
<1> HIDE DEF i
<1>5. i \in Nat
  BY <1>2, <1>4
<1>6. i # 0 => i \in DOMAIN offsets /\ OneValueEach(offsets[i])
               /\ WritesOf(offsets[i]) \subseteq Writes
  BY <1>2, <1>4, WritesTyped
<1>7. /\ last' = i
      /\ tick' = IF i = last \/ i = 0 THEN Asleep ELSE Writing(WritesOf(offsets[i]))
      /\ mixed' = IF i = last THEN mixed ELSE tick.conf # conf
  BY <1>3 DEF i
<1> QED
  BY <1>4, <1>5, <1>6, <1>7

LEMMA TickTypesStep ==
  ASSUME IInv, Types, [Next]_vars
  PROVE  TickTypes'
<1>1. CASE Tick
  <2>1. PICK pc \in {"load", "look"} :
          tick' = [pc |-> pc, mode |-> tracked, conf |-> Nothing, plan |-> NoPlan, todo |-> {}]
    BY <1>1 DEF Tick, Asleep
  <2> QED
    BY <2>1 DEF TickTypes, Types, ModeTypes
<1>2. CASE LoadFile
  <2>1. tick' = [pc |-> "look", mode |-> tick.mode, conf |-> tick.conf, plan |-> tick.plan,
                 todo |-> tick.todo]
    BY <1>2 DEF LoadFile, IInv, Shape
  <2> QED
    BY <2>1 DEF TickTypes, Types
<1>3. CASE Activate
  <2>1. tick' = [pc |-> "apply", mode |-> tick.mode, conf |-> tick.conf, plan |-> tick.plan,
                 todo |-> tick.todo] /\ tick.pc = "activate"
    BY <1>3 DEF Activate, IInv, Shape
  <2> QED
    BY <2>1 DEF TickTypes, Types
<1>4. CASE Apply
  <2>1. tick' = Asleep \/ \E writes \in SUBSET Writes : tick' = Writing(writes)
    BY <1>4, ApplyTypes
  <2>2. ASSUME NEW writes \in SUBSET Writes, tick' = Writing(writes)
        PROVE  TickTypes'
    BY <2>2, WritingTypes DEF TickTypes
  <2> QED
    BY <2>1, <2>2, AsleepTypes
<1>5. CASE Write
  <2>1. tick.todo \ {Upcoming(tick.todo)} \subseteq Writes
    BY DEF Types, TickTypes
  <2>2. CASE tick' = Writing(tick.todo \ {Upcoming(tick.todo)})
    BY <2>1, <2>2, WritingTypes DEF TickTypes
  <2>3. CASE tick.pc = "zero" /\ tick' = [tick EXCEPT !.todo = tick.todo \ {Upcoming(tick.todo)}]
    <3>1. tick' = [pc |-> tick.pc, mode |-> tick.mode, conf |-> tick.conf, plan |-> tick.plan,
                   todo |-> tick.todo \ {Upcoming(tick.todo)}]
      BY <2>3 DEF IInv, Shape
    <3> QED
      BY <2>1, <2>3, <3>1 DEF TickTypes, Types
  <2> QED
    BY <1>5, <2>2, <2>3 DEF Write
<1>6. CASE Stop
  <2>1. PICK todo \in {ZeroAll, {}} :
          tick' = [pc |-> "zero", mode |-> tick.mode, conf |-> tick.conf, plan |-> tick.plan,
                   todo |-> todo]
    BY <1>6 DEF Stop, IInv, Shape
  <2> QED
    BY <2>1 DEF TickTypes, Types, ZeroAll, Writes
<1>7. CASE UNCHANGED tick
  BY <1>7 DEF TickTypes, Types
<1> QED
  BY <1>1, <1>2, <1>3, <1>4, <1>5, <1>6, <1>7, AsleepTypes, LookTypes
  DEF Next, TickWork, Stopped, OfflineRestarts, Reload, ReloadFile, Edit, UtcStep, Touched,
      UtcRestarts, Track, vars

LEMMA ModeTypesStep ==
  ASSUME Types, [Next]_vars
  PROVE  ModeTypes'
<1>1. CASE Apply
  BY <1>1, ApplyTypes DEF Apply, Types, ModeTypes, Gone
<1>2. CASE Write
  <2>1. PICK w \in tick.todo : w = Upcoming(tick.todo) /\ w[2] \in Signals
    BY <1>2, WriteIsTyped
  <2> QED
    BY <1>2, <2>1 DEF Write, Types, ModeTypes, state
<1>3. CASE \/ Tick \/ LoadFile \/ Look \/ Activate \/ Stop \/ Stopped \/ Reload \/ ReloadFile
           \/ Edit
  <2>1. UNCHANGED <<tracked, astray>>
    BY <1>3 DEF Tick, LoadFile, Look, Activate, Stop, Stopped, Reload, ReloadFile, Edit, history
  <2>2. last' \in {last, Gone, 0}
    BY <1>3 DEF Tick, LoadFile, Look, Activate, Stop, Stopped, Reload, ReloadFile, Edit,
                ForgetState, state
  <2> QED
    BY <2>1, <2>2 DEF Types, ModeTypes, Gone
<1>4. CASE OfflineRestarts \/ UtcStep \/ UtcRestarts \/ Track \/ UNCHANGED vars
  BY <1>4 DEF OfflineRestarts, UtcStep, UtcRestarts, Track, Touched, vars, state, history,
              Types, ModeTypes, Gone
<1> QED
  BY <1>1, <1>2, <1>3, <1>4 DEF Next, TickWork

LEMMA FlagsStep ==
  ASSUME Types, [Next]_vars
  PROVE  Flags'
<1> USE DEF Types, Flags
<1>1. edited' \in BOOLEAN /\ reload' \in BOOLEAN
  BY DEF Next, TickWork, Tick, LoadFile, Look, Activate, Apply, Write, Stop, Stopped, Reload,
     ReloadFile, Edit, OfflineRestarts, UtcStep, UtcRestarts, Track, Touched, Load, vars,
     fileVars
<1>2. forgot' \in BOOLEAN
  BY DEF Next, TickWork, Tick, LoadFile, Look, Activate, Apply, Write, Stop, Stopped, Reload,
     ReloadFile, Edit, OfflineRestarts, UtcStep, UtcRestarts, Track, Touched, ForgetState,
     vars, history
<1>3. mixed' \in BOOLEAN
  <2>1. CASE Apply
    BY <2>1, ApplyTypes
  <2> QED
    BY <2>1 DEF Next, TickWork, Tick, LoadFile, Look, Activate, Write, Stop, Stopped, Reload,
       ReloadFile, Edit, OfflineRestarts, UtcStep, UtcRestarts, Track, Touched, vars, history
<1> QED
  BY <1>1, <1>2, <1>3

LEMMA TypesInit == Init => Types
<1> SUFFICES ASSUME Init PROVE Types
  OBVIOUS
<1>1. tick = [pc |-> "sleep", mode |-> 1, conf |-> Nothing, plan |-> NoPlan, todo |-> {}]
  BY DEF Init, Asleep
<1>2. TickTypes
  BY <1>1 DEF TickTypes
<1>3. UtcTypes
  BY DEF Init, UtcInit, UtcTypes
<1>4. ModeTypes
  BY DEF Init, ModeTypes, Gone
<1>5. Flags
  BY DEF Init, Flags
<1> QED
  BY <1>2, <1>3, <1>4, <1>5 DEF Types

LEMMA TypesStep == IInv /\ Types /\ [Next]_vars => Types'
  BY UtcTypesStep, TickTypesStep, ModeTypesStep, FlagsStep DEF Types

\* Every variable has its type, for plan files that hold what _load_plan_file
\* reads of them.
THEOREM TypesAlways == Spec => []TypeOK
<1>1. IInv /\ Types => TypeOK
  BY DEF IInv, Shape, Types, UtcTypes, TickTypes, ModeTypes, Flags, TypeOK
<1> QED
  BY <1>1, InvInit, InvStep, TypesInit, TypesStep, PTL DEF Spec
-----------------------------------------------------------------------------
(* What an active plan shows *)

\* The offset that was taken up last.
Due == Has(conf).plans[plan][last]

\* An offset was taken up, of the plan file that is loaded.
Showing == plan # NoPlan /\ last > 0 /\ ~mixed /\ plan \in DOMAIN Has(conf).plans

\* The plan that a tick applies is the active one, or was forgotten; and what it
\* writes is the offset noted, unless the plan file changed under it.
Matched ==
  /\ tick.pc = "load" => plan = NoPlan
  /\ tick.pc = "apply" => plan \in {NoPlan, tick.plan}
  /\ Showing => last \in DOMAIN Has(conf).plans[plan]
  /\ tick.pc = "write" /\ plan # NoPlan /\ ~mixed =>
       Showing /\ tick.todo \subseteq WritesOf(Due)

\* A write of the offset was made, or is still to be made.
Shows(w) == \/ w[2] \in astray \/ bits[w[2]] = w[3]
            \/ tick.pc = "write" /\ w \in tick.todo

ShowsAll == tick.pc # "zero" /\ Showing => \A w \in WritesOf(Due) : Shows(w)

ShownInv == Matched /\ ShowsAll

LEMMA DueTyped ==
  ASSUME IInv, ShownInv, Showing
  PROVE  OneValueEach(Due) /\ \A w \in WritesOf(Due) : w[2] \in Signals
<1>1. /\ conf \in Files \cup {Nothing} /\ plan \in DOMAIN Has(conf).plans
      /\ last \in DOMAIN Has(conf).plans[plan]
  BY DEF IInv, Shape, ShownInv, Matched, Showing
<1>2. Has(conf).plans[plan] \in Seq(Offset) /\ OneValueEach(Due)
  BY <1>1, OffsetsTyped DEF Due
<1>3. Due \in Offset
  BY <1>1, <1>2 DEF Due
<1>4. WritesOf(Due) \subseteq Writes
  BY <1>3, WritesTyped
<1> QED
  BY <1>2, <1>4 DEF Writes

\* No plan is active: there is nothing to show.
LEMMA NothingToShow ==
  ASSUME plan' = NoPlan, tick'.pc # "write" \/ tick' = tick
  PROVE  ShownInv'
  BY DEF ShownInv, Matched, ShowsAll, Showing

\* A step that leaves alone the signals, the plan and the file, of a tick that
\* writes nothing before it or after it.
LEMMA KeepsShown ==
  ASSUME ShownInv, UNCHANGED <<bits, astray, plan, last, conf, mixed>>,
         tick.pc # "write", tick'.pc # "write", tick.pc # "zero",
         tick'.pc = "load" => plan = NoPlan,
         tick'.pc = "apply" => plan \in {NoPlan, tick'.plan}
  PROVE  ShownInv'
  BY DEF ShownInv, Matched, ShowsAll, Showing, Shows, Due

LEMMA ShownTick ==
  ASSUME IInv, ShownInv, Tick
  PROVE  ShownInv'
<1>1. CASE edited
  BY <1>1, NothingToShow DEF Tick, ForgetState, Asleep
<1>2. CASE ~edited
  BY <1>2, KeepsShown DEF Tick, Asleep, state, utcVars, fileVars
<1> QED
  BY <1>1, <1>2

LEMMA ShownLoad ==
  ASSUME IInv, ShownInv, LoadFile
  PROVE  ShownInv'
<1>1. plan = NoPlan /\ plan' = plan
  BY DEF LoadFile, ShownInv, Matched, state
<1>2. tick'.pc = "look"
  BY DEF LoadFile, IInv, Shape
<1> QED
  BY <1>1, <1>2, NothingToShow

LEMMA ShownLook ==
  ASSUME IInv, ShownInv, Look
  PROVE  ShownInv'
<1>1. tick'.pc \in {"sleep", "activate", "stop"}
  BY DEF Look, Asleep
<1> QED
  BY <1>1, KeepsShown DEF Look, utcVars, fileVars, state, history

LEMMA ShownActivate ==
  ASSUME IInv, ShownInv, Activate
  PROVE  ShownInv'
<1>1. /\ tick.pc = "activate" /\ plan' = tick.plan
      /\ UNCHANGED <<bits, astray, conf, mixed>>
  BY DEF Activate, utcVars, fileVars, history
<1>2. tick' = [pc |-> "apply", mode |-> tick.mode, conf |-> tick.conf,
               plan |-> tick.plan, todo |-> tick.todo]
  BY DEF Activate, IInv, Shape
<1>3. CASE plan = tick.plan
  <2>1. UNCHANGED <<plan, last>>
    BY <1>1, <1>3 DEF Activate
  <2> QED
    BY <1>1, <1>2, <1>3, <2>1, KeepsShown
<1>4. CASE plan # tick.plan
  <2>1. last' = 0
    BY <1>4 DEF Activate
  <2>2. ~Showing'
    BY <2>1 DEF Showing
  <2> QED
    BY <1>1, <1>2, <2>2 DEF ShownInv, Matched, ShowsAll
<1> QED
  BY <1>3, <1>4

\* All of a new offset is still to be written.
LEMMA ShownApply ==
  ASSUME IInv, Types, ShownInv, Apply
  PROVE  ShownInv'
<1> DEFINE offsets == Has(tick.conf).plans[tick.plan]
<1>1. /\ tick.pc = "apply" /\ plan \in {NoPlan, tick.plan}
      /\ tick.plan \in DOMAIN Has(tick.conf).plans
      /\ UNCHANGED <<bits, astray, plan, conf>>
  BY DEF Apply, utcVars, fileVars, Types, TickTypes, ShownInv, Matched
<1>2. PICK i \in {0} \cup DOMAIN offsets :
        /\ last' = i /\ i \in Nat
        /\ \/ (i = last \/ i = 0) /\ tick' = Asleep
           \/ /\ i # last /\ i # 0
              /\ i \in DOMAIN offsets
              /\ tick' = Writing(WritesOf(offsets[i]))
        /\ mixed' = IF i = last THEN mixed ELSE tick.conf # conf
  BY ApplyTypes
<1>3. CASE i = last
  <2>1. tick' = Asleep /\ UNCHANGED <<last, mixed>>
    BY <1>2, <1>3
  <2> QED
    BY <1>1, <2>1, KeepsShown DEF Asleep
<1>4. CASE i = 0
  <2>1. tick' = Asleep /\ ~Showing'
    BY <1>2, <1>4 DEF Showing
  <2> QED
    BY <2>1 DEF ShownInv, Matched, ShowsAll, Asleep
<1>5. CASE i # last /\ i # 0
  <2>1. /\ i \in DOMAIN offsets /\ last' = i /\ mixed' = (tick.conf # conf)
        /\ tick' = Writing(WritesOf(offsets[i]))
    BY <1>2, <1>5
  <2>2. tick'.pc \in {"sleep", "write"}
    BY <2>1, WritingShape
  <2>3. ASSUME plan' # NoPlan, ~mixed'
        PROVE  Showing' /\ last' \in DOMAIN Has(conf').plans[plan'] /\ Due' = offsets[i]
    <3>1. tick.conf = conf /\ plan = tick.plan
      BY <1>1, <2>1, <2>3
    <3>2. offsets = Has(conf').plans[plan']
      BY <1>1, <3>1
    <3>3. Due' = offsets[i]
      BY <2>1, <3>2 DEF Due
    <3> QED
      <4>1. plan' \in DOMAIN Has(conf').plans
        BY <1>1, <3>1
      <4>2. last' > 0
        BY <1>2, <1>5, <2>1
      <4> QED
        BY <2>1, <2>3, <3>2, <3>3, <4>1, <4>2 DEF Showing
  <2>4. WritesOf(offsets[i]) = {} \/ (tick'.pc = "write" /\ tick'.todo = WritesOf(offsets[i]))
    BY <2>1 DEF Writing, Asleep
  <2>5. tick'.pc = "write" => tick'.todo = WritesOf(offsets[i])
    BY <2>1 DEF Writing, Asleep
  <2>6. Matched'
    BY <2>2, <2>3, <2>5 DEF Matched, Showing
  <2>7. ShowsAll'
    BY <2>3, <2>4 DEF ShowsAll, Showing, Shows
  <2> QED
    BY <2>6, <2>7 DEF ShownInv
<1> QED
  BY <1>3, <1>4, <1>5

\* A write is made, or its signal astray; no other write of the offset is for
\* that signal.
LEMMA ShownWrite ==
  ASSUME IInv, Types, ShownInv, Write
  PROVE  ShownInv'
<1>1. PICK w \in tick.todo : w = Upcoming(tick.todo) /\ w[2] \in Signals
  BY WriteIsTyped
<1>2. /\ tick.pc \in {"write", "zero"}
      /\ UNCHANGED <<plan, last, conf, mixed>>
      /\ tick' = IF tick.pc = "write" THEN Writing(tick.todo \ {w})
                 ELSE [tick EXCEPT !.todo = tick.todo \ {w}]
  BY <1>1 DEF Write, fileVars, state
<1>3. \/ bits' = [bits EXCEPT ![w[2]] = w[3]] /\ astray' = astray \ {w[2]}
      \/ bits' = bits /\ astray' = astray \cup {w[2]}
  BY <1>1 DEF Write, Arrives
<1>4. CASE tick.pc = "zero"
  <2>1. tick'.pc = "zero"
    BY <1>2, <1>4 DEF IInv, Shape
  <2> QED
    BY <1>2, <2>1 DEF ShownInv, Matched, ShowsAll, Showing
<1>5. CASE tick.pc = "write"
  <2>1. tick' = Writing(tick.todo \ {w})
    BY <1>2, <1>5
  <2>2. tick'.pc \in {"sleep", "write"}
    BY <2>1, WritingShape
  <2>3. /\ tick'.pc = "write" => tick'.todo = tick.todo \ {w}
        /\ tick'.pc # "write" => tick.todo \ {w} = {}
    BY <2>1 DEF Writing, Asleep
  <2>4. Due' = Due /\ (Showing' <=> Showing)
    BY <1>2 DEF Due, Showing
  <2>5. Matched'
    BY <1>2, <1>5, <2>2, <2>3, <2>4 DEF ShownInv, Matched
  <2>6. ASSUME Showing, NEW v \in WritesOf(Due)
        PROVE  Shows(v)'
    <3>1. tick.todo \subseteq WritesOf(Due)
      BY <1>5, <2>6 DEF ShownInv, Matched, Showing
    <3>2. OneValueEach(Due)
      BY <2>6, DueTyped
    <3>3. Shows(v)
      BY <1>5, <2>6 DEF ShownInv, ShowsAll
    <3>4. CASE v = w
      BY <1>1, <1>3, <3>4 DEF Shows, Types, UtcTypes
    <3>5. CASE v # w
      <4>1. v[2] # w[2]
        BY <3>1, <3>2, <3>5 DEF OneValueEach
      <4>2. CASE v \in tick.todo
        BY <2>3, <3>5, <4>2 DEF Shows
      <4>3. CASE v[2] \in astray
        BY <1>3, <4>1, <4>3 DEF Shows
      <4>4. CASE bits[v[2]] = v[3]
        <5>1. v[2] \in Signals
          BY <2>6, DueTyped
        <5>2. bits'[v[2]] = bits[v[2]]
          BY <1>3, <4>1, <5>1 DEF Types, UtcTypes
        <5> QED
          BY <4>4, <5>2 DEF Shows
      <4> QED
        BY <3>3, <4>2, <4>3, <4>4 DEF Shows
    <3> QED
      BY <3>4, <3>5
  <2> QED
    BY <2>4, <2>5, <2>6 DEF ShownInv, ShowsAll
<1> QED
  BY <1>2, <1>4, <1>5

LEMMA ShownStop ==
  ASSUME IInv, ShownInv, Stop
  PROVE  ShownInv'
<1>1. tick'.pc = "zero"
  BY DEF Stop, IInv, Shape
<1>2. UNCHANGED <<plan, last, conf, mixed>>
  BY DEF Stop, fileVars, state, history
<1> QED
  BY <1>1, <1>2 DEF ShownInv, Matched, ShowsAll, Showing

\* The state is cleared, when a plan ends, on RELOAD or by a restart.
LEMMA ShownCleared ==
  ASSUME Stopped \/ Reload \/ OfflineRestarts
  PROVE  ShownInv'
<1>1. plan' = NoPlan
  BY DEF Stopped, Reload, OfflineRestarts, ForgetState
<1>2. tick' = Asleep \/ tick' = tick
  BY DEF Stopped, Reload, OfflineRestarts
<1> QED
  BY <1>1, <1>2, NothingToShow, AsleepShape

\* A file that is loaded under an active plan is another one than was applied.
LEMMA ShownReloadFile ==
  ASSUME ShownInv, ReloadFile
  PROVE  ShownInv'
<1>1. UNCHANGED <<bits, astray, plan, last, tick>>
  BY DEF ReloadFile, utcVars, state
<1>2. CASE conf' = conf
  <2>1. mixed' <=> mixed
    BY <1>2 DEF ReloadFile
  <2> QED
    BY <1>1, <1>2, <2>1 DEF ShownInv, Matched, ShowsAll, Showing, Shows, Due
<1>3. CASE conf' # conf /\ plan # NoPlan
  <2>1. mixed'
    BY <1>3 DEF ReloadFile
  <2> QED
    BY <1>1, <2>1 DEF ShownInv, Matched, ShowsAll, Showing
<1>4. CASE plan = NoPlan
  BY <1>1, <1>4, NothingToShow
<1> QED
  BY <1>2, <1>3, <1>4

\* What pci.ug405 changes is astray.
LEMMA ShownUtc ==
  ASSUME IInv, ShownInv, UtcStep
  PROVE  ShownInv'
<1>1. /\ UNCHANGED <<conf, plan, last, tick, mixed>>
      /\ astray' = astray \cup {s \in Signals : bits'[s] # bits[s]}
  BY DEF UtcStep, Touched, fileVars, state
<1>2. Due' = Due /\ (Showing' <=> Showing)
  BY <1>1 DEF Due, Showing
<1>3. ASSUME Showing, NEW w \in WritesOf(Due), Shows(w)
      PROVE  Shows(w)'
  <2>1. w[2] \in Signals
    BY <1>3, DueTyped
  <2> QED
    BY <1>1, <1>3, <2>1 DEF Shows
<1> QED
  BY <1>1, <1>2, <1>3 DEF ShownInv, Matched, ShowsAll

LEMMA ShownOther ==
  ASSUME ShownInv, Edit \/ UtcRestarts \/ Track \/ UNCHANGED vars
  PROVE  ShownInv'
<1>1. UNCHANGED <<bits, astray, conf, plan, last, tick, mixed>>
  BY DEF Edit, UtcRestarts, Track, vars, utcVars, fileVars, state, history
<1> QED
  BY <1>1 DEF ShownInv, Matched, ShowsAll, Showing, Shows, Due

LEMMA ShownInit == Init => ShownInv
  BY NothingToShow DEF Init, Asleep, ShownInv, Matched, ShowsAll, Showing

LEMMA ShownStep == IInv /\ Types /\ ShownInv /\ [Next]_vars => ShownInv'
  BY ShownTick, ShownLoad, ShownLook, ShownActivate, ShownApply, ShownWrite, ShownStop,
     ShownCleared, ShownReloadFile, ShownUtc, ShownOther DEF Next, TickWork

\* Between ticks the signals an active plan's offset names have its values, but
\* for those that pci.ug405 has changed since, or whose write was lost
\* (_apply_offsets).
THEOREM PlanShownAlways == Spec => []PlanShown
<1>1. ShownInv => PlanShown
  BY DEF ShownInv, ShowsAll, Showing, Shows, Due, Resting, PlanShown
<1> QED
  BY <1>1, InvInit, InvStep, TypesInit, TypesStep, ShownInit, ShownStep, PTL DEF Spec
=============================================================================
