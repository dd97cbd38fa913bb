-------------------------- MODULE UtcControlProofs --------------------------
(***************************************************************************)
(* Proof that pci.ug405 (UG405OpMode) keeps the promise of UtcControl, for *)
(* every set of control signals: each step of its two threads is a step of *)
(* the abstract specification or leaves its variables alone.  It rests on  *)
(* the invariant of UG405OpModeProofs: a thread in the middle of a loop    *)
(* has a signal left (TodoOK).                                             *)
(***************************************************************************)
EXTENDS UG405OpModeProofs

ZeroingMap == [t \in {"snmp", "dog"} |-> ZeroingOf(t)]

-----------------------------------------------------------------------------
(* The mapped variables *)

LEMMA SnmpZeroing ==
  /\ snmp.pc = "stamp" /\ snmp.new < 3 => ZeroingOf("snmp") = ControlSignals
  /\ snmp.pc = "stamp" /\ ~(snmp.new < 3) => ZeroingOf("snmp") = {}
  /\ snmp.pc = "zero" => ZeroingOf("snmp") = snmp.todo
  /\ snmp.pc \notin {"stamp", "zero"} => ZeroingOf("snmp") = {}
  BY DEF ZeroingOf

LEMMA DogZeroing ==
  /\ dog.pc = "forget" => ZeroingOf("dog") = ControlSignals
  /\ dog.pc = "zero" => ZeroingOf("dog") = dog.todo
  /\ dog.pc \notin {"forget", "zero"} => ZeroingOf("dog") = {}
  BY DEF ZeroingOf

LEMMA ZeroingAt ==
  /\ ZeroingMap["snmp"] = ZeroingOf("snmp")
  /\ ZeroingMap["dog"] = ZeroingOf("dog")
  BY DEF ZeroingMap

LEMMA NothingRaised ==
  snmp.pc \notin {"raise_write", "single_write"} => Raising = {}
  BY DEF Raising

\* A thread's own steps leave the other thread's debt as it is.
LEMMA SnmpDebt ==
  ASSUME NEW S, ZeroingOf("snmp")' = S, UNCHANGED dog
  PROVE  ZeroingMap' = [ZeroingMap EXCEPT !["snmp"] = S]
<1>1. ZeroingOf("dog")' = ZeroingOf("dog")
  BY DEF ZeroingOf
<1> QED
  BY <1>1 DEF ZeroingMap

LEMMA DogDebt ==
  ASSUME NEW S, ZeroingOf("dog")' = S, ZeroingOf("snmp")' = ZeroingOf("snmp")
  PROVE  ZeroingMap' = [ZeroingMap EXCEPT !["dog"] = S]
  BY DEF ZeroingMap

LEMMA Stutter ==
  ASSUME UNCHANGED <<opMode, bits>>, Raising' = Raising,
         ZeroingOf("snmp")' = ZeroingOf("snmp"), ZeroingOf("dog")' = ZeroingOf("dog")
  PROVE  UNCHANGED Utc!utcVars
<1>1. ZeroingMap' = ZeroingMap
  BY DEF ZeroingMap
<1> QED
  BY <1>1 DEF Utc!utcVars, ZeroingMap

\* A write of a signal that exists arrives or is lost.
LEMMA PutArrives ==
  ASSUME NEW s, NEW v, Put(s, v)
  PROVE  Utc!Arrives(s, v) \/ UNCHANGED bits
  BY DEF Put, Utc!Arrives
-----------------------------------------------------------------------------
LEMMA InitMaps == Init => Utc!UtcInit
<1> SUFFICES ASSUME Init PROVE Utc!UtcInit
  OBVIOUS
<1>1. snmp.pc = "idle" /\ dog.pc = "sleep"
  BY DEF Init, IdleSnmp, IdleDog
<1>2. ZeroingOf("snmp") = {} /\ ZeroingOf("dog") = {} /\ Raising = {}
  BY <1>1, SnmpZeroing, DogZeroing, NothingRaised
<1> QED
  BY <1>2 DEF Init, Utc!UtcInit

\* A SET of the mode takes on the zeroing of every signal, in the very step
\* that takes the mode below 3.
LEMMA AssignMaps ==
  ASSUME TypeOK, AssignMode
  PROVE  Utc!UtcNext
<1>1. /\ snmp.pc = "assign" /\ opMode' = snmp.new /\ snmp.new \in 1..3
      /\ snmp'.pc = "stamp" /\ snmp'.new = snmp.new
      /\ UNCHANGED <<bits, dog>>
  BY DEF AssignMode, TypeOK
<1>2. ZeroingOf("snmp") = {} /\ Raising = {} /\ Raising' = {}
  BY <1>1, SnmpZeroing DEF Raising
<1>3. ZeroingOf("snmp")' = IF snmp.new < 3 THEN ControlSignals ELSE {}
  BY <1>1 DEF ZeroingOf
<1>4. ZeroingMap' = [ZeroingMap EXCEPT !["snmp"] = IF snmp.new < 3 THEN ControlSignals ELSE {}]
  BY <1>1, <1>3, SnmpDebt
<1>5. Utc!Change("snmp", snmp.new)
  BY <1>1, <1>2, <1>4, ZeroingAt DEF Utc!Change, Utc!SnmpFree, ZeroingMap
<1> QED
  BY <1>1, <1>5 DEF Utc!UtcNext

LEMMA ZeroForModeMaps ==
  ASSUME TypeOK, IInv, ZeroForMode
  PROVE  Utc!UtcNext
<1> DEFINE s == First(snmp.todo)
<1>1. /\ snmp.pc = "zero" /\ Put(s, 0) /\ UNCHANGED <<opMode, dog>>
      /\ snmp'.todo = snmp.todo \ {s}
      /\ snmp'.pc = IF snmp.todo = {s} THEN "grace" ELSE "zero"
  BY DEF ZeroForMode, TypeOK
<1>2. s \in snmp.todo /\ s \in ControlSignals
  BY <1>1, FirstType DEF IInv, TodoOK, TypeOK
<1>3. ZeroingOf("snmp") = snmp.todo /\ Raising = {} /\ Raising' = {}
  BY <1>1, SnmpZeroing DEF Raising
<1>4. ZeroingOf("snmp")' = snmp.todo \ {s}
  BY <1>1 DEF ZeroingOf
<1>5. ZeroingMap' = [ZeroingMap EXCEPT !["snmp"] = ZeroingMap["snmp"] \ {s}]
  BY <1>1, <1>3, <1>4, SnmpDebt, ZeroingAt
<1>6. Utc!Arrives(s, 0) \/ UNCHANGED bits
  BY <1>1, PutArrives
<1>7. Utc!Zero("snmp", s)
  BY <1>1, <1>2, <1>3, <1>5, <1>6, ZeroingAt DEF Utc!Zero, ZeroingMap
<1> QED
  BY <1>2, <1>7 DEF Utc!UtcNext

\* The thread decides to put a signal on, having found mode 3.
LEMMA Decides ==
  ASSUME TypeOK, opMode >= 3, NEW s \in ControlSignals, UNCHANGED <<opMode, bits, dog>>,
         snmp.pc \in {"raise", "single"}, snmp'.pc \in {"raise_write", "single_write"},
         Raising' = {s}
  PROVE  Utc!UtcNext
<1>1. ZeroingOf("snmp") = {} /\ ZeroingOf("snmp")' = {} /\ Raising = {}
  BY DEF ZeroingOf, Raising
<1>2. ZeroingMap' = ZeroingMap
  BY <1>1 DEF ZeroingMap, ZeroingOf
<1>3. opMode = 3
  BY DEF TypeOK
<1>4. Utc!Decide(s)
  BY <1>1, <1>2, <1>3, ZeroingAt DEF Utc!Decide, Utc!SnmpFree, ZeroingMap
<1> QED
  BY <1>4 DEF Utc!UtcNext

\* The write of a signal that is to be put on.
LEMMA PutsOn ==
  ASSUME NEW s \in ControlSignals, Put(s, 1), UNCHANGED <<opMode, dog>>,
         snmp.pc \in {"raise_write", "single_write"},
         snmp'.pc \in {"raise", "clear", "idle"}, Raising = {s}
  PROVE  Utc!UtcNext
<1>1. ZeroingOf("snmp") = {} /\ ZeroingOf("snmp")' = {} /\ Raising' = {}
  BY DEF ZeroingOf, Raising
<1>2. ZeroingMap' = ZeroingMap
  BY <1>1 DEF ZeroingMap, ZeroingOf
<1>3. Utc!Arrives(s, 1) \/ UNCHANGED bits
  BY PutArrives
<1>4. Utc!Raise(s)
  BY <1>1, <1>2, <1>3 DEF Utc!Raise, ZeroingMap
<1> QED
  BY <1>4 DEF Utc!UtcNext

\* The write of a signal that is not commanded.
LEMMA PutsOff ==
  ASSUME NEW s \in ControlSignals, Put(s, 0), UNCHANGED <<opMode, dog>>,
         snmp.pc \in {"clear_write", "single_write"},
         snmp'.pc \in {"clear", "idle"}, Raising = {}
  PROVE  [Utc!UtcNext]_(Utc!utcVars)
<1>1. ZeroingOf("snmp") = {} /\ ZeroingOf("snmp")' = {} /\ Raising' = {}
  BY DEF ZeroingOf, Raising
<1>2. ZeroingOf("dog")' = ZeroingOf("dog")
  BY DEF ZeroingOf
<1>3. ZeroingMap' = ZeroingMap
  BY <1>1, <1>2 DEF ZeroingMap
<1>4. CASE Utc!Arrives(s, 0)
  <2>1. Utc!Clear(s)
    BY <1>1, <1>3, <1>4, ZeroingAt DEF Utc!Clear, Utc!SnmpFree, ZeroingMap
  <2> QED
    BY <2>1 DEF Utc!UtcNext
<1>5. CASE UNCHANGED bits
  BY <1>1, <1>2, <1>5, Stutter
<1> QED
  BY <1>4, <1>5, PutArrives

LEMMA BitmaskMaps ==
  ASSUME TypeOK, IInv, Raise \/ RaiseWrite \/ Clear \/ ClearWrite
  PROVE  [Utc!UtcNext]_(Utc!utcVars)
<1> DEFINE f == First(snmp.todo)
<1>1. snmp.pc \in BitmaskSteps /\ UNCHANGED <<opMode, dog>>
  BY DEF Raise, RaiseWrite, Clear, ClearWrite, BitmaskSteps
<1>2. f \in snmp.todo /\ f \in ControlSignals /\ snmp \in SnmpType
  BY <1>1, FirstType DEF TypeOK, SnmpType, IInv, TodoOK
<1>3. ZeroingOf("dog")' = ZeroingOf("dog")
  BY <1>1 DEF ZeroingOf
<1>4. ASSUME NEW pass \in {"raise", "clear"}, NextBit(pass)
      PROVE  snmp'.pc \in {"raise", "clear", "idle"} /\ (pass = "clear" => snmp'.pc # "raise")
  BY <1>2, <1>4 DEF NextBit, SnmpType, IdleSnmp
<1>5. ASSUME UNCHANGED bits, snmp.pc \in {"raise", "clear"},
             snmp'.pc \in {"raise", "clear", "clear_write", "idle"}
      PROVE  UNCHANGED Utc!utcVars
  <2>1. /\ ZeroingOf("snmp") = {} /\ ZeroingOf("snmp")' = {}
        /\ Raising = {} /\ Raising' = {}
    BY <1>5 DEF ZeroingOf, Raising
  <2> QED
    BY <1>1, <1>3, <1>5, <2>1, Stutter
<1>6. CASE Raise
  <2>1. snmp.pc = "raise" /\ UNCHANGED bits
    BY <1>6 DEF Raise
  <2>2. CASE opMode >= 3 /\ snmp' = [snmp EXCEPT !.pc = "raise_write"]
    <3>1. snmp'.pc = "raise_write" /\ snmp'.todo = snmp.todo
      BY <1>2, <2>2 DEF SnmpType
    <3>2. Raising' = {f}
      BY <3>1 DEF Raising
    <3> QED
      BY <1>1, <1>2, <2>1, <2>2, <3>1, <3>2, Decides
  <2>3. CASE NextBit("raise")
    BY <1>4, <1>5, <2>1, <2>3
  <2> QED
    BY <1>6, <2>2, <2>3 DEF Raise
<1>7. CASE RaiseWrite
  <2>1. snmp.pc = "raise_write" /\ Put(f, 1) /\ NextBit("raise")
    BY <1>7 DEF RaiseWrite
  <2>2. Raising = {f}
    BY <2>1 DEF Raising
  <2> QED
    BY <1>1, <1>2, <1>4, <2>1, <2>2, PutsOn
<1>8. CASE Clear
  <2>1. snmp.pc = "clear" /\ UNCHANGED bits
    BY <1>8 DEF Clear
  <2>2. snmp'.pc \in {"clear", "clear_write", "idle"}
    <3>1. CASE NextBit("clear")
      BY <1>4, <3>1
    <3>2. CASE snmp' = [snmp EXCEPT !.pc = "clear_write"]
      BY <1>2, <3>2 DEF SnmpType
    <3> QED
      BY <1>8, <3>1, <3>2 DEF Clear
  <2> QED
    BY <1>5, <2>1, <2>2
<1>9. CASE ClearWrite
  <2>1. snmp.pc = "clear_write" /\ Put(f, 0) /\ NextBit("clear")
    BY <1>9 DEF ClearWrite
  <2>2. Raising = {} /\ snmp'.pc \in {"clear", "idle"}
    BY <1>4, <2>1, NothingRaised
  <2> QED
    BY <1>1, <1>2, <2>1, <2>2, PutsOff
<1> QED
  BY <1>6, <1>7, <1>8, <1>9

LEMMA SingleMaps ==
  ASSUME TypeOK, IInv, EvalSingle \/ SingleWrite
  PROVE  [Utc!UtcNext]_(Utc!utcVars)
<1> DEFINE f == First(snmp.todo)
<1>1. snmp.pc \in {"single", "single_write"} /\ UNCHANGED <<opMode, dog>>
  BY DEF EvalSingle, SingleWrite
<1>2. f \in ControlSignals /\ snmp \in SnmpType
  BY <1>1, FirstType DEF TypeOK, SnmpType, IInv, TodoOK, ControlSignals
<1>3. ZeroingOf("dog")' = ZeroingOf("dog")
  BY <1>1 DEF ZeroingOf
<1>4. CASE EvalSingle
  <2>1. /\ snmp.pc = "single" /\ UNCHANGED bits
        /\ snmp'.pc = "single_write" /\ snmp'.todo = snmp.todo
        /\ snmp'.raw # {} => opMode >= 3
    BY <1>2, <1>4 DEF EvalSingle, SnmpType
  <2>2. CASE snmp'.raw # {}
    <3>1. Raising' = {f}
      BY <2>1, <2>2 DEF Raising
    <3> QED
      BY <1>1, <1>2, <2>1, <2>2, <3>1, Decides
  <2>3. CASE snmp'.raw = {}
    <3>1. /\ ZeroingOf("snmp") = {} /\ ZeroingOf("snmp")' = {}
          /\ Raising = {} /\ Raising' = {}
      BY <2>1, <2>3 DEF ZeroingOf, Raising
    <3> QED
      BY <1>1, <1>3, <2>1, <3>1, Stutter
  <2> QED
    BY <2>2, <2>3
<1>5. CASE SingleWrite
  <2>1. /\ snmp.pc = "single_write" /\ Put(f, IF snmp.raw = {} THEN 0 ELSE 1)
        /\ snmp'.pc = "idle"
    BY <1>5 DEF SingleWrite, IdleSnmp
  <2>2. CASE snmp.raw = {}
    <3>1. Put(f, 0) /\ Raising = {}
      BY <2>1, <2>2 DEF Raising
    <3> QED
      BY <1>1, <1>2, <2>1, <3>1, PutsOff
  <2>3. CASE snmp.raw # {}
    <3>1. Put(f, 1) /\ Raising = {f}
      BY <2>1, <2>3 DEF Raising
    <3> QED
      BY <1>1, <1>2, <2>1, <3>1, PutsOn
  <2> QED
    BY <2>2, <2>3
<1> QED
  BY <1>4, <1>5
-----------------------------------------------------------------------------
(* The watchdog *)

\* A drop takes on the zeroing of every signal with its change of mode.
LEMMA FallMaps ==
  ASSUME TypeOK, Fall
  PROVE  Utc!UtcNext
<1>1. dog.pc = "fall" /\ opMode' = 1 /\ dog'.pc = "forget" /\ UNCHANGED bits
  BY DEF Fall, TypeOK
<1>2. /\ snmp'.pc = snmp.pc /\ snmp'.new = snmp.new
      /\ snmp'.todo = snmp.todo /\ snmp'.raw = snmp.raw
  BY DEF Fall, TypeOK
<1>3. ZeroingOf("snmp")' = ZeroingOf("snmp") /\ Raising' = Raising
  BY <1>2 DEF ZeroingOf, Raising
<1>4. ZeroingOf("dog") = {} /\ ZeroingOf("dog")' = ControlSignals
  BY <1>1 DEF ZeroingOf
<1>5. ZeroingMap' = [ZeroingMap EXCEPT !["dog"] = ControlSignals]
  BY <1>3, <1>4, DogDebt
<1>6. Utc!Change("dog", 1)
  BY <1>1, <1>3, <1>4, <1>5, ZeroingAt DEF Utc!Change, ZeroingMap
<1> QED
  BY <1>6 DEF Utc!UtcNext

LEMMA ZeroForDropMaps ==
  ASSUME TypeOK, IInv, ZeroForDrop
  PROVE  Utc!UtcNext
<1> DEFINE s == First(dog.todo)
<1>1. /\ dog.pc = "zero" /\ Put(s, 0) /\ UNCHANGED <<opMode, snmp>>
      /\ dog' = IF dog.todo = {s} THEN AfterDrop ELSE [dog EXCEPT !.todo = @ \ {s}]
  BY DEF ZeroForDrop
<1>2. s \in dog.todo /\ s \in ControlSignals
  BY <1>1, FirstType DEF IInv, TodoOK, TypeOK
<1>3. ZeroingOf("snmp")' = ZeroingOf("snmp") /\ Raising' = Raising
  BY <1>1 DEF ZeroingOf, Raising
<1>4. ZeroingOf("dog")' = dog.todo \ {s}
  <2>1. CASE dog.todo = {s}
    <3>1. dog'.pc \notin {"forget", "zero"}
      BY <1>1, <2>1 DEF TypeOK, AfterDrop, IdleDog
    <3> QED
      BY <2>1, <3>1 DEF ZeroingOf
  <2>2. CASE dog.todo # {s}
    <3>1. dog'.pc = "zero" /\ dog'.todo = dog.todo \ {s}
      BY <1>1, <2>2 DEF TypeOK
    <3> QED
      BY <3>1 DEF ZeroingOf
  <2> QED
    BY <2>1, <2>2
<1>5. ZeroingMap["dog"] = dog.todo
  BY <1>1, DogZeroing, ZeroingAt
<1>6. ZeroingMap' = [ZeroingMap EXCEPT !["dog"] = ZeroingMap["dog"] \ {s}]
  BY <1>3, <1>4, <1>5, DogDebt
<1>7. Utc!Arrives(s, 0) \/ UNCHANGED bits
  BY <1>1, PutArrives
<1>8. Utc!Zero("dog", s)
  BY <1>1, <1>2, <1>3, <1>5, <1>6, <1>7 DEF Utc!Zero, ZeroingMap
<1> QED
  BY <1>2, <1>8 DEF Utc!UtcNext

\* The other steps of the watchdog, and time, only move the watchdog between
\* places where it owes nothing.
LEMMA DogMaps ==
  ASSUME TypeOK, IInv,
         \/ Wake \/ CheckTimeout \/ CheckBacklog \/ ResetBacklog \/ CheckJitter
         \/ Drop \/ Forget \/ Tick
  PROVE  UNCHANGED Utc!utcVars
<1>1. UNCHANGED <<opMode, bits, snmp>>
  BY DEF Wake, CheckTimeout, CheckBacklog, ResetBacklog, CheckJitter, Drop, Forget, Tick
<1>2. ZeroingOf("snmp")' = ZeroingOf("snmp") /\ Raising' = Raising
  BY <1>1 DEF ZeroingOf, Raising
<1>3. ZeroingOf("dog")' = ZeroingOf("dog")
  <2>1. CASE Forget
    <3>1. dog.pc = "forget" /\ dog'.pc = "zero" /\ dog'.todo = ControlSignals
      BY <2>1 DEF Forget, TypeOK
    <3> QED
      BY <3>1 DEF ZeroingOf
  <2>2. CASE Wake
    <3>1. dog.pc \notin {"forget", "zero"}
      BY <2>2 DEF Wake
    <3>2. dog'.pc \notin {"forget", "zero"}
      BY <2>2 DEF Wake, TypeOK, IdleDog
    <3> QED
      BY <3>1, <3>2 DEF ZeroingOf
  <2>3. CASE CheckTimeout
    <3>1. dog.pc \notin {"forget", "zero"}
      BY <2>3 DEF CheckTimeout
    <3>2. dog'.pc \notin {"forget", "zero"}
      BY <2>3 DEF CheckTimeout, TypeOK, IdleDog
    <3> QED
      BY <3>1, <3>2 DEF ZeroingOf
  <2>4. CASE CheckBacklog
    <3>1. dog.pc \notin {"forget", "zero"}
      BY <2>4 DEF CheckBacklog
    <3>2. dog'.pc \notin {"forget", "zero"}
      BY <2>4 DEF CheckBacklog, TypeOK, IdleDog
    <3> QED
      BY <3>1, <3>2 DEF ZeroingOf
  <2>5. CASE ResetBacklog
    <3>1. dog.pc \notin {"forget", "zero"}
      BY <2>5 DEF ResetBacklog
    <3>2. dog'.pc \notin {"forget", "zero"}
      BY <2>5 DEF ResetBacklog, TypeOK, IdleDog
    <3> QED
      BY <3>1, <3>2 DEF ZeroingOf
  <2>6. CASE CheckJitter
    <3>1. dog.pc \notin {"forget", "zero"}
      BY <2>6 DEF CheckJitter
    <3>2. dog'.pc \notin {"forget", "zero"}
      <4>1. CASE dog' = IdleDog
        BY <4>1 DEF IdleDog
      <4>2. CASE dog' = [dog EXCEPT !.pc = "drop", !.then = "sleep"]
        BY <4>2 DEF TypeOK
      <4> QED
        BY <2>6, <4>1, <4>2, Zenon DEF CheckJitter
    <3> QED
      BY <3>1, <3>2 DEF ZeroingOf
  <2>7. CASE Drop
    <3>1. dog.pc \notin {"forget", "zero"} /\ dog'.pc \notin {"forget", "zero"}
      BY <2>7 DEF Drop, AfterDrop, TypeOK, IdleDog
    <3> QED
      BY <3>1 DEF ZeroingOf
  <2>8. CASE Tick
    <3>1. \/ dog' = dog
          \/ dog.pc \notin {"forget", "zero"} /\ dog'.pc \notin {"forget", "zero"}
      BY <2>8 DEF Tick, TypeOK
    <3> QED
      BY <3>1 DEF ZeroingOf
  <2> QED
    BY <2>1, <2>2, <2>3, <2>4, <2>5, <2>6, <2>7, <2>8
<1> QED
  BY <1>1, <1>2, <1>3, Stutter
-----------------------------------------------------------------------------
\* Requests that begin, and the parts of a mode SET in between, change nothing
\* the promise speaks of.
LEMMA SnmpMaps ==
  ASSUME TypeOK, SnmpRequest \/ StampMode \/ StartGrace
  PROVE  UNCHANGED Utc!utcVars
<1>1. UNCHANGED <<opMode, bits, dog>>
  BY DEF SnmpRequest, SetMode, SetBitmask, SetSingle, SetTimeout, StampMode, StartGrace
<1>2. ZeroingOf("dog")' = ZeroingOf("dog")
  BY <1>1 DEF ZeroingOf
<1>3. ASSUME snmp.pc \in {"idle", "grace"},
             snmp'.pc \in {"idle", "assign", "raise", "single"}
      PROVE  UNCHANGED Utc!utcVars
  <2>1. /\ ZeroingOf("snmp") = {} /\ ZeroingOf("snmp")' = {}
        /\ Raising = {} /\ Raising' = {}
    BY <1>3 DEF ZeroingOf, Raising
  <2> QED
    BY <1>1, <1>2, <2>1, Stutter
<1>4. CASE SnmpRequest
  <2>1. snmp.pc = "idle"
    BY <1>4 DEF SnmpRequest, SetMode, SetBitmask, SetSingle, SetTimeout
  <2>2. snmp'.pc \in {"idle", "assign", "raise", "single"}
    BY <1>4, <2>1 DEF SnmpRequest, SetMode, SetBitmask, SetSingle, SetTimeout, Begin, IdleSnmp
  <2> QED
    BY <1>3, <2>1, <2>2
<1>5. CASE StartGrace
  BY <1>3, <1>5 DEF StartGrace, IdleSnmp
<1>6. CASE StampMode
  <2>1. snmp.pc = "stamp" /\ snmp.new \in 1..3
    BY <1>6 DEF StampMode, TypeOK
  <2>2. /\ snmp.new < 3 => snmp'.pc = "zero" /\ snmp'.todo = ControlSignals
        /\ ~(snmp.new < 3) => snmp'.pc = "grace"
    BY <1>6 DEF StampMode, TypeOK
  <2>3. ZeroingOf("snmp")' = ZeroingOf("snmp") /\ Raising = {} /\ Raising' = {}
    BY <2>1, <2>2 DEF ZeroingOf, Raising
  <2> QED
    BY <1>1, <1>2, <2>3, Stutter
<1> QED
  BY <1>4, <1>5, <1>6

\* A restart of pci.iobus is one of the promise's, another outage is none.
LEMMA WorldMaps ==
  ASSUME PileUp \/ IOBusLost \/ IOBusBack
  PROVE  [Utc!UtcNext]_(Utc!utcVars)
<1>1. UNCHANGED <<opMode, snmp, dog>>
  BY DEF PileUp, IOBusLost, IOBusBack
<1>2. /\ ZeroingOf("snmp")' = ZeroingOf("snmp") /\ ZeroingOf("dog")' = ZeroingOf("dog")
      /\ Raising' = Raising
  BY <1>1 DEF ZeroingOf, Raising
<1>3. CASE UNCHANGED bits
  BY <1>1, <1>2, <1>3, Stutter
<1>4. CASE bits' = [s \in ControlSignals |-> 0]
  <2>1. ZeroingMap' = ZeroingMap
    BY <1>2 DEF ZeroingMap
  <2>2. Utc!BusRestarts
    BY <1>1, <1>2, <1>4, <2>1 DEF Utc!BusRestarts, ZeroingMap
  <2> QED
    BY <2>2 DEF Utc!UtcNext
<1> QED
  BY <1>3, <1>4 DEF PileUp, IOBusLost, IOBusBack

LEMMA StepMaps ==
  ASSUME TypeOK, IInv, [Next]_vars
  PROVE  [Utc!UtcNext]_(Utc!utcVars)
<1>1. CASE SnmpRequest
  BY <1>1, SnmpMaps
<1>2. CASE SnmpWork
  BY <1>2, AssignMaps, ZeroForModeMaps, BitmaskMaps, SingleMaps, SnmpMaps DEF SnmpWork
<1>3. CASE DogWork
  BY <1>3, FallMaps, ZeroForDropMaps, DogMaps DEF DogWork
<1>4. CASE Tick \/ PileUp \/ IOBusLost \/ IOBusBack
  BY <1>4, DogMaps, WorldMaps
<1>5. CASE UNCHANGED vars
  <2>1. UNCHANGED <<opMode, bits, snmp, dog>>
    BY <1>5 DEF vars
  <2>2. /\ ZeroingOf("snmp")' = ZeroingOf("snmp") /\ ZeroingOf("dog")' = ZeroingOf("dog")
        /\ Raising' = Raising
    BY <2>1 DEF ZeroingOf, Raising
  <2> QED
    BY <2>1, <2>2, Stutter
<1> QED
  BY <1>1, <1>2, <1>3, <1>4, <1>5 DEF Next

\* pci.ug405 keeps UtcControl's promise, whatever the control signals are: a
\* mode below 3 is followed by the zeroing of all of them, whichever thread set
\* it, and only a command that found mode 3 puts one on (setValue,
\* _drop_to_standalone).
THEOREM UG405ImplementsUtcControl == Spec => ImplementsUtcControl
<1>1. TypeOK /\ IInv /\ [Next]_vars => [Utc!UtcNext]_(Utc!utcVars)
  BY StepMaps
<1> QED
  BY <1>1, InitMaps, InitInv, NextInv, PTL DEF Spec, ImplementsUtcControl, Utc!UtcSpec
=============================================================================
