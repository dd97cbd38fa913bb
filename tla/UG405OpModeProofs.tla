------------------------- MODULE UG405OpModeProofs -------------------------
(***************************************************************************)
(* Proofs about UG405OpMode, for every set of control signals, every       *)
(* timeout and both settings of the jitter check.                          *)
(*                                                                         *)
(* BitmaskOff speaks of the moments when both threads are through.  The    *)
(* inductive invariant says what holds in between: a bitmask signal that   *)
(* is on outside mode 3 is owed a 0 by one of the threads (Owed).  For the *)
(* commands (CommandTaken, AntiDrop), Progress says how far the two passes *)
(* of a SET have come.                                                     *)
(***************************************************************************)
EXTENDS UG405OpMode, TLAPS

\* Who is still to look at s, or why nobody has to.
Owed(s) ==
  \/ opMode = 3
  \/ dog.pc = "forget"
  \/ dog.pc = "zero" /\ s \in dog.todo
  \/ snmp.pc = "stamp" /\ snmp.new < 3
  \/ snmp.pc = "zero" /\ s \in snmp.todo
  \/ snmp.pc \in {"raise", "raise_write"}
  \/ snmp.pc \in {"clear", "clear_write"} /\ s \in snmp.todo

BitsAccounted == \A s \in Bitmask : Off(s) \/ Owed(s)

\* The signals a thread goes through are of the kind its step is about.
TodoOK ==
  /\ snmp.pc \in BitmaskSteps => snmp.todo # {} /\ snmp.todo \subseteq Bitmask
  /\ snmp.pc \in {"single", "single_write"} => snmp.todo # {} /\ snmp.todo \subseteq Single
  /\ snmp.pc = "zero" => snmp.todo # {}
  /\ dog.pc = "zero" => dog.todo # {}

\* A request that no drop has crossed is still one step up at most.
AssignOK == snmp.pc = "assign" /\ snmp.calm => snmp.new <= opMode + 1

IInv == BitsAccounted /\ TodoOK /\ AssignOK
-----------------------------------------------------------------------------
SnmpType == [pc : SnmpSteps, new : 1..3, raw : SUBSET ControlSignals,
             todo : SUBSET ControlSignals, calm : BOOLEAN]
DogType  == [pc : DogSteps, then : {"sleep", "backlog", "reset"},
             todo : SUBSET ControlSignals]

(* The signal a thread goes to next is one of those it has left. *)
LEMMA FirstType == ASSUME NEW S, S # {} PROVE First(S) \in S
  BY DEF First

(* A thread at rest has the type of a thread. *)
LEMMA IdleType == IdleSnmp \in SnmpType /\ IdleDog \in DogType
  BY DEF IdleSnmp, IdleDog, SnmpType, DogType, SnmpSteps, DogSteps

(* A write leaves the other signals as they are, and a 0 leaves its own off. *)
LEMMA PutEffect ==
  ASSUME TypeOK, NEW s \in ControlSignals, NEW v \in {0, 1}, Put(s, v)
  PROVE  /\ bits' \in [ControlSignals -> {0, 1}]
         /\ astray' \subseteq ControlSignals
         /\ v = 0 => bits'[s] = 0 \/ s \in astray'
         /\ \A r \in ControlSignals \ {s} : Off(r) => Off(r)'
  BY DEF TypeOK, Put, Off

(* The next bit of a pass is a type-correct place to be in. *)
LEMMA NextBitType ==
  ASSUME TypeOK, TodoOK, NEW pass \in {"raise", "clear"}, snmp.pc \in BitmaskSteps,
         NextBit(pass)
  PROVE  /\ snmp' \in SnmpType
         /\ snmp'.pc \in BitmaskSteps => snmp'.todo # {} /\ snmp'.todo \subseteq Bitmask
         /\ snmp'.pc \notin {"assign", "stamp", "zero", "single", "single_write"}
         /\ pass = "raise" => \/ snmp'.pc = "raise"
                              \/ snmp'.pc = "clear" /\ snmp'.todo = Bitmask
         /\ pass = "clear" => \/ snmp'.pc = "clear" /\ snmp'.todo = snmp.todo \ {First(snmp.todo)}
                              \/ snmp.todo = {First(snmp.todo)}
  <1> DEFINE rest == snmp.todo \ {First(snmp.todo)}
  <1>1. snmp \in SnmpType /\ snmp.todo # {} /\ snmp.todo \subseteq Bitmask
    BY DEF TypeOK, TodoOK, SnmpType
  <1>2. First(snmp.todo) \in snmp.todo
    BY <1>1, FirstType
  <1>3. CASE rest # {}
    <2>1. snmp' = [snmp EXCEPT !.pc = pass, !.todo = rest]
      BY <1>3 DEF NextBit
    <2>2. rest \subseteq Bitmask
      BY <1>1
    <2>3. QED
      BY <1>1, <1>3, <2>1, <2>2 DEF SnmpType, SnmpSteps, BitmaskSteps, ControlSignals
  <1>4. CASE rest = {} /\ pass = "raise"
    <2>1. snmp' = [snmp EXCEPT !.pc = "clear", !.todo = Bitmask]
      BY <1>4 DEF NextBit
    <2>2. QED
      BY <1>1, <1>4, <2>1, OpModeAssumption DEF SnmpType, SnmpSteps, BitmaskSteps, ControlSignals
  <1>5. CASE rest = {} /\ pass = "clear"
    <2>1. snmp' = IdleSnmp
      BY <1>5 DEF NextBit
    <2>2. snmp.todo = {First(snmp.todo)}
      BY <1>2, <1>5
    <2>3. QED
      BY <1>5, <2>1, <2>2, IdleType DEF IdleSnmp, BitmaskSteps
  <1>6. QED
    BY <1>3, <1>4, <1>5
-----------------------------------------------------------------------------
(* Initially both threads rest, and every bit is off. *)
LEMMA InitInv == Init => TypeOK /\ IInv
  <1> SUFFICES ASSUME Init PROVE TypeOK /\ IInv
    OBVIOUS
  <1>1. MaxTimeout + 1 \in 0..(MaxTimeout + 1)
    BY OpModeAssumption
  <1>2. TypeOK
    <2>1. snmp \in SnmpType /\ dog \in DogType
      BY IdleType DEF Init
    <2>2. bits \in [ControlSignals -> {0, 1}]
      BY DEF Init
    <2>3. opMode \in 1..3 /\ since \in 0..(MaxTimeout + 1)
      BY <1>1 DEF Init
    <2>4. graced \in BOOLEAN /\ backlog \in BOOLEAN /\ link \in BOOLEAN
      BY DEF Init
    <2>5. timeout \in Timeouts /\ astray \subseteq ControlSignals
      BY DEF Init
    <2>6. QED
      BY <2>1, <2>2, <2>3, <2>4, <2>5 DEF TypeOK, SnmpType, DogType
  <1>3. BitsAccounted
    BY DEF Init, BitsAccounted, Off, ControlSignals
  <1>4. TodoOK /\ AssignOK
    BY DEF Init, TodoOK, AssignOK, IdleSnmp, IdleDog, BitmaskSteps
  <1>5. QED
    BY <1>2, <1>3, <1>4 DEF IInv

(* A request begins: the SNMP thread leaves its rest and nothing else moves. *)
LEMMA RequestInv ==
  ASSUME TypeOK, IInv, SnmpRequest
  PROVE  TypeOK' /\ IInv'
  <1>1. snmp.pc = "idle" /\ UNCHANGED <<opMode, since, graced, backlog, bits, link, astray, dog>>
    BY DEF SnmpRequest, SetMode, SetBitmask, SetSingle, SetTimeout
  <1>2. timeout' \in Timeouts
    BY DEF SnmpRequest, SetMode, SetBitmask, SetSingle, SetTimeout, TypeOK
  <1>3. snmp' \in SnmpType /\ TodoOK' /\ AssignOK'
    <2>1. ASSUME NEW new \in 1..3, SetMode(new) PROVE snmp' \in SnmpType /\ TodoOK' /\ AssignOK'
      <3>1. snmp' = [pc |-> "assign", new |-> new, raw |-> {}, todo |-> {}, calm |-> ~Zeroing]
        BY <2>1 DEF SetMode, Begin, IdleSnmp
      <3>2. new <= opMode + 1
        BY <2>1 DEF SetMode
      <3>3. QED
        BY <1>1, <3>1, <3>2 DEF SnmpType, SnmpSteps, IInv, TodoOK, AssignOK, BitmaskSteps, Zeroing
    <2>2. ASSUME NEW raw \in SUBSET Bitmask, SetBitmask(raw)
          PROVE  snmp' \in SnmpType /\ TodoOK' /\ AssignOK'
      <3>1. snmp' = [pc |-> "raise", new |-> 1, raw |-> raw, todo |-> Bitmask, calm |-> ~Zeroing]
        BY <2>2 DEF SetBitmask, Begin, IdleSnmp
      <3>2. QED
        BY <1>1, <3>1, OpModeAssumption
           DEF SnmpType, SnmpSteps, IInv, TodoOK, AssignOK, BitmaskSteps, Zeroing, ControlSignals
    <2>3. ASSUME NEW s \in Single, NEW v \in {0, 1}, SetSingle(s, v)
          PROVE  snmp' \in SnmpType /\ TodoOK' /\ AssignOK'
      <3>1. snmp' = [pc |-> "single", new |-> 1, raw |-> IF v = 1 THEN {s} ELSE {},
                     todo |-> {s}, calm |-> ~Zeroing]
        BY <2>3 DEF SetSingle, Begin, IdleSnmp
      <3>2. QED
        BY <1>1, <3>1 DEF SnmpType, SnmpSteps, IInv, TodoOK, AssignOK, BitmaskSteps, Zeroing, ControlSignals
    <2>4. ASSUME NEW v \in Timeouts, SetTimeout(v)
          PROVE  snmp' \in SnmpType /\ TodoOK' /\ AssignOK'
      BY <1>1, <2>4 DEF SetTimeout, TypeOK, SnmpType, IInv, TodoOK, AssignOK
    <2>5. QED
      BY <2>1, <2>2, <2>3, <2>4 DEF SnmpRequest
  <1>4. TypeOK'
    BY <1>1, <1>2, <1>3 DEF TypeOK, SnmpType
  <1>5. BitsAccounted'
    BY <1>1 DEF IInv, BitsAccounted, Off, Owed
  <1>6. QED
    BY <1>3, <1>4, <1>5 DEF IInv

(* OpModeInstance.setValue: what it lowers the mode for, it zeroes. *)
LEMMA SetModeInv ==
  ASSUME TypeOK, IInv, AssignMode \/ StampMode \/ ZeroForMode \/ StartGrace
  PROVE  TypeOK' /\ IInv'
  <1>1. CASE AssignMode
    <2>1. /\ snmp.pc = "assign"
          /\ opMode' = snmp.new
          /\ snmp' = [snmp EXCEPT !.pc = "stamp"]
          /\ UNCHANGED <<since, graced, timeout, backlog, bits, link, astray, dog>>
      BY <1>1 DEF AssignMode
    <2>2. /\ snmp' \in SnmpType
          /\ snmp'.pc = "stamp" /\ snmp'.new = snmp.new /\ snmp.new \in 1..3
      BY <2>1 DEF TypeOK, SnmpType, SnmpSteps
    <2>3. TypeOK'
      BY <2>1, <2>2 DEF TypeOK, SnmpType
    <2>4. BitsAccounted'
      <3>1. opMode' = 3 \/ snmp'.new < 3
        BY <2>1, <2>2
      <3>2. QED
        BY <2>1, <2>2, <3>1 DEF BitsAccounted, Off, Owed
    <2>5. TodoOK' /\ AssignOK'
      BY <2>1, <2>2 DEF IInv, TodoOK, AssignOK, BitmaskSteps
    <2>6. QED
      BY <2>3, <2>4, <2>5 DEF IInv
  <1>2. CASE StampMode
    <2>1. /\ snmp.pc = "stamp" /\ since' = 0
          /\ UNCHANGED <<opMode, graced, timeout, backlog, bits, link, astray, dog>>
      BY <1>2 DEF StampMode
    <2>2. /\ snmp' \in SnmpType
          /\ snmp.new < 3 => snmp'.pc = "zero" /\ snmp'.todo = ControlSignals
          /\ ~(snmp.new < 3) => snmp'.pc = "grace"
      BY <1>2 DEF StampMode, TypeOK, SnmpType, SnmpSteps
    <2>3. TypeOK'
      BY <2>1, <2>2, OpModeAssumption DEF TypeOK, SnmpType
    <2>4. BitsAccounted'
      BY <2>1, <2>2 DEF IInv, BitsAccounted, Off, Owed, ControlSignals
    <2>5. TodoOK' /\ AssignOK'
      BY <2>1, <2>2, OpModeAssumption DEF IInv, TodoOK, AssignOK, BitmaskSteps, ControlSignals
    <2>6. QED
      BY <2>3, <2>4, <2>5 DEF IInv
  <1>3. CASE ZeroForMode
    <2> DEFINE f == First(snmp.todo)
    <2>1. /\ snmp.pc = "zero" /\ Put(f, 0)
          /\ snmp' = [snmp EXCEPT !.todo = @ \ {f},
                                  !.pc = IF snmp.todo = {f} THEN "grace" ELSE "zero"]
          /\ UNCHANGED <<opMode, since, graced, timeout, backlog, link, dog>>
      BY <1>3 DEF ZeroForMode
    <2>2. f \in snmp.todo /\ f \in ControlSignals
      BY <2>1, FirstType DEF IInv, TodoOK, TypeOK
    <2>3. /\ bits' \in [ControlSignals -> {0, 1}] /\ astray' \subseteq ControlSignals
          /\ bits'[f] = 0 \/ f \in astray'
          /\ \A r \in ControlSignals \ {f} : Off(r) => Off(r)'
      BY <2>1, <2>2, PutEffect
    <2>4. /\ snmp' \in SnmpType
          /\ snmp'.todo = snmp.todo \ {f}
          /\ snmp'.pc = IF snmp.todo = {f} THEN "grace" ELSE "zero"
      BY <2>1 DEF TypeOK, SnmpType, SnmpSteps
    <2>5. TypeOK'
      BY <2>1, <2>3, <2>4 DEF TypeOK, SnmpType
    <2>6. BitsAccounted'
      <3>1. SUFFICES ASSUME NEW s \in Bitmask, s # f PROVE (Off(s) \/ Owed(s))'
        BY <2>3 DEF BitsAccounted, Off
      <3>2. Owed(s) => Owed(s)'
        BY <2>1, <2>2, <2>4, <3>1 DEF Owed
      <3>3. QED
        BY <2>3, <3>1, <3>2 DEF IInv, BitsAccounted, ControlSignals
    <2>7. TodoOK' /\ AssignOK'
      <3>1. snmp.todo # {f} => snmp.todo \ {f} # {}
        BY <2>2
      <3>2. QED
        BY <2>1, <2>4, <3>1 DEF IInv, TodoOK, AssignOK, BitmaskSteps
    <2>8. QED
      BY <2>5, <2>6, <2>7 DEF IInv
  <1>4. CASE StartGrace
    <2>1. /\ snmp.pc = "grace" /\ graced' \in BOOLEAN /\ snmp' = IdleSnmp
          /\ UNCHANGED <<opMode, since, timeout, backlog, bits, link, astray, dog>>
      BY <1>4 DEF StartGrace
    <2>2. TypeOK'
      BY <2>1, IdleType DEF TypeOK, SnmpType
    <2>3. BitsAccounted' /\ TodoOK' /\ AssignOK'
      BY <2>1 DEF IInv, BitsAccounted, Off, Owed, TodoOK, AssignOK, BitmaskSteps, IdleSnmp
    <2>4. QED
      BY <2>2, <2>3 DEF IInv
  <1>5. QED
    BY <1>1, <1>2, <1>3, <1>4

(* ControlBitmask.setValue: what the first pass puts on, the second looks at *)
(* again, and it leaves on only what it finds the mode to be 3 for.          *)
LEMMA BitmaskInv ==
  ASSUME TypeOK, IInv, Raise \/ RaiseWrite \/ Clear \/ ClearWrite
  PROVE  TypeOK' /\ IInv'
  <1> DEFINE f == First(snmp.todo)
  <1>1. /\ snmp.pc \in BitmaskSteps
        /\ UNCHANGED <<opMode, since, graced, timeout, backlog, link, dog>>
    BY DEF Raise, RaiseWrite, Clear, ClearWrite, BitmaskSteps
  <1>2. /\ snmp \in SnmpType /\ TodoOK
        /\ snmp.todo # {} /\ snmp.todo \subseteq Bitmask
        /\ f \in snmp.todo /\ f \in ControlSignals
    BY <1>1, FirstType DEF TypeOK, SnmpType, IInv, TodoOK, ControlSignals
  <1>3. ASSUME /\ snmp' \in SnmpType
               /\ bits' \in [ControlSignals -> {0, 1}] /\ astray' \subseteq ControlSignals
               /\ snmp'.pc \in BitmaskSteps => snmp'.todo # {} /\ snmp'.todo \subseteq Bitmask
               /\ snmp'.pc \notin {"assign", "stamp", "zero", "single", "single_write"}
               /\ BitsAccounted'
        PROVE  TypeOK' /\ IInv'
    BY <1>1, <1>3 DEF TypeOK, SnmpType, IInv, TodoOK, AssignOK
  <1>4. CASE Raise
    <2>1. UNCHANGED <<bits, astray>> /\ snmp.pc = "raise"
      BY <1>4 DEF Raise
    <2>2. CASE snmp' = [snmp EXCEPT !.pc = "raise_write"]
      <3>1. snmp' \in SnmpType /\ snmp'.pc = "raise_write" /\ snmp'.todo = snmp.todo
        BY <1>2, <2>2 DEF SnmpType, SnmpSteps
      <3>2. BitsAccounted'
        BY <3>1 DEF BitsAccounted, Owed
      <3>3. QED
        BY <1>2, <1>3, <2>1, <3>1, <3>2 DEF TypeOK
    <2>3. CASE NextBit("raise")
      <3>1. BitsAccounted'
        BY <1>1, <1>2, <2>3, NextBitType DEF BitsAccounted, Owed
      <3>2. QED
        BY <1>1, <1>2, <1>3, <2>1, <2>3, <3>1, NextBitType DEF TypeOK
    <2>4. QED
      BY <1>4, <2>2, <2>3 DEF Raise
  <1>5. CASE RaiseWrite
    <2>1. Put(f, 1) /\ NextBit("raise")
      BY <1>5 DEF RaiseWrite
    <2>2. BitsAccounted'
      BY <1>1, <1>2, <2>1, NextBitType DEF BitsAccounted, Owed
    <2>3. QED
      BY <1>1, <1>2, <1>3, <2>1, <2>2, NextBitType, PutEffect
  <1>6. CASE Clear
    <2>1. UNCHANGED <<bits, astray>> /\ snmp.pc = "clear"
      BY <1>6 DEF Clear
    <2>2. CASE opMode >= 3 /\ NextBit("clear")
      <3>1. opMode' = 3
        BY <1>1, <2>2 DEF TypeOK
      <3>2. BitsAccounted'
        BY <3>1 DEF BitsAccounted, Owed
      <3>3. QED
        BY <1>1, <1>2, <1>3, <2>1, <2>2, <3>2, NextBitType DEF TypeOK
    <2>3. CASE snmp' = [snmp EXCEPT !.pc = "clear_write"]
      <3>1. snmp' \in SnmpType /\ snmp'.pc = "clear_write" /\ snmp'.todo = snmp.todo
        BY <1>2, <2>3 DEF SnmpType, SnmpSteps
      <3>2. BitsAccounted'
        BY <1>1, <2>1, <3>1 DEF IInv, BitsAccounted, Off, Owed
      <3>3. QED
        BY <1>2, <1>3, <2>1, <3>1, <3>2 DEF TypeOK
    <2>4. QED
      BY <1>6, <2>2, <2>3 DEF Clear
  <1>7. CASE ClearWrite
    <2>1. snmp.pc = "clear_write" /\ Put(f, 0) /\ NextBit("clear")
      BY <1>7 DEF ClearWrite
    <2>2. /\ bits' \in [ControlSignals -> {0, 1}] /\ astray' \subseteq ControlSignals
          /\ bits'[f] = 0 \/ f \in astray'
          /\ \A r \in ControlSignals \ {f} : Off(r) => Off(r)'
      BY <1>2, <2>1, PutEffect
    <2>3. BitsAccounted'
      <3>1. SUFFICES ASSUME NEW s \in Bitmask, s # f PROVE (Off(s) \/ Owed(s))'
        BY <2>2 DEF BitsAccounted, Off
      <3>2. \/ snmp'.pc = "clear" /\ snmp'.todo = snmp.todo \ {f}
            \/ snmp.todo = {f}
        BY <1>1, <1>2, <2>1, NextBitType
      <3>3. Owed(s) => Owed(s)'
        BY <1>1, <2>1, <3>1, <3>2 DEF Owed
      <3>4. QED
        BY <2>2, <3>1, <3>3 DEF IInv, BitsAccounted, ControlSignals
    <2>4. QED
      BY <1>1, <1>2, <1>3, <2>1, <2>2, <2>3, NextBitType
  <1>8. QED
    BY <1>4, <1>5, <1>6, <1>7

(* ControlSingle.setValue touches no bit of a bitmask field. *)
LEMMA SingleInv ==
  ASSUME TypeOK, IInv, EvalSingle \/ SingleWrite
  PROVE  TypeOK' /\ IInv'
  <1> DEFINE f == First(snmp.todo)
  <1>1. CASE EvalSingle
    <2>1. /\ snmp.pc = "single"
          /\ UNCHANGED <<opMode, since, graced, timeout, backlog, bits, link, astray, dog>>
      BY <1>1 DEF EvalSingle
    <2>2. /\ snmp' \in SnmpType
          /\ snmp'.pc = "single_write" /\ snmp'.todo = snmp.todo
      BY <1>1 DEF EvalSingle, TypeOK, SnmpType, SnmpSteps
    <2>3. TypeOK'
      BY <2>1, <2>2 DEF TypeOK, SnmpType
    <2>4. IInv'
      BY <2>1, <2>2 DEF IInv, BitsAccounted, Off, Owed, TodoOK, AssignOK, BitmaskSteps
    <2>5. QED
      BY <2>3, <2>4
  <1>2. CASE SingleWrite
    <2>1. /\ snmp.pc = "single_write"
          /\ snmp' = IdleSnmp
          /\ UNCHANGED <<opMode, since, graced, timeout, backlog, link, dog>>
      BY <1>2 DEF SingleWrite
    <2>2. f \in Single
      BY <2>1, FirstType DEF IInv, TodoOK
    <2>3. PICK v \in {0, 1} : Put(f, v)
      BY <1>2 DEF SingleWrite
    <2>4. /\ bits' \in [ControlSignals -> {0, 1}] /\ astray' \subseteq ControlSignals
          /\ \A r \in ControlSignals \ {f} : Off(r) => Off(r)'
      BY <2>2, <2>3, PutEffect DEF ControlSignals
    <2>5. TypeOK'
      BY <2>1, <2>4, IdleType DEF TypeOK, SnmpType
    <2>6. BitsAccounted'
      <3>1. SUFFICES ASSUME NEW s \in Bitmask PROVE (Off(s) \/ Owed(s))'
        BY DEF BitsAccounted
      <3>2. s \in ControlSignals \ {f}
        BY <2>2, OpModeAssumption DEF ControlSignals
      <3>3. Owed(s) => Owed(s)'
        BY <2>1 DEF Owed
      <3>4. QED
        BY <2>4, <3>2, <3>3 DEF IInv, BitsAccounted
    <2>7. TodoOK' /\ AssignOK'
      BY <2>1 DEF IInv, TodoOK, AssignOK, BitmaskSteps, IdleSnmp
    <2>8. QED
      BY <2>5, <2>6, <2>7 DEF IInv
  <1>3. QED
    BY <1>1, <1>2

(* The checks of the watchdog only decide where it goes. *)
LEMMA CheckInv ==
  ASSUME TypeOK, IInv,
         Wake \/ CheckTimeout \/ CheckBacklog \/ ResetBacklog \/ CheckJitter \/ Drop
  PROVE  TypeOK' /\ IInv'
  <1>1. /\ UNCHANGED <<opMode, since, graced, timeout, bits, link, astray, snmp>>
        /\ backlog' \in BOOLEAN
        /\ dog.pc \notin {"forget", "zero"}
    BY DEF Wake, CheckTimeout, CheckBacklog, ResetBacklog, CheckJitter, Drop, TypeOK
  <1>2. dog' \in DogType
    <2>1. dog \in DogType
      BY DEF TypeOK, DogType
    <2>2. AfterDrop \in DogType
      BY <2>1, IdleType DEF AfterDrop, DogType, DogSteps
    <2>3. QED
      BY <2>1, <2>2, IdleType
         DEF Wake, CheckTimeout, CheckBacklog, ResetBacklog, CheckJitter, Drop, DogType, DogSteps
  <1>3. dog'.pc # "zero"
    <2>1. dog \in DogType
      BY DEF TypeOK, DogType
    <2>2. AfterDrop.pc # "zero"
      BY <2>1 DEF AfterDrop, IdleDog, DogType
    <2>3. \/ dog' = IdleDog \/ dog' = AfterDrop
          \/ \E p \in {"timeout", "backlog", "jitter", "fall"} : dog' = [dog EXCEPT !.pc = p]
          \/ \E r \in {"backlog", "reset", "sleep"} :
               dog' = [dog EXCEPT !.pc = "drop", !.then = r]
      <3>1. CASE Wake
        BY <3>1, Zenon DEF Wake
      <3>2. CASE CheckTimeout
        BY <3>2, Zenon DEF CheckTimeout
      <3>3. CASE CheckBacklog
        BY <3>3, Zenon DEF CheckBacklog
      <3>4. CASE ResetBacklog \/ CheckJitter
        BY <3>4, Zenon DEF ResetBacklog, CheckJitter
      <3>5. CASE Drop
        BY <3>5, Zenon DEF Drop
      <3>6. QED
        BY <3>1, <3>2, <3>3, <3>4, <3>5
    <2>4. CASE dog' = IdleDog
      BY <2>4 DEF IdleDog
    <2>5. CASE dog' = AfterDrop
      BY <2>5, <2>2
    <2>6. CASE \E p \in {"timeout", "backlog", "jitter", "fall"} : dog' = [dog EXCEPT !.pc = p]
      <3>1. PICK p \in {"timeout", "backlog", "jitter", "fall"} : dog' = [dog EXCEPT !.pc = p]
        BY <2>6
      <3>2. dog'.pc = p
        BY <3>1, <2>1 DEF DogType
      <3>3. QED
        BY <3>2
    <2>7. CASE \E r \in {"backlog", "reset", "sleep"} :
                 dog' = [dog EXCEPT !.pc = "drop", !.then = r]
      <3>1. PICK r \in {"backlog", "reset", "sleep"} :
                   dog' = [dog EXCEPT !.pc = "drop", !.then = r]
        BY <2>7
      <3>2. dog'.pc = "drop"
        BY <3>1, <2>1 DEF DogType
      <3>3. QED
        BY <3>2
    <2>8. QED
      BY <2>3, <2>4, <2>5, <2>6, <2>7
  <1>4. TypeOK'
    BY <1>1, <1>2 DEF TypeOK, DogType
  <1>5. BitsAccounted'
    BY <1>1 DEF IInv, BitsAccounted, Off, Owed
  <1>6. TodoOK' /\ AssignOK'
    BY <1>1, <1>3 DEF IInv, TodoOK, AssignOK
  <1>7. QED
    BY <1>4, <1>5, <1>6 DEF IInv

(* _drop_to_standalone: the mode goes first, and then every bit is owed a 0. *)
LEMMA DropInv ==
  ASSUME TypeOK, IInv, Fall \/ Forget \/ ZeroForDrop
  PROVE  TypeOK' /\ IInv'
  <1>1. CASE Fall
    <2>1. /\ dog.pc = "fall" /\ opMode' = 1
          /\ UNCHANGED <<since, graced, timeout, backlog, bits, link, astray>>
      BY <1>1 DEF Fall
    <2>2. dog' \in DogType /\ dog'.pc = "forget"
      BY <1>1 DEF Fall, TypeOK, DogType, DogSteps
    <2>3. /\ snmp' \in SnmpType
          /\ snmp'.pc = snmp.pc /\ snmp'.todo = snmp.todo /\ snmp'.new = snmp.new
          /\ snmp.pc = "assign" => ~snmp'.calm
      BY <1>1 DEF Fall, TypeOK, SnmpType
    <2>4. TypeOK'
      BY <2>1, <2>2, <2>3 DEF TypeOK, SnmpType, DogType
    <2>5. BitsAccounted'
      BY <2>2 DEF BitsAccounted, Owed
    <2>6. TodoOK' /\ AssignOK'
      BY <2>2, <2>3 DEF IInv, TodoOK, AssignOK
    <2>7. QED
      BY <2>4, <2>5, <2>6 DEF IInv
  <1>2. CASE Forget
    <2>1. /\ dog.pc = "forget" /\ graced' = FALSE
          /\ UNCHANGED <<opMode, since, timeout, backlog, bits, link, astray, snmp>>
      BY <1>2 DEF Forget
    <2>2. dog' \in DogType /\ dog'.pc = "zero" /\ dog'.todo = ControlSignals
      BY <1>2 DEF Forget, TypeOK, DogType, DogSteps
    <2>3. TypeOK'
      BY <2>1, <2>2 DEF TypeOK, DogType
    <2>4. BitsAccounted'
      BY <2>2 DEF BitsAccounted, Owed, ControlSignals
    <2>5. TodoOK' /\ AssignOK'
      BY <2>1, <2>2, OpModeAssumption DEF IInv, TodoOK, AssignOK, ControlSignals
    <2>6. QED
      BY <2>3, <2>4, <2>5 DEF IInv
  <1>3. CASE ZeroForDrop
    <2> DEFINE f == First(dog.todo)
    <2>1. /\ dog.pc = "zero" /\ Put(f, 0)
          /\ dog' = IF dog.todo = {f} THEN AfterDrop ELSE [dog EXCEPT !.todo = @ \ {f}]
          /\ UNCHANGED <<opMode, since, graced, timeout, backlog, link, snmp>>
      BY <1>3 DEF ZeroForDrop
    <2>2. f \in dog.todo /\ f \in ControlSignals
      BY <2>1, FirstType DEF IInv, TodoOK, TypeOK
    <2>3. /\ bits' \in [ControlSignals -> {0, 1}] /\ astray' \subseteq ControlSignals
          /\ bits'[f] = 0 \/ f \in astray'
          /\ \A r \in ControlSignals \ {f} : Off(r) => Off(r)'
      BY <2>1, <2>2, PutEffect
    <2>4. /\ dog' \in DogType
          /\ dog.todo = {f} => dog'.pc # "zero"
          /\ dog.todo # {f} => dog'.pc = "zero" /\ dog'.todo = dog.todo \ {f}
      BY <2>1, IdleType DEF TypeOK, DogType, DogSteps, AfterDrop, IdleDog
    <2>5. TypeOK'
      BY <2>1, <2>3, <2>4 DEF TypeOK, DogType
    <2>6. BitsAccounted'
      <3>1. SUFFICES ASSUME NEW s \in Bitmask, s # f PROVE (Off(s) \/ Owed(s))'
        BY <2>3 DEF BitsAccounted, Off
      <3>2. Owed(s) => Owed(s)'
        BY <2>1, <2>2, <2>4, <3>1 DEF Owed
      <3>3. QED
        BY <2>3, <3>1, <3>2 DEF IInv, BitsAccounted, ControlSignals
    <2>7. TodoOK' /\ AssignOK'
      <3>1. dog.todo # {f} => dog.todo \ {f} # {}
        BY <2>2
      <3>2. QED
        BY <2>1, <2>4, <3>1 DEF IInv, TodoOK, AssignOK
    <2>8. QED
      BY <2>5, <2>6, <2>7 DEF IInv
  <1>4. QED
    BY <1>1, <1>2, <1>3

(* Time, a backlog and an outage put no bit on. *)
LEMMA WorldInv ==
  ASSUME TypeOK, IInv, Tick \/ PileUp \/ IOBusLost \/ IOBusBack
  PROVE  TypeOK' /\ IInv'
  <1>1. CASE Tick
    <2>1. UNCHANGED <<opMode, graced, timeout, backlog, bits, link, astray, snmp>>
      BY <1>1 DEF Tick
    <2>2. since' \in 0..(MaxTimeout + 1)
      BY <1>1, OpModeAssumption DEF Tick, TypeOK
    <2>3. dog' \in DogType /\ (dog'.pc \in {"forget", "zero"} => dog' = dog)
                           /\ (dog.pc \in {"forget", "zero"} => dog' = dog)
      BY <1>1 DEF Tick, TypeOK, DogType, DogSteps
    <2>4. TypeOK'
      BY <2>1, <2>2, <2>3 DEF TypeOK, DogType
    <2>5. IInv'
      BY <2>1, <2>3 DEF IInv, BitsAccounted, Off, Owed, TodoOK, AssignOK
    <2>6. QED
      BY <2>4, <2>5
  <1>2. CASE PileUp \/ IOBusBack
    BY <1>2 DEF PileUp, IOBusBack, TypeOK, IInv, BitsAccounted, Off, Owed, TodoOK, AssignOK
  <1>3. CASE IOBusLost
    <2>1. UNCHANGED <<opMode, since, graced, timeout, backlog, snmp, dog>> /\ link' = FALSE
      BY <1>3 DEF IOBusLost
    <2>2. /\ bits' \in [ControlSignals -> {0, 1}] /\ astray' \subseteq ControlSignals
          /\ \A s \in Bitmask : Off(s) => Off(s)'
      BY <1>3 DEF IOBusLost, TypeOK, Off, ControlSignals
    <2>3. TypeOK'
      BY <2>1, <2>2 DEF TypeOK
    <2>4. IInv'
      BY <2>1, <2>2 DEF IInv, BitsAccounted, Owed, TodoOK, AssignOK
    <2>5. QED
      BY <2>3, <2>4
  <1>4. QED
    BY <1>1, <1>2, <1>3

(* Every step keeps types and the inductive invariant. *)
LEMMA NextInv == TypeOK /\ IInv /\ [Next]_vars => TypeOK' /\ IInv'
  <1> SUFFICES ASSUME TypeOK, IInv, [Next]_vars PROVE TypeOK' /\ IInv'
    OBVIOUS
  <1>1. CASE SnmpWork
    BY <1>1, SetModeInv, BitmaskInv, SingleInv DEF SnmpWork
  <1>2. CASE DogWork
    BY <1>2, CheckInv, DropInv DEF DogWork
  <1>3. CASE UNCHANGED vars
    BY <1>3 DEF vars, TypeOK, IInv, BitsAccounted, Off, Owed, TodoOK, AssignOK
  <1>4. QED
    BY <1>1, <1>2, <1>3, RequestInv, WorldInv DEF Next
-----------------------------------------------------------------------------
(* A bitmask SET in mode 3 *)

On(s) == bits[s] = 1 \/ s \in astray

SecondPass == snmp.pc \in {"clear", "clear_write"}

(* In mode 3, a command that no drop has crossed has put on the commanded  *)
(* bits the first pass is through with, and put off the others the second  *)
(* is through with.                                                        *)
Progress ==
  /\ dog.pc \notin {"forget", "zero"}
  /\ \A s \in Bitmask :
       /\ s \in snmp.raw /\ (SecondPass \/ s \notin snmp.todo) => On(s)
       /\ s \notin snmp.raw /\ SecondPass /\ s \notin snmp.todo => Off(s)
  /\ snmp.pc = "clear_write" => First(snmp.todo) \notin snmp.raw

CommandOK ==
  snmp.pc \in BitmaskSteps =>
    /\ snmp.raw \subseteq Bitmask
    /\ snmp.calm /\ opMode = 3 => Progress

(* A bit is written: it is as written or astray, and no other bit changes. *)
LEMMA PutBit ==
  ASSUME TypeOK, NEW s \in ControlSignals, NEW v \in {0, 1}, Put(s, v)
  PROVE  /\ bits'[s] = v \/ s \in astray'
         /\ \A r \in ControlSignals \ {s} :
              (On(r)' <=> On(r)) /\ (Off(r)' <=> Off(r)) /\ bits'[r] = bits[r]
  BY DEF TypeOK, Put, On, Off

(* Where the next bit of a pass leaves the rest of the request. *)
LEMMA NextBitKeeps ==
  ASSUME TypeOK, NEW pass \in {"raise", "clear"}, NextBit(pass), snmp'.pc # "idle"
  PROVE  /\ snmp'.raw = snmp.raw /\ snmp'.calm = snmp.calm
         /\ \/ snmp'.pc = pass /\ snmp'.todo = snmp.todo \ {First(snmp.todo)}
            \/ /\ pass = "raise" /\ snmp'.pc = "clear" /\ snmp'.todo = Bitmask
               /\ snmp.todo \ {First(snmp.todo)} = {}
  <1>1. snmp \in SnmpType
    BY DEF TypeOK, SnmpType
  <1>2. QED
    BY <1>1 DEF NextBit, SnmpType, IdleSnmp

(* The steps of the command itself. *)
LEMMA CommandWork ==
  ASSUME TypeOK, IInv, CommandOK, Raise \/ RaiseWrite \/ Clear \/ ClearWrite
  PROVE  CommandOK'
  <1> DEFINE f == First(snmp.todo)
  <1>1. /\ snmp.pc \in BitmaskSteps /\ UNCHANGED <<opMode, dog>>
        /\ snmp \in SnmpType
        /\ f \in snmp.todo /\ snmp.todo \subseteq Bitmask /\ f \in ControlSignals
    BY FirstType DEF Raise, RaiseWrite, Clear, ClearWrite, BitmaskSteps, IInv, TodoOK,
                     TypeOK, SnmpType, ControlSignals
  <1>2. snmp.raw \subseteq Bitmask
    BY <1>1 DEF CommandOK
  <1> SUFFICES ASSUME snmp'.pc \in BitmaskSteps
               PROVE  /\ snmp'.raw \subseteq Bitmask
                      /\ snmp'.calm /\ opMode' = 3 => Progress'
    BY DEF CommandOK
  <1>3. snmp'.pc # "idle"
    BY DEF BitmaskSteps
  <1>4. snmp'.raw = snmp.raw /\ snmp'.calm = snmp.calm
    <2>1. CASE snmp' = [snmp EXCEPT !.pc = "raise_write"] \/ snmp' = [snmp EXCEPT !.pc = "clear_write"]
      BY <1>1, <2>1 DEF SnmpType
    <2>2. CASE NextBit("raise") \/ NextBit("clear")
      BY <1>3, <2>2, NextBitKeeps
    <2>3. QED
      BY <2>1, <2>2 DEF Raise, RaiseWrite, Clear, ClearWrite
  <1> SUFFICES ASSUME snmp.calm, opMode = 3, opMode >= 3 PROVE Progress'
    BY <1>1, <1>2, <1>4
  <1>5. Progress
    BY <1>1 DEF CommandOK
  <1>6. ASSUME NEW s \in Bitmask, UNCHANGED <<bits, astray>>
        PROVE  (On(s) => On(s)') /\ (Off(s) => Off(s)')
    BY <1>6 DEF On, Off
  <1>7. CASE Raise
    <2>1. snmp.pc = "raise" /\ UNCHANGED <<bits, astray>>
      BY <1>7 DEF Raise
    <2>2. CASE snmp' = [snmp EXCEPT !.pc = "raise_write"]
      <3>1. snmp'.pc = "raise_write" /\ snmp'.todo = snmp.todo
        BY <1>1, <2>2 DEF SnmpType
      <3>2. QED
        BY <1>1, <1>4, <1>5, <1>6, <2>1, <3>1 DEF Progress, SecondPass
    <2>3. CASE f \notin snmp.raw /\ NextBit("raise")
      BY <1>1, <1>3, <1>4, <1>5, <1>6, <2>1, <2>3, NextBitKeeps DEF Progress, SecondPass
    <2>4. QED
      BY <1>7, <2>2, <2>3 DEF Raise
  <1>8. CASE RaiseWrite
    <2>1. snmp.pc = "raise_write" /\ Put(f, 1) /\ NextBit("raise")
      BY <1>8 DEF RaiseWrite
    <2>2. (bits'[f] = 1 \/ f \in astray') /\ \A r \in ControlSignals \ {f} : On(r)' <=> On(r)
      BY <1>1, <2>1, PutBit
    <2>3. ASSUME NEW s \in Bitmask, s \in snmp.raw, s \notin snmp.todo \ {f}
          PROVE  On(s)'
      <3>1. s = f \/ s \notin snmp.todo
        BY <2>3
      <3>2. s \notin snmp.todo => On(s)
        BY <1>5, <2>3 DEF Progress
      <3>3. QED
        BY <2>2, <2>3, <3>1, <3>2 DEF ControlSignals, On
    <2>4. \/ snmp'.pc = "raise" /\ snmp'.todo = snmp.todo \ {f}
          \/ snmp'.pc = "clear" /\ snmp'.todo = Bitmask /\ snmp.todo \ {f} = {}
      BY <1>3, <2>1, NextBitKeeps
    <2>5. QED
      BY <1>1, <1>4, <1>5, <2>3, <2>4 DEF Progress, SecondPass
  <1>9. CASE Clear
    <2>1. snmp.pc = "clear" /\ UNCHANGED <<bits, astray>>
      BY <1>9 DEF Clear
    <2>2. CASE f \notin snmp.raw /\ snmp' = [snmp EXCEPT !.pc = "clear_write"]
      <3>1. snmp'.pc = "clear_write" /\ snmp'.todo = snmp.todo
        BY <1>1, <2>2 DEF SnmpType
      <3>2. QED
        BY <1>1, <1>4, <1>5, <1>6, <2>1, <2>2, <3>1 DEF Progress, SecondPass
    <2>3. CASE f \in snmp.raw /\ NextBit("clear")
      <3>1. snmp'.pc = "clear" /\ snmp'.todo = snmp.todo \ {f}
        BY <1>3, <2>3, NextBitKeeps
      <3>2. QED
        BY <1>1, <1>4, <1>5, <1>6, <2>1, <2>3, <3>1 DEF Progress, SecondPass
    <2>4. QED
      BY <1>9, <2>2, <2>3 DEF Clear
  <1>10. CASE ClearWrite
    <2>1. snmp.pc = "clear_write" /\ Put(f, 0) /\ NextBit("clear")
      BY <1>10 DEF ClearWrite
    <2>2. /\ bits'[f] = 0 \/ f \in astray'
          /\ \A r \in ControlSignals \ {f} : (On(r)' <=> On(r)) /\ (Off(r)' <=> Off(r))
      BY <1>1, <2>1, PutBit
    <2>3. f \notin snmp.raw
      BY <1>5, <2>1 DEF Progress
    <2>4. snmp'.pc = "clear" /\ snmp'.todo = snmp.todo \ {f}
      BY <1>3, <2>1, NextBitKeeps
    <2>5. ASSUME NEW s \in Bitmask
          PROVE  /\ s \in snmp.raw => On(s)'
                 /\ s \notin snmp.raw /\ s \notin snmp.todo \ {f} => Off(s)'
      <3>1. CASE s = f
        BY <2>2, <2>3, <3>1 DEF Off
      <3>2. CASE s # f
        <4>1. s \in snmp.raw => On(s)
          BY <1>5, <2>1, <2>5 DEF Progress, SecondPass
        <4>2. s \notin snmp.raw /\ s \notin snmp.todo => Off(s)
          BY <1>5, <2>1, <2>5 DEF Progress, SecondPass
        <4>3. QED
          BY <2>2, <2>5, <3>2, <4>1, <4>2 DEF ControlSignals
      <3>3. QED
        BY <3>1, <3>2
    <2>6. QED
      BY <1>1, <1>4, <1>5, <2>4, <2>5 DEF Progress, SecondPass
  <1>11. QED
    BY <1>7, <1>8, <1>9, <1>10

(* Nobody else puts a bit on or off in mode 3 without a drop. *)
LEMMA CommandOther ==
  ASSUME TypeOK, IInv, CommandOK, UNCHANGED snmp, opMode' = 3 => opMode = 3,
         dog'.pc \in {"forget", "zero"} => dog.pc \in {"forget", "zero"},
         dog.pc \notin {"forget", "zero"} =>
           \A s \in Bitmask : (On(s) => On(s)') /\ (Off(s) => Off(s)')
  PROVE  CommandOK'
  BY DEF CommandOK, Progress, SecondPass, BitmaskSteps

(* The watchdog's checks never end in the middle of a drop. *)
LEMMA ChecksOweNothing ==
  ASSUME TypeOK, Wake \/ CheckTimeout \/ CheckBacklog \/ ResetBacklog \/ CheckJitter \/ Drop
  PROVE  dog'.pc \notin {"forget", "zero"}
  <1>1. CASE Wake
    BY <1>1 DEF Wake, TypeOK, IdleDog
  <1>2. CASE CheckTimeout
    BY <1>2 DEF CheckTimeout, TypeOK
  <1>3. CASE CheckBacklog
    BY <1>3 DEF CheckBacklog, TypeOK
  <1>4. CASE ResetBacklog
    BY <1>4 DEF ResetBacklog, TypeOK
  <1>5. CASE CheckJitter
    <2>1. CASE dog' = IdleDog
      BY <2>1 DEF IdleDog
    <2>2. CASE dog' = [dog EXCEPT !.pc = "drop", !.then = "sleep"]
      BY <2>2 DEF TypeOK
    <2>3. QED
      BY <1>5, <2>1, <2>2, Zenon DEF CheckJitter
  <1>6. CASE Drop
    BY <1>6 DEF Drop, AfterDrop, TypeOK, IdleDog
  <1>7. QED
    BY <1>1, <1>2, <1>3, <1>4, <1>5, <1>6

(* The first pass is not the end of a request. *)
LEMMA RaiseGoesOn ==
  ASSUME TypeOK, IInv, Raise \/ RaiseWrite
  PROVE  snmp'.pc # "idle"
  <1>1. snmp.pc \in BitmaskSteps
    BY DEF Raise, RaiseWrite, BitmaskSteps
  <1>2. CASE NextBit("raise")
    BY <1>1, <1>2, NextBitType DEF IInv
  <1>3. CASE snmp' = [snmp EXCEPT !.pc = "raise_write"]
    BY <1>3 DEF TypeOK
  <1>4. QED
    BY <1>2, <1>3 DEF Raise, RaiseWrite

LEMMA CommandStep ==
  ASSUME TypeOK, IInv, CommandOK, [Next]_vars
  PROVE  CommandOK'
  <1>1. CASE SnmpRequest
    <2>1. snmp.pc = "idle" /\ UNCHANGED <<bits, astray, dog>>
      BY <1>1 DEF SnmpRequest, SetMode, SetBitmask, SetSingle, SetTimeout
    <2>2. CASE snmp'.pc \notin BitmaskSteps
      BY <2>2 DEF CommandOK
    <2>3. CASE snmp'.pc \in BitmaskSteps
      <3>1. PICK raw \in SUBSET Bitmask : SetBitmask(raw)
        BY <1>1, <2>1, <2>3 DEF SnmpRequest, SetMode, SetBitmask, SetSingle, SetTimeout,
                                BitmaskSteps, Begin, IdleSnmp
      <3>2. snmp' = [pc |-> "raise", new |-> 1, raw |-> raw, todo |-> Bitmask, calm |-> ~Zeroing]
        BY <3>1 DEF SetBitmask, Begin, IdleSnmp
      <3>3. QED
        BY <2>1, <3>2 DEF CommandOK, Progress, SecondPass, Zeroing
    <2>4. QED
      BY <2>2, <2>3
  <1>2. CASE Raise \/ RaiseWrite \/ Clear \/ ClearWrite
    BY <1>2, CommandWork
  <1>3. CASE AssignMode \/ StampMode \/ ZeroForMode \/ StartGrace \/ EvalSingle \/ SingleWrite
    <2>1. AssignMode \/ StampMode \/ ZeroForMode => snmp'.pc \in {"stamp", "zero", "grace"}
      BY DEF AssignMode, StampMode, ZeroForMode, TypeOK
    <2>2. EvalSingle => snmp'.pc = "single_write"
      BY DEF EvalSingle, TypeOK
    <2>3. StartGrace \/ SingleWrite => snmp'.pc = "idle"
      BY DEF StartGrace, SingleWrite, IdleSnmp
    <2>4. QED
      BY <1>3, <2>1, <2>2, <2>3 DEF CommandOK, BitmaskSteps
  <1>4. CASE Fall
    <2>1. snmp.pc # "idle" => ~snmp'.calm /\ snmp'.pc = snmp.pc /\ snmp'.raw = snmp.raw
      BY <1>4 DEF Fall, TypeOK
    <2>2. snmp.pc = "idle" => snmp' = snmp
      BY <1>4 DEF Fall
    <2>3. QED
      BY <2>1, <2>2 DEF CommandOK, BitmaskSteps
  <1>5. CASE Wake \/ CheckTimeout \/ CheckBacklog \/ ResetBacklog \/ CheckJitter \/ Drop
    <2>1. UNCHANGED <<opMode, bits, astray, snmp>>
      BY <1>5 DEF Wake, CheckTimeout, CheckBacklog, ResetBacklog, CheckJitter, Drop
    <2>2. dog'.pc \notin {"forget", "zero"}
      BY <1>5, ChecksOweNothing
    <2>3. QED
      BY <2>1, <2>2, CommandOther DEF On, Off
  <1>6. CASE Forget \/ ZeroForDrop
    <2>1. UNCHANGED <<opMode, snmp>> /\ dog.pc \in {"forget", "zero"}
      BY <1>6 DEF Forget, ZeroForDrop
    <2>2. QED
      BY <2>1, CommandOther
  <1>7. CASE Tick \/ PileUp \/ IOBusBack \/ UNCHANGED vars
    <2>1. UNCHANGED <<opMode, bits, astray, snmp>>
      BY <1>7 DEF Tick, PileUp, IOBusBack, vars
    <2>2. dog'.pc \in {"forget", "zero"} => dog.pc \in {"forget", "zero"}
      BY <1>7 DEF Tick, PileUp, IOBusBack, vars, TypeOK
    <2>3. QED
      BY <2>1, <2>2, CommandOther DEF On, Off
  <1>8. CASE IOBusLost
    <2>1. UNCHANGED <<opMode, snmp, dog>>
      BY <1>8 DEF IOBusLost
    <2>2. \A s \in Bitmask : (On(s) => On(s)') /\ (Off(s) => Off(s)')
      BY <1>8 DEF IOBusLost, On, Off, ControlSignals
    <2>3. QED
      BY <2>1, <2>2, CommandOther
  <1>9. QED
    BY <1>1, <1>2, <1>3, <1>4, <1>5, <1>6, <1>7, <1>8 DEF Next, SnmpWork, DogWork

(* Types, the accounting of bits and the progress of a command together. *)
LEMMA CommandInit == Init => TypeOK /\ IInv /\ CommandOK
  <1>1. Init => CommandOK
    BY DEF Init, CommandOK, IdleSnmp, BitmaskSteps
  <1>2. QED
    BY <1>1, InitInv

LEMMA CommandNext ==
  TypeOK /\ IInv /\ CommandOK /\ [Next]_vars => TypeOK' /\ IInv' /\ CommandOK'
  BY NextInv, CommandStep

(* A step of the SNMP thread out of a bitmask SET is one of its own. *)
LEMMA CommandMoves ==
  ASSUME TypeOK, [Next]_vars, snmp.pc \in BitmaskSteps, snmp.calm, opMode = 3,
         snmp' # snmp
  PROVE  Raise \/ RaiseWrite \/ Clear \/ ClearWrite \/ (Fall /\ UNCHANGED bits /\ snmp'.pc = snmp.pc)
  <1>1. ~SnmpRequest
    BY DEF SnmpRequest, SetMode, SetBitmask, SetSingle, SetTimeout, BitmaskSteps
  <1>2. SnmpWork => Raise \/ RaiseWrite \/ Clear \/ ClearWrite
    BY DEF SnmpWork, AssignMode, StampMode, ZeroForMode, StartGrace, EvalSingle, SingleWrite,
           BitmaskSteps
  <1>3. DogWork => Fall
    BY DEF DogWork, Wake, CheckTimeout, CheckBacklog, ResetBacklog, CheckJitter, Drop,
           Forget, ZeroForDrop
  <1>4. Fall => UNCHANGED bits /\ snmp'.pc = snmp.pc
    BY DEF Fall, TypeOK
  <1>5. ~(Tick \/ PileUp \/ IOBusLost \/ IOBusBack \/ UNCHANGED vars)
    BY DEF Tick, PileUp, IOBusLost, IOBusBack, vars
  <1>6. QED
    BY <1>1, <1>2, <1>3, <1>4, <1>5 DEF Next
-----------------------------------------------------------------------------
(* Mode, ages, bits and both threads' places always have their types. *)
THEOREM OpModeTypes == Spec => []TypeOK
  <1>1. QED
    BY InitInv, NextInv, PTL DEF Spec

(* Outside mode 3, with both threads through, no bitmask signal is on unless *)
(* a write to it was lost.                                                   *)
THEOREM BitmaskOffAlways == Spec => []BitmaskOff
  <1>1. TypeOK /\ IInv => BitmaskOff
    <2> SUFFICES ASSUME IInv, opMode < 3, snmp.pc = "idle", ~Zeroing, NEW s \in Bitmask
                 PROVE  Off(s)
      BY DEF BitmaskOff
    <2>1. opMode # 3
      OBVIOUS
    <2>2. ~Owed(s)
      BY <2>1 DEF Owed, Zeroing
    <2>3. QED
      BY <2>2 DEF IInv, BitsAccounted
  <1>2. QED
    BY <1>1, InitInv, NextInv, PTL DEF Spec

(* A step that raises the mode by more than one is an assignment that a drop *)
(* has crossed.                                                              *)
THEOREM OneStepUpAlways == Spec => OneStepUp
  <1>1. ASSUME TypeOK, IInv, [Next]_vars, opMode' > opMode + 1
        PROVE  ~snmp.calm
    <2>1. CASE AssignMode
      <3>1. snmp.pc = "assign" /\ opMode' = snmp.new
        BY <2>1 DEF AssignMode
      <3>2. snmp.calm => snmp.new <= opMode + 1
        BY <1>1, <3>1, Zenon DEF IInv, AssignOK
      <3>3. opMode \in Int /\ snmp.new \in Int
        BY <1>1 DEF TypeOK
      <3>4. ~(snmp.new <= opMode + 1)
        BY <1>1, <3>1, <3>3
      <3>5. QED
        BY <3>2, <3>4
    <2>2. CASE Fall
      BY <1>1, <2>2 DEF Fall, TypeOK
    <2>3. CASE UNCHANGED opMode
      BY <1>1, <2>3 DEF TypeOK
    <2>4. SnmpRequest => UNCHANGED opMode
      BY DEF SnmpRequest, SetMode, SetBitmask, SetSingle, SetTimeout
    <2>5. SnmpWork => AssignMode \/ UNCHANGED opMode
      BY DEF SnmpWork, StampMode, ZeroForMode, StartGrace, Raise, RaiseWrite, Clear,
             ClearWrite, EvalSingle, SingleWrite
    <2>6. DogWork => Fall \/ UNCHANGED opMode
      BY DEF DogWork, Wake, CheckTimeout, CheckBacklog, ResetBacklog, CheckJitter, Drop,
             Forget, ZeroForDrop
    <2>7. Tick \/ PileUp \/ IOBusLost \/ IOBusBack => UNCHANGED opMode
      BY DEF Tick, PileUp, IOBusLost, IOBusBack
    <2>8. UNCHANGED vars => UNCHANGED opMode
      BY DEF vars
    <2>9. QED
      BY <1>1, <2>1, <2>2, <2>3, <2>4, <2>5, <2>6, <2>7, <2>8 DEF Next
  <1>2. TypeOK /\ IInv /\ [Next]_vars => [opMode' > opMode + 1 => ~snmp.calm]_vars
    BY <1>1
  <1>3. QED
    BY <1>2, InitInv, NextInv, PTL DEF Spec, OneStepUp

(* A command served in mode 3 from end to end leaves exactly the commanded   *)
(* bits on, but for those astray (ControlBitmask.setValue).                  *)
THEOREM CommandTakenAlways == Spec => CommandTaken
  <1>1. ASSUME TypeOK, IInv, CommandOK, [Next]_vars, snmp.pc \in BitmaskSteps,
               snmp'.pc = "idle", snmp.calm, opMode = 3, NEW s \in Bitmask \ astray'
        PROVE  bits'[s] = 1 <=> s \in snmp.raw
    <2> DEFINE f == First(snmp.todo)
    <2>1. Clear \/ ClearWrite
      <3>1. snmp' # snmp
        BY <1>1 DEF BitmaskSteps
      <3>2. ~Raise
        BY <1>1, RaiseGoesOn
      <3>3. ~RaiseWrite
        BY <1>1, RaiseGoesOn
      <3>4. QED
        BY <1>1, <3>1, <3>2, <3>3, CommandMoves DEF BitmaskSteps
    <2>2. /\ snmp.todo = {f} /\ NextBit("clear") /\ SecondPass /\ Progress
          /\ f \in Bitmask /\ f \in ControlSignals
      <3>1. NextBit("clear") /\ SecondPass
        BY <1>1, <2>1 DEF Clear, ClearWrite, SecondPass, TypeOK
      <3>2. snmp.todo = {f}
        BY <1>1, <3>1, NextBitType DEF IInv
      <3>3. f \in Bitmask
        BY <1>1, <3>2 DEF IInv, TodoOK
      <3>4. QED
        BY <1>1, <3>1, <3>2, <3>3 DEF CommandOK, ControlSignals
    <2>3. CASE Clear
      <3>1. f \in snmp.raw /\ UNCHANGED <<bits, astray>>
        BY <1>1, <2>3 DEF Clear, TypeOK
      <3>2. QED
        BY <1>1, <2>2, <3>1 DEF Progress, On, Off
    <2>4. CASE ClearWrite
      <3>1. f \notin snmp.raw /\ Put(f, 0)
        BY <2>2, <2>4 DEF ClearWrite, Progress
      <3>2. /\ bits'[f] = 0 \/ f \in astray'
            /\ \A r \in ControlSignals \ {f} : (On(r)' <=> On(r)) /\ (Off(r)' <=> Off(r))
        BY <1>1, <2>2, <3>1, PutBit
      <3>3. CASE s = f
        BY <1>1, <3>1, <3>2, <3>3 DEF Off
      <3>4. CASE s # f
        <4>1. (s \in snmp.raw => On(s)) /\ (s \notin snmp.raw => Off(s))
          BY <1>1, <2>2, <3>4 DEF Progress
        <4>2. (s \in snmp.raw => On(s)') /\ (s \notin snmp.raw => Off(s)')
          BY <1>1, <3>2, <3>4, <4>1 DEF ControlSignals
        <4>3. QED
          BY <1>1, <4>2 DEF On, Off
      <3>5. QED
        BY <3>3, <3>4
    <2>5. QED
      BY <2>1, <2>3, <2>4
  <1>2. TypeOK /\ IInv /\ CommandOK /\ [Next]_vars =>
          [snmp.pc \in BitmaskSteps /\ snmp'.pc = "idle" /\ snmp.calm /\ opMode = 3
             => \A s \in Bitmask \ astray' : bits'[s] = 1 <=> s \in snmp.raw]_vars
    BY <1>1
  <1>3. QED
    BY <1>2, CommandInit, CommandNext, PTL DEF Spec, CommandTaken

(* "Anti-drop": in mode 3 a command that keeps some bit on never has all the  *)
(* bits off on the way, unless a drop or a lost write crosses it.             *)
THEOREM AntiDropAlways == Spec => AntiDrop
  <1>1. ASSUME TypeOK, IInv, CommandOK, [Next]_vars, snmp.pc \in BitmaskSteps, snmp' # snmp,
               snmp.calm, opMode = 3, snmp.raw # {}, snmp.raw \cap astray = {}, AnyOn
        PROVE  AnyOn'
    <2> DEFINE f == First(snmp.todo)
    <2>1. f \in Bitmask /\ f \in ControlSignals /\ Progress /\ snmp.raw \subseteq Bitmask
      <3>1. f \in snmp.todo /\ snmp.todo \subseteq Bitmask
        BY <1>1, FirstType DEF IInv, TodoOK
      <3>2. QED
        BY <1>1, <3>1 DEF CommandOK, ControlSignals
    <2>2. CASE UNCHANGED bits
      BY <1>1, <2>2 DEF AnyOn
    <2>3. CASE RaiseWrite
      <3>1. bits' = bits \/ bits' = [bits EXCEPT ![f] = 1]
        BY <2>3 DEF RaiseWrite, Put
      <3>2. QED
        BY <1>1, <2>1, <3>1 DEF AnyOn, TypeOK, ControlSignals
    <2>4. CASE ClearWrite
      <3>1. f \notin snmp.raw /\ Put(f, 0) /\ SecondPass
        BY <2>1, <2>4 DEF ClearWrite, Progress, SecondPass
      <3>2. PICK r \in snmp.raw : bits[r] = 1
        BY <1>1, <2>1, <3>1 DEF Progress, On
      <3>3. bits'[r] = 1
        BY <1>1, <2>1, <3>1, <3>2, PutBit DEF ControlSignals
      <3>4. QED
        BY <2>1, <3>3 DEF AnyOn
    <2>5. QED
      BY <1>1, <2>2, <2>3, <2>4, CommandMoves DEF Raise, Clear
  <1>2. TypeOK /\ IInv /\ CommandOK /\ [Next]_vars =>
          [snmp.pc \in BitmaskSteps /\ snmp' # snmp /\ snmp.calm /\ opMode = 3
             /\ snmp.raw # {} /\ snmp.raw \cap astray = {} /\ AnyOn => AnyOn']_vars
    BY <1>1
  <1>3. QED
    BY <1>2, CommandInit, CommandNext, PTL DEF Spec, AntiDrop
=============================================================================
