---------------------------- MODULE UG405OpMode ----------------------------
(***************************************************************************)
(* Operation mode and control bits of pci.ug405 (src/ug405/service.py).    *)
(*                                                                         *)
(* The instation takes the outstation from standalone (1) through monitor  *)
(* (2) to UTC control (3) by SNMP SETs, and commands control bits in mode  *)
(* 3.  The SNMP dispatcher is one thread, so SETs run one after another.   *)
(* The watchdog thread puts the mode back to 1 when the instation falls    *)
(* silent, when notifications pile up or when the clock jumps.  The two    *)
(* threads share op_mode, _opmode2_time and the IOBus with no lock, and    *)
(* every IOBus write is a round trip of its own: each read and each write  *)
(* of shared state is a step here.                                         *)
(*                                                                         *)
(* Time is counted in periods of the watchdog (5 s).  What the clock       *)
(* jitter check measures is left open: once _opmode2_time is set, it may   *)
(* or may not find a jump.                                                 *)
(***************************************************************************)
EXTENDS Integers

CONSTANTS
  Bitmask,      \* signals of a bitmask control field, set bit by bit
  Single,       \* signals that are a control field of their own
  Timeouts,     \* values OperationModeTimeout may be given; 0 means never
  MaxTimeout,   \* at least the largest of them
  JitterCheck   \* clock_jitter_check = enabled

ControlSignals == Bitmask \cup Single

ASSUME OpModeAssumption ==
  /\ Bitmask # {} /\ Bitmask \cap Single = {}
  /\ MaxTimeout \in Nat
  /\ Timeouts \subseteq 0..MaxTimeout /\ Timeouts # {}
  /\ JitterCheck \in BOOLEAN

VARIABLES
  opMode,    \* op_mode['value']
  since,     \* periods since op_mode['last_set'], no more than MaxTimeout + 1
  graced,    \* _opmode2_time is not None
  timeout,   \* live['OperationModeTimeout']
  backlog,   \* notify_depth_ref[0] > NOTIFY_QUEUE_LIMIT
  bits,      \* [ControlSignals -> {0, 1}], as the IOBus holds them
  link,      \* the IOBus client is connected
  astray,    \* signals that may not have the value last written to them
  snmp,      \* where the SNMP thread is in the SET it serves
  dog        \* where the watchdog is, and where a drop returns to

vars == <<opMode, since, graced, timeout, backlog, bits, link, astray, snmp, dog>>

SnmpSteps == {"idle", "assign", "stamp", "zero", "grace", "raise", "raise_write",
              "clear", "clear_write", "single", "single_write"}
DogSteps  == {"sleep", "due", "timeout", "backlog", "reset", "jitter",
              "drop", "fall", "forget", "zero"}

\* A thread with nothing to do.  calm is history: no standalone drop has been
\* under way since the present SET began.
IdleSnmp == [pc |-> "idle", new |-> 1, raw |-> {}, todo |-> {}, calm |-> TRUE]
IdleDog  == [pc |-> "sleep", then |-> "sleep", todo |-> {}]

\* dict order: any order, but the same one every time
First(signals) == CHOOSE s \in signals : TRUE

\* IOBusClient.write: the value arrives, or the call returns False.
Put(s, v) ==
  IF link THEN /\ bits' = [bits EXCEPT ![s] = v]
               /\ astray' = astray \ {s}
          ELSE /\ astray' = astray \cup {s}
               /\ UNCHANGED bits

\* The watchdog has put the mode to 1 and not yet zeroed every signal.
Zeroing == dog.pc \in {"forget", "zero"}

Begin(pc) == [IdleSnmp EXCEPT !.pc = pc, !.calm = ~Zeroing]
-----------------------------------------------------------------------------
Init ==
  /\ opMode = 1
  /\ since = MaxTimeout + 1
  /\ graced = FALSE
  /\ timeout \in Timeouts
  /\ backlog = FALSE
  /\ bits = [s \in ControlSignals |-> 0]
  /\ link = TRUE
  /\ astray = {}
  /\ snmp = IdleSnmp
  /\ dog = IdleDog

-----------------------------------------------------------------------------
(* SNMP thread: OpModeInstance.setValue *)

\* Faulty variant of SetMode: any mode may be asked for.
SetAnyMode(new) ==
  /\ snmp.pc = "idle"
  /\ snmp' = [Begin("assign") EXCEPT !.new = new]
  /\ UNCHANGED <<opMode, since, graced, timeout, backlog, bits, link, astray, dog>>

\* The mode is read and the request accepted, one step up at most.
SetMode(new) ==
  /\ snmp.pc = "idle"
  /\ new <= opMode + 1
  /\ snmp' = [Begin("assign") EXCEPT !.new = new]
  /\ UNCHANGED <<opMode, since, graced, timeout, backlog, bits, link, astray, dog>>

\* Faulty variant of AssignMode: the number asked for is taken as a step.
AssignModeStep ==
  /\ snmp.pc = "assign"
  /\ opMode' = opMode + snmp.new - 1
  /\ snmp' = [snmp EXCEPT !.pc = "stamp"]
  /\ UNCHANGED <<since, graced, timeout, backlog, bits, link, astray, dog>>

AssignMode ==
  /\ snmp.pc = "assign"
  /\ opMode' = snmp.new
  /\ snmp' = [snmp EXCEPT !.pc = "stamp"]
  /\ UNCHANGED <<since, graced, timeout, backlog, bits, link, astray, dog>>

\* Faulty variant of StampMode: monitor mode keeps the control bits.
StampModeKeepsBits ==
  /\ snmp.pc = "stamp"
  /\ since' = 0
  /\ snmp' = IF snmp.new = 1
             THEN [snmp EXCEPT !.pc = "zero", !.todo = ControlSignals]
             ELSE [snmp EXCEPT !.pc = "grace"]
  /\ UNCHANGED <<opMode, graced, timeout, backlog, bits, link, astray, dog>>

StampMode ==
  /\ snmp.pc = "stamp"
  /\ since' = 0
  /\ snmp' = IF snmp.new < 3
             THEN [snmp EXCEPT !.pc = "zero", !.todo = ControlSignals]
             ELSE [snmp EXCEPT !.pc = "grace"]
  /\ UNCHANGED <<opMode, graced, timeout, backlog, bits, link, astray, dog>>

\* io.zero_owned(ctrl_sigs)
ZeroForMode ==
  LET s == First(snmp.todo)
  IN /\ snmp.pc = "zero"
     /\ Put(s, 0)
     /\ snmp' = [snmp EXCEPT !.todo = @ \ {s},
                             !.pc = IF snmp.todo = {s} THEN "grace" ELSE "zero"]
     /\ UNCHANGED <<opMode, since, graced, timeout, backlog, link, dog>>

StartGrace ==
  /\ snmp.pc = "grace"
  /\ graced' = (graced \/ snmp.new >= 2)
  /\ snmp' = IdleSnmp
  /\ UNCHANGED <<opMode, since, timeout, backlog, bits, link, astray, dog>>

-----------------------------------------------------------------------------
(* SNMP thread: ControlBitmask.setValue, ControlSingle.setValue, RWInt *)

SetBitmask(raw) ==
  /\ snmp.pc = "idle"
  /\ snmp' = [Begin("raise") EXCEPT !.raw = raw, !.todo = Bitmask]
  /\ UNCHANGED <<opMode, since, graced, timeout, backlog, bits, link, astray, dog>>

\* Faulty variant of NextBit: the pass that clears bits is missing.
NextBitNoClear(pass) ==
  LET rest == snmp.todo \ {First(snmp.todo)}
  IN snmp' = IF rest # {} THEN [snmp EXCEPT !.pc = pass, !.todo = rest] ELSE IdleSnmp

\* The thread goes on to the next bit: of the pass that sets bits, of the pass
\* that clears them, or to the end of the request.
NextBit(pass) ==
  LET rest == snmp.todo \ {First(snmp.todo)}
  IN snmp' = CASE rest # {} -> [snmp EXCEPT !.pc = pass, !.todo = rest]
               [] rest = {} /\ pass = "raise" ->
                    [snmp EXCEPT !.pc = "clear", !.todo = Bitmask]
               [] OTHER -> IdleSnmp

\* Faulty variant of Raise: one pass, which sets and clears bits in dict order.
RaiseAndClear ==
  /\ snmp.pc = "raise"
  /\ IF opMode >= 3 /\ First(snmp.todo) \in snmp.raw
     THEN /\ snmp' = [snmp EXCEPT !.pc = "raise_write"]
          /\ UNCHANGED <<bits, astray>>
     ELSE NextBit("raise") /\ Put(First(snmp.todo), 0)
  /\ UNCHANGED <<opMode, since, graced, timeout, backlog, link, dog>>

\* A bit counts as commanded only if the mode is 3 at the moment it is looked
\* at.  First pass: the new bits.
Raise ==
  /\ snmp.pc = "raise"
  /\ IF opMode >= 3 /\ First(snmp.todo) \in snmp.raw
     THEN snmp' = [snmp EXCEPT !.pc = "raise_write"]
     ELSE NextBit("raise")
  /\ UNCHANGED <<opMode, since, graced, timeout, backlog, bits, link, astray, dog>>

RaiseWrite ==
  /\ snmp.pc = "raise_write"
  /\ Put(First(snmp.todo), 1)
  /\ NextBit("raise")
  /\ UNCHANGED <<opMode, since, graced, timeout, backlog, link, dog>>

\* Faulty variant of Clear: the mode is not looked at again.
ClearTrustsRaise ==
  /\ snmp.pc = "clear"
  /\ IF First(snmp.todo) \in snmp.raw
     THEN NextBit("clear")
     ELSE snmp' = [snmp EXCEPT !.pc = "clear_write"]
  /\ UNCHANGED <<opMode, since, graced, timeout, backlog, bits, link, astray, dog>>

\* Second pass: the bits that are not commanded.
Clear ==
  /\ snmp.pc = "clear"
  /\ IF opMode >= 3 /\ First(snmp.todo) \in snmp.raw
     THEN NextBit("clear")
     ELSE snmp' = [snmp EXCEPT !.pc = "clear_write"]
  /\ UNCHANGED <<opMode, since, graced, timeout, backlog, bits, link, astray, dog>>

ClearWrite ==
  /\ snmp.pc = "clear_write"
  /\ Put(First(snmp.todo), 0)
  /\ NextBit("clear")
  /\ UNCHANGED <<opMode, since, graced, timeout, backlog, link, dog>>

SetSingle(s, v) ==
  /\ snmp.pc = "idle"
  /\ snmp' = [Begin("single") EXCEPT !.todo = {s},
                                     !.raw = IF v = 1 THEN {s} ELSE {}]
  /\ UNCHANGED <<opMode, since, graced, timeout, backlog, bits, link, astray, dog>>

\* The mode is looked at once, before the write.
EvalSingle ==
  /\ snmp.pc = "single"
  /\ snmp' = [snmp EXCEPT !.pc = "single_write", !.raw = IF opMode >= 3 THEN @ ELSE {}]
  /\ UNCHANGED <<opMode, since, graced, timeout, backlog, bits, link, astray, dog>>

SingleWrite ==
  /\ snmp.pc = "single_write"
  /\ Put(First(snmp.todo), IF snmp.raw = {} THEN 0 ELSE 1)
  /\ snmp' = IdleSnmp
  /\ UNCHANGED <<opMode, since, graced, timeout, backlog, link, dog>>

SetTimeout(v) ==
  /\ snmp.pc = "idle"
  /\ timeout' = v
  /\ UNCHANGED <<opMode, since, graced, backlog, bits, link, astray, snmp, dog>>

-----------------------------------------------------------------------------
(* Watchdog thread: _watchdog, _drop_to_standalone *)

\* _last_clock is not kept up to date in standalone; the jitter check's
\* outcome is open anyway.
Wake ==
  /\ dog.pc = "due"
  /\ dog' = IF opMode > 1 THEN [dog EXCEPT !.pc = "timeout"] ELSE IdleDog
  /\ UNCHANGED <<opMode, since, graced, timeout, backlog, bits, link, astray, snmp>>

\* Faulty variant of CheckTimeout: the timeout is only looked at in mode 3.
CheckTimeoutInUTC ==
  /\ dog.pc = "timeout"
  /\ dog' = IF timeout > 0 /\ since > timeout /\ opMode = 3
            THEN [dog EXCEPT !.pc = "drop", !.then = "backlog"]
            ELSE [dog EXCEPT !.pc = "backlog"]
  /\ UNCHANGED <<opMode, since, graced, timeout, backlog, bits, link, astray, snmp>>

CheckTimeout ==
  /\ dog.pc = "timeout"
  /\ dog' = IF timeout > 0 /\ since > timeout
            THEN [dog EXCEPT !.pc = "drop", !.then = "backlog"]
            ELSE [dog EXCEPT !.pc = "backlog"]
  /\ UNCHANGED <<opMode, since, graced, timeout, backlog, bits, link, astray, snmp>>

CheckBacklog ==
  /\ dog.pc = "backlog"
  /\ dog' = IF backlog THEN [dog EXCEPT !.pc = "drop", !.then = "reset"]
                       ELSE [dog EXCEPT !.pc = "jitter"]
  /\ UNCHANGED <<opMode, since, graced, timeout, backlog, bits, link, astray, snmp>>

ResetBacklog ==
  /\ dog.pc = "reset"
  /\ backlog' = FALSE
  /\ dog' = [dog EXCEPT !.pc = "jitter"]
  /\ UNCHANGED <<opMode, since, graced, timeout, bits, link, astray, snmp>>

CheckJitter ==
  /\ dog.pc = "jitter"
  /\ \/ /\ JitterCheck /\ graced
        /\ dog' = [dog EXCEPT !.pc = "drop", !.then = "sleep"]
     \/ dog' = IdleDog
  /\ UNCHANGED <<opMode, since, graced, timeout, backlog, bits, link, astray, snmp>>

AfterDrop ==
  IF dog.then = "sleep" THEN IdleDog
  ELSE [dog EXCEPT !.pc = dog.then, !.then = "sleep", !.todo = {}]

Drop ==
  /\ dog.pc = "drop"
  /\ dog' = IF opMode > 1 THEN [dog EXCEPT !.pc = "fall"] ELSE AfterDrop
  /\ UNCHANGED <<opMode, since, graced, timeout, backlog, bits, link, astray, snmp>>

Fall ==
  /\ dog.pc = "fall"
  /\ opMode' = 1
  /\ dog' = [dog EXCEPT !.pc = "forget"]
  /\ snmp' = IF snmp.pc = "idle" THEN snmp ELSE [snmp EXCEPT !.calm = FALSE]
  /\ UNCHANGED <<since, graced, timeout, backlog, bits, link, astray>>

Forget ==
  /\ dog.pc = "forget"
  /\ graced' = FALSE
  /\ dog' = [dog EXCEPT !.pc = "zero", !.todo = ControlSignals]
  /\ UNCHANGED <<opMode, since, timeout, backlog, bits, link, astray, snmp>>

ZeroForDrop ==
  LET s == First(dog.todo)
  IN /\ dog.pc = "zero"
     /\ Put(s, 0)
     /\ dog' = IF dog.todo = {s} THEN AfterDrop ELSE [dog EXCEPT !.todo = @ \ {s}]
     /\ UNCHANGED <<opMode, since, graced, timeout, backlog, link, snmp>>

-----------------------------------------------------------------------------
(* Time, the RBE sender's queue, and the IOBus *)

\* One watchdog period passes; a sleeping watchdog becomes due.
Tick ==
  /\ since <= MaxTimeout \/ dog.pc = "sleep"
  /\ since' = IF since <= MaxTimeout THEN since + 1 ELSE since
  /\ dog' = IF dog.pc = "sleep" THEN [dog EXCEPT !.pc = "due"] ELSE dog
  /\ UNCHANGED <<opMode, graced, timeout, backlog, bits, link, astray, snmp>>

PileUp ==
  /\ ~backlog
  /\ backlog' = TRUE
  /\ UNCHANGED <<opMode, since, graced, timeout, bits, link, astray, snmp, dog>>

\* The connection is lost; if pci.iobus restarts, its table starts from zero.
IOBusLost ==
  /\ link
  /\ link' = FALSE
  /\ \/ UNCHANGED <<bits, astray>>
     \/ /\ bits' = [s \in ControlSignals |-> 0]
        /\ astray' = astray \cup {s \in ControlSignals : bits[s] = 1}
  /\ UNCHANGED <<opMode, since, graced, timeout, backlog, snmp, dog>>

IOBusBack ==
  /\ ~link
  /\ link' = TRUE
  /\ UNCHANGED <<opMode, since, graced, timeout, backlog, bits, astray, snmp, dog>>

-----------------------------------------------------------------------------
SnmpRequest ==
  \/ \E new \in 1..3 : SetMode(new)
  \/ \E raw \in SUBSET Bitmask : SetBitmask(raw)
  \/ \E s \in Single, v \in {0, 1} : SetSingle(s, v)
  \/ \E v \in Timeouts : SetTimeout(v)

SnmpWork ==
  \/ AssignMode \/ StampMode \/ ZeroForMode \/ StartGrace
  \/ Raise \/ RaiseWrite \/ Clear \/ ClearWrite
  \/ EvalSingle \/ SingleWrite

DogWork ==
  \/ Wake \/ CheckTimeout \/ CheckBacklog \/ ResetBacklog \/ CheckJitter
  \/ Drop \/ Fall \/ Forget \/ ZeroForDrop

Next ==
  \/ SnmpRequest \/ SnmpWork \/ DogWork
  \/ Tick \/ PileUp \/ IOBusLost \/ IOBusBack

\* Threads that have work go on with it, and time passes.  Requests,
\* backlogs and outages need not happen.
Fairness == WF_vars(SnmpWork) /\ WF_vars(DogWork) /\ WF_vars(Tick)

Spec == Init /\ [][Next]_vars /\ Fairness
-----------------------------------------------------------------------------
\* Every variable has its type.
TypeOK ==
  /\ opMode \in 1..3
  /\ since \in 0..(MaxTimeout + 1)
  /\ graced \in BOOLEAN
  /\ timeout \in Timeouts
  /\ backlog \in BOOLEAN
  /\ bits \in [ControlSignals -> {0, 1}]
  /\ link \in BOOLEAN
  /\ astray \subseteq ControlSignals
  /\ snmp \in [pc : SnmpSteps, new : 1..3, raw : SUBSET ControlSignals,
               todo : SUBSET ControlSignals, calm : BOOLEAN]
  /\ dog \in [pc : DogSteps, then : {"sleep", "backlog", "reset"}, todo : SUBSET ControlSignals]

Off(s) == bits[s] = 0 \/ s \in astray

\* Outside mode 3, once neither thread is in the middle of a change, every bit
\* of a bitmask field is off unless a write of it was lost with the IOBus:
\* whatever the watchdog's drop cuts into, the second pass of setValue looks at
\* the mode again (ControlBitmask.setValue, _drop_to_standalone).
BitmaskOff ==
  opMode < 3 /\ snmp.pc = "idle" /\ ~Zeroing => \A s \in Bitmask : Off(s)

\* The same for every control signal, as the comment on _control_signals says:
\* "zeroed on standalone drop".
ControlsOff ==
  opMode < 3 /\ snmp.pc = "idle" /\ ~Zeroing => \A s \in ControlSignals : Off(s)

BitmaskSteps == {"raise", "raise_write", "clear", "clear_write"}

AnyOn == \E s \in Bitmask : bits[s] = 1

\* "Anti-drop": a command that keeps some bit on never leaves the field with
\* all bits off on the way from the old value to the new one, unless a drop
\* was still zeroing when it began or a write was lost.
AntiDrop ==
  [][snmp.pc \in BitmaskSteps /\ snmp' # snmp /\ snmp.calm /\ opMode = 3
     /\ snmp.raw # {} /\ snmp.raw \cap astray = {} /\ AnyOn
     => AnyOn']_vars

\* A command served in mode 3 from end to end leaves the field with exactly the
\* commanded bits, but for those a lost connection left astray.
CommandTaken ==
  [][snmp.pc \in BitmaskSteps /\ snmp'.pc = "idle" /\ snmp.calm /\ opMode = 3
     => \A s \in Bitmask \ astray' : bits'[s] = 1 <=> s \in snmp.raw]_vars

\* The mode goes up one step at a time.  It can go from 1 to 3, which the
\* guard on new > cur + 1 is there to prevent, only if the watchdog drops the
\* mode between the guard and the assignment (OpModeInstance.setValue).
OneStepUp == [][opMode' > opMode + 1 => ~snmp.calm]_vars

\* What UtcControl says of a thread's zeroing and of a command about to put a
\* signal on.
ZeroingOf(t) ==
  IF t = "snmp"
  THEN CASE snmp.pc = "stamp" /\ snmp.new < 3 -> ControlSignals
         [] snmp.pc = "zero" -> snmp.todo
         [] OTHER -> {}
  ELSE CASE dog.pc = "forget" -> ControlSignals
         [] dog.pc = "zero" -> dog.todo
         [] OTHER -> {}

Raising ==
  IF snmp.pc = "raise_write" \/ (snmp.pc = "single_write" /\ snmp.raw # {})
  THEN {First(snmp.todo)} ELSE {}

Utc == INSTANCE UtcControl
         WITH Signals <- ControlSignals, Threads <- {"snmp", "dog"},
              zeroing <- [t \in {"snmp", "dog"} |-> ZeroingOf(t)], raising <- Raising

\* The service keeps UtcControl's promise: a mode below 3 is followed by the
\* zeroing of every control signal, whichever thread set it, and only commands
\* that found mode 3 put a signal on (setValue, _drop_to_standalone).
ImplementsUtcControl == Utc!UtcSpec

\* An instation that has fallen silent loses the outstation: unless it keeps
\* setting the mode, or keeps the timeout switched off, the outstation ends up
\* in standalone for good with its bitmask fields off or astray.
SilenceEndsControl ==
  \/ []<><<AssignMode>>_vars
  \/ []<>(timeout = 0)
  \/ <>[](opMode = 1 /\ (snmp.pc = "idle" /\ ~Zeroing => \A s \in Bitmask : Off(s)))
=============================================================================
