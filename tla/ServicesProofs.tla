--------------------------- MODULE ServicesProofs ---------------------------
(***************************************************************************)
(* Proofs about the components of Services, and about Services: it behaves *)
(* like each of them alone.                                                *)
(*                                                                         *)
(* MovaKernel, for any latch, lateness and crash limit.                    *)
(*                                                                         *)
(* Detectors, for any number of units.  DetectorsInv says, of an update    *)
(* that runs alone and with the bus there, that its thread is the only one *)
(* at work and what it has read so far still holds; and of the zones, that *)
(* one which is on has been reported by a unit that is not in fault, or    *)
(* its last write was lost.                                                *)
(*                                                                         *)
(* ConfigFiles, for any number of command threads.  SettingsFollow and     *)
(* EditsKept speak of the moments when nothing is under way.  FilesInv     *)
(* says where the last edit is in between: in the file, in what a writer   *)
(* is about to write, or in what a reload has read; and that writers who   *)
(* meet know it (OverlapKnown).                                            *)
(*                                                                         *)
(* ModeChannel, for any length of queue and socket: it implements          *)
(* ModeView, step by step.                                                 *)
(*                                                                         *)
(* Dimming, LiveFeed and RpdbDriver, for any values of their constants:    *)
(* types; and SentTaken, which says that what the RPDB driver has noted as *)
(* sent is in force in the controller.                                     *)
(***************************************************************************)
EXTENDS Services, SequenceTheorems, TLAPS

-----------------------------------------------------------------------------
(* MovaKernel: types *)

\* The loop ends when the limit is reached, so that it is never passed.
BelowLimit == running => crashes < CrashLimit

KernelTypeInv == KernelTypeOK /\ BelowLimit

LEMMA ReadTypes ==
  ASSUME KernelTypeOK, NEW age \in Ages,
         \/ ReadInputs(age)
         \/ /\ until' = Latched(FALSE, age) /\ sinceEdge' = Age(sinceEdge, age)
            /\ UNCHANGED <<prev, reported>>
  PROVE  /\ until' \in 0..Latch /\ sinceEdge' \in 0..Latch
         /\ prev' \in {0, 1} /\ reported' \in {0, 1}
<1>1. age \in Nat /\ Latch \in Nat /\ until \in 0..Latch /\ sinceEdge \in 0..Latch
  BY KernelAssumption DEF Ages, KernelTypeOK
<1>2. Age(sinceEdge, age) \in 0..Latch
  BY <1>1 DEF Age
<1>3. Latched(TRUE, age) \in 0..Latch /\ Latched(FALSE, age) \in 0..Latch
  BY <1>1 DEF Latched
<1>4. Raw \in {0, 1} /\ prev \in {0, 1} /\ reported \in {0, 1}
  BY DEF KernelTypeOK, Raw
<1>5. CASE ReadInputs(age)
  <2> DEFINE edge == Raw = 1 /\ prev = 0
  <2>1. until' = Latched(edge, age) /\ prev' = Raw /\ reported' \in {0, 1}
    BY <1>5 DEF ReadInputs
  <2>2. sinceEdge' \in 0..Latch
    BY <1>1, <1>2, <1>5 DEF ReadInputs
  <2>3. until' \in 0..Latch
    <3>1. CASE edge
      BY <1>3, <2>1, <3>1 DEF Latched
    <3>2. CASE ~edge
      BY <1>3, <2>1, <3>2 DEF Latched
    <3> QED
      BY <3>1, <3>2
  <2> QED
    BY <1>4, <2>1, <2>2, <2>3
<1>6. CASE until' = Latched(FALSE, age) /\ sinceEdge' = Age(sinceEdge, age) /\ UNCHANGED <<prev, reported>>
  BY <1>2, <1>3, <1>4, <1>6
<1> QED
  BY <1>5, <1>6

\* The numbers and the status ...
NumbersType ==
  /\ {detector, demand, prev, reported, force} \subseteq {0, 1} /\ prevOut \in {0, 1, NoOutput}
  /\ until \in 0..Latch /\ sinceEdge \in 0..Latch
  /\ late \in 0..MaxLate /\ crashes \in 0..CrashLimit /\ status \in Statuses

\* ... and the Booleans.
FlagsType ==
  /\ busUp \in BOOLEAN /\ lost \in BOOLEAN /\ running \in BOOLEAN /\ loading \in BOOLEAN
  /\ starting \in BOOLEAN /\ pressed \in BOOLEAN /\ crossed \in BOOLEAN

LEMMA KernelTypeParts == KernelTypeOK <=> NumbersType /\ FlagsType
  BY DEF KernelTypeOK, NumbersType, FlagsType, Statuses

LEMMA BeginTypes ==
  ASSUME NumbersType, NEW age \in Ages, Begin(age)
  PROVE  running /\ late' \in 0..MaxLate
  BY KernelAssumption DEF NumbersType, Ages, Begin

LEMMA KernelTypeStep ==
  ASSUME KernelTypeInv, [KernelNext]_kernelVars
  PROVE  KernelTypeInv'
<1>1. NumbersType /\ FlagsType /\ KernelTypeOK
  BY KernelTypeParts DEF KernelTypeInv
<1>2. NumbersType' /\ FlagsType' => KernelTypeOK'
  BY DEF KernelTypeOK, NumbersType, FlagsType, Statuses
<1>3. ASSUME NEW age \in Ages, Tick(age)
      PROVE  NumbersType' /\ FlagsType' /\ BelowLimit'
  <2>1. until' \in 0..Latch /\ sinceEdge' \in 0..Latch /\ prev' \in {0, 1} /\ reported' \in {0, 1}
    BY <1>1, <1>3, ReadTypes DEF Tick
  <2>2. force' \in {0, 1} /\ prevOut' \in {0, 1, NoOutput} /\ demand' \in {0, 1}
    BY <1>1, <1>3 DEF Tick, WriteOutputs, NumbersType
  <2>3. crashes' \in 0..CrashLimit /\ crashes' < CrashLimit
    BY <1>3, KernelAssumption DEF Tick
  <2>4. status' \in Statuses
    BY <1>1, <1>3 DEF Tick, NumbersType, Statuses
  <2>5. lost' \in BOOLEAN /\ late' \in 0..MaxLate
    BY <1>1, <1>3, BeginTypes DEF Tick, WriteOutputs, FlagsType
  <2>6. NumbersType'
    BY <1>1, <1>3, <2>1, <2>2, <2>3, <2>4, <2>5 DEF Tick, NumbersType
  <2>7. FlagsType'
    BY <1>1, <1>3, <2>5 DEF Tick, FlagsType
  <2> QED
    BY <2>3, <2>6, <2>7 DEF BelowLimit
<1>4. ASSUME NEW age \in Ages, TickRaises(age)
      PROVE  NumbersType' /\ FlagsType' /\ BelowLimit'
  <2>1. until' \in 0..Latch /\ sinceEdge' \in 0..Latch /\ prev' \in {0, 1} /\ reported' \in {0, 1}
    BY <1>1, <1>4, ReadTypes DEF TickRaises
  <2>2. running /\ crashes' = crashes + 1 /\ running' = (crashes' < CrashLimit) /\ late' \in 0..MaxLate
    BY <1>1, <1>4, BeginTypes DEF TickRaises, GoesOn
  <2>3. crashes \in Nat /\ crashes < CrashLimit
    BY <1>1, <2>2, KernelAssumption DEF NumbersType, KernelTypeInv, BelowLimit
  <2>4. crashes' \in 0..CrashLimit
    BY <2>2, <2>3, KernelAssumption
  <2>5. status' \in Statuses
    BY <1>1, <1>4 DEF TickRaises, NumbersType, Statuses
  <2>6. NumbersType'
    BY <1>1, <1>4, <2>1, <2>2, <2>4, <2>5 DEF TickRaises, kernelBus, outputs, NumbersType
  <2>7. running' \in BOOLEAN
    BY <2>2
  <2>8. FlagsType'
    BY <1>1, <1>4, <2>7 DEF TickRaises, kernelBus, outputs, FlagsType
  <2> QED
    BY <2>2, <2>6, <2>8 DEF BelowLimit
<1>5. CASE Restart
  <2>1. NumbersType'
    BY <1>1, <1>5, KernelAssumption DEF Restart, NumbersType, Statuses, kernelBus
  <2>2. FlagsType'
    BY <1>1, <1>5 DEF Restart, FlagsType, kernelBus
  <2>3. BelowLimit'
    BY <1>5, KernelAssumption DEF Restart, BelowLimit
  <2> QED
    BY <1>2, <2>1, <2>2, <2>3 DEF KernelTypeInv
<1>6. CASE Load \/ Loaded \/ Press \/ PressSets \/ SetDetector
  <2>1. NumbersType'
    BY <1>1, <1>6 DEF Load, Loaded, Press, PressSets, SetDetector, NumbersType, Statuses,
                      kernelBus, latch, outputs, loop, dataset
  <2>2. FlagsType'
    BY <1>1, <1>6 DEF Load, Loaded, Press, PressSets, SetDetector, FlagsType,
                      kernelBus, latch, outputs, loop, dataset
  <2>3. UNCHANGED <<running, crashes>>
    BY <1>6 DEF Load, Loaded, Press, PressSets, SetDetector, loop
  <2> QED
    BY <1>2, <2>1, <2>2, <2>3 DEF KernelTypeInv, BelowLimit
<1>7. CASE Vehicle \/ Reach \/ BusRestarts
  <2>1. NumbersType'
    BY <1>1, <1>7 DEF Vehicle, Reach, BusRestarts, NumbersType, latch, outputs, loop, dataset
  <2>2. FlagsType'
    BY <1>1, <1>7 DEF Vehicle, Reach, BusRestarts, FlagsType, latch, outputs, loop, dataset
  <2>3. UNCHANGED <<running, crashes>>
    BY <1>7 DEF Vehicle, Reach, BusRestarts, loop
  <2> QED
    BY <1>2, <2>1, <2>2, <2>3 DEF KernelTypeInv, BelowLimit
<1>8. CASE UNCHANGED kernelVars
  <2>1. NumbersType'
    BY <1>1, <1>8 DEF kernelVars, kernelBus, latch, outputs, loop, dataset, NumbersType
  <2>2. FlagsType'
    BY <1>1, <1>8 DEF kernelVars, kernelBus, latch, outputs, loop, dataset, FlagsType
  <2>3. UNCHANGED <<running, crashes>>
    BY <1>8 DEF kernelVars, loop
  <2> QED
    BY <1>2, <2>1, <2>2, <2>3 DEF KernelTypeInv, BelowLimit
<1> QED
  BY <1>2, <1>3, <1>4, <1>5, <1>6, <1>7, <1>8 DEF KernelNext, KernelTypeInv

LEMMA KernelTypeInit == KernelInit => KernelTypeInv
<1> SUFFICES ASSUME KernelInit PROVE KernelTypeInv
  OBVIOUS
<1>1. NumbersType
  BY KernelAssumption DEF KernelInit, NumbersType, Statuses
<1>2. FlagsType
  BY DEF KernelInit, FlagsType
<1>3. BelowLimit
  BY KernelAssumption DEF KernelInit, BelowLimit
<1> QED
  BY <1>1, <1>2, <1>3, KernelTypeParts DEF KernelTypeInv

\* Buffers, latch and status keep their types, and the crashes in a row never
\* pass the limit (_PciMovaStream._loop).
THEOREM KernelTypes == KernelSpec => []KernelTypeOK
<1>1. KernelTypeInv => KernelTypeOK
  BY DEF KernelTypeInv
<1>2. KernelTypeInv /\ [KernelNext]_kernelVars => KernelTypeInv'
  BY KernelTypeStep
<1> QED
  BY <1>1, <1>2, KernelTypeInit, PTL DEF KernelSpec

-----------------------------------------------------------------------------
(* MovaKernel: the outputs *)

\* The outputs on the bus are those the kernel believes it has written, unless
\* a write was lost or the bus restarted (write_outputs).  This is inductive.
THEOREM OutputsToldAlways == KernelSpec => []OutputsTold
<1>1. KernelInit => OutputsTold
  BY DEF KernelInit, OutputsTold
<1>2. OutputsTold /\ [KernelNext]_kernelVars => OutputsTold'
  <2> SUFFICES ASSUME OutputsTold, [KernelNext]_kernelVars
               PROVE  OutputsTold'
    OBVIOUS
  <2>1. ASSUME NEW age \in Ages, Tick(age)
        PROVE  OutputsTold'
    <3>1. WriteOutputs
      BY <2>1 DEF Tick
    <3>2. CASE Unwritten /\ busUp
      BY <3>1, <3>2 DEF WriteOutputs, OutputsTold
    <3>3. CASE Unwritten /\ ~busUp
      BY <3>1, <3>3 DEF WriteOutputs, OutputsTold
    <3>4. CASE ~Unwritten
      BY <3>1, <3>4 DEF WriteOutputs, Unwritten, OutputsTold
    <3> QED
      BY <3>2, <3>3, <3>4
  <2>2. ASSUME NEW age \in Ages, TickRaises(age)
        PROVE  OutputsTold'
    BY <2>2 DEF TickRaises, kernelBus, outputs, OutputsTold
  <2>3. CASE Restart
    BY <2>3 DEF Restart, OutputsTold
  <2>4. CASE BusRestarts
    BY <2>4 DEF BusRestarts, OutputsTold
  <2>5. CASE Load \/ Loaded \/ Press \/ PressSets \/ SetDetector \/ Vehicle \/ Reach
    BY <2>5 DEF Load, Loaded, Press, PressSets, SetDetector, Vehicle, Reach,
                kernelBus, outputs, OutputsTold
  <2>6. CASE UNCHANGED kernelVars
    BY <2>6 DEF kernelVars, kernelBus, outputs, OutputsTold
  <2> QED
    BY <2>1, <2>2, <2>3, <2>4, <2>5, <2>6 DEF KernelNext
<1> QED
  BY <1>1, <1>2, PTL DEF KernelSpec

-----------------------------------------------------------------------------
(* MovaKernel: the Start button *)

\* A SET_IO 19 1 that is under way stands for a press that still counts, or one
\* that a LOAD has crossed.
PressCounts == starting => pressed \/ crossed

PressInv == StartedByHand /\ PressCounts

LEMMA PressInit == KernelInit => PressInv
  BY DEF KernelInit, PressInv, StartedByHand, PressCounts

LEMMA PressStep == PressInv /\ [KernelNext]_kernelVars => PressInv'
<1> SUFFICES ASSUME PressInv, [KernelNext]_kernelVars
             PROVE  PressInv'
  OBVIOUS
<1> USE DEF PressInv, StartedByHand, PressCounts
<1>1. ASSUME NEW age \in Ages, Tick(age)
      PROVE  PressInv'
  \* A tick starts only what is on its way already.
  <2>1. status' \in {"init", "started"} => status \in {"init", "started"}
    BY <1>1 DEF Tick
  <2> QED
    BY <1>1, <2>1 DEF Tick
<1>2. ASSUME NEW age \in Ages, TickRaises(age)
      PROVE  PressInv'
  <2>1. status' \in {status, "failed_restart"}
    BY <1>2 DEF TickRaises
  <2> QED
    BY <1>2, <2>1 DEF TickRaises
<1>3. CASE Restart
  BY <1>3 DEF Restart
<1>4. CASE Load
  BY <1>4 DEF Load
<1>5. CASE Loaded
  BY <1>5 DEF Loaded
<1>6. CASE Press
  BY <1>6 DEF Press
<1>7. CASE PressSets
  BY <1>7 DEF PressSets
<1>8. CASE SetDetector \/ Vehicle \/ Reach \/ BusRestarts
  BY <1>8 DEF SetDetector, Vehicle, Reach, BusRestarts, dataset
<1>9. CASE UNCHANGED kernelVars
  BY <1>9 DEF kernelVars, dataset
<1> QED
  BY <1>1, <1>2, <1>3, <1>4, <1>5, <1>6, <1>7, <1>8, <1>9 DEF KernelNext

\* A loaded dataset runs only once Start was pressed for it, unless the button
\* for the last one was still at work (_PciMovaStream.start, _dispatch).
THEOREM StartedByHandAlways == KernelSpec => []StartedByHand
<1>1. PressInv => StartedByHand
  BY DEF PressInv
<1> QED
  BY <1>1, PressInit, PressStep, PTL DEF KernelSpec

-----------------------------------------------------------------------------
(* MovaKernel: the latch *)

\* What is left of the latch and the time since the edge make up its length.
LatchInv ==
  /\ until \in Nat /\ sinceEdge \in Nat
  /\ until + sinceEdge >= Latch

LEMMA Aged ==
  ASSUME LatchInv, NEW age \in Ages,
         until' = Latched(FALSE, age), sinceEdge' = Age(sinceEdge, age)
  PROVE  LatchInv'
<1>1. age \in Nat
  BY DEF Ages
<1>2. CASE until > age
  BY <1>1, <1>2, KernelAssumption DEF LatchInv, Latched, Age
<1>3. CASE ~(until > age)
  BY <1>1, <1>3, KernelAssumption DEF LatchInv, Latched, Age
<1> QED
  BY <1>2, <1>3

LEMMA InputsRead ==
  ASSUME LatchInv, NEW age \in Ages, ReadInputs(age)
  PROVE  LatchInv'
<1> DEFINE edge == Raw = 1 /\ prev = 0
<1>1. CASE edge
  <2>1. until' = Latch /\ sinceEdge' = 0
    BY <1>1 DEF ReadInputs, Latched
  <2> QED
    BY <2>1, KernelAssumption DEF LatchInv
<1>2. CASE ~edge
  <2>1. until' = Latched(FALSE, age) /\ sinceEdge' = Age(sinceEdge, age)
    BY <1>2 DEF ReadInputs, Latched
  <2> QED
    BY <2>1, Aged
<1> QED
  BY <1>1, <1>2

LEMMA LatchStep ==
  ASSUME LatchInv, [KernelNext]_kernelVars
  PROVE  LatchInv'
<1>1. ASSUME NEW age \in Ages, Tick(age)
      PROVE  LatchInv'
  BY <1>1, InputsRead DEF Tick
<1>2. ASSUME NEW age \in Ages, TickRaises(age)
      PROVE  LatchInv'
  BY <1>2, InputsRead, Aged DEF TickRaises
<1>3. CASE Restart
  BY <1>3, KernelAssumption DEF Restart, LatchInv
<1>4. CASE UNCHANGED <<until, sinceEdge>>
  BY <1>4 DEF LatchInv
<1>5. Load \/ Loaded \/ Press \/ PressSets \/ SetDetector \/ Vehicle \/ Reach \/ BusRestarts
      \/ UNCHANGED kernelVars => UNCHANGED <<until, sinceEdge>>
  BY DEF Load, Loaded, Press, PressSets, SetDetector, Vehicle, Reach, BusRestarts,
         kernelVars, latch
<1> QED
  BY <1>1, <1>2, <1>3, <1>4, <1>5 DEF KernelNext

LEMMA NothingLeft ==
  ASSUME NEW left \in Nat, NEW since \in Nat, left + since >= Latch, ~(left > 0)
  PROVE  since >= Latch
  BY KernelAssumption

\* A vehicle that one tick has seen stays in the kernel's buffers for 150 ms,
\* also when the bus goes away, ticks are late or raise (_DetLatch.apply).
THEOREM PulseHeldAlways == KernelSpec => PulseHeld
<1>1. KernelInit => LatchInv
  BY KernelAssumption DEF KernelInit, LatchInv
<1>2. LatchInv /\ [KernelNext]_kernelVars => LatchInv'
  BY LatchStep
<1>3. ASSUME LatchInv, [KernelNext]_kernelVars, NEW age \in Ages, Tick(age), reported = 1, reported' = 0
      PROVE  sinceEdge' >= Latch
  <2>1. LatchInv'
    BY <1>3, LatchStep
  <2>2. until' \in Nat /\ sinceEdge' \in Nat /\ until' + sinceEdge' >= Latch
    BY <2>1 DEF LatchInv
  <2>3. ~(until' > 0)
    BY <1>3 DEF Tick, ReadInputs
  <2> QED
    BY <2>2, <2>3, NothingLeft
<1>4. LatchInv /\ [KernelNext]_kernelVars =>
        [(\E age \in Ages : Tick(age)) /\ reported = 1 /\ reported' = 0 => sinceEdge' >= Latch]_kernelVars
  BY <1>3
<1> QED
  BY <1>1, <1>2, <1>4, PTL DEF KernelSpec, PulseHeld

-----------------------------------------------------------------------------
(* Detectors: the invariant *)

SomeOn == \E u \in Units : zone[u] = 1

\* No other thread has begun an update since.
Alone == ~raced => \A u, w \in Units : Working(u) /\ Working(w) => u = w

\* What the thread has found is so: a zone that is on, or none so far.
ScanOK == ~raced => \A u \in Units : Working(u) =>
  \/ upd[u].found = 1 /\ upd[u].next = Len(UnitList) + 1 /\ SomeOn
  \/ upd[u].found = 0 /\ \A i \in 1..Len(UnitList) : i < upd[u].next => zone[UnitList[i]] = 0

ZoneBacked == service = "agd" =>
  \A u \in Units \ lostZones : zone[u] = 1 => noted[u] = 1 /\ u \notin faulted

DetectorsInv == DetectorsTypeOK /\ Alone /\ ScanOK /\ AnyAgrees /\ ZoneBacked

-----------------------------------------------------------------------------
(* Detectors: types *)

LEMMA UpdateType ==
  ASSUME DetectorsTypeOK, NEW u \in Units, Update(u)
  PROVE  /\ upd' \in [Units -> [next : 0..Len(UnitList) + 1, found : {0, 1}]]
         /\ raced' \in BOOLEAN
  BY UnitListAssumption DEF DetectorsTypeOK, Update

LEMMA WriteType ==
  ASSUME DetectorsTypeOK, NEW u \in Units, NEW v \in {0, 1}, WriteZone(u, v)
  PROVE  zone' \in [Units -> {0, 1}] /\ lostZones' \subseteq Units
  BY DEF DetectorsTypeOK, WriteZone

LEMMA DetectorTypeStep ==
  ASSUME DetectorsTypeOK, [DetectorsNext]_detectorVars
  PROVE  DetectorsTypeOK'
<1>1. ASSUME NEW u \in Units, NEW v \in {0, 1}, Frame(u, v)
      PROVE  DetectorsTypeOK'
  <2>1. CASE noted[u] # v
    <3>1. WriteZone(u, v) /\ Update(u)
      BY <1>1, <2>1 DEF Frame
    <3> QED
      BY <1>1, <3>1, UpdateType, WriteType DEF Frame, DetectorsTypeOK, Unnoted
  <2>2. CASE ~(noted[u] # v)
    BY <1>1, <2>2 DEF Frame, DetectorsTypeOK, hist, Unnoted
  <2> QED
    BY <2>1, <2>2
<1>2. ASSUME NEW u \in Units, Silence(u)
      PROVE  DetectorsTypeOK'
  <2>1. WriteZone(u, 0) /\ Update(u)
    BY <1>2 DEF Silence
  <2> QED
    BY <1>2, <2>1, UpdateType, WriteType DEF Silence, DetectorsTypeOK, Unnoted
<1>3. ASSUME NEW u \in Units, NEW v \in {0, 1}, Event(u, v)
      PROVE  DetectorsTypeOK'
  <2>1. WriteZone(u, v) /\ Update(u)
    BY <1>3 DEF Event
  <2> QED
    BY <1>3, <2>1, UpdateType, WriteType DEF Event, DetectorsTypeOK
<1>4. ASSUME NEW u \in Units, ReadZone(u)
      PROVE  DetectorsTypeOK'
  <2>1. upd[u] \in [next : 0..Len(UnitList) + 1, found : {0, 1}]
    BY DEF DetectorsTypeOK
  <2>2. upd' \in [Units -> [next : 0..Len(UnitList) + 1, found : {0, 1}]]
    BY <1>4, <2>1 DEF ReadZone, DetectorsTypeOK
  <2> QED
    BY <1>4, <2>2 DEF ReadZone, DetectorsTypeOK, zoneBus
<1>5. ASSUME NEW u \in Units, WriteAny(u)
      PROVE  DetectorsTypeOK'
  BY <1>5 DEF WriteAny, DetectorsTypeOK, Idle
<1>6. CASE Link \/ \E u \in Units : BadFrame(u)
  BY <1>6 DEF Link, BadFrame, DetectorsTypeOK, zoneBus, hist
<1>7. CASE BusLosesZones
  BY <1>7 DEF BusLosesZones, DetectorsTypeOK
<1>8. CASE UNCHANGED detectorVars
  BY <1>8 DEF detectorVars, zoneBus, hist, DetectorsTypeOK
<1> QED
  BY <1>1, <1>2, <1>3, <1>4, <1>5, <1>6, <1>7, <1>8 DEF DetectorsNext, Work
-----------------------------------------------------------------------------
(* Detectors: updates *)

\* An update that begins: what was read before counts no more.
LEMMA UpdateBegins ==
  ASSUME DetectorsTypeOK, NEW u \in Units, Update(u)
  PROVE  Alone' /\ ScanOK' /\ AnyAgrees'
<1>1. upd'[u] = [next |-> 1, found |-> 0]
  BY DEF Update, DetectorsTypeOK
<1>2. \A w \in Units : w # u => upd'[w] = upd[w]
  BY DEF Update, DetectorsTypeOK
<1>3. ~raced' => \A w \in Units : w # u => upd'[w] = Idle
  BY <1>2 DEF Update, Quiet, Working
<1>4. Working(u)'
  BY <1>1 DEF Working, Idle
<1>5. Alone'
  BY <1>3 DEF Alone, Working
<1>6. ScanOK'
  <2> SUFFICES ASSUME ~raced', NEW w \in Units, Working(w)'
               PROVE  upd'[w].found = 0 /\ \A i \in 1..Len(UnitList) :
                        i < upd'[w].next => zone'[UnitList[i]] = 0
    BY DEF ScanOK
  <2>1. w = u
    BY <1>3 DEF Working
  <2> QED
    BY <1>1, <2>1
<1>7. AnyAgrees'
  BY <1>4 DEF AnyAgrees, Quiet
<1> QED
  BY <1>5, <1>6, <1>7

\* A zone's new value is what its unit has said, or its write was lost.
LEMMA ZoneWritten ==
  ASSUME DetectorsTypeOK, ZoneBacked, NEW u \in Units, NEW v \in {0, 1}, WriteZone(u, v),
         v = 1 => noted'[u] = 1 /\ u \notin faulted',
         \A w \in Units \ {u} : noted'[w] = noted[w], faulted' \subseteq faulted \cup {u},
         service' = service
  PROVE  ZoneBacked'
<1> SUFFICES ASSUME service = "agd", NEW w \in Units \ lostZones', zone'[w] = 1
             PROVE  noted'[w] = 1 /\ w \notin faulted'
  BY DEF ZoneBacked
<1>1. CASE w = u
  BY <1>1 DEF WriteZone, DetectorsTypeOK
<1>2. CASE w # u
  BY <1>2 DEF WriteZone, DetectorsTypeOK, ZoneBacked
<1> QED
  BY <1>1, <1>2

\* Nothing the updates go by changes.
LEMMA UpdatesRest ==
  ASSUME DetectorsInv, UNCHANGED <<zone, anyOn, upd, raced>>
  PROVE  Alone' /\ ScanOK' /\ AnyAgrees'
  BY DEF DetectorsInv, Alone, ScanOK, AnyAgrees, SomeOn, Quiet, Working

-----------------------------------------------------------------------------
(* Detectors: the steps *)

LEMMA FrameStep ==
  ASSUME DetectorsInv,
         NEW u \in Units, NEW v \in {0, 1}, Frame(u, v)
  PROVE  Alone' /\ ScanOK' /\ AnyAgrees' /\ ZoneBacked'
<1>1. service' = service /\ faulted' = faulted \ {u} /\ noted' = [noted EXCEPT ![u] = v]
  BY DEF Frame
<1>2. noted'[u] = v /\ \A w \in Units \ {u} : noted'[w] = noted[w]
  BY <1>1 DEF DetectorsInv, DetectorsTypeOK
<1>3. CASE noted[u] # v
  <2>1. WriteZone(u, v) /\ Update(u)
    BY <1>3 DEF Frame
  <2>2. ZoneBacked'
    BY <1>1, <1>2, <2>1, ZoneWritten DEF DetectorsInv
  <2> QED
    BY <2>1, <2>2, UpdateBegins DEF DetectorsInv
<1>4. CASE noted[u] = v
  <2>1. UNCHANGED <<zone, anyOn, upd, raced, lostZones>> /\ noted' = noted
    BY <1>1, <1>4 DEF Frame, hist, DetectorsInv, DetectorsTypeOK
  <2>2. ZoneBacked'
    BY <1>1, <2>1 DEF DetectorsInv, ZoneBacked
  <2> QED
    BY <2>1, <2>2, UpdatesRest
<1> QED
  BY <1>3, <1>4

LEMMA SilenceStep ==
  ASSUME DetectorsInv, NEW u \in Units, Silence(u)
  PROVE  Alone' /\ ScanOK' /\ AnyAgrees' /\ ZoneBacked'
<1>1. WriteZone(u, 0) /\ Update(u) /\ service' = service /\ faulted' = faulted \cup {u}
  BY DEF Silence
<1>2. \A w \in Units \ {u} : noted'[w] = noted[w]
  BY DEF Silence, DetectorsInv, DetectorsTypeOK
<1>3. ZoneBacked'
  BY <1>1, <1>2, ZoneWritten DEF DetectorsInv
<1> QED
  BY <1>1, <1>3, UpdateBegins DEF DetectorsInv

LEMMA EventStep ==
  ASSUME DetectorsInv, NEW u \in Units, NEW v \in {0, 1}, Event(u, v)
  PROVE  Alone' /\ ScanOK' /\ AnyAgrees' /\ ZoneBacked'
<1>1. Update(u) /\ service = "flir" /\ service' = service
  BY DEF Event
<1>2. ZoneBacked'
  BY <1>1 DEF ZoneBacked
<1> QED
  BY <1>1, <1>2, UpdateBegins DEF DetectorsInv

LEMMA ReadStep ==
  ASSUME DetectorsInv, NEW u \in Units, ReadZone(u)
  PROVE  Alone' /\ ScanOK' /\ AnyAgrees' /\ ZoneBacked'
<1> DEFINE i  == upd[u].next
           on == linkUp /\ zone[UnitList[i]] = 1
<1>1. i \in 1..Len(UnitList) /\ UnitList[i] \in Units
  BY DEF ReadZone, Units
<1>2. UNCHANGED <<service, noted, faulted, zone, anyOn, linkUp, lostZones>>
  BY DEF ReadZone, zoneBus
<1>3. \A w \in Units : w # u => upd'[w] = upd[w]
  BY DEF ReadZone, DetectorsInv, DetectorsTypeOK
<1>4. upd'[u] = [next  |-> IF on THEN Len(UnitList) + 1 ELSE i + 1,
                 found |-> IF on THEN 1 ELSE 0]
  BY DEF ReadZone, DetectorsInv, DetectorsTypeOK
<1>5. Working(u) /\ Working(u)'
  BY <1>1, <1>4 DEF Working, Idle
<1>6. Alone'
  <2>1. \A w \in Units : Working(w)' => Working(w)
    BY <1>3, <1>5 DEF Working
  <2> QED
    BY <2>1 DEF Alone, DetectorsInv, ReadZone
<1>7. ScanOK'
  <2> SUFFICES ASSUME ~raced', NEW w \in Units, Working(w)'
               PROVE  \/ upd'[w].found = 1 /\ upd'[w].next = Len(UnitList) + 1 /\ SomeOn'
                      \/ upd'[w].found = 0 /\ \A j \in 1..Len(UnitList) :
                           j < upd'[w].next => zone'[UnitList[j]] = 0
    BY DEF ScanOK
  <2>1. w = u /\ ~raced /\ linkUp
    BY <1>5, <1>6 DEF Alone, ReadZone
  <2>2. CASE on
    BY <1>1, <1>2, <1>4, <2>1, <2>2 DEF SomeOn
  <2>3. CASE ~on
    <3>1. zone[UnitList[i]] = 0
      BY <1>1, <2>1, <2>3 DEF DetectorsInv, DetectorsTypeOK
    <3>2. \A j \in 1..Len(UnitList) : j < i => zone[UnitList[j]] = 0
      BY <1>1, <1>5, <2>1 DEF DetectorsInv, ScanOK
    <3>3. \A j \in 1..Len(UnitList) : j < i + 1 => zone[UnitList[j]] = 0
      BY <1>1, <3>1, <3>2
    <3> QED
      BY <1>2, <1>4, <2>1, <2>3, <3>3
  <2> QED
    BY <2>2, <2>3
<1>8. AnyAgrees'
  BY <1>5 DEF AnyAgrees, Quiet
<1>9. ZoneBacked'
  BY <1>2 DEF DetectorsInv, ZoneBacked
<1> QED
  BY <1>6, <1>7, <1>8, <1>9

LEMMA WriteStep ==
  ASSUME DetectorsInv, NEW u \in Units, WriteAny(u)
  PROVE  Alone' /\ ScanOK' /\ AnyAgrees' /\ ZoneBacked'
<1>1. UNCHANGED <<service, noted, faulted, zone, linkUp, lostZones>>
  BY DEF WriteAny
<1>2. \A w \in Units : Working(w)' => Working(w) /\ upd'[w] = upd[w] /\ w # u
  BY DEF WriteAny, Working, DetectorsInv, DetectorsTypeOK
<1>3. Working(u) /\ upd[u].next = Len(UnitList) + 1
  BY DEF WriteAny, Working, Idle
<1>4. ~raced' => ~raced /\ linkUp /\ anyOn' = upd[u].found
  BY DEF WriteAny
<1>5. Alone'
  BY <1>2, <1>4 DEF DetectorsInv, Alone
<1>6. ScanOK'
  <2>1. ~raced' => \A w \in Units : ~Working(w)'
    BY <1>2, <1>3, <1>4 DEF DetectorsInv, Alone
  <2> QED
    BY <2>1 DEF ScanOK
<1>7. AnyAgrees'
  <2> SUFFICES ASSUME ~raced'
               PROVE  (anyOn' = 1) <=> SomeOn'
    BY DEF AnyAgrees, SomeOn
  <2>1. CASE upd[u].found = 1 /\ SomeOn
    BY <1>1, <1>4, <2>1 DEF SomeOn
  <2>2. CASE upd[u].found = 0 /\ \A j \in 1..Len(UnitList) :
               j < upd[u].next => zone[UnitList[j]] = 0
    <3>1. \A w \in Units : zone[w] = 0
      BY <1>3, <2>2 DEF Units
    <3> QED
      BY <1>1, <1>4, <2>2, <3>1 DEF SomeOn
  <2> QED
    BY <1>3, <1>4, <2>1, <2>2 DEF DetectorsInv, ScanOK
<1>8. ZoneBacked'
  BY <1>1 DEF DetectorsInv, ZoneBacked
<1> QED
  BY <1>5, <1>6, <1>7, <1>8

LEMMA BusStep ==
  ASSUME DetectorsInv, BusLosesZones
  PROVE  Alone' /\ ScanOK' /\ AnyAgrees' /\ ZoneBacked'
<1>1. \A w \in Units : zone'[w] = 0
  BY DEF BusLosesZones
<1>2. ~raced' => \A w \in Units : ~Working(w)'
  BY DEF BusLosesZones, Quiet, Working
<1>3. AnyAgrees'
  BY <1>1 DEF BusLosesZones, AnyAgrees
<1> QED
  BY <1>1, <1>2, <1>3 DEF Alone, ScanOK, ZoneBacked

LEMMA BadFrameStep ==
  ASSUME DetectorsInv, NEW u \in Units, BadFrame(u)
  PROVE  Alone' /\ ScanOK' /\ AnyAgrees' /\ ZoneBacked'
<1>1. UNCHANGED <<service, noted, zone, anyOn, upd, raced, lostZones>> /\ faulted' \subseteq faulted
  BY DEF BadFrame, zoneBus, hist
<1>2. ZoneBacked'
  BY <1>1 DEF DetectorsInv, ZoneBacked
<1> QED
  BY <1>1, <1>2, UpdatesRest

LEMMA DetectorsStep ==
  ASSUME DetectorsInv, [DetectorsNext]_detectorVars
  PROVE  DetectorsInv'
<1>1. DetectorsTypeOK'
  BY DetectorTypeStep DEF DetectorsInv
<1>2. ASSUME UNCHANGED <<service, noted, faulted, zone, anyOn, upd, hist>>
      PROVE  Alone' /\ ScanOK' /\ AnyAgrees' /\ ZoneBacked'
  BY <1>2, UpdatesRest DEF hist, DetectorsInv, ZoneBacked
<1>3. Link \/ UNCHANGED detectorVars => UNCHANGED <<service, noted, faulted, zone, anyOn, upd, hist>>
  BY DEF Link, detectorVars, zoneBus, hist
<1>4. Alone' /\ ScanOK' /\ AnyAgrees' /\ ZoneBacked'
  BY <1>2, <1>3, FrameStep, BadFrameStep, SilenceStep, EventStep, ReadStep, WriteStep, BusStep
     DEF DetectorsNext, Work
<1> QED
  BY <1>1, <1>4 DEF DetectorsInv

LEMMA DetectorsStart ==
  ASSUME DetectorsInit
  PROVE  DetectorsInv
<1>1. DetectorsTypeOK
  <2>1. Idle \in [next : 0..Len(UnitList) + 1, found : {0, 1}]
    BY DEF Idle
  <2>2. upd \in [Units -> [next : 0..Len(UnitList) + 1, found : {0, 1}]]
    BY <2>1 DEF DetectorsInit
  <2>3. noted \in [Units -> {0, 1, Unnoted}] /\ zone \in [Units -> {0, 1}]
    BY DEF DetectorsInit
  <2> QED
    BY <2>2, <2>3 DEF DetectorsInit, DetectorsTypeOK
<1>2. \A u \in Units : ~Working(u) /\ zone[u] = 0
  BY DEF DetectorsInit, Working
<1>3. AnyAgrees
  BY <1>2 DEF DetectorsInit, AnyAgrees
<1> QED
  BY <1>1, <1>2, <1>3 DEF DetectorsInv, Alone, ScanOK, ZoneBacked

-----------------------------------------------------------------------------
\* Noted zones, threads' places and the signals keep their types.
THEOREM DetectorTypes == DetectorsSpec => []DetectorsTypeOK
<1>1. DetectorsInv => DetectorsTypeOK
  BY DEF DetectorsInv
<1>2. DetectorsInit => DetectorsInv
  BY DetectorsStart
<1>3. DetectorsInv /\ [DetectorsNext]_detectorVars => DetectorsInv'
  BY DetectorsStep
<1> QED
  BY <1>1, <1>2, <1>3, PTL DEF DetectorsSpec

\* When no thread is at work, any_detected is on exactly if some zone is, unless
\* the last updates ran side by side or met an outage (_update_globals).
THEOREM AnyAgreesAlways == DetectorsSpec => []AnyAgrees
<1>1. DetectorsInv => AnyAgrees
  BY DEF DetectorsInv
<1>2. DetectorsInit => DetectorsInv
  BY DetectorsStart
<1>3. DetectorsInv /\ [DetectorsNext]_detectorVars => DetectorsInv'
  BY DetectorsStep
<1> QED
  BY <1>1, <1>2, <1>3, PTL DEF DetectorsSpec

\* any_detected is never on for the sake of a unit in fault (_unit_loop,
\* _zero_unit).
THEOREM AnyBackedAlways == DetectorsSpec => []AnyBacked
<1>1. DetectorsInv => AnyBacked
  BY DEF DetectorsInv, AnyBacked, AnyAgrees, ZoneBacked
<1>2. DetectorsInit => DetectorsInv
  BY DetectorsStart
<1>3. DetectorsInv /\ [DetectorsNext]_detectorVars => DetectorsInv'
  BY DetectorsStep
<1> QED
  BY <1>1, <1>2, <1>3, PTL DEF DetectorsSpec

-----------------------------------------------------------------------------
(* ConfigFiles: types *)

\* A user's edit is never the empty file.
EditWritten == web.pc \in {"open", "write"} => web.new.user \in {0, 1}

FilesTypeInv == FilesTypeOK /\ EditWritten

(* A writer and a command thread at rest have their types. *)
LEMMA RestTypes ==
  /\ Blank \in Contents /\ NoWrite \in WriterType /\ NoReload \in ReloadType
  BY DEF Blank, NoWrite, NoReload, Contents, WriterType, ReloadType, None

(* Being disturbed changes nothing but the flag. *)
LEMMA DisturbedTypes == \A w \in WriterType : Disturbed(w) \in WriterType
  BY DEF Disturbed, WriterType

LEMMA DisturbedKeeps ==
  ASSUME NEW w \in WriterType
  PROVE  /\ Disturbed(w).pc = w.pc /\ Disturbed(w).new = w.new
         /\ w.pc # "idle" => ~Disturbed(w).alone
  BY DEF Disturbed, WriterType

LEMMA PostTypes ==
  ASSUME FilesTypeInv, NEW v \in {0, 1}, Post(v)
  PROVE  FilesTypeInv'
<1> USE DEF FilesTypeOK
<1>1. /\ web'.pc = "open" /\ web'.new = [user |-> v, live |-> file.live]
      /\ web' \in WriterType
  BY DEF FilesTypeInv, Post, WriterType, Contents
<1>2. persist' \in WriterType
  BY DisturbedTypes DEF FilesTypeInv, Post
<1>3. spoilt' \subseteq Parts
  BY DEF FilesTypeInv, Post, Begins
<1>4. FilesTypeOK'
  BY <1>1, <1>2, <1>3 DEF FilesTypeInv, Post, FilesTypeOK, Contents, WriterType, ReloadType
<1> QED
  BY <1>1, <1>4 DEF FilesTypeInv, EditWritten

LEMMA WriterTypes ==
  ASSUME FilesTypeInv, Truncate \/ Save \/ Ask \/ WebStops
  PROVE  FilesTypeInv'
<1> USE RestTypes DEF FilesTypeInv, FilesTypeOK, serviceVars, fileHist
<1>1. CASE Truncate
  BY <1>1 DEF Truncate, EditWritten, WriterType
<1>2. CASE Save
  <2>1. file' \in Contents /\ saved' \in {0, 1}
    BY <1>2 DEF Save, EditWritten, WriterType
  <2>2. web' \in WriterType /\ web'.pc = "idle" /\ asks' \in 0..MaxAsks
    BY <1>2, FilesAssumption DEF Save, NoWrite
  <2>3. spoilt' \subseteq Parts
    BY <1>2 DEF Save, Mended
  <2> QED
    BY <1>2, <2>1, <2>2, <2>3 DEF Save, EditWritten
<1>3. CASE Ask
  <2>1. reload' \in [CommandThreads -> ReloadType]
    BY <1>3 DEF Ask, ReloadType
  <2>2. overtaken' \in BOOLEAN
    BY <1>3 DEF Ask
  <2>3. asks' \in 0..MaxAsks
    BY <1>3, FilesAssumption DEF Ask
  <2> QED
    BY <1>3, <2>1, <2>2, <2>3 DEF Ask, EditWritten
<1>4. CASE WebStops
  <2>1. overtaken' \in BOOLEAN /\ spoilt' \subseteq Parts
    BY <1>4 DEF WebStops
  <2> QED
    BY <1>4, <2>1, FilesAssumption DEF WebStops, EditWritten, NoWrite
<1> QED
  BY <1>1, <1>2, <1>3, <1>4

LEMMA ReloadTypes ==
  ASSUME FilesTypeInv, NEW t \in CommandThreads, ReloadRead(t) \/ ReloadApply(t)
  PROVE  FilesTypeInv'
<1> USE RestTypes DEF FilesTypeInv, FilesTypeOK, fileHist
<1>1. CASE ReloadRead(t)
  <2>1. reload' \in [CommandThreads -> ReloadType]
    <3>1. [pc |-> "read", got |-> file.user] \in ReloadType
      BY DEF ReloadType, Contents
    <3> QED
      BY <1>1, <3>1 DEF ReloadRead
  <2>2. overtaken' \in BOOLEAN
    BY <1>1 DEF ReloadRead
  <2> QED
    BY <1>1, <2>1, <2>2 DEF ReloadRead, EditWritten
<1>2. CASE ReloadApply(t)
  <2>1. reload' \in [CommandThreads -> ReloadType] /\ settings' \in {0, 1, None}
    BY <1>2 DEF ReloadApply, ReloadType
  <2> QED
    BY <1>2, <2>1 DEF ReloadApply, EditWritten
<1> QED
  BY <1>1, <1>2

LEMMA SetLiveTypes ==
  ASSUME FilesTypeInv, NEW v \in {0, 1}, SetLive(v)
  PROVE  FilesTypeInv'
<1> USE DEF FilesTypeInv, FilesTypeOK
<1>1. persist' \in WriterType
  BY DEF SetLive, WriterType, Contents
<1>2. web' \in WriterType /\ web'.pc = web.pc /\ web'.new = web.new
  BY DisturbedTypes, DisturbedKeeps DEF SetLive
<1>3. spoilt' \subseteq Parts
  BY DEF SetLive, Begins
<1> QED
  BY <1>1, <1>2, <1>3 DEF SetLive, EditWritten

LEMMA ServiceTypes ==
  ASSUME FilesTypeInv,
         PersistTruncate \/ Persist \/ ServiceStops \/ Start \/ Listen
  PROVE  FilesTypeInv'
<1> USE RestTypes DEF FilesTypeInv, FilesTypeOK, fileHist
<1>1. CASE PersistTruncate
  BY <1>1 DEF PersistTruncate, EditWritten, WriterType
<1>2. CASE Persist
  <2>1. file' \in Contents /\ spoilt' \subseteq Parts
    BY <1>2 DEF Persist, WriterType, Mended
  <2> QED
    BY <1>2, <2>1 DEF Persist, EditWritten
<1>3. CASE ServiceStops
  <2>1. spoilt' \subseteq Parts
    BY <1>3 DEF ServiceStops, Parts
  <2> QED
    BY <1>3, <2>1 DEF ServiceStops, EditWritten
<1>4. CASE Start
  <2>1. settings' \in {0, 1, None} /\ live' \in {0, 1}
    BY <1>4 DEF Start, Contents
  <2>2. spoilt' \subseteq Parts
    BY <1>4 DEF Start, Parts
  <2> QED
    BY <1>4, <2>1, <2>2 DEF Start, EditWritten
<1>5. CASE Listen
  BY <1>5 DEF Listen, EditWritten
<1> QED
  BY <1>1, <1>2, <1>3, <1>4, <1>5

LEMMA FilesTypesInit == FilesInit => FilesTypeInv
<1> SUFFICES ASSUME FilesInit PROVE FilesTypeInv
  OBVIOUS
<1>1. file \in Contents
  BY DEF FilesInit, Contents
<1>2. EditWritten
  BY DEF FilesInit, EditWritten, NoWrite
<1>3. reload \in [CommandThreads -> ReloadType]
  BY RestTypes DEF FilesInit
<1>4. asks \in 0..MaxAsks
  BY FilesAssumption DEF FilesInit
<1> QED
  BY <1>1, <1>2, <1>3, <1>4, RestTypes DEF FilesInit, FilesTypeInv, FilesTypeOK

LEMMA FilesTypesStep ==
  ASSUME FilesTypeInv, [FilesNext]_filesVars
  PROVE  FilesTypeInv'
<1>1. CASE UNCHANGED filesVars
  BY <1>1 DEF FilesTypeOK, FilesTypeInv, EditWritten, filesVars, serviceVars, fileHist
<1> QED
  BY <1>1, PostTypes, WriterTypes, ReloadTypes, SetLiveTypes, ServiceTypes DEF FilesNext

-----------------------------------------------------------------------------
\* The file, the two writers, the service and its command threads keep their
\* types, and no edit that is written is the empty file.
THEOREM FilesTypes == FilesSpec => []FilesTypeOK
<1>1. FilesTypeInv => FilesTypeOK
  BY DEF FilesTypeInv
<1> QED
  BY <1>1, FilesTypesInit, FilesTypesStep, PTL DEF FilesSpec

-----------------------------------------------------------------------------
(* ConfigFiles: where the last edits are *)

\* A writer that found the other at work, or was found by it, knows; and while
\* it goes on nothing counts as intact.
OverlapKnown ==
  /\ web.pc # "idle" => IF web.alone THEN persist.pc = "idle" ELSE spoilt = Parts
  /\ persist.pc # "idle" => IF persist.alone THEN web.pc = "idle" ELSE spoilt = Parts

\* Who can be at work in which kind of file and state of the service.
AtWork ==
  /\ kind = "reloaded" => persist.pc = "idle"
  /\ kind = "shared" => asks = 0
  /\ up # "up" => persist.pc = "idle" /\ \A t \in CommandThreads : reload[t].pc = "idle"

\* The user's edit is in the file, or in what a writer is about to write.
UserKept == "user" \notin spoilt =>
  /\ (web.pc # "write" /\ persist.pc # "write") => file.user = saved
  /\ persist.pc # "idle" => persist.new.user = saved
  /\ web.pc = "write" => file.user = None

\* So is what the instation has set.
LiveKept ==
  /\ persist.pc # "idle" => persist.new.live = live
  /\ ("live" \notin spoilt /\ persist.pc = "idle") =>
       /\ web.pc # "write" => file.live = live
       /\ web.pc \in {"open", "write"} => web.new.live = live
       /\ web.pc = "write" => file.live = None

Reading(t) == reload[t].pc = "read"

\* Reloads that do not overtake each other read one at a time.
OneReads == ~overtaken =>
  \A t, r \in CommandThreads : (Reading(t) /\ Reading(r)) => t = r

\* No reload is on its way to the service.
NoneAsked ==
  /\ web.pc # "write" /\ asks = 0
  /\ \A t \in CommandThreads : reload[t].pc # "asked"

\* Then the one that is being carried out, or else the settings, have the edit.
InForce ==
  (kind = "reloaded" /\ ~overtaken /\ "user" \notin spoilt /\ up # "down" /\ NoneAsked) =>
    /\ \A t \in CommandThreads : Reading(t) => reload[t].got = saved
    /\ (\A t \in CommandThreads : ~Reading(t)) => settings = saved

FilesInv == OverlapKnown /\ AtWork /\ UserKept /\ LiveKept /\ OneReads /\ InForce

LEMMA PostKeeps ==
  ASSUME FilesTypeInv, FilesInv, NEW v \in {0, 1}, Post(v)
  PROVE  FilesInv'
<1> USE DEF FilesTypeInv, FilesTypeOK, FilesInv
<1>1. /\ web.pc = "idle" /\ web'.pc = "open" /\ web'.new.live = file.live
      /\ web'.alone <=> persist.pc = "idle"
      /\ UNCHANGED <<kind, file, saved, asks, up, settings, live, reload, overtaken>>
      /\ spoilt' = IF persist.pc = "idle" THEN spoilt ELSE Parts
  BY DEF Post, Begins
<1>2. /\ persist'.pc = persist.pc /\ persist'.new = persist.new
      /\ persist.pc # "idle" => ~persist'.alone
  BY DisturbedKeeps DEF Post
<1>3. OverlapKnown'
  BY <1>1, <1>2 DEF OverlapKnown
<1>4. AtWork'
  BY <1>1, <1>2 DEF AtWork
<1>5. UserKept'
  BY <1>1, <1>2 DEF UserKept, Parts
<1>6. LiveKept'
  BY <1>1, <1>2 DEF LiveKept, Parts
<1>7. OneReads' /\ InForce'
  BY <1>1, <1>2 DEF OneReads, InForce, Reading, NoneAsked, Parts
<1> QED
  BY <1>3, <1>4, <1>5, <1>6, <1>7

LEMMA TruncateKeeps ==
  ASSUME FilesTypeInv, FilesInv, Truncate
  PROVE  FilesInv'
<1> USE DEF FilesTypeInv, FilesTypeOK, FilesInv
<1>1. /\ web.pc = "open" /\ web'.pc = "write" /\ web'.new = web.new
      /\ web'.alone <=> web.alone
      /\ file'.user = None /\ file'.live = None
      /\ UNCHANGED <<kind, saved, asks, up, settings, live, persist, reload, overtaken, spoilt>>
  BY DEF Truncate, WriterType, Blank, serviceVars, fileHist
<1>3. OverlapKnown'
  BY <1>1 DEF OverlapKnown
<1>4. AtWork'
  BY <1>1 DEF AtWork
<1>5. UserKept'
  BY <1>1, <1>3 DEF UserKept, OverlapKnown, Parts
<1>6. LiveKept'
  BY <1>1 DEF LiveKept
<1>7. OneReads' /\ InForce'
  BY <1>1 DEF OneReads, InForce, Reading, NoneAsked
<1> QED
  BY <1>3, <1>4, <1>5, <1>6, <1>7

LEMMA SaveKeeps ==
  ASSUME FilesTypeInv, FilesInv, Save
  PROVE  FilesInv'
<1> USE DEF FilesTypeInv, FilesTypeOK, FilesInv
<1>1. /\ web.pc = "write" /\ file' = web.new /\ saved' = web.new.user
      /\ web'.pc = "idle"
      /\ IF kind = "shared" THEN UNCHANGED asks ELSE asks' = asks + 1 /\ asks' # 0
      /\ spoilt' = IF web.alone THEN spoilt \ {"user"} ELSE spoilt
      /\ UNCHANGED <<kind, up, settings, live, persist, reload, overtaken>>
  BY FilesAssumption DEF Save, NoWrite, Mended, serviceVars
<1>2. IF web.alone THEN persist.pc = "idle" ELSE spoilt = Parts
  BY <1>1 DEF OverlapKnown
<1>3. OverlapKnown'
  BY <1>1, <1>2 DEF OverlapKnown, AtWork
<1>4. AtWork'
  BY <1>1 DEF AtWork
<1>5. UserKept'
  BY <1>1, <1>2 DEF UserKept, Parts
<1>6. LiveKept'
  BY <1>1, <1>2 DEF LiveKept, Parts
<1>7. OneReads' /\ InForce'
  BY <1>1, <1>2 DEF OneReads, InForce, Reading, NoneAsked, Parts
<1> QED
  BY <1>3, <1>4, <1>5, <1>6, <1>7

LEMMA AskKeeps ==
  ASSUME FilesTypeInv, FilesInv, Ask
  PROVE  FilesInv'
<1> USE DEF FilesTypeInv, FilesTypeOK, FilesInv
<1>1. /\ asks > 0
      /\ UNCHANGED <<kind, file, saved, web, up, settings, live, persist, spoilt>>
  BY DEF Ask
<1>2. kind = "reloaded" /\ persist.pc = "idle"
  BY <1>1 DEF AtWork
<1>3. OverlapKnown'
  BY <1>1, <1>2 DEF OverlapKnown
<1>5. UserKept'
  BY <1>1, <1>2 DEF UserKept
<1>6. LiveKept'
  BY <1>1, <1>2 DEF LiveKept
<1>7. AtWork' /\ OneReads' /\ InForce'
  <2>1. CASE up = "up"
    <3>1. PICK t \in CommandThreads :
            /\ reload[t].pc = "idle"
            /\ reload' = [reload EXCEPT ![t].pc = "asked"]
            /\ UNCHANGED overtaken
      BY <2>1 DEF Ask
    <3>2. /\ reload'[t].pc = "asked"
          /\ \A r \in CommandThreads \ {t} : reload'[r] = reload[r]
      BY <3>1 DEF ReloadType
    <3> QED
      BY <1>1, <1>2, <2>1, <3>1, <3>2 DEF AtWork, OneReads, InForce, Reading, NoneAsked
  <2>2. CASE up # "up"
    <3>1. UNCHANGED reload /\ (up = "starting" => overtaken')
      BY <2>2 DEF Ask
    <3>2. up = "starting" \/ up = "down"
      BY <2>2
    <3> QED
      BY <1>1, <1>2, <2>2, <3>1, <3>2 DEF AtWork, OneReads, InForce, Reading, NoneAsked
  <2> QED
    BY <2>1, <2>2
<1> QED
  BY <1>3, <1>5, <1>6, <1>7

LEMMA WebStopsKeeps ==
  ASSUME FilesTypeInv, FilesInv, WebStops
  PROVE  FilesInv'
<1> USE DEF FilesTypeInv, FilesTypeOK, FilesInv
<1>1. /\ web'.pc = "idle" /\ asks' = 0
      /\ spoilt' = IF web.pc = "write" THEN Parts ELSE spoilt
      /\ asks # 0 => overtaken'
      /\ ~overtaken' => ~overtaken
      /\ UNCHANGED <<kind, file, saved, up, settings, live, persist, reload>>
  <2>1. asks # 0 => asks > 0
    BY FilesAssumption
  <2>2. overtaken' = (overtaken \/ asks > 0)
    BY DEF WebStops
  <2> QED
    BY <2>1, <2>2 DEF WebStops, NoWrite, serviceVars
<1>3. OverlapKnown'
  BY <1>1 DEF OverlapKnown
<1>4. AtWork'
  BY <1>1 DEF AtWork
<1>5. UserKept'
  BY <1>1 DEF UserKept, Parts
<1>6. LiveKept'
  BY <1>1 DEF LiveKept, Parts
<1>7. OneReads' /\ InForce'
  BY <1>1 DEF OneReads, InForce, Reading, NoneAsked, Parts
<1> QED
  BY <1>3, <1>4, <1>5, <1>6, <1>7

LEMMA ReloadReadKeeps ==
  ASSUME FilesTypeInv, FilesInv, NEW t \in CommandThreads, ReloadRead(t)
  PROVE  FilesInv'
<1> USE DEF FilesTypeInv, FilesTypeOK, FilesInv
<1>1. /\ reload[t].pc = "asked"
      /\ UNCHANGED <<kind, file, saved, web, asks, up, settings, live, persist, spoilt>>
      /\ \A r \in CommandThreads \ {t} : reload'[r] = reload[r]
      /\ up = "up"
  BY DEF ReloadRead, AtWork
<1>3. OverlapKnown'
  BY <1>1 DEF OverlapKnown
<1>4. AtWork'
  BY <1>1 DEF AtWork
<1>5. UserKept'
  BY <1>1 DEF UserKept
<1>6. LiveKept'
  BY <1>1 DEF LiveKept
<1>7. OneReads' /\ InForce'
  <2>1. CASE file.user = None
    <3>1. reload'[t].pc = "idle" /\ UNCHANGED overtaken
      BY <2>1 DEF ReloadRead, NoReload
    <3>2. (kind = "reloaded" /\ "user" \notin spoilt) => web.pc = "write"
      BY <2>1 DEF UserKept, AtWork, None
    <3> QED
      BY <1>1, <3>1, <3>2 DEF OneReads, InForce, Reading, NoneAsked
  <2>2. CASE file.user # None
    <3>1. reload'[t].pc = "read" /\ reload'[t].got = file.user
      BY <2>2 DEF ReloadRead
    <3>2. ~overtaken' => \A r \in CommandThreads \ {t} : reload'[r].pc # "read"
      BY <1>1, <2>2 DEF ReloadRead
    <3>3. (kind = "reloaded" /\ "user" \notin spoilt /\ NoneAsked') => file.user = saved
      BY <1>1 DEF UserKept, NoneAsked, AtWork
    <3> QED
      BY <1>1, <3>1, <3>2, <3>3 DEF OneReads, InForce, Reading
  <2> QED
    BY <2>1, <2>2
<1> QED
  BY <1>3, <1>4, <1>5, <1>6, <1>7

LEMMA ReloadApplyKeeps ==
  ASSUME FilesTypeInv, FilesInv, NEW t \in CommandThreads, ReloadApply(t)
  PROVE  FilesInv'
<1> USE DEF FilesTypeInv, FilesTypeOK, FilesInv
<1>1. /\ reload[t].pc = "read" /\ settings' = reload[t].got /\ reload'[t].pc = "idle"
      /\ UNCHANGED <<kind, file, saved, web, asks, up, live, persist, overtaken, spoilt>>
      /\ \A r \in CommandThreads \ {t} : reload'[r] = reload[r]
      /\ up = "up"
  BY DEF ReloadApply, AtWork, NoReload, fileHist
<1>3. OverlapKnown'
  BY <1>1 DEF OverlapKnown
<1>4. AtWork'
  BY <1>1 DEF AtWork
<1>5. UserKept'
  BY <1>1 DEF UserKept
<1>6. LiveKept'
  BY <1>1 DEF LiveKept
<1>7. OneReads' /\ InForce'
  BY <1>1 DEF OneReads, InForce, Reading, NoneAsked
<1> QED
  BY <1>3, <1>4, <1>5, <1>6, <1>7

LEMMA SetLiveKeeps ==
  ASSUME FilesTypeInv, FilesInv, NEW v \in {0, 1}, SetLive(v)
  PROVE  FilesInv'
<1> USE DEF FilesTypeInv, FilesTypeOK, FilesInv
<1>1. /\ kind = "shared" /\ up = "up" /\ live' = v
      /\ persist.pc = "idle" /\ persist'.pc = "open"
      /\ persist'.new.user = file.user /\ persist'.new.live = v
      /\ persist'.alone <=> web.pc = "idle"
      /\ spoilt' = IF web.pc = "idle" THEN spoilt ELSE Parts
      /\ UNCHANGED <<kind, file, saved, asks, up, settings, reload, overtaken>>
  BY DEF SetLive, Begins
<1>2. /\ web'.pc = web.pc /\ web'.new = web.new
      /\ web.pc # "idle" => ~web'.alone
  BY DisturbedKeeps DEF SetLive
<1>3. OverlapKnown'
  BY <1>1, <1>2 DEF OverlapKnown
<1>4. AtWork'
  BY <1>1, <1>2 DEF AtWork
<1>5. UserKept'
  BY <1>1, <1>2 DEF UserKept, Parts
<1>6. LiveKept'
  BY <1>1, <1>2 DEF LiveKept, Parts
<1>7. OneReads' /\ InForce'
  BY <1>1, <1>2 DEF OneReads, InForce, Reading
<1> QED
  BY <1>3, <1>4, <1>5, <1>6, <1>7

LEMMA PersistTruncateKeeps ==
  ASSUME FilesTypeInv, FilesInv, PersistTruncate
  PROVE  FilesInv'
<1> USE DEF FilesTypeInv, FilesTypeOK, FilesInv
<1>1. /\ persist.pc = "open" /\ persist'.pc = "write" /\ persist'.new = persist.new
      /\ persist'.alone <=> persist.alone
      /\ file'.user = None /\ file'.live = None
      /\ UNCHANGED <<kind, saved, web, asks, up, settings, live, reload, overtaken, spoilt>>
  BY DEF PersistTruncate, WriterType, Blank, fileHist
<1>3. OverlapKnown'
  BY <1>1 DEF OverlapKnown
<1>4. AtWork'
  BY <1>1 DEF AtWork
<1>5. UserKept'
  BY <1>1, <1>3 DEF UserKept, OverlapKnown, Parts
<1>6. LiveKept'
  BY <1>1 DEF LiveKept
<1>7. OneReads' /\ InForce'
  BY <1>1 DEF OneReads, InForce, Reading, NoneAsked
<1> QED
  BY <1>3, <1>4, <1>5, <1>6, <1>7

LEMMA PersistKeeps ==
  ASSUME FilesTypeInv, FilesInv, Persist
  PROVE  FilesInv'
<1> USE DEF FilesTypeInv, FilesTypeOK, FilesInv
<1>1. /\ persist.pc = "write" /\ persist'.pc = "idle" /\ file' = persist.new
      /\ spoilt' = IF persist.alone THEN spoilt \ {"live"} ELSE spoilt
      /\ UNCHANGED <<kind, saved, web, asks, up, settings, live, reload, overtaken>>
  BY DEF Persist, NoWrite, Mended
<1>2. kind = "shared"
  BY <1>1 DEF AtWork
<1>3. IF persist.alone THEN web.pc = "idle" ELSE spoilt = Parts
  BY <1>1 DEF OverlapKnown
<1>4. AtWork' /\ OneReads' /\ InForce'
  BY <1>1, <1>2 DEF AtWork, OneReads, InForce, Reading
<1>5. OverlapKnown'
  BY <1>1, <1>3 DEF OverlapKnown
<1>6. UserKept'
  BY <1>1, <1>3 DEF UserKept, Parts
<1>7. LiveKept'
  BY <1>1, <1>3 DEF LiveKept, Parts
<1> QED
  BY <1>4, <1>5, <1>6, <1>7

LEMMA ServiceStopsKeeps ==
  ASSUME FilesTypeInv, FilesInv, ServiceStops
  PROVE  FilesInv'
<1> USE DEF FilesTypeInv, FilesTypeOK, FilesInv
<1>1. /\ up' = "down" /\ persist'.pc = "idle"
      /\ \A t \in CommandThreads : reload'[t].pc = "idle"
      /\ UNCHANGED <<kind, file, saved, web, asks, settings, live, overtaken>>
  BY DEF ServiceStops, NoWrite, NoReload
<1>2. spoilt' = IF persist.pc = "write" THEN Parts
                ELSE IF persist.pc = "open" THEN spoilt \cup {"live"} ELSE spoilt
  BY DEF ServiceStops
<1>3. spoilt \subseteq spoilt' /\ (spoilt = Parts => spoilt' = Parts)
  BY <1>2 DEF Parts
<1>4. AtWork' /\ OneReads' /\ InForce'
  BY <1>1, <1>3 DEF AtWork, OneReads, InForce, Reading
<1>5. OverlapKnown'
  BY <1>1, <1>3 DEF OverlapKnown
<1>6. UserKept'
  BY <1>1, <1>2 DEF UserKept, Parts
<1>7. LiveKept'
  <2>1. CASE persist.pc = "idle"
    BY <1>1, <1>2, <2>1 DEF LiveKept
  <2>2. CASE persist.pc # "idle"
    BY <1>1, <1>2, <2>2 DEF LiveKept, Parts, WriterType
  <2> QED
    BY <2>1, <2>2
<1> QED
  BY <1>4, <1>5, <1>6, <1>7

LEMMA StartKeeps ==
  ASSUME FilesTypeInv, FilesInv, Start
  PROVE  FilesInv'
<1> USE DEF FilesTypeInv, FilesTypeOK, FilesInv
<1>1. /\ up = "down" /\ up' = "starting" /\ settings' = file.user
      /\ live' = IF file.live = None THEN 0 ELSE file.live
      /\ spoilt' = IF file.live = None THEN spoilt \cup {"live"} ELSE spoilt
      /\ kind = "reloaded" => file.user # None
      /\ UNCHANGED <<kind, file, saved, web, asks, persist, reload>>
  BY DEF Start
<1>2. /\ persist.pc = "idle"
      /\ \A t \in CommandThreads : reload[t].pc = "idle"
  BY <1>1 DEF AtWork
<1>3. /\ spoilt \subseteq spoilt' /\ (spoilt = Parts => spoilt' = Parts)
      /\ ("user" \in spoilt' => "user" \in spoilt)
  BY <1>1 DEF Parts
<1>4. AtWork'
  BY <1>1, <1>2 DEF AtWork
<1>5. OverlapKnown'
  BY <1>1, <1>3 DEF OverlapKnown
<1>6. UserKept'
  BY <1>1, <1>3 DEF UserKept
<1>7. LiveKept'
  <2>1. CASE web.pc = "write"
    BY <1>1, <1>2, <2>1 DEF LiveKept
  <2>2. CASE web.pc # "write"
    BY <1>1, <1>2, <2>2 DEF LiveKept
  <2> QED
    BY <2>1, <2>2
<1>8. OneReads' /\ InForce'
  BY <1>1, <1>2, <1>3 DEF OneReads, InForce, Reading, NoneAsked, UserKept
<1> QED
  BY <1>4, <1>5, <1>6, <1>7, <1>8

LEMMA ListenKeeps ==
  ASSUME FilesTypeInv, FilesInv, Listen \/ UNCHANGED filesVars
  PROVE  FilesInv'
<1>1. /\ UNCHANGED <<kind, file, saved, web, asks, settings, live, persist, reload, overtaken, spoilt>>
      /\ up' = up \/ (up = "starting" /\ up' = "up")
  BY DEF Listen, filesVars, serviceVars, fileHist
<1> QED
  BY <1>1 DEF FilesInv, OverlapKnown, AtWork, UserKept, LiveKept, OneReads, InForce, Reading, NoneAsked

LEMMA FilesInvInit == FilesInit => FilesInv
<1> SUFFICES ASSUME FilesInit PROVE FilesInv
  OBVIOUS
<1>1. web.pc = "idle" /\ persist.pc = "idle" /\ \A t \in CommandThreads : reload[t].pc = "idle"
  BY DEF FilesInit, NoWrite, NoReload
<1>2. OverlapKnown /\ AtWork /\ UserKept /\ LiveKept
  BY <1>1 DEF FilesInit, OverlapKnown, AtWork, UserKept, LiveKept
<1>3. OneReads /\ InForce
  BY <1>1 DEF FilesInit, OneReads, InForce, Reading
<1> QED
  BY <1>2, <1>3 DEF FilesInv

LEMMA FilesInvStep ==
  ASSUME FilesTypeInv, FilesInv, [FilesNext]_filesVars
  PROVE  FilesInv'
  BY PostKeeps, TruncateKeeps, SaveKeeps, AskKeeps, WebStopsKeeps, ReloadReadKeeps, ReloadApplyKeeps,
     SetLiveKeeps, PersistTruncateKeeps, PersistKeeps, ServiceStopsKeeps, StartKeeps, ListenKeeps
     DEF FilesNext

\* When nothing is under way the service runs with the edit that was saved last,
\* for any number of command threads, whatever saves, reloads, failed reloads and
\* restarts came between - unless two reloads ran side by side, a request came
\* while the service was starting, or pci.web stopped (reload_config).
THEOREM SettingsFollowAlways == FilesSpec => []SettingsFollow
<1>1. FilesTypeInv /\ FilesInv => SettingsFollow
  BY DEF FilesInv, SettingsFollow, NothingUnderWay, UserKept, OneReads, InForce, Reading, NoneAsked
<1> QED
  BY <1>1, FilesTypesInit, FilesTypesStep, FilesInvInit, FilesInvStep, PTL DEF FilesSpec

\* When nothing is under way neither writer of ug405.cfg has undone what the other
\* saved, unless they ran side by side or one stopped half way (persist_live,
\* _write_ug405_scns).
THEOREM EditsKeptAlways == FilesSpec => []EditsKept
<1>1. FilesTypeInv /\ FilesInv => EditsKept
  BY DEF FilesInv, EditsKept, NothingUnderWay, UserKept, LiveKept
<1> QED
  BY <1>1, FilesTypesInit, FilesTypesStep, FilesInvInit, FilesInvStep, PTL DEF FilesSpec

-----------------------------------------------------------------------------
(* ModeChannel: types *)

(* Where a variable starts, it has its type. *)
LEMMA StartTypes ==
  /\ 1 \in 1..3 /\ 0 \in 0..3 /\ NoHello \in 0..NoHello
  /\ [t \in {"snmp", "dog"} |-> 0] \in [{"snmp", "dog"} -> 0..3]
  /\ << >> \in Seq(1..3) /\ Len(<< >>) = 0
  BY DEF NoHello

\* A queue of what is in S takes and gives what is in S.
LEMMA QueueTypes ==
  ASSUME NEW S, NEW q \in Seq(S), NEW m \in S
  PROVE  /\ Append(q, m) \in Seq(S) /\ Len(Append(q, m)) = Len(q) + 1
         /\ q # << >> =>
              /\ Head(q) \in S /\ Tail(q) \in Seq(S)
              /\ Len(Tail(q)) = Len(q) - 1 /\ Len(q) \in Nat
  BY AppendProperties, HeadTailProperties

LEMMA SendTypes ==
  ASSUME ChannelTypeOK, NEW m \in 1..3, Send(m)
  PROVE  stream' \in Seq(1..3) /\ Len(stream') <= MaxStream
<1>1. CASE member
  <2>1. Len(stream) < MaxStream /\ stream' = Append(stream, m) /\ Len(stream) \in Nat
    BY <1>1 DEF Send, ChannelTypeOK
  <2> QED
    BY <2>1, QueueTypes, ChannelAssumption DEF ChannelTypeOK
<1>2. CASE ~member
  BY <1>2 DEF Send, ChannelTypeOK
<1> QED
  BY <1>1, <1>2 DEF ChannelTypeOK

LEMMA ChannelTypesInit == ChannelInit => ChannelTypeOK
<1> SUFFICES ASSUME ChannelInit PROVE ChannelTypeOK
  OBVIOUS
<1>1. 0 <= MaxQueue /\ 0 <= MaxStream
  BY ChannelAssumption
<1>2. opMode \in 1..3 /\ tracked \in 1..3 /\ snap \in 0..3 /\ hello \in 0..NoHello
  BY StartTypes DEF ChannelInit
<1>3. untold \in [{"snmp", "dog"} -> 0..3]
  BY StartTypes DEF ChannelInit
<1>4. events \in Seq(1..3) /\ Len(events) <= MaxQueue
  BY <1>1, StartTypes DEF ChannelInit
<1>5. stream \in Seq(1..3) /\ Len(stream) <= MaxStream
  BY <1>1, StartTypes DEF ChannelInit
<1>6. member \in BOOLEAN /\ linked \in BOOLEAN
  BY DEF ChannelInit
<1> QED
  BY <1>2, <1>3, <1>4, <1>5, <1>6 DEF ChannelTypeOK

LEMMA SourceTypes ==
  ASSUME ChannelTypeOK,
         \/ \E t \in {"snmp", "dog"} : Announce(t) \/ \E m \in 1..3 : SetMode(t, m)
         \/ PushEvent \/ TakeSnap
  PROVE  ChannelTypeOK'
<1>1. CASE \E t \in {"snmp", "dog"} : \E m \in 1..3 : SetMode(t, m)
  BY <1>1 DEF SetMode, ChannelTypeOK
<1>2. CASE \E t \in {"snmp", "dog"} : Announce(t)
  <2>1. PICK t \in {"snmp", "dog"} : Announce(t)
    BY <1>2
  <2>2. untold[t] \in 1..3 /\ Len(events) \in Nat
    BY <2>1 DEF Announce, ChannelTypeOK
  <2>3. events' \in Seq(1..3) /\ Len(events') <= MaxQueue
    BY <2>1, <2>2, QueueTypes, ChannelAssumption DEF Announce, ChannelTypeOK
  <2> QED
    BY <2>1, <2>3 DEF Announce, ChannelTypeOK
<1>3. CASE PushEvent
  <2>1. /\ Head(events) \in 1..3 /\ events' \in Seq(1..3)
        /\ Len(events') = Len(events) - 1 /\ Len(events) \in Nat
    BY <1>3, QueueTypes DEF PushEvent, ChannelTypeOK
  <2>2. stream' \in Seq(1..3) /\ Len(stream') <= MaxStream
    BY <1>3, <2>1, SendTypes DEF PushEvent
  <2>3. Len(events') <= MaxQueue
    BY <2>1, ChannelAssumption DEF ChannelTypeOK
  <2> QED
    BY <1>3, <2>1, <2>2, <2>3 DEF PushEvent, ChannelTypeOK
<1>4. CASE TakeSnap
  BY <1>4 DEF TakeSnap, ChannelTypeOK
<1> QED
  BY <1>1, <1>2, <1>3, <1>4

LEMMA SnapshotTypes ==
  ASSUME ChannelTypeOK, PushSnap \/ SnapFails \/ TakeHello \/ SendHello
  PROVE  ChannelTypeOK'
<1>1. CASE PushSnap
  <2>1. snap \in 1..3 /\ 0 \in 0..3
    BY <1>1 DEF PushSnap, ChannelTypeOK
  <2>2. stream' \in Seq(1..3) /\ Len(stream') <= MaxStream
    BY <1>1, <2>1, SendTypes DEF PushSnap
  <2> QED
    BY <1>1, <2>1, <2>2 DEF PushSnap, ChannelTypeOK
<1>2. CASE SnapFails
  BY <1>2 DEF SnapFails, ChannelTypeOK
<1>3. CASE TakeHello
  <2>1. hello' \in 0..NoHello
    BY <1>3 DEF TakeHello, ChannelTypeOK, NoHello
  <2> QED
    BY <1>3, <2>1 DEF TakeHello, ChannelTypeOK
<1>4. CASE SendHello
  <2>1. hello' \in 0..NoHello
    BY <1>4 DEF SendHello, NoHello
  <2>2. stream' \in Seq(1..3) /\ Len(stream') <= MaxStream
    BY <1>4, SendTypes DEF SendHello
  <2> QED
    BY <1>4, <2>1, <2>2 DEF SendHello, ChannelTypeOK
<1> QED
  BY <1>1, <1>2, <1>3, <1>4

LEMMA LinkTypes ==
  ASSUME ChannelTypeOK, Accept \/ Receive \/ UtcRestart \/ EndOfFile
  PROVE  ChannelTypeOK'
<1>1. << >> \in Seq(1..3) /\ Len(<< >>) = 0
  OBVIOUS
<1>2. CASE Accept
  <2>1. 0 \in 0..NoHello
    BY DEF NoHello
  <2> QED
    BY <1>1, <1>2, <2>1, ChannelAssumption DEF Accept, ChannelTypeOK
<1>3. CASE Receive
  <2>1. /\ tracked' \in 1..3 /\ stream' \in Seq(1..3)
        /\ Len(stream') = Len(stream) - 1 /\ Len(stream) \in Nat
    BY <1>3, QueueTypes DEF Receive, ChannelTypeOK
  <2>2. Len(stream') <= MaxStream
    BY <2>1, ChannelAssumption DEF ChannelTypeOK
  <2> QED
    BY <1>3, <2>1, <2>2 DEF Receive, ChannelTypeOK
<1>4. CASE UtcRestart
  <2>1. opMode' \in 1..3 /\ snap' \in 0..3 /\ hello' \in 0..NoHello
    BY <1>4, StartTypes DEF UtcRestart
  <2>2. untold' \in [{"snmp", "dog"} -> 0..3]
    BY <1>4, StartTypes DEF UtcRestart
  <2>3. events' \in Seq(1..3) /\ Len(events') <= MaxQueue
    BY <1>1, <1>4, ChannelAssumption DEF UtcRestart
  <2>4. member' \in BOOLEAN
    BY <1>4 DEF UtcRestart
  <2> QED
    BY <1>4, <2>1, <2>2, <2>3, <2>4 DEF UtcRestart, ChannelTypeOK
<1>5. CASE EndOfFile
  <2>1. tracked' \in 1..3 /\ linked' \in BOOLEAN
    BY <1>5, StartTypes DEF EndOfFile
  <2> QED
    BY <1>5, <2>1 DEF EndOfFile, ChannelTypeOK
<1> QED
  BY <1>2, <1>3, <1>4, <1>5

LEMMA ChannelTypesStep ==
  ASSUME ChannelTypeOK, [ChannelNext]_channelVars
  PROVE  ChannelTypeOK'
<1>1. CASE UNCHANGED channelVars
  BY <1>1 DEF ChannelTypeOK, channelVars
<1> QED
  BY <1>1, SourceTypes, SnapshotTypes, LinkTypes DEF ChannelNext, Push

\* Modes, snapshots, queue and socket keep their types, and the queue and the
\* socket their limits.
THEOREM ChannelTypes == ChannelSpec => []ChannelTypeOK
  BY ChannelTypesInit, ChannelTypesStep, PTL DEF ChannelSpec

-----------------------------------------------------------------------------
(* ModeChannel: what is on its way to the tracker *)

(* Putting something in a queue, or taking it out, brings in nothing else. *)
LEMMA AppendElements ==
  ASSUME NEW q \in Seq(1..3), NEW m \in 1..3
  PROVE  \A i \in DOMAIN Append(q, m) :
           Append(q, m)[i] = m \/ \E j \in DOMAIN q : Append(q, m)[i] = q[j]
<1> SUFFICES ASSUME NEW i \in DOMAIN Append(q, m)
             PROVE  Append(q, m)[i] = m \/ \E j \in DOMAIN q : Append(q, m)[i] = q[j]
  OBVIOUS
<1>1. Len(q) \in Nat /\ i \in 1..(Len(q) + 1) /\ DOMAIN q = 1..Len(q)
  BY AppendProperties
<1>2. CASE i = Len(q) + 1
  BY <1>2, AppendProperties
<1>3. CASE i # Len(q) + 1
  <2>1. i \in 1..Len(q)
    BY <1>1, <1>3
  <2> QED
    BY <1>1, <2>1, AppendProperties
<1> QED
  BY <1>2, <1>3

LEMMA TailElements ==
  ASSUME NEW q \in Seq(1..3), q # << >>
  PROVE  /\ \E j \in DOMAIN q : Head(q) = q[j]
         /\ \A i \in DOMAIN Tail(q) : \E j \in DOMAIN q : Tail(q)[i] = q[j]
<1>1. /\ Len(q) \in Nat \ {0} /\ DOMAIN q = 1..Len(q) /\ Head(q) = q[1]
      /\ Tail(q) \in Seq(1..3) /\ Len(Tail(q)) = Len(q) - 1
      /\ \A i \in 1..Len(Tail(q)) : Tail(q)[i] = q[i + 1]
  BY HeadTailProperties
<1>2. DOMAIN Tail(q) = 1..Len(Tail(q))
  BY <1>1
<1>3. \A i \in DOMAIN Tail(q) : i + 1 \in DOMAIN q
  BY <1>1, <1>2
<1> QED
  BY <1>1, <1>2, <1>3

(* What Send puts in the socket was there or is what is sent. *)
LEMMA SendElements ==
  ASSUME ChannelTypeOK, NEW m \in 1..3, Send(m)
  PROVE  InStream' \subseteq InStream \cup {m}
<1>1. CASE member
  <2>1. stream' = Append(stream, m)
    BY <1>1 DEF Send
  <2> QED
    BY <2>1, AppendElements DEF ChannelTypeOK, InStream
<1>2. CASE ~member
  BY <1>2 DEF Send, InStream
<1> QED
  BY <1>1, <1>2 DEF ChannelTypeOK

(* A step that leaves both modes alone and brings in nothing that disagrees. *)
LEMMA QuietStep ==
  ASSUME UNCHANGED <<opMode, tracked>>, OnTheWay' \subseteq OnTheWay \cup Harmless
  PROVE  [View!ViewNext]_View!viewVars
<1>1. (OnTheWay \subseteq Harmless) \in BOOLEAN /\ (OnTheWay \subseteq Harmless)' \in BOOLEAN
  OBVIOUS
<1>2. OnTheWay \subseteq Harmless => (OnTheWay \subseteq Harmless)'
  BY DEF Harmless
<1>3. CASE (OnTheWay \subseteq Harmless)'
  <2>1. (OnTheWay \subseteq Harmless)' = TRUE
    BY <1>3
  <2> QED
    BY <2>1 DEF View!ViewNext, View!Settle
<1>4. CASE ~(OnTheWay \subseteq Harmless)'
  <2>1. (OnTheWay \subseteq Harmless)' = (OnTheWay \subseteq Harmless)
    BY <1>2, <1>4
  <2> QED
    BY <2>1 DEF View!viewVars
<1> QED
  BY <1>3, <1>4

(* Steps that only move a mode from one place to the next. *)
LEMMA SourceSteps ==
  ASSUME ChannelTypeOK,
         (\E t \in {"snmp", "dog"} : Announce(t)) \/ PushEvent \/ TakeSnap
  PROVE  OnTheWay' \subseteq OnTheWay \cup Harmless
<1>1. CASE \E t \in {"snmp", "dog"} : Announce(t)
  <2>1. PICK t \in {"snmp", "dog"} : Announce(t)
    BY <1>1
  <2>2. untold[t] \in 1..3 /\ untold[t] \in OnTheWay
    BY <2>1 DEF Announce, ChannelTypeOK, OnTheWay
  <2>3. Queued' \subseteq Queued \cup {untold[t]}
    BY <2>1, <2>2, AppendElements DEF Announce, Queued, ChannelTypeOK
  <2>4. untold'["snmp"] \in {untold["snmp"], 0} /\ untold'["dog"] \in {untold["dog"], 0}
    BY <2>1 DEF Announce, ChannelTypeOK
  <2>5. InStream' = InStream /\ snap' = snap /\ hello' = hello
    BY <2>1 DEF Announce, InStream
  <2> QED
    BY <2>2, <2>3, <2>4, <2>5 DEF OnTheWay, Harmless
<1>2. CASE PushEvent
  <2>1. events # << >> /\ Head(events) \in 1..3
    BY <1>2, QueueTypes DEF PushEvent, ChannelTypeOK
  <2>2. Head(events) \in Queued /\ Queued' \subseteq Queued
    BY <1>2, <2>1, TailElements DEF PushEvent, ChannelTypeOK, Queued
  <2>3. InStream' \subseteq InStream \cup {Head(events)}
    BY <1>2, <2>1, SendElements DEF PushEvent
  <2> QED
    BY <1>2, <2>2, <2>3 DEF PushEvent, OnTheWay
<1>3. CASE TakeSnap
  BY <1>3 DEF TakeSnap, OnTheWay, Harmless, Queued, InStream
<1> QED
  BY <1>1, <1>2, <1>3

LEMMA SnapshotSteps ==
  ASSUME ChannelTypeOK, PushSnap \/ SnapFails \/ TakeHello \/ SendHello
  PROVE  OnTheWay' \subseteq OnTheWay \cup Harmless
<1>1. CASE PushSnap
  <2>1. snap \in 1..3
    BY <1>1 DEF PushSnap, ChannelTypeOK
  <2>2. InStream' \subseteq InStream \cup {snap}
    BY <1>1, <2>1, SendElements DEF PushSnap
  <2> QED
    BY <1>1, <2>2 DEF PushSnap, OnTheWay, Harmless, Queued
<1>2. CASE SnapFails
  BY <1>2 DEF SnapFails, OnTheWay, Harmless, Queued, InStream
<1>3. CASE TakeHello
  BY <1>3 DEF TakeHello, OnTheWay, Harmless, Queued, InStream
<1>4. CASE SendHello
  <2>1. InStream' \subseteq InStream \cup {hello}
    BY <1>4, SendElements DEF SendHello
  <2> QED
    BY <1>4, <2>1 DEF SendHello, OnTheWay, Harmless, Queued
<1> QED
  BY <1>1, <1>2, <1>3, <1>4

LEMMA AcceptStep ==
  ASSUME ChannelTypeOK, Accept
  PROVE  OnTheWay' \subseteq OnTheWay \cup Harmless
<1>1. InStream' = {}
  BY DEF Accept, InStream
<1> QED
  BY <1>1 DEF Accept, OnTheWay, Harmless, Queued

(* A change of mode; setting the mode it has brings in nothing. *)
LEMMA SetModeStep ==
  ASSUME ChannelTypeOK, NEW t \in {"snmp", "dog"}, NEW m \in 1..3, SetMode(t, m)
  PROVE  [View!ViewNext]_View!viewVars
<1>1. CASE m = opMode
  <2>1. OnTheWay' \subseteq OnTheWay \cup Harmless
    BY <1>1 DEF SetMode, ChannelTypeOK, OnTheWay, Harmless, Queued, InStream
  <2> QED
    BY <1>1, <2>1, QuietStep DEF SetMode
<1>2. CASE m # opMode
  <2>1. (OnTheWay \subseteq Harmless)' \in BOOLEAN
    OBVIOUS
  <2>2. View!Change(m)
    BY <1>2, <2>1 DEF SetMode, View!Change
  <2> QED
    BY <2>2 DEF View!ViewNext
<1> QED
  BY <1>1, <1>2

(* What is received is a mode on the way, and it alone leaves. *)
LEMMA ReceiveStep ==
  ASSUME ChannelTypeOK, Receive
  PROVE  [View!ViewNext]_View!viewVars
<1>1. Head(stream) \in 1..3 /\ Head(stream) \in InStream /\ InStream' \subseteq InStream
  BY QueueTypes, TailElements DEF Receive, ChannelTypeOK, InStream
<1>2. Head(stream) \in OnTheWay /\ OnTheWay' \subseteq OnTheWay /\ Harmless' = Harmless
  BY <1>1 DEF Receive, OnTheWay, Harmless, Queued
<1>3. (OnTheWay \subseteq Harmless) => Head(stream) = opMode
  BY <1>1, <1>2 DEF Harmless, NoHello
<1>4. (OnTheWay \subseteq Harmless)' \in {OnTheWay \subseteq Harmless, TRUE}
  <2>1. CASE (OnTheWay \subseteq Harmless)'
    <3>1. (OnTheWay \subseteq Harmless)' = TRUE
      BY <2>1
    <3> QED
      BY <3>1
  <2>2. CASE ~(OnTheWay \subseteq Harmless)'
    <3>1. (OnTheWay \subseteq Harmless)' = (OnTheWay \subseteq Harmless)
      BY <1>2, <2>2
    <3> QED
      BY <3>1
  <2> QED
    BY <2>1, <2>2
<1>5. View!Track(Head(stream))
  BY <1>3, <1>4 DEF Receive, View!Track
<1> QED
  BY <1>1, <1>5 DEF View!ViewNext

LEMMA RestartStep ==
  ASSUME ChannelTypeOK, UtcRestart
  PROVE  [View!ViewNext]_View!viewVars
<1>1. CASE opMode = 1
  <2>1. Queued' = {}
    BY DEF UtcRestart, Queued
  <2>2. OnTheWay' \subseteq OnTheWay \cup Harmless
    BY <2>1 DEF UtcRestart, OnTheWay, Harmless, InStream
  <2> QED
    BY <1>1, <2>2, QuietStep DEF UtcRestart
<1>2. CASE opMode # 1
  <2>1. (OnTheWay \subseteq Harmless)' \in BOOLEAN
    OBVIOUS
  <2>2. View!Change(1) /\ 1 \in 1..3
    BY <1>2, <2>1 DEF UtcRestart, View!Change
  <2> QED
    BY <2>2 DEF View!ViewNext
<1> QED
  BY <1>1, <1>2

LEMMA EndOfFileStep ==
  ASSUME EndOfFile
  PROVE  [View!ViewNext]_View!viewVars
<1>1. (OnTheWay \subseteq Harmless)' = (OnTheWay \subseteq Harmless)
  BY DEF EndOfFile, OnTheWay, Harmless, Queued, InStream
<1> QED
  BY <1>1 DEF EndOfFile, View!ViewNext, View!Lose

LEMMA ChannelSteps ==
  ASSUME ChannelTypeOK, [ChannelNext]_channelVars
  PROVE  [View!ViewNext]_View!viewVars
<1>1. CASE UNCHANGED channelVars
  BY <1>1 DEF channelVars, View!viewVars, OnTheWay, Harmless, Queued, InStream
<1>2. CASE (\E t \in {"snmp", "dog"} : Announce(t)) \/ PushEvent \/ TakeSnap
  <2>1. UNCHANGED <<opMode, tracked>>
    BY <1>2 DEF Announce, PushEvent, TakeSnap
  <2> QED
    BY <1>2, <2>1, SourceSteps, QuietStep
<1>3. CASE PushSnap \/ SnapFails \/ TakeHello \/ SendHello
  <2>1. UNCHANGED <<opMode, tracked>>
    BY <1>3 DEF PushSnap, SnapFails, TakeHello, SendHello
  <2> QED
    BY <1>3, <2>1, SnapshotSteps, QuietStep
<1>4. CASE Accept
  <2>1. UNCHANGED <<opMode, tracked>>
    BY <1>4 DEF Accept
  <2> QED
    BY <1>4, <2>1, AcceptStep, QuietStep
<1>5. CASE \E t \in {"snmp", "dog"} : \E m \in 1..3 : SetMode(t, m)
  BY <1>5, SetModeStep
<1>6. CASE Receive \/ UtcRestart \/ EndOfFile
  BY <1>6, ReceiveStep, RestartStep, EndOfFileStep
<1> QED
  BY <1>1, <1>2, <1>3, <1>4, <1>5, <1>6 DEF ChannelNext, Push

LEMMA ChannelStart == ChannelInit => View!ViewInit
<1> SUFFICES ASSUME ChannelInit PROVE View!ViewInit
  OBVIOUS
<1>1. Queued = {} /\ InStream = {}
  BY DEF ChannelInit, Queued, InStream
<1>2. OnTheWay \subseteq Harmless
  BY <1>1 DEF ChannelInit, OnTheWay, Harmless
<1>3. (OnTheWay \subseteq Harmless) = TRUE
  BY <1>2
<1> QED
  BY <1>3 DEF ChannelInit, View!ViewInit

\* Every step of the live socket is a step of ModeView or leaves its variables
\* alone, for any length of queue and socket: once nothing on the way disagrees
\* with the mode, the tracker turns only to it (_push_loop, _read_loop).
THEOREM ChannelImplementsView == ChannelSpec => ImplementsModeView
  BY ChannelTypesInit, ChannelTypesStep, ChannelStart, ChannelSteps, PTL
     DEF ChannelSpec, ImplementsModeView, View!ViewSpec

-----------------------------------------------------------------------------
(* Dimming: types *)

LEMMA LampTypesStep ==
  ASSUME Lamps!TypeOK, [Lamps!Next]_Lamps!vars
  PROVE  Lamps!TypeOK'
<1> USE DEF Lamps!TypeOK
<1>1. CASE Lamps!Tick
  BY <1>1 DEF Lamps!Tick, Lamps!settings
<1>2. CASE Lamps!Write
  <2>1. PICK w \in pending :
          lamp' = IF dimLink THEN [lamp EXCEPT ![w.signal] = w.value] ELSE lamp
    BY <1>2 DEF Lamps!Write
  <2>2. lamp' \in [Signals -> {0, 1}]
    BY <2>1
  <2> QED
    BY <1>2, <2>2 DEF Lamps!Write, Lamps!settings
<1>3. CASE Lamps!Dusk
  <2>1. night' \in {0, 1}
    BY <1>3 DEF Lamps!Dusk
  <2> QED
    BY <1>3, <2>1 DEF Lamps!Dusk, Lamps!settings
<1>7. CASE Lamps!Link
  BY <1>7 DEF Lamps!Link, Lamps!settings
<1>8. CASE Lamps!BusRestarts
  BY <1>8 DEF Lamps!BusRestarts, Lamps!settings
<1>4. ASSUME NEW b \in BOOLEAN, Lamps!SetEnabled(b)
      PROVE  Lamps!TypeOK'
  BY <1>4 DEF Lamps!SetEnabled
<1>5. ASSUME NEW b \in BOOLEAN, NEW s \in Signals,
             Lamps!ReloadConfig(b, s) \/ Lamps!Restart(b, s)
      PROVE  Lamps!TypeOK'
  BY <1>5 DEF Lamps!ReloadConfig, Lamps!Restart
<1>6. CASE UNCHANGED Lamps!vars
  BY <1>6 DEF Lamps!vars, Lamps!settings
<1> QED
  BY <1>1, <1>2, <1>3, <1>4, <1>5, <1>6, <1>7, <1>8 DEF Lamps!Next

\* The settings, the state in memory and in the file, the write that is under way
\* and the lamps keep their types, for any signals (AutodimService).
THEOREM LampTypes == Lamps!Spec => []Lamps!TypeOK
<1>1. Lamps!Init => Lamps!TypeOK
  BY DEF Lamps!Init, Lamps!TypeOK
<1> QED
  BY <1>1, LampTypesStep, PTL DEF Lamps!Spec

-----------------------------------------------------------------------------
(* LiveFeed: types *)

\* What may be there or not.
OrNone == Feed!Values \cup {Feed!None}

\* An entry that is there has a value.
LEMMA FeedValues ==
  /\ \A v \in OrNone : v # Feed!None => v \in Feed!Values
  /\ Feed!Values \subseteq OrNone /\ Feed!None \in OrNone
  /\ 0 \in Feed!Values /\ \A v \in Feed!Values : 1 - v \in Feed!Values
  /\ << >> \in Seq(Feed!Values) /\ Len(<< >>) = 0
  BY DEF OrNone, Feed!Values, Feed!None

LEMMA FeedEmpty ==
  /\ << >> \in Seq(Feed!Values)
  /\ Len(<< >>) <= MaxEvents /\ Len(<< >>) <= MaxSocket /\ Len(<< >>) <= MaxPage
  BY ServicesAssumption

\* What the loop or a thread is about to send is a value.
LEMMA FeedSendTypes ==
  ASSUME Feed!TypeOK, NEW v \in Feed!Values, Feed!Send(v)
  PROVE  socket' \in Seq(Feed!Values) /\ Len(socket') <= MaxSocket
<1>1. CASE accepted
  <2>1. Len(socket) < MaxSocket /\ socket' = Append(socket, v) /\ Len(socket) \in Nat
    BY <1>1 DEF Feed!Send, Feed!TypeOK
  <2> QED
    BY <2>1, QueueTypes, ServicesAssumption DEF Feed!TypeOK
<1>2. CASE ~accepted
  BY <1>2 DEF Feed!Send, Feed!TypeOK
<1> QED
  BY <1>1, <1>2 DEF Feed!TypeOK

\* A service tells of a change.
LEMMA ChangeTypes ==
  ASSUME Feed!TypeOK, Feed!Change
  PROVE  Feed!TypeOK'
<1>1. value' \in Feed!Values
  BY FeedValues DEF Feed!Change, Feed!TypeOK
<1>2. posted' \in Seq(Feed!Values) /\ Len(posted') <= MaxEvents
  <2>1. CASE feed = "queued"
    <3>1. Len(posted) < MaxEvents /\ posted' = Append(posted, value') /\ Len(posted) \in Nat
      BY <2>1 DEF Feed!Change, Feed!TypeOK
    <3> QED
      BY <1>1, <3>1, QueueTypes, ServicesAssumption DEF Feed!TypeOK
  <2>2. CASE feed # "queued"
    BY <2>2 DEF Feed!Change, Feed!TypeOK
  <2> QED
    BY <2>1, <2>2
<1>3. calling' \in OrNone
  BY <1>1, FeedValues DEF Feed!Change, Feed!TypeOK, OrNone
<1> QED
  BY <1>1, <1>2, <1>3 DEF Feed!Change, Feed!TypeOK, Feed!wire, Feed!web, OrNone

\* The loop and a detector's thread send what they have.
LEMMA LoopTypes ==
  ASSUME Feed!TypeOK, Feed!SendEvent \/ Feed!Loop
  PROVE  Feed!TypeOK'
<1> USE DEF OrNone
<1>1. calling \in OrNone /\ taken \in OrNone /\ shadow \in OrNone
  BY DEF Feed!TypeOK
<1>2. CASE Feed!SendEvent
  <2>1. socket' \in Seq(Feed!Values) /\ Len(socket') <= MaxSocket
    BY <1>1, <1>2, FeedValues, FeedSendTypes DEF Feed!SendEvent
  <2> QED
    BY <1>2, <2>1 DEF Feed!SendEvent, Feed!TypeOK, Feed!web
<1>3. CASE Feed!Drain
  <2>1. /\ Head(posted) \in Feed!Values /\ posted' \in Seq(Feed!Values)
        /\ Len(posted') = Len(posted) - 1 /\ Len(posted) \in Nat
    BY <1>3, QueueTypes, FeedValues DEF Feed!Drain, Feed!TypeOK
  <2>2. socket' \in Seq(Feed!Values) /\ Len(socket') <= MaxSocket
    BY <1>3, <2>1, FeedSendTypes DEF Feed!Drain
  <2>3. Len(posted') <= MaxEvents
    BY <2>1, ServicesAssumption DEF Feed!TypeOK
  <2> QED
    BY <1>3, <2>1, <2>2, <2>3 DEF Feed!Drain, Feed!TypeOK, Feed!web
<1>4. CASE Feed!Take
  BY <1>4 DEF Feed!Take, Feed!TypeOK, Feed!wire, Feed!web
<1>5. CASE Feed!SendSnap
  <2>1. socket' \in Seq(Feed!Values) /\ Len(socket') <= MaxSocket
    BY <1>1, <1>5, FeedValues, FeedSendTypes DEF Feed!SendSnap
  <2> QED
    BY <1>5, <2>1 DEF Feed!SendSnap, Feed!TypeOK, Feed!web
<1>6. CASE Feed!SendChange \/ Feed!SendAll
  <2>1. taken \in Feed!Values
    BY <1>1, <1>6, FeedValues DEF Feed!SendChange, Feed!SendAll
  <2>2. Feed!Send(taken) \/ UNCHANGED socket
    BY <1>6 DEF Feed!SendChange, Feed!SendAll
  <2>3. socket' \in Seq(Feed!Values) /\ Len(socket') <= MaxSocket
    BY <2>1, <2>2, FeedSendTypes DEF Feed!TypeOK
  <2> QED
    BY <1>6, <2>3 DEF Feed!SendChange, Feed!SendAll, Feed!TypeOK, Feed!web
<1> QED
  BY <1>2, <1>3, <1>4, <1>5, <1>6 DEF Feed!Loop

\* pci.web takes a line and hands it to the page.
LEMMA ClientTypes ==
  ASSUME Feed!TypeOK, Feed!Client \/ Feed!Greet
  PROVE  Feed!TypeOK'
<1> USE DEF OrNone
<1>1. CASE Feed!Connect
  BY <1>1, FeedValues, ServicesAssumption DEF Feed!Connect, Feed!TypeOK, Feed!web
<1>2. CASE Feed!Deliver \/ Feed!Skip \/ Feed!DropSlow
  <2>0. socket # << >> /\ socket' = Tail(socket)
    BY <1>2 DEF Feed!Deliver, Feed!Skip, Feed!DropSlow
  <2>1. /\ Head(socket) \in Feed!Values /\ socket' \in Seq(Feed!Values)
        /\ Len(socket') = Len(socket) - 1 /\ Len(socket) \in Nat
    BY <2>0, QueueTypes, FeedValues DEF Feed!TypeOK
  <2>2. Len(socket') <= MaxSocket
    BY <2>1, ServicesAssumption DEF Feed!TypeOK
  <2>3. CASE Feed!Deliver
    <3>1. page' \in Seq(Feed!Values) /\ Len(page') <= MaxPage
      <4>1. CASE subscribed
        <5>1. Len(page) < MaxPage /\ page' = Append(page, Head(socket)) /\ Len(page) \in Nat
          BY <2>3, <4>1 DEF Feed!Deliver, Feed!TypeOK
        <5> QED
          BY <2>1, <5>1, QueueTypes, ServicesAssumption DEF Feed!TypeOK
      <4>2. CASE ~subscribed
        BY <2>3, <4>2 DEF Feed!Deliver, Feed!TypeOK
      <4> QED
        BY <4>1, <4>2 DEF Feed!TypeOK
    <3> QED
      BY <2>1, <2>2, <2>3, <3>1 DEF Feed!Deliver, Feed!TypeOK, Feed!server
  <2>4. CASE Feed!Skip \/ Feed!DropSlow
    BY <2>1, <2>2, <2>4 DEF Feed!Skip, Feed!DropSlow, Feed!TypeOK, Feed!server, Feed!web
  <2> QED
    BY <1>2, <2>3, <2>4
<1>3. CASE Feed!EndOfFile
  BY <1>3 DEF Feed!EndOfFile, Feed!TypeOK, Feed!server, Feed!web
<1>4. CASE Feed!Greet
  <2>1. CASE greeting = Feed!Due /\ greeting' \in {value, Feed!None} /\ UNCHANGED socket
    BY <1>4, <2>1 DEF Feed!Greet, Feed!TypeOK, Feed!wire, Feed!web
  <2>2. CASE greeting \in Feed!Values /\ Feed!Send(greeting)
    <3>1. socket' \in Seq(Feed!Values) /\ Len(socket') <= MaxSocket
      BY <2>2, FeedSendTypes
    <3> QED
      BY <1>4, <3>1 DEF Feed!Greet, Feed!TypeOK, Feed!wire, Feed!web
  <2> QED
    BY <1>4, <2>1, <2>2 DEF Feed!Greet, Feed!wire
<1> QED
  BY <1>1, <1>2, <1>3, <1>4 DEF Feed!Client

\* The page opens, shows a line or leaves; the service is started again.
LEMMA PageTypes ==
  ASSUME Feed!TypeOK, Feed!Restart \/ Feed!Open \/ Feed!Show \/ Feed!Leave
  PROVE  Feed!TypeOK'
<1> USE DEF OrNone
<1>1. CASE Feed!Restart
  BY <1>1, FeedEmpty DEF Feed!Restart, Feed!TypeOK, Feed!web
<1>2. CASE Feed!Open
  BY <1>2, FeedEmpty DEF Feed!Open, Feed!TypeOK, Feed!server, Feed!wire
<1>4. CASE Feed!Leave
  BY <1>4, FeedEmpty DEF Feed!Leave, Feed!TypeOK, Feed!server, Feed!wire
<1>3. CASE Feed!Show
  <2>1. /\ Head(page) \in Feed!Values /\ page' \in Seq(Feed!Values)
        /\ Len(page') = Len(page) - 1 /\ Len(page) \in Nat
    BY <1>3, QueueTypes, FeedValues DEF Feed!Show, Feed!TypeOK
  <2>2. Len(page') <= MaxPage
    BY <2>1, ServicesAssumption DEF Feed!TypeOK
  <2> QED
    BY <1>3, <2>1, <2>2 DEF Feed!Show, Feed!TypeOK, Feed!server, Feed!wire
<1> QED
  BY <1>1, <1>2, <1>3, <1>4

LEMMA FeedTypesStep ==
  ASSUME Feed!TypeOK, [Feed!Next]_Feed!vars
  PROVE  Feed!TypeOK'
<1>1. CASE UNCHANGED Feed!vars
  BY <1>1 DEF Feed!vars, Feed!server, Feed!wire, Feed!web, Feed!TypeOK
<1> QED
  BY <1>1, ChangeTypes, LoopTypes, ClientTypes, PageTypes DEF Feed!Next

\* Queues keep their limits and whatever waits in one is something to show, for
\* any length of the events' queue, the socket and the page's queue (_push_loop,
\* _connect_and_read, _pump).
THEOREM FeedTypes == Feed!Spec => []Feed!TypeOK
<1>1. Feed!Init => Feed!TypeOK
  BY FeedValues, FeedEmpty DEF Feed!Init, Feed!TypeOK
<1> QED
  BY <1>1, FeedTypesStep, PTL DEF Feed!Spec

-----------------------------------------------------------------------------
(* RpdbDriver: types *)

LEMMA DriverTypes ==
  /\ \A pc \in {"register", "connect", "fetch", "wait", "scan", "backoff"} :
       Rpdb!At(pc) \in Rpdb!Driver /\ Rpdb!At(pc).dirty = {}
  /\ [Rpdb!At("fetch") EXCEPT !.todo = Uris] \in Rpdb!Driver
  /\ outs \subseteq Outputs => [Rpdb!At("scan") EXCEPT !.todo = outs] \in Rpdb!Driver
  BY DEF Rpdb!At, Rpdb!Driver

\* The connect thread, as long as it sends nothing.
LEMMA ConnectTypes ==
  ASSUME Rpdb!TypeOK,
         \/ Rpdb!Register \/ Rpdb!Connect \/ Rpdb!ConnectFails \/ Rpdb!StartLoops
         \/ Rpdb!Wake \/ Rpdb!Scanned0 \/ Rpdb!Close \/ Rpdb!Retry
  PROVE  Rpdb!TypeOK'
<1> USE DEF Rpdb!TypeOK, Rpdb!table, Rpdb!ctrl, Rpdb!names, Rpdb!recv, Rpdb!sent
<1>1. << >> \in Seq(Rpdb!PushType) /\ Len(<< >>) <= MaxPush
  BY ServicesAssumption
<1>2. CASE Rpdb!Register
  <2>1. drv' \in Rpdb!Driver /\ registered' \subseteq Uris
    BY <1>2, DriverTypes DEF Rpdb!Register
  <2>2. outs' \subseteq Outputs
    BY <1>2, ServicesAssumption DEF Rpdb!Register
  <2> QED
    BY <1>2, <2>1, <2>2 DEF Rpdb!Register
<1>3. CASE Rpdb!Connect
  BY <1>1, <1>3, DriverTypes DEF Rpdb!Connect
<1>4. CASE Rpdb!ConnectFails
  BY <1>4, DriverTypes DEF Rpdb!ConnectFails
<1>5. CASE Rpdb!StartLoops
  BY <1>5, DriverTypes DEF Rpdb!StartLoops
<1>6. CASE Rpdb!Wake
  BY <1>6, DriverTypes DEF Rpdb!Wake
<1>7. CASE Rpdb!Scanned0
  BY <1>7, DriverTypes DEF Rpdb!Scanned0
<1>8. CASE Rpdb!Close
  BY <1>1, <1>8, DriverTypes DEF Rpdb!Close
<1>9. CASE Rpdb!Retry
  BY <1>9, DriverTypes DEF Rpdb!Retry
<1> QED
  BY <1>2, <1>3, <1>4, <1>5, <1>6, <1>7, <1>8, <1>9

\* Batches leave the controller's outputs Boolean, and the driver's list shrinks.
LEMMA SetTypes ==
  ASSUME Rpdb!TypeOK, NEW batch \in SUBSET (Outputs \X {0, 1})
  PROVE  /\ Rpdb!Set(batch) \in [Outputs -> {0, 1}]
         /\ Rpdb!SignalsOf(batch) \subseteq Outputs
         /\ [drv EXCEPT !.dirty = @ \ batch] \in Rpdb!Driver
<1>1. ASSUME NEW o \in Outputs
      PROVE  Rpdb!Set(batch)[o] \in {0, 1}
  BY DEF Rpdb!Set, Rpdb!TypeOK
<1>2. Rpdb!Set(batch) \in [Outputs -> {0, 1}]
  BY <1>1 DEF Rpdb!Set
<1>3. Rpdb!SignalsOf(batch) \subseteq Outputs
  BY DEF Rpdb!SignalsOf
<1>4. [drv EXCEPT !.dirty = @ \ batch] \in Rpdb!Driver
  BY DEF Rpdb!TypeOK, Rpdb!Driver
<1> QED
  BY <1>2, <1>3, <1>4

LEMMA BatchTypes ==
  ASSUME Rpdb!TypeOK, NEW u \in Uris
  PROVE  Rpdb!Batch(u) \in SUBSET (Outputs \X {0, 1})
  BY DEF Rpdb!Batch, Rpdb!TypeOK, Rpdb!Driver

LEMMA RefreshTypes ==
  ASSUME Rpdb!TypeOK, NEW u \in Uris, NEW v \in {0, 1}, Rpdb!Refresh(u, v)
  PROVE  input' \in [Uris -> {0, 1}]
  BY DEF Rpdb!Refresh, Rpdb!TypeOK

LEMMA ScanTypes ==
  ASSUME Rpdb!TypeOK,
         \/ \E u \in Uris : Rpdb!Fetch(u) \/ Rpdb!SetAll(u) \/ Rpdb!SetSome(u)
         \/ \E o \in Outputs : Rpdb!Scan(o)
  PROVE  Rpdb!TypeOK'
<1> USE DEF Rpdb!table, Rpdb!ctrl, Rpdb!names, Rpdb!recv, Rpdb!sent
<1>1. ASSUME NEW u \in Uris, Rpdb!Fetch(u)
      PROVE  Rpdb!TypeOK'
  <2>1. drv' \in Rpdb!Driver
    BY <1>1 DEF Rpdb!Fetch, Rpdb!TypeOK, Rpdb!Driver
  <2>2. input' \in [Uris -> {0, 1}]
    <3>1. element[u] \in {0, 1} /\ input \in [Uris -> {0, 1}]
      BY DEF Rpdb!TypeOK
    <3> QED
      BY <1>1, <3>1, RefreshTypes DEF Rpdb!Fetch
  <2> QED
    BY <1>1, <2>1, <2>2 DEF Rpdb!Fetch, Rpdb!TypeOK
<1>2. ASSUME NEW u \in Uris, Rpdb!SetAll(u)
      PROVE  Rpdb!TypeOK'
  <2>1. /\ remote' \in [Outputs -> {0, 1}] /\ drv' \in Rpdb!Driver
        /\ unsure' \subseteq Outputs
    BY <1>2, BatchTypes, SetTypes DEF Rpdb!SetAll, Rpdb!TypeOK
  <2>2. lastSent' \in [Outputs -> {0, 1, Rpdb!Unsent}]
    BY <1>2, <2>1 DEF Rpdb!SetAll, Rpdb!TypeOK
  <2> QED
    BY <1>2, <2>1, <2>2 DEF Rpdb!SetAll, Rpdb!TypeOK
<1>3. ASSUME NEW u \in Uris, Rpdb!SetSome(u)
      PROVE  Rpdb!TypeOK'
  <2>1. PICK done \in IF reachable THEN SUBSET Rpdb!Batch(u) ELSE {{}} :
          remote' = Rpdb!Set(done) /\ unsure' = unsure \cup Rpdb!SignalsOf(done)
    BY <1>3 DEF Rpdb!SetSome
  <2>2. done \in SUBSET (Outputs \X {0, 1})
    BY BatchTypes
  <2>3. remote' \in [Outputs -> {0, 1}] /\ unsure' \subseteq Outputs
    BY <2>1, <2>2, SetTypes DEF Rpdb!TypeOK
  <2>4. drv' \in Rpdb!Driver
    BY <1>3, BatchTypes, SetTypes DEF Rpdb!SetSome
  <2> QED
    BY <1>3, <2>3, <2>4 DEF Rpdb!SetSome, Rpdb!TypeOK
<1>4. ASSUME NEW o \in Outputs, Rpdb!Scan(o)
      PROVE  Rpdb!TypeOK'
  <2>1. output[o] \in {0, 1}
    BY DEF Rpdb!TypeOK
  <2>2. drv' \in Rpdb!Driver
    <3> DEFINE found == IF output[o] # lastSent[o] THEN drv.dirty \cup {<<o, output[o]>>}
                        ELSE drv.dirty
    <3>1. found \in SUBSET (Outputs \X {0, 1})
      BY <2>1 DEF Rpdb!TypeOK, Rpdb!Driver
    <3>2. drv' = [drv EXCEPT !.todo = drv.todo \ {o}, !.dirty = found]
      BY <1>4 DEF Rpdb!Scan
    <3> HIDE DEF found
    <3> QED
      BY <3>1, <3>2 DEF Rpdb!TypeOK, Rpdb!Driver
  <2> QED
    BY <1>4, <2>2 DEF Rpdb!Scan, Rpdb!TypeOK
<1> QED
  BY <1>1, <1>2, <1>3, <1>4

\* The receive thread, and what the controller pushes.
LEMMA PushTypes ==
  ASSUME Rpdb!TypeOK,
         \/ Rpdb!Receive \/ Rpdb!Skew \/ Rpdb!ReceiveEnds
         \/ \E u \in Uris : Rpdb!Element(u) \/ Rpdb!Heartbeat(u)
  PROVE  Rpdb!TypeOK'
<1> USE DEF Rpdb!table, Rpdb!ctrl, Rpdb!names, Rpdb!recv, Rpdb!sent
<1>1. CASE Rpdb!Receive
  <2>1. pushes # << >> /\ pushes' = Tail(pushes)
    BY <1>1 DEF Rpdb!Receive
  <2>2. \E p \in Rpdb!PushType : TRUE
    BY <2>1, HeadTailProperties DEF Rpdb!TypeOK
  <2>3. /\ Head(pushes) \in Rpdb!PushType /\ pushes' \in Seq(Rpdb!PushType)
        /\ Len(pushes') = Len(pushes) - 1 /\ Len(pushes) \in Nat
    BY <2>1, <2>2, QueueTypes DEF Rpdb!TypeOK
  <2>4. Len(pushes') <= MaxPush
    BY <2>3, ServicesAssumption DEF Rpdb!TypeOK
  <2>5. input' \in [Uris -> {0, 1}]
    <3>1. Head(pushes).uri \in Uris /\ Head(pushes).value \in {0, 1}
      BY <2>3 DEF Rpdb!PushType
    <3> QED
      BY <1>1, <3>1, RefreshTypes DEF Rpdb!Receive
  <2> QED
    BY <1>1, <2>3, <2>4, <2>5 DEF Rpdb!Receive, Rpdb!TypeOK
<1>2. CASE Rpdb!Skew
  <2>1. << >> \in Seq(Rpdb!PushType) /\ Len(<< >>) <= MaxPush
    BY ServicesAssumption
  <2> QED
    BY <1>2, <2>1 DEF Rpdb!Skew, Rpdb!TypeOK
<1>3. CASE Rpdb!ReceiveEnds
  BY <1>3 DEF Rpdb!ReceiveEnds, Rpdb!TypeOK
<1>4. ASSUME NEW u \in Uris, Rpdb!Element(u)
      PROVE  Rpdb!TypeOK'
  <2>1. element' \in [Uris -> {0, 1}]
    BY <1>4 DEF Rpdb!Element, Rpdb!TypeOK
  <2> QED
    BY <1>4, <2>1 DEF Rpdb!Element, Rpdb!TypeOK
<1>5. ASSUME NEW u \in Uris, Rpdb!Heartbeat(u)
      PROVE  Rpdb!TypeOK'
  <2>1. [uri |-> u, value |-> element[u]] \in Rpdb!PushType
    BY DEF Rpdb!PushType, Rpdb!TypeOK
  <2>2. /\ pushes' = Append(pushes, [uri |-> u, value |-> element[u]])
        /\ Len(pushes) < MaxPush /\ Len(pushes) \in Nat
    BY <1>5 DEF Rpdb!Heartbeat, Rpdb!TypeOK
  <2>3. pushes' \in Seq(Rpdb!PushType) /\ Len(pushes') <= MaxPush
    BY <2>1, <2>2, QueueTypes, ServicesAssumption DEF Rpdb!TypeOK
  <2> QED
    BY <1>5, <2>3 DEF Rpdb!Heartbeat, Rpdb!TypeOK
<1> QED
  BY <1>1, <1>2, <1>3, <1>4, <1>5

LEMMA RpdbTypesStep ==
  ASSUME Rpdb!TypeOK, [Rpdb!Next]_Rpdb!vars
  PROVE  Rpdb!TypeOK'
<1> USE DEF Rpdb!table, Rpdb!ctrl, Rpdb!names, Rpdb!recv, Rpdb!sent
<1>1. CASE Rpdb!Notify
  BY <1>1 DEF Rpdb!Notify, Rpdb!TypeOK
<1>2. CASE Rpdb!Stop
  BY <1>2 DEF Rpdb!Stop, Rpdb!TypeOK
<1>3. CASE Rpdb!Return \/ Rpdb!Cut
  BY <1>3 DEF Rpdb!Return, Rpdb!Cut, Rpdb!TypeOK
<1>4. ASSUME NEW o \in Outputs, Rpdb!Write(o)
      PROVE  Rpdb!TypeOK'
  <2>1. output' \in [Outputs -> {0, 1}]
    BY <1>4 DEF Rpdb!Write, Rpdb!TypeOK
  <2> QED
    BY <1>4, <2>1 DEF Rpdb!Write, Rpdb!TypeOK
<1>5. CASE UNCHANGED Rpdb!vars
  BY <1>5 DEF Rpdb!vars, Rpdb!TypeOK
<1> QED
  BY <1>1, <1>2, <1>3, <1>4, <1>5, ConnectTypes, ScanTypes, PushTypes
     DEF Rpdb!Next, Rpdb!DriverWork

LEMMA RpdbTypesInit == Rpdb!Init => Rpdb!TypeOK
<1> SUFFICES ASSUME Rpdb!Init PROVE Rpdb!TypeOK
  OBVIOUS
<1>1. << >> \in Seq(Rpdb!PushType) /\ Len(<< >>) <= MaxPush
  BY ServicesAssumption
<1>2. drv \in Rpdb!Driver
  BY DriverTypes DEF Rpdb!Init
<1>3. lastSent \in [Outputs -> {0, 1, Rpdb!Unsent}]
  BY DEF Rpdb!Init
<1> QED
  BY <1>1, <1>2, <1>3 DEF Rpdb!Init, Rpdb!TypeOK

\* Both threads of the driver, what is noted, what is pushed and both sides'
\* signals keep their types, for any parameters and outputs (RPDBDriver).
THEOREM RpdbTypes == Rpdb!Spec => []Rpdb!TypeOK
  BY RpdbTypesInit, RpdbTypesStep, PTL DEF Rpdb!Spec

-----------------------------------------------------------------------------
(* RpdbDriver: what is noted as sent *)

\* While the controller's end of the subscription stands, a value noted for an
\* output is the one the controller has taken, unless a batch failed that may have
\* had an effect.
SentTaken ==
  intact =>
    \A o \in Outputs : lastSent[o] \in {Rpdb!Unsent, remote[o]} \/ o \in unsure

\* What a batch names is noted or unsure; the rest is left as it was.
LEMMA BatchTaken ==
  ASSUME NEW batch, NEW o \in Outputs, o \notin Rpdb!SignalsOf(batch)
  PROVE  Rpdb!Set(batch)[o] = remote[o]
<1>1. ~\E v \in {0, 1} : <<o, v>> \in batch
  BY DEF Rpdb!SignalsOf
<1> QED
  BY <1>1 DEF Rpdb!Set

LEMMA SentTakenStep ==
  ASSUME Rpdb!TypeOK, SentTaken, [Rpdb!Next]_Rpdb!vars
  PROVE  SentTaken'
<1> USE DEF SentTaken, Rpdb!table, Rpdb!ctrl, Rpdb!names, Rpdb!recv, Rpdb!sent
<1>1. CASE Rpdb!Connect
  BY <1>1 DEF Rpdb!Connect
<1>2. ASSUME NEW u \in Uris, Rpdb!SetAll(u)
      PROVE  SentTaken'
  <2> DEFINE batch == Rpdb!Batch(u)
  <2>1. /\ remote' = Rpdb!Set(batch) /\ unsure' = unsure \ Rpdb!SignalsOf(batch)
        /\ lastSent' = [o \in Outputs |->
             IF o \in Rpdb!SignalsOf(batch) THEN remote'[o] ELSE lastSent[o]]
        /\ UNCHANGED intact
    BY <1>2 DEF Rpdb!SetAll
  <2> HIDE DEF batch
  <2>2. ASSUME NEW o \in Outputs, intact
        PROVE  lastSent'[o] \in {Rpdb!Unsent, remote'[o]} \/ o \in unsure'
    <3>1. CASE o \in Rpdb!SignalsOf(batch)
      BY <2>1, <3>1
    <3>2. CASE o \notin Rpdb!SignalsOf(batch)
      BY <2>1, <2>2, <3>2, BatchTaken
    <3> QED
      BY <3>1, <3>2
  <2> QED
    BY <2>1, <2>2
<1>3. ASSUME NEW u \in Uris, Rpdb!SetSome(u)
      PROVE  SentTaken'
  <2>1. PICK done : remote' = Rpdb!Set(done) /\ unsure' = unsure \cup Rpdb!SignalsOf(done)
    BY <1>3 DEF Rpdb!SetSome
  <2>2. UNCHANGED <<intact, lastSent>>
    BY <1>3 DEF Rpdb!SetSome
  <2>3. ASSUME NEW o \in Outputs, intact
        PROVE  lastSent[o] \in {Rpdb!Unsent, remote'[o]} \/ o \in unsure'
    BY <2>1, <2>3, BatchTaken
  <2> QED
    BY <2>2, <2>3
<1>4. CASE Rpdb!Stop \/ Rpdb!Cut \/ Rpdb!Close
  BY <1>4 DEF Rpdb!Stop, Rpdb!Cut, Rpdb!Close
<1>5. CASE UNCHANGED <<intact, remote, lastSent, unsure>>
  BY <1>5
<1>6. CASE \/ Rpdb!Register \/ Rpdb!ConnectFails \/ Rpdb!StartLoops \/ Rpdb!Wake
           \/ Rpdb!Scanned0 \/ Rpdb!Retry \/ Rpdb!Notify
  BY <1>5, <1>6 DEF Rpdb!Register, Rpdb!ConnectFails, Rpdb!StartLoops, Rpdb!Wake,
                    Rpdb!Scanned0, Rpdb!Retry, Rpdb!Notify
<1>7. CASE Rpdb!Receive \/ Rpdb!Skew \/ Rpdb!ReceiveEnds \/ Rpdb!Return \/ UNCHANGED Rpdb!vars
  BY <1>5, <1>7 DEF Rpdb!Receive, Rpdb!Skew, Rpdb!ReceiveEnds, Rpdb!Return, Rpdb!vars
<1>8. ASSUME NEW u \in Uris, Rpdb!Fetch(u) \/ Rpdb!Element(u) \/ Rpdb!Heartbeat(u)
      PROVE  SentTaken'
  BY <1>5, <1>8 DEF Rpdb!Fetch, Rpdb!Element, Rpdb!Heartbeat
<1>9. ASSUME NEW o \in Outputs, Rpdb!Scan(o) \/ Rpdb!Write(o)
      PROVE  SentTaken'
  BY <1>5, <1>9 DEF Rpdb!Scan, Rpdb!Write
<1> QED
  BY <1>1, <1>2, <1>3, <1>4, <1>6, <1>7, <1>8, <1>9 DEF Rpdb!Next, Rpdb!DriverWork

\* What the driver has noted as sent is in force in the controller, while the
\* controller's end of the subscription stands, for any parameters and outputs and
\* although batches go over connections of their own: so a scan leaves out only
\* what is there already, and a new connection must forget it all
\* (_set_values_pipeline, _connect_loop).
THEOREM SentTakenAlways == Rpdb!Spec => []SentTaken
<1>1. Rpdb!Init => SentTaken
  BY DEF Rpdb!Init, SentTaken
<1> QED
  BY <1>1, RpdbTypesInit, RpdbTypesStep, SentTakenStep, PTL DEF Rpdb!Spec

-----------------------------------------------------------------------------
(* Services: the components side by side *)

\* A step of Services is, for each component, a step of its own or none.
LEMMA OneMoves ==
  ASSUME [Next]_vars
  PROVE  /\ [KernelNext]_kernelVars /\ [DetectorsNext]_detectorVars
         /\ [FilesNext]_filesVars /\ [ChannelNext]_channelVars
         /\ [Rpdb!Next]_Rpdb!vars /\ [Feed!Next]_Feed!vars /\ [Lamps!Next]_Lamps!vars
<1>1. UNCHANGED rpdb => UNCHANGED Rpdb!vars
  BY DEF rpdb, Rpdb!vars, Rpdb!table, Rpdb!ctrl, Rpdb!names, Rpdb!recv, Rpdb!sent
<1>2. UNCHANGED pages => UNCHANGED Feed!vars
  BY DEF pages, Feed!vars, Feed!server, Feed!wire, Feed!web
<1>3. UNCHANGED lamps => UNCHANGED Lamps!vars
  BY DEF lamps, Lamps!vars, Lamps!settings
<1>4. CASE Only("kernel") /\ KernelNext
  BY <1>1, <1>2, <1>3, <1>4 DEF Only
<1>5. CASE Only("zones") /\ DetectorsNext
  BY <1>1, <1>2, <1>3, <1>5 DEF Only
<1>6. CASE Only("rpdb") /\ Rpdb!Next
  BY <1>2, <1>3, <1>6 DEF Only
<1>7. CASE Only("channel") /\ ChannelNext
  BY <1>1, <1>2, <1>3, <1>7 DEF Only
<1>8. CASE Only("feed") /\ Feed!Next
  BY <1>1, <1>3, <1>8 DEF Only
<1>9. CASE Only("lamps") /\ Lamps!Next
  BY <1>1, <1>2, <1>9 DEF Only
<1>10. CASE Only("files") /\ FilesNext
  BY <1>1, <1>2, <1>3, <1>10 DEF Only
<1>11. CASE UNCHANGED vars
  BY <1>1, <1>2, <1>3, <1>11 DEF vars
<1> QED
  BY <1>4, <1>5, <1>6, <1>7, <1>8, <1>9, <1>10, <1>11 DEF Next

\* Services behaves, as far as one component can tell, as that component alone:
\* all that is proved about the component holds of Services.
THEOREM ServicesImplement ==
  Spec => /\ KernelSpec /\ DetectorsSpec /\ FilesSpec /\ ChannelSpec
          /\ Rpdb!Spec /\ Feed!Spec /\ Lamps!Spec
<1>1. Init => /\ KernelInit /\ DetectorsInit /\ FilesInit /\ ChannelInit
              /\ Rpdb!Init /\ Feed!Init /\ Lamps!Init
  BY DEF Init
<1> QED
  BY <1>1, OneMoves, PTL
     DEF Spec, KernelSpec, DetectorsSpec, FilesSpec, ChannelSpec,
         Rpdb!Spec, Feed!Spec, Lamps!Spec

\* Every variable of every component has its type, whichever component is at work.
THEOREM ServicesTypes == Spec => []TypeOK
<1>1. Init => active \in Components
  BY DEF Init
<1>2. active \in Components /\ [Next]_vars => (active \in Components)'
  BY DEF Next, Only, vars
<1>3. Spec => [](active \in Components)
  BY <1>1, <1>2, PTL DEF Spec
<1>4. /\ active \in Components
      /\ KernelTypeOK /\ DetectorsTypeOK /\ FilesTypeOK /\ ChannelTypeOK
      /\ Rpdb!TypeOK /\ Feed!TypeOK /\ Lamps!TypeOK
      => TypeOK
  BY DEF TypeOK
<1> QED
  BY <1>3, <1>4, ServicesImplement, KernelTypes, DetectorTypes, FilesTypes,
     ChannelTypes, RpdbTypes, FeedTypes, LampTypes, PTL

=============================================================================
