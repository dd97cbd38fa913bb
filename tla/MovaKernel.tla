----------------------------- MODULE MovaKernel -----------------------------
(***************************************************************************)
(* One MOVA kernel process: its inputs and outputs on the IOBus            *)
(* (src/mova/kernel_io.py), its tick loop (src/mova/kernel_main.py) and    *)
(* the commands of its socket (src/mova/ipc/server.py), one detector and   *)
(* one stage force.                                                        *)
(*                                                                         *)
(* The MOVA stream itself, pci_mova, is not in the repository: a tick      *)
(* chooses the force freely and may raise, before or after its inputs are  *)
(* read.  Its status object is taken to change in one step when a tick     *)
(* changes it.  Time is counted in halves of a tick: a tick is due every   *)
(* second half; one that starts late is followed by others closer together *)
(* until the schedule is caught up with.  Commands have threads of their   *)
(* own and no lock.                                                        *)
(***************************************************************************)
EXTENDS Naturals

CONSTANTS
  Latch,      \* _LATCH_S, in half ticks (3: 150 ms)
  MaxLate,    \* bound on late, in half ticks
  CrashLimit  \* _CRASH_LIMIT of the stream

ASSUME KernelAssumption == Latch \in Nat /\ MaxLate \in Nat /\ CrashLimit \in Nat \ {0}

VARIABLES
  detector,   \* the detector's signal on the bus
  busUp,      \* the bus answers
  demand,     \* the force's signal on the bus
  prev,       \* _DetLatch._prev
  until,      \* what is left of _DetLatch._until
  reported,   \* the detector in the kernel's buffers
  sinceEdge,  \* history: half ticks since a tick last read a rising edge, up to Latch
  force,      \* the stage force in the kernel's buffers
  prevOut,    \* _prev_out, or NoOutput
  lost,       \* history: the bus has not got prevOut: a lost write, a restart
  running,    \* _running: the loop ticks
  late,       \* how late the last tick began, against next_tick
  crashes,    \* _crash_count
  status,     \* of the stream
  loading,    \* a LOAD is at work
  starting,   \* a SET_IO 19 1 has looked at the status
  pressed,    \* history: Start was pressed for this dataset
  crossed     \* history: a LOAD came in while a SET_IO 19 1 was at work

kernelBus  == <<detector, busUp, demand>>
latch      == <<prev, until, reported, sinceEdge>>
outputs    == <<force, prevOut, lost>>
loop       == <<running, late, crashes>>
dataset    == <<status, loading, starting, pressed, crossed>>
kernelVars == <<kernelBus, latch, outputs, loop, dataset>>

NoOutput == 2
Ages == 0..(2 + MaxLate)
\* "started" stands for NO_CRB, which Start sets, and what the library makes of it.
Statuses == {"no_dataset", "init", "not_started", "started", "failed_restart"}
-----------------------------------------------------------------------------
KernelInit ==
  /\ detector = 0 /\ busUp = TRUE /\ demand \in {0, 1}
  /\ prev = 0 /\ until = 0 /\ reported = 0 /\ sinceEdge = Latch
  /\ force = 0 /\ prevOut = NoOutput /\ lost = FALSE
  /\ running = TRUE /\ late = 0 /\ crashes = 0
  /\ status = "no_dataset" /\ loading = FALSE /\ starting = FALSE
  /\ pressed = FALSE /\ crossed = FALSE

-----------------------------------------------------------------------------
(* The tick loop *)

\* BATCH reads zeros while the bus is away.
Raw == IF busUp THEN detector ELSE 0

Age(n, age) == IF n + age > Latch THEN Latch ELSE n + age

\* Faulty variant of Latched: shorter than a tick.
LatchedShort(edge, age) == IF edge THEN 1 ELSE IF until > age THEN until - age ELSE 0

\* _DetLatch: a rising edge holds the detector for _LATCH_S.
Latched(edge, age) == IF edge THEN Latch ELSE IF until > age THEN until - age ELSE 0

\* read_inputs, when the last time is age half ticks ago.
ReadInputs(age) ==
  LET edge == Raw = 1 /\ prev = 0 IN
  /\ until' = Latched(edge, age)
  /\ prev' = Raw
  /\ reported' = IF Raw = 1 \/ until' > 0 THEN 1 ELSE 0
  /\ sinceEdge' = IF edge THEN 0 ELSE Age(sinceEdge, age)

\* Faulty variant of Unwritten: what was never written counts as off.
UnwrittenOn == force' # (IF prevOut = NoOutput THEN 0 ELSE prevOut)

Unwritten == force' # prevOut

\* write_outputs: only what has changed, and noted even if the write is lost.
WriteOutputs ==
  /\ prevOut' = force'
  /\ IF Unwritten THEN lost' = ~busUp /\ demand' = IF busUp THEN force' ELSE demand
     ELSE UNCHANGED <<lost, demand>>

\* A tick begins age half ticks after the last, never before it is due: next_tick
\* goes on by one tick each time, whenever the tick begins.
Begin(age) ==
  /\ running
  /\ late + age \in 2..(2 + MaxLate)
  /\ late' = late + age - 2

\* A tick that succeeds.  The library starts a dataset that nothing holds.
Tick(age) ==
  /\ Begin(age)
  /\ ReadInputs(age)
  /\ force' \in {0, 1}
  /\ WriteOutputs
  /\ crashes' = 0
  /\ status' \in {status} \cup IF status = "init" THEN {"started"} ELSE {}
  /\ UNCHANGED <<detector, busUp, running, loading, starting, pressed, crossed>>

\* Faulty variant of GoesOn: one crash too many.
GoesOnOnce == crashes' <= CrashLimit

GoesOn == crashes' < CrashLimit

\* A tick that raises, after its inputs or before.  At the limit the loop ends,
\* and the process with it.
TickRaises(age) ==
  /\ Begin(age)
  /\ \/ ReadInputs(age)
     \/ /\ until' = Latched(FALSE, age) /\ sinceEdge' = Age(sinceEdge, age)
        /\ UNCHANGED <<prev, reported>>
  /\ crashes' = crashes + 1
  /\ running' = GoesOn
  /\ status' = IF running' THEN status ELSE "failed_restart"
  /\ UNCHANGED <<kernelBus, outputs, loading, starting, pressed, crossed>>

\* The process is started again.
Restart ==
  /\ prev' = 0 /\ until' = 0 /\ reported' = 0 /\ sinceEdge' = Latch
  /\ force' = 0 /\ prevOut' = NoOutput /\ lost' = FALSE
  /\ running' = TRUE /\ late' = 0 /\ crashes' = 0
  /\ status' = "no_dataset" /\ loading' = FALSE /\ starting' = FALSE
  /\ pressed' = FALSE /\ crossed' = FALSE
  /\ UNCHANGED kernelBus

-----------------------------------------------------------------------------
(* Commands *)

\* LOAD: the stream takes the dataset and its status is "init" ...
Load ==
  /\ running /\ ~loading
  /\ loading' = TRUE
  /\ status' = "init"
  /\ pressed' = FALSE
  /\ crossed' = starting
  /\ UNCHANGED <<kernelBus, latch, outputs, loop, starting>>

\* Faulty variant of Loaded: as the library's start() would.
LoadedRuns ==
  /\ running /\ loading
  /\ loading' = FALSE
  /\ UNCHANGED <<kernelBus, latch, outputs, loop, status, starting, pressed, crossed>>

\* ... until start(), overridden, holds it.
Loaded ==
  /\ running /\ loading
  /\ loading' = FALSE
  /\ status' = "not_started"
  /\ UNCHANGED <<kernelBus, latch, outputs, loop, starting, pressed, crossed>>

\* SET_IO 19 1, the Start button: looks at the status ...
Press ==
  /\ running /\ ~starting /\ status = "not_started"
  /\ starting' = TRUE
  /\ pressed' = TRUE
  /\ UNCHANGED <<kernelBus, latch, outputs, loop, status, loading, crossed>>

\* ... and sets it.
PressSets ==
  /\ running /\ starting
  /\ starting' = FALSE
  /\ status' = "started"
  /\ UNCHANGED <<kernelBus, latch, outputs, loop, loading, pressed, crossed>>

\* SET_DET lasts until the next tick.
SetDetector ==
  /\ running
  /\ reported' \in {0, 1}
  /\ UNCHANGED <<kernelBus, prev, until, sinceEdge, outputs, loop, dataset>>

-----------------------------------------------------------------------------
(* The bus *)

Vehicle ==
  /\ detector' = 1 - detector
  /\ UNCHANGED <<busUp, demand, latch, outputs, loop, dataset>>

Reach ==
  /\ busUp' = ~busUp
  /\ UNCHANGED <<detector, demand, latch, outputs, loop, dataset>>

\* pci.iobus is started again, with all its signals off.
BusRestarts ==
  /\ demand' = 0
  /\ lost' = (prevOut # NoOutput)
  /\ UNCHANGED <<detector, busUp, latch, force, prevOut, loop, dataset>>

-----------------------------------------------------------------------------
KernelNext ==
  \/ \E age \in Ages : Tick(age) \/ TickRaises(age)
  \/ Restart
  \/ Load \/ Loaded \/ Press \/ PressSets \/ SetDetector
  \/ Vehicle \/ Reach \/ BusRestarts

-----------------------------------------------------------------------------
KernelSpec == KernelInit /\ [][KernelNext]_kernelVars

\* Every variable has its type.
KernelTypeOK ==
  /\ {detector, demand, prev, reported, force} \subseteq {0, 1} /\ prevOut \in {0, 1, NoOutput}
  /\ until \in 0..Latch /\ sinceEdge \in 0..Latch
  /\ late \in 0..MaxLate /\ crashes \in 0..CrashLimit
  /\ busUp \in BOOLEAN /\ lost \in BOOLEAN /\ running \in BOOLEAN /\ loading \in BOOLEAN
  /\ starting \in BOOLEAN /\ pressed \in BOOLEAN /\ crossed \in BOOLEAN
  /\ status \in Statuses

\* A vehicle that one tick has seen stays in the kernel's buffers for 150 ms,
\* also when the bus goes away, ticks are late, caught up with or raise (_DetLatch.apply).
PulseHeld ==
  [][(\E age \in Ages : Tick(age)) /\ reported = 1 /\ reported' = 0 => sinceEdge' >= Latch]_kernelVars

\* The outputs on the bus are those the kernel believes it has written, also
\* after it has been started again over the outputs of the last process, unless
\* a write was lost or the bus restarted (write_outputs).
OutputsTold == prevOut # NoOutput /\ ~lost => demand = prevOut

\* A loaded dataset runs only once Start was pressed for it, whatever ticks come
\* between the steps of LOAD, unless the button for the last one was still at
\* work (_PciMovaStream.start, _dispatch).
StartedByHand == ~loading /\ status \in {"init", "started"} => pressed \/ crossed
=============================================================================
