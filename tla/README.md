# A TLA+ model of the PCI platform

The PCI platform runs a road junction. It takes demands from detectors, bus
priority telegrams and a remote traffic control centre, runs the MOVA adaptive
algorithm, and drives a traffic light controller. It is a set of Python
processes around one signal bus. This directory holds TLA+ modules of the parts
whose correctness rests on threads, sockets and time, the TLC configurations
that check them, and TLAPS proofs of the main invariants.

Line numbers below are of the Python files under `src/`. `PROJECT.json` lists
for every definition the lines it models.

## 1. The system

### Components

| Component | Source | State it keeps | Operations |
|---|---|---|---|
| signal table and command socket | `iobus/server.py` | raw values, owners, conditioning, subscribers | register, write, read, subscribe; HELLO, W, BATCH, SNAP, PING |
| live push | `iobus/server.py` | connected clients | accept, one JSON line per change |
| GPIO driver | `iobus/driver_gpio.py` | last input values, dead pins | poll inputs, write outputs on change |
| XKOP driver | `iobus/driver_xkop.py` | connection, `_last_sent`, event, last time heard | connect, zero inputs, send loop, receive loop |
| RPDB driver | `iobus/driver_rpdb.py` | two connections, name maps, `_last_sent` | register inputs at run time, subscribe, pipelined SET_VALUE |
| simulator, recorder | `iobus/driver_sim.py`, `driver_recorder.py` | none that matters | demand patterns, a log |
| IOBus client | `shared/iobus_client.py` and each service's `iobus_client.py` | socket, lock; poll cache in pci.ug405 | batch, write, reconnect every second |
| pci.ug405 control | `ug405/service.py` | operation mode, time of the last SET, jitter grace | SNMP SET/GET, watchdog, standalone drop |
| pci.ug405 RBE | `ug405/protocol/rbe.py` | pending changes, last values sent, backlog counter | INFORM with retry, hold-off, keepalive |
| pci.ug405 SCOOT | `ug405/protocol/scoot.py` | sample counts per detector | sample every 250 ms, pack, report |
| pci.offline | `offline/service.py` | active plan, last offset, opMode as pushed by pci.ug405 | tick every second, zero on stand-down, reload |
| pci.rtig | `rtig/service.py` | rules, timers of running pulses | receive a telegram, pulse, expire |
| MOVA kernel | `mova/kernel_io.py`, `kernel_main.py` | detector latch, last outputs, crash count | 100 ms tick: read, run, write changes |
| pci.agd, pci.flir | `agd/service.py`, `flir/service.py` | zone states per unit, faulted units | frames and events, `any_*` summaries |
| pci.autodim | `autodim/service.py` | dim state (also in a file), enabled | 30 s tick, enable, reload |
| IPC servers and clients | `*/ipc/*.py` | push clients, event queue | snapshot every second, events, commands |
| pci.web | `web/` | websocket subscribers | forward commands, edit configuration files |

### How they interact

Every service holds one connection to pci.iobus and sends one request at a
time over it; pci.iobus serves each connection with a thread of its own. A
write changes the table under its lock and then, with the lock released, runs
the callbacks of the driver and the live push on the writer's thread. Drivers
run as threads inside pci.iobus. Each service also has a push socket (snapshots
and events) that pci.web and, for the operation mode, pci.offline read.

The control signals have two owners, pci.ug405 and pci.offline. The bus does
not arbitrate between them: they take turns by operation mode.

### What is hard

* Threads with no common lock: the SNMP thread, the watchdog and the RBE threads
  share `op_mode`, `_opmode2_time` and the backlog counter, and every bus write
  is a round trip during which the others run.
* Callbacks after the unlock: changes of one signal may be reported out of order.
* Timers that can no longer be cancelled but have not run yet.
* Connections that are lost, on the bus and to the controller. What one side
  believes it has sent is then out of date.
* Write-on-change caches (`_last_sent`, `_prev_out`, `_prev`) beside a table
  that may restart from zero.

`PROJECT.json` lists the hazards one by one, each with the properties that
would catch it or the reason why none does. Several have no property because the
code really has the defect: the model lets it happen, and the property nearest to
it excepts exactly that.

### What makes each component correct

* *Table*: only owners change a signal; subscribers end up with what readers see.
* *XKOP*: the controller's outputs follow the table's and no change is slept
  through; inputs are never older than the connection.
* *ug405 control*: the mode climbs step by step; control bits are off outside
  UTC control; a command is taken without dropping all demands on the way; a
  silent instation loses control.
* *Pulses*: every pulse ends, and not before its time.
* *RBE*: the instation learns of every lasting change; one that answers nothing
  costs the outstation its mode.
* *offline*: the plan's bits are on the bus while it is active and pci.ug405's
  are left alone while it is not; a plan that ends leaves nothing on.
* *RPDB*: inputs and outputs come to agree with the controller's, on a
  connection that stays up.
* *Kernel IO*: outputs on the bus are those the kernel believes it has written;
  a vehicle that was seen is held; a dataset runs only when it was started.
* *agd, flir*: the summary is the OR of the zones once frames stop, and is not on
  for the sake of a unit in fault.
* *autodim*: an enabled controller ends up with the lamps as the sun has them.
* *Live sockets*: a page, and the mode tracker, end up with what the service has;
  a page that does not read holds nobody up.
* *Configuration*: a service runs with what was saved last; neither writer of
  `ug405.cfg` loses what the other has written.

## 2. Modules

| Module | Models | Checked by | Proofs |
|---|---|---|---|
| `SignalTable` | `SignalTable`, `IOBusServer._handle`, callbacks | `MCSignalTable` | `SignalTableProofs` |
| `UG405OpMode` | the MIB's `setValue`s, `_watchdog`, `_drop_to_standalone` | `MCUG405OpMode` | `UG405OpModeProofs` |
| `UtcControl` | what pci.ug405 promises of mode and control signals (abstract) | implemented by `UG405OpMode` | `UtcControlProofs` |
| `OfflineHandover` | `OfflinePlanService`, composed with `UtcControl` | `MCOfflineHandover` | `OfflineHandoverProofs` |
| `PulseEngine` | `PulseEngine` on `threading.Timer` | `MCPulseEngine` | `PulseEngineProofs` |
| `XkopDriver` | `XKOPDriver` and the controller | `MCXkopDriver` | `XkopDriverProofs` |
| `RbeSender` | `RBEService`, `UG405IOBus`'s poll loop, the instation | `MCRbeSender` | `RbeSenderProofs` |
| `RpdbDriver` | `RPDBDriver` and the controller | `MCServices` | `ServicesProofs` |
| `ModeView` | what the mode tracker may rely on (abstract) | implemented by `ModeChannel` | `ServicesProofs` |
| `ModeChannel` | pci.ug405's live socket and `UG405OpModeTracker` | `MCServices` | `ServicesProofs` |
| `LiveFeed` | the services' live sockets, pci.web's clients and pumps | `MCServices` | `ServicesProofs` |
| `MovaKernel` | `KernelIO`, `_PciMovaStream`, the kernel's commands | `MCServices` | `ServicesProofs` |
| `Detectors` | `AGDService`, `FLIRService` | `MCServices` | `ServicesProofs` |
| `Dimming` | `AutodimService` | `MCServices` | `ServicesProofs` |
| `ConfigFiles` | the writers and readers of configuration files | `MCServices` | `ServicesProofs` |
| `Services` | the seven components above from `RpdbDriver` on, side by side | `MCServices` | `ServicesProofs` |

`Services` holds the seven components that are small, side by side. They share
no variable. `active` names the one whose steps are taken, the others stay in one
initial state, so the state space is the sum of the seven and not their product.
`MovaKernel`, `Detectors`, `ConfigFiles` and `ModeChannel` are extended and their
specifications have names of their own (`KernelInit`, `DetectorsNext`, `FilesSpec`,
`channelVars`); the other three are instances. `MCServices` gives the constants their
values.

### SignalTable

`values`, `owners` and `identity` are `_values`, `_owners` and `_handle`'s local
variable. `job` is the position of a thread in `write()`: the signal, the
conditioned value it computed under the lock, and the callbacks still to run.
`Write` is the locked part and `Notify` one callback, which may fail. Rejected
writes and writes of the value already there change nothing and are left out.
`scale=N` is a rational number, rounded down as `int()` does for naturals.
`delivered` and `lost` record what each subscriber was told. `Disconnect` waits
until the thread is idle, because the thread reads the next line only after the
callbacks; a thread's next connection is the same thread in the model.

### UG405OpMode

`snmp` and `dog` are program counters of the two threads. `snmp.todo` is the rest of
the loop over the signals, `dog.then` the check that follows a drop. An SNMP
SET is cut at every access to shared state: `SetMode` reads the mode and tests
the step, `AssignMode` assigns it, `StampMode` takes the time, `ZeroForMode`
writes one 0, `StartGrace` sets `_opmode2_time`. A bitmask SET reads the mode
again for each bit in both passes (`Raise`, `RaiseWrite`, `Clear`,
`ClearWrite`). A single-signal SET reads it once (`EvalSingle`,
`SingleWrite`). `Wake`, the three `Check`s and `ResetBacklog` are the
watchdog's round, `Drop`, `Fall`, `Forget` and `ZeroForDrop` the standalone drop.

Time is counted in watchdog periods. `since` stops counting beyond the largest
timeout, where it can no longer matter. The jitter check may find a jump
or not whenever its grace period has been started: its length is not modelled.
`backlog` is the RBE counter above its limit, which can come true at any time.
`link` is the IOBus connection. A write without it is lost and its signal becomes
`astray`, and so does a signal that was on when pci.iobus restarted. `calm` is
history: no drop was under way at any time since the present SET began.

### UtcControl

The abstract specification of pci.ug405: mode, bits, for each thread the signals
it has still to zero, and the signal a command is about to put on. A thread that
takes the mode below 3 owes the zeroing of every control signal; a signal is only
put on by a command that found mode 3. `ImplementsUtcControl` (in
`UG405OpMode`) is the refinement: `ZeroingOf` reads the debt off the two program
counters, `Raising` the decision taken.

### OfflineHandover

`tick` is the tick's position with what it has looked up; `Tick`, `LoadFile`,
`Look`, `Activate`, `Apply`, `Write` follow `tick()`, `_load_plan_file`,
`_resolve_timetable`, `_apply_offsets`; `Stop` and `Stopped` are the branch that
stands down. `tick()` copies the configuration once for the whole tick, which is
`tick.conf`. `Apply` notes the offset before its writes, as the code does; every
write is a step and may be lost. What is left to write is a set of rank, signal
and value, taken by rank (`Upcoming`): for one bitmask field after the other the
bits that go on and then those that go off, the single fields last, in the order of
`_SINGLE_FIELDS`. `BITMASK_CONTROL` is a Python set, so the order of the bitmask
fields is the process's own; an offset lists its masks in that order, which may
be any. `Reload` and `ReloadFile` are the two parts of
`reload()`, which runs in a thread of the command socket. `UtcStep` is any step
of `UtcControl`, including a restart of pci.iobus; `UtcRestarts` starts pci.ug405
anew with the signals left as they were. `tracked` may show any mode:
`ModeChannel` says when it shows the right one.

Three histories say what is excused. `astray`: signals somebody else changed, or
whose write was lost. `forgot`: the state was cleared while a plan was active,
which is the defect of `handover_clean`. `mixed`: a tick came between RELOAD's
clearing and its loading, or had looked up the plan before, and takes the old
plan for the new one.

### PulseEngine

`timers` is `_timers`. `timer` holds the timer objects: `armed` while
`cancel()` still works, `fired` once it does not, `popped` after `_expire` has
released the lock. `Pulse` is one step: everything in it happens under the lock,
and the only concurrent effect on the signal is the 0 of a `popped` timer,
which is ordered before or after the pulse's own write by the IOBus client's
lock. `last` is history: the timer of the last pulse and whether no earlier
timer could still write at that point.

### XkopDriver

`drv` is the connect thread: connecting, zeroing inputs, waiting, clearing the
event, comparing one output after the other (`Scan`), sending batches, and the
checks at the end of a round. The receive thread is `receiving`. `notify` holds
the writers between their table write and the driver's callback, as in
`SignalTable`. `wire` is a bounded FIFO of packets. `open` says whether the
controller is still there; after `Leave` the driver's sends vanish or fail.
`remote` is what the controller took. Values are cut to 16 bits as
`_make_packet` does. `Wake` also covers the end of the keepalive interval.

### RbeSender

`prev` and `changed` are the poll thread: `Poll` compares a BATCH with `_prev`,
`Report` is the callback for one change. `thread` has a record for the send
thread and one for the keepalive thread: `batch` is what the INFORM is about and
what `Note` puts into `_last_sent`, `carry` is what the packet says, read bit by
bit (`ReadBit`) from a bus that may change in between. `Answered`, `Unanswered`,
`Note`, `CountLess` and `CountMore` are the parts of `_send_inform`; the two
counting steps write from a value read one step earlier, because the counter has
no lock. The counter has no upper bound, here or in the code. `MaxDepth` only keeps
TLC's state space finite: a thread that has given up an INFORM reads the counter
while it is below `MaxDepth`, which lies above the limit at which the watchdog
acts, so the threshold is crossed and the counter cleared as in the code.

`link` has three values, since `batch()` only notices a dead server at its next
call: a `stale` client still counts as connected, and its next read gives zeros
and closes the socket. If the server dies during a read, the empty line gives an
empty list and the caller's `[0]` raises: the thread is `dead` for good
(`ReadCut`). The hold-off applies to any field that has had an INFORM and may be
over or not; a keepalive may be due at any time.

### RpdbDriver

`drv` is the connect thread: registering, connecting, fetching, waiting,
scanning one output after the other (`Scan`), sending the batch of a parameter
(`SetAll`, `SetSome`), backing off. `Register` may succeed for some parameters
only; the code asks again only while nothing at all is registered. A signal that
signals.cfg gives to a service (`foreign`, any set of them) cannot be registered, is
put into `_input_signals` all the same, and every write to it is refused
(`Refresh`). `Fetch` and the batches use connections of their own and may fail
alone. A batch that fails may have had its effect on the controller, which `unsure`
records. `Skew` is a receive timeout in the middle of a frame; what follows means
nothing, is left out, and lasts until the stream ends.

The controller is not held to the driver's pace. An element changes at any time, also
while pushes are on the way, so the first fetch may read a newer value than a push
that is delivered after it; the controller may stop and be back, or end the session
(`Cut`), before the driver has noticed anything. `intact` is its end of the
subscription's connection, `connected` the driver's.

### ModeChannel and ModeView

The mode reaches pci.offline as a queued event, as a snapshot of the push loop
and as the greeting of a new client, by three threads over one socket. `untold`,
`events`, `snap`, `hello` and `stream` are the places where a mode can wait.
`ModeView` says what this comes to: when nothing that is on the way disagrees with
the mode, the tracker can only turn to the mode, or to 1 without a connection, and
only a change of mode can put something on the way that disagrees.
`ImplementsModeView` is the refinement, with `settled` read off the five places.

### LiveFeed

One service, one connection of pci.web and one page. `kind` chooses among the
three designs found in the seven services: "queued" (ug405, rtig, autodim,
offline), "kernel" (mova), "direct" (agd, flir). `PROJECT.json` maps each
definition to one of the copies; the others read alike. `Send` is `sendall` on a
socket that holds `MaxSocket` lines. A page without room loses a line ("direct")
or is taken off the list without being told (`DropSlow`). `Show` is the pump with the
page's decoding. For "direct" it shows nothing: those clients queue the line
as text, the pump encodes it again, and the page, which decodes once, gets a string.
`PageFollows` therefore speaks of the other two designs, `NeverHeldUp` of "direct".

### MovaKernel

`detector` and `demand` are one detector and one stage force on the bus. The MOVA
algorithm chooses the force. Time is counted in halves of a tick; `age` is the
time between the beginnings of two ticks and `late` how far a tick begins behind
`next_tick`, which goes on by one tick each time: after a late tick the next ones
come closer together until they have caught up (`Begin`), the loop never skips one.
`until` is `_DetLatch._until` as what is left of it. `prevOut` is `_prev_out`; `lost` records
that the bus has not got it. LOAD and Start are cut where another thread may run:
pci_mova's `load` calls `start`, which `_PciMovaStream` overrides to hold the
stream, and Start tests the status before it sets it. Two assumptions concern
pci_mova, which is not in the repository: that a tick's change of the status is one
step, and that a dataset does not leave NOT_STARTED by itself. Two LOADs at one time
are left out.

### Detectors

A thread per unit, one zone per unit. `Frame`, `Silence` (agd) and `Event` (flir)
write the zone and begin `_update_globals`, which reads the zones one by one
(`ReadZone`, up to the first that is on, as `any()` does) and writes
any_detected (`WriteAny`). `BadFrame` is a line that cannot be parsed: it ends a
fault and tells nothing of the zone. `raced` and `lost` excuse what the missing lock
and a missing bus do. As committed neither service gets as far as its threads (see
the findings); the model is of what lies behind that call.

### Dimming

`Tick` is the part of `tick()` under the lock, `Write` the write that follows
without it, so the settings may change in between.

### ConfigFiles

A file has the user's part and the instation's (`LIVE`), each 0, 1 or lost. A
writer is a record: where it is, what it is going to write, and whether it was
alone. `Post` to `Save` is a POST to pci.web, which writes without awaiting anything.
The request to reload is sent by a thread of the executor while the handler awaits
it, so other POSTs may come before it: `asks` counts those still to be sent, `Ask`
sends one.
`SetLive` to `Persist` is `persist_live`; `ReloadRead` and `ReloadApply` are a
command thread of pci.autodim or pci.rtig. `kind` tells the files that are
reloaded from `ug405.cfg`, which has two writers. `Start` to `Listen` is the
time between reading the file and serving commands, in which a request is missed.

## 3. Runs

| Run | Instance | Checks | States |
|---|---|---|---|
| `signal_table` | 3 signals, 2 connections, the driver's thread, 2 subscribers | `TypeOK`, `MirrorCoherent`, `ConfiguredOwnersOnly` | 285,000 |
| `opmode` | a field of two bits and a single one, timeout 1 | `TypeOK`, `BitmaskOff`, `AntiDrop`, `CommandTaken`, `OneStepUp` | 2,650,000 |
| `opmode_live` | one bit, one single field, timeouts 0 and 1 | `SilenceEndsControl`, `ImplementsUtcControl` | 515,000 |
| `opmode_controls` | as `opmode` | `ControlsOff` (violated) | |
| `pulse` | 2 signals, 3 timers, pulses of 2 ticks | `TypeOK`, `OnHasTimer`, `CleanPulseFull`, `OffAgain` | 297,000 |
| `pulse_full` | as `pulse` | `PulseFull` (violated) | |
| `xkop` | 2 outputs, 1 input, 1 writer, batches of 1, a wire of 1 | `TypeOK`, `NoLostWakeup`, `InputsOfThisConnection`, `RemoteConverges`, `DeadIsNoticed` | 141,000 |
| `rbe` | 1 inverted signal, no retries, depth limit 1 | `TypeOK`, `InstationFollows`, `BacklogDrops` | 782,000 |
| `rbe_unchanged` | 2 signals, one of them inverted | `UnchangedIsTold` (violated) | |
| `handover` | a bit and a single field, 2 plan files and a broken one, 2 days | `TypeOK`, `LeavesNothingOn`, `PlanShown` | 1,721,000 |
| `handover_clean` | as `handover` | `StandsDownClean` (violated) | |
| `services` | one of everything, 2 units, 2 command threads, queues of 1 or 2 | `TypeOK` and 14 properties, below | 182,000 |

What `services` checks, by component:

| Component | Properties |
|---|---|
| `RpdbDriver` | `InputsFollow`, `OutputsFollow` |
| `ModeChannel` | `ImplementsModeView`, `TrackerFollows` |
| `LiveFeed` | `PageFollows`, `NeverHeldUp` |
| `MovaKernel` | `OutputsTold`, `StartedByHand`, `PulseHeld` |
| `Detectors` | `AnyAgrees`, `AnyBacked` |
| `Dimming` | `DimFollows` |
| `ConfigFiles` | `SettingsFollow`, `EditsKept` |

Why the bounds are enough:

* `signal_table`: ordering needs two writers, and independence of failures two
  subscribers. The three signals stand for the cases of ownership: one owner,
  several owners, registered at run time. One is inverted and two are scaled.
* `opmode`: two bits are needed for a gap between clearing one and setting the
  other, and the single field has a code path of its own. Timeout 1 lets it
  expire at every point of a request. The live run leaves out the jitter check,
  which could only drop the mode sooner. It keeps the single field, which the
  refinement needs, but `SilenceEndsControl` concludes about bitmask fields only:
  for single ones it is false (`opmode_controls`).
* `pulse`: three timers let one be fired and one popped while a third is armed.
  A pulse that finds no timer object free is not taken.
* `xkop`: with a batch of one and two outputs a scan needs two packets, so a
  connection can end between them. A wire of one makes the buffer full. Output
  values 0 and 65537 differ in more than the 16 bits that are sent.
* `rbe`: signals in fields of their own do not meet, except in the order in which
  one thread reads them, which the violated run has. A retry repeats the same
  packet. A depth limit of 1 needs two failures, so that a count can get lost;
  `MaxDepth` 3 leaves room above it for both threads to count further before the
  watchdog looks.
* `handover`: two signals are needed for an offset that is partly written. The
  plans differ in what they name: one puts the single field on and never off. The
  timetable has an entry that starts before another, one for another day and one
  without a plan; one file has mode 3 among its active modes, which the code must
  ignore. pci.ug405 has one thread here: a second one would change signals in more
  modes, but what pci.ug405 changes is astray in any mode.
* `services`: `RpdbDriver` with one parameter and one output, since parameters do
  not meet, and two pushes on the way, so that they can differ from each other, from
  the element and from what the first fetch has read. `ModeChannel` with two queued events, which can be in the wrong order,
  and a socket that one line fills. `LiveFeed` with queues of one, so that all of
  them fill. `MovaKernel` with a latch of one and a half ticks, as 150 ms are, and
  ticks up to half a tick late, hence gaps of one to three halves; the limit of two
  crashes takes one to be forgiven.
  `Detectors` with two units, the fewest that can race. `ConfigFiles` with two
  command threads, for the same reason, and two requests still to be sent, so that an
  edit can be saved while the request for the last one waits.

Fairness:

* `UG405OpMode`: a thread with work goes on with it (both are ordinary threads
  whose calls have timeouts) and time passes. Requests, backlogs and outages
  need not happen.
* `PulseEngine`: every timer thread runs and time passes.
* `XkopDriver`: the connect thread, the end of the receive thread, callbacks,
  deliveries and time. `Connect` is part of the connect thread's work: the
  liveness properties assume a controller that accepts a connection sooner or
  later, and `RemoteConverges` only says anything while the connection stays.
* `RbeSender`: the keepalive thread and the watchdog run. The poll and the send
  thread may stop anywhere: the keepalive repairs what they miss. The properties
  excuse a mode, a link or an instation that fails again and again, and a thread
  that died.
* `OfflineHandover` has none: its properties are invariants.
* `Services`: a condition of fairness names one thread of each component; only
  those of the active one can take steps, so it comes to fairness for each
  thread. Weak fairness: the RPDB driver's connect and receive threads, the
  callbacks; the threads of pci.ug405 that announce a mode, its push and
  accept threads, the tracker; the feed's loop, greeting and client; autodim's tick
  and its write. Strong fairness, since another sender may fill the socket or take
  the lock again and again: the RPDB controller's heartbeat
  (`driver_rpdb.py` subscribes with one), the snapshots of `ModeChannel` and
  `LiveFeed` (these three in one condition of `Senders`, of which only the active
  component's can happen), and the event of a detector's thread. Nobody has to open a page, to
  save a file, to switch a controller on or to send a frame, and nothing has to fail.
  A page that stays open may stop reading, which `PageFollows` excuses and
  `NeverHeldUp` does not need.

### Findings

* **Single control signals** (`opmode_controls`). `ControlSingle.setValue` looks
  at the mode once. If the watchdog drops to standalone between that and the
  write, a control signal stays on in standalone until the next change of mode.
  Bitmask fields look again before each write of the second pass and are
  safe (`BitmaskOff`).
* **Cut pulses** (`pulse_full`). A pulse that arrives between a timer's firing
  and its write of 0 loses its output at once.
* **Changes taken for old ones** (`rbe_unchanged`). `_last_sent` records the
  batch, not the packet. A keepalive records inverted values there, which the send
  thread then compares with raw ones; and a bit can change between the moment it
  is noted and the moment it is read for the packet, inverted or not. In both
  cases a change is suppressed, and the instation is wrong until a keepalive
  (`InstationFollows`), or for good if keepalives are off.
* **A plan that is forgotten** (`handover_clean`). When the plan file has changed,
  and on RELOAD, pci.offline clears `_active_plan` and only then looks at the mode.
  If that is 3 by now, it has no active plan to stand down and zeroes nothing: what
  the plan had put on stays on in UTC control, until pci.ug405 changes it. The same
  happens when no plan is due any more. Without such a clearing nothing is left on
  (`LeavesNothingOn`).

Two more have no run, since no property of the model speaks of them and a reader
finds each in one place:

* **The pages of pci.agd and pci.flir show nothing.** `agd/ipc/client.py:48` and
  `flir/ipc/client.py` queue each line as it comes, `web/api/ws/live.py:75` applies
  `json.dumps` to it, and `agd.html:268` and `flir.html:233` parse once: `data` is a
  string and `data.t` undefined. `LiveFeed.Show` has it so.
* **pci.agd and pci.flir do not start.** `agd/service.py:286` and
  `flir/service.py:229` call `io.connect()`, whose wrapper calls
  `IOBusClient.connect`; `shared/iobus_client.py` has no such method.

The properties also name, as what they except, defects of lesser weight. No property
that the code satisfies would catch them, so those among the hazards of
`PROJECT.json` are listed there without one: the callbacks of two owners of one
signal in the wrong order (`MirrorCoherent` speaks of signals with one writer); a
mode that goes from 1 to 3 when a drop cuts into the request (`OneStepUp`); a plan's
signals that pci.ug405 has zeroed, whose write was lost, or that belong to the plan
before a RELOAD (`PlanShown`); any_detected after two updates side by side
(`AnyAgrees`); crossing reloads (`SettingsFollow`); two writers of `ug405.cfg` at
one time, and a crash that leaves a file empty (`EditsKept`, `SettingsFollow`); a
subscription that keeps losing its frame boundaries, and RPDB signals that a service
owns (`InputsFollow`); a batch of SETs that failed but had an effect
(`OutputsFollow`); parameters whose registration failed alone; kernel outputs whose
write was lost (`OutputsTold`).

## 4. Proofs

All proofs are checked by `tlapm` for every value of the constants the modules'
assumptions allow: `SignalTableAssumption`, `OpModeAssumption`,
`UtcControlAssumption`, `PulseEngineAssumption`, `XkopDriverAssumption`,
`HandoverAssumption`, `RbeSenderAssumption`, `KernelAssumption`,
`UnitListAssumption`, `FilesAssumption`, `ChannelAssumption` and
`ServicesAssumption`. TLC evaluates
them on each run. Most say what is a number and what a set of signals.
`HandoverAssumption` says more: that `NoPlan` is not the name of a plan, and that an
offset gives no signal two values.
That is how an offset is written: a signal is one bit of one field, a bit is in the
mask or not, and a JSON object has each key once.

| Module | Theorems | Property |
|---|---|---|
| `SignalTableProofs` | `TypeCorrect`, `MirrorsAgree`, `OwnersOnly` | `TypeOK`, `MirrorCoherent`, `ConfiguredOwnersOnly` |
| `UG405OpModeProofs` | `OpModeTypes`, `BitmaskOffAlways`, `OneStepUpAlways`, `CommandTakenAlways`, `AntiDropAlways` | `TypeOK`, `BitmaskOff`, `OneStepUp`, `CommandTaken`, `AntiDrop` |
| `UtcControlProofs` | `UG405ImplementsUtcControl` | `ImplementsUtcControl` |
| `OfflineHandoverProofs` | `TypesAlways`, `LeavesNothingOnAlways`, `PlanShownAlways` | `TypeOK`, `LeavesNothingOn`, `PlanShown` |
| `PulseEngineProofs` | `PulseTypes`, `OnHasTimerAlways`, `CleanPulseFullAlways` | `TypeOK`, `OnHasTimer`, `CleanPulseFull` |
| `XkopDriverProofs` | `TypesAlways`, `NoLostWakeupAlways`, `InputsOfThisConnectionAlways` | `TypeOK`, `NoLostWakeup`, `InputsOfThisConnection` |
| | `PacketsOnce` | a data packet names an output once at most |
| `RbeSenderProofs` | `TypesAlways` | `TypeOK` |
| | `InformWhole` | an INFORM carries the fields it is about, whole, and nothing else |
| `ServicesProofs` | `ServicesTypes` | `TypeOK` |
| | `ServicesImplement` | `Services` behaves, for each component, as that component alone |
| | `KernelTypes`, `DetectorTypes`, `FilesTypes`, `ChannelTypes`, `RpdbTypes`, `FeedTypes`, `LampTypes` | the parts of `TypeOK`, of each component alone |
| | `OutputsToldAlways`, `StartedByHandAlways`, `PulseHeldAlways` | `OutputsTold`, `StartedByHand`, `PulseHeld` |
| | `AnyAgreesAlways`, `AnyBackedAlways` | `AnyAgrees`, `AnyBacked` |
| | `SettingsFollowAlways`, `EditsKeptAlways` | `SettingsFollow`, `EditsKept` |
| | `ChannelImplementsView` | `ImplementsModeView` |
| | `SentTakenAlways` | what the RPDB driver has noted as sent is in force in the controller |

*SignalTable.* `TypeCorrect` is inductive as it stands. `MirrorsAgree` is not:
when the last callback of a write has run, that the delivered value is the
current one follows only if the write in progress is the latest. The
strengthening says that a signal with one writing thread has the value
which that thread's job carries while it is under way, that only an owner has a
job for it, and that a thread's identity is its service or nobody.
`OwnersOnly` is an action property on top of two facts: owners are never taken
away, and an unlisted signal is only ever owned by drivers' services.

*UG405OpMode.* `BitmaskOffAlways` rests on `IInv`, which accounts for every bit
while the mode is below 3: it is off, or astray, or one of the threads still has
it on its list and will clear it. That list is: any pass of a bitmask SET that
has not looked at the bit for the last time, the SNMP thread's or the watchdog's
zeroing, and a drop or a mode change which has assigned the mode and not yet
begun to zero. The second conjunct ties the positions of the threads to their
lists (`TodoOK`), the third the mode to what was tested (`AssignOK`), from which
`OneStepUpAlways` follows. The proof has a lemma per group of actions.

The two properties of commands speak of a SET that is calm, in mode 3. For these
`Progress` says how far it has come: the bits to be set which the first pass is
through with are on, and in the second pass those to be cleared which it is
through with are off, each unless astray, and no drop is zeroing. When the second
pass ends, that is `CommandTaken`. For `AntiDrop`, the first pass clears nothing,
and in the second every bit to be set is on.

*UtcControl.* The refinement maps each step of the two threads to a step of
`UtcControl` or to a stutter, one lemma per group of actions. It rests on `TodoOK`:
without it a zeroing that ends might leave an abstract debt. A read of the mode
which finds 3 is the abstract decision to put a signal on.

*OfflineHandover.* `LeavesNothingOn` holds between ticks. Within one, the
strengthening says that a tick which writes an offset has an active plan, or the
state was cleared under it, and that a tick which stands down has every signal that
is still on among the zeros it has left to write. A change made by pci.ug405 makes a
signal astray, so nothing has to be known of it.

`PlanShown` needs two things in the middle of a tick. `Matched`: the plan a tick
applies is the active one, unless the state was cleared under it, and the writes it
has left are writes of the offset noted, unless a RELOAD came in between.
`ShowsAll`: each write of the offset noted was made, or is still to be made, or its
signal is astray. Since an offset has one value for a signal, no write spoils
another. The types need that a tick which looks for the last offset that is due
finds it in the plan: a finite set of numbers has a largest one, which follows from
the well-foundedness of `<` on the naturals.

*PulseEngine.* `OnHasTimer` is not inductive, because `pulse()` cancels whatever
timer is on file. `Filed` says that this is a timer of the same signal, armed or
fired but not popped. For `CleanPulseFull`, the timer of a clean pulse is the only one
of its signal (`CleanIsAlone`).

*XkopDriver.* `NoLostWakeup` speaks of the waiting loop; `Awake` of the comparison:
each output it has visited is as noted, or the event has been set since it was
cleared, or is about to be by a callback. `Fresh` says that the receive thread is
not there while inputs are zeroed, and that those already visited are 0.
The types need that a packet names an output once at most (`OnceEach`), in the batch
under construction and on the wire: else what the controller makes of it would hang
on the order. The comparison visits each output once, so none is added twice.

*RbeSender.* The two sending threads write the backlog counter from a value read a
step earlier, which the other thread or the watchdog may have made stale. That value is
a natural number like the counter, so the counter never gets negative although updates
get lost; no upper bound follows, and the code has none. `TodoLeft`, a thread in the middle
of its reads has one left, keeps the types when a read ends a loop. `InformWhole`
follows the packet from the choice of fields to the answer: what a thread has read
and what it has still to read make up the fields chosen, at every step.

*MovaKernel.* `KernelTypeOK` has the crashes in a row within the limit, which needs that a
loop that runs is below it. `OutputsTold` is inductive. `StartedByHand` needs that a SET_IO under
way stands for a press that counts, or one a LOAD has crossed (`PressCounts`).
`PulseHeld` follows from what is left of the latch and the time since the edge making
up its length at least, however late the ticks are.

*Detectors.* While no other update has begun beside it, a thread is the only one at
work (`Alone`) and what it has read so far still holds (`ScanOK`), so what it writes is
the OR of the zones. With `ZoneBacked`, a zone that is on was reported by a unit
not in fault, this gives `AnyBacked`.

*ConfigFiles.* `SettingsFollow` and `EditsKept` hold when nothing is under way.
`FilesInv` says where the last edits are in between. The user's edit is in the file,
or in what a writer is about to write back (`UserKept`); so is what the instation
has set (`LiveKept`). Two writers who meet know it, since the second spoils both
(`OverlapKnown`). Reloads that have not overtaken each other read one at a time
(`OneReads`), and once no request is on its way the one that is reading, or else the
settings, have the edit (`InForce`).

*ModeChannel.* It implements `ModeView` with `settled` standing for: every mode in
`untold`, `events`, `snap`, `hello` and `stream` is the present one, or none. A step
that brings in nothing that disagrees is the abstract `Settle` or a stutter
(`QuietStep`), which covers announcements, pushes and greetings. `SetMode` and
`UtcRestart` are a change of mode, `Receive` is the tracker's turning to the mode,
`EndOfFile` its turning to 1.

*RpdbDriver.* `SentTaken` is the safe half of `OutputsFollow`. While the controller's
end of the subscription stands, a value noted for an output is the one the controller
has taken, unless a batch failed that may have had an effect. So what a scan leaves
out needs no sending. It holds since a new connection forgets what was noted, and
since a controller that restarts, and has its outputs off, ends the connection.

*Services.* A step of `Services` is a step of one component and a stutter of every
other (`OneMoves`). So its behaviours are behaviours of each component
(`ServicesImplement`), and what is proved of the components holds of what the run
checks. `ServicesTypes` puts their types together.

Only model-checked:

* Liveness: `SilenceEndsControl`, `OffAgain`, `RemoteConverges`, `DeadIsNoticed`,
  `InstationFollows`, `BacklogDrops`, `TrackerFollows`, `InputsFollow`,
  `OutputsFollow`, `PageFollows`, `NeverHeldUp`, `DimFollows`. It and ENABLED are out of
  the prover's reach. Every invariant and every action property that a passing run
  checks is proved, and so are both refinements.

## 5. Plan

1. *(done)* `SignalTable`, `UG405OpMode`, `PulseEngine`, `XkopDriver`, `RbeSender`.
2. *(done)* `UtcControl` and the refinement from `UG405OpMode`; `OfflineHandover`
   composed with it; `ModeView`, `ModeChannel`.
3. *(done)* `RpdbDriver`, `LiveFeed`, `MovaKernel`, `Detectors`, `Dimming`,
   `ConfigFiles`.
4. *(done)* The proofs listed above, in eight modules.
5. *(done)* The proofs of `PlanShown`, `ImplementsModeView`, `SettingsFollow`,
   `EditsKept` and the types of every module.
6. Left to prove: the safe halves of the other liveness properties, as `SentTaken`
   is for `OutputsFollow`.
7. Left to model: `push_scoot` and the sampler, SCNs with several fields,
   the live push of pci.iobus with clients of its own, GPIO polling.

## 6. Not modelled

* The MOVA algorithm (pci_mova is not in the repository), and with it the
  kernel commands that only reach it: UNLOAD, SWITCH_PLAN, RESET and the like.
* The SCOOT sampler, GPIO polling, the simulator and the recorder.
* The BER and SNMP encodings, the framing of XKOP and RPDB, XML and the syntax
  of configuration files. Timestamp validation, a function of two numbers.
* The web pages, the routes that only read, list, forward or download, the pages
  of log messages, telegrams and errors, logging and the test scripts.
* The dead code around `_schedule_standalone`, which has no behaviour, and the
  write socket of the RPDB driver, which is opened, closed and never used.
* pci.ug405's configuration strings, which do not influence the rest.
