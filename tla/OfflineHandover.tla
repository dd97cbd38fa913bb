-------------------------- MODULE OfflineHandover --------------------------
(***************************************************************************)
(* pci.offline, the fixed-time plan player (src/offline/service.py), and   *)
(* its hand-over of the control signals to and from pci.ug405.             *)
(*                                                                         *)
(* Both services may write the signals.  pci.ug405 is what UtcControl says *)
(* of it; what its live socket tells pci.offline is ModeChannel's matter,  *)
(* and any mode here.  Inside pci.offline, the thread that ticks every     *)
(* second and the one that serves RELOAD share the plan state; each IOBus  *)
(* write is a step, since pci.ug405 may write in between, and may be lost. *)
(*                                                                         *)
(* There is one SCN.  The time of day and the position in the cycle are    *)
(* any: a tick picks them.                                                 *)
(***************************************************************************)
EXTENDS UtcControl, Integers, Sequences

CONSTANTS
  Files,     \* versions of the plan file
  Content,   \* what they hold: [scn, plans, timetable, modes]
  Broken,    \* a plan file that cannot be parsed
  Nothing,   \* no plan file was ever loaded
  NoPlan,    \* no plan's name
  Days,      \* the days of the week are 0..Days-1
  Times,     \* times of day
  Positions  \* positions in the cycle

\* An offset: for each bitmask field it names the bits of its mask that go on and
\* off, in the order in which the process takes the set of these fields; and its
\* single fields in the order of _SINGLE_FIELDS.
Mask   == [on : SUBSET Signals, off : SUBSET Signals]
Offset == [at : Nat, masks : Seq(Mask), single : Seq(Signals \X {0, 1})]

\* Its writes as <<rank, signal, value>>: of each mask the bits that go on, then
\* those that go off, and the single fields last.  Fields it does not name are
\* left alone.
BitsOn(masks)  == UNION {{<<2 * i, s, 1>> : s \in masks[i].on} : i \in DOMAIN masks}
BitsOff(masks) == UNION {{<<2 * i + 1, s, 0>> : s \in masks[i].off} : i \in DOMAIN masks}
Singles(from, single) == {<<from + j, single[j][1], single[j][2]>> : j \in DOMAIN single}

WritesOf(offset) ==
  LET masks == offset.masks
  IN BitsOn(masks) \cup BitsOff(masks) \cup Singles(2 * Len(masks) + 2, offset.single)

\* A bit of a mask is set or not, a field is named once, and a signal is one bit
\* of one field: an offset has one value for it.
OneValueEach(offset) == \A v, w \in WritesOf(offset) : v[2] = w[2] => v = w

ASSUME HandoverAssumption ==
  /\ Days \in Nat \ {0} /\ Times \subseteq Nat /\ Positions \subseteq Nat
  /\ Broken \notin Files /\ Nothing \notin Files
  /\ \A f \in Files : NoPlan \notin DOMAIN Content[f].plans
  /\ \A f \in Files : \A p \in DOMAIN Content[f].plans :
       /\ Content[f].plans[p] \in Seq(Offset)
       /\ \A i \in DOMAIN Content[f].plans[p] : OneValueEach(Content[f].plans[p][i])

VARIABLES
  tracked,  \* UG405OpModeTracker._op_mode
  file,     \* the plan file
  edited,   \* its mtime is not _file_mtime
  conf,     \* what was loaded of it: _settings, _timetable, _plan_config
  plan,     \* _active_plan, or NoPlan
  last,     \* _last_offset_idx, from 1; 0 before the first offset, or Gone
  tick,     \* the tick: pc, the mode it was given, what it looked up, its writes
  reload,   \* a RELOAD has cleared the state and not yet loaded the file
  astray,   \* history: signals changed by others since pci.offline wrote them,
            \* or whose write was lost; all of them when pci.offline restarts
  forgot,   \* history: the state was cleared while a plan was active
  mixed     \* history: a tick took up a plan between a RELOAD's clearing and its loading

fileVars == <<file, edited, conf>>
state   == <<plan, last>>
history == <<astray, forgot, mixed>>
vars    == <<utcVars, tracked, fileVars, state, tick, reload, history>>

Gone    == -1
\* The defaults of a service that has loaded nothing.
Has(version) ==
  IF version = Nothing THEN [scn |-> FALSE, plans |-> << >>, timetable |-> << >>, modes |-> {1, 2}]
  ELSE Content[version]

Asleep  == [pc |-> "sleep", mode |-> 1, conf |-> Nothing, plan |-> NoPlan, todo |-> {}]
-----------------------------------------------------------------------------
(* Timetable and offsets *)

\* The entry of a set that starts last; the first in the file of equals.
Latest(timetable, entries) ==
  CHOOSE i \in entries : \A j \in entries :
    \/ timetable[j].start < timetable[i].start
    \/ timetable[j].start = timetable[i].start /\ i <= j

\* Today's entry that started last, else the last one of the day before.
Resolve(timetable, day, time) ==
  LET On(d)     == {i \in DOMAIN timetable : d \in timetable[i].days}
      today     == {i \in On(day) : timetable[i].start <= time}
      yesterday == On((day + Days - 1) % Days)
      found     == IF today # {} THEN today ELSE yesterday
  IN IF found = {} THEN NoPlan ELSE timetable[Latest(timetable, found)].plan

\* The last offset in the list that is due, 0 for none.
ActiveIndex(offsets, pos) ==
  LET due == {i \in DOMAIN offsets : offsets[i].at <= pos}
  IN IF due = {} THEN 0 ELSE CHOOSE i \in due : \A j \in due : j <= i

ZeroAll == {<<1, s, 0>> : s \in Signals}

\* One rank after the other, each in dict order.
Upcoming(writes) == CHOOSE w \in writes : \A x \in writes : w[1] <= x[1]

-----------------------------------------------------------------------------
Init ==
  /\ UtcInit /\ tracked = 1
  /\ file \in Files /\ edited = FALSE /\ conf = file
  /\ plan = NoPlan /\ last = Gone
  /\ tick = Asleep /\ reload = FALSE
  /\ astray = {} /\ forgot = FALSE /\ mixed = FALSE

\* _active_plan, _activation_time and _last_offset_idx are cleared.
ForgetState ==
  /\ plan' = NoPlan /\ last' = Gone
  /\ forgot' = (forgot \/ plan # NoPlan)

\* _load_plan_file: a file that cannot be parsed leaves what there is.
Load ==
  IF file = Broken THEN UNCHANGED fileVars
  ELSE conf' = file /\ edited' = FALSE /\ UNCHANGED file

-----------------------------------------------------------------------------
(* The tick *)

\* The tick is given the mode, and looks at the file's mtime.
Tick ==
  /\ tick.pc = "sleep"
  /\ tick' = [Asleep EXCEPT !.pc = IF edited THEN "load" ELSE "look", !.mode = tracked]
  /\ IF edited THEN ForgetState ELSE UNCHANGED <<state, forgot>>
  /\ UNCHANGED <<utcVars, tracked, fileVars, reload, astray, mixed>>

LoadFile ==
  /\ tick.pc = "load"
  /\ Load
  /\ tick' = [tick EXCEPT !.pc = "look"]
  /\ UNCHANGED <<utcVars, tracked, state, reload, history>>

ActiveIn(mode) == mode < 3 /\ mode \in Has(conf).modes

\* Configuration and timetable are looked up, once for the whole tick.  An SCN
\* the file does not have is passed over.
Look ==
  /\ tick.pc = "look"
  /\ \E day \in 0..(Days - 1), time \in Times :
       LET p == IF ActiveIn(tick.mode) THEN Resolve(Has(conf).timetable, day, time) ELSE NoPlan
       IN tick' = IF ~Has(conf).scn THEN Asleep
                  ELSE IF p \in DOMAIN Has(conf).plans
                  THEN [Asleep EXCEPT !.pc = "activate", !.conf = conf, !.plan = p]
                  ELSE [Asleep EXCEPT !.pc = "stop"]
  /\ UNCHANGED <<utcVars, tracked, fileVars, state, reload, history>>

\* Faulty variant of Activate: the index of the plan before is kept.
ActivateKeepsLast ==
  /\ tick.pc = "activate"
  /\ plan' = tick.plan
  /\ tick' = [tick EXCEPT !.pc = "apply"]
  /\ UNCHANGED <<utcVars, tracked, fileVars, last, reload, history>>

Activate ==
  /\ tick.pc = "activate"
  /\ plan' = tick.plan
  /\ last' = IF plan # tick.plan THEN 0 ELSE last
  /\ tick' = [tick EXCEPT !.pc = "apply"]
  /\ UNCHANGED <<utcVars, tracked, fileVars, reload, history>>

\* A tick that has these writes to do.
Writing(writes) ==
  IF writes = {} THEN Asleep ELSE [Asleep EXCEPT !.pc = "write", !.todo = writes]

\* _calc_cycle_pos and _apply_offsets: only a new offset is written, and it is
\* noted before it is.
Apply ==
  /\ tick.pc = "apply"
  /\ \E pos \in Positions :
       LET offsets == Has(tick.conf).plans[tick.plan]
           i == ActiveIndex(offsets, pos)
       IN /\ last' = i
          /\ tick' = IF i = last \/ i = 0 THEN Asleep ELSE Writing(WritesOf(offsets[i]))
          /\ mixed' = IF i = last THEN mixed ELSE tick.conf # conf
  /\ UNCHANGED <<utcVars, tracked, fileVars, plan, reload, astray, forgot>>

\* One write of an offset or of _zero_scn, which may be lost.
Write ==
  LET w    == Upcoming(tick.todo)
      rest == tick.todo \ {w}
  IN /\ tick.pc \in {"write", "zero"} /\ tick.todo # {}
     /\ \/ Arrives(w[2], w[3]) /\ astray' = astray \ {w[2]}
        \/ UNCHANGED bits /\ astray' = astray \cup {w[2]}
     /\ tick' = IF tick.pc = "write" THEN Writing(rest) ELSE [tick EXCEPT !.todo = rest]
     /\ UNCHANGED <<opMode, zeroing, raising, tracked, fileVars, state, reload, forgot, mixed>>

\* Faulty variant of Stop: what is on stays on.
StopQuietly ==
  /\ tick.pc = "stop"
  /\ tick' = [tick EXCEPT !.pc = "zero", !.todo = {}]
  /\ UNCHANGED <<utcVars, tracked, fileVars, state, reload, history>>

\* No plan is due, or the mode is 3: what an active plan has put on is zeroed.
Stop ==
  /\ tick.pc = "stop"
  /\ tick' = [tick EXCEPT !.pc = "zero", !.todo = IF plan # NoPlan THEN ZeroAll ELSE {}]
  /\ UNCHANGED <<utcVars, tracked, fileVars, state, reload, history>>

Stopped ==
  /\ tick.pc = "zero" /\ tick.todo = {}
  /\ plan' = NoPlan /\ last' = Gone
  /\ forgot' = (forgot /\ plan = NoPlan)
  /\ tick' = Asleep
  /\ UNCHANGED <<utcVars, tracked, fileVars, reload, astray, mixed>>

-----------------------------------------------------------------------------
(* RELOAD, edits of the file, restarts *)

Reload ==
  /\ ~reload
  /\ reload' = TRUE
  /\ ForgetState
  /\ UNCHANGED <<utcVars, tracked, fileVars, tick, astray, mixed>>

ReloadFile ==
  /\ reload
  /\ reload' = FALSE
  /\ Load
  /\ mixed' = (mixed \/ (conf' # conf /\ (plan # NoPlan \/ tick.pc = "activate")))
  /\ UNCHANGED <<utcVars, tracked, state, tick, astray, forgot>>

Edit ==
  /\ file' \in Files \cup {Broken}
  /\ edited' = TRUE
  /\ UNCHANGED <<utcVars, tracked, conf, state, tick, reload, history>>

OfflineRestarts ==
  /\ conf' = IF file = Broken THEN Nothing ELSE file
  /\ edited' = (file = Broken)
  /\ plan' = NoPlan /\ last' = Gone /\ tick' = Asleep /\ reload' = FALSE
  /\ astray' = Signals /\ forgot' = FALSE
  /\ mixed' = FALSE
  /\ tracked' = 1
  /\ UNCHANGED <<utcVars, file>>

-----------------------------------------------------------------------------
(* pci.ug405 and the tracker *)

\* pci.ug405 changes what signals it likes; those are astray.
Touched ==
  /\ astray' = astray \cup {s \in Signals : bits'[s] # bits[s]}
  /\ UNCHANGED <<fileVars, state, tick, reload, forgot, mixed>>

UtcStep ==
  /\ UtcNext
  /\ Touched
  /\ UNCHANGED tracked

\* pci.ug405 starts again, in mode 1, and leaves the signals as they are.
UtcRestarts ==
  /\ opMode' = 1
  /\ zeroing' = [t \in Threads |-> {}] /\ raising' = {}
  /\ UNCHANGED <<bits, tracked, fileVars, state, tick, reload, history>>

\* Faulty variant of Track: no connection counts as mode 0.
TrackNone ==
  /\ tracked' \in 0..3
  /\ UNCHANGED <<utcVars, fileVars, state, tick, reload, history>>

\* Whatever ModeChannel shows, late or not.
Track ==
  /\ tracked' \in 1..3
  /\ UNCHANGED <<utcVars, fileVars, state, tick, reload, history>>

-----------------------------------------------------------------------------
TickWork ==
  \/ Tick \/ LoadFile \/ Look \/ Activate \/ Apply \/ Write \/ Stop \/ Stopped

Next ==
  \/ TickWork \/ Reload \/ ReloadFile \/ Edit \/ OfflineRestarts
  \/ UtcStep \/ UtcRestarts \/ Track

Spec == Init /\ [][Next]_vars

-----------------------------------------------------------------------------
\* Every variable has its type.
TypeOK ==
  /\ opMode \in 1..3 /\ tracked \in 1..3
  /\ bits \in [Signals -> {0, 1}] /\ raising \subseteq Signals
  /\ zeroing \in [Threads -> SUBSET Signals]
  /\ file \in Files \cup {Broken} /\ conf \in Files \cup {Nothing} /\ edited \in BOOLEAN
  /\ last >= Gone /\ reload \in BOOLEAN
  /\ tick.pc \in {"sleep", "load", "look", "activate", "apply", "write", "stop", "zero"}
  /\ tick.mode \in 1..3 /\ tick.conf \in Files \cup {Nothing}
  /\ astray \subseteq Signals /\ forgot \in BOOLEAN /\ mixed \in BOOLEAN

Resting == tick.pc = "sleep"

\* Between ticks, with no plan active, nothing that pci.offline put on is still
\* on: a plan that ends was zeroed, unless its state was cleared before by an
\* edit of the file or by RELOAD (tick, _zero_scn).
LeavesNothingOn ==
  Resting /\ plan = NoPlan /\ ~forgot => \A s \in Signals \ astray : bits[s] = 0

\* The same in UTC control, with no exception: "standing down (%s) - zeroing
\* outputs" says the code, "stands down immediately when opMode reaches 3" its
\* heading.
StandsDownClean ==
  Resting /\ plan = NoPlan /\ opMode = 3 /\ tracked = 3 =>
    \A s \in Signals \ astray : bits[s] = 0

\* Between ticks the signals an active plan's offset names have its values, but
\* for those that pci.ug405 has changed since, or whose write was lost
\* (_apply_offsets).
PlanShown ==
  Resting /\ plan # NoPlan /\ last > 0 /\ ~mixed /\ plan \in DOMAIN Has(conf).plans =>
    \A w \in WritesOf(Has(conf).plans[plan][last]) : w[2] \notin astray => bits[w[2]] = w[3]
=============================================================================
