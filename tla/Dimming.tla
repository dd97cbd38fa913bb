------------------------------- MODULE Dimming -------------------------------
(***************************************************************************)
(* The dimming controller pci.autodim (src/autodim/service.py).  Every 30  *)
(* seconds tick compares the time with sunset and sunrise, under the lock, *)
(* and then writes the dimming signal without it.  The last state is kept  *)
(* in a file over restarts.  Web commands change the settings in threads   *)
(* of their own.  The sun is a Boolean here, and the settings are whether  *)
(* the controller is enabled and the signal's name.                        *)
(***************************************************************************)
EXTENDS Naturals

CONSTANTS Signals

VARIABLES
  night,     \* now >= dim_utc or now < bright_utc
  enabled,   \* _enabled
  signal,    \* _signal
  isDim,     \* _is_dim, or None
  saved,     \* the state file
  pending,   \* tick's write, if it is under way
  output,    \* the signals on the bus
  linkUp     \* pci.autodim can write

settings == <<enabled, signal>>
vars == <<night, settings, isDim, saved, pending, output, linkUp>>

None == 2
-----------------------------------------------------------------------------
Init ==
  /\ night \in {0, 1} /\ linkUp \in BOOLEAN
  /\ enabled \in BOOLEAN /\ signal \in Signals
  /\ saved \in {0, 1, None} /\ isDim = saved
  /\ pending = {}
  /\ output = [s \in Signals |-> 0]

\* Faulty variant of Tick: only a transition is written.
TickTransition ==
  /\ pending = {} /\ enabled /\ isDim # night
  /\ isDim' = night /\ saved' = night
  /\ pending' = {[signal |-> signal, value |-> night]}
  /\ UNCHANGED <<night, settings, output, linkUp>>

\* tick, under the lock.  A transition is saved; the signal is written anyway.
Tick ==
  /\ pending = {} /\ enabled
  /\ isDim' = night
  /\ saved' = IF isDim # night THEN night ELSE saved
  /\ pending' = {[signal |-> signal, value |-> night]}
  /\ UNCHANGED <<night, settings, output, linkUp>>

\* The rest of tick: the settings may have changed in between.
Write ==
  /\ \E w \in pending :
       output' = IF linkUp THEN [output EXCEPT ![w.signal] = w.value] ELSE output
  /\ pending' = {}
  /\ UNCHANGED <<night, settings, isDim, saved, linkUp>>

SetEnabled(b) ==
  /\ enabled' = b
  /\ UNCHANGED <<night, signal, isDim, saved, pending, output, linkUp>>

\* The settings of the file are put in force; the old signal is left as it is.
ReloadConfig(b, s) ==
  /\ enabled' = b /\ signal' = s
  /\ UNCHANGED <<night, isDim, saved, pending, output, linkUp>>

\* Started again, with the settings of the file and the saved state.
Restart(b, s) ==
  /\ enabled' = b /\ signal' = s
  /\ isDim' = saved
  /\ pending' = {}
  /\ UNCHANGED <<night, saved, output, linkUp>>

-----------------------------------------------------------------------------
Dusk == night' = 1 - night /\ UNCHANGED <<settings, isDim, saved, pending, output, linkUp>>

Link == linkUp' = ~linkUp /\ UNCHANGED <<night, settings, isDim, saved, pending, output>>

BusRestarts ==
  /\ output' = [s \in Signals |-> 0]
  /\ linkUp' = FALSE
  /\ UNCHANGED <<night, settings, isDim, saved, pending>>

Next ==
  \/ Tick \/ Write \/ Dusk \/ Link \/ BusRestarts
  \/ \E b \in BOOLEAN : SetEnabled(b) \/ \E s \in Signals : ReloadConfig(b, s) \/ Restart(b, s)

Spec == Init /\ [][Next]_vars
-----------------------------------------------------------------------------
\* Every variable has its type.
TypeOK ==
  /\ night \in {0, 1} /\ enabled \in BOOLEAN /\ signal \in Signals
  /\ isDim \in {0, 1, None} /\ saved \in {0, 1, None}
  /\ pending \subseteq [signal : Signals, value : {0, 1}]
  /\ output \in [Signals -> {0, 1}] /\ linkUp \in BOOLEAN

\* An enabled controller whose settings, sun and connection rest, and which is
\* not started again, ends up with the signal as the sun has it, whatever writes
\* were lost before, whatever the state file says and whichever tick was under
\* way when the settings changed (tick).
DimFollows ==
  /\ <>[](linkUp /\ enabled)
  /\ <>[][UNCHANGED <<night, signal>> /\ ~\E b \in BOOLEAN, s \in Signals : Restart(b, s)]_vars
  => <>[](output[signal] = night)
=============================================================================
