----------------------------- MODULE UtcControl -----------------------------
(***************************************************************************)
(* What pci.ug405 promises of the operation mode and the control signals   *)
(* (src/ug405/service.py), without how it keeps the promise: a thread that *)
(* takes the mode below 3 goes on to zero every control signal, and a      *)
(* signal is only put on by a command that found mode 3.  UG405OpMode      *)
(* implements this; OfflineHandover is composed with it.                   *)
(***************************************************************************)
EXTENDS Naturals

CONSTANTS
  Signals,  \* the control signals
  Threads   \* "snmp" serves SETs, "dog" is the watchdog

VARIABLES
  opMode,   \* op_mode['value']
  bits,     \* [Signals -> {0, 1}], as the IOBus holds them
  zeroing,  \* for each thread, the signals it has still to zero
  raising   \* the signal that a command is about to put on

utcVars == <<opMode, bits, zeroing, raising>>

ASSUME UtcControlAssumption == "snmp" \in Threads /\ Threads \subseteq {"snmp", "dog"}

UtcInit ==
  /\ opMode = 1
  /\ bits = [s \in Signals |-> 0]
  /\ zeroing = [t \in Threads |-> {}]
  /\ raising = {}

SnmpFree == zeroing["snmp"] = {} /\ raising = {}

\* opMode.setValue, or the watchdog's drop.
Change(t, m) ==
  /\ zeroing[t] = {}
  /\ IF t = "snmp" THEN SnmpFree ELSE m = 1
  /\ opMode' = m
  /\ zeroing' = [zeroing EXCEPT ![t] = IF m < 3 THEN Signals ELSE {}]
  /\ UNCHANGED <<bits, raising>>

\* A write arrives, or is lost with the IOBus.
Arrives(s, v) == bits' = [bits EXCEPT ![s] = v]

Zero(t, s) ==
  /\ s \in zeroing[t]
  /\ zeroing' = [zeroing EXCEPT ![t] = @ \ {s}]
  /\ Arrives(s, 0) \/ UNCHANGED bits
  /\ UNCHANGED <<opMode, raising>>

\* A control SET looks at the mode, then puts the signal on ...
Decide(s) ==
  /\ opMode = 3 /\ SnmpFree
  /\ raising' = {s}
  /\ UNCHANGED <<opMode, bits, zeroing>>

Raise(s) ==
  /\ s \in raising
  /\ raising' = {}
  /\ Arrives(s, 1) \/ UNCHANGED bits
  /\ UNCHANGED <<opMode, zeroing>>

\* ... or puts it off, in whatever mode.
Clear(s) ==
  /\ SnmpFree
  /\ Arrives(s, 0)
  /\ UNCHANGED <<opMode, zeroing, raising>>

\* pci.iobus starts again from an empty table.
BusRestarts ==
  /\ bits' = [s \in Signals |-> 0]
  /\ UNCHANGED <<opMode, zeroing, raising>>

UtcNext ==
  \/ \E t \in Threads, m \in 1..3 : Change(t, m)
  \/ \E t \in Threads, s \in Signals : Zero(t, s)
  \/ \E s \in Signals : Decide(s) \/ Raise(s) \/ Clear(s)
  \/ BusRestarts

UtcSpec == UtcInit /\ [][UtcNext]_utcVars
=============================================================================
