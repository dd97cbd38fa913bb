-------------------------- MODULE XkopDriverProofs --------------------------
(***************************************************************************)
(* Proofs about XkopDriver, for any number of outputs, inputs and writers, *)
(* and any size of batch and buffer.                                       *)
(*                                                                         *)
(* NoLostWakeup speaks of the waiting send loop; the strengthening (Awake) *)
(* says what holds during the comparison: an output already visited is the *)
(* one noted, or its writer sets the event after the clearing.  For the    *)
(* inputs (Fresh), the receive thread is not there while they are zeroed.  *)
(* The types need that a packet names an output once at most, in the batch *)
(* that is being built and on the wire (OnceEach).                         *)
(***************************************************************************)
EXTENDS XkopDriver, SequenceTheorems, TLAPS

Noted(o) == lastSent[o] \in {output[o], Unsent}

Awake ==
  /\ drv.pc \in {"wait", "send", "dead"} =>
       event \/ notify # {} \/ \A o \in Outputs : Noted(o)
  /\ drv.pc = "scan" =>
       event \/ notify # {} \/ \A o \in Outputs \ drv.todo : Noted(o)

Fresh ==
  /\ drv.pc \in {"connect", "zero"} => ~receiving
  /\ drv.pc = "zero" => \A i \in Inputs : told[i] = 0 /\ (i \in drv.todo \/ input[i] = 0)
  /\ drv.pc \notin {"connect", "zero"} => input = told

\* The variables are functions and records of the right shape.
Shape ==
  /\ output \in [Outputs -> OutValues]
  /\ lastSent \in [Outputs -> OutValues \cup {Unsent}]
  /\ input \in [Inputs -> InValues] /\ told \in [Inputs -> InValues]
  /\ drv = [pc |-> drv.pc, todo |-> drv.todo, pending |-> drv.pending]

IInv == Shape /\ Awake /\ Fresh
-----------------------------------------------------------------------------
LEMMA ZeroIsValue == 0 \in InValues /\ 0 \in OutValues
  BY XkopDriverAssumption

(* Writers *)

LEMMA WriterStep ==
  ASSUME IInv, NEW w \in Writers,
         \/ \E o \in Outputs, v \in OutValues : Write(w, o, v)
         \/ Notify(w)
  PROVE  IInv'
<1>1. UNCHANGED <<input, lastSent, drv, receiving, told>>
  BY DEF Write, Notify
<1>2. output' \in [Outputs -> OutValues]
  BY DEF Write, Notify, IInv, Shape
<1>3. event' \/ notify' # {}
  BY DEF Write, Notify
<1> QED
  BY <1>1, <1>2, <1>3 DEF IInv, Shape, Awake, Fresh

-----------------------------------------------------------------------------
(* The connect thread *)

LEMMA ConnectStep ==
  ASSUME IInv, Connect
  PROVE  IInv'
<1>1. /\ drv.pc = "connect" /\ told' = [i \in Inputs |-> 0]
      /\ drv' = [At("zero") EXCEPT !.todo = Inputs]
      /\ UNCHANGED <<output, input, notify, event, lastSent, receiving>>
  BY DEF Connect, Connected
<1>2. drv' = [pc |-> "zero", todo |-> Inputs, pending |-> << >>]
  BY <1>1 DEF At
<1>3. Shape'
  BY <1>1, <1>2, ZeroIsValue DEF IInv, Shape
<1>4. Awake' /\ Fresh'
  BY <1>1, <1>2 DEF IInv, Awake, Fresh
<1> QED
  BY <1>3, <1>4 DEF IInv

LEMMA ZeroStep ==
  ASSUME IInv, NEW i \in Inputs, ZeroInput(i)
  PROVE  IInv'
<1>1. /\ drv.pc = "zero" /\ i \in drv.todo /\ input' = [input EXCEPT ![i] = 0]
      /\ UNCHANGED <<output, notify, event, lastSent, receiving, told>>
  BY DEF ZeroInput
<1>2. drv' = [pc |-> "zero", todo |-> drv.todo \ {i}, pending |-> drv.pending]
  BY <1>1 DEF ZeroInput, IInv, Shape
<1>3. Shape'
  BY <1>1, <1>2, ZeroIsValue DEF IInv, Shape
<1>4. Awake'
  BY <1>2 DEF Awake
<1>5. Fresh'
  BY <1>1, <1>2 DEF IInv, Shape, Fresh
<1> QED
  BY <1>3, <1>4, <1>5 DEF IInv

LEMMA StartStep ==
  ASSUME IInv, StartLoops
  PROVE  IInv'
<1>1. /\ drv.pc = "zero" /\ drv.todo = {}
      /\ lastSent' = [o \in Outputs |-> Unsent]
      /\ UNCHANGED <<output, input, notify, event, told>>
  BY DEF StartLoops
<1>2. drv' = [pc |-> "wait", todo |-> {}, pending |-> << >>]
  BY DEF StartLoops, At
<1>3. Shape'
  BY <1>1, <1>2 DEF IInv, Shape
<1>4. Awake'
  BY <1>1, <1>2 DEF Awake, Noted
<1>5. Fresh'
  <2>1. \A i \in Inputs : input[i] = told[i]
    BY <1>1 DEF IInv, Fresh
  <2>2. input = told
    BY <2>1 DEF IInv, Shape
  <2> QED
    BY <1>1, <1>2, <2>2 DEF Fresh
<1> QED
  BY <1>3, <1>4, <1>5 DEF IInv

\* Waiting, clearing the event, and the end of a round.
LEMMA RoundStep ==
  ASSUME IInv, Wake \/ ClearEvent \/ EndScan \/ Alive
  PROVE  IInv'
<1>1. /\ UNCHANGED <<output, input, lastSent, receiving, told, notify>>
      /\ drv.pc \in {"wait", "clear", "scan", "dead"}
  BY DEF Wake, ClearEvent, EndScan, Alive
<1>2. CASE Wake
  <2>1. drv' = [pc |-> "clear", todo |-> {}, pending |-> << >>]
    BY <1>2 DEF Wake, At
  <2> QED
    BY <1>1, <2>1 DEF IInv, Shape, Awake, Fresh
<1>3. CASE ClearEvent
  <2>1. drv' = [pc |-> "scan", todo |-> Outputs, pending |-> << >>]
    BY <1>3 DEF ClearEvent, At
  <2> QED
    BY <1>1, <2>1 DEF IInv, Shape, Awake, Fresh
<1>4. CASE EndScan
  <2>1. drv.pc = "scan" /\ drv.todo = {} /\ event' = event
    BY <1>4 DEF EndScan
  <2>2. \/ drv' = [pc |-> "dead", todo |-> drv.todo, pending |-> drv.pending]
        \/ drv' = [pc |-> "send", todo |-> drv.todo, pending |-> drv.pending]
    BY <1>4 DEF EndScan, IInv, Shape
  <2> QED
    BY <1>1, <2>1, <2>2 DEF IInv, Shape, Awake, Fresh, Noted
<1>5. CASE Alive
  <2>1. drv.pc = "dead" /\ event' = event
        /\ drv' = [pc |-> "wait", todo |-> {}, pending |-> << >>]
    BY <1>5 DEF Alive, At
  <2> QED
    BY <1>1, <2>1 DEF IInv, Shape, Awake, Fresh, Noted
<1> QED
  BY <1>2, <1>3, <1>4, <1>5

\* A visited output is noted as it is; a write after that tells the event.
LEMMA ScanStep ==
  ASSUME IInv, NEW o \in Outputs, Scan(o)
  PROVE  IInv'
<1>1. /\ drv.pc = "scan" /\ lastSent' = [lastSent EXCEPT ![o] = output[o]]
      /\ UNCHANGED <<output, input, notify, event, receiving, told>>
  BY DEF Scan
<1>2. PICK p : drv' = [pc |-> "scan", todo |-> drv.todo \ {o}, pending |-> p]
  <2> DEFINE p == IF lastSent[o] = output[o] THEN drv.pending
                  ELSE Append(drv.pending, <<o, output[o]>>)
  <2>1. drv' = [drv EXCEPT !.todo = drv.todo \ {o}, !.pending = p]
    BY DEF Scan
  <2>2. drv' = [pc |-> "scan", todo |-> drv.todo \ {o}, pending |-> p]
    BY <1>1, <2>1 DEF IInv, Shape
  <2> QED
    BY <2>2
<1>3. Shape'
  BY <1>1, <1>2 DEF IInv, Shape
<1>4. Awake'
  BY <1>1, <1>2 DEF IInv, Shape, Awake, Noted
<1>5. Fresh'
  BY <1>1, <1>2 DEF IInv, Fresh
<1> QED
  BY <1>3, <1>4, <1>5 DEF IInv

LEMMA SendStep ==
  ASSUME IInv, Send
  PROVE  IInv'
<1>1. /\ drv.pc = "send"
      /\ UNCHANGED <<output, input, notify, event, lastSent, receiving, told>>
  BY DEF Send
<1>2. PICK p : \E q \in {"dead", "send"} : drv' = [drv EXCEPT !.pending = p, !.pc = q]
  <2> DEFINE n    == IF Len(drv.pending) < Batch THEN Len(drv.pending) ELSE Batch
             rest == SubSeq(drv.pending, n + 1, Len(drv.pending))
             q    == IF rest = << >> THEN "dead" ELSE "send"
  <2>1. drv' = [drv EXCEPT !.pending = rest, !.pc = q] /\ q \in {"dead", "send"}
    BY DEF Send
  <2> HIDE DEF rest, q
  <2> QED
    BY <2>1
<1>3. \E q \in {"dead", "send"} : drv' = [pc |-> q, todo |-> drv.todo, pending |-> p]
  BY <1>2 DEF IInv, Shape
<1> QED
  BY <1>1, <1>3 DEF IInv, Shape, Awake, Fresh, Noted

LEMMA CloseStep ==
  ASSUME IInv, Close
  PROVE  IInv'
<1>1. /\ receiving' = FALSE /\ UNCHANGED <<output, input, lastSent, told>>
      /\ drv' = [pc |-> "connect", todo |-> {}, pending |-> << >>]
  BY DEF Close, At
<1> QED
  BY <1>1 DEF IInv, Shape, Awake, Fresh
-----------------------------------------------------------------------------
(* The receive thread, the controller and time *)

LEMMA ReceiveStep ==
  ASSUME IInv, NEW i \in Inputs, NEW v \in InValues, Receive(i, v)
  PROVE  IInv'
<1>1. /\ receiving /\ input' = [input EXCEPT ![i] = v] /\ told' = [told EXCEPT ![i] = v]
      /\ UNCHANGED <<output, notify, event, lastSent, drv, receiving>>
  BY DEF Receive
<1>2. input = told /\ drv.pc \notin {"connect", "zero"}
  BY <1>1 DEF IInv, Fresh
<1> QED
  BY <1>1, <1>2 DEF IInv, Shape, Awake, Fresh, Noted

LEMMA OtherStep ==
  ASSUME IInv, ReceiveKeepAlive \/ ReceiveEnd \/ Deliver \/ Leave \/ Tick \/ UNCHANGED vars
  PROVE  IInv'
<1>1. UNCHANGED <<output, input, notify, lastSent, drv, told>>
  BY DEF ReceiveKeepAlive, ReceiveEnd, Deliver, Leave, Tick, vars
<1>2. (event' \/ event' = event) /\ (~receiving' \/ receiving' = receiving)
  BY DEF ReceiveKeepAlive, ReceiveEnd, Deliver, Leave, Tick, vars
<1> QED
  BY <1>1, <1>2 DEF IInv, Shape, Awake, Fresh, Noted

LEMMA InvInit == Init => IInv
<1> SUFFICES ASSUME Init PROVE IInv
  OBVIOUS
<1>1. drv = [pc |-> "connect", todo |-> {}, pending |-> << >>]
  BY DEF Init, At
<1>2. Shape
  BY <1>1, ZeroIsValue DEF Init, Shape
<1> QED
  BY <1>1, <1>2 DEF Init, IInv, Awake, Fresh

LEMMA InvStep == IInv /\ [Next]_vars => IInv'
  BY WriterStep, ConnectStep, ZeroStep, StartStep, RoundStep, ScanStep, SendStep, CloseStep,
     ReceiveStep, OtherStep DEF Next, SomeWrite, DriverWork

-----------------------------------------------------------------------------
\* When the send loop waits while an output differs from what was sent, the
\* event is set or is about to be (_send_loop, _on_table_change).
THEOREM NoLostWakeupAlways == Spec => []NoLostWakeup
<1>1. IInv => NoLostWakeup
  BY DEF IInv, Awake, Noted, NoLostWakeup
<1> QED
  BY <1>1, InvInit, InvStep, PTL DEF Spec

\* The inputs in the table are those of this connection, and 0 until the
\* controller has sent one (_zero_inputs, _recv_loop).
THEOREM InputsOfThisConnectionAlways == Spec => []InputsOfThisConnection
<1>1. IInv => InputsOfThisConnection
  BY DEF IInv, Fresh, Connected, InputsOfThisConnection
<1> QED
  BY <1>1, InvInit, InvStep, PTL DEF Spec
-----------------------------------------------------------------------------
(* Types *)

Packets == Seq(Outputs \X OutValues)

\* The connection: what is to be sent, what is on its way, what has arrived.
WireTypes ==
  /\ drv.pc \in {"connect", "zero", "wait", "clear", "scan", "send", "dead"}
  /\ drv.todo \subseteq Outputs \cup Inputs /\ drv.pending \in Packets
  /\ wire \in Seq(Packets) /\ Len(wire) <= MaxWire
  /\ remote \in [Outputs -> Words]

Counts == silence \in 0..(DeadTimeout + 1) /\ notify \subseteq Writers

Flags == event \in BOOLEAN /\ receiving \in BOOLEAN /\ open \in BOOLEAN

Types == WireTypes /\ Counts /\ Flags

LEMMA EncodeTyped ==
  ASSUME NEW v \in OutValues
  PROVE  Encode(v) \in Words
<1>1. OutValues \subseteq Nat
  BY XkopDriverAssumption
<1>2. v \in Nat
  BY <1>1
<1>3. WordMax \in Nat
  BY DEF WordMax
<1> QED
  BY <1>2, <1>3 DEF Encode, Words

LEMMA FirstPart ==
  ASSUME NEW s \in Packets, NEW m \in Nat, NEW n \in Nat, n <= Len(s)
  PROVE  SubSeq(s, m + 1, n) \in Packets
  BY SubSeqProperties DEF Packets

\* A packet, or the list it is cut from, has an output once at most.
OnceEach(packet) ==
  \A i, j \in DOMAIN packet : packet[i][1] = packet[j][1] => i = j

LEMMA Cut ==
  ASSUME NEW s \in Packets, NEW m \in Nat, NEW n \in Nat, n <= Len(s)
  PROVE  LET t == SubSeq(s, m + 1, n)
         IN /\ t \in Packets
            /\ \A i \in DOMAIN t : m + i \in DOMAIN s /\ t[i] = s[m + i]
            /\ OnceEach(s) => OnceEach(t)
<1> DEFINE t == SubSeq(s, m + 1, n)
<1>1. \A i \in (m + 1)..n : s[i] \in Outputs \X OutValues
  BY DEF Packets
<1>2. /\ t \in Packets /\ Len(t) = IF m + 1 <= n THEN n - (m + 1) + 1 ELSE 0
      /\ \A i \in 1..(n - (m + 1) + 1) : t[i] = s[(m + 1) + i - 1]
  BY <1>1, SubSeqProperties DEF Packets
<1> HIDE DEF t
<1>3. \A i \in DOMAIN t : i \in 1..Len(t)
  BY <1>2 DEF Packets
<1>4. \A i \in DOMAIN t : i \in Nat /\ m + i \in DOMAIN s /\ t[i] = s[m + i]
  <2> SUFFICES ASSUME NEW i \in DOMAIN t PROVE i \in Nat /\ m + i \in DOMAIN s /\ t[i] = s[m + i]
    OBVIOUS
  <2>1. i \in 1..Len(t)
    BY <1>3
  <2>2. m + 1 <= n /\ i \in 1..(n - (m + 1) + 1)
    BY <1>2, <2>1
  <2>3. t[i] = s[(m + 1) + i - 1] /\ (m + 1) + i - 1 = m + i
    BY <1>2, <2>2
  <2> QED
    BY <2>2, <2>3 DEF Packets
<1>5. OnceEach(s) => OnceEach(t)
  BY <1>4 DEF OnceEach
<1> QED
  BY <1>2, <1>4, <1>5 DEF t

LEMMA Grow ==
  ASSUME NEW s \in Packets, NEW o \in Outputs, NEW v \in OutValues
  PROVE  LET t == Append(s, <<o, v>>)
         IN /\ t \in Packets
            /\ \A i \in DOMAIN t : t[i][1] = o \/ (i \in DOMAIN s /\ t[i] = s[i])
            /\ OnceEach(s) /\ (\A i \in DOMAIN s : s[i][1] # o) => OnceEach(t)
<1> DEFINE t == Append(s, <<o, v>>)
<1>1. /\ t \in Packets /\ Len(t) = Len(s) + 1 /\ Len(s) \in Nat
      /\ \A i \in 1..Len(s) : t[i] = s[i]
      /\ t[Len(s) + 1] = <<o, v>>
      /\ DOMAIN t = 1..Len(t) /\ DOMAIN s = 1..Len(s)
  BY DEF Packets
<1> HIDE DEF t
<1>2. \A i \in DOMAIN t : \/ i = Len(s) + 1 /\ t[i][1] = o
                          \/ i \in DOMAIN s /\ t[i] = s[i]
  BY <1>1
<1>3. ASSUME OnceEach(s), \A i \in DOMAIN s : s[i][1] # o,
             NEW i \in DOMAIN t, NEW j \in DOMAIN t, t[i][1] = t[j][1]
      PROVE  i = j
  <2>1. CASE i = Len(s) + 1 /\ j = Len(s) + 1
    BY <2>1
  <2>2. CASE i \in DOMAIN s /\ t[i] = s[i] /\ j \in DOMAIN s /\ t[j] = s[j]
    BY <1>3, <2>2 DEF OnceEach
  <2>3. CASE t[i][1] = o /\ j \in DOMAIN s /\ t[j] = s[j]
    BY <1>3, <2>3
  <2>4. CASE t[j][1] = o /\ i \in DOMAIN s /\ t[i] = s[i]
    BY <1>3, <2>4
  <2> QED
    BY <1>2, <2>1, <2>2, <2>3, <2>4
<1>4. OnceEach(s) /\ (\A i \in DOMAIN s : s[i][1] # o) => OnceEach(t)
  BY <1>3 DEF OnceEach
<1>5. /\ t \in Packets
      /\ \A i \in DOMAIN t : t[i][1] = o \/ (i \in DOMAIN s /\ t[i] = s[i])
      /\ OnceEach(s) /\ (\A i \in DOMAIN s : s[i][1] # o) => OnceEach(t)
  BY <1>1, <1>2, <1>4
<1> QED
  BY <1>5 DEF t

-----------------------------------------------------------------------------
(* Every step keeps the types *)

\* An output that is still to be compared is not on the list.
Once ==
  /\ OnceEach(drv.pending)
  /\ drv.pc = "scan" => \A i \in DOMAIN drv.pending : drv.pending[i][1] \notin drv.todo
  /\ \A k \in DOMAIN wire : OnceEach(wire[k])

NoList == << >> \in Packets /\ OnceEach(<< >>) /\ DOMAIN << >> = {}

LEMMA Nothing == NoList
  BY EmptySeq DEF NoList, Packets, OnceEach

LEMMA EmptyWire ==
  ASSUME wire' = << >>
  PROVE  /\ wire' \in Seq(Packets) /\ Len(wire') <= MaxWire
         /\ \A k \in DOMAIN wire' : OnceEach(wire'[k])
<1>1. << >> \in Seq(Packets) /\ Len(<< >>) = 0 /\ DOMAIN << >> = {}
  BY EmptySeq
<1>2. MaxWire \in Nat
  BY XkopDriverAssumption
<1> QED
  BY <1>1, <1>2

\* The thread goes on with nothing on its list, or with the list it has.
LEMMA ListStays ==
  ASSUME Once, WireTypes, UNCHANGED <<wire, remote>>,
         drv'.pc \in {"connect", "zero", "wait", "clear", "scan", "send", "dead"},
         drv'.todo \subseteq Outputs \cup Inputs,
         \/ drv'.pending = << >>
         \/ drv'.pending = drv.pending /\ drv'.pc # "scan"
  PROVE  WireTypes' /\ Once'
  BY Nothing DEF NoList, WireTypes, Once

LEMMA ThreadTypes ==
  ASSUME IInv, WireTypes, Once,
         \/ Connect \/ (\E i \in Inputs : ZeroInput(i)) \/ StartLoops
         \/ Wake \/ ClearEvent \/ EndScan \/ Alive \/ Close
  PROVE  WireTypes' /\ Once'
<1>1. CASE Connect
  <2>1. drv' = [pc |-> "zero", todo |-> Inputs, pending |-> << >>]
    BY <1>1 DEF Connect, At
  <2>2. wire' = << >> /\ remote' = remote
    BY <1>1 DEF Connect
  <2> QED
    BY <2>1, <2>2, EmptyWire, Nothing DEF NoList, WireTypes, Once
<1>2. CASE Close
  <2>1. drv' = [pc |-> "connect", todo |-> {}, pending |-> << >>]
    BY <1>2 DEF Close, At
  <2>2. wire' = << >> /\ remote' = remote
    BY <1>2 DEF Close
  <2> QED
    BY <2>1, <2>2, EmptyWire, Nothing DEF NoList, WireTypes, Once
<1>3. ASSUME NEW i \in Inputs, ZeroInput(i)
      PROVE  WireTypes' /\ Once'
  <2>1. drv' = [pc |-> "zero", todo |-> drv.todo \ {i}, pending |-> drv.pending]
    BY <1>3 DEF ZeroInput, IInv, Shape
  <2> QED
    BY <1>3, <2>1, ListStays DEF ZeroInput, WireTypes
<1>4. CASE EndScan
  <2>1. \E pc \in {"dead", "send"} :
          drv' = [pc |-> pc, todo |-> drv.todo, pending |-> drv.pending]
    BY <1>4 DEF EndScan, IInv, Shape
  <2> QED
    BY <1>4, <2>1, ListStays DEF EndScan, WireTypes
<1>5. CASE StartLoops \/ Wake \/ ClearEvent \/ Alive
  <2>1. \E pc \in {"wait", "clear", "scan"}, todo \in {{}, Outputs} :
          drv' = [pc |-> pc, todo |-> todo, pending |-> << >>]
    BY <1>5 DEF StartLoops, Wake, ClearEvent, Alive, At
  <2>2. UNCHANGED <<wire, remote>>
    BY <1>5 DEF StartLoops, Wake, ClearEvent, Alive
  <2> QED
    BY <2>1, <2>2, ListStays
<1> QED
  BY <1>1, <1>2, <1>3, <1>4, <1>5

\* An output that differs goes on the list, and is compared no more.
LEMMA ScanTypes ==
  ASSUME IInv, WireTypes, Once, NEW o \in Outputs, Scan(o)
  PROVE  WireTypes' /\ Once'
<1> DEFINE p == IF lastSent[o] = output[o] THEN drv.pending
                ELSE Append(drv.pending, <<o, output[o]>>)
<1>1. /\ drv.pc = "scan" /\ o \in drv.todo /\ UNCHANGED <<wire, remote>>
      /\ drv' = [drv EXCEPT !.todo = drv.todo \ {o}, !.pending = p]
  BY DEF Scan
<1>2. drv' = [pc |-> "scan", todo |-> drv.todo \ {o}, pending |-> p]
  BY <1>1 DEF IInv, Shape
<1>3. drv.pending \in Packets /\ output[o] \in OutValues
  BY DEF WireTypes, IInv, Shape
<1>4. /\ p \in Packets /\ OnceEach(p)
      /\ \A i \in DOMAIN p : p[i][1] = o \/ p[i][1] \notin drv.todo
  <2>1. \A i \in DOMAIN drv.pending : drv.pending[i][1] \notin drv.todo
    BY <1>1 DEF Once
  <2>2. OnceEach(drv.pending)
    BY DEF Once
  <2>3. CASE lastSent[o] = output[o]
    BY <1>3, <2>1, <2>2, <2>3
  <2>4. CASE lastSent[o] # output[o]
    <3> DEFINE t == Append(drv.pending, <<o, output[o]>>)
    <3>1. p = t
      BY <2>4
    <3>2. /\ t \in Packets
          /\ \A i \in DOMAIN t : \/ t[i][1] = o
                                 \/ i \in DOMAIN drv.pending /\ t[i] = drv.pending[i]
          /\ OnceEach(t)
      BY <1>1, <1>3, <2>1, <2>2, Grow
    <3> HIDE DEF t
    <3> QED
      BY <2>1, <3>1, <3>2
  <2> QED
    BY <2>3, <2>4
<1> HIDE DEF p
<1> QED
  BY <1>1, <1>2, <1>4 DEF WireTypes, Once

\* The first part of the list is a packet, and the rest stays on the list.
LEMMA SendTypes ==
  ASSUME IInv, WireTypes, Once, Send
  PROVE  WireTypes' /\ Once'
<1> DEFINE n    == IF Len(drv.pending) < Batch THEN Len(drv.pending) ELSE Batch
           len  == Len(drv.pending)
           rest == SubSeq(drv.pending, n + 1, len)
           sent == SubSeq(drv.pending, 1, n)
<1>1. /\ drv.pc = "send" /\ Len(wire) < MaxWire /\ remote' = remote
      /\ wire' = IF open THEN Append(wire, sent) ELSE wire
      /\ drv' = [drv EXCEPT !.pending = rest, !.pc = IF rest = << >> THEN "dead" ELSE "send"]
  BY DEF Send
<1>2. drv.pending \in Packets /\ len \in Nat /\ OnceEach(drv.pending)
  BY DEF WireTypes, Packets, Once
<1>3. n \in Nat /\ n <= len
  BY <1>2, XkopDriverAssumption
<1> HIDE DEF n
<1>4. rest \in Packets /\ OnceEach(rest)
  BY <1>2, <1>3, Cut
<1>5. sent \in Packets /\ OnceEach(sent)
  <2>1. SubSeq(drv.pending, 0 + 1, n) \in Packets /\ OnceEach(SubSeq(drv.pending, 0 + 1, n))
    BY <1>2, <1>3, Cut
  <2>2. 0 + 1 = 1
    OBVIOUS
  <2> QED
    BY <2>1, <2>2
<1> HIDE DEF rest, sent
<1>6. \E pc \in {"dead", "send"} : drv' = [pc |-> pc, todo |-> drv.todo, pending |-> rest]
  BY <1>1 DEF IInv, Shape
<1>7. /\ wire' \in Seq(Packets) /\ Len(wire') <= MaxWire
      /\ \A k \in DOMAIN wire' : OnceEach(wire'[k])
  <2>1. MaxWire \in Nat /\ wire \in Seq(Packets) /\ \A k \in DOMAIN wire : OnceEach(wire[k])
    BY XkopDriverAssumption DEF WireTypes, Once
  <2>2. CASE wire' = Append(wire, sent)
    <3>1. /\ wire' \in Seq(Packets) /\ Len(wire') = Len(wire) + 1 /\ Len(wire) \in Nat
          /\ \A k \in 1..Len(wire) : wire'[k] = wire[k]
          /\ wire'[Len(wire) + 1] = sent
      BY <1>5, <2>1, <2>2, AppendProperties
    <3>2. \A k \in DOMAIN wire' : k = Len(wire) + 1 \/ k \in DOMAIN wire
      BY <2>1, <3>1
    <3> QED
      BY <1>1, <1>5, <2>1, <3>1, <3>2
  <2>3. CASE wire' = wire
    BY <2>1, <2>3 DEF WireTypes
  <2> QED
    BY <1>1, <2>2, <2>3
<1> QED
  BY <1>1, <1>4, <1>6, <1>7 DEF WireTypes, Once

LEMMA ArrivalTypes ==
  ASSUME WireTypes, Once, Deliver \/ Leave
  PROVE  WireTypes' /\ Once'
<1>1. drv' = drv
  BY DEF Deliver, Leave
<1>2. CASE Deliver
  <2>1. /\ wire' \in Seq(Packets) /\ Len(wire') = Len(wire) - 1 /\ Len(wire) \in Nat
        /\ \A k \in 1..Len(wire') : wire'[k] = wire[k + 1]
    BY <1>2, HeadTailProperties DEF Deliver, WireTypes
  <2>2. \A k \in DOMAIN wire' : k + 1 \in DOMAIN wire /\ wire'[k] = wire[k + 1]
    BY <2>1 DEF WireTypes
  <2>3. remote' \in [Outputs -> Words]
    <3>1. ASSUME NEW o \in Outputs
          PROVE  LET new == {v \in OutValues : <<o, v>> \in Range(Head(wire))}
                 IN (IF new = {} THEN remote[o] ELSE Encode(CHOOSE v \in new : TRUE)) \in Words
      BY EncodeTyped DEF WireTypes
    <3> QED
      BY <1>2, <3>1 DEF Deliver
  <2>4. Len(wire') <= MaxWire
    BY <2>1, XkopDriverAssumption DEF WireTypes
  <2> QED
    BY <1>1, <2>1, <2>2, <2>3, <2>4 DEF WireTypes, Once
<1>3. CASE Leave
  <2>1. wire' = << >> /\ remote' \in {remote, [o \in Outputs |-> 0]}
    BY <1>3 DEF Leave
  <2>2. 0 \in Words
    BY DEF Words, WordMax
  <2>3. remote' \in [Outputs -> Words]
    BY <2>1, <2>2 DEF WireTypes
  <2> QED
    BY <1>1, <2>1, <2>3, EmptyWire DEF WireTypes, Once
<1> QED
  BY <1>2, <1>3

LEMMA WireStep ==
  ASSUME IInv, WireTypes, Once, [Next]_vars
  PROVE  WireTypes' /\ Once'
<1>1. CASE UNCHANGED <<drv, wire, remote>>
  BY <1>1 DEF WireTypes, Once
<1> QED
  BY <1>1, ThreadTypes, ScanTypes, SendTypes, ArrivalTypes
  DEF Next, SomeWrite, DriverWork, Write, Notify, Receive, ReceiveKeepAlive, ReceiveEnd, Tick,
      vars

LEMMA CountsStep ==
  ASSUME Counts, [Next]_vars
  PROVE  Counts'
<1>1. silence' = silence \/ silence' = 0 \/ (silence <= DeadTimeout /\ silence' = silence + 1)
  BY DEF Next, SomeWrite, DriverWork, Write, Notify, Connect, ZeroInput, StartLoops, Wake,
     ClearEvent, Scan, EndScan, Send, Close, Alive, Receive, ReceiveKeepAlive, ReceiveEnd,
     Deliver, Leave, Tick, vars
<1>2. notify' = notify \/ \E w \in Writers : notify' \in {notify \cup {w}, notify \ {w}}
  BY DEF Next, SomeWrite, DriverWork, Write, Notify, Connect, ZeroInput, StartLoops, Wake,
     ClearEvent, Scan, EndScan, Send, Close, Alive, Receive, ReceiveKeepAlive, ReceiveEnd,
     Deliver, Leave, Tick, vars
<1> QED
  BY <1>1, <1>2 DEF Counts, DeadTimeout

LEMMA FlagsStep ==
  ASSUME Flags, [Next]_vars
  PROVE  Flags'
  BY DEF Flags, Next, SomeWrite, DriverWork, Write, Notify, Connect, ZeroInput, StartLoops,
     Wake, ClearEvent, Scan, EndScan, Send, Close, Alive, Receive, ReceiveKeepAlive,
     ReceiveEnd, Deliver, Leave, Tick, vars

LEMMA TypesInit == Init => Types /\ Once
<1> SUFFICES ASSUME Init PROVE Types /\ Once
  OBVIOUS
<1>1. drv = [pc |-> "connect", todo |-> {}, pending |-> << >>] /\ wire = << >>
  BY DEF Init, At
<1>2. {0, 1} \subseteq Words
  BY DEF Words, WordMax
<1>3. remote \in [Outputs -> Words]
  BY <1>2 DEF Init
<1>4. /\ << >> \in Seq(Packets) /\ Len(<< >>) = 0 /\ DOMAIN << >> = {}
      /\ MaxWire \in Nat
  BY EmptySeq, XkopDriverAssumption
<1>5. WireTypes /\ Once
  BY <1>1, <1>3, <1>4, Nothing DEF NoList, WireTypes, Once
<1>6. Counts
  BY DEF Init, Counts, DeadTimeout
<1>7. Flags
  BY DEF Init, Flags
<1> QED
  BY <1>5, <1>6, <1>7 DEF Types

LEMMA TypesStep == IInv /\ Types /\ Once /\ [Next]_vars => Types' /\ Once'
  BY WireStep, CountsStep, FlagsStep DEF Types

\* Every variable has its type: the buffer is never overrun, what the controller
\* has is 16 bits wide, and the silence that is counted stays within its bound.
THEOREM TypesAlways == Spec => []TypeOK
<1>1. IInv /\ Types => TypeOK
  <2> SUFFICES ASSUME IInv, Types PROVE TypeOK
    OBVIOUS
  <2>1. Range(drv.pending) \subseteq Outputs \X OutValues
    BY DEF Types, WireTypes, Packets, Range
  <2>2. /\ output \in [Outputs -> OutValues] /\ input \in [Inputs -> InValues]
        /\ lastSent \in [Outputs -> OutValues \cup {Unsent}] /\ told \in [Inputs -> InValues]
    BY DEF IInv, Shape
  <2>3. Flags /\ Counts /\ WireTypes
    BY DEF Types
  <2> QED
    BY <2>1, <2>2, <2>3, Zenon DEF TypeOK, Flags, Counts, WireTypes
<1> QED
  BY <1>1, InvInit, InvStep, TypesInit, TypesStep, PTL DEF Spec

\* No packet on the wire has an output twice, so its order does not matter
\* (_send_loop collects one value of each signal, _make_packet).
THEOREM PacketsOnce == Spec => [](\A k \in DOMAIN wire : OnceEach(wire[k]))
<1>1. Once => \A k \in DOMAIN wire : OnceEach(wire[k])
  BY DEF Once
<1> QED
  BY <1>1, InvInit, InvStep, TypesInit, TypesStep, PTL DEF Spec
=============================================================================
