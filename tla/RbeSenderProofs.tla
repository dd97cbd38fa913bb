--------------------------- MODULE RbeSenderProofs ---------------------------
(***************************************************************************)
(* Proofs about RbeSender, for any reply signals and fields, any retry     *)
(* count and any limit of the backlog.                                     *)
(*                                                                         *)
(* The two sending threads write the backlog counter from a value they     *)
(* read in an earlier step, which may be less or more than what the        *)
(* counter is by then: no bound of the counter follows, but none of these  *)
(* values is negative.  TodoLeft says that a thread in the middle of its   *)
(* reads has one left, and InformParts how far its INFORM has come.        *)
(***************************************************************************)
EXTENDS RbeSender, TLAPS

\* A thread in the middle of its reads has one left.
TodoLeft == \A t \in Threads :
  thread[t].pc \in {"collect", "check", "read"} => thread[t].todo # {}

RbeInv == TypeOK /\ TodoLeft

-----------------------------------------------------------------------------
(* Types *)

LEMMA Numbers ==
  /\ 0 \in Nat /\ 0 \in 0..Retries
  /\ \A n \in 0..Retries : n < Retries => n + 1 \in 0..Retries
  /\ \A n \in Nat : (IF n > 0 THEN n - 1 ELSE 0) \in Nat /\ n + 1 \in Nat
  BY RbeSenderAssumption

LEMMA IdleType == Empty \in Dicts /\ Idle \in Sender
<1>1. Empty \in Dicts
  BY DEF Empty, Dicts
<1> QED
  BY <1>1, Numbers DEF Idle, Sender, Steps

(* The order of a dict never leads out of it. *)
LEMMA FirstIn == ASSUME NEW S, S # {} PROVE First(S) \in S
  BY DEF First

(* dict.update keeps a dict a dict, and a copy of bits a copy of bits. *)
LEMMA UpdateType ==
  ASSUME NEW new \in Dicts
  PROVE  /\ \A dict \in Dicts : Update(dict, new) \in Dicts
         /\ \A copy \in [Signals -> {0, 1}] : Update(copy, new) \in [Signals -> {0, 1}]
  BY DEF Update, Dicts, Keys, None

LEMMA ReadType ==
  ASSUME TypeOK, NEW s \in Signals
  PROVE  /\ Value(s) \in {0, 1} /\ Read(s) \in {0, 1}
         /\ AfterRead \in {"up", "stale", "down"}
<1>1. Value(s) \in {0, 1}
  BY DEF Value, TypeOK
<1>2. \A v \in {0, 1} : Conditioned(s, v) \in {0, 1}
  BY DEF Conditioned
<1> QED
  BY <1>1, <1>2 DEF Read, AfterRead, TypeOK

(* A batch that is not empty is about something that has to be read. *)
LEMMA CarriedOf ==
  ASSUME NEW dict \in Dicts, dict # Empty
  PROVE  Carried(Keys(dict)) # {}
<1>1. PICK s \in Signals : dict[s] # None
  BY DEF Dicts, Empty
<1> QED
  BY <1>1 DEF Carried, Keys

(* Putting a thread at a place of its type. *)
LEMMA ThreadMoves ==
  ASSUME RbeInv, NEW t \in Threads, NEW new \in Sender,
         new.pc \in {"collect", "check", "read"} => new.todo # {},
         thread' = [thread EXCEPT ![t] = new]
  PROVE  thread' \in [Threads -> Sender] /\ TodoLeft'
  BY DEF RbeInv, TypeOK, TodoLeft

LEMMA PollTypes ==
  ASSUME RbeInv, PollWork
  PROVE  RbeInv'
<1>1. TodoLeft'
  BY DEF RbeInv, TodoLeft, PollWork, Poll, Report
<1>2. CASE Poll
  <2>1. prev' \in Dicts
    BY <1>2, ReadType DEF Poll, RbeInv, Dicts
  <2>2. link' \in {"up", "stale", "down"}
    BY <1>2 DEF Poll, AfterRead, RbeInv, TypeOK
  <2> QED
    BY <1>1, <1>2, <2>1, <2>2 DEF Poll, RbeInv, TypeOK
<1>3. CASE Report
  <2>1. First(changed) \in changed
    BY <1>3, FirstIn DEF Report
  <2>2. pending' \in Dicts
    BY <1>3, <2>1 DEF Report, RbeInv, TypeOK, Dicts
  <2> QED
    BY <1>1, <1>3, <2>2 DEF Report, RbeInv, TypeOK
<1> QED
  BY <1>2, <1>3 DEF PollWork

LEMMA TakeTypes ==
  ASSUME RbeInv, Take
  PROVE  RbeInv'
<1> DEFINE new == [s \in Signals |-> IF pending[s] = lastSent[s] THEN None ELSE pending[s]]
           sender == [thread["send"] EXCEPT !.pc = "check", !.batch = new,
                                            !.todo = Carried(Keys(new))]
<1>1. new \in Dicts /\ "send" \in Threads
  BY DEF RbeInv, TypeOK, Dicts, Threads
<1>2. Carried(Keys(new)) \subseteq Signals
  BY DEF Carried
<1>3. CASE monitored /\ new # Empty
  <2>1. thread' = [thread EXCEPT !["send"] = sender]
    BY <1>3 DEF Take
  <2>2. sender \in Sender /\ sender.todo # {}
    <3>1. thread["send"] \in Sender /\ Carried(Keys(new)) # {}
      BY <1>1, <1>3, CarriedOf DEF RbeInv, TypeOK
    <3> HIDE DEF new
    <3> QED
      BY <1>1, <1>2, <3>1 DEF Sender, Steps
  <2>3. thread' \in [Threads -> Sender] /\ TodoLeft'
    <3> HIDE DEF sender
    <3> QED
      BY <1>1, <2>1, <2>2, ThreadMoves
  <2> QED
    BY <2>3, IdleType DEF Take, RbeInv, TypeOK
<1>4. CASE ~(monitored /\ new # Empty)
  <2>1. thread' = [thread EXCEPT !["send"] = Idle]
    BY <1>4 DEF Take
  <2>2. thread' \in [Threads -> Sender] /\ TodoLeft'
    BY <1>1, <2>1, IdleType, ThreadMoves DEF Idle
  <2> QED
    BY <2>2, IdleType DEF Take, RbeInv, TypeOK
<1> QED
  BY <1>3, <1>4

LEMMA PutBackTypes ==
  ASSUME RbeInv, PutBack
  PROVE  RbeInv'
<1>1. "send" \in Threads
  BY DEF Threads
<1>2. thread' \in [Threads -> Sender] /\ TodoLeft'
  BY <1>1, IdleType, ThreadMoves DEF PutBack, Idle
<1>3. pending' \in Dicts
  BY <1>1, UpdateType DEF PutBack, RbeInv, TypeOK, Sender
<1> QED
  BY <1>2, <1>3 DEF PutBack, RbeInv, TypeOK

LEMMA KeepTypes ==
  ASSUME RbeInv, KeepAliveWake \/ Collect
  PROVE  RbeInv'
<1>1. "keep" \in Threads /\ thread["keep"] \in Sender
  BY DEF Threads, RbeInv, TypeOK
<1>2. CASE KeepAliveWake
  <2> DEFINE sender == [thread["keep"] EXCEPT !.pc = "collect", !.todo = Signals]
  <2>1. thread' = [thread EXCEPT !["keep"] = sender]
    BY <1>2 DEF KeepAliveWake, RbeInv, TypeOK
  <2>2. sender \in Sender /\ sender.todo # {}
    BY <1>1, RbeSenderAssumption DEF Sender, Steps
  <2>3. thread' \in [Threads -> Sender] /\ TodoLeft'
    <3> HIDE DEF sender
    <3> QED
      BY <1>1, <2>1, <2>2, ThreadMoves
  <2> QED
    BY <1>2, <2>3 DEF KeepAliveWake, RbeInv, TypeOK
<1>3. CASE Collect
  <2> DEFINE s == First(thread["keep"].todo)
             last == thread["keep"].todo = {s}
             sender == IF last
               THEN [thread["keep"] EXCEPT !.batch[s] = Read(s), !.pc = "read", !.todo = Signals]
               ELSE [thread["keep"] EXCEPT !.batch[s] = Read(s),
                                               !.todo = thread["keep"].todo \ {s}]
  <2>1. s \in thread["keep"].todo /\ s \in Signals
    BY <1>1, <1>3, FirstIn DEF Collect, RbeInv, TodoLeft, Sender
  <2>2. thread' = [thread EXCEPT !["keep"] = sender]
    BY <1>3 DEF Collect
  <2>3. [thread["keep"].batch EXCEPT ![s] = Read(s)] \in Dicts
    BY <1>1, <2>1, ReadType DEF RbeInv, Sender, Dicts
  <2>4. sender \in Sender /\ sender.todo # {}
    <3> HIDE DEF s
    <3> QED
      BY <1>1, <2>1, <2>3, RbeSenderAssumption DEF Sender, Steps
  <2>5. thread' \in [Threads -> Sender] /\ TodoLeft'
    <3> HIDE DEF sender
    <3> QED
      BY <1>1, <2>2, <2>4, ThreadMoves
  <2>6. link' \in {"up", "stale", "down"}
    BY <1>3, <2>1, ReadType DEF Collect, RbeInv
  <2> QED
    BY <1>3, <2>5, <2>6 DEF Collect, RbeInv, TypeOK
<1> QED
  BY <1>2, <1>3

LEMMA ReadBitTypes ==
  ASSUME RbeInv, NEW t \in Threads, ReadBit(t)
  PROVE  RbeInv'
<1> DEFINE s == First(thread[t].todo)
           sender == [thread[t] EXCEPT !.carry[s] = Read(s), !.todo = thread[t].todo \ {s},
                        !.pc = IF thread[t].todo = {s} THEN "attempt" ELSE "read"]
<1>1. thread[t] \in Sender
  BY DEF RbeInv, TypeOK
<1>2. s \in thread[t].todo /\ s \in Signals
  BY <1>1, FirstIn DEF ReadBit, RbeInv, TodoLeft, Sender
<1>3. thread' = [thread EXCEPT ![t] = sender]
  BY DEF ReadBit
<1>4. [thread[t].carry EXCEPT ![s] = Read(s)] \in Dicts
  BY <1>1, <1>2, ReadType DEF RbeInv, Sender, Dicts
<1>5. sender \in Sender /\ (sender.pc = "read" => sender.todo # {})
  <2> HIDE DEF s
  <2> QED
    BY <1>1, <1>2, <1>4 DEF Sender, Steps
<1>6. thread' \in [Threads -> Sender] /\ TodoLeft'
  <2>1. sender.pc \in {"read", "attempt"}
    OBVIOUS
  <2> HIDE DEF sender
  <2> QED
    BY <1>3, <1>5, <2>1, ThreadMoves
<1>7. link' \in {"up", "stale", "down"}
  BY <1>2, ReadType DEF ReadBit, RbeInv
<1> QED
  BY <1>6, <1>7 DEF ReadBit, RbeInv, TypeOK

LEMMA ReadCutTypes ==
  ASSUME RbeInv, NEW t \in Threads, ReadCut(t)
  PROVE  RbeInv'
<1>1. [Idle EXCEPT !.pc = "dead"] \in Sender
  BY IdleType DEF Sender, Steps
<1>2. [Idle EXCEPT !.pc = "dead"].pc = "dead"
  BY DEF Idle
<1>3. thread' \in [Threads -> Sender] /\ TodoLeft'
  BY <1>1, <1>2, ThreadMoves DEF ReadCut
<1> QED
  BY <1>3 DEF ReadCut, RbeInv, TypeOK

LEMMA AttemptTypes ==
  ASSUME RbeInv, NEW t \in Threads, Answered(t) \/ Unanswered(t)
  PROVE  RbeInv'
<1>1. thread[t] \in Sender /\ depth \in Nat
  BY DEF RbeInv, TypeOK
<1>2. inst' \in [Signals -> {0, 1}]
  BY <1>1, UpdateType DEF Answered, Unanswered, RbeInv, TypeOK, Sender
<1>3. thread' \in [Threads -> Sender] /\ TodoLeft'
  <2>1. CASE Answered(t)
    <3> DEFINE sender == [Idle EXCEPT !.pc = "note", !.batch = thread[t].batch]
    <3>1. sender \in Sender /\ sender.pc = "note"
      BY <1>1, IdleType DEF Sender, Steps, Idle
    <3>2. thread' = [thread EXCEPT ![t] = sender]
      BY <2>1 DEF Answered
    <3> HIDE DEF sender
    <3> QED
      BY <3>1, <3>2, ThreadMoves
  <2>2. CASE Unanswered(t) /\ thread[t].tries < Retries
    <3> DEFINE sender == [thread[t] EXCEPT !.tries = thread[t].tries + 1]
    <3>1. thread[t].tries + 1 \in 0..Retries /\ thread[t].pc = "attempt"
      BY <1>1, <2>2, Numbers DEF Sender, Unanswered
    <3>2. sender \in Sender /\ sender.pc = "attempt"
      BY <1>1, <3>1 DEF Sender
    <3>3. thread' = [thread EXCEPT ![t] = sender]
      BY <2>2 DEF Unanswered, RbeInv, TypeOK
    <3> HIDE DEF sender
    <3> QED
      BY <3>2, <3>3, ThreadMoves
  <2>3. CASE Unanswered(t) /\ ~(thread[t].tries < Retries)
    <3> DEFINE sender == [Idle EXCEPT !.pc = "more", !.seen = depth]
    <3>1. sender \in Sender /\ sender.pc = "more"
      BY <1>1, IdleType DEF Sender, Steps, Idle
    <3>2. thread' = [thread EXCEPT ![t] = sender]
      BY <2>3 DEF Unanswered
    <3> HIDE DEF sender
    <3> QED
      BY <3>1, <3>2, ThreadMoves
  <2> QED
    BY <2>1, <2>2, <2>3
<1> QED
  BY <1>2, <1>3 DEF Answered, Unanswered, RbeInv, TypeOK

LEMMA CountTypes ==
  ASSUME RbeInv, NEW t \in Threads, Note(t) \/ CountLess(t) \/ CountMore(t)
  PROVE  RbeInv'
<1>1. thread[t] \in Sender /\ thread[t].seen \in Nat /\ depth \in Nat
  BY DEF RbeInv, TypeOK, Sender
<1>2. CASE Note(t)
  <2> DEFINE sender == [Idle EXCEPT !.pc = "less", !.seen = depth]
  <2>1. sender \in Sender /\ sender.pc = "less"
    BY <1>1, IdleType DEF Sender, Steps, Idle
  <2>2. thread' = [thread EXCEPT ![t] = sender]
    BY <1>2 DEF Note
  <2>3. thread' \in [Threads -> Sender] /\ TodoLeft'
    <3> HIDE DEF sender
    <3> QED
      BY <2>1, <2>2, ThreadMoves
  <2>4. lastSent' \in Dicts
    BY <1>1, <1>2, UpdateType DEF Note, RbeInv, TypeOK, Sender
  <2> QED
    BY <1>2, <2>3, <2>4 DEF Note, RbeInv, TypeOK
<1>3. CASE CountLess(t) \/ CountMore(t)
  <2>1. depth' \in Nat
    BY <1>1, <1>3, Numbers DEF CountLess, CountMore
  <2>2. thread' = [thread EXCEPT ![t] = Idle]
    BY <1>3 DEF CountLess, CountMore
  <2>3. thread' \in [Threads -> Sender] /\ TodoLeft'
    BY <2>2, IdleType, ThreadMoves DEF Idle
  <2> QED
    BY <1>3, <2>1, <2>3 DEF CountLess, CountMore, RbeInv, TypeOK
<1> QED
  BY <1>2, <1>3

LEMMA RestTypes ==
  ASSUME RbeInv,
         \/ BacklogDrop \/ SetMode \/ SignalChanges \/ ServerLost \/ Connect
         \/ UNCHANGED vars
  PROVE  RbeInv'
<1>1. TodoLeft'
  BY DEF RbeInv, TodoLeft, BacklogDrop, SetMode, SignalChanges, ServerLost, Connect, vars
<1>2. CASE BacklogDrop
  BY <1>1, <1>2, Numbers DEF BacklogDrop, RbeInv, TypeOK
<1>3. CASE SetMode
  BY <1>1, <1>3 DEF SetMode, RbeInv, TypeOK
<1>4. CASE SignalChanges
  <2>1. bus' \in [Signals -> {0, 1}]
    BY <1>4 DEF SignalChanges, RbeInv, TypeOK
  <2> QED
    BY <1>1, <1>4, <2>1 DEF SignalChanges, RbeInv, TypeOK
<1>5. CASE ServerLost \/ Connect
  BY <1>1, <1>5 DEF ServerLost, Connect, RbeInv, TypeOK
<1>6. CASE UNCHANGED vars
  BY <1>1, <1>6 DEF vars, RbeInv, TypeOK
<1> QED
  BY <1>2, <1>3, <1>4, <1>5, <1>6

LEMMA InvInit == Init => RbeInv
<1> SUFFICES ASSUME Init PROVE RbeInv
  OBVIOUS
<1>1. thread \in [Threads -> Sender] /\ inst \in [Signals -> {0, 1}]
  BY IdleType DEF Init
<1>2. TodoLeft
  BY DEF Init, TodoLeft, Idle
<1> QED
  BY <1>1, <1>2, IdleType, Numbers DEF Init, RbeInv, TypeOK

LEMMA InvStep ==
  ASSUME RbeInv, [Next]_vars
  PROVE  RbeInv'
<1>1. "send" \in Threads /\ "keep" \in Threads
  BY DEF Threads
<1> QED
  BY <1>1, PollTypes, TakeTypes, PutBackTypes, KeepTypes, ReadBitTypes, ReadCutTypes,
     AttemptTypes, CountTypes, RestTypes
     DEF Next, SendWork, KeepWork, Inform

\* Every variable keeps its type; the backlog counter, which has no upper bound,
\* is never negative, although the two threads write it from old values and the
\* watchdog clears it in between (_send_inform, _watchdog).
THEOREM TypesAlways == Spec => []TypeOK
<1>1. RbeInv => TypeOK
  BY DEF RbeInv
<1> QED
  BY <1>1, InvInit, InvStep, PTL DEF Spec

-----------------------------------------------------------------------------
(* The INFORM a thread builds *)

\* The signals of the fields that t's INFORM is about.
About(t) == Carried(Keys(thread[t].batch))

\* How far a thread has come with the batch and with the packet.
Building(sender) ==
  LET about == Carried(Keys(sender.batch)) IN
  /\ sender.pc = "wait" => sender = Idle
  /\ sender.pc = "collect" =>
       /\ Keys(sender.batch) = Signals \ sender.todo
       /\ Keys(sender.carry) = {}
  /\ sender.pc \in {"check", "read"} =>
       /\ sender.todo \subseteq about
       /\ Keys(sender.carry) = about \ sender.todo
  /\ sender.pc = "attempt" => Keys(sender.carry) = about

InformParts == \A t \in Threads : Building(thread[t])

(* A dict that is given a value for s has s for a key. *)
LEMMA KeysOf ==
  ASSUME NEW dict \in Dicts, NEW s \in Signals, NEW v \in {0, 1}
  PROVE  Keys([dict EXCEPT ![s] = v]) = Keys(dict) \cup {s}
  BY DEF Keys, Dicts, None

(* Nothing is about to be sent by a thread that is elsewhere. *)
LEMMA BuildsNothing ==
  ASSUME NEW sender \in Sender,
         sender = Idle \/ sender.pc \in {"note", "less", "more", "dead"}
  PROVE  Building(sender)
<1>1. CASE sender = Idle
  BY <1>1 DEF Building, Idle
<1>2. CASE sender.pc \in {"note", "less", "more", "dead"}
  BY <1>2 DEF Building
<1> QED
  BY <1>1, <1>2

LEMMA ThreadBuilds ==
  ASSUME TypeOK, InformParts, NEW t \in Threads, NEW new, Building(new),
         thread' = [thread EXCEPT ![t] = new]
  PROVE  InformParts'
<1>1. \A r \in Threads : thread'[r] = IF r = t THEN new ELSE thread[r]
  BY DEF TypeOK
<1> QED
  BY <1>1 DEF InformParts

LEMMA TakeBuilds ==
  ASSUME RbeInv, InformParts, Take \/ PutBack
  PROVE  InformParts'
<1>1. "send" \in Threads /\ thread["send"] \in Sender /\ TypeOK /\ Building(Idle)
  BY IdleType, BuildsNothing DEF Threads, RbeInv, TypeOK
<1>2. CASE Take
  <2> DEFINE new == [s \in Signals |-> IF pending[s] = lastSent[s] THEN None ELSE pending[s]]
             sender == [thread["send"] EXCEPT !.pc = "check", !.batch = new,
                                              !.todo = Carried(Keys(new))]
  <2>1. thread["send"] = Idle
    BY <1>1, <1>2 DEF Take, InformParts, Building
  <2>2. /\ sender.pc = "check" /\ sender.batch = new /\ sender.todo = Carried(Keys(new))
        /\ sender.carry = Empty
    <3> HIDE DEF new
    <3> QED
      BY <2>1 DEF Idle
  <2>3. Keys(Empty) = {}
    BY DEF Keys, Empty
  <2>4. Building(sender)
    <3> HIDE DEF sender, new
    <3> QED
      BY <2>2, <2>3 DEF Building
  <2>5. \/ thread' = [thread EXCEPT !["send"] = sender]
        \/ thread' = [thread EXCEPT !["send"] = Idle]
    BY <1>2 DEF Take
  <2> HIDE DEF sender
  <2> QED
    BY <1>1, <2>4, <2>5, ThreadBuilds
<1>3. CASE PutBack
  BY <1>1, <1>3, ThreadBuilds DEF PutBack
<1> QED
  BY <1>2, <1>3

LEMMA KeepBuilds ==
  ASSUME RbeInv, InformParts, KeepAliveWake \/ Collect
  PROVE  InformParts'
<1>1. "keep" \in Threads /\ thread["keep"] \in Sender /\ TypeOK
  BY DEF Threads, RbeInv, TypeOK
<1>2. CASE KeepAliveWake
  <2> DEFINE sender == [thread["keep"] EXCEPT !.pc = "collect", !.todo = Signals]
  <2>1. thread["keep"] = Idle
    BY <1>1, <1>2 DEF KeepAliveWake, InformParts, Building
  <2>2. /\ sender.pc = "collect" /\ sender.todo = Signals
        /\ sender.batch = Empty /\ sender.carry = Empty
    BY <2>1 DEF Idle
  <2>3. Keys(Empty) = {}
    BY DEF Keys, Empty
  <2>4. Building(sender)
    <3> HIDE DEF sender
    <3> QED
      BY <2>2, <2>3 DEF Building
  <2>5. thread' = [thread EXCEPT !["keep"] = sender]
    BY <1>2 DEF KeepAliveWake, RbeInv, TypeOK
  <2> HIDE DEF sender
  <2> QED
    BY <1>1, <2>4, <2>5, ThreadBuilds
<1>3. CASE Collect
  <2> DEFINE s == First(thread["keep"].todo)
             batch == [thread["keep"].batch EXCEPT ![s] = Read(s)]
             sender == IF thread["keep"].todo = {s}
               THEN [thread["keep"] EXCEPT !.batch[s] = Read(s), !.pc = "read", !.todo = Signals]
               ELSE [thread["keep"] EXCEPT !.batch[s] = Read(s),
                                           !.todo = thread["keep"].todo \ {s}]
  <2>1. s \in thread["keep"].todo /\ s \in Signals
    BY <1>1, <1>3, FirstIn DEF Collect, RbeInv, TodoLeft, Sender
  <2>2. /\ Keys(thread["keep"].batch) = Signals \ thread["keep"].todo
        /\ Keys(thread["keep"].carry) = {} /\ thread["keep"].todo \subseteq Signals
    BY <1>1, <1>3 DEF Collect, InformParts, Building, Sender
  <2>3. Keys(batch) = Keys(thread["keep"].batch) \cup {s}
    BY <1>1, <2>1, KeysOf, ReadType DEF Sender
  <2>4. /\ sender.batch = batch /\ sender.carry = thread["keep"].carry
        /\ sender.todo = IF thread["keep"].todo = {s} THEN Signals ELSE thread["keep"].todo \ {s}
        /\ sender.pc = IF thread["keep"].todo = {s} THEN "read" ELSE "collect"
    <3> HIDE DEF s
    <3> QED
      BY <1>1, <1>3 DEF Sender, Collect
  <2>5. Building(sender)
    <3> HIDE DEF sender, batch, s
    <3>1. CASE thread["keep"].todo = {s}
      <4>1. Keys(batch) = Signals
        BY <2>1, <2>2, <2>3, <3>1
      <4>2. Carried(Signals) = Signals
        BY DEF Carried
      <4> QED
        BY <2>2, <2>4, <3>1, <4>1, <4>2 DEF Building
    <3>2. CASE thread["keep"].todo # {s}
      <4>1. Keys(batch) = Signals \ (thread["keep"].todo \ {s})
        BY <2>1, <2>2, <2>3
      <4> QED
        BY <2>2, <2>4, <3>2, <4>1 DEF Building
    <3> QED
      BY <3>1, <3>2
  <2>6. thread' = [thread EXCEPT !["keep"] = sender]
    BY <1>3 DEF Collect
  <2> HIDE DEF sender
  <2> QED
    BY <1>1, <2>5, <2>6, ThreadBuilds
<1> QED
  BY <1>2, <1>3

LEMMA ReadBitBuilds ==
  ASSUME RbeInv, InformParts, NEW t \in Threads, ReadBit(t)
  PROVE  InformParts'
<1> DEFINE s == First(thread[t].todo)
           carry == [thread[t].carry EXCEPT ![s] = Read(s)]
           sender == [thread[t] EXCEPT !.carry[s] = Read(s), !.todo = thread[t].todo \ {s},
                        !.pc = IF thread[t].todo = {s} THEN "attempt" ELSE "read"]
<1>1. thread[t] \in Sender /\ TypeOK
  BY DEF RbeInv, TypeOK
<1>2. s \in thread[t].todo /\ s \in Signals
  BY <1>1, FirstIn DEF ReadBit, RbeInv, TodoLeft, Sender
<1>3. /\ thread[t].todo \subseteq About(t)
      /\ Keys(thread[t].carry) = About(t) \ thread[t].todo
  BY DEF ReadBit, InformParts, Building, About
<1>4. Keys(carry) = Keys(thread[t].carry) \cup {s}
  BY <1>1, <1>2, KeysOf, ReadType DEF Sender, RbeInv
<1>5. /\ sender.batch = thread[t].batch /\ sender.carry = carry
      /\ sender.todo = thread[t].todo \ {s}
      /\ sender.pc = IF thread[t].todo = {s} THEN "attempt" ELSE "read"
  <2> HIDE DEF s
  <2> QED
    BY <1>1 DEF Sender
<1>6. Building(sender)
  <2> HIDE DEF sender, carry, s
  <2>1. Keys(carry) = About(t) \ (thread[t].todo \ {s})
    BY <1>2, <1>3, <1>4
  <2> QED
    BY <1>2, <1>3, <1>5, <2>1 DEF Building, About
<1>7. thread' = [thread EXCEPT ![t] = sender]
  BY DEF ReadBit
<1> HIDE DEF sender
<1> QED
  BY <1>1, <1>6, <1>7, ThreadBuilds

LEMMA AttemptBuilds ==
  ASSUME RbeInv, InformParts, NEW t \in Threads, Answered(t) \/ Unanswered(t)
  PROVE  InformParts'
<1>1. thread[t] \in Sender /\ TypeOK /\ depth \in Nat
  BY DEF RbeInv, TypeOK
<1>2. CASE Answered(t)
  <2> DEFINE sender == [Idle EXCEPT !.pc = "note", !.batch = thread[t].batch]
  <2>1. Building(sender)
    BY DEF Building, Idle
  <2>2. thread' = [thread EXCEPT ![t] = sender]
    BY <1>2 DEF Answered
  <2> HIDE DEF sender
  <2> QED
    BY <1>1, <2>1, <2>2, ThreadBuilds
<1>3. CASE Unanswered(t) /\ thread[t].tries < Retries
  <2> DEFINE sender == [thread[t] EXCEPT !.tries = thread[t].tries + 1]
  <2>1. /\ sender.pc = "attempt" /\ sender.batch = thread[t].batch
        /\ sender.carry = thread[t].carry
    BY <1>1, <1>3 DEF Sender, Unanswered
  <2>2. Building(sender)
    <3>1. Building(thread[t]) /\ thread[t].pc = "attempt"
      BY <1>3 DEF InformParts, Unanswered
    <3> HIDE DEF sender
    <3> QED
      BY <2>1, <3>1 DEF Building
  <2>3. thread' = [thread EXCEPT ![t] = sender]
    BY <1>3 DEF Unanswered
  <2> HIDE DEF sender
  <2> QED
    BY <1>1, <2>2, <2>3, ThreadBuilds
<1>4. CASE Unanswered(t) /\ ~(thread[t].tries < Retries)
  <2> DEFINE sender == [Idle EXCEPT !.pc = "more", !.seen = depth]
  <2>1. Building(sender)
    BY DEF Building, Idle
  <2>2. thread' = [thread EXCEPT ![t] = sender]
    BY <1>4 DEF Unanswered
  <2> HIDE DEF sender
  <2> QED
    BY <1>1, <2>1, <2>2, ThreadBuilds
<1> QED
  BY <1>2, <1>3, <1>4

LEMMA CountBuilds ==
  ASSUME RbeInv, InformParts, NEW t \in Threads,
         ReadCut(t) \/ Note(t) \/ CountLess(t) \/ CountMore(t)
  PROVE  InformParts'
<1>1. TypeOK /\ Building(Idle)
  BY IdleType, BuildsNothing DEF RbeInv
<1>2. CASE ReadCut(t)
  <2>1. Building([Idle EXCEPT !.pc = "dead"])
    BY DEF Building, Idle
  <2> QED
    BY <1>1, <1>2, <2>1, ThreadBuilds DEF ReadCut
<1>3. CASE Note(t)
  <2>1. Building([Idle EXCEPT !.pc = "less", !.seen = depth])
    BY DEF Building, Idle
  <2> QED
    BY <1>1, <1>3, <2>1, ThreadBuilds DEF Note
<1>4. CASE CountLess(t) \/ CountMore(t)
  BY <1>1, <1>4, ThreadBuilds DEF CountLess, CountMore
<1> QED
  BY <1>2, <1>3, <1>4

LEMMA BuildStep ==
  ASSUME RbeInv, InformParts, [Next]_vars
  PROVE  InformParts'
<1>1. CASE UNCHANGED thread
  BY <1>1 DEF InformParts
<1>2. PollWork \/ BacklogDrop \/ SetMode \/ SignalChanges \/ ServerLost \/ Connect
      \/ UNCHANGED vars => UNCHANGED thread
  BY DEF PollWork, Poll, Report, BacklogDrop, SetMode, SignalChanges, ServerLost, Connect, vars
<1>3. "send" \in Threads /\ "keep" \in Threads
  BY DEF Threads
<1> QED
  BY <1>1, <1>2, <1>3, TakeBuilds, KeepBuilds, ReadBitBuilds, AttemptBuilds, CountBuilds
     DEF Next, SendWork, KeepWork, Inform

\* An INFORM that is sent carries every signal of each field it is about and no
\* other, whatever threads and modes do while its bits are read one by one
\* (_group_by_scn, _build_varbinds).
THEOREM InformWhole ==
  Spec => [](\A t \in Threads : thread[t].pc = "attempt" => Keys(thread[t].carry) = About(t))
<1>1. Init => InformParts
  <2> SUFFICES ASSUME Init PROVE InformParts
    OBVIOUS
  <2>1. Building(Idle)
    BY IdleType, BuildsNothing
  <2> QED
    BY <2>1 DEF Init, InformParts
<1>2. InformParts => \A t \in Threads :
        thread[t].pc = "attempt" => Keys(thread[t].carry) = About(t)
  BY DEF InformParts, Building, About
<1> QED
  BY <1>1, <1>2, InvInit, InvStep, BuildStep, PTL DEF Spec
=============================================================================
