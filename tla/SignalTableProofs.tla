------------------------- MODULE SignalTableProofs -------------------------
(***************************************************************************)
(* Proofs about SignalTable, for every set of signals, services, threads,  *)
(* values and subscribers.                                                 *)
(*                                                                         *)
(* MirrorCoherent is not inductive: a callback hands on the value its      *)
(* write computed, so the proof needs that a write in progress belongs to  *)
(* an owner (JobsOwned), that nobody has changed the signal since          *)
(* (JobsCurrent), and that a connection speaks only for its own service    *)
(* (IdentityOK).                                                           *)
(***************************************************************************)
EXTENDS SignalTable, SequenceTheorems, TLAPS

IdentityOK ==
  \A t \in Threads : identity[t] \in {Nobody, ServiceOf[t]}

JobsOwned ==
  \A t \in Threads :
    ~Idle(t) => identity[t] = ServiceOf[t] /\ ServiceOf[t] \in owners[job[t].name]

JobsCurrent ==
  \A t \in Threads :
    ~Idle(t) /\ Exclusive(job[t].name) => job[t].value = Read(job[t].name)

IInv ==
  /\ IdentityOK
  /\ JobsOwned
  /\ JobsCurrent
  /\ MirrorCoherent
-----------------------------------------------------------------------------
(* Conditioning turns a raw value into a natural number. *)
LEMMA ApplyType ==
  ASSUME NEW s \in Signals, NEW raw \in Raw
  PROVE  Apply(s, raw) \in Int
  <1>1. /\ raw \in Nat
        /\ Scale[s].num \in Nat
        /\ Scale[s].den \in Nat \ {0}
    BY SignalTableAssumption
  <1>2. raw * Scale[s].num \in Nat
    BY <1>1
  <1>3. (raw * Scale[s].num) \div Scale[s].den \in Int
    BY <1>1, <1>2
  <1>4. QED
    BY <1>3 DEF Apply

(* The job of a thread outside write() is a job like any other. *)
LEMMA NoJobType ==
  /\ NoJob \in [name : Signals, value : Int, todo : Seq(Subs)]
  /\ NoJob.todo = << >>
  <1>1. (CHOOSE s \in Signals : TRUE) \in Signals
    BY SignalTableAssumption
  <1>2. << >> \in Seq(Subs)
    BY EmptySeq
  <1>3. QED
    BY <1>1, <1>2 DEF NoJob

(* After the head of a callback list comes the tail, for the same signal   *)
(* and the same value while there is a tail.                               *)
LEMMA NextCallbackType ==
  ASSUME NEW j \in [name : Signals, value : Int, todo : Seq(Subs)],
         j.todo # << >>
  PROVE  /\ NextCallback(j) \in [name : Signals, value : Int, todo : Seq(Subs)]
         /\ NextCallback(j).todo = Tail(j.todo)
         /\ Tail(j.todo) # << >> =>
              NextCallback(j).name = j.name /\ NextCallback(j).value = j.value
  <1>1. Tail(j.todo) \in Seq(Subs) /\ Len(Tail(j.todo)) = Len(j.todo) - 1
    BY HeadTailProperties
  <1>2. Len(j.todo) \in Nat \ {0}
    BY EmptySeq
  <1>3. CASE Len(j.todo) = 1
    <2>1. Tail(j.todo) = << >>
      <3>1. Len(Tail(j.todo)) = 0
        BY <1>1, <1>3
      <3>2. \A seq \in Seq(Subs) : seq # << >> => Len(seq) \in Nat \ {0}
        BY EmptySeq, Zenon
      <3>3. QED
        BY <1>1, <3>1, <3>2
    <2>2. QED
      BY <1>3, <2>1, NoJobType DEF NextCallback
  <1>4. CASE Len(j.todo) # 1
    BY <1>1, <1>4 DEF NextCallback
  <1>5. QED
    BY <1>3, <1>4
-----------------------------------------------------------------------------
(* The initial state has the types of TypeOK. *)
LEMMA InitTypeOK == Init => TypeOK
  <1> SUFFICES ASSUME Init PROVE TypeOK
    OBVIOUS
  <1>1. values \in [Signals -> Raw] /\ owners \in [Signals -> SUBSET Services]
    BY SignalTableAssumption DEF Init
  <1>2. identity \in [Threads -> Services \cup {Nobody}]
    BY SignalTableAssumption DEF Init
  <1>3. job \in [Threads -> [name : Signals, value : Int, todo : Seq(Subs)]]
    BY NoJobType DEF Init
  <1>4. delivered \in [Subs -> [Signals -> Int]]
    BY ApplyType, SignalTableAssumption DEF Init
  <1>5. lost \subseteq Subs \X Signals
    BY DEF Init
  <1>6. QED
    BY <1>1, <1>2, <1>3, <1>4, <1>5 DEF TypeOK

(* Every step keeps the types of TypeOK. *)
LEMMA NextTypeOK == TypeOK /\ [Next]_vars => TypeOK'
  <1> SUFFICES ASSUME TypeOK, [Next]_vars PROVE TypeOK'
    OBVIOUS
  <1>1. ASSUME NEW t \in Threads, Hello(t) PROVE TypeOK'
    BY <1>1, SignalTableAssumption DEF TypeOK, Hello
  <1>2. ASSUME NEW t \in Threads, Disconnect(t) PROVE TypeOK'
    BY <1>2 DEF TypeOK, Disconnect
  <1>3. ASSUME NEW t \in Threads, NEW s \in Signals, Register(t, s) PROVE TypeOK'
    <2>1. {ServiceOf[t]} \in SUBSET Services
      BY SignalTableAssumption
    <2>2. owners' \in [Signals -> SUBSET Services]
      BY <1>3, <2>1 DEF TypeOK, Register
    <2>3. QED
      BY <1>3, <2>2 DEF TypeOK, Register
  <1>4. ASSUME NEW t \in Threads, NEW s \in Signals, NEW v \in Raw, Write(t, s, v)
        PROVE TypeOK'
    <2>1. [name |-> s, value |-> Apply(s, v), todo |-> Subscribers]
            \in [name : Signals, value : Int, todo : Seq(Subs)]
      BY ApplyType, SignalTableAssumption
    <2>2. job' \in [Threads -> [name : Signals, value : Int, todo : Seq(Subs)]]
      BY <1>4, <2>1 DEF TypeOK, Write
    <2>3. QED
      BY <1>4, <2>2 DEF TypeOK, Write
  <1>5. ASSUME NEW t \in Threads, Notify(t) PROVE TypeOK'
    <2> DEFINE sub == Head(job[t].todo)
               s   == job[t].name
    <2>1. job[t] \in [name : Signals, value : Int, todo : Seq(Subs)] /\ job[t].todo # << >>
      BY <1>5 DEF TypeOK, Notify, Idle
    <2>2. sub \in Subs /\ s \in Signals /\ job[t].value \in Int
      BY <2>1, HeadTailProperties
    <2>3. job' \in [Threads -> [name : Signals, value : Int, todo : Seq(Subs)]]
      BY <1>5, <2>1, NextCallbackType DEF TypeOK, Notify
    <2>4. delivered' \in [Subs -> [Signals -> Int]]
      <3>1. [delivered EXCEPT ![sub][s] = job[t].value] \in [Subs -> [Signals -> Int]]
        BY <2>2 DEF TypeOK
      <3>2. QED
        BY <1>5, <3>1 DEF TypeOK, Notify
    <2>5. lost' \subseteq Subs \X Signals
      BY <1>5, <2>2 DEF TypeOK, Notify
    <2>6. QED
      BY <1>5, <2>3, <2>4, <2>5 DEF TypeOK, Notify
  <1>6. CASE UNCHANGED vars
    BY <1>6 DEF TypeOK, vars
  <1>7. QED
    BY <1>1, <1>2, <1>3, <1>4, <1>5, <1>6 DEF Next

(* Values, owners, identities, writes in progress and mirrors always have  *)
(* their types, whatever the threads interleave.                           *)
THEOREM TypeCorrect == Spec => []TypeOK
  <1>1. QED
    BY InitTypeOK, NextTypeOK, PTL DEF Spec
-----------------------------------------------------------------------------
(* The exclusive signals and the conditioned values a step can change. *)
LEMMA ReadUnchanged ==
  ASSUME NEW s \in Signals, values'[s] = values[s]
  PROVE  Read(s)' = Read(s)
  BY DEF Read, Apply

LEMMA ExclusiveUnchanged ==
  ASSUME NEW s \in Signals, owners'[s] = owners[s]
  PROVE  Exclusive(s)' = Exclusive(s)
  BY DEF Exclusive

(* Nobody has written anything yet: each subscriber starts from the        *)
(* conditioned zero.                                                       *)
LEMMA InitIInv == Init => IInv
  <1> SUFFICES ASSUME Init PROVE IInv
    OBVIOUS
  <1>1. \A t \in Threads : Idle(t)
    BY NoJobType DEF Init, Idle
  <1>2. IdentityOK
    BY DEF Init, IdentityOK
  <1>3. JobsOwned /\ JobsCurrent
    BY <1>1 DEF JobsOwned, JobsCurrent
  <1>4. MirrorCoherent
    BY DEF Init, MirrorCoherent, Mirrors, Read
  <1>5. QED
    BY <1>2, <1>3, <1>4 DEF IInv

(* A connection's HELLO or its end touches no signal. *)
LEMMA IdentityStepIInv ==
  ASSUME TypeOK, IInv, NEW t \in Threads, Hello(t) \/ Disconnect(t)
  PROVE  IInv'
  <1>1. UNCHANGED <<values, owners, job, delivered, lost>>
    BY DEF Hello, Disconnect
  <1>2. \A u \in Threads : Idle(u)' = Idle(u)
    BY <1>1 DEF Idle
  <1>3. \A s \in Signals : Read(s)' = Read(s) /\ Exclusive(s)' = Exclusive(s)
    BY <1>1, ReadUnchanged, ExclusiveUnchanged
  <1>4. \A u \in Threads : job[u].name \in Signals
    BY DEF TypeOK
  <1>5. IdentityOK'
    BY DEF IInv, IdentityOK, Hello, Disconnect, TypeOK
  <1>6. JobsOwned'
    BY <1>1, <1>2 DEF IInv, IdentityOK, JobsOwned, Hello, Disconnect, TypeOK, Nobody
  <1>7. JobsCurrent'
    BY <1>1, <1>2, <1>3, <1>4 DEF IInv, JobsCurrent
  <1>8. MirrorCoherent'
    BY <1>1, <1>3 DEF IInv, MirrorCoherent, Mirrors, Pending
  <1>9. QED
    BY <1>5, <1>6, <1>7, <1>8 DEF IInv

(* A signal that gets its first owner has no write in progress. *)
LEMMA RegisterIInv ==
  ASSUME TypeOK, IInv, NEW t \in Threads, NEW s \in Signals, Register(t, s)
  PROVE  IInv'
  <1>1. /\ UNCHANGED <<values, identity, job, delivered, lost>>
        /\ owners[s] = {}
        /\ owners' = [owners EXCEPT ![s] = {ServiceOf[t]}]
    BY DEF Register
  <1>2. \A u \in Threads : Idle(u)' = Idle(u) /\ job[u].name \in Signals
    BY <1>1 DEF Idle, TypeOK
  <1>3. \A r \in Signals \ {s} : owners'[r] = owners[r] /\ Exclusive(r)' = Exclusive(r)
    BY <1>1, ExclusiveUnchanged DEF TypeOK
  <1>4. Exclusive(s)
    BY <1>1 DEF Exclusive
  <1>5. \A r \in Signals : Read(r)' = Read(r)
    BY <1>1, ReadUnchanged
  <1>6. \A u \in Threads : ~Idle(u) => job[u].name # s
    BY <1>1 DEF IInv, JobsOwned
  <1>7. IdentityOK'
    BY <1>1 DEF IInv, IdentityOK
  <1>8. JobsOwned'
    BY <1>1, <1>2, <1>3, <1>6 DEF IInv, JobsOwned
  <1>9. JobsCurrent'
    BY <1>1, <1>2, <1>3, <1>5, <1>6 DEF IInv, JobsCurrent
  <1>10. MirrorCoherent'
    <2>1. \A r \in Signals, sub \in Subs : Mirrors(sub, r)' = Mirrors(sub, r)
      BY <1>1, <1>5 DEF Mirrors, Pending
    <2>2. \A r \in Signals : Exclusive(r)' => Exclusive(r)
      BY <1>3, <1>4
    <2>3. QED
      BY <2>1, <2>2 DEF IInv, MirrorCoherent
  <1>11. QED
    BY <1>7, <1>8, <1>9, <1>10 DEF IInv

(* The write owes every subscriber a call, and if the signal is exclusive  *)
(* no other write to it is in progress.                                    *)
LEMMA WriteIInv ==
  ASSUME TypeOK, IInv, NEW t \in Threads, NEW s \in Signals, NEW v \in Raw,
         Write(t, s, v)
  PROVE  IInv'
  <1> DEFINE J == [name |-> s, value |-> Apply(s, v), todo |-> Subscribers]
  <1>1. /\ UNCHANGED <<owners, identity, delivered, lost>>
        /\ Idle(t)
        /\ identity[t] \in owners[s]
        /\ values' = [values EXCEPT ![s] = v]
        /\ job' = [job EXCEPT ![t] = J]
    BY DEF Write, Owns
  <1>2. job'[t] = J /\ \A u \in Threads \ {t} : job'[u] = job[u] /\ Idle(u)' = Idle(u)
    BY <1>1 DEF TypeOK, Idle
  <1>3. /\ values'[s] = v
        /\ \A r \in Signals \ {s} : values'[r] = values[r]
    BY <1>1 DEF TypeOK
  <1>4. /\ Read(s)' = Apply(s, v)
        /\ \A r \in Signals \ {s} : Read(r)' = Read(r)
    BY <1>3, ReadUnchanged DEF Read, Apply
  <1>5. \A r \in Signals : Exclusive(r)' = Exclusive(r)
    BY <1>1, ExclusiveUnchanged
  <1>6. identity[t] = ServiceOf[t]
    BY <1>1, SignalTableAssumption DEF IInv, IdentityOK, TypeOK
  <1>7. IdentityOK'
    BY <1>1 DEF IInv, IdentityOK
  <1>8. JobsOwned'
    BY <1>1, <1>2, <1>6 DEF IInv, JobsOwned
  <1>9. JobsCurrent'
    <2>1. ASSUME NEW u \in Threads, ~Idle(u)', Exclusive(job[u].name)'
          PROVE  (job[u].value = Read(job[u].name))'
      <3>1. CASE u = t
        <4>1. job'[u].name = s /\ job'[u].value = Apply(s, v)
          BY <1>2, <3>1
        <4>2. Read(job[u].name)' = Apply(s, v)
          BY <1>3, <4>1 DEF Read, Apply
        <4>3. QED
          BY <4>1, <4>2
      <3>2. CASE u # t
        <4>1. job'[u] = job[u] /\ ~Idle(u) /\ job[u].name \in Signals
          BY <1>2, <2>1, <3>2 DEF TypeOK
        <4> DEFINE n == job[u].name
        <4>2. Exclusive(n)
          BY <1>1, <2>1, <4>1 DEF Exclusive
        <4>3. ServiceOf[u] \in owners[n]
          BY <4>1 DEF IInv, JobsOwned
        <4>4. n # s
          <5>1. ServiceOf[t] \in owners[s]
            BY <1>1, <1>6
          <5>2. QED
            BY <3>2, <4>2, <4>3, <5>1 DEF Exclusive
        <4>5. values'[n] = values[n]
          BY <1>3, <4>1, <4>4
        <4>6. Read(job[u].name)' = Read(n)
          BY <4>1, <4>5 DEF Read, Apply
        <4>7. job[u].value = Read(n)
          BY <4>1, <4>2 DEF IInv, JobsCurrent
        <4>8. QED
          BY <4>1, <4>6, <4>7
      <3>3. QED
        BY <3>1, <3>2
    <2>2. QED
      BY <2>1 DEF JobsCurrent
  <1>10. MirrorCoherent'
    <2>1. SUFFICES ASSUME NEW r \in Signals, Exclusive(r), NEW sub \in Subs
                   PROVE  Mirrors(sub, r)'
      BY <1>5 DEF MirrorCoherent
    <2>2. CASE r = s
      <3>1. \E i \in 1..Len(Subscribers) : Subscribers[i] = sub
        BY DEF Subs
      <3>2. Pending(sub, s)'
        BY <1>2, <3>1 DEF Pending
      <3>3. QED
        BY <2>2, <3>2 DEF Mirrors
    <2>3. CASE r # s
      <3>1. Pending(sub, r) => Pending(sub, r)'
        <4>1. \A i \in 1..Len(job[t].todo) : FALSE
          BY <1>1, EmptySeq DEF Idle
        <4>2. QED
          BY <1>2, <4>1 DEF Pending
      <3>2. QED
        BY <1>1, <1>4, <2>1, <2>3, <3>1 DEF IInv, MirrorCoherent, Mirrors
    <2>4. QED
      BY <2>2, <2>3
  <1>11. QED
    BY <1>7, <1>8, <1>9, <1>10 DEF IInv

(* A callback that succeeds hands on the present value of an exclusive     *)
(* signal; one that raises is remembered in lost.                          *)
LEMMA NotifyIInv ==
  ASSUME TypeOK, IInv, NEW t \in Threads, Notify(t)
  PROVE  IInv'
  <1> DEFINE sub == Head(job[t].todo)
             s   == job[t].name
  <1>1. /\ UNCHANGED <<values, owners, identity>>
        /\ ~Idle(t)
        /\ job' = [job EXCEPT ![t] = NextCallback(job[t])]
        /\ \/ /\ delivered' = [delivered EXCEPT ![sub][s] = job[t].value]
              /\ lost' = lost \ {<<sub, s>>}
           \/ /\ lost' = lost \cup {<<sub, s>>}
              /\ UNCHANGED delivered
    BY DEF Notify
  <1>2. /\ job[t] \in [name : Signals, value : Int, todo : Seq(Subs)]
        /\ job[t].todo # << >>
    BY <1>1 DEF TypeOK, Idle
  <1>3. /\ job'[t] = NextCallback(job[t])
        /\ \A u \in Threads \ {t} : job'[u] = job[u] /\ Idle(u)' = Idle(u)
    BY <1>1 DEF TypeOK, Idle
  <1>4. /\ job'[t].todo = Tail(job[t].todo)
        /\ ~Idle(t)' => job'[t].name = s /\ job'[t].value = job[t].value
    BY <1>2, <1>3, NextCallbackType DEF Idle
  <1>5. \A r \in Signals : Read(r)' = Read(r) /\ Exclusive(r)' = Exclusive(r)
    BY <1>1, ReadUnchanged, ExclusiveUnchanged
  <1>6. \A u \in Threads : job[u].name \in Signals
    BY DEF TypeOK
  <1>7. IdentityOK'
    BY <1>1 DEF IInv, IdentityOK
  <1>8. JobsOwned'
    BY <1>1, <1>3, <1>4 DEF IInv, JobsOwned
  <1>9. JobsCurrent'
    BY <1>1, <1>3, <1>4, <1>5, <1>6 DEF IInv, JobsCurrent
  <1>10. MirrorCoherent'
    <2>1. SUFFICES ASSUME NEW r \in Signals, Exclusive(r), NEW x \in Subs
                   PROVE  Mirrors(x, r)'
      BY <1>5 DEF MirrorCoherent
    <2>2. Mirrors(x, r)
      BY <2>1 DEF IInv, MirrorCoherent
    <2>3. CASE x = sub /\ r = s
      <3>1. job[t].value = Read(s)
        BY <1>1, <2>1, <2>3 DEF IInv, JobsCurrent
      <3>2. CASE /\ delivered' = [delivered EXCEPT ![sub][s] = job[t].value]
                 /\ lost' = lost \ {<<sub, s>>}
        <4>1. delivered'[x][r] = job[t].value
          BY <2>3, <3>2 DEF TypeOK
        <4>2. QED
          BY <1>5, <2>3, <3>1, <4>1 DEF Mirrors
      <3>3. CASE lost' = lost \cup {<<sub, s>>}
        BY <2>3, <3>3 DEF Mirrors
      <3>4. QED
        BY <1>1, <3>2, <3>3
    <2>4. CASE ~(x = sub /\ r = s)
      <3>1. Pending(x, r) => Pending(x, r)'
        <4>1. SUFFICES ASSUME NEW u \in Threads, job[u].name = r,
                              NEW i \in 1..Len(job[u].todo), job[u].todo[i] = x
                       PROVE  Pending(x, r)'
          BY DEF Pending
        <4>2. CASE u # t
          BY <1>3, <4>1, <4>2 DEF Pending
        <4>3. CASE u = t
          <5>1. r = s /\ x # sub
            BY <2>4, <4>1, <4>3
          <5>2. Head(job[t].todo) = job[t].todo[1]
            OBVIOUS
          <5>3. i # 1
            BY <4>1, <4>3, <5>1, <5>2
          <5>4. /\ Len(Tail(job[t].todo)) = Len(job[t].todo) - 1
                /\ \A k \in 1..Len(Tail(job[t].todo)) :
                     Tail(job[t].todo)[k] = job[t].todo[k + 1]
            BY <1>2, HeadTailProperties
          <5>5. Len(job[t].todo) \in Nat
            BY <1>2, LenProperties
          <5>6. i - 1 \in 1..Len(Tail(job[t].todo)) /\ (i - 1) + 1 = i
            BY <4>3, <5>3, <5>4, <5>5
          <5>7. Tail(job[t].todo)[i - 1] = x
            BY <4>1, <4>3, <5>4, <5>6
          <5>8. ~Idle(t)'
            <6>1. \A n : n = 0 => ~(i - 1 \in 1..n)
              OBVIOUS
            <6>2. Tail(job[t].todo) # << >>
              <7>1. Len(Tail(job[t].todo)) # 0
                BY ONLY <5>6, <6>1
              <7>2. Len(<< >>) = 0
                OBVIOUS
              <7>3. QED
                BY ONLY <7>1, <7>2
            <6>3. QED
              BY <1>4, <6>2 DEF Idle
          <5>9. QED
            BY <1>4, <5>1, <5>6, <5>7, <5>8 DEF Pending
        <4>4. QED
          BY <4>2, <4>3
      <3>2. <<x, r>> \in lost => <<x, r>> \in lost'
        BY <1>1, <2>4
      <3>3. delivered'[x][r] = delivered[x][r]
        BY <1>1, <2>4 DEF TypeOK
      <3>4. QED
        BY <1>5, <2>2, <3>1, <3>2, <3>3 DEF Mirrors
    <2>5. QED
      BY <2>3, <2>4
  <1>11. QED
    BY <1>7, <1>8, <1>9, <1>10 DEF IInv

(* Every step keeps the inductive invariant. *)
LEMMA NextIInv == TypeOK /\ IInv /\ [Next]_vars => IInv'
  <1> SUFFICES ASSUME TypeOK, IInv, [Next]_vars PROVE IInv'
    OBVIOUS
  <1>1. ASSUME UNCHANGED vars PROVE IInv'
    BY <1>1 DEF vars, IInv, IdentityOK, JobsOwned, JobsCurrent, MirrorCoherent,
                Mirrors, Pending, Exclusive, Idle, Read, Apply
  <1>2. QED
    BY <1>1, IdentityStepIInv, RegisterIInv, WriteIInv, NotifyIInv DEF Next

(* A subscriber that uses the value it is handed agrees with the table on  *)
(* every signal with a single writer, between writes and unless its last   *)
(* callback failed.                                                        *)
THEOREM MirrorsAgree == Spec => []MirrorCoherent
  <1>1. Spec => []IInv
    BY InitTypeOK, NextTypeOK, InitIInv, NextIInv, PTL DEF Spec
  <1>2. IInv => MirrorCoherent
    BY DEF IInv
  <1>3. QED
    BY <1>1, <1>2, PTL
-----------------------------------------------------------------------------
(* The owners of a signal are those of signals.cfg for good, and a signal  *)
(* that is not on file never gets an owner but the driver.                 *)
OwnersKept ==
  \A s \in Signals :
    owners[s] \subseteq RightfulOwner(s)

FiledOwners ==
  \A s \in Signals : Configured[s] # {} => owners[s] = Configured[s]

(* Only Register changes owners, and it leaves a name on file alone. *)
LEMMA OwnersStep == TypeOK /\ FiledOwners /\ OwnersKept /\ [Next]_vars
                      => FiledOwners' /\ OwnersKept'
  <1> SUFFICES ASSUME TypeOK, FiledOwners, OwnersKept, [Next]_vars
               PROVE  FiledOwners' /\ OwnersKept'
    OBVIOUS
  <1>1. ASSUME UNCHANGED owners PROVE FiledOwners' /\ OwnersKept'
    BY <1>1 DEF FiledOwners, OwnersKept, RightfulOwner
  <1>2. ASSUME NEW t \in Threads, NEW s \in Signals, Register(t, s)
        PROVE  FiledOwners' /\ OwnersKept'
    <2>1. Configured[s] = {} /\ t \in DriverThreads
      BY <1>2 DEF Register, FiledOwners
    <2>2. owners'[s] = {ServiceOf[t]} /\ \A r \in Signals \ {s} : owners'[r] = owners[r]
      BY <1>2 DEF Register, TypeOK
    <2>3. ServiceOf[t] \in RightfulOwner(s)
      BY <2>1 DEF RightfulOwner
    <2>4. FiledOwners'
      BY <2>1, <2>2 DEF FiledOwners
    <2>5. OwnersKept'
      BY <2>2, <2>3 DEF OwnersKept, RightfulOwner
    <2>6. QED
      BY <2>4, <2>5
  <1>3. QED
    BY <1>1, <1>2 DEF Next, Hello, Disconnect, Notify, Write, vars

(* A step that changes a value is a write by a thread the value belongs to. *)
LEMMA ChangeByOwner ==
  ASSUME TypeOK, OwnersKept, [Next]_vars, NEW s \in Signals, values'[s] # values[s]
  PROVE  \E t \in Threads : job'[t] # job[t] /\ identity[t] \in RightfulOwner(s)
  <1>1. PICK t \in Threads, r \in Signals, v \in Raw : Write(t, r, v)
    BY DEF Next, Hello, Disconnect, Notify, Register, vars
  <1>2. r = s
    BY <1>1 DEF Write, TypeOK
  <1>3. identity[t] \in RightfulOwner(s)
    BY <1>1, <1>2 DEF Write, Owns, OwnersKept
  <1>4. job'[t] # job[t]
    <2>1. job[t].todo = << >>
      BY <1>1 DEF Write, Idle
    <2>2. job'[t].todo = Subscribers
      BY <1>1 DEF Write, TypeOK
    <2>3. QED
      BY <2>1, <2>2, SignalTableAssumption
  <1>5. QED
    BY <1>3, <1>4

(* No sequence of connections, registrations and writes lets a service     *)
(* change a signal that signals.cfg gives to others.                       *)
THEOREM OwnersOnly == Spec => ConfiguredOwnersOnly
  <1>1. Init => FiledOwners /\ OwnersKept
    BY SignalTableAssumption DEF Init, FiledOwners, OwnersKept, RightfulOwner
  <1>2. TypeOK /\ OwnersKept /\ [Next]_vars =>
          [\A s \in Signals :
             values'[s] # values[s] =>
               \E t \in Threads :
                 job'[t] # job[t] /\ identity[t] \in RightfulOwner(s)]_vars
    BY ChangeByOwner
  <1>3. QED
    BY <1>1, <1>2, InitTypeOK, NextTypeOK, OwnersStep, PTL
       DEF Spec, ConfiguredOwnersOnly
=============================================================================
