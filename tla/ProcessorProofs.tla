-------------------------- MODULE ProcessorProofs --------------------------
(***************************************************************************)
(* What a processor does to run a thread, for any processors, threads,     *)
(* queues, sessions, address spaces, vectors and handlers: the picks keep  *)
(* the turns and the isolated cores, the switch resumes a thread where it  *)
(* left, and the descriptor tables keep user code out and the machine up.  *)
(***************************************************************************)
EXTENDS Dispatch, ContextSwitch, CpuTables, Induction, SequenceTheorems,
        FiniteSetTheorems, TLAPS

-----------------------------------------------------------------------------
(* Run queues: isolated cores *)

Places == {"pick", "flag", "mask", "owner", "isolated", "interactive",
           "background", "running"}

PickTypeOK ==
    /\ pc \in [Cpus -> Places] /\ steady \in [Cpus -> BOOLEAN]
    /\ running = [c \in Cpus |-> running[c]] /\ owner = [c \in Cpus |-> owner[c]]

\* Where a pick stands during which the session has held all along: on its way
\* through the three loads, or behind them with the game as the owner it read.
OnItsWay(c) ==
    steady[c] => /\ InForce(c)
                 /\ pc[c] \in {"flag", "mask", "owner", "isolated"}
                 /\ pc[c] = "isolated" => owner[c] = Game

SteadyInv == PickTypeOK /\ \A c \in Cpus : OnItsWay(c)

LEMMA SteadyInit == Init => SteadyInv
  BY DEF Init, SteadyInv, PickTypeOK, OnItsWay, Places

\* The steps of a pick that leave the session alone, one lemma for all of them:
\* what one processor does is no business of the picks on the others.
LEMMA SteadyPick ==
    ASSUME SteadyInv, NEW c \in Cpus,
           \/ PickRealTime(c) \/ LoadActive(c) \/ LoadMask(c) \/ LoadOwner(c)
           \/ PickIsolated(c) \/ PickInteractive(c) \/ PickBackground(c)
    PROVE  SteadyInv'
  <1> USE DEF SteadyInv, PickTypeOK, OnItsWay, InForce, Places, Goto, Run, Picked, game
  <1>1. CASE PickRealTime(c)
    BY <1>1 DEF PickRealTime
  <1>2. CASE LoadActive(c)
    BY <1>2 DEF LoadActive
  <1>3. CASE LoadMask(c)
    BY <1>3 DEF LoadMask
  <1>4. CASE LoadOwner(c)
    BY <1>4 DEF LoadOwner
  <1>5. CASE PickIsolated(c)
    BY <1>5 DEF PickIsolated
  <1>6. CASE PickInteractive(c)
    BY <1>6 DEF PickInteractive
  <1>7. CASE PickBackground(c)
    BY <1>7 DEF PickBackground
  <1> QED
    BY <1>1, <1>2, <1>3, <1>4, <1>5, <1>6, <1>7

LEMMA SteadyRun ==
    ASSUME SteadyInv, NEW c \in Cpus,
           Consume(c) \/ Block(c) \/ \E t \in Called : SwitchToDonating(c, t)
    PROVE  SteadyInv'
  <1> USE DEF SteadyInv, PickTypeOK, OnItsWay, InForce, Places, Goto, game
  <1>1. CASE Consume(c)
    BY <1>1 DEF Consume
  <1>2. CASE Block(c)
    BY <1>2 DEF Block
  <1>3. ASSUME NEW t \in Called, SwitchToDonating(c, t) PROVE SteadyInv'
    BY <1>3 DEF SwitchToDonating
  <1> QED
    BY <1>1, <1>2, <1>3

LEMMA SteadyStep == SteadyInv /\ [Next]_vars => SteadyInv'
  <1> SUFFICES ASSUME SteadyInv, [Next]_vars PROVE SteadyInv'
    OBVIOUS
  <1> USE DEF SteadyInv, PickTypeOK, OnItsWay, InForce, game
  <1>1. ASSUME NEW t \in Threads, NEW d \in Deadlines[t], Enqueue(t, d) PROVE SteadyInv'
    BY <1>1 DEF Enqueue
  <1>2. ASSUME NEW t \in Threads, NEW d \in Deadlines[t], EnqueueBackground(t, d)
        PROVE SteadyInv'
    BY <1>2 DEF EnqueueBackground
  <1>3. CASE Session
    BY <1>3 DEF Session
  <1>4. CASE UNCHANGED vars
    BY <1>4 DEF vars
  <1> QED
    BY <1>1, <1>2, <1>3, <1>4, SteadyPick, SteadyRun DEF Next

\* A pick that returns on a processor does so from a place that a steady pick is
\* not at, or from "isolated", where the filter compares with the game.
LEMMA SteadyRefuses ==
    ASSUME SteadyInv, Next, NEW c \in Cpus, steady[c], pc'[c] = "running"
    PROVE  PidOf[running'[c]] = Game
  <1> USE DEF SteadyInv, PickTypeOK, OnItsWay, Places, Goto, Run
  <1>1. pc'[c] # pc[c]
    OBVIOUS
  <1>2. PICK d \in Cpus : \/ PickRealTime(d) \/ LoadActive(d) \/ LoadMask(d)
                          \/ LoadOwner(d) \/ PickIsolated(d) \/ PickInteractive(d)
                          \/ PickBackground(d) \/ Block(d)
    BY <1>1 DEF Next, Enqueue, EnqueueBackground, Session, Consume, SwitchToDonating
  <1>3. d = c
    BY <1>1, <1>2 DEF PickRealTime, LoadActive, LoadMask, LoadOwner, PickIsolated,
                      PickInteractive, PickBackground, Block
  <1>4. PickIsolated(c)
    BY <1>2, <1>3 DEF PickRealTime, LoadActive, LoadMask, LoadOwner, PickInteractive,
                      PickBackground, Block
  <1> QED
    BY <1>4 DEF PickIsolated

\* sched.rs:259-261 for any number of processors and threads: a pick during which
\* the session holds all along takes the game's threads only, although it reads
\* the flag, the mask and the owner one by one.
THEOREM DispatchIsolatedCoreRefuses == Spec => IsolatedCoreRefuses
  <1>1. SteadyInv /\ [Next]_vars =>
            [\A c \in Cpus : steady[c] /\ pc'[c] = "running" =>
                                 PidOf[running'[c]] = Game]_<<pc, running>>
    BY SteadyRefuses DEF vars
  <1> QED
    BY <1>1, SteadyInit, SteadyStep, PTL DEF Spec, IsolatedCoreRefuses

-----------------------------------------------------------------------------
(* Run queues: the entries and their places *)

Waiting == [tid : Threads, deadline : Nat]
Lagging == [tid : Threads, lag : Int, deadline : Nat]

Distinct(q) == \A i, j \in DOMAIN q : q[i].tid = q[j].tid => i = j
Sorted(q) == \A i, j \in DOMAIN q : i <= j => q[i].deadline <= q[j].deadline

\* The length and the elements of a sequence.
LEMMA SeqFacts ==
    ASSUME NEW S, NEW q \in Seq(S)
    PROVE  /\ Len(q) \in Nat /\ DOMAIN q = 1 .. Len(q)
           /\ \A i \in 1 .. Len(q) : q[i] \in S
  BY LenProperties, ElementOfSeq

\* The same for a queue, field by field.
LEMMA WaitingFacts ==
    ASSUME NEW q \in Seq(Waiting)
    PROVE  /\ Len(q) \in Nat /\ DOMAIN q = 1 .. Len(q)
           /\ \A i \in 1 .. Len(q) : /\ q[i] \in Waiting /\ q[i].tid \in Threads
                                     /\ q[i].deadline \in Nat
  <1>1. \A i \in 1 .. Len(q) : q[i] \in Waiting
    BY ElementOfSeq
  <1>2. \A e \in Waiting : e.tid \in Threads /\ e.deadline \in Nat
    BY DispatchAssumption DEF Waiting
  <1>3. Len(q) \in Nat /\ DOMAIN q = 1 .. Len(q)
    BY LenProperties
  <1> QED
    BY <1>1, <1>2, <1>3

\* Threads that wait in different places of a queue are as many as the places.
LEMMA DistinctCount ==
    ASSUME NEW S, NEW q \in Seq(S), Distinct(q)
    PROVE  Cardinality(Queued(q)) = Len(q)
  <1> DEFINE n == Len(q)
             f == [i \in 1 .. n |-> q[i].tid]
  <1>1. n \in Nat /\ DOMAIN q = 1 .. n
    BY SeqFacts
  <1>2. f \in Bijection(1 .. n, Queued(q))
    <2>1. f \in [1 .. n -> Queued(q)]
      BY <1>1 DEF Queued
    <2>2. \A i, j \in 1 .. n : f[i] = f[j] => i = j
      BY <1>1 DEF Distinct
    <2>3. \A t \in Queued(q) : \E i \in 1 .. n : f[i] = t
      BY <1>1 DEF Queued
    <2> QED
      BY <2>1, <2>2, <2>3 DEF Bijection, Injection, Surjection, IsInjective
  <1>3. IsFiniteSet(1 .. n) /\ Cardinality(1 .. n) = n
    BY <1>1, FS_Interval
  <1>4. ExistsBijection(1 .. n, Queued(q))
    BY <1>2 DEF ExistsBijection
  <1> QED
    BY <1>3, <1>4, FS_Bijection

\* What InsertAt and RemoveAt leave at each place.
LEMMA InsertShape ==
    ASSUME NEW S, NEW q \in Seq(S), NEW e \in S, NEW p \in 0 .. Len(q)
    PROVE  LET r == InsertAt(q, p + 1, e)
           IN  /\ r \in Seq(S) /\ Len(r) = Len(q) + 1
               /\ \A i \in 1 .. Len(q) + 1 :
                      r[i] = IF i <= p THEN q[i] ELSE IF i = p + 1 THEN e ELSE q[i - 1]
  <1> DEFINE a == SubSeq(q, 1, p)
             b == SubSeq(q, p + 1, Len(q))
  <1>1. Len(q) \in Nat /\ \A i \in 1 .. Len(q) : q[i] \in S
    BY SeqFacts
  <1>2. a \in Seq(S) /\ Len(a) = p /\ \A i \in 1 .. p : a[i] = q[i]
    BY <1>1, SubSeqProperties
  <1>3. /\ b \in Seq(S) /\ Len(b) = Len(q) - p
        /\ \A i \in 1 .. Len(q) - p : b[i] = q[p + i]
    BY <1>1, SubSeqProperties
  <1>4. <<e>> \in Seq(S) /\ Len(<<e>>) = 1 /\ <<e>>[1] = e
    OBVIOUS
  <1>5. /\ a \o <<e>> \in Seq(S) /\ Len(a \o <<e>>) = p + 1
        /\ \A i \in 1 .. p + 1 : (a \o <<e>>)[i] = IF i <= p THEN q[i] ELSE e
    <2>1. /\ a \o <<e>> \in Seq(S) /\ Len(a \o <<e>>) = p + 1
          /\ \A i \in 1 .. p + 1 :
                (a \o <<e>>)[i] = IF i <= p THEN a[i] ELSE <<e>>[i - p]
      BY <1>2, <1>4, ConcatProperties
    <2> QED
      BY <1>2, <1>4, <2>1
  <1>6. InsertAt(q, p + 1, e) = (a \o <<e>>) \o b
    <2>1. (p + 1) - 1 = p
      BY <1>1
    <2> QED
      BY <2>1 DEF InsertAt
  <1> HIDE DEF a, b
  <1> DEFINE c == a \o <<e>>
  <1> HIDE DEF c
  <1>7. /\ c \o b \in Seq(S) /\ Len(c \o b) = Len(c) + Len(b)
        /\ \A i \in 1 .. Len(c) + Len(b) :
              (c \o b)[i] = IF i <= Len(c) THEN c[i] ELSE b[i - Len(c)]
    <2>1. c \in Seq(S)
      BY <1>5 DEF c
    <2> QED
      BY <1>3, <2>1, ConcatProperties
  <1>8. /\ Len(c) = p + 1 /\ Len(c) + Len(b) = Len(q) + 1
        /\ \A i \in 1 .. p + 1 : c[i] = IF i <= p THEN q[i] ELSE e
    <2>1. Len(c) = p + 1 /\ \A i \in 1 .. p + 1 : c[i] = IF i <= p THEN q[i] ELSE e
      BY <1>5 DEF c
    <2> QED
      BY <1>1, <1>3, <2>1
  <1>9. ASSUME NEW i \in 1 .. Len(q) + 1
        PROVE  (c \o b)[i] = IF i <= p THEN q[i] ELSE IF i = p + 1 THEN e ELSE q[i - 1]
    <2>0. (c \o b)[i] = IF i <= p + 1 THEN c[i] ELSE b[i - (p + 1)]
      BY <1>7, <1>8
    <2>1. CASE i <= p + 1
      BY <1>1, <1>8, <2>0, <2>1
    <2>2. i <= p + 1 \/ i > p + 1
      BY <1>1
    <2>3. CASE i > p + 1
      <3>1. i - (p + 1) \in 1 .. Len(q) - p /\ p + (i - (p + 1)) = i - 1
        BY <1>1, <2>3
      <3>2. b[i - (p + 1)] = q[i - 1]
        BY <1>3, <3>1
      <3> QED
        BY <1>1, <2>0, <2>3, <3>2
    <2> QED
      BY <2>1, <2>2, <2>3, Zenon
  <1> QED
    BY <1>1, <1>6, <1>7, <1>8, <1>9 DEF c

LEMMA RemoveShape ==
    ASSUME NEW S, NEW q \in Seq(S), NEW p \in 1 .. Len(q)
    PROVE  LET r == RemoveAt(q, p)
           IN  /\ r \in Seq(S) /\ Len(r) = Len(q) - 1
               /\ \A i \in 1 .. Len(q) - 1 : r[i] = IF i < p THEN q[i] ELSE q[i + 1]
  <1> DEFINE a == SubSeq(q, 1, p - 1)
             b == SubSeq(q, p + 1, Len(q))
  <1>1. Len(q) \in Nat /\ \A i \in 1 .. Len(q) : q[i] \in S
    BY SeqFacts
  <1>2. a \in Seq(S) /\ Len(a) = p - 1 /\ \A i \in 1 .. p - 1 : a[i] = q[i]
    BY <1>1, SubSeqProperties
  <1>3. /\ b \in Seq(S) /\ Len(b) = Len(q) - p
        /\ \A i \in 1 .. Len(q) - p : b[i] = q[p + i]
    BY <1>1, SubSeqProperties
  <1>4. RemoveAt(q, p) = a \o b
    BY DEF RemoveAt
  <1> HIDE DEF a, b
  <1>5. /\ a \o b \in Seq(S) /\ Len(a \o b) = Len(a) + Len(b)
        /\ \A i \in 1 .. Len(a) + Len(b) :
              (a \o b)[i] = IF i <= Len(a) THEN a[i] ELSE b[i - Len(a)]
    BY <1>2, <1>3, ConcatProperties
  <1>6. Len(a) = p - 1 /\ Len(a) + Len(b) = Len(q) - 1
    BY <1>1, <1>2, <1>3
  <1>7. ASSUME NEW i \in 1 .. Len(q) - 1
        PROVE  (a \o b)[i] = IF i < p THEN q[i] ELSE q[i + 1]
    <2>0. (a \o b)[i] = IF i <= p - 1 THEN a[i] ELSE b[i - (p - 1)]
      BY <1>5, <1>6
    <2>1. CASE i < p
      BY <1>1, <1>2, <2>0, <2>1
    <2>2. i < p \/ i >= p
      BY <1>1
    <2>3. CASE i >= p
      <3>1. i - (p - 1) \in 1 .. Len(q) - p /\ p + (i - (p - 1)) = i + 1
        BY <1>1, <2>3
      <3>2. b[i - (p - 1)] = q[i + 1]
        BY <1>3, <3>1
      <3> QED
        BY <1>1, <2>0, <2>3, <3>2
    <2> QED
      BY <2>1, <2>2, <2>3, Zenon
  <1> QED
    BY <1>1, <1>4, <1>5, <1>6, <1>7

-----------------------------------------------------------------------------
(* What the operations on a queue keep *)

\* enqueue puts an entry behind all that are not later and before all that are.
LEMMA InsertPlace ==
    ASSUME NEW q \in Seq(Waiting), NEW e \in Waiting, Sorted(q)
    PROVE  \E p \in 0 .. Len(q) :
               /\ Insert(q, e) = InsertAt(q, p + 1, e)
               /\ \A i \in 1 .. Len(q) : q[i].deadline <= e.deadline <=> i <= p
  <1> DEFINE before == {i \in DOMAIN q : q[i].deadline <= e.deadline}
             p == Cardinality(before)
  <1>1. /\ Len(q) \in Nat /\ DOMAIN q = 1 .. Len(q)
        /\ \A i \in 1 .. Len(q) : q[i].deadline \in Nat
        /\ e.deadline \in Nat
    BY WaitingFacts, DispatchAssumption DEF Waiting
  <1>2. \A i \in before : \A j \in 1 .. Len(q) : j <= i => j \in before
    BY <1>1 DEF Sorted
  <1>3. before \in SUBSET (1 .. Len(q))
    BY <1>1
  <1>4. Cardinality(before) \in 0 .. Len(q) /\ before = 1 .. Cardinality(before)
    <2> HIDE DEF before
    <2> QED
      BY <1>1, <1>2, <1>3, PrefixIsInterval
  <1>5. Insert(q, e) = InsertAt(q, p + 1, e)
    BY DEF Insert
  <1>6. \A i \in 1 .. Len(q) : q[i].deadline <= e.deadline <=> i <= p
    <2>1. \A i \in 1 .. Len(q) : q[i].deadline <= e.deadline <=> i \in before
      BY <1>1
    <2> HIDE DEF before
    <2> QED
      BY <1>4, <2>1
  <1> HIDE DEF p
  <1> QED
    BY <1>4, <1>5, <1>6 DEF p

\* ... and keeps the queue in order, without duplicates.
LEMMA InsertKeeps ==
    ASSUME NEW q \in Seq(Waiting), NEW e \in Waiting, Sorted(q), Distinct(q),
           e.tid \notin Queued(q)
    PROVE  LET r == Insert(q, e)
           IN  /\ r \in Seq(Waiting) /\ Len(r) = Len(q) + 1
               /\ Queued(r) = Queued(q) \cup {e.tid}
               /\ Distinct(r) /\ Sorted(r)
  <1> DEFINE r == Insert(q, e)
  <1>1. PICK p \in 0 .. Len(q) :
            /\ Insert(q, e) = InsertAt(q, p + 1, e)
            /\ \A i \in 1 .. Len(q) : q[i].deadline <= e.deadline <=> i <= p
    BY InsertPlace
  <1>2. /\ r \in Seq(Waiting) /\ Len(r) = Len(q) + 1
        /\ \A i \in 1 .. Len(q) + 1 :
               r[i] = IF i <= p THEN q[i] ELSE IF i = p + 1 THEN e ELSE q[i - 1]
    <2>1. r = InsertAt(q, p + 1, e)
      BY <1>1
    <2>2. LET a == InsertAt(q, p + 1, e)
          IN  /\ a \in Seq(Waiting) /\ Len(a) = Len(q) + 1
              /\ \A i \in 1 .. Len(q) + 1 :
                     a[i] = IF i <= p THEN q[i] ELSE IF i = p + 1 THEN e ELSE q[i - 1]
      BY InsertShape
    <2> HIDE DEF r
    <2> QED
      BY <2>1, <2>2
  <1> HIDE DEF r
  <1>3. /\ Len(q) \in Nat /\ DOMAIN q = 1 .. Len(q) /\ DOMAIN r = 1 .. Len(q) + 1
        /\ \A i \in 1 .. Len(q) : q[i].deadline \in Nat
        /\ e.deadline \in Nat
    BY <1>2, WaitingFacts, DispatchAssumption DEF Waiting
  <1>4. /\ \A i \in 1 .. p : r[i] = q[i]
        /\ r[p + 1] = e
        /\ \A i \in p + 2 .. Len(q) + 1 : i - 1 \in 1 .. Len(q) /\ r[i] = q[i - 1]
    <2>1. \A i \in 1 .. p : r[i] = q[i]
      BY <1>2, <1>3
    <2>2. r[p + 1] = e
      BY <1>2, <1>3
    <2>3. ASSUME NEW i \in p + 2 .. Len(q) + 1
          PROVE  i - 1 \in 1 .. Len(q) /\ r[i] = q[i - 1]
      <3>1. i \in 1 .. Len(q) + 1 /\ ~(i <= p) /\ i # p + 1 /\ i - 1 \in 1 .. Len(q)
        BY <1>3
      <3> QED
        BY <1>2, <3>1
    <2> QED
      BY <2>1, <2>2, <2>3
  <1>5. \A i \in 1 .. Len(q) + 1 : i \in 1 .. p \/ i = p + 1 \/ i \in p + 2 .. Len(q) + 1
    BY <1>3
  <1>6. Queued(r) = Queued(q) \cup {e.tid}
    <2>1. ASSUME NEW t \in Queued(r) PROVE t \in Queued(q) \cup {e.tid}
      <3>1. PICK i \in 1 .. Len(q) + 1 : r[i].tid = t
        BY <1>3, <2>1 DEF Queued
      <3>2. CASE i = p + 1
        BY <1>4, <3>1, <3>2
      <3>3. CASE i \in 1 .. p
        <4>1. i \in 1 .. Len(q)
          BY <1>3, <3>3
        <4> QED
          BY <1>3, <1>4, <3>1, <3>3, <4>1 DEF Queued
      <3>4. CASE i \in p + 2 .. Len(q) + 1
        BY <1>3, <1>4, <3>1, <3>4 DEF Queued
      <3> QED
        BY <1>5, <3>2, <3>3, <3>4
    <2>2. ASSUME NEW t \in Queued(q) PROVE t \in Queued(r)
      <3>1. PICK i \in 1 .. Len(q) : q[i].tid = t
        BY <1>3, <2>2 DEF Queued
      <3>2. CASE i <= p
        <4>1. i \in 1 .. p /\ i \in 1 .. Len(q) + 1
          BY <1>3, <3>2
        <4> QED
          BY <1>3, <1>4, <3>1, <4>1 DEF Queued
      <3>3. CASE i > p
        <4>1. i + 1 \in p + 2 .. Len(q) + 1 /\ i + 1 \in 1 .. Len(q) + 1 /\ (i + 1) - 1 = i
          BY <1>3, <3>3
        <4>2. r[i + 1] = q[i]
          BY <1>4, <4>1
        <4> QED
          BY <1>3, <3>1, <4>1, <4>2 DEF Queued
      <3> QED
        BY <1>3, <3>2, <3>3
    <2>3. e.tid \in Queued(r)
      <3>1. p + 1 \in 1 .. Len(q) + 1
        BY <1>3
      <3> QED
        BY <1>3, <1>4, <3>1 DEF Queued
    <2> QED
      BY <2>1, <2>2, <2>3
  <1>7. Distinct(r)
    <2> SUFFICES ASSUME NEW i \in 1 .. Len(q) + 1, NEW j \in 1 .. Len(q) + 1,
                        r[i].tid = r[j].tid, i < j
                 PROVE  FALSE
      BY <1>3 DEF Distinct
    <2>1. \A k \in 1 .. Len(q) : q[k].tid # e.tid
      BY <1>3 DEF Queued
    <2>2. CASE i \in 1 .. p /\ j \in 1 .. p
      BY <1>3, <1>4, <2>2 DEF Distinct
    <2>3. CASE i \in 1 .. p /\ j = p + 1
      BY <1>3, <1>4, <2>1, <2>3
    <2>4. CASE i \in 1 .. p /\ j \in p + 2 .. Len(q) + 1
      <3>1. i \in 1 .. Len(q) /\ j - 1 \in 1 .. Len(q) /\ i # j - 1
        BY <1>3, <2>4
      <3> QED
        BY <1>3, <1>4, <2>4, <3>1 DEF Distinct
    <2>5. CASE i = p + 1 /\ j \in p + 2 .. Len(q) + 1
      BY <1>3, <1>4, <2>1, <2>5
    <2>6. CASE i \in p + 2 .. Len(q) + 1 /\ j \in p + 2 .. Len(q) + 1
      <3>1. i - 1 \in 1 .. Len(q) /\ j - 1 \in 1 .. Len(q) /\ i - 1 # j - 1
        BY <1>3, <2>6
      <3>2. q[i - 1].tid = q[j - 1].tid
        BY <1>4, <2>6
      <3> QED
        BY <1>3, <3>1, <3>2 DEF Distinct
    <2> QED
      BY <1>3, <2>2, <2>3, <2>4, <2>5, <2>6
  <1>8. Sorted(r)
    <2> SUFFICES ASSUME NEW i \in 1 .. Len(q) + 1, NEW j \in 1 .. Len(q) + 1, i < j
                 PROVE  r[i].deadline <= r[j].deadline
      <3>1. \A i \in 1 .. Len(q) + 1 : r[i].deadline \in Nat
        BY <1>2, WaitingFacts
      <3> QED
        BY <1>3, <3>1 DEF Sorted
    <2>2. CASE i \in 1 .. p /\ j \in 1 .. p
      BY <1>3, <1>4, <2>2 DEF Sorted
    <2>3. CASE i \in 1 .. p /\ j = p + 1
      BY <1>1, <1>3, <1>4, <2>3
    <2>4. CASE i \in 1 .. p /\ j \in p + 2 .. Len(q) + 1
      <3>1. i \in 1 .. Len(q) /\ j - 1 \in 1 .. Len(q) /\ i <= j - 1
        BY <1>3, <2>4
      <3> QED
        BY <1>3, <1>4, <2>4, <3>1 DEF Sorted
    <2>5. CASE i = p + 1 /\ j \in p + 2 .. Len(q) + 1
      <3>1. j - 1 \in 1 .. Len(q) /\ ~(j - 1 <= p) /\ r[j] = q[j - 1]
        BY <1>3, <1>4, <2>5
      <3> QED
        BY <1>1, <1>3, <1>4, <2>5, <3>1
    <2>6. CASE i \in p + 2 .. Len(q) + 1 /\ j \in p + 2 .. Len(q) + 1
      <3>1. i - 1 \in 1 .. Len(q) /\ j - 1 \in 1 .. Len(q) /\ i - 1 <= j - 1
        BY <1>3, <2>6
      <3> QED
        BY <1>3, <1>4, <2>6, <3>1 DEF Sorted
    <2> QED
      BY <1>3, <2>2, <2>3, <2>4, <2>5, <2>6
  <1> QED
    BY <1>2, <1>6, <1>7, <1>8 DEF r

\* Taking the entry at p out of a queue.
LEMMA WithoutOne ==
    ASSUME NEW S, NEW q \in Seq(S), NEW r \in Seq(S), NEW p \in 1 .. Len(q), Distinct(q),
           Len(r) = Len(q) - 1,
           \A i \in 1 .. Len(q) - 1 : r[i] = IF i < p THEN q[i] ELSE q[i + 1]
    PROVE  /\ Distinct(r) /\ (Sorted(q) => Sorted(r))
           /\ Queued(r) = Queued(q) \ {q[p].tid} /\ q[p].tid \in Queued(q)
  <1>1. /\ Len(q) \in Nat /\ DOMAIN q = 1 .. Len(q) /\ DOMAIN r = 1 .. Len(q) - 1
        /\ p \in 1 .. Len(q)
    BY SeqFacts
  <1> DEFINE from == [i \in 1 .. Len(q) - 1 |-> IF i < p THEN i ELSE i + 1]
  <1>2. /\ \A i \in 1 .. Len(q) - 1 : from[i] \in 1 .. Len(q) /\ from[i] # p /\ r[i] = q[from[i]]
        /\ \A i, j \in 1 .. Len(q) - 1 : i < j => from[i] < from[j]
    <2>1. ASSUME NEW i \in 1 .. Len(q) - 1
          PROVE  from[i] \in 1 .. Len(q) /\ from[i] # p /\ r[i] = q[from[i]]
      <3>1. CASE i < p
        BY <1>1, <3>1
      <3>2. CASE ~(i < p)
        BY <1>1, <3>2
      <3> QED
        BY <3>1, <3>2
    <2>2. ASSUME NEW i \in 1 .. Len(q) - 1, NEW j \in 1 .. Len(q) - 1, i < j
          PROVE  from[i] < from[j]
      BY <1>1, <2>2
    <2> QED
      BY <2>1, <2>2
  <1>3. \A n \in 1 .. Len(q) : n # p => \E i \in 1 .. Len(q) - 1 : from[i] = n
    <2> SUFFICES ASSUME NEW n \in 1 .. Len(q), n # p
                 PROVE  \E i \in 1 .. Len(q) - 1 : from[i] = n
      OBVIOUS
    <2>1. CASE n < p
      <3>1. n \in 1 .. Len(q) - 1 /\ from[n] = n
        BY <1>1, <2>1
      <3> QED
        BY <3>1
    <2>2. CASE n > p
      <3>1. n - 1 \in 1 .. Len(q) - 1 /\ from[n - 1] = n
        BY <1>1, <2>2
      <3> QED
        BY <3>1
    <2> QED
      BY <1>1, <2>1, <2>2
  <1> HIDE DEF from
  <1>4. Distinct(r)
    <2> SUFFICES ASSUME NEW i \in 1 .. Len(q) - 1, NEW j \in 1 .. Len(q) - 1,
                        r[i].tid = r[j].tid, i < j
                 PROVE  FALSE
      BY <1>1 DEF Distinct
    <2>1. from[i] \in 1 .. Len(q) /\ from[j] \in 1 .. Len(q) /\ from[i] < from[j]
      BY <1>2
    <2>2. q[from[i]].tid = q[from[j]].tid
      BY <1>2
    <2>3. from[i] = from[j]
      BY <1>1, <2>1, <2>2 DEF Distinct
    <2> QED
      BY <1>1, <2>1, <2>3
  <1>5. ASSUME Sorted(q) PROVE Sorted(r)
    <2> SUFFICES ASSUME NEW i \in 1 .. Len(q) - 1, NEW j \in 1 .. Len(q) - 1, i <= j
                 PROVE  r[i].deadline <= r[j].deadline
      BY <1>1 DEF Sorted
    <2>1. from[i] \in 1 .. Len(q) /\ from[j] \in 1 .. Len(q) /\ from[i] <= from[j]
      BY <1>1, <1>2
    <2> QED
      BY <1>1, <1>2, <1>5, <2>1 DEF Sorted
  <1>6. Queued(r) = Queued(q) \ {q[p].tid}
    <2>1. ASSUME NEW t \in Queued(r) PROVE t \in Queued(q) \ {q[p].tid}
      <3>1. PICK i \in 1 .. Len(q) - 1 : r[i].tid = t
        BY <1>1, <2>1 DEF Queued
      <3>2. from[i] \in 1 .. Len(q) /\ from[i] # p /\ q[from[i]].tid = t
        BY <1>2, <3>1
      <3> QED
        BY <1>1, <3>2 DEF Queued, Distinct
    <2>2. ASSUME NEW t \in Queued(q), t # q[p].tid PROVE t \in Queued(r)
      <3>1. PICK n \in 1 .. Len(q) : q[n].tid = t
        BY <1>1, <2>2 DEF Queued
      <3>2. PICK i \in 1 .. Len(q) - 1 : from[i] = n
        BY <1>3, <2>2, <3>1
      <3> QED
        BY <1>1, <1>2, <3>1, <3>2 DEF Queued
    <2> QED
      BY <2>1, <2>2
  <1> QED
    BY <1>1, <1>4, <1>5, <1>6 DEF Queued

\* A pick takes the head ...
LEMMA TailKeeps ==
    ASSUME NEW S, NEW q \in Seq(S), q # <<>>, Distinct(q)
    PROVE  /\ Head(q) \in S /\ Tail(q) \in Seq(S) /\ Len(Tail(q)) = Len(q) - 1
           /\ \A i \in 1 .. Len(q) - 1 : Tail(q)[i] = q[i + 1]
           /\ Distinct(Tail(q)) /\ (Sorted(q) => Sorted(Tail(q)))
           /\ Queued(Tail(q)) = Queued(q) \ {Head(q).tid} /\ Head(q).tid \in Queued(q)
  <1>1. /\ Head(q) \in S /\ Tail(q) \in Seq(S) /\ Len(Tail(q)) = Len(q) - 1
        /\ \A i \in 1 .. Len(Tail(q)) : Tail(q)[i] = q[i + 1]
    BY HeadTailProperties
  <1>2. Len(q) \in Nat \ {0} /\ Head(q) = q[1]
    BY EmptySeq, LenProperties
  <1>3. \A i \in 1 .. Len(q) - 1 : Tail(q)[i] = IF i < 1 THEN q[i] ELSE q[i + 1]
    BY <1>1, <1>2
  <1>4. 1 \in 1 .. Len(q)
    BY <1>2
  <1>5. /\ Distinct(Tail(q)) /\ (Sorted(q) => Sorted(Tail(q)))
        /\ Queued(Tail(q)) = Queued(q) \ {q[1].tid} /\ q[1].tid \in Queued(q)
    BY <1>1, <1>3, <1>4, WithoutOne
  <1> QED
    BY <1>1, <1>2, <1>5

\* ... or an eligible entry behind it.
LEMMA RemoveKeeps ==
    ASSUME NEW S, NEW q \in Seq(S), NEW p \in 1 .. Len(q), Distinct(q)
    PROVE  /\ RemoveAt(q, p) \in Seq(S) /\ Distinct(RemoveAt(q, p))
           /\ Queued(RemoveAt(q, p)) = Queued(q) \ {q[p].tid} /\ q[p].tid \in Queued(q)
  BY RemoveShape, WithoutOne

\* pick_eligible finds an entry when one is eligible.
LEMMA EarliestIsEligible ==
    ASSUME background \in Seq(Lagging), Eligible # {}
    PROVE  Earliest \in 1 .. Len(background)
  <1>1. /\ Len(background) \in Nat /\ DOMAIN background = 1 .. Len(background)
        /\ \A i \in 1 .. Len(background) : background[i] \in Lagging
    BY SeqFacts
  <1>2. \A i \in Eligible : i \in 1 .. Len(background) /\ background[i].deadline \in Nat
    BY <1>1, DispatchAssumption DEF Eligible, Lagging
  <1> DEFINE times == {background[i].deadline : i \in Eligible}
  <1>3. PICK d \in times : \A e \in times : d <= e
    BY <1>2, LeastNatural
  <1> DEFINE firsts == {i \in Eligible : background[i].deadline = d}
  <1>4. firsts # {} /\ firsts \subseteq Nat
    BY <1>2, <1>3
  <1>5. PICK i \in firsts : \A j \in firsts : i <= j
    BY <1>4, LeastNatural
  <1>6. i \in Eligible /\ \A j \in Eligible :
            \/ background[i].deadline < background[j].deadline
            \/ background[i].deadline = background[j].deadline /\ i <= j
    <2>1. i \in Eligible /\ background[i].deadline = d
      BY <1>5
    <2>2. ASSUME NEW j \in Eligible
          PROVE  \/ background[i].deadline < background[j].deadline
                 \/ background[i].deadline = background[j].deadline /\ i <= j
      <3>1. d <= background[j].deadline /\ d \in Nat /\ background[j].deadline \in Nat
        BY <1>2, <1>3, <2>1
      <3>2. background[j].deadline = d => i <= j
        BY <1>5
      <3> QED
        BY <2>1, <3>1, <3>2
    <2> QED
      BY <2>1, <2>2
  <1>7. Earliest \in Eligible
    BY <1>6 DEF Earliest
  <1> QED
    BY <1>2, <1>7

-----------------------------------------------------------------------------
(* Places *)

QueuesInv ==
    /\ queue \in [Queues -> Seq(Waiting)] /\ background \in Seq(Lagging)
    /\ lag \in [Threads -> Int]
    /\ \A k \in Queues : /\ Distinct(queue[k]) /\ Sorted(queue[k])
                         /\ \A t \in Queued(queue[k]) : Class[t] = k
    /\ Distinct(background) /\ \A t \in Queued(background) : Class[t] = "Background"

\* A thread that runs in two places, or runs and waits, is astray.
RunningInv ==
    /\ running \in [Cpus -> Threads \cup {NoThread}] /\ astray \subseteq Threads
    /\ \A c, d \in Cpus : running[c] = running[d] /\ running[c] # NoThread =>
                              c = d \/ running[c] \in astray
    /\ \A c \in Cpus : \A k \in Queues : running[c] \in Queued(queue[k]) =>
                                             running[c] \in astray
    /\ \A c \in Cpus : running[c] \in Queued(background) => running[c] \in astray

\* Nobody has more than a slice, and what a processor spends comes out of it.
SliceInv ==
    /\ pc \in [Cpus -> Places]
    /\ slice \in [Threads -> 0 .. Slice] /\ spent \in [Cpus -> Nat]
    /\ \A c \in Cpus : IF pc[c] = "running"
                       THEN /\ running[c] \in Threads
                            /\ running[c] \in astray \/ spent[c] + slice[running[c]] <= Slice
                       ELSE spent[c] = 0

TurnInv == QueuesInv /\ RunningInv /\ SliceInv

\* A queue holds threads and nothing else.
LEMMA QueuedAreThreads ==
    ASSUME QueuesInv
    PROVE  /\ \A k \in Queues : Queued(queue[k]) \subseteq Threads
           /\ Queued(background) \subseteq Threads
  <1>1. ASSUME NEW k \in Queues PROVE Queued(queue[k]) \subseteq Threads
    <2>1. queue[k] \in Seq(Waiting)
      BY DEF QueuesInv
    <2> QED
      BY <2>1, WaitingFacts DEF Queued
  <1>2. Queued(background) \subseteq Threads
    <2>1. \A i \in DOMAIN background : background[i] \in Lagging
      BY SeqFacts DEF QueuesInv
    <2> QED
      BY <2>1 DEF Queued, Lagging
  <1> QED
    BY <1>1, <1>2

\* All queues are empty and nobody runs.
LEMMA TurnsInit == Init => TurnInv
  <1> SUFFICES ASSUME Init PROVE TurnInv
    OBVIOUS
  <1> USE DEF Init
  <1>1. QueuesInv
    <2>1. \A k \in Queues : queue[k] = <<>>
      OBVIOUS
    <2>2. /\ Distinct(<<>>) /\ Sorted(<<>>) /\ Queued(<<>>) = {}
          /\ <<>> \in Seq(Waiting) /\ <<>> \in Seq(Lagging)
      BY EmptySeq DEF Distinct, Sorted, Queued
    <2>3. queue \in [Queues -> Seq(Waiting)] /\ lag \in [Threads -> Int]
      BY <2>2
    <2> QED
      BY <2>1, <2>2, <2>3 DEF QueuesInv
  <1>2. RunningInv
    <2>1. Queued(<<>>) = {}
      BY DEF Queued
    <2> QED
      BY <2>1 DEF RunningInv
  <1>3. SliceInv
    BY DispatchAssumption DEF SliceInv, Places
  <1> QED
    BY <1>1, <1>2, <1>3 DEF TurnInv

\* A blocked thread enters its queue.
LEMMA TurnsEnqueue ==
    ASSUME TurnInv, NEW t \in Threads, NEW d \in Deadlines[t], Enqueue(t, d)
    PROVE  TurnInv'
  <1> DEFINE k == Class[t]
             q == queue[k]
             e == [tid |-> t, deadline |-> d]
  <1>1. /\ k \in Queues /\ t \in Blocked
        /\ queue' = [queue EXCEPT ![k] = Insert(q, e)]
        /\ slice' = [slice EXCEPT ![t] = Slice] /\ astray' = astray \ {t}
        /\ UNCHANGED <<background, lag, pc, running, spent>>
    BY DEF Enqueue
  <1>2. /\ q \in Seq(Waiting) /\ e \in Waiting /\ Sorted(q) /\ Distinct(q)
        /\ e.tid \notin Queued(q) /\ e.tid = t
    BY <1>1, DispatchAssumption DEF TurnInv, QueuesInv, Waiting, Blocked
  <1>3. /\ Insert(q, e) \in Seq(Waiting)
        /\ Queued(Insert(q, e)) = Queued(q) \cup {t}
        /\ Distinct(Insert(q, e)) /\ Sorted(Insert(q, e))
    <2> HIDE DEF q, e
    <2> QED
      BY <1>2, InsertKeeps
  <1> HIDE DEF k, q, e
  <1>4. QueuesInv'
    <2>1. queue' \in [Queues -> Seq(Waiting)]
      BY <1>1, <1>3 DEF TurnInv, QueuesInv
    <2>2. ASSUME NEW j \in Queues
          PROVE  /\ Distinct(queue'[j]) /\ Sorted(queue'[j])
                 /\ \A u \in Queued(queue'[j]) : Class[u] = j
      <3>1. CASE j = k
        <4>1. queue'[j] = Insert(q, e)
          BY <1>1, <3>1 DEF TurnInv, QueuesInv
        <4>2. \A u \in Queued(q) : Class[u] = k
          BY <1>1 DEF TurnInv, QueuesInv, q
        <4> QED
          BY <1>3, <3>1, <4>1, <4>2 DEF k
      <3>2. CASE j # k
        <4>1. queue'[j] = queue[j]
          BY <1>1, <3>2 DEF TurnInv, QueuesInv
        <4> QED
          BY <4>1 DEF TurnInv, QueuesInv
      <3> QED
        BY <3>1, <3>2
    <2> QED
      BY <1>1, <2>1, <2>2 DEF TurnInv, QueuesInv
  <1>5. RunningInv'
    <2>1. \A c \in Cpus : running[c] # t
      BY <1>1 DEF Blocked
    <2>2. ASSUME NEW c \in Cpus, NEW j \in Queues, running[c] \in Queued(queue'[j])
          PROVE  running[c] \in astray'
      <3>1. CASE j = k
        <4>1. queue'[j] = Insert(q, e)
          BY <1>1, <3>1 DEF TurnInv, QueuesInv
        <4>2. running[c] \in Queued(q) => running[c] \in astray
          BY <1>1, <3>1 DEF TurnInv, RunningInv, q
        <4> QED
          BY <1>1, <1>3, <2>1, <2>2, <4>1, <4>2
      <3>2. CASE j # k
        <4>1. queue'[j] = queue[j]
          BY <1>1, <3>2 DEF TurnInv, QueuesInv
        <4> QED
          BY <1>1, <2>1, <2>2, <4>1 DEF TurnInv, RunningInv
      <3> QED
        BY <3>1, <3>2
    <2> QED
      BY <1>1, <2>1, <2>2 DEF TurnInv, RunningInv
  <1>6. SliceInv'
    <2>1. \A c \in Cpus : running[c] # t
      BY <1>1 DEF Blocked
    <2>2. slice' \in [Threads -> 0 .. Slice] /\ \A u \in Threads : u # t => slice'[u] = slice[u]
      BY <1>1, DispatchAssumption DEF TurnInv, SliceInv
    <2> QED
      BY <1>1, <2>1, <2>2 DEF TurnInv, SliceInv
  <1> QED
    BY <1>4, <1>5, <1>6 DEF TurnInv

\* The same for the background queue, which is ordered by lag.
LEMMA TurnsEnqueueBackground ==
    ASSUME TurnInv, NEW t \in Threads, NEW d \in Deadlines[t], EnqueueBackground(t, d)
    PROVE  TurnInv'
  <1> DEFINE e == [tid |-> t, lag |-> lag[t], deadline |-> d]
             r == Append(background, e)
  <1>1. /\ Class[t] = "Background" /\ t \in Blocked
        /\ background' = r /\ slice' = [slice EXCEPT ![t] = Slice]
        /\ astray' = astray \ {t}
        /\ UNCHANGED <<queue, lag, pc, running, spent>>
    BY DEF EnqueueBackground
  <1>2. background \in Seq(Lagging) /\ e \in Lagging /\ t \notin Queued(background)
    BY <1>1, DispatchAssumption DEF TurnInv, QueuesInv, Lagging, Blocked
  <1>3. /\ Len(background) \in Nat /\ DOMAIN background = 1 .. Len(background)
        /\ r \in Seq(Lagging) /\ DOMAIN r = 1 .. Len(background) + 1
        /\ \A i \in 1 .. Len(background) : r[i] = background[i]
        /\ r[Len(background) + 1] = e
    BY <1>2, SeqFacts, AppendProperties
  <1>4. Distinct(background) /\ e.tid = t
    BY DEF TurnInv, QueuesInv
  <1> HIDE DEF r, e
  <1>5. Queued(r) = Queued(background) \cup {t}
    <2>1. \A i \in DOMAIN r : i \in DOMAIN background \/ i = Len(background) + 1
      BY <1>3
    <2>2. \A i \in DOMAIN background : i \in DOMAIN r
      BY <1>3
    <2>3. Len(background) + 1 \in DOMAIN r
      BY <1>3
    <2> QED
      BY <1>3, <1>4, <2>1, <2>2, <2>3 DEF Queued
  <1>6. Distinct(r)
    <2>1. \A i \in 1 .. Len(background) : background[i].tid # t
      BY <1>2, <1>3 DEF Queued
    <2>2. \A i \in DOMAIN r : i \in 1 .. Len(background) \/ i = Len(background) + 1
      BY <1>3
    <2> QED
      BY <1>3, <1>4, <2>1, <2>2 DEF Distinct
  <1>7. \A c \in Cpus : running[c] # t
    BY <1>1 DEF Blocked
  <1>8. slice' \in [Threads -> 0 .. Slice] /\ \A u \in Threads : u # t => slice'[u] = slice[u]
    BY <1>1, DispatchAssumption DEF TurnInv, SliceInv
  <1>9. QueuesInv'
    BY <1>1, <1>3, <1>5, <1>6 DEF TurnInv, QueuesInv
  <1>10. RunningInv'
    BY <1>1, <1>5, <1>7 DEF TurnInv, RunningInv
  <1>11. SliceInv'
    BY <1>1, <1>7, <1>8 DEF TurnInv, SliceInv
  <1> QED
    BY <1>9, <1>10, <1>11 DEF TurnInv

-----------------------------------------------------------------------------
(* Picks *)

\* The head of queue k is taken; c runs it, or nobody does.
LEMMA TakesHead ==
    ASSUME QueuesInv, RunningInv, NEW k \in Queues, queue[k] # <<>>, NEW c \in Cpus,
           queue' = [queue EXCEPT ![k] = Tail(@)], UNCHANGED <<background, lag, astray>>,
           running' = [running EXCEPT ![c] = Head(queue[k]).tid] \/ UNCHANGED running
    PROVE  QueuesInv' /\ RunningInv' /\ Head(queue[k]).tid \in Threads
  <1> DEFINE q == queue[k]
             t == Head(q).tid
  <1>1. /\ Head(q) \in Waiting /\ Tail(q) \in Seq(Waiting)
        /\ Distinct(Tail(q)) /\ Sorted(Tail(q))
        /\ Queued(Tail(q)) = Queued(q) \ {t} /\ t \in Queued(q)
    <2>1. q \in Seq(Waiting) /\ q # <<>> /\ Distinct(q) /\ Sorted(q)
      BY DEF QueuesInv
    <2> HIDE DEF q
    <2> QED
      BY <2>1, TailKeeps
  <1>2. t \in Threads /\ Class[t] = k
    BY <1>1 DEF QueuesInv, Waiting
  <1>3. /\ queue'[k] = Tail(q) /\ queue' \in [Queues -> Seq(Waiting)]
        /\ \A j \in Queues : j # k => queue'[j] = queue[j]
    BY <1>1 DEF QueuesInv
  <1>4. /\ \A j \in Queues : Queued(queue'[j]) = Queued(queue[j]) \ {t}
        /\ t \notin Queued(background)
    <2>1. \A j \in Queues : j # k => t \notin Queued(queue[j])
      BY <1>2 DEF QueuesInv
    <2>2. t \notin Queued(background)
      BY <1>2 DEF QueuesInv, Queues
    <2> QED
      BY <1>1, <1>3, <2>1, <2>2
  <1>5. QueuesInv'
    <2>1. \A j \in Queues : Distinct(queue'[j]) /\ Sorted(queue'[j])
      BY <1>1, <1>3 DEF QueuesInv
    <2> QED
      BY <1>3, <1>4, <2>1 DEF QueuesInv
  <1>6. \A d \in Cpus : running[d] = t => t \in astray
    BY <1>1 DEF RunningInv
  <1> HIDE DEF t, q
  <1>7. CASE running' = [running EXCEPT ![c] = t]
    <2>1. \A d \in Cpus : running'[d] = IF d = c THEN t ELSE running[d]
      BY <1>7 DEF RunningInv
    <2>2. running' \in [Cpus -> Threads \cup {NoThread}]
      BY <1>2, <1>7 DEF RunningInv
    <2> QED
      BY <1>2, <1>4, <1>5, <1>6, <2>1, <2>2 DEF RunningInv, t, q
  <1>8. CASE UNCHANGED running
    BY <1>2, <1>4, <1>5, <1>8 DEF RunningInv, t, q
  <1> QED
    BY <1>2, <1>5, <1>7, <1>8 DEF RunningInv, t, q

\* A processor that was not running gets a thread with a slice nobody spent.
LEMMA PicksFresh ==
    ASSUME SliceInv, NEW c \in Cpus, NEW t \in Threads, pc[c] # "running",
           running \in [Cpus -> Threads \cup {NoThread}],
           Run(c, t), UNCHANGED <<slice, spent, astray>>
    PROVE  SliceInv'
  <1>1. \A d \in Cpus : /\ running'[d] = IF d = c THEN t ELSE running[d]
                        /\ pc'[d] = IF d = c THEN "running" ELSE pc[d]
    BY DEF Run, Goto, SliceInv
  <1>2. pc' \in [Cpus -> Places]
    BY DEF Run, Goto, SliceInv, Places
  <1>3. spent[c] = 0 /\ slice[t] \in 0 .. Slice
    BY DEF SliceInv
  <1> QED
    BY <1>1, <1>2, <1>3, DispatchAssumption DEF SliceInv

\* It goes on looking.
LEMMA GoesOn ==
    ASSUME SliceInv, NEW c \in Cpus, NEW p \in Places \ {"running"}, pc[c] # "running",
           Goto(c, p), UNCHANGED <<slice, spent, running, astray>>
    PROVE  SliceInv'
  BY DEF SliceInv, Goto

\* The picks from the three deadline queues.
LEMMA TurnsPick ==
    ASSUME TurnInv, NEW c \in Cpus,
           PickRealTime(c) \/ PickIsolated(c) \/ PickInteractive(c)
    PROVE  TurnInv'
  <1>0. /\ "RealTime" \in Queues /\ "Interactive" \in Queues
        /\ running \in [Cpus -> Threads \cup {NoThread}]
        /\ "flag" \in Places /\ "pick" \in Places /\ "background" \in Places
        /\ QueuesInv /\ RunningInv /\ SliceInv
    BY DEF Queues, Places, TurnInv, RunningInv
  <1>1. CASE PickRealTime(c)
    <2>1. pc[c] # "running" /\ UNCHANGED <<background, lag, slice, spent, astray>>
      BY <1>1 DEF PickRealTime
    <2>2. CASE queue["RealTime"] # <<>>
      <3>1. /\ Run(c, Head(queue["RealTime"]).tid)
            /\ queue' = [queue EXCEPT !["RealTime"] = Tail(@)]
        BY <1>1, <2>2 DEF PickRealTime
      <3>2. QueuesInv' /\ RunningInv' /\ Head(queue["RealTime"]).tid \in Threads
        BY <1>0, <2>1, <2>2, <3>1, TakesHead DEF Run
      <3> QED
        BY <1>0, <2>1, <3>1, <3>2, PicksFresh DEF TurnInv
    <2>3. CASE queue["RealTime"] = <<>>
      <3>1. Goto(c, "flag") /\ UNCHANGED <<queue, running>>
        BY <1>1, <2>3 DEF PickRealTime
      <3>2. SliceInv'
        BY <1>0, <2>1, <3>1, GoesOn
      <3> QED
        BY <1>0, <2>1, <3>1, <3>2 DEF TurnInv, QueuesInv, RunningInv
    <2> QED
      BY <2>2, <2>3
  <1>2. CASE PickIsolated(c)
    <2>1. pc[c] # "running" /\ UNCHANGED <<background, lag, slice, spent, astray>>
      BY <1>2 DEF PickIsolated
    <2>2. CASE queue["Interactive"] # <<>>
      <3>1. /\ \/ Run(c, Head(queue["Interactive"]).tid)
               \/ Goto(c, "pick") /\ UNCHANGED running
            /\ queue' = [queue EXCEPT !["Interactive"] = Tail(@)]
        BY <1>2, <2>2 DEF PickIsolated
      <3>2. QueuesInv' /\ RunningInv' /\ Head(queue["Interactive"]).tid \in Threads
        BY <1>0, <2>1, <2>2, <3>1, TakesHead DEF Run
      <3>3. SliceInv'
        BY <1>0, <2>1, <3>1, <3>2, PicksFresh, GoesOn
      <3> QED
        BY <3>2, <3>3 DEF TurnInv
    <2>3. CASE queue["Interactive"] = <<>>
      <3>1. Goto(c, "pick") /\ UNCHANGED <<queue, running>>
        BY <1>2, <2>3 DEF PickIsolated
      <3>2. SliceInv'
        BY <1>0, <2>1, <3>1, GoesOn
      <3> QED
        BY <1>0, <2>1, <3>1, <3>2 DEF TurnInv, QueuesInv, RunningInv
    <2> QED
      BY <2>2, <2>3
  <1>3. CASE PickInteractive(c)
    <2>1. pc[c] # "running" /\ UNCHANGED <<background, lag, slice, spent, astray>>
      BY <1>3 DEF PickInteractive
    <2>2. CASE queue["Interactive"] # <<>>
      <3>1. /\ Run(c, Head(queue["Interactive"]).tid)
            /\ queue' = [queue EXCEPT !["Interactive"] = Tail(@)]
        BY <1>3, <2>2 DEF PickInteractive
      <3>2. QueuesInv' /\ RunningInv' /\ Head(queue["Interactive"]).tid \in Threads
        BY <1>0, <2>1, <2>2, <3>1, TakesHead DEF Run
      <3> QED
        BY <1>0, <2>1, <3>1, <3>2, PicksFresh DEF TurnInv
    <2>3. CASE queue["Interactive"] = <<>>
      <3>1. Goto(c, "background") /\ UNCHANGED <<queue, running>>
        BY <1>3, <2>3 DEF PickInteractive
      <3>2. SliceInv'
        BY <1>0, <2>1, <3>1, GoesOn
      <3> QED
        BY <1>0, <2>1, <3>1, <3>2 DEF TurnInv, QueuesInv, RunningInv
    <2> QED
      BY <2>2, <2>3
  <1> QED
    BY <1>1, <1>2, <1>3

\* The background pick takes an eligible entry, or the head after it moved the clock.
LEMMA TurnsPickBackground ==
    ASSUME TurnInv, NEW c \in Cpus, PickBackground(c)
    PROVE  TurnInv'
  <1>1. /\ pc[c] = "background" /\ UNCHANGED <<queue, lag, slice, spent, astray>>
        /\ QueuesInv /\ RunningInv /\ SliceInv
    BY DEF PickBackground, TurnInv
  <1>2. CASE Eligible # {}
    <2> DEFINE p == Earliest
               t == background[p].tid
    <2>1. Run(c, t) /\ background' = RemoveAt(background, p)
      BY <1>2 DEF PickBackground
    <2>2. background \in Seq(Lagging) /\ Distinct(background) /\ p \in 1 .. Len(background)
      BY <1>1, <1>2, EarliestIsEligible DEF QueuesInv
    <2>3. /\ RemoveAt(background, p) \in Seq(Lagging) /\ Distinct(RemoveAt(background, p))
          /\ Queued(RemoveAt(background, p)) = Queued(background) \ {t}
          /\ t \in Queued(background)
      <3> HIDE DEF p
      <3> QED
        BY <2>2, RemoveKeeps
    <2> HIDE DEF t, p
    <2>4. t \in Threads /\ Class[t] = "Background"
      BY <1>1, <2>3, QueuedAreThreads DEF QueuesInv
    <2>5. QueuesInv'
      BY <1>1, <2>1, <2>3 DEF QueuesInv
    <2>6. /\ \A d \in Cpus : running'[d] = IF d = c THEN t ELSE running[d]
          /\ running' \in [Cpus -> Threads \cup {NoThread}]
      BY <1>1, <2>1, <2>4 DEF RunningInv, Run
    <2>7. /\ \A d \in Cpus : running[d] = t => t \in astray
          /\ \A k \in Queues : t \notin Queued(queue[k])
      BY <1>1, <2>3, <2>4 DEF RunningInv, QueuesInv, Queues
    <2>8. RunningInv'
      BY <1>1, <2>1, <2>3, <2>6, <2>7 DEF RunningInv
    <2>9. SliceInv'
      BY <1>1, <2>1, <2>4, PicksFresh DEF RunningInv
    <2> QED
      BY <2>5, <2>8, <2>9 DEF TurnInv
  <1>3. CASE Eligible = {}
    <2>1. Goto(c, "pick") /\ UNCHANGED <<background, running>>
      BY <1>3 DEF PickBackground
    <2>2. SliceInv'
      BY <1>1, <2>1, GoesOn DEF Places
    <2> QED
      BY <1>1, <2>1, <2>2 DEF TurnInv, QueuesInv, RunningInv
  <1> QED
    BY <1>2, <1>3

-----------------------------------------------------------------------------
(* The running thread *)

\* A tick charges the running thread.
LEMMA TurnsConsume ==
    ASSUME TurnInv, NEW c \in Cpus, Consume(c)
    PROVE  TurnInv'
  <1> DEFINE t == running[c]
  <1>1. /\ pc[c] = "running" /\ slice[t] > 0
        /\ slice' = [slice EXCEPT ![t] = @ - 1]
        /\ spent' = [spent EXCEPT ![c] = IF t \in astray THEN @ ELSE @ + 1]
        /\ UNCHANGED <<queue, background, pc, running, astray>>
    BY DEF Consume
  <1>2. t \in Threads /\ (t \in astray \/ spent[c] + slice[t] <= Slice)
    BY <1>1 DEF TurnInv, SliceInv
  <1>3. lag' \in [Threads -> Int]
    BY DEF Consume, EevdfUpdateLag, TurnInv, QueuesInv
  <1>4. QueuesInv' /\ RunningInv'
    BY <1>1, <1>3 DEF TurnInv, QueuesInv, RunningInv
  <1>5. \A d \in Cpus : d # c /\ running[d] = t => t \in astray
    BY <1>2, DispatchAssumption DEF TurnInv, RunningInv
  <1>6. /\ slice' \in [Threads -> 0 .. Slice] /\ spent' \in [Cpus -> Nat]
        /\ \A u \in Threads : slice'[u] = IF u = t THEN slice[t] - 1 ELSE slice[u]
        /\ \A d \in Cpus : spent'[d] = IF d = c /\ t \notin astray THEN spent[c] + 1
                                                                  ELSE spent[d]
    BY <1>1, <1>2, DispatchAssumption DEF TurnInv, SliceInv
  <1>7. spent[c] \in Nat /\ slice[t] \in 0 .. Slice
    BY <1>2 DEF TurnInv, SliceInv
  <1> HIDE DEF t
  <1>8. SliceInv'
    <2>1. \A d \in Cpus : d # c => spent'[d] = spent[d] /\
              (pc[d] = "running" => \/ running[d] \in astray
                                    \/ slice'[running[d]] = slice[running[d]])
      BY <1>5, <1>6 DEF TurnInv, SliceInv
    <2>2. t \notin astray => spent'[c] + slice'[t] = spent[c] + slice[t]
      BY <1>2, <1>6, <1>7, DispatchAssumption
    <2> QED
      BY <1>1, <1>2, <1>6, <2>1, <2>2 DEF TurnInv, SliceInv, t
  <1> QED
    BY <1>4, <1>8 DEF TurnInv

\* The running thread goes into no queue.
LEMMA TurnsBlock ==
    ASSUME TurnInv, NEW c \in Cpus, Block(c)
    PROVE  TurnInv'
  <1>1. /\ running' = [running EXCEPT ![c] = NoThread] /\ pc' = [pc EXCEPT ![c] = "pick"]
        /\ spent' = [spent EXCEPT ![c] = 0]
        /\ UNCHANGED <<queue, background, lag, slice, astray>>
    BY DEF Block, Goto
  <1>2. /\ \A k \in Queues : NoThread \notin Queued(queue[k])
        /\ NoThread \notin Queued(background)
    BY QueuedAreThreads, DispatchAssumption DEF TurnInv
  <1>3. QueuesInv' /\ RunningInv'
    BY <1>1, <1>2 DEF TurnInv, QueuesInv, RunningInv
  <1>4. SliceInv'
    BY <1>1 DEF TurnInv, RunningInv, SliceInv, Places
  <1> QED
    BY <1>3, <1>4 DEF TurnInv

\* A thread that is handed a processor was nowhere before, or is astray now.
LEMMA TurnsSwitch ==
    ASSUME TurnInv, NEW c \in Cpus, NEW t \in Called, SwitchToDonating(c, t)
    PROVE  TurnInv'
  <1>1. /\ pc[c] = "running" /\ t \in Threads
        /\ slice' = [slice EXCEPT ![t] = slice[running[c]]]
        /\ running' = [running EXCEPT ![c] = t]
        /\ UNCHANGED <<queue, background, lag, pc, spent>>
    BY DispatchAssumption DEF SwitchToDonating
  <1>2. \/ t \in astray' /\ astray' = astray \cup {t}
        \/ t \in Blocked /\ running[c] \notin astray /\ astray' = astray \ {t}
    BY DEF SwitchToDonating, HandedTo
  <1>3. /\ running[c] \in Threads
        /\ running[c] \in astray \/ spent[c] + slice[running[c]] <= Slice
    BY <1>1 DEF TurnInv, SliceInv
  <1>4. \A d \in Cpus : running'[d] = IF d = c THEN t ELSE running[d]
    BY <1>1 DEF TurnInv, RunningInv
  <1>5. /\ slice' \in [Threads -> 0 .. Slice] /\ slice'[t] = slice[running[c]]
        /\ \A u \in Threads : u # t => slice'[u] = slice[u]
    BY <1>1, <1>3 DEF TurnInv, SliceInv
  <1>6. QueuesInv'
    BY <1>1 DEF TurnInv, QueuesInv
  <1>7. CASE t \in astray' /\ astray' = astray \cup {t}
    <2>1. RunningInv'
      BY <1>1, <1>4, <1>7 DEF TurnInv, RunningInv
    <2>2. SliceInv'
      BY <1>1, <1>4, <1>5, <1>7 DEF TurnInv, SliceInv
    <2> QED
      BY <1>6, <2>1, <2>2 DEF TurnInv
  <1>8. CASE t \in Blocked /\ running[c] \notin astray /\ astray' = astray \ {t}
    <2>1. /\ \A d \in Cpus : running[d] # t
          /\ \A k \in Queues : t \notin Queued(queue[k])
          /\ t \notin Queued(background)
      BY <1>8 DEF Blocked
    <2>2. RunningInv'
      BY <1>1, <1>4, <1>8, <2>1 DEF TurnInv, RunningInv
    <2>3. SliceInv'
      BY <1>1, <1>3, <1>4, <1>5, <1>8, <2>1 DEF TurnInv, SliceInv
    <2> QED
      BY <1>6, <2>2, <2>3 DEF TurnInv
  <1> QED
    BY <1>2, <1>7, <1>8

\* The loads of the session's words.
LEMMA TurnsLoad ==
    ASSUME TurnInv, NEW c \in Cpus, LoadActive(c) \/ LoadMask(c) \/ LoadOwner(c)
    PROVE  TurnInv'
  <1>1. /\ UNCHANGED <<queue, background, lag, slice, running, spent, astray>>
        /\ pc[c] # "running"
        /\ \E p \in {"mask", "interactive", "owner", "isolated"} : Goto(c, p)
    BY DEF LoadActive, LoadMask, LoadOwner
  <1>2. SliceInv'
    BY <1>1, GoesOn DEF TurnInv, Places
  <1> QED
    BY <1>1, <1>2 DEF TurnInv, QueuesInv, RunningInv

\* Every step keeps the invariant.
LEMMA TurnsStep == TurnInv /\ [Next]_vars => TurnInv'
  <1> SUFFICES ASSUME TurnInv, [Next]_vars PROVE TurnInv'
    OBVIOUS
  <1>1. CASE Session
    BY <1>1 DEF Session, TurnInv, QueuesInv, RunningInv, SliceInv
  <1>2. CASE UNCHANGED vars
    BY <1>2 DEF vars, TurnInv, QueuesInv, RunningInv, SliceInv
  <1> QED
    BY <1>1, <1>2, TurnsEnqueue, TurnsEnqueueBackground, TurnsPick, TurnsPickBackground,
       TurnsConsume, TurnsBlock, TurnsSwitch, TurnsLoad DEF Next

\* The two state properties, from the invariant.
LEMMA TurnsHold == TurnInv => OnePlace /\ DonationIsNotFresh
  <1> SUFFICES ASSUME TurnInv PROVE OnePlace /\ DonationIsNotFresh
    OBVIOUS
  <1>1. \A k \in Queues : Cardinality(Queued(queue[k])) = Len(queue[k])
    BY DistinctCount DEF TurnInv, QueuesInv
  <1>2. Cardinality(Queued(background)) = Len(background)
    BY DistinctCount DEF TurnInv, QueuesInv
  <1> QED
    BY <1>1, <1>2 DEF TurnInv, RunningInv, SliceInv, OnePlace, DonationIsNotFresh

-----------------------------------------------------------------------------
(* Order *)

Index(q, x) == CHOOSE i \in DOMAIN q : q[i].tid = x

\* What NobodyOvertaken says of one queue.
Keeps(old, new) ==
    \A t \in Queued(old), u \in Queued(new) :
        t # u /\ t \in Queued(new) =>
            \/ new[Index(new, t)].deadline > new[Index(new, u)].deadline
            \/ Index(new, t) < Index(new, u)
            \/ u \in Queued(old) /\ Index(old, u) < Index(old, t)

\* Where a thread of a queue is.
LEMMA IndexOf ==
    ASSUME NEW q, Distinct(q)
    PROVE  /\ \A i \in DOMAIN q : Index(q, q[i].tid) = i
           /\ \A t \in Queued(q) : Index(q, t) \in DOMAIN q /\ q[Index(q, t)].tid = t
  <1>1. ASSUME NEW t \in Queued(q)
        PROVE  Index(q, t) \in DOMAIN q /\ q[Index(q, t)].tid = t
    <2>1. PICK i \in DOMAIN q : q[i].tid = t
      BY DEF Queued
    <2> QED
      BY <2>1 DEF Index
  <1>2. ASSUME NEW i \in DOMAIN q PROVE Index(q, q[i].tid) = i
    BY <1>1 DEF Distinct, Queued
  <1> QED
    BY <1>1, <1>2

\* A queue that does not change, one that loses its head, and one that an entry is
\* inserted into overtake nobody.
LEMMA SameKeeps ==
    ASSUME NEW q \in Seq(Waiting), Distinct(q)
    PROVE  Keeps(q, q)
  <1>1. \A i, j \in DOMAIN q : i # j => i < j \/ j < i
    BY SeqFacts
  <1> QED
    BY <1>1, IndexOf DEF Keeps

LEMMA TailKeepsOrder ==
    ASSUME NEW q \in Seq(Waiting), q # <<>>, Distinct(q)
    PROVE  Keeps(q, Tail(q))
  <1> DEFINE r == Tail(q)
  <1>1. /\ Len(q) \in Nat /\ DOMAIN q = 1 .. Len(q)
        /\ r \in Seq(Waiting) /\ DOMAIN r = 1 .. Len(q) - 1 /\ Distinct(r)
        /\ \A i \in 1 .. Len(q) - 1 : r[i] = q[i + 1]
    BY SeqFacts, TailKeeps
  <1> HIDE DEF r
  <1>2. \A t \in Queued(r) : /\ Index(r, t) \in 1 .. Len(q) - 1
                             /\ t \in Queued(q) /\ Index(q, t) = Index(r, t) + 1
    <2> SUFFICES ASSUME NEW t \in Queued(r)
                 PROVE  /\ Index(r, t) \in 1 .. Len(q) - 1
                        /\ t \in Queued(q) /\ Index(q, t) = Index(r, t) + 1
      OBVIOUS
    <2>1. Index(r, t) \in 1 .. Len(q) - 1 /\ r[Index(r, t)].tid = t
      BY <1>1, IndexOf
    <2>2. Index(r, t) + 1 \in DOMAIN q /\ q[Index(r, t) + 1].tid = t
      BY <1>1, <2>1
    <2> QED
      BY <2>1, <2>2, IndexOf DEF Queued
  <1>3. ASSUME NEW t \in Queued(r), NEW u \in Queued(r), t # u
        PROVE  Index(r, t) < Index(r, u) \/ Index(q, u) < Index(q, t)
    <2>1. Index(r, t) # Index(r, u)
      BY <1>1, <1>3, IndexOf
    <2>2. /\ Index(r, t) \in Int /\ Index(r, u) \in Int
          /\ Index(q, t) = Index(r, t) + 1 /\ Index(q, u) = Index(r, u) + 1
      BY <1>1, <1>2
    <2> QED
      BY <2>1, <2>2
  <1> QED
    BY <1>2, <1>3 DEF Keeps, r

LEMMA InsertKeepsOrder ==
    ASSUME NEW q \in Seq(Waiting), NEW e \in Waiting, Sorted(q), Distinct(q),
           e.tid \notin Queued(q)
    PROVE  Keeps(q, Insert(q, e))
  <1> DEFINE r == Insert(q, e)
  <1>1. PICK p \in 0 .. Len(q) :
            /\ Insert(q, e) = InsertAt(q, p + 1, e)
            /\ \A i \in 1 .. Len(q) : q[i].deadline <= e.deadline <=> i <= p
    BY InsertPlace
  <1>2. \A i \in 1 .. Len(q) + 1 :
            InsertAt(q, p + 1, e)[i] =
                IF i <= p THEN q[i] ELSE IF i = p + 1 THEN e ELSE q[i - 1]
    BY InsertShape
  <1>3. /\ r \in Seq(Waiting) /\ Len(r) = Len(q) + 1 /\ Distinct(r)
        /\ Queued(r) = Queued(q) \cup {e.tid}
    BY InsertKeeps
  <1>4. /\ Len(q) \in Nat /\ DOMAIN q = 1 .. Len(q) /\ DOMAIN r = 1 .. Len(q) + 1
        /\ \A i \in 1 .. Len(q) : q[i].deadline \in Nat
        /\ e.deadline \in Nat
    <2>1. Len(q) \in Nat /\ DOMAIN q = 1 .. Len(q)
      BY WaitingFacts
    <2>2. \A i \in 1 .. Len(q) : q[i].deadline \in Nat
      BY WaitingFacts
    <2>3. e.deadline \in Nat
      BY DispatchAssumption DEF Waiting
    <2>4. DOMAIN r = 1 .. Len(q) + 1
      BY <1>3, WaitingFacts
    <2> QED
      BY <2>1, <2>2, <2>3, <2>4
  <1>5. \A i \in 1 .. Len(q) + 1 :
            r[i] = IF i <= p THEN q[i] ELSE IF i = p + 1 THEN e ELSE q[i - 1]
    BY <1>1, <1>2
  <1> HIDE DEF r
  \* Where each entry of the old queue is now.
  <1> DEFINE now == [i \in 1 .. Len(q) |-> IF i <= p THEN i ELSE i + 1]
  <1>6. ASSUME NEW i \in 1 .. Len(q)
        PROVE  now[i] \in 1 .. Len(q) + 1 /\ now[i] # p + 1 /\ r[now[i]] = q[i]
    <2>1. CASE i <= p
      BY <1>4, <1>5, <2>1
    <2>2. CASE ~(i <= p)
      <3>1. i + 1 \in 1 .. Len(q) + 1 /\ ~(i + 1 <= p) /\ i + 1 # p + 1 /\ (i + 1) - 1 = i
        BY <1>4, <2>2
      <3> QED
        BY <1>4, <1>5, <2>2, <3>1
    <2> QED
      BY <2>1, <2>2
  <1>7a. /\ \A i, j \in 1 .. Len(q) : i < j => now[i] < now[j]
         /\ \A i \in 1 .. Len(q) : i <= p => now[i] < p + 1
    BY <1>4
  <1>7. r[p + 1] = e /\ p + 1 \in 1 .. Len(q) + 1
    BY <1>4, <1>5
  <1> HIDE DEF now
  <1>8. ASSUME NEW t \in Queued(q)
        PROVE  Index(q, t) \in 1 .. Len(q) /\ Index(r, t) = now[Index(q, t)]
    <2>1. Index(q, t) \in 1 .. Len(q) /\ q[Index(q, t)].tid = t
      BY <1>4, IndexOf
    <2>2. now[Index(q, t)] \in DOMAIN r /\ r[now[Index(q, t)]].tid = t
      BY <1>4, <1>6, <2>1
    <2> QED
      BY <1>3, <2>1, <2>2, IndexOf
  <1>9. Index(r, e.tid) = p + 1
    BY <1>3, <1>4, <1>7, IndexOf
  <1>10. ASSUME NEW t \in Queued(q), NEW u \in Queued(q), t # u
         PROVE  Index(r, t) < Index(r, u) \/ Index(q, u) < Index(q, t)
    <2>1. /\ Index(q, t) \in 1 .. Len(q) /\ Index(q, u) \in 1 .. Len(q)
          /\ Index(q, t) # Index(q, u)
      BY <1>8, <1>10, IndexOf
    <2>2. CASE Index(q, t) < Index(q, u)
      BY <1>7a, <1>8, <2>1, <2>2
    <2> QED
      BY <1>4, <2>1, <2>2
  <1>11. ASSUME NEW t \in Queued(q)
         PROVE  \/ r[Index(r, t)].deadline > r[Index(r, e.tid)].deadline
                \/ Index(r, t) < Index(r, e.tid)
    <2>1. Index(q, t) \in 1 .. Len(q) /\ r[Index(r, t)] = q[Index(q, t)]
      BY <1>6, <1>8
    <2>2. r[Index(r, e.tid)] = e
      BY <1>7, <1>9
    <2>3. CASE Index(q, t) <= p
      BY <1>7a, <1>8, <1>9, <2>1, <2>3
    <2>4. CASE ~(Index(q, t) <= p)
      BY <1>1, <1>4, <2>1, <2>2, <2>4
    <2> QED
      BY <2>3, <2>4
  <1>12. \A t \in Queued(q), u \in Queued(r) :
           t # u /\ t \in Queued(r) =>
             \/ r[Index(r, t)].deadline > r[Index(r, u)].deadline
             \/ Index(r, t) < Index(r, u)
             \/ u \in Queued(q) /\ Index(q, u) < Index(q, t)
    BY <1>3, <1>10, <1>11
  <1> QED
    BY <1>12 DEF Keeps, r

\* A queue changes by an insertion or by losing its head.
LEMMA StepKeepsOrder ==
    ASSUME TurnInv, [Next]_vars, NEW k \in Queues
    PROVE  Keeps(queue[k], queue[k]')
  <1>1. /\ queue[k] \in Seq(Waiting) /\ Distinct(queue[k]) /\ Sorted(queue[k])
        /\ queue \in [Queues -> Seq(Waiting)]
    BY DEF TurnInv, QueuesInv
  <1>2. CASE queue[k]' = queue[k]
    BY <1>1, <1>2, SameKeeps
  <1>3. CASE queue[k]' # queue[k]
    <2>1. \/ \E t \in Threads : \E d \in Deadlines[t] : Enqueue(t, d)
          \/ \E c \in Cpus : PickRealTime(c) \/ PickIsolated(c) \/ PickInteractive(c)
      BY <1>3 DEF Next, vars, EnqueueBackground, LoadActive, LoadMask, LoadOwner,
                  PickBackground, Consume, Block, SwitchToDonating, Session
    <2>2. ASSUME NEW t \in Threads, NEW d \in Deadlines[t], Enqueue(t, d)
          PROVE  Keeps(queue[k], queue[k]')
      <3> DEFINE e == [tid |-> t, deadline |-> d]
      <3>1. /\ Class[t] \in Queues /\ t \in Blocked
            /\ queue' = [queue EXCEPT ![Class[t]] = Insert(@, e)]
        BY <2>2 DEF Enqueue
      <3>2. k = Class[t]
        BY <1>1, <1>3, <3>1
      <3>3. queue[k]' = Insert(queue[k], e)
        BY <1>1, <3>1, <3>2
      <3>4. e \in Waiting /\ e.tid \notin Queued(queue[k])
        BY <3>1, <3>2, DispatchAssumption DEF Waiting, Blocked
      <3> HIDE DEF e
      <3> QED
        BY <1>1, <3>3, <3>4, InsertKeepsOrder
    <2>3. ASSUME NEW c \in Cpus, PickRealTime(c) \/ PickIsolated(c) \/ PickInteractive(c)
          PROVE  Keeps(queue[k], queue[k]')
      <3>1. \E j \in Queues : queue[j] # <<>> /\ queue' = [queue EXCEPT ![j] = Tail(@)]
        BY <1>3, <2>3 DEF PickRealTime, PickIsolated, PickInteractive, Queues
      <3>2. queue[k] # <<>> /\ queue[k]' = Tail(queue[k])
        BY <1>1, <1>3, <3>1
      <3> QED
        BY <1>1, <3>2, TailKeepsOrder
    <2> QED
      BY <2>1, <2>2, <2>3
  <1> QED
    BY <1>2, <1>3

\* The queues together, in the words of NobodyOvertaken.
LEMMA StepOvertakesNobody ==
    ASSUME \A k \in Queues : Keeps(queue[k], queue[k]')
    PROVE  \A k \in Queues :
             \A t \in Queued(queue[k]), u \in Queued(queue[k]') :
               LET At(q, x) == CHOOSE i \in DOMAIN q : q[i].tid = x
                   old == queue[k]
                   new == queue[k]'
               IN  t # u /\ t \in Queued(new) =>
                     \/ new[At(new, t)].deadline > new[At(new, u)].deadline
                     \/ At(new, t) < At(new, u)
                     \/ u \in Queued(old) /\ At(old, u) < At(old, t)
  BY DEF Keeps, Index

\* sched.rs for any threads and deadlines, whatever threads a hand-off meets: an
\* earlier deadline is overtaken by nobody who comes later, and where no hand-off
\* met a thread that was not blocked, a thread is in one place at a time and a
\* donated slice is not a fresh one, over every step of every processor.
THEOREM DispatchTurnsAreKept == Spec => TurnsAreKept
  <1>1. TurnInv /\ [Next]_vars =>
          [\A k \in Queues :
             \A t \in Queued(queue[k]), u \in Queued(queue[k]') :
               LET At(q, x) == CHOOSE i \in DOMAIN q : q[i].tid = x
                   old == queue[k]
                   new == queue[k]'
               IN  t # u /\ t \in Queued(new) =>
                     \/ new[At(new, t)].deadline > new[At(new, u)].deadline
                     \/ At(new, t) < At(new, u)
                     \/ u \in Queued(old) /\ At(old, u) < At(old, t)]_queue
    BY StepKeepsOrder, StepOvertakesNobody
  <1> QED
    BY <1>1, TurnsInit, TurnsStep, TurnsHold, PTL DEF Spec, TurnsAreKept, NobodyOvertaken

-----------------------------------------------------------------------------
(* Descriptor tables *)

\* A gate that is present carries the address of its vector's handler in its
\* three fields, and only that of #BP may be called by user code.
GatesInv ==
    /\ gates = [v \in Vectors |-> gates[v]]
    /\ \A v \in Vectors :
           gates[v].present =>
               \E kind \in {"Interrupt", "Trap"}, dpl \in {0, 3}, i \in {0, 1} :
                   /\ gates[v] = Gate(HandlerOf[v], kind, dpl, i)
                   /\ dpl = 3 => v = Breakpoint

\* The table that was asked for missing vectors and had none keeps #DF and #GP.
CheckedInv == checked => gates[DoubleFault].present /\ gates[GeneralProtection].present

\* The GDT is the one that build pushed as soon as there is a layout.
LayoutInv ==
    layout # NoLayout =>
        /\ gdt = GdtEntries
        /\ layout = [kernelCode |-> Selector(1, 0), kernelData |-> Selector(2, 0),
                     userData |-> Selector(3, 3), userCode |-> Selector(4, 3),
                     tss |-> Selector(5, 0), sysretBase |-> SysretBase]

TablesInv == GatesInv /\ CheckedInv /\ LayoutInv /\ UserReachesOnlyBreakpoint

\* The three fields of a gate hold the address: low word, middle word, the rest.
LEMMA WordsOf ==
    ASSUME NEW W \in Nat \ {0, 1}, NEW a \in Nat
    PROVE  (a % W) + W * ((a \div W) % W) + W * W * (a \div (W * W)) = a
  <1> DEFINE b == a \div W
             c == b \div W
  <1>1. /\ b \in Nat /\ a % W \in Nat /\ a = W * b + (a % W)
        OBVIOUS
  <1>2. /\ c \in Nat /\ b % W \in Nat /\ b = W * c + (b % W)
        BY <1>1
  <1>3. a % W <= W - 1 /\ b % W <= W - 1
        BY <1>1
  <1>4. a = W * W * c + (W * (b % W) + (a % W))
        <2> HIDE DEF b, c
        <2>1. W * b = W * (W * c) + W * (b % W)
              BY <1>2
        <2> QED BY <1>1, <1>2, <2>1
  <1>5. W * (b % W) + (a % W) \in 0 .. W * W - 1
        <2> HIDE DEF b
        <2>1. W * (b % W) <= W * (W - 1)
              <3> DEFINE e == (W - 1) - (b % W)
              <3>1. e \in Nat
                    BY <1>2, <1>3
              <3>2. W * e \in Nat
                    BY <3>1
              <3>3. W * e = W * (W - 1) - W * (b % W)
                    BY <1>2
              <3>4. W * (W - 1) \in Int /\ W * (b % W) \in Int
                    BY <1>2
              <3> QED BY <3>2, <3>3, <3>4
        <2>2. W * (b % W) \in Nat
              BY <1>2
        <2> QED BY <1>1, <1>3, <2>1, <2>2
  <1>6. W * W \in Nat \ {0}
        OBVIOUS
  <1>7. a \div (W * W) = c
        <2> DEFINE m == W * W
                   r == W * (b % W) + (a % W)
        <2>1. \A d \in Nat \ {0}, q \in Nat : \A s \in 0 .. d - 1 : (d * q + s) \div d = q
              OBVIOUS
        <2>2. a = m * c + r /\ r \in 0 .. m - 1 /\ m \in Nat \ {0}
              BY <1>4, <1>5, <1>6
        <2> HIDE DEF m, r, b, c
        <2>3. a \div m = c
              BY <2>1, <2>2, <1>2
        <2> QED BY <2>3 DEF m
  <1> QED BY <1>4, <1>7

\* handler_address undoes new.
LEMMA HandlerAddressOfGate ==
    ASSUME NEW v \in Vectors, NEW kind, NEW dpl, NEW i
    PROVE  HandlerAddress(Gate(HandlerOf[v], kind, dpl, i)) = HandlerOf[v]
  <1>1. HandlerOf[v] \in Nat
        BY CpuTablesAssumption
  <1> QED BY <1>1, WordsOf, CpuTablesAssumption DEF HandlerAddress, Gate

\* No gate is present at first.
LEMMA TablesInitInv == TablesInit => TablesInv
  BY CpuTablesAssumption
  DEF TablesInit, TablesInv, GatesInv, CheckedInv, LayoutInv, UserReachesOnlyBreakpoint,
      Missing, NoEvent, DoubleFault, GeneralProtection

\* Putting a gate for its own handler keeps the gates as they should be.
LEMMA InstallKeeps ==
    ASSUME TablesInv, NEW v \in Vectors, NEW kind \in {"Interrupt", "Trap"},
           NEW dpl \in {0, 3}, NEW i \in {0, 1}, dpl = 3 => v = Breakpoint,
           Install(v, Gate(HandlerOf[v], kind, dpl, i))
    PROVE  TablesInv'
  <1> DEFINE g == Gate(HandlerOf[v], kind, dpl, i)
  <1>1. /\ gates' = [gates EXCEPT ![v] = g]
        /\ UNCHANGED <<gdt, layout, checked, event>>
        BY DEF Install
  <1>2. g.present
        BY DEF Gate
  <1>3. /\ gates' = [w \in Vectors |-> gates'[w]]
        /\ \A w \in Vectors : gates'[w] = IF w = v THEN g ELSE gates[w]
        BY <1>1 DEF TablesInv, GatesInv
  <1>4. GatesInv'
        BY <1>3 DEF TablesInv, GatesInv
  <1>5. CheckedInv'
        BY <1>1, <1>2, <1>3, CpuTablesAssumption
        DEF TablesInv, CheckedInv, DoubleFault, GeneralProtection
  <1> QED BY <1>1, <1>4, <1>5 DEF TablesInv, LayoutInv, UserReachesOnlyBreakpoint

\* An event is handled by its own handler, or by that of the fault that its
\* delivery raised.
LEMMA DeliverKeeps ==
    ASSUME TablesInv, NEW v \in Vectors, NEW source \in {"user", "cpu"},
           NEW stk \in {"good", "overflowed"}, Deliver(v, source, stk)
    PROVE  TablesInv' /\ (checked /\ DoubleFaultHasStack => event'.outcome = "handled")
  <1> DEFINE second == Second(v, source, stk)
             ran == IF Enters(v, source, stk) THEN v
                    ELSE IF Enters(second, "cpu", stk) THEN second
                    ELSE IF Enters(DoubleFault, "cpu", stk) THEN DoubleFault
                    ELSE -1
  <1>1. /\ event' = [vector |-> v, source |-> source, stack |-> stk,
                     outcome |-> IF ran = -1 THEN "triple fault" ELSE "handled",
                     ran |-> IF ran = -1 THEN 0 ELSE HandlerAddress(gates[ran])]
        /\ UNCHANGED <<gdt, layout, ist, gates, checked>>
        BY DEF Deliver
  <1>2. second \in {DoubleFault, GeneralProtection}
        BY DEF Second
  <1>3. {DoubleFault, GeneralProtection} \subseteq Vectors /\ -1 \notin Vectors
        BY CpuTablesAssumption DEF DoubleFault, GeneralProtection
  <1>4. \A w \in Vectors : gates[w].present => HandlerAddress(gates[w]) = HandlerOf[w]
        BY HandlerAddressOfGate DEF TablesInv, GatesInv
  <1>5. \A w \in Vectors : gates[w].present /\ gates[w].dpl = 3 => w = Breakpoint
        BY DEF TablesInv, GatesInv, Gate
  <1>6. ran # -1 => /\ ran \in Vectors /\ gates[ran].present
                    /\ \/ ran \in {DoubleFault, GeneralProtection}
                       \/ ran = v /\ (source = "user" => v = Breakpoint)
        BY <1>2, <1>3, <1>5 DEF Enters
  <1>7. UserReachesOnlyBreakpoint'
        <2> HIDE DEF ran
        <2> SUFFICES ASSUME event'.outcome = "handled"
                     PROVE  \/ event'.ran \in {HandlerOf[GeneralProtection],
                                               HandlerOf[DoubleFault]}
                            \/ /\ event'.ran = HandlerOf[event'.vector]
                               /\ event'.source = "user" => event'.vector = Breakpoint
              BY DEF UserReachesOnlyBreakpoint
        <2>1. ran # -1
              BY <1>1
        <2>2. event'.ran = HandlerOf[ran]
              BY <2>1, <1>1, <1>4, <1>6
        <2> QED BY <2>1, <2>2, <1>1, <1>6
  <1>8. ASSUME checked, DoubleFaultHasStack PROVE event'.outcome = "handled"
        <2>1. Enters(DoubleFault, "cpu", stk)
              BY <1>8 DEF TablesInv, CheckedInv, DoubleFaultHasStack, Enters, StackFor
        <2>2. ran # -1
              BY <2>1, <1>2, <1>3
        <2> QED BY <1>1, <2>2
  <1> QED BY <1>1, <1>7, <1>8 DEF TablesInv, GatesInv, CheckedInv, LayoutInv

\* Every step keeps the invariant.
LEMMA TablesStep == ASSUME TablesInv, [TablesNext]_tableVars PROVE TablesInv'
  <1>1. CASE BuildGdt
        BY <1>1 DEF BuildGdt, TablesInv, GatesInv, CheckedInv, LayoutInv,
                    UserReachesOnlyBreakpoint
  <1>2. CASE Check
        <2>1. UNCHANGED <<gdt, layout, gates, event>>
              BY <1>2 DEF Check
        <2>2. gates[DoubleFault].present /\ gates[GeneralProtection].present
              BY <1>2, CpuTablesAssumption
              DEF Check, MissingExceptionVectors, Reserved, DoubleFault, GeneralProtection
        <2> QED BY <2>1, <2>2 DEF TablesInv, GatesInv, CheckedInv, LayoutInv,
                                  UserReachesOnlyBreakpoint
  <1>3. CASE \E i \in 1 .. 1, top \in Stacks : SetIst(i, top)
        BY <1>3 DEF SetIst, TablesInv, GatesInv, CheckedInv, LayoutInv,
                    UserReachesOnlyBreakpoint
  <1>4. ASSUME NEW v \in Vectors, NEW i \in {0, 1}, SetHandler(v, i) PROVE TablesInv'
        BY <1>4, InstallKeeps DEF SetHandler
  <1>5. ASSUME NEW v \in Vectors, SetUserInvokable(v) PROVE TablesInv'
        BY <1>5, InstallKeeps DEF SetUserInvokable
  <1>6. ASSUME NEW v \in Vectors, SetDeviceHandler(v) PROVE TablesInv'
        BY <1>6, <1>4 DEF SetDeviceHandler
  <1>7. ASSUME NEW v \in Vectors, NEW source \in {"user", "cpu"},
               NEW stk \in {"good", "overflowed"}, Deliver(v, source, stk)
        PROVE  TablesInv'
        BY <1>7, DeliverKeeps
  <1>8. CASE UNCHANGED tableVars
        BY <1>8 DEF tableVars, TablesInv, GatesInv, CheckedInv, LayoutInv,
                    UserReachesOnlyBreakpoint
  <1> QED BY <1>1, <1>2, <1>3, <1>4, <1>5, <1>6, <1>7, <1>8 DEF TablesNext

\* SYSRET's selectors name the entries that build pushed.
LEMMA LayoutIsUsable == LayoutInv => SysretLoadsUserSegments
  <1> SUFFICES ASSUME LayoutInv, layout # NoLayout PROVE SysretLoadsUserSegments
        BY DEF SysretLoadsUserSegments
  <1>1. \A n \in 0 .. 6 : Descriptor(8 * n) = GdtEntries[n + 1]
        <2> SUFFICES ASSUME NEW n \in 0 .. 6 PROVE Descriptor(8 * n) = GdtEntries[n + 1]
              OBVIOUS
        <2>1. Offset(8 * n) \div 8 + 1 = n + 1
              BY DEF Offset
        <2> QED BY <2>1 DEF Descriptor, LayoutInv
  <1>2. /\ layout.sysretBase + 8 = 8 * 3 /\ layout.sysretBase + 16 = 8 * 4
        /\ layout.kernelCode = 8 * 1 /\ layout.tss = 8 * 5 /\ layout.tss + 8 = 8 * 6
        BY DEF LayoutInv, Selector, SysretBase
  <1>3. /\ GdtEntries[4] = Segment(3, FALSE) /\ GdtEntries[5] = Segment(3, TRUE)
        /\ GdtEntries[2] = Segment(0, TRUE)
        /\ GdtEntries[6] = TssLow /\ GdtEntries[7] = TssHigh
        BY DEF GdtEntries
  <1>4. /\ Descriptor(8 * 3) = GdtEntries[4] /\ Descriptor(8 * 4) = GdtEntries[5]
        /\ Descriptor(8 * 1) = GdtEntries[2]
        /\ Descriptor(8 * 5) = GdtEntries[6] /\ Descriptor(8 * 6) = GdtEntries[7]
        <2>1. Descriptor(8 * 3) = GdtEntries[3 + 1] /\ Descriptor(8 * 4) = GdtEntries[4 + 1]
              BY <1>1
        <2>2. Descriptor(8 * 1) = GdtEntries[1 + 1]
              BY <1>1
        <2>3. Descriptor(8 * 5) = GdtEntries[5 + 1] /\ Descriptor(8 * 6) = GdtEntries[6 + 1]
              BY <1>1
        <2> QED BY <2>1, <2>2, <2>3
  <1> QED BY <1>2, <1>3, <1>4 DEF SysretLoadsUserSegments

\* gdt.rs and idt.rs for any vectors, handlers and width of a word: user code
\* enters at the breakpoint handler and no other, and leaves into ring 3 segments.
THEOREM CpuTablesPrivilegesHold == TablesSpec => []PrivilegesHold
  <1>1. TablesInv => PrivilegesHold
        BY LayoutIsUsable DEF TablesInv, PrivilegesHold
  <1> QED BY <1>1, TablesInitInv, TablesStep, PTL DEF TablesSpec

\* idt.rs:280-282 for any vectors and stacks: once nothing is missing and #DF has a
\* stack of its own, no event resets the machine.
THEOREM CpuTablesNoTripleFault == TablesSpec => NoTripleFault
  <1>1. ASSUME TablesInv, [TablesNext]_tableVars
        PROVE  [checked /\ DoubleFaultHasStack => event'.outcome = "handled"]_event
        <2> SUFFICES ASSUME event' # event
                     PROVE  checked /\ DoubleFaultHasStack => event'.outcome = "handled"
              OBVIOUS
        <2>1. PICK v \in Vectors, source \in {"user", "cpu"}, stk \in {"good", "overflowed"} :
                  Deliver(v, source, stk)
              BY <1>1 DEF TablesNext, tableVars, BuildGdt, Check, SetIst, SetHandler,
                          SetUserInvokable, SetDeviceHandler, Install
        <2> QED BY <1>1, <2>1, DeliverKeeps
  <1> QED BY <1>1, TablesInitInv, TablesStep, PTL DEF TablesSpec, NoTripleFault

-----------------------------------------------------------------------------
(* Context switch *)

\* What may lie on a stack or in a register.
Quadwords ==
    {Quadword(v) : v \in Values} \cup {ZeroWord, Quadword("frame"), Trampoline, CallSite}
        \cup {Entry(t) : t \in Contexts} \cup {Arg(t) : t \in Contexts}

RegisterFiles == [Registers -> Quadwords]

\* A thread that is not running has the frame it was made with, or what its
\* call of the switch left: return address and registers on top of its stack.
Parked(t) ==
    \/ stack[t] = BootstrapFrame(t)
    \/ \E r \in RegisterFiles, a \in Seq(Quadwords) :
           kept[t] = <<r, a>> /\ stack[t] = a \o <<CallSite>> \o r

SwitchTypeOK ==
    /\ stack \in [Contexts -> Seq(Quadwords)]
    /\ cr3Of = Space /\ rsp \in Contexts /\ to \in Contexts
    /\ regs \in RegisterFiles
    /\ at \in {"body", "saved", "space", "trampoline"}
    /\ kept = [t \in Contexts |-> kept[t]]

\* Between the save and the restore nobody runs, and CR3 is that of the thread
\* that comes in; a thread that runs has its own, and everybody else is parked.
SwitchInv ==
    /\ SwitchTypeOK
    /\ at \in {"saved", "space"} => \A t \in Contexts : Parked(t)
    /\ at \in {"body", "trampoline"} =>
           cr3 = Space[rsp] /\ \A t \in Contexts \ {rsp} : Parked(t)
    /\ at = "space" => cr3 = Space[to]
    /\ at = "trampoline" => regs[R12] = Entry(rsp) /\ regs[R13] = Arg(rsp)

\* The registers, as a block of memory.
LEMMA SixAreASequence ==
    ASSUME NEW Q
    PROVE  /\ \A r \in [1 .. 6 -> Q] : r \in Seq(Q) /\ Len(r) = 6
           /\ \A r \in Seq(Q) : Len(r) = 6 => r \in [1 .. 6 -> Q]
  <1>1. \A r \in [1 .. 6 -> Q] : r \in Seq(Q)
        BY SeqDef
  <1>2. \A r \in [1 .. 6 -> Q] : Len(r) = 6
        BY <1>1, LenProperties
  <1>3. \A r \in Seq(Q) : Len(r) = 6 => r \in [1 .. 6 -> Q]
        BY LenProperties
  <1> QED BY <1>1, <1>2, <1>3

\* A part of a sequence, element by element.
LEMMA SubSeqFacts ==
    ASSUME NEW Q, NEW s \in Seq(Q), NEW k \in 0 .. Len(s), NEW m \in 1 .. k
    PROVE  /\ SubSeq(s, m, k) \in Seq(Q) /\ Len(SubSeq(s, m, k)) = (k - m) + 1
           /\ \A i \in 1 .. (k - m) + 1 : SubSeq(s, m, k)[i] = s[(m + i) - 1]
  <1>1. Len(s) \in Nat
        BY LenProperties
  <1>2. \A i \in m .. k : s[i] \in Q
        <2> SUFFICES ASSUME NEW i \in m .. k PROVE s[i] \in Q
              OBVIOUS
        <2>1. i \in 1 .. Len(s)
              BY <1>1
        <2> QED BY <2>1, ElementOfSeq
  <1>3. m \in Int /\ k \in Int /\ m <= k
        BY <1>1
  <1> QED BY <1>2, <1>3, SubSeqProperties

\* Of a stack: under the six topmost registers r there is the call site, and
\* under that a.
Pops(s, a, r) ==
    /\ s[Len(s) - 6] = CallSite
    /\ SubSeq(s, Len(s) - 5, Len(s)) = r /\ SubSeq(s, 1, Len(s) - 7) = a

\* The pops of the restore undo the pushes of the save.
LEMMA PopsUndoPushes ==
    ASSUME NEW a \in Seq(Quadwords), NEW r \in RegisterFiles,
           NEW s \in Seq(Quadwords), s = a \o <<CallSite>> \o r
    PROVE  Pops(s, a, r)
  <1> DEFINE Q == Quadwords
             c == CallSite
             b == a \o <<c>>
             n == Len(a)
  <1>0. c \in Q /\ r \in [1 .. 6 -> Q] /\ s = b \o r
        BY DEF Quadwords, RegisterFiles, Registers
  <1> HIDE DEF Q, c
  <1>1. r \in Seq(Q) /\ Len(r) = 6 /\ n \in Nat
        BY <1>0, SixAreASequence, LenProperties DEF Q
  <1>2. <<c>> \in Seq(Q) /\ Len(<<c>>) = 1 /\ <<c>>[1] = c
        BY <1>0
  <1>3. /\ b \in Seq(Q) /\ Len(b) = n + 1 /\ b[n + 1] = c
        /\ \A i \in 1 .. n : b[i] = a[i]
        <2>0. a \in Seq(Q)
              BY DEF Q
        <2>1. /\ b \in Seq(Q) /\ Len(b) = n + Len(<<c>>)
              /\ \A i \in 1 .. n + Len(<<c>>) : b[i] = IF i <= n THEN a[i] ELSE <<c>>[i - n]
              BY <2>0, <1>2, ConcatProperties
        <2>2. (n + 1) - n = 1 /\ ~(n + 1 <= n)
              BY <1>1
        <2>3. \A i \in 1 .. n + 1 : b[i] = IF i <= n THEN a[i] ELSE <<c>>[i - n]
              BY <2>1, <1>2
        <2>4. b[n + 1] = c
              BY <2>2, <2>3, <1>1, <1>2
        <2> QED BY <2>1, <2>3, <2>4, <1>1, <1>2
  <1> HIDE DEF b
  <1>4. /\ s \in Seq(Q) /\ Len(s) = n + 7
        /\ \A i \in 1 .. n + 7 : s[i] = IF i <= n + 1 THEN b[i] ELSE r[i - (n + 1)]
        <2>1. /\ b \o r \in Seq(Q) /\ Len(b \o r) = Len(b) + Len(r)
              /\ \A i \in 1 .. Len(b) + Len(r) :
                     (b \o r)[i] = IF i <= Len(b) THEN b[i] ELSE r[i - Len(b)]
              BY <1>1, <1>3, ConcatProperties
        <2>2. Len(b) + Len(r) = n + 7 /\ Len(b) = n + 1
              BY <1>1, <1>3
        <2> QED BY <2>1, <2>2, <1>0
  <1>5. s[Len(s) - 6] = c
        <2>1. Len(s) - 6 = n + 1 /\ n + 1 \in 1 .. n + 7
              BY <1>1, <1>4
        <2> QED BY <2>1, <1>3, <1>4
  <1>6. \A i \in 1 .. n + 7 : s[i] \in Q
        BY <1>4, ElementOfSeq DEF Q
  <1>7. SubSeq(s, Len(s) - 5, Len(s)) = r
        <2> DEFINE m == n + 2
                   k == n + 7
                   u == SubSeq(s, m, k)
        <2>0. m \in 1 .. k /\ k = Len(s) /\ k \in 0 .. Len(s)
              BY <1>1, <1>4
        <2>1. u \in Seq(Q) /\ Len(u) = (k - m) + 1
              <3> HIDE DEF m, k
              <3> QED BY <2>0, <1>4, SubSeqFacts
        <2>2. \A i \in 1 .. (k - m) + 1 : u[i] = s[(m + i) - 1]
              <3> HIDE DEF m, k
              <3> QED BY <2>0, <1>4, SubSeqFacts
        <2>3. Len(u) = 6
              BY <2>1, <1>1
        <2> HIDE DEF u
        <2>4. \A i \in 1 .. 6 : u[i] = r[i]
              <3> SUFFICES ASSUME NEW i \in 1 .. 6 PROVE u[i] = r[i]
                    OBVIOUS
              <3> DEFINE j == (m + i) - 1
              <3>1. /\ j \in 1 .. n + 7 /\ ~(j <= n + 1) /\ j - (n + 1) = i
                    /\ i \in 1 .. (k - m) + 1
                    BY <1>1
              <3>2. u[i] = s[j]
                    BY <2>2, <3>1
              <3> HIDE DEF j
              <3> QED BY <1>4, <3>1, <3>2
        <2>5. u = r
              BY <2>1, <2>3, <2>4, <1>1, SeqEqual
        <2>6. Len(s) - 5 = m /\ Len(s) = k
              BY <1>1, <1>4
        <2> QED BY <2>5, <2>6, <1>4 DEF u
  <1>8. SubSeq(s, 1, Len(s) - 7) = a
        <2> DEFINE u == SubSeq(s, 1, n)
        <2>1. u \in Seq(Q) /\ Len(u) = IF 1 <= n THEN (n - 1) + 1 ELSE 0
              BY <1>1, <1>6, SubSeqProperties
        <2>2. \A i \in 1 .. (n - 1) + 1 : u[i] = s[(1 + i) - 1]
              BY <1>1, <1>6, SubSeqProperties
        <2>3. Len(u) = n
              BY <2>1, <1>1
        <2> HIDE DEF u
        <2>4. \A i \in 1 .. n : u[i] = a[i]
              <3> SUFFICES ASSUME NEW i \in 1 .. n PROVE u[i] = a[i]
                    OBVIOUS
              <3>1. /\ (1 + i) - 1 = i /\ i \in 1 .. (n - 1) + 1
                    /\ i \in 1 .. n + 7 /\ i <= n + 1
                    BY <1>1
              <3> QED BY <1>3, <1>4, <2>2, <3>1
        <2>5. u = a
              BY <2>1, <2>3, <2>4, SeqEqual DEF Q
        <2>6. Len(s) - 7 = n
              BY <1>1, <1>4
        <2> QED BY <2>5, <2>6 DEF u
  <1> QED BY <1>5, <1>7, <1>8 DEF c, Pops

\* bootstrap pushes quadwords.
LEMMA FrameType == \A t \in Contexts : BootstrapFrame(t) \in Seq(Quadwords)
  BY DEF BootstrapFrame, Quadwords

\* What the restore finds on the stack of a parked thread.
LEMMA RestoresParked ==
    ASSUME SwitchTypeOK, NEW t \in Contexts, Parked(t)
    PROVE  LET s == stack[t]
               n == Len(s)
               r == SubSeq(s, n - 5, n)
               a == SubSeq(s, 1, n - 7)
           IN  /\ r \in RegisterFiles /\ a \in Seq(Quadwords)
               /\ s[n - 6] = Trampoline => r[R12] = Entry(t) /\ r[R13] = Arg(t)
               /\ s[n - 6] # Trampoline => <<r, a>> = kept[t]
  <1> DEFINE s == stack[t]
             n == Len(s)
             r == SubSeq(s, n - 5, n)
             a == SubSeq(s, 1, n - 7)
  <1>1. CASE s = BootstrapFrame(t)
        <2>1. s = <<ZeroWord, Trampoline, ZeroWord, ZeroWord, Entry(t), Arg(t), ZeroWord, ZeroWord>> /\ n = 8
              BY <1>1 DEF BootstrapFrame
        <2>2. s \in Seq(Quadwords)
              BY DEF SwitchTypeOK
        <2>3. r = SubSeq(s, 3, 8) /\ a = SubSeq(s, 1, 1) /\ s[n - 6] = s[2]
              BY <2>1
        <2>4. /\ r \in Seq(Quadwords) /\ Len(r) = 6
              /\ r[3] = s[5] /\ r[4] = s[6]
              BY <2>1, <2>2, <2>3
        <2>5. a \in Seq(Quadwords)
              BY <2>1, <2>2, <2>3
        <2>6. r \in RegisterFiles
              <3> HIDE DEF r
              <3> QED BY <2>4, SixAreASequence DEF RegisterFiles, Registers
        <2>7. s[2] = Trampoline /\ s[5] = Entry(t) /\ s[6] = Arg(t)
              BY <2>1
        <2> HIDE DEF r, a, s, n
        <2> QED BY <2>3, <2>4, <2>5, <2>6, <2>7 DEF R12, R13, r, a, s, n
  <1>2. CASE \E r0 \in RegisterFiles, a0 \in Seq(Quadwords) :
                 kept[t] = <<r0, a0>> /\ s = a0 \o <<CallSite>> \o r0
        <2>1. PICK r0 \in RegisterFiles, a0 \in Seq(Quadwords) :
                  kept[t] = <<r0, a0>> /\ s = a0 \o <<CallSite>> \o r0
              BY <1>2
        <2>3. s[n - 6] = CallSite /\ r = r0 /\ a = a0
              <3>1. s \in Seq(Quadwords)
                    BY DEF SwitchTypeOK
              <3>2. s = a0 \o <<CallSite>> \o r0
                    BY <2>1
              <3> HIDE DEF s
              <3>3. Pops(s, a0, r0)
                    BY <3>1, <3>2, PopsUndoPushes
              <3> QED BY <3>3 DEF Pops
        <2>4. CallSite # Trampoline
              BY DEF CallSite, Trampoline
        <2> HIDE DEF r, a, s, n
        <2> QED BY <2>1, <2>3, <2>4 DEF r, a, s, n
  <1> QED BY <1>1, <1>2 DEF Parked

\* First runs and everybody else has a bootstrap frame.
LEMMA SwitchInitInv == SwitchInit => SwitchInv
  <1> SUFFICES ASSUME SwitchInit PROVE SwitchInv
        OBVIOUS
  <1>1. ZeroWord \in Quadwords
        BY DEF Quadwords
  <1>2. <<ZeroWord>> \in Seq(Quadwords)
        BY <1>1
  <1>3. stack \in [Contexts -> Seq(Quadwords)]
        BY <1>2, FrameType DEF SwitchInit
  <1>4. SwitchTypeOK
        BY <1>1, <1>3, ContextSwitchAssumption DEF SwitchInit, SwitchTypeOK, RegisterFiles
  <1>5. \A t \in Contexts \ {rsp} : Parked(t)
        BY DEF SwitchInit, Parked
  <1> QED BY <1>4, <1>5 DEF SwitchInit, SwitchInv

\* A step that leaves the stack and the record of a thread alone leaves it parked.
LEMMA StaysParked ==
    ASSUME NEW t \in Contexts, Parked(t), stack'[t] = stack[t], kept'[t] = kept[t]
    PROVE  Parked(t)'
  BY DEF Parked, BootstrapFrame

\* The restore gives the processor to a parked thread.
LEMMA RestoreStep ==
    ASSUME SwitchInv, SwitchRestores
    PROVE  /\ SwitchInv'
           /\ at' = "body" =>
                 <<regs', stack'[rsp']>> = kept[rsp'] /\ cr3' = Space[rsp'] /\ interrupts'
  <1> DEFINE s == stack[to]
             n == Len(s)
             r == SubSeq(s, n - 5, n)
             a == SubSeq(s, 1, n - 7)
  <1>1. /\ at = "space" /\ rsp' = to /\ regs' = r
        /\ stack' = [stack EXCEPT ![to] = a]
        /\ UNCHANGED <<cr3Of, cr3, to, began, kept>>
        /\ s[n - 6] = Trampoline => at' = "trampoline"
        /\ s[n - 6] # Trampoline => at' = "body" /\ interrupts' = TRUE
        BY DEF SwitchRestores
  <1>2. /\ r \in RegisterFiles /\ a \in Seq(Quadwords)
        /\ s[n - 6] = Trampoline => r[R12] = Entry(to) /\ r[R13] = Arg(to)
        /\ s[n - 6] # Trampoline => <<r, a>> = kept[to]
        BY <1>1, RestoresParked DEF SwitchInv, SwitchTypeOK
  <1> HIDE DEF r, a
  <1>3. /\ stack' \in [Contexts -> Seq(Quadwords)] /\ stack'[to] = a
        /\ \A t \in Contexts \ {to} : stack'[t] = stack[t]
        BY <1>1, <1>2 DEF SwitchInv, SwitchTypeOK
  <1>4. SwitchTypeOK'
        BY <1>1, <1>2, <1>3 DEF SwitchInv, SwitchTypeOK
  <1>5. \A t \in Contexts \ {to} : Parked(t)'
        BY <1>1, <1>3, StaysParked DEF SwitchInv
  <1>6. cr3' = Space[to]
        BY <1>1 DEF SwitchInv
  <1>7. CASE s[n - 6] = Trampoline
        <2>1. at' = "trampoline" /\ regs'[R12] = Entry(rsp') /\ regs'[R13] = Arg(rsp')
              BY <1>1, <1>2, <1>7
        <2> QED BY <2>1, <1>1, <1>4, <1>5, <1>6 DEF SwitchInv, Entry, Arg
  <1>8. CASE s[n - 6] # Trampoline
        <2>1. at' = "body" /\ interrupts' = TRUE /\ <<regs', stack'[rsp']>> = kept[rsp']
              BY <1>1, <1>2, <1>3, <1>8
        <2> QED BY <2>1, <1>1, <1>4, <1>5, <1>6 DEF SwitchInv
  <1> QED BY <1>7, <1>8

\* Every step keeps the invariant.
LEMMA SwitchStep == ASSUME SwitchInv, [SwitchNext]_switchVars PROVE SwitchInv'
  <1>1. ASSUME NEW v \in Values, Work(v) PROVE SwitchInv'
        <2>1. regs' \in RegisterFiles
              BY <1>1 DEF Work, RegisterFiles, Quadwords
        <2>2. \A t \in Contexts : Parked(t) => Parked(t)'
              BY <1>1, StaysParked DEF Work
        <2> QED BY <1>1, <2>1, <2>2 DEF SwitchInv, SwitchTypeOK, Work
  <1>2. CASE Call
        <2>1. Append(stack[rsp], Quadword("frame")) \in Seq(Quadwords)
              BY DEF SwitchInv, SwitchTypeOK, Quadwords
        <2>2. /\ stack' \in [Contexts -> Seq(Quadwords)]
              /\ \A t \in Contexts \ {rsp} : stack'[t] = stack[t]
              BY <1>2, <2>1 DEF Call, SwitchInv, SwitchTypeOK
        <2>3. \A t \in Contexts \ {rsp} : Parked(t) => Parked(t)'
              BY <1>2, <2>2, StaysParked DEF Call
        <2> QED BY <1>2, <2>2, <2>3 DEF SwitchInv, SwitchTypeOK, Call
  <1>3. ASSUME NEW t \in Contexts, SwitchSaves(t) PROVE SwitchInv'
        <2> DEFINE a == stack[rsp]
        <2>1. a \in Seq(Quadwords) /\ CallSite \in Quadwords /\ regs \in Seq(Quadwords)
              <3>1. regs \in [1 .. 6 -> Quadwords]
                    BY DEF SwitchInv, SwitchTypeOK, RegisterFiles, Registers
              <3>2. regs \in Seq(Quadwords)
                    BY <3>1, SixAreASequence
              <3>3. CallSite \in Quadwords
                    BY DEF Quadwords
              <3> QED BY <3>2, <3>3 DEF SwitchInv, SwitchTypeOK
        <2>2. a \o <<CallSite>> \o regs \in Seq(Quadwords)
              BY <2>1
        <2>3. /\ stack' = [stack EXCEPT ![rsp] = a \o <<CallSite>> \o regs]
              /\ kept' = [kept EXCEPT ![rsp] = <<regs, a>>]
              /\ to' = t /\ at = "body" /\ at' = "saved"
              /\ UNCHANGED <<cr3Of, rsp, regs, cr3>>
              BY <1>3 DEF SwitchSaves
        <2>4. SwitchTypeOK'
              BY <2>2, <2>3 DEF SwitchInv, SwitchTypeOK
        <2>5. \A u \in Contexts \ {rsp} : Parked(u)'
              BY <2>3, StaysParked DEF SwitchInv, SwitchTypeOK
        <2>6. kept'[rsp] = <<regs, a>> /\ stack'[rsp] = a \o <<CallSite>> \o regs
              BY <2>3 DEF SwitchInv, SwitchTypeOK
        <2>7. Parked(rsp)'
              BY <2>1, <2>3, <2>6 DEF SwitchInv, SwitchTypeOK, Parked
        <2> QED BY <2>3, <2>4, <2>5, <2>7 DEF SwitchInv
  <1>4. CASE SwitchSpace
        <2>1. \A t \in Contexts : Parked(t) => Parked(t)'
              BY <1>4, StaysParked DEF SwitchSpace
        <2> QED BY <1>4, <2>1 DEF SwitchInv, SwitchTypeOK, SwitchSpace
  <1>5. CASE SwitchRestores
        BY <1>5, RestoreStep
  <1>6. CASE TrampolineCalls
        <2>1. Append(stack[rsp], regs[R12]) \in Seq(Quadwords)
              BY DEF SwitchInv, SwitchTypeOK, RegisterFiles, Registers, R12
        <2>2. SwitchTypeOK'
              BY <1>6, <2>1 DEF TrampolineCalls, SwitchInv, SwitchTypeOK
        <2>3. \A t \in Contexts \ {rsp} : Parked(t) => Parked(t)'
              BY <1>6, StaysParked DEF TrampolineCalls, SwitchInv, SwitchTypeOK
        <2> QED BY <1>6, <2>2, <2>3 DEF SwitchInv, TrampolineCalls
  <1>7. CASE UNCHANGED switchVars
        <2>1. \A t \in Contexts : Parked(t) => Parked(t)'
              BY <1>7, StaysParked DEF switchVars
        <2> QED BY <1>7, <2>1 DEF switchVars, SwitchInv, SwitchTypeOK
  <1> QED BY <1>1, <1>2, <1>3, <1>4, <1>5, <1>6, <1>7 DEF SwitchNext

\* context.S for any threads, address spaces, register contents and stack depths: a
\* thread resumes with what it had when it called the switch, a new one begins at
\* its entry point with its argument, each in its own address space.
THEOREM SwitchResumesWhereItLeft == SwitchSpec => ResumesWhereItLeft
  <1> DEFINE Resumes ==
                 /\ at = "space" /\ at' = "body" =>
                      <<regs', stack'[rsp']>> = kept[rsp'] /\ cr3' = Space[rsp'] /\ interrupts'
                 /\ at = "trampoline" /\ at' = "body" =>
                      kept'[rsp] = <<Entry(rsp), Arg(rsp)>> /\ cr3 = Space[rsp]
  <1>1. ASSUME SwitchInv, [SwitchNext]_switchVars PROVE [Resumes]_at
        <2>1. CASE SwitchRestores
              <3>1. at = "space"
                    BY <2>1 DEF SwitchRestores
              <3> QED BY <1>1, <2>1, <3>1, RestoreStep
        <2>2. CASE TrampolineCalls
              BY <1>1, <2>2 DEF TrampolineCalls, SwitchInv, SwitchTypeOK
        <2>3. CASE \E t \in Contexts : SwitchSaves(t)
              BY <2>3 DEF SwitchSaves
        <2>4. CASE SwitchSpace
              BY <2>4 DEF SwitchSpace
        <2>5. CASE (\E v \in Values : Work(v)) \/ Call \/ UNCHANGED switchVars
              BY <2>5 DEF Work, Call, switchVars
        <2> QED BY <1>1, <2>1, <2>2, <2>3, <2>4, <2>5 DEF SwitchNext
  <1> QED BY <1>1, SwitchInitInv, SwitchStep, PTL DEF SwitchSpec, ResumesWhereItLeft
=============================================================================
