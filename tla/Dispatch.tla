------------------------------ MODULE Dispatch ------------------------------
(***************************************************************************)
(* The run queues of a node and pick_next (kernel/spectre-kernel/src/      *)
(* sched.rs), on several processors, beside a Game Mode session that       *)
(* begins and ends (gamemode.rs:119-123, 166-168).                         *)
(*                                                                         *)
(* pick_next holds no lock over its whole run: it looks at the real-time   *)
(* queue, then reads ACTIVE, ISOLATED_MASK and OWNER_PID one after the     *)
(* other, then takes from the interactive or the background queue; each is *)
(* a step.  A queue is the sequence of its entries, ordered by deadline.   *)
(* A timeslice is a few units, spent one at a time.                        *)
(***************************************************************************)
EXTENDS Integers, Sequences, SequencesExt, FiniteSets

CONSTANTS
    Cpus, Isolatable,    \* the processors, and those a session may take
    Threads, Class,      \* "RealTime", "Interactive" or "Background"
    PidOf, Game, NoPid,  \* the process of a thread; the game; Pid(0)
    NoThread,
    Deadlines,           \* the virtual deadlines that a thread may get
    Capacity,            \* of the interactive queues (64)
    BgCapacity,          \* of the background queue (256)
    Slice,               \* BASE_SLICE_NS
    MaxDebt,             \* bound: no background thread falls further behind
    Called               \* the threads that calls and replies hand a processor to

ASSUME DispatchAssumption ==
    /\ Class \in [Threads -> {"RealTime", "Interactive", "Background"}]
    /\ Isolatable \subseteq Cpus /\ Isolatable # Cpus
    /\ Deadlines \in [Threads -> SUBSET Nat] /\ Capacity \in Nat \ {0} /\ BgCapacity \in Nat \ {0}
    /\ Slice \in Nat \ {0} /\ MaxDebt \in Nat
    /\ NoThread \notin Threads /\ Game # NoPid /\ Called \subseteq Threads

VARIABLES
    queue,          \* the RealTime and Interactive queues
    background,     \* the background queue
    lag,            \* lag_ns of the background threads
    slice,          \* slice_remaining
    pc, running,    \* where pick_next stands on each processor; who runs there
    owner,          \* its local `owner`
    active, mask, ownerPid,   \* the three atomics of Game Mode
    session,        \* the stores that enter or leave still has to make
    lost,           \* history: threads that pick_next took and nobody runs
    steady,         \* history: the session held since this pick_next began
    spent,          \* history: time used on a processor since its last pick
    astray          \* history: threads that run by a hand-off which met a thread
                    \* that was not blocked, or came from one of them

game == <<active, mask, ownerPid, session>>
vars == <<queue, background, lag, slice, pc, running, owner, game, lost, steady, spent,
          astray>>

Queues == {"RealTime", "Interactive"}
Queued(q) == {q[i].tid : i \in DOMAIN q}
Blocked == {t \in Threads : /\ \A c \in Cpus : running[c] # t
                            /\ \A k \in Queues : t \notin Queued(queue[k])
                            /\ t \notin Queued(background) \cup lost}

InForce(c) == active /\ c \in mask /\ ownerPid = Game

TypeOK ==
    /\ \A k \in Queues : Queued(queue[k]) \subseteq Threads /\ Len(queue[k]) <= Capacity
    /\ Queued(background) \subseteq Threads /\ Len(background) <= BgCapacity
    /\ running \in [Cpus -> Threads \cup {NoThread}]
    /\ pc \in [Cpus -> {"pick", "flag", "mask", "owner", "isolated", "interactive",
                        "background", "running"}]

Init ==
    /\ queue = [k \in Queues |-> <<>>] /\ background = <<>>
    /\ lag = [t \in Threads |-> 0] /\ slice = [t \in Threads |-> Slice]
    /\ pc = [c \in Cpus |-> "pick"] /\ running = [c \in Cpus |-> NoThread]
    /\ owner = [c \in Cpus |-> NoPid]
    /\ active = FALSE /\ mask = {} /\ ownerPid = NoPid /\ session = <<>>
    /\ lost = {} /\ steady = [c \in Cpus |-> FALSE] /\ spent = [c \in Cpus |-> 0]
    /\ astray = {}

-----------------------------------------------------------------------------
(* Queues *)

\* Mutation of Insert: partition_point(d < deadline).
Insert_BeforeEqual(q, e) ==
    LET pos == Cardinality({i \in DOMAIN q : q[i].deadline < e.deadline})
    IN  InsertAt(q, pos + 1, e)

\* InteractiveQueue::enqueue behind every entry that is not later.
Insert(q, e) ==
    LET pos == Cardinality({i \in DOMAIN q : q[i].deadline <= e.deadline})
    IN  InsertAt(q, pos + 1, e)

\* A blocked thread wakes with a fresh slice; QueueFull changes nothing.
Enqueue(t, d) ==
    /\ t \in Blocked /\ Class[t] \in Queues
    /\ Len(queue[Class[t]]) < Capacity
    /\ queue' = [queue EXCEPT ![Class[t]] = Insert(@, [tid |-> t, deadline |-> d])]
    /\ slice' = [slice EXCEPT ![t] = Slice]
    /\ astray' = astray \ {t}
    /\ UNCHANGED <<background, lag, pc, running, owner, game, lost, steady, spent>>

EnqueueBackground(t, d) ==
    /\ t \in Blocked /\ Class[t] = "Background"
    /\ Len(background) < BgCapacity
    /\ background' = Append(background, [tid |-> t, lag |-> lag[t], deadline |-> d])
    /\ slice' = [slice EXCEPT ![t] = Slice]
    /\ astray' = astray \ {t}
    /\ UNCHANGED <<queue, lag, pc, running, owner, game, lost, steady, spent>>

EevdfEligible(e) == e.lag >= 0

\* pick_eligible: the first of the earliest among the eligible.
Eligible == {i \in DOMAIN background : EevdfEligible(background[i])}
Earliest == CHOOSE i \in Eligible : \A j \in Eligible :
                \/ background[i].deadline < background[j].deadline
                \/ background[i].deadline = background[j].deadline /\ i <= j

-----------------------------------------------------------------------------
(* pick_next *)

Goto(c, p) == pc' = [pc EXCEPT ![c] = p]

\* c switches to t, which pick_next returned.
Run(c, t) == running' = [running EXCEPT ![c] = t] /\ Goto(c, "running")

\* The locals and the history of this pick are done with.
Picked(c) == /\ owner' = [owner EXCEPT ![c] = NoPid]
             /\ steady' = [steady EXCEPT ![c] = FALSE]

PickRealTime(c) ==
    /\ pc[c] = "pick"
    /\ steady' = [steady EXCEPT ![c] = InForce(c) /\ queue["RealTime"] = <<>>]
    /\ IF queue["RealTime"] # <<>>
       THEN /\ Run(c, Head(queue["RealTime"]).tid)
            /\ queue' = [queue EXCEPT !["RealTime"] = Tail(@)]
       ELSE Goto(c, "flag") /\ UNCHANGED <<queue, running>>
    /\ UNCHANGED <<background, lag, slice, owner, game, lost, spent, astray>>

LoadActive(c) ==
    /\ pc[c] = "flag" /\ Goto(c, IF active THEN "mask" ELSE "interactive")
    /\ UNCHANGED <<queue, background, lag, slice, running, owner, game, lost, steady,
                   spent, astray>>

LoadMask(c) ==
    /\ pc[c] = "mask" /\ Goto(c, IF c \in mask THEN "owner" ELSE "interactive")
    /\ UNCHANGED <<queue, background, lag, slice, running, owner, game, lost, steady,
                   spent, astray>>

LoadOwner(c) ==
    /\ pc[c] = "owner" /\ Goto(c, "isolated")
    /\ owner' = [owner EXCEPT ![c] = ownerPid]
    /\ UNCHANGED <<queue, background, lag, slice, running, game, lost, steady,
                   spent, astray>>

\* Mutation of PickIsolated: the filter is missing.
PickIsolated_Unfiltered(c) ==
    /\ pc[c] = "isolated" /\ queue["Interactive"] # <<>>
    /\ Run(c, Head(queue["Interactive"]).tid)
    /\ queue' = [queue EXCEPT !["Interactive"] = Tail(@)]
    /\ Picked(c) /\ UNCHANGED <<background, lag, slice, game, lost, spent, astray>>

\* The head of the queue is taken; if it is not the owner's it is dropped.
PickIsolated(c) ==
    /\ pc[c] = "isolated"
    /\ IF queue["Interactive"] = <<>>
       THEN Goto(c, "pick") /\ UNCHANGED <<queue, running, lost>>
       ELSE LET t == Head(queue["Interactive"]).tid
            IN  /\ queue' = [queue EXCEPT !["Interactive"] = Tail(@)]
                /\ IF PidOf[t] = owner[c]
                   THEN Run(c, t) /\ UNCHANGED lost
                   ELSE /\ lost' = lost \cup {t}
                        /\ Goto(c, "pick") /\ UNCHANGED running
    /\ Picked(c) /\ UNCHANGED <<background, lag, slice, game, spent, astray>>

\* Mutation of PickInteractive: the entry is read and left in the queue.
PickInteractive_Peeks(c) ==
    /\ pc[c] = "interactive"
    /\ IF queue["Interactive"] # <<>>
       THEN Run(c, Head(queue["Interactive"]).tid)
       ELSE Goto(c, "background") /\ UNCHANGED running
    /\ Picked(c) /\ UNCHANGED <<queue, background, lag, slice, game, lost, spent, astray>>

PickInteractive(c) ==
    /\ pc[c] = "interactive"
    /\ IF queue["Interactive"] # <<>>
       THEN /\ Run(c, Head(queue["Interactive"]).tid)
            /\ queue' = [queue EXCEPT !["Interactive"] = Tail(@)]
       ELSE Goto(c, "background") /\ UNCHANGED <<queue, running>>
    /\ Picked(c) /\ UNCHANGED <<background, lag, slice, game, lost, spent, astray>>

PickBackground(c) ==
    /\ pc[c] = "background"
    /\ IF Eligible # {}
       THEN /\ Run(c, background[Earliest].tid)
            /\ background' = RemoveAt(background, Earliest)
       ELSE Goto(c, "pick") /\ UNCHANGED <<background, running>>
    /\ UNCHANGED <<queue, lag, slice, owner, game, lost, steady, spent, astray>>

-----------------------------------------------------------------------------
(* The running thread *)

\* eevdf_update_lag: the share of what it ran, less what it ran.
EevdfUpdateLag(l, ran, weight, total) ==
    IF weight = 0 \/ total = 0 THEN l ELSE l + (ran * weight) \div total - ran

\* A unit of time passes; a background thread of half the weight pays for it.
Consume(c) ==
    LET t == running[c]
    IN  /\ pc[c] = "running" /\ slice[t] > 0
        /\ slice' = [slice EXCEPT ![t] = @ - 1]
        /\ spent' = [spent EXCEPT ![c] = IF t \in astray THEN @ ELSE @ + 1]
        /\ IF Class[t] = "Background"
           THEN /\ EevdfUpdateLag(lag[t], 1, 1, 2) >= -MaxDebt
                /\ lag' = [lag EXCEPT ![t] = EevdfUpdateLag(@, 1, 1, 2)]
           ELSE UNCHANGED lag
        /\ UNCHANGED <<queue, background, pc, running, owner, game, lost, steady, astray>>

\* block: the thread leaves the processor, which picks again.
Block(c) ==
    /\ pc[c] = "running"
    /\ running' = [running EXCEPT ![c] = NoThread] /\ Goto(c, "pick")
    /\ spent' = [spent EXCEPT ![c] = 0]
    /\ UNCHANGED <<queue, background, lag, slice, owner, game, lost, steady, astray>>

\* A thread that was handed a processor is where it should be if it was blocked
\* and the thread that handed it over was where it should be.
HandedTo(c, target) ==
    astray' = IF target \in Blocked /\ running[c] \notin astray
              THEN astray \ {target} ELSE astray \cup {target}

\* Mutation of SwitchToDonating: the target runs on a slice of its own.
SwitchToDonating_Fresh(c, target) ==
    /\ pc[c] = "running"
    /\ slice' = [slice EXCEPT ![target] = Slice]
    /\ running' = [running EXCEPT ![c] = target]
    /\ HandedTo(c, target)
    /\ UNCHANGED <<queue, background, lag, pc, owner, game, lost, steady, spent>>

\* switch_to_donating: a call goes straight to its target, on the caller's slice,
\* past every queue.  Nothing looks whether the target is blocked: a receiver
\* announces itself before it blocks (ipc.rs:191-192), and a caller on another
\* processor may come in between.  wake_donating is the way back.
SwitchToDonating(c, target) ==
    /\ pc[c] = "running"
    /\ slice' = [slice EXCEPT ![target] = slice[running[c]]]
    /\ running' = [running EXCEPT ![c] = target]
    /\ HandedTo(c, target)
    /\ UNCHANGED <<queue, background, lag, pc, owner, game, lost, steady, spent>>

-----------------------------------------------------------------------------
(* Game Mode *)

SessionBegins == /\ session = <<>> /\ ~active
                 /\ session' = <<"mask", "owner", "active">>
                 /\ UNCHANGED <<active, mask, ownerPid>>
SessionEnds == /\ session = <<>> /\ active
               /\ session' = <<"inactive", "unmask", "disown">>
               /\ UNCHANGED <<active, mask, ownerPid>>

\* The next of the stores of enter or leave.
Store(s) ==
    /\ session # <<>> /\ Head(session) = s /\ session' = Tail(session)
    /\ active' = IF s \in {"active", "inactive"} THEN s = "active" ELSE active
    /\ mask' = IF s = "mask" THEN Isolatable ELSE IF s = "unmask" THEN {} ELSE mask
    /\ ownerPid' = IF s = "owner" THEN Game ELSE IF s = "disown" THEN NoPid ELSE ownerPid

Session ==
    /\ \/ SessionBegins \/ SessionEnds
       \/ \E s \in {"mask", "owner", "active", "inactive", "unmask", "disown"} : Store(s)
    /\ steady' = [c \in Cpus |-> steady[c] /\ InForce(c)']
    /\ UNCHANGED <<queue, background, lag, slice, pc, running, owner, lost, spent, astray>>

-----------------------------------------------------------------------------
Next ==
    \/ \E t \in Threads : \E d \in Deadlines[t] : Enqueue(t, d) \/ EnqueueBackground(t, d)
    \/ \E c \in Cpus : \/ PickRealTime(c) \/ LoadActive(c) \/ LoadMask(c)
                       \/ LoadOwner(c) \/ PickIsolated(c) \/ PickInteractive(c)
                       \/ PickBackground(c) \/ Consume(c) \/ Block(c)
                       \/ \E t \in Called : SwitchToDonating(c, t)
    \/ Session

Spec == Init /\ [][Next]_vars

-----------------------------------------------------------------------------
(* Properties *)

\* No queue holds a thread twice, and a thread is in one place, unless a hand-off
\* sent it where it was not expected: no two processors run it and no queue still
\* holds one that runs, however picks and hand-offs interleave.
OnePlace ==
    /\ \A c \in Cpus : running[c] \notin astray \cup {NoThread} =>
           /\ \A d \in Cpus : running[d] = running[c] => d = c
           /\ \A k \in Queues : running[c] \notin Queued(queue[k])
           /\ running[c] \notin Queued(background)
    /\ \A k \in Queues : Cardinality(Queued(queue[k])) = Len(queue[k])
    /\ Cardinality(Queued(background)) = Len(background)

\* Among threads that wait, the earlier deadline stays ahead and equals keep
\* their order (sched.rs:105, tests :407-427): nobody is overtaken by a thread
\* that came later with the same deadline.
NobodyOvertaken ==
    [][ \A k \in Queues :
          \A t \in Queued(queue[k]), u \in Queued(queue[k]') :
            LET At(q, x) == CHOOSE i \in DOMAIN q : q[i].tid = x
                old == queue[k]
                new == queue[k]'
            IN  t # u /\ t \in Queued(new) =>
                  \/ new[At(new, t)].deadline > new[At(new, u)].deadline
                  \/ At(new, t) < At(new, u)
                  \/ u \in Queued(old) /\ At(old, u) < At(old, t) ]_queue

\* "Cores dedicated to the game process refuse every thread that is not the
\* game's" (sched.rs:259-261): a core that found no real-time thread, and picks in
\* a session that has held since, runs the game's, even though the three atomics
\* are read one by one while other processors and the session go on.
IsolatedCoreRefuses ==
    [][ \A c \in Cpus :
          steady[c] /\ pc'[c] = "running" =>
              PidOf[running'[c]] = Game ]_<<pc, running>>

\* Donation passes a slice on and never makes a new one: a chain of calls keeps
\* a processor no longer than the slice of the thread that was picked, unless a
\* hand-off on the way met a thread that was not blocked.
DonationIsNotFresh ==
    \A c \in Cpus : pc[c] = "running" /\ running[c] \notin astray =>
                       spent[c] + slice[running[c]] <= Slice

\* A thread waits in one place, is not overtaken there, and runs no longer than
\* its turn.
TurnsAreKept == [](OnePlace /\ DonationIsNotFresh) /\ NobodyOvertaken

\* The isolation is "checked here rather than at enqueue so that leaving Game
\* Mode does not require re-sorting every queue" (sched.rs:259-261): the threads
\* that an isolated core refuses are still queued.
RefusedStaysQueued == lost = {}
=============================================================================
