------------------------------ MODULE GameMode ------------------------------
(***************************************************************************)
(* Game Mode (kernel/spectre-kernel/src/gamemode.rs): enter, leave and the *)
(* watchdog, which reserve cores for a game and give them back.            *)
(*                                                                         *)
(* The module keeps three atomics, ACTIVE, ISOLATED_MASK and OWNER_PID,    *)
(* and drives two more in other modules, the deferral of vault sweeps and  *)
(* the affinity of the background class; nothing excludes two callers, so  *)
(* every load and every store is a step.  An actor that has decided to     *)
(* enter or to clean up works through the list of its stores.  A mask is   *)
(* the set of its cores.  The network and display profiles are one flag.   *)
(***************************************************************************)
EXTENDS Integers, Sequences, FiniteSets

CONSTANTS
    Total,      \* number of cores
    Sibling,    \* topology: the SMT sibling of a core, or the core itself
    Managers,   \* threads that serve the Game Mode endpoint
    Watchdog,   \* the tick handler
    Games,      \* processes that ask for cores
    NoPid       \* Pid(0)

Cores == 0 .. Total - 1
Actors == Managers \cup {Watchdog}

ASSUME GameModeAssumption ==
    /\ Total \in Nat \ {0}
    /\ Sibling \in [Cores -> Cores] /\ \A c \in Cores : Sibling[Sibling[c]] = c
    /\ Watchdog \notin Managers /\ NoPid \notin Games

VARIABLES
    active, mask, owner,   \* ACTIVE, ISOLATED_MASK, OWNER_PID
    sweepsDeferred,        \* vault::SWEEPS_DEFERRED
    affinity,              \* sched::BACKGROUND_AFFINITY
    boosted,               \* the game profile of network and display is on
    todo,                  \* the stores each actor still has to make
    want,                  \* the game and mask a manager enters with
    tick,                  \* where the watchdog stands
    suspect,               \* its local `owner`
    alive,                 \* thread::process_alive of each game
    crossed                \* history: a recovery overlapped an enter

sessionVars == <<active, mask, owner, sweepsDeferred, affinity, boosted, todo, want,
                 tick, suspect, alive, crossed>>
kernel == <<active, mask, owner, sweepsDeferred, affinity, boosted>>

EnterStores == <<"mask", "owner", "active", "migrate", "defer", "narrow", "boost">>
ClearStores == <<"inactive", "unmask", "disown", "resume", "widen", "calm">>

\* What is left of a list of stores when the first i - 1 are made.
From(stores, i) == SubSeq(stores, i, Len(stores))

SessionTypeOK ==
    /\ active \in BOOLEAN /\ sweepsDeferred \in BOOLEAN /\ boosted \in BOOLEAN
    /\ mask \subseteq Cores /\ affinity \subseteq Cores
    /\ owner \in Games \cup {NoPid} /\ suspect \in Games \cup {NoPid}
    /\ \A a \in Actors : \E i \in 1 .. 8 : \/ todo[a] = From(EnterStores, i)
                                           \/ todo[a] = From(ClearStores, i)
    /\ want \in [Managers -> [game : Games \cup {NoPid}, cores : SUBSET Cores]]
    /\ tick \in {"idle", "saw", "read", "clearing"}
    /\ alive \in [Games -> BOOLEAN] /\ crossed \in BOOLEAN

SessionInit ==
    /\ active = FALSE /\ mask = {} /\ owner = NoPid
    /\ sweepsDeferred = FALSE /\ affinity = Cores /\ boosted = FALSE
    /\ todo = [a \in Actors |-> <<>>]
    /\ want = [m \in Managers |-> [game |-> NoPid, cores |-> {}]]
    /\ tick = "idle" /\ suspect = NoPid
    /\ alive = [g \in Games |-> TRUE]
    /\ crossed = FALSE

-----------------------------------------------------------------------------
(* Which cores *)

\* At most three quarters of the cores, at least one, never all of them.
MaxCores == LET share == (3 * Total) \div 4
                some == IF share < 1 THEN 1 ELSE share
            IN  IF some > Total - 1 THEN Total - 1 ELSE some

\* Mutation of Take: a sibling pulled in is not counted as assigned.
Take_SiblingUncounted(cores, count, c) ==
    IF Cardinality({x \in cores : Sibling[x] <= x}) >= count \/ c \in cores THEN cores
    ELSE cores \cup {c} \cup ({Sibling[c]} \ {0})

\* The loop's body: core c, with its sibling unless that is core 0.
Take(cores, count, c) ==
    IF Cardinality(cores) >= count \/ c \in cores THEN cores
    ELSE cores \cup {c} \cup ({Sibling[c]} \ {0})

\* Whole physical cores from the top down to core 1: those taken after i looks.
AllocatePhysicalCores(count) ==
    LET taken[i \in 0 .. Total - 1] ==
            IF i = 0 THEN {} ELSE Take(taken[i - 1], count, Total - i)
    IN  taken[Total - 1]

-----------------------------------------------------------------------------
(* enter, leave and the watchdog decide ...                                  *)

Idle(m) == todo[m] = <<>>

Entering(m) == \E i \in DOMAIN EnterStores : todo[m] = From(EnterStores, i)

\* A recovery that is past its check and an entry that is past its own overlap.
Overlap == tick = "clearing" /\ \E m \in Managers : Entering(m)

\* enter: not active, and not too many cores.
EnterGranted(m, g, n) ==
    /\ Idle(m) /\ alive[g]
    /\ ~active
    /\ n <= MaxCores
    /\ want' = [want EXCEPT ![m] = [game |-> g, cores |-> AllocatePhysicalCores(n)]]
    /\ todo' = [todo EXCEPT ![m] = EnterStores]
    /\ UNCHANGED <<kernel, tick, suspect, alive>>
    /\ crossed' = (crossed \/ Overlap')

\* Mutation of LeaveGranted: defer_sweeps(false) is forgotten.
LeaveGranted_KeepsSweeps(m) ==
    /\ Idle(m)
    /\ active
    /\ todo' = [todo EXCEPT ![m] = <<"inactive", "unmask", "disown", "widen", "calm">>]
    /\ UNCHANGED <<kernel, want, tick, suspect, alive, crossed>>

\* leave: active.
LeaveGranted(m) ==
    /\ Idle(m)
    /\ active
    /\ todo' = [todo EXCEPT ![m] = ClearStores]
    /\ UNCHANGED <<kernel, want, tick, suspect, alive, crossed>>

WatchdogSees ==
    /\ tick = "idle" /\ active
    /\ tick' = "saw"
    /\ UNCHANGED <<kernel, todo, want, suspect, alive, crossed>>

WatchdogReads ==
    /\ tick = "saw"
    /\ suspect' = owner
    /\ tick' = "read"
    /\ UNCHANGED <<kernel, todo, want, alive, crossed>>

\* thread::process_alive; Pid(0) is no process.
Dead(p) == p = NoPid \/ ~alive[p]

\* Mutation of WatchdogJudges: the test of process_alive is inverted.
WatchdogJudges_Inverted ==
    /\ tick = "read"
    /\ tick' = IF Dead(suspect) THEN "idle" ELSE "clearing"
    /\ todo' = [todo EXCEPT ![Watchdog] = IF Dead(suspect) THEN <<>> ELSE ClearStores]
    /\ suspect' = NoPid
    /\ UNCHANGED <<kernel, want, alive>>
    /\ crossed' = (crossed \/ Overlap')

WatchdogJudges ==
    /\ tick = "read"
    /\ tick' = IF Dead(suspect) THEN "clearing" ELSE "idle"
    /\ todo' = [todo EXCEPT ![Watchdog] = IF Dead(suspect) THEN ClearStores ELSE <<>>]
    /\ suspect' = NoPid
    /\ UNCHANGED <<kernel, want, alive>>
    /\ crossed' = (crossed \/ Overlap')

-----------------------------------------------------------------------------
(* ... and store.                                                            *)

\* Actor a makes the store it is at.
Storing(a, store) ==
    /\ todo[a] # <<>> /\ Head(todo[a]) = store
    /\ todo' = [todo EXCEPT ![a] = Tail(@)]
    /\ tick' = IF a = Watchdog /\ Len(todo[a]) = 1 THEN "idle" ELSE tick
    /\ UNCHANGED <<want, suspect, alive, crossed>>

\* Mutation of StoreMask: the session is announced before it is described.
StoreMask_Announces(m) == Storing(m, "mask") /\ mask' = want[m].cores /\ active' = TRUE
                          /\ UNCHANGED <<owner, sweepsDeferred, affinity, boosted>>

StoreMask(m) == Storing(m, "mask") /\ mask' = want[m].cores
                /\ UNCHANGED <<active, owner, sweepsDeferred, affinity, boosted>>
StoreOwner(m) == Storing(m, "owner") /\ owner' = want[m].game
                 /\ UNCHANGED <<active, mask, sweepsDeferred, affinity, boosted>>
StoreActive(m) == Storing(m, "active") /\ active' = TRUE
                  /\ UNCHANGED <<mask, owner, sweepsDeferred, affinity, boosted>>
\* migrate_off moves threads and touches none of this state.
MigrateOff(m) == Storing(m, "migrate") /\ UNCHANGED kernel
Defer(m) == Storing(m, "defer") /\ sweepsDeferred' = TRUE
            /\ UNCHANGED <<active, mask, owner, affinity, boosted>>
NarrowBackground(m) == Storing(m, "narrow") /\ affinity' = Cores \ want[m].cores
                       /\ UNCHANGED <<active, mask, owner, sweepsDeferred, boosted>>
Boost(m) == Storing(m, "boost") /\ boosted' = TRUE
            /\ UNCHANGED <<active, mask, owner, sweepsDeferred, affinity>>

ClearActive(a) == Storing(a, "inactive") /\ active' = FALSE
                  /\ UNCHANGED <<mask, owner, sweepsDeferred, affinity, boosted>>
ClearMask(a) == Storing(a, "unmask") /\ mask' = {}
                /\ UNCHANGED <<active, owner, sweepsDeferred, affinity, boosted>>
ClearOwner(a) == Storing(a, "disown") /\ owner' = NoPid
                 /\ UNCHANGED <<active, mask, sweepsDeferred, affinity, boosted>>
ResumeSweeps(a) == Storing(a, "resume") /\ sweepsDeferred' = FALSE
                   /\ UNCHANGED <<active, mask, owner, affinity, boosted>>
WidenBackground(a) == Storing(a, "widen") /\ affinity' = Cores
                      /\ UNCHANGED <<active, mask, owner, sweepsDeferred, boosted>>
Calm(a) == Storing(a, "calm") /\ boosted' = FALSE
           /\ UNCHANGED <<active, mask, owner, sweepsDeferred, affinity>>

Die(g) == /\ alive[g]
          /\ alive' = [alive EXCEPT ![g] = FALSE]
          /\ UNCHANGED <<kernel, todo, want, tick, suspect, crossed>>

-----------------------------------------------------------------------------
Decide(m) == \/ \E g \in Games, n \in 0 .. Total : EnterGranted(m, g, n)
             \/ LeaveGranted(m)

EnterStore(m) == \/ StoreMask(m) \/ StoreOwner(m) \/ StoreActive(m)
                 \/ MigrateOff(m) \/ Defer(m) \/ NarrowBackground(m)
                 \/ Boost(m)

ClearStore(a) == \/ ClearActive(a) \/ ClearMask(a) \/ ClearOwner(a)
                 \/ ResumeSweeps(a) \/ WidenBackground(a) \/ Calm(a)

Tick == WatchdogSees \/ WatchdogReads \/ WatchdogJudges \/ ClearStore(Watchdog)

SessionNext ==
    \/ \E m \in Managers : Decide(m) \/ EnterStore(m) \/ ClearStore(m)
    \/ Tick
    \/ \E g \in Games : Die(g)

SessionSpec == SessionInit /\ [][SessionNext]_sessionVars

\* Nobody has to enter, leave or die; started calls and ticks run on.
FairSessionSpec ==
    /\ SessionSpec
    /\ WF_sessionVars(Tick)
    /\ \A m \in Managers : WF_sessionVars(EnterStore(m) \/ ClearStore(m))

-----------------------------------------------------------------------------
(* Properties *)

\* A topology and a fraction that go together: no core has a sibling, or every
\* core has one, core 0 and its sibling are the last pair the loop comes to, and
\* the fraction is of whole pairs and leaves that pair out.  The code does not see
\* to it.
PairsFit ==
    \/ \A c \in Cores : Sibling[c] = c
    \/ /\ \A c \in Cores : Sibling[c] # c
       /\ \A c \in Cores \ {0, Sibling[0]} : c > Sibling[0] \/ Sibling[c] > Sibling[0]
       /\ MaxCores % 2 = 0 /\ MaxCores <= Total - 2

\* Core 0 and its sibling stay with the system, a game never shares a physical
\* core, and no more than the fraction is isolated (gamemode.rs:44-47, 52-56,
\* 114-118).
IsolationBounded ==
    /\ 0 \notin mask /\ Sibling[0] \notin mask
    /\ Cardinality(mask) <= MaxCores
    /\ \A c \in mask : Sibling[c] \in mask

\* "Maximum fraction of cores that may be isolated" (gamemode.rs:52-56), said of
\* every topology.
FractionHolds == Cardinality(mask) <= MaxCores

\* The mask and the owner are those of one request that was granted.
Described == \E m \in Managers :
                 owner # NoPid /\ want[m] = [game |-> owner, cores |-> mask]

\* Who sees ACTIVE and then reads the mask and the owner finds a session that
\* was fully described before it was announced (gamemode.rs:121-123), unless a
\* recovery overlapped an entry.
AnnouncedIsDescribed == active /\ ~crossed => Described

\* Between calls Game Mode is entirely on or entirely off: leave and recovery
\* undo everything that enter did, in any interleaving of the two.
AllOrNothing ==
    (~crossed /\ tick # "clearing" /\ \A m \in Managers : Idle(m)) =>
        \/ active /\ Described /\ sweepsDeferred /\ boosted /\ affinity = Cores \ mask
        \/ /\ ~active /\ mask = {} /\ owner = NoPid /\ ~sweepsDeferred /\ ~boosted
           /\ affinity = Cores

\* A session is bounded, where the topology lets it, announced whole, and undone
\* whole.
SessionSound == IsolationBounded /\ AnnouncedIsDescribed /\ AllOrNothing

\* "If the game process dies ... the cores must come back" (gamemode.rs:178).
CoresComeBack ==
    \A g \in Games :
        (active /\ owner = g /\ ~alive[g]) ~> (~active \/ owner # g)

=============================================================================
