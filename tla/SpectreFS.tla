----------------------------- MODULE SpectreFS -----------------------------
(***************************************************************************)
(* Commit, power loss and mount of a SpectreFS volume                      *)
(* (fs/spectrefs/src/layout.rs).  The tree has the layout, the choice of   *)
(* the uberblock and the plan of which snapshots to prune; the code that   *)
(* writes is not in the tree and follows the module's comment              *)
(* (layout.rs:24-31): blocks, a flush, then the uberblock into its slot.   *)
(*                                                                         *)
(* An object tree is its root block, a block is the transaction that wrote *)
(* it, and the snapshot index is the set of its snapshots.  Magic and      *)
(* version are one flag.  What the drive promises is a parameter: the text *)
(* has drives that tear an uberblock and drives that lie about a flush.    *)
(***************************************************************************)
EXTENDS Integers, FiniteSets, Sequences, SequencesExt

CONSTANTS
    UberblockSlots,   \* UBERBLOCK_SLOTS
    Blocks,        \* logical block addresses
    NoBlock,       \* the address in SPARSE_PTR
    MaxTxg,        \* bound: transactions of one history
    Blake3(_),     \* hash::blake3 over the fields before the checksum
    Zero,          \* what 32 zero bytes are, as a checksum
    Tears,         \* whether the drive may write part of an uberblock
    FlushLies,     \* whether the drive may acknowledge a flush it has not done
    Classes,       \* Retention classes in the order of RETENTION_LIMITS
    Limit,         \* RETENTION_LIMITS
    Manual,        \* Retention::Manual
    DoomedMax      \* capacity of the list that prune_plan returns

ASSUME SpectreFSAssumption ==
    /\ UberblockSlots \in Nat /\ UberblockSlots >= 2
    /\ Tears \in BOOLEAN /\ FlushLies \in BOOLEAN
    /\ MaxTxg \in Nat /\ DoomedMax \in Nat /\ NoBlock \notin Blocks
    /\ Limit \in [ToSet(Classes) -> Nat] /\ Manual \notin ToSet(Classes)

VARIABLES
    uber,     \* the uberblock slots on the platter
    block,    \* the transaction each block on the platter holds
    cached,   \* blocks in the drive's write cache
    cur,      \* the mounted uberblock
    next,     \* the uberblock of the transaction under way
    phase,    \* where the writer stands
    told      \* history: the newest acknowledged uberblock

fsVars == <<uber, block, cached, cur, next, phase, told>>

Retentions == ToSet(Classes) \cup {Manual}

\* SPARSE_PTR: a hole.
Sparse == [lba |-> NoBlock, birth |-> 0]

-----------------------------------------------------------------------------
(* Uberblocks *)

\* The blake3 of the tree: zeros, whatever it is given (layout.rs:382-386).
StandIn(f) == Zero

Fields(u) == [txg |-> u.txg, root |-> u.root, snaps |-> u.snaps]

\* An uberblock over the given fields; Blank is a slot never written.
Seal(f) == [magic |-> TRUE, txg |-> f.txg, root |-> f.root, snaps |-> f.snaps,
            sum |-> Blake3(f)]
Blank == [magic |-> FALSE, txg |-> 0, root |-> Sparse, snaps |-> {}, sum |-> Zero]

VerifyChecksum(u) == u.sum = Blake3(Fields(u))

ValidUber(u) == u.magic /\ VerifyChecksum(u)

ValidSlots(s) == {k \in DOMAIN s : ValidUber(s[k])}

\* Mutation of SelectNewestValid: the last of the ring, not the newest.
SelectNewestValid_Last(s) ==
    IF ValidSlots(s) = {} THEN Blank
    ELSE s[CHOOSE k \in ValidSlots(s) : \A j \in ValidSlots(s) : j <= k]

\* select_newest_valid; of equals max_by_key takes the last.
SelectNewestValid(s) ==
    IF ValidSlots(s) = {} THEN Blank
    ELSE s[CHOOSE k \in ValidSlots(s) : \A j \in ValidSlots(s) :
               s[j].txg < s[k].txg \/ (s[j].txg = s[k].txg /\ j <= k)]

\* Mutation of NextSlot: the rotation skips no slot, it stays.
NextSlot_Same(u) == u.txg % UberblockSlots

NextSlot(u) == (u.txg + 1) % UberblockSlots

\* is_stale: born in a transaction the volume has gone back behind.
IsStale(p, txg) == p # Sparse /\ p.birth > txg

\* What a read through p finds is what was written for p.
Readable(p, txg) == ~IsStale(p, txg) /\ (p = Sparse \/ block[p.lba] = p.birth)

-----------------------------------------------------------------------------
(* Snapshots *)

OfClass(snaps, c) == {s \in snaps : s.class = c}

\* Mutation of Excess: the newest are given up.
Excess_Newest(snaps, c) ==
    {s \in OfClass(snaps, c) :
        Cardinality({t \in OfClass(snaps, c) : t.created < s.created}) >= Limit[c]}

\* The oldest of a class, beyond its limit: those behind as many newer ones.
Excess(snaps, c) ==
    {s \in OfClass(snaps, c) :
        Cardinality({t \in OfClass(snaps, c) : t.created > s.created}) >= Limit[c]}

\* In the order of prune_plan: class after class, the oldest first.
Place(c) == CHOOSE i \in DOMAIN Classes : Classes[i] = c
Earlier(t, s) == \/ Place(t.class) < Place(s.class)
                 \/ t.class = s.class /\ t.created < s.created

\* What is pushed when the list is full is left out.
PrunePlan(snaps) ==
    LET doomed == UNION {Excess(snaps, c) : c \in ToSet(Classes)}
    IN  {s \in doomed : Cardinality({t \in doomed : Earlier(t, s)}) < DoomedMax}

-----------------------------------------------------------------------------
(* The writer *)

FsInit ==
    /\ uber = [k \in 0 .. UberblockSlots - 1 |->
                  IF k = 0 THEN Seal([txg |-> 0, root |-> Sparse, snaps |-> {}]) ELSE Blank]
    /\ block = [b \in Blocks |-> 0]
    /\ cached = {}
    /\ cur = uber[0] /\ told = uber[0] /\ next = Blank
    /\ phase = "mounted"

\* Blocks that an uberblock on the platter still refers to.
Referred(u) == {u.root.lba} \cup {s.root.lba : s \in u.snaps}
InUse == UNION {Referred(uber[k]) : k \in ValidSlots(uber)}

\* Copy on write: a block nobody refers to.
Fresh(b) == b \notin InUse

Begin(f) == /\ phase = "mounted" /\ cur.txg < MaxTxg
            /\ next' = Seal(f)
            /\ UNCHANGED <<uber, block, cur, told>>

\* Files change: the new tree goes to a fresh block, by way of the cache.
BeginWrite(b) ==
    /\ Fresh(b)
    /\ Begin([txg |-> cur.txg + 1, root |-> [lba |-> b, birth |-> cur.txg + 1],
              snaps |-> cur.snaps])
    /\ cached' = {p \in cached : p.lba # b} \cup {next'.root}
    /\ phase' = "staging"

\* A snapshot is a reference to the object root.
BeginSnapshot(c) ==
    /\ Begin([txg |-> cur.txg + 1, root |-> cur.root,
              snaps |-> cur.snaps \cup
                  {[class |-> c, created |-> cur.txg + 1, root |-> cur.root]}])
    /\ UNCHANGED cached
    /\ phase' = "publishing"

BeginPrune ==
    /\ PrunePlan(cur.snaps) # {}
    /\ Begin([txg |-> cur.txg + 1, root |-> cur.root,
              snaps |-> cur.snaps \ PrunePlan(cur.snaps)])
    /\ UNCHANGED cached
    /\ phase' = "publishing"

\* The platter once a part of the cache is on it.
Landed(part) == [b \in Blocks |-> IF \E p \in part : p.lba = b
                                  THEN (CHOOSE p \in part : p.lba = b).birth
                                  ELSE block[b]]

\* Mutation of Flush: the uberblock does not wait for the blocks.
Flush_Hopeful ==
    /\ phase = "staging" /\ phase' = "publishing"
    /\ UNCHANGED <<uber, block, cached, cur, next, told>>

\* FLUSH: what is cached reaches the platter, or the drive only says so.
Flush == /\ phase = "staging" /\ phase' = "publishing"
         /\ \/ block' = Landed(cached) /\ cached' = {}
            \/ FlushLies /\ UNCHANGED <<block, cached>>
         /\ UNCHANGED <<uber, cur, next, told>>

\* FUA: the uberblock is on the platter ...
Publish == /\ phase = "publishing" /\ phase' = "published"
           /\ uber' = [uber EXCEPT ![NextSlot(cur)] = next]
           /\ UNCHANGED <<block, cached, cur, next, told>>

\* ... and the commit is acknowledged.
Acknowledge == /\ phase = "published" /\ phase' = "mounted"
               /\ cur' = next /\ told' = next /\ next' = Blank
               /\ UNCHANGED <<uber, block, cached>>

-----------------------------------------------------------------------------
(* Power loss and mount *)

\* What a torn write leaves: the record is written from its first byte on, magic,
\* txg, roots and checksum, and stops anywhere.
Torn(old, new) ==
    LET order == <<"magic", "txg", "root", "snaps", "sum">>
    IN  {[f \in DOMAIN new |-> IF \E i \in 1 .. n : order[i] = f THEN new[f] ELSE old[f]] :
            n \in 0 .. Len(order)}

\* What a power loss leaves of an uberblock being written.
Left(old, new) == IF Tears THEN Torn(old, new) ELSE {old, new}

\* The cache is lost, or part of it was written; so is the uberblock under way.
PowerLoss ==
    /\ phase # "down" /\ phase' = "down"
    /\ \E part \in SUBSET cached : block' = Landed(part)
    /\ cached' = {}
    /\ \/ uber' = uber
       \/ /\ phase = "publishing"
          /\ \E u \in Left(uber[NextSlot(cur)], next) :
                 uber' = [uber EXCEPT ![NextSlot(cur)] = u]
    /\ cur' = Blank /\ next' = Blank
    /\ UNCHANGED told

\* The read back at mount finds what was committed.
Mount == /\ phase = "down" /\ SelectNewestValid(uber) # Blank
         /\ phase' = "mounted"
         /\ cur' = SelectNewestValid(uber) /\ told' = cur'
         /\ UNCHANGED <<uber, block, cached, next>>

FsNext == \/ \E b \in Blocks : BeginWrite(b)
        \/ \E c \in Retentions : BeginSnapshot(c)
        \/ BeginPrune
        \/ Flush \/ Publish \/ Acknowledge
        \/ PowerLoss \/ Mount

FsSpec == FsInit /\ [][FsNext]_fsVars

-----------------------------------------------------------------------------
(* Properties *)

FsTypeOK ==
    /\ DOMAIN uber = 0 .. UberblockSlots - 1
    /\ \A k \in DOMAIN uber : uber[k].txg \in 0 .. MaxTxg
    /\ block \in [Blocks -> 0 .. MaxTxg]
    /\ phase \in {"mounted", "staging", "publishing", "published", "down"}

\* At every instant the volume that a mount would find is whole: its tree and
\* every snapshot read back what was written for them, and no pointer is stale,
\* whatever the power loss interrupted and whatever was pruned and reused.  On a
\* drive that lies about a flush it does not hold: select_newest_valid promises to
\* look whether the object root can be reached (layout.rs:147-152), and does not.
MountReadsBack ==
    LET u == SelectNewestValid(uber)
    IN  /\ Readable(u.root, u.txg)
        /\ \A s \in u.snaps : Readable(s.root, u.txg)

\* "Verified before the uberblock is trusted, which is what makes torn-write
\* detection possible" (layout.rs:136-137): what a mount would find changes to the
\* uberblock being written, whole, or not at all.
TornWriteDetected ==
    [][SelectNewestValid(uber)' \in {SelectNewestValid(uber), next}]_uber

\* "A torn write ... leaves N-1 intact previous versions to fall back to"
\* (layout.rs:44-46): once the rotation has gone round, N-1 slots hold the last
\* N-1 versions in a row, through any number of power losses.
FallbacksRemain ==
    \A back \in 0 .. UberblockSlots - 2 :
        back <= told.txg =>
            \E k \in ValidSlots(uber) : uber[k].txg = told.txg - back

\* Pruning keeps what the user took and, of each class, the newest: no snapshot
\* is given up while an older one of its class stays (layout.rs:361), and a
\* class never falls below its limit.
PruneKeepsNewest ==
    [][ \A s \in told.snaps \ told'.snaps :
            /\ s.class # Manual
            /\ Cardinality(OfClass(told'.snaps, s.class)) >= Limit[s.class]
            /\ \A t \in OfClass(told'.snaps, s.class) : t.created > s.created ]_told

\* A mount finds the acknowledged version or the one whose commit was under way,
\* never a mixture and never an older one.
Vol == INSTANCE Volume WITH
           durable <- Fields(SelectNewestValid(uber)), told <- Fields(told),
           asked <- IF next = Blank THEN Blank ELSE Fields(next), None <- Blank
ImplementsVolume == Vol!Spec

=============================================================================
