--------------------------- MODULE FrameAllocator ---------------------------
(***************************************************************************)
(* The physical frame allocator                                            *)
(* (kernel/spectre-kernel/src/arch/frame.rs): a bitmap with a rotating     *)
(* hint and a running count, filled from the firmware's memory map at boot *)
(* and shared by everything that needs frames afterwards.                  *)
(*                                                                         *)
(* The bitmap is the set of frames whose bit is set; the bits that pad its *)
(* last word are always set and stand for no frame.  Every method takes    *)
(* `&mut self`, so each is one step.  The boot code first adds the usable  *)
(* regions and then reserves; regions are in bytes.  Those who hold frames *)
(* free what they were given, once.                                        *)
(***************************************************************************)
EXTENDS Integers, FiniteSets, FiniteSetsExt

CONSTANTS
    Base, Count,      \* base_frame and frame_count
    WordBits,         \* FRAMES_PER_WORD, 64 in the code
    PageSize,         \* PAGE_SIZE, 4096 in the code
    Usable, Reserved, \* regions the boot code adds and reserves
    MaxRuns,          \* bound: runs held at a time
    RunLengths,       \* lengths and
    Alignments,       \*   alignments asked of alloc_contiguous
    None              \* no frame

ASSUME FrameAssumption ==
    /\ Base \in Nat /\ Count \in Nat
    /\ WordBits \in Nat \ {0} /\ PageSize \in Nat \ {0}
    /\ Usable \cup Reserved \subseteq [start : Nat, len : Nat]
    /\ MaxRuns \in Nat
    /\ RunLengths \subseteq Nat \ {0} /\ Alignments \subseteq Nat \ {0}
    /\ None \notin Nat

Frames == Base .. Base + Count - 1
End == Base + Count

VARIABLES
    taken,      \* the frames whose bit is set
    used,       \* FrameAllocator::used
    hint,       \* next_hint
    boot,       \* "adding", "reserving" or "running"
    withheld,   \* frames that were never added or have been reserved
    reserved,   \* the regions reserved so far
    runs        \* what the holders were given: [first, count]

allocator == <<taken, used, hint>>
bootVars == <<boot, withheld, reserved>>
frameVars == <<allocator, bootVars, runs>>

FrameTypeOK ==
    /\ taken \subseteq Frames /\ withheld \subseteq Frames
    /\ used \in 0 .. Count /\ hint \in 0 .. Count
    /\ boot \in {"adding", "reserving", "running"}
    /\ reserved \subseteq Reserved
    /\ runs \subseteq [first : Frames, count : 1 .. Count]

\* FrameAllocator::new: everything is marked used.
FrameInit ==
    /\ taken = Frames /\ used = Count /\ hint = 0
    /\ boot = "adding" /\ withheld = Frames /\ reserved = {}
    /\ runs = {}

-----------------------------------------------------------------------------
(* Boot *)

CeilDiv(a, b) == (a + b - 1) \div b
AlignUp(a, b) == CeilDiv(a, b) * b

\* Region::frames: whole pages only, inside the managed range.
Inside(r) == (CeilDiv(r.start, PageSize) .. (r.start + r.len) \div PageSize - 1)
                \cap Frames

\* Mutation of Outside: reservation rounds inward as well.
Outside_Inward(r) == Inside(r)

\* reserve_region: every page the region touches.
Outside(r) == (r.start \div PageSize .. CeilDiv(r.start + r.len, PageSize) - 1)
                \cap Frames

\* add_region: set_free counts only the bits it clears.
AddRegion(r) ==
    /\ boot = "adding"
    /\ taken' = taken \ Inside(r)
    /\ used' = used - Cardinality(Inside(r) \cap taken)
    /\ withheld' = withheld \ Inside(r)
    /\ UNCHANGED <<hint, boot, reserved, runs>>

\* reserve_region: set_used counts only the bits it sets.
ReserveRegion(r) ==
    /\ boot \in {"adding", "reserving"}
    /\ taken' = taken \cup Outside(r)
    /\ used' = used + Cardinality(Outside(r) \ taken)
    /\ boot' = "reserving"
    /\ withheld' = withheld \cup Outside(r)
    /\ reserved' = reserved \cup {r}
    /\ UNCHANGED <<hint, runs>>

\* Nothing asks for frames before all that is reserved has been.
StartUp ==
    /\ boot # "running" /\ reserved = Reserved
    /\ boot' = "running"
    /\ UNCHANGED <<allocator, withheld, reserved, runs>>

-----------------------------------------------------------------------------
(* Single frames *)

Word(f) == (f - Base) \div WordBits
StartWord == hint \div WordBits

\* The free frames alloc comes past in its first and in its second pass.
FromHint == {f \in Frames \ taken : Word(f) >= StartWord}
Wrapped == {f \in Frames \ taken : Word(f) < StartWord}

\* The frame alloc returns.
NextFree == IF FromHint # {} THEN Min(FromHint)
            ELSE IF Wrapped # {} THEN Min(Wrapped) ELSE None

\* alloc succeeds; who calls it keeps the frame.
TakeNext ==
    /\ NextFree # None
    /\ taken' = taken \cup {NextFree}
    /\ used' = used + 1
    /\ hint' = NextFree - Base + 1

AllocFrame ==
    /\ boot = "running" /\ Cardinality(runs) < MaxRuns
    /\ TakeNext
    /\ runs' = runs \cup {[first |-> NextFree, count |-> 1]}
    /\ UNCHANGED bootVars

-----------------------------------------------------------------------------
(* Runs of frames *)

Run(first, count) == first .. first + count - 1

\* Mutation of Resume: the search resumes a whole run further on.
Resume_PastRun(candidate, blocker, count, align) == AlignUp(candidate + count, align)

\* Where alloc_contiguous goes on when a frame of the candidate is used.
Resume(candidate, blocker, count, align) == AlignUp(blocker + 1, align)

\* first_used_in finds nothing in a run inside the managed range.
Available(first, count) ==
    first \in Frames /\ first + count <= End /\ Run(first, count) \cap taken = {}

\* The candidate at which the search of alloc_contiguous ends.
Candidate(count, align) ==
    LET From[c \in Base .. End + align] ==
            IF c + count > End \/ Available(c, count) THEN c
            ELSE From[Resume(c, Min(Run(c, count) \cap taken), count, align)]
    IN  From[AlignUp(Base, align)]

\* alloc_contiguous; it leaves the hint alone.
AllocContiguous(count, align) ==
    /\ boot = "running" /\ Cardinality(runs) < MaxRuns
    /\ LET first == Candidate(count, align)
       IN  /\ Available(first, count)
           /\ taken' = taken \cup Run(first, count)
           /\ used' = used + Cardinality(Run(first, count) \ taken)
           /\ runs' = runs \cup {[first |-> first, count |-> count]}
    /\ UNCHANGED <<hint, bootVars>>

\* Mutation of FreeRun: only the first frame's bit is cleared.
FreeRun_FirstOnly(r) ==
    /\ boot = "running" /\ r \in runs
    /\ taken' = taken \ {r.first}
    /\ used' = used - 1
    /\ hint' = IF r.first - Base < hint THEN r.first - Base ELSE hint
    /\ runs' = runs \ {r}
    /\ UNCHANGED bootVars

\* free_contiguous, or free of a single frame: every bit must be set.
FreeRun(r) ==
    /\ boot = "running" /\ r \in runs
    /\ Run(r.first, r.count) \subseteq taken
    /\ taken' = taken \ Run(r.first, r.count)
    /\ used' = used - r.count
    /\ hint' = IF r.first - Base < hint THEN r.first - Base ELSE hint
    /\ runs' = runs \ {r}
    /\ UNCHANGED bootVars

FrameNext ==
    \/ \E r \in Usable : AddRegion(r)
    \/ \E r \in Reserved : ReserveRegion(r)
    \/ StartUp
    \/ AllocFrame
    \/ \E n \in RunLengths, a \in Alignments : AllocContiguous(n, a)
    \/ \E r \in runs : FreeRun(r)

-----------------------------------------------------------------------------
(* Properties *)

HeldFrames == UNION {Run(r.first, r.count) : r \in runs}

\* No byte of a region that was reserved lies in a frame that can be handed
\* out, or was (frame.rs:131-136): reservation rounds outward.
ReservedWithheld ==
    \A r \in reserved : \A f \in Frames :
        (f * PageSize < r.start + r.len /\ r.start < (f + 1) * PageSize)
            => f \in taken \ HeldFrames

\* In every state, whatever the hint and the holes, alloc finds a free frame
\* if there is one (frame.rs:190-217), and alloc_contiguous an aligned free run
\* if there is one (frame.rs:241-261).
SearchesComplete ==
    /\ NextFree = None <=> Frames \subseteq taken
    /\ \A n \in RunLengths, a \in Alignments :
          /\ Candidate(n, a) % a = 0
          /\ (\E c \in Frames : c % a = 0 /\ Available(c, n))
                => Available(Candidate(n, a), n)
=============================================================================
