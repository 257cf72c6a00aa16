---------------------------- MODULE MemoryProofs ----------------------------
(***************************************************************************)
(* Frames and page tables, for any memory, any regions and any requests:   *)
(* every frame has one use, searches find what there is, the tables form a *)
(* tree, and the tree implements an address space.                         *)
(***************************************************************************)
EXTENDS PageTables, Induction, FiniteSetTheorems, FunctionTheorems, TLAPS

\* Nobody holds a frame before the boot code is done.
BootFirst ==
    /\ boot # "running" => runs = {} /\ root = None
    /\ root = None => Tables = {} /\ walk = None

\* Tables have levels: the root has the highest, an entry that is no leaf leads
\* one level down, and the walk stands at the level of its table.
LinksFit(lev) ==
    \A t \in Tables, i \in Indices :
        Present(entry[t][i]) /\ ~Leaf(entry[t][i], lev[t])
            => /\ lev[t] > 1
               /\ entry[t][i].frame \in Tables
               /\ lev[entry[t][i].frame] = lev[t] - 1

Levelled ==
    \E lev \in [Tables -> 1 .. Levels] :
        /\ root # None => root \in Tables /\ lev[root] = Levels
        /\ walk # None => lev[walk.table] = walk.level
        /\ LinksFit(lev)

MemoryInv == TypeOK /\ FramesAccounted /\ BootFirst /\ Levelled

-----------------------------------------------------------------------------
(* Facts about frames *)

LEMMA FramesFinite == IsFiniteSet(Frames) /\ Cardinality(Frames) = Count
  BY FrameAssumption, FS_Interval DEF Frames

LEMMA NoneIsNoFrame == None \notin Frames
  BY FrameAssumption DEF Frames

\* A nonempty set of natural numbers has a least element.
LEMMA MinOfNat ==
    ASSUME NEW S \in SUBSET Nat, S # {}
    PROVE  Min(S) \in S
  <1> DEFINE Less == {ss \in Nat \X Nat : ss[1] < ss[2]}
  <1>1. OpToRel(<, Nat) = Less
    BY Zenon DEF OpToRel
  <1>2. PICK x \in S : \A y \in S : ~(<<y, x>> \in Less)
    BY <1>1, NatLessThanWellFounded, WFMin
  <1>3. \A y \in S : x =< y
    <2> TAKE y \in S
    <2>1. x \in Nat /\ y \in Nat /\ ~(<<y, x>> \in Less)
      BY <1>2
    <2>2. ~(y < x)
      BY <2>1
    <2> QED
      BY <2>1, <2>2
  <1> QED
    BY <1>3 DEF Min

\* What alloc returns was free.
LEMMA NextFreeIsFree == NextFree # None => NextFree \in Frames \ taken
  <1>1. Frames \subseteq Nat
    BY FrameAssumption DEF Frames
  <1>2. FromHint \subseteq Frames \ taken /\ Wrapped \subseteq Frames \ taken
    BY DEF FromHint, Wrapped
  <1> QED
    BY <1>1, <1>2, MinOfNat DEF NextFree

LEMMA RunFinite ==
    ASSUME NEW first \in Nat, NEW count \in Nat
    PROVE  IsFiniteSet(Run(first, count)) /\ Cardinality(Run(first, count)) = count
  BY FS_Interval DEF Run

\* Counting the bits that are set, and those that are cleared.
LEMMA CountBits ==
    ASSUME NEW T \in SUBSET Frames, NEW S \in SUBSET Frames
    PROVE  /\ Cardinality(T) \in 0 .. Count
           /\ Cardinality(T \cup S) = Cardinality(T) + Cardinality(S \ T)
           /\ Cardinality(T \ S) = Cardinality(T) - Cardinality(S \cap T)
           /\ Cardinality(S \ T) \in Nat
  <1>1. IsFiniteSet(T) /\ IsFiniteSet(S) /\ IsFiniteSet(S \ T)
    BY FramesFinite, FS_Subset
  <1>2. Cardinality(T) \in Nat /\ Cardinality(S \ T) \in Nat
    BY <1>1, FS_CardinalityType
  <1>3. Cardinality(T) <= Count /\ Count \in Nat
    BY FramesFinite, FS_Subset, FrameAssumption
  <1>4. Cardinality(T \cup (S \ T))
            = Cardinality(T) + Cardinality(S \ T) - Cardinality(T \cap (S \ T))
    BY <1>1, FS_Union
  <1>5. T \cup (S \ T) = T \cup S /\ T \cap (S \ T) = {}
    OBVIOUS
  <1>6. Cardinality(T \ S) = Cardinality(T) - Cardinality(T \cap S)
    BY <1>1, FS_Difference
  <1>7. T \cap S = S \cap T
    OBVIOUS
  <1>8. Cardinality({}) = 0
    BY FS_EmptySet
  <1>9. Cardinality(T \cup S) = Cardinality(T) + Cardinality(S \ T)
    <2>1. Cardinality(T \cap (S \ T)) = 0
      BY <1>5, <1>8
    <2>2. Cardinality(T \cup (S \ T)) = Cardinality(T \cup S)
      BY <1>5
    <2> QED
      BY <1>2, <1>4, <2>1, <2>2
  <1>10. Cardinality(T) \in 0 .. Count
    BY <1>2, <1>3
  <1> QED
    BY <1>2, <1>6, <1>7, <1>9, <1>10

LEMMA RunOfOne == ASSUME NEW f \in Nat PROVE Run(f, 1) = {f}
  BY DEF Run

\* Taking the next frame: it was free, and the count stays exact.
LEMMA TakeNextCounts ==
    ASSUME FrameTypeOK, used = Cardinality(taken), TakeNext
    PROVE  /\ NextFree \in Frames \ taken
           /\ taken' = taken \cup {NextFree}
           /\ used' = Cardinality(taken') /\ used' \in 0 .. Count
           /\ hint' \in 0 .. Count
  <1>1. NextFree \in Frames \ taken
    BY NextFreeIsFree DEF TakeNext
  <1>2. IsFiniteSet(taken)
    BY FramesFinite, FS_Subset DEF FrameTypeOK
  <1>3. Cardinality(taken \cup {NextFree}) = Cardinality(taken) + 1
    BY <1>1, <1>2, FS_AddElement
  <1>4. Cardinality(taken \cup {NextFree}) \in 0 .. Count
    BY <1>1, CountBits DEF FrameTypeOK
  <1>5. NextFree - Base + 1 \in 0 .. Count
    BY <1>1, FrameAssumption DEF Frames
  <1> QED
    BY <1>1, <1>3, <1>4, <1>5 DEF TakeNext

-----------------------------------------------------------------------------
(* The initial state *)

LEMMA MemoryInit == Init => MemoryInv
  <1> SUFFICES ASSUME Init PROVE MemoryInv
    OBVIOUS
  <1> USE FrameAssumption DEF Init, FrameInit
  <1>1. Tables = {} /\ HeldFrames = {}
    BY DEF Tables, HeldFrames
  <1>2. FrameTypeOK
    BY DEF FrameTypeOK
  <1>3. TypeOK
    BY <1>1, <1>2 DEF TypeOK
  <1>4. FramesAccounted
    BY <1>1, FramesFinite DEF FramesAccounted
  <1>5. BootFirst
    BY <1>1 DEF BootFirst
  <1>6. Levelled
    <2> DEFINE lev == [t \in {} |-> Levels]
    <2>1. lev \in [Tables -> 1 .. Levels]
      BY <1>1
    <2> QED
      BY <1>1, <2>1 DEF Levelled, LinksFit
  <1> QED
    BY <1>3, <1>4, <1>5, <1>6 DEF MemoryInv

-----------------------------------------------------------------------------
(* Steps of the allocator *)

\* Steps that leave the tables alone keep their part of the invariant.
LEMMA PagingUnchanged ==
    ASSUME MemoryInv, UNCHANGED paging, FrameTypeOK'
    PROVE  TypeOK' /\ Levelled' /\ Tables' = Tables
  <1>1. Tables' = Tables
    BY DEF paging, Tables
  <1>2. TypeOK'
    BY <1>1 DEF MemoryInv, TypeOK, paging
  <1>3. Levelled'
    BY <1>1 DEF MemoryInv, Levelled, LinksFit, paging, Leaf, Present
  <1> QED
    BY <1>1, <1>2, <1>3

\* The boot code and the holders of frames.
LEMMA BootStep ==
    ASSUME MemoryInv, UNCHANGED paging,
           \/ \E r \in Usable : AddRegion(r)
           \/ \E r \in Reserved : ReserveRegion(r)
           \/ StartUp
    PROVE  MemoryInv'
  <1> USE DEF MemoryInv
  <1>1. boot # "running" /\ runs = {} /\ runs' = {} /\ root = None /\ Tables = {}
    BY DEF BootFirst, AddRegion, ReserveRegion, StartUp
  <1>2. HeldFrames = {} /\ HeldFrames' = {}
    BY <1>1 DEF HeldFrames
  <1>3. FrameTypeOK' /\ FramesAccounted'
    <2>1. FrameTypeOK /\ used = Cardinality(taken) /\ taken = withheld
      BY <1>1, <1>2 DEF TypeOK, FramesAccounted
    <2>2. Tables' = {}
      BY <1>1 DEF Tables, paging
    <2>3. CASE \E r \in Usable : AddRegion(r)
      <3>1. PICK r \in Usable : AddRegion(r)
        BY <2>3
      <3>2. Inside(r) \in SUBSET Frames
        BY DEF Inside
      <3>3. used' = Cardinality(taken') /\ used' \in 0 .. Count
        <4>1. Cardinality(taken \ Inside(r)) = used - Cardinality(Inside(r) \cap taken)
          BY <2>1, <3>2, CountBits DEF FrameTypeOK
        <4>2. taken \ Inside(r) \in SUBSET Frames
          BY <2>1 DEF FrameTypeOK
        <4>3. Cardinality(taken \ Inside(r)) \in 0 .. Count
          BY <4>2, CountBits
        <4> QED
          BY <3>1, <4>1, <4>3 DEF AddRegion
      <3>4. FrameTypeOK'
        BY <2>1, <3>1, <3>2, <3>3, <1>1 DEF AddRegion, FrameTypeOK
      <3>5. taken' = withheld'
        BY <2>1, <3>1 DEF AddRegion
      <3> QED
        BY <1>1, <1>2, <2>2, <3>3, <3>4, <3>5 DEF FramesAccounted
    <2>4. CASE \E r \in Reserved : ReserveRegion(r)
      <3>1. PICK r \in Reserved : ReserveRegion(r)
        BY <2>4
      <3>2. Outside(r) \in SUBSET Frames
        BY DEF Outside
      <3>3. used' = Cardinality(taken')
        BY <2>1, <3>1, <3>2, CountBits DEF ReserveRegion, FrameTypeOK
      <3>4. taken' \in SUBSET Frames
        BY <2>1, <3>1, <3>2 DEF ReserveRegion, FrameTypeOK
      <3>5. used' \in 0 .. Count
        BY <3>3, <3>4, CountBits
      <3>6. FrameTypeOK'
        BY <2>1, <3>1, <3>2, <3>4, <3>5, <1>1 DEF ReserveRegion, FrameTypeOK
      <3>7. taken' = withheld'
        BY <2>1, <3>1 DEF ReserveRegion
      <3> QED
        BY <1>1, <1>2, <2>2, <3>3, <3>6, <3>7 DEF FramesAccounted
    <2>5. CASE StartUp
      BY <1>1, <1>2, <2>1, <2>2, <2>5 DEF StartUp, allocator, FrameTypeOK, FramesAccounted
    <2> QED
      BY <2>3, <2>4, <2>5
  <1>4. TypeOK' /\ Levelled'
    BY <1>3, PagingUnchanged
  <1>5. BootFirst'
    BY <1>1 DEF BootFirst, paging, Tables
  <1> QED
    BY <1>3, <1>4, <1>5

\* What a new holding adds, and what an old one gives back.
LEMMA HeldGrows ==
    ASSUME NEW r, runs' = runs \cup {r}
    PROVE  HeldFrames' = HeldFrames \cup Run(r.first, r.count)
  BY DEF HeldFrames

LEMMA HeldShrinks ==
    ASSUME FramesAccounted, NEW r \in runs, runs' = runs \ {r}
    PROVE  HeldFrames' = HeldFrames \ Run(r.first, r.count)
  BY DEF HeldFrames, FramesAccounted

\* A run of free frames gets a holder.
LEMMA HoldStep ==
    ASSUME MemoryInv, boot = "running", UNCHANGED <<bootVars, paging>>,
           NEW first \in Frames, NEW count \in Nat \ {0}, Available(first, count),
           taken' = taken \cup Run(first, count),
           used' = used + Cardinality(Run(first, count) \ taken),
           hint' \in 0 .. Count,
           runs' = runs \cup {[first |-> first, count |-> count]}
    PROVE  MemoryInv'
  <1> USE DEF MemoryInv
  <1> DEFINE R == Run(first, count)
  <1>1. R \in SUBSET Frames /\ R \cap taken = {} /\ count \in 1 .. Count
    BY FrameAssumption DEF Available, Run, Frames, End
  <1>2. FrameTypeOK /\ used = Cardinality(taken)
    BY DEF TypeOK, FramesAccounted
  <1>3. used' = Cardinality(taken')
    BY <1>1, <1>2, CountBits DEF FrameTypeOK
  <1>4. taken' \in SUBSET Frames
    BY <1>1, <1>2 DEF FrameTypeOK
  <1>5. used' \in 0 .. Count
    BY <1>3, <1>4, CountBits
  <1>6. FrameTypeOK'
    BY <1>1, <1>2, <1>4, <1>5 DEF FrameTypeOK, bootVars
  <1>7. TypeOK' /\ Levelled' /\ Tables' = Tables
    BY <1>6, PagingUnchanged
  <1>8. HeldFrames' = HeldFrames \cup R
    <2> DEFINE held == [first |-> first, count |-> count]
    <2>1. HeldFrames' = HeldFrames \cup Run(held.first, held.count)
      BY HeldGrows
    <2> QED
      BY <2>1
  <1>9. FramesAccounted'
    <2>1. taken' = withheld' \cup HeldFrames' \cup Tables'
      BY <1>7, <1>8 DEF FramesAccounted, bootVars
    <2>2. withheld \subseteq taken /\ HeldFrames \subseteq taken /\ Tables \subseteq taken
      BY DEF FramesAccounted
    <2>3. /\ withheld' \cap (HeldFrames' \cup Tables') = {}
          /\ Tables' \cap HeldFrames' = {}
      BY <1>1, <1>7, <1>8, <2>2 DEF FramesAccounted, bootVars
    <2>4. \A q \in runs : Run(q.first, q.count) \cap R = {}
      BY <1>1, <2>2 DEF HeldFrames
    <2>5. \A r, q \in runs' : r # q => Run(r.first, r.count) \cap Run(q.first, q.count) = {}
      BY <2>4 DEF FramesAccounted
    <2> QED
      BY <1>3, <2>1, <2>3, <2>5 DEF FramesAccounted
  <1>10. BootFirst'
    BY <1>7 DEF BootFirst, bootVars, paging
  <1> QED
    BY <1>7, <1>9, <1>10

LEMMA AllocFrameStep ==
    ASSUME MemoryInv, UNCHANGED paging, AllocFrame
    PROVE  MemoryInv'
  <1>1. FrameTypeOK /\ used = Cardinality(taken) /\ TakeNext
    BY DEF MemoryInv, TypeOK, FramesAccounted, AllocFrame
  <1>2. /\ NextFree \in Frames \ taken /\ taken' = taken \cup {NextFree}
        /\ hint' \in 0 .. Count
    BY <1>1, TakeNextCounts
  <1>3. NextFree \in Nat /\ Run(NextFree, 1) = {NextFree}
    BY <1>2, RunOfOne, FrameAssumption DEF Frames
  <1>4. Available(NextFree, 1)
    BY <1>2, <1>3, FrameAssumption DEF Available, Frames, End
  <1>5. Cardinality({NextFree} \ taken) = 1
    <2>1. {NextFree} \ taken = {NextFree}
      BY <1>2
    <2> QED
      BY <2>1, FS_Singleton
  <1>6. used' = used + Cardinality(Run(NextFree, 1) \ taken)
    BY <1>1, <1>3, <1>5 DEF TakeNext
  <1> QED
    BY <1>2, <1>3, <1>4, <1>6, HoldStep DEF AllocFrame

LEMMA AllocContiguousStep ==
    ASSUME MemoryInv, UNCHANGED paging,
           NEW n \in RunLengths, NEW a \in Alignments, AllocContiguous(n, a)
    PROVE  MemoryInv'
  <1> DEFINE first == Candidate(n, a)
  <1>1. first \in Frames /\ n \in Nat \ {0}
    BY FrameAssumption DEF AllocContiguous, Available
  <1>2. hint' \in 0 .. Count
    BY DEF MemoryInv, TypeOK, FrameTypeOK, AllocContiguous
  <1> HIDE DEF first
  <1> QED
    BY <1>1, <1>2, HoldStep DEF AllocContiguous, first

LEMMA FreeRunStep ==
    ASSUME MemoryInv, UNCHANGED paging, NEW r \in runs, FreeRun(r)
    PROVE  MemoryInv'
  <1> USE DEF MemoryInv
  <1> DEFINE R == Run(r.first, r.count)
  <1>1. FrameTypeOK /\ used = Cardinality(taken)
    BY DEF TypeOK, FramesAccounted
  <1>2. r.first \in Frames /\ r.first \in Nat /\ r.count \in Nat
    BY <1>1, FrameAssumption DEF FrameTypeOK, Frames
  <1>3. R \in SUBSET Frames /\ R \cap taken = R /\ Cardinality(R) = r.count
    BY <1>1, <1>2, RunFinite DEF FreeRun, FrameTypeOK
  <1>4. taken' = taken \ R /\ taken' \in SUBSET Frames
    BY <1>1 DEF FreeRun, FrameTypeOK
  <1>5. Cardinality(taken \ R) = Cardinality(taken) - Cardinality(R \cap taken)
    BY <1>1, <1>3, CountBits DEF FrameTypeOK
  <1>6. used' = Cardinality(taken')
    BY <1>1, <1>3, <1>4, <1>5 DEF FreeRun
  <1>7. used' \in 0 .. Count
    BY <1>4, <1>6, CountBits
  <1>8. hint' \in 0 .. Count
    BY <1>1, <1>2, FrameAssumption DEF FreeRun, FrameTypeOK, Frames
  <1>9. FrameTypeOK'
    BY <1>1, <1>4, <1>7, <1>8 DEF FreeRun, bootVars, FrameTypeOK
  <1>10. TypeOK' /\ Levelled' /\ Tables' = Tables
    BY <1>9, PagingUnchanged
  <1>11. HeldFrames' = HeldFrames \ R
    BY HeldShrinks DEF FreeRun
  <1>12. FramesAccounted'
    <2>1. R \subseteq HeldFrames
      BY DEF HeldFrames
    <2>2. taken' = withheld' \cup HeldFrames' \cup Tables'
      BY <1>4, <1>10, <1>11, <2>1 DEF FramesAccounted, FreeRun, bootVars
    <2>3. /\ withheld' \cap (HeldFrames' \cup Tables') = {}
          /\ Tables' \cap HeldFrames' = {}
      BY <1>10, <1>11 DEF FramesAccounted, FreeRun, bootVars
    <2>4. \A p, q \in runs' : p # q => Run(p.first, p.count) \cap Run(q.first, q.count) = {}
      BY DEF FramesAccounted, FreeRun
    <2> QED
      BY <1>6, <2>2, <2>3, <2>4 DEF FramesAccounted
  <1>13. BootFirst'
    BY <1>10 DEF BootFirst, FreeRun, bootVars, paging
  <1> QED
    BY <1>10, <1>12, <1>13

-----------------------------------------------------------------------------
(* Steps of the tables *)

\* A frame becomes a table.
LEMMA NewTableAccounted ==
    ASSUME MemoryInv, TakeNext, UNCHANGED <<bootVars, runs>>,
           Tables' = Tables \cup {NextFree}
    PROVE  FrameTypeOK' /\ FramesAccounted' /\ NextFree \in Frames \ Tables
  <1> USE DEF MemoryInv
  <1>1. FrameTypeOK /\ used = Cardinality(taken)
    BY DEF TypeOK, FramesAccounted
  <1>2. /\ NextFree \in Frames \ taken
        /\ taken' = taken \cup {NextFree}
        /\ used' = Cardinality(taken') /\ used' \in 0 .. Count
        /\ hint' \in 0 .. Count
    BY <1>1, TakeNextCounts
  <1>3. FrameTypeOK'
    BY <1>1, <1>2 DEF FrameTypeOK, bootVars
  <1>4. HeldFrames' = HeldFrames
    BY DEF HeldFrames
  <1>5. withheld \subseteq taken /\ HeldFrames \subseteq taken /\ Tables \subseteq taken
    BY DEF FramesAccounted
  <1>6. FramesAccounted'
    <2>1. taken' = withheld' \cup HeldFrames' \cup Tables'
      BY <1>2, <1>4 DEF FramesAccounted, bootVars
    <2>2. withheld' \cap (HeldFrames' \cup Tables') = {} /\ Tables' \cap HeldFrames' = {}
      BY <1>2, <1>4, <1>5 DEF FramesAccounted, bootVars
    <2>3. \A p, q \in runs' : p # q => Run(p.first, p.count) \cap Run(q.first, q.count) = {}
      BY DEF FramesAccounted
    <2> QED
      BY <1>2, <2>1, <2>2, <2>3 DEF FramesAccounted
  <1> QED
    BY <1>2, <1>3, <1>5, <1>6

\* The entries of a new state are old ones, empty ones, or the one put in.
LEMMA MakeRootStep ==
    ASSUME MemoryInv, MakeRoot PROVE MemoryInv'
  <1> USE DEF MemoryInv
  <1>1. Tables = {} /\ walk = None /\ walk' = None /\ Tables' = {NextFree}
    BY DEF MakeRoot, BootFirst, Tables
  <1>2. FrameTypeOK' /\ FramesAccounted' /\ NextFree \in Frames
    BY <1>1, NewTableAccounted DEF MakeRoot
  <1>3. entry' = [t \in {NextFree} |-> EmptyTable] /\ root' = NextFree
    BY DEF MakeRoot
  <1>4. \A t \in Tables' : entry'[t] = EmptyTable
    BY <1>1, <1>3
  <1>5. EmptyTable \in [Indices -> Entries \cup {Empty}]
    BY DEF EmptyTable
  <1>6. TypeOK'
    BY <1>1, <1>2, <1>3, <1>4, <1>5 DEF TypeOK
  <1>7. BootFirst'
    BY <1>1, <1>2, <1>3, NoneIsNoFrame DEF BootFirst, MakeRoot, bootVars
  <1>8. Levelled'
    <2> DEFINE lev == [t \in {NextFree} |-> Levels]
    <2>1. lev \in [Tables' -> 1 .. Levels] /\ lev[NextFree] = Levels
      BY <1>1, PagingAssumption
    <2>2. \A t \in Tables', i \in Indices : ~Present(entry'[t][i])
      BY <1>4 DEF EmptyTable, Empty, Present
    <2>3. \A t \in Tables', i \in Indices : ~Present(entry[t][i])'
      BY <2>2 DEF Present
    <2> QED
      BY <1>1, <1>3, <2>1, <2>3 DEF Levelled, LinksFit
  <1> QED
    BY <1>2, <1>6, <1>7, <1>8

LEMMA MapBeginStep ==
    ASSUME MemoryInv, NEW r \in Requests, MapBegin(r) PROVE MemoryInv'
  <1> USE DEF MemoryInv
  <1>1. UNCHANGED <<taken, used, hint, boot, withheld, reserved, runs, root, entry>>
    BY DEF MapBegin, frameVars, allocator, bootVars
  <1>2. Tables' = Tables /\ HeldFrames' = HeldFrames
    BY <1>1 DEF Tables, HeldFrames
  <1>3. PICK lev \in [Tables -> 1 .. Levels] :
           (root # None => root \in Tables /\ lev[root] = Levels) /\ LinksFit(lev)
    BY DEF Levelled
  <1>4. root # None /\ walk' = [request |-> r, table |-> root, level |-> Levels]
    BY DEF MapBegin
  <1>5. TypeOK'
    <2>1. FrameTypeOK'
      BY <1>1 DEF TypeOK, FrameTypeOK
    <2>2. walk' \in [request : Requests, table : Tables', level : 1 .. Levels]
      BY <1>2, <1>3, <1>4, PagingAssumption
    <2> QED
      BY <1>1, <1>2, <2>1, <2>2 DEF TypeOK
  <1>6. FramesAccounted'
    BY <1>1, <1>2 DEF FramesAccounted
  <1>7. BootFirst'
    BY <1>1, <1>4 DEF BootFirst
  <1>8. Levelled'
    <2>1. lev[walk'.table] = walk'.level
      BY <1>3, <1>4
    <2> QED
      BY <1>1, <1>2, <1>3, <2>1 DEF Levelled, LinksFit, Present, Leaf
  <1> QED
    BY <1>5, <1>6, <1>7, <1>8

\* Frames do not change hands in a step of the tables that takes none.
LEMMA FramesUnchanged ==
    ASSUME MemoryInv, UNCHANGED <<frameVars, root>>, Tables' = Tables
    PROVE  FrameTypeOK' /\ FramesAccounted'
  <1>1. UNCHANGED <<taken, used, hint, boot, withheld, reserved, runs>>
    BY DEF frameVars, allocator, bootVars
  <1>2. HeldFrames' = HeldFrames
    BY <1>1 DEF HeldFrames
  <1> QED
    BY <1>1, <1>2 DEF MemoryInv, TypeOK, FrameTypeOK, FramesAccounted

\* A walk ends, or an entry is cleared: what is present then was there before,
\* or is a leaf where the walk stood.
LEMMA WalkEnds ==
    ASSUME MemoryInv, UNCHANGED <<frameVars, root>>, walk' = None,
           entry' \in [Tables -> [Indices -> Entries \cup {Empty}]],
           \A t \in Tables, i \in Indices :
               \/ entry'[t][i] = entry[t][i]
               \/ entry'[t][i] = Empty
               \/ walk # None /\ t = walk.table /\ Leaf(entry'[t][i], walk.level)
    PROVE  MemoryInv'
  <1> USE DEF MemoryInv
  <1>1. Tables' = Tables
    BY DEF Tables
  <1>2. FrameTypeOK' /\ FramesAccounted'
    BY <1>1, FramesUnchanged
  <1>3. TypeOK'
    BY <1>1, <1>2 DEF TypeOK
  <1>4. BootFirst'
    BY <1>1 DEF BootFirst, frameVars, bootVars
  <1>5. Levelled'
    <2>1. PICK lev \in [Tables -> 1 .. Levels] :
             /\ root # None => root \in Tables /\ lev[root] = Levels
             /\ walk # None => lev[walk.table] = walk.level
             /\ LinksFit(lev)
      BY DEF Levelled
    <2>2. ASSUME NEW t \in Tables, NEW i \in Indices,
                 Present(entry'[t][i]), ~Leaf(entry'[t][i], lev[t])
          PROVE  /\ lev[t] > 1
                 /\ entry'[t][i].frame \in Tables
                 /\ lev[entry'[t][i].frame] = lev[t] - 1
      <3>1. entry'[t][i] = entry[t][i]
        BY <2>1, <2>2 DEF Empty, Present
      <3> QED
        BY <2>1, <2>2, <3>1 DEF LinksFit
    <2>3. LinksFit(lev)'
      BY <1>1, <2>2 DEF LinksFit, Present, Leaf
    <2> QED
      BY <1>1, <2>1, <2>3 DEF Levelled
  <1> QED
    BY <1>2, <1>3, <1>4, <1>5

LEMMA MapRefusedStep ==
    ASSUME MemoryInv, MapRefused PROVE MemoryInv'
  <1>1. entry \in [Tables -> [Indices -> Entries \cup {Empty}]]
    BY DEF MemoryInv, TypeOK, Tables
  <1> QED
    BY <1>1, WalkEnds DEF MapRefused

LEMMA UnmapPageStep ==
    ASSUME MemoryInv, NEW page \in Pages, UnmapPage(page) PROVE MemoryInv'
  <1> DEFINE place == LeafPlace(page)
             at == Index(page, place.level)
  <1>1. entry \in [Tables -> [Indices -> Entries \cup {Empty}]]
    BY DEF MemoryInv, TypeOK, Tables
  <1>2. entry' = [entry EXCEPT ![place.table][at] = Empty]
    BY DEF UnmapPage
  <1> HIDE DEF place, at
  <1>3. entry' \in [Tables -> [Indices -> Entries \cup {Empty}]]
    BY <1>1, <1>2
  <1>4. \A t \in Tables, i \in Indices :
           entry'[t][i] = entry[t][i] \/ entry'[t][i] = Empty
    BY <1>1, <1>2
  <1>5. walk' = None /\ UNCHANGED <<frameVars, root>>
    BY DEF UnmapPage
  <1> QED
    BY <1>3, <1>4, <1>5, WalkEnds

LEMMA MapSetStep ==
    ASSUME MemoryInv, MapSet PROVE MemoryInv'
  <1> DEFINE r == walk.request
             leaf == [frame |-> r.frame, flags |-> r.flags, huge |-> walk.level > 1]
             at == Index(r.page, walk.level)
  <1>1. entry \in [Tables -> [Indices -> Entries \cup {Empty}]]
    BY DEF MemoryInv, TypeOK, Tables
  <1>2. /\ walk # None /\ walk.level = r.terminal /\ r \in Requests
        /\ entry' = [entry EXCEPT ![walk.table][at] = leaf]
        /\ walk' = None /\ UNCHANGED <<frameVars, root>>
    BY DEF MapSet, AtTerminal, Put, MemoryInv, TypeOK
  <1>3. r.frame \in Nat /\ r.flags \in Flags /\ r.terminal \in 1 .. 3
    BY <1>2, PagingAssumption
  <1>4. leaf \in Entries
    BY <1>3 DEF Entries
  <1>5. Leaf(leaf, walk.level)
    <2>1. Present(leaf)
      BY <1>3, FrameAssumption DEF Present
    <2>2. walk.level = 1 \/ (walk.level \in {2, 3} /\ walk.level > 1)
      BY <1>2, <1>3
    <2>3. leaf.huge = (walk.level > 1)
      BY Zenon
    <2> QED
      BY <2>1, <2>2, <2>3, Zenon DEF Leaf
  <1> HIDE DEF leaf, at, r
  <1>6. entry' \in [Tables -> [Indices -> Entries \cup {Empty}]]
    BY <1>1, <1>2, <1>4
  <1>7. \A t \in Tables, i \in Indices :
           entry'[t][i] = entry[t][i] \/ (t = walk.table /\ entry'[t][i] = leaf)
    BY <1>1, <1>2
  <1> QED
    BY <1>2, <1>5, <1>6, <1>7, WalkEnds

LEMMA MapDescendStep ==
    ASSUME MemoryInv, MapDescend PROVE MemoryInv'
  <1> USE DEF MemoryInv
  <1>1. /\ walk # None /\ walk.level > walk.request.terminal
        /\ UNCHANGED <<frameVars, root, entry>>
    BY DEF MapDescend, Above
  <1>2. PICK i \in Indices :
           LET e == entry[walk.table][i]
           IN  /\ Present(e) /\ ~Leaf(e, walk.level)
               /\ walk' = [walk EXCEPT !.table = e.frame, !.level = @ - 1]
    <2>1. PICK e \in Here : Present(e) /\ ~Leaf(e, walk.level) /\ Down(e.frame)
      BY DEF MapDescend
    <2>2. PICK i \in Indices : e = entry[walk.table][i]
      BY <1>1, <2>1 DEF Here, EntriesOf
    <2> QED
      BY <2>1, <2>2 DEF Down
  <1>3. PICK lev \in [Tables -> 1 .. Levels] :
           /\ root # None => root \in Tables /\ lev[root] = Levels
           /\ walk # None => lev[walk.table] = walk.level
           /\ LinksFit(lev)
    BY DEF Levelled
  <1> DEFINE next == entry[walk.table][i].frame
  <1>4. walk \in [request : Requests, table : Tables, level : 1 .. Levels]
    BY <1>1 DEF TypeOK
  <1>5. next \in Tables /\ lev[next] = walk.level - 1
    BY <1>1, <1>2, <1>3, <1>4 DEF LinksFit
  <1>6. walk' = [request |-> walk.request, table |-> next, level |-> walk.level - 1]
    BY <1>2, <1>4
  <1>7. Tables' = Tables
    BY <1>1 DEF Tables
  <1>8. FrameTypeOK' /\ FramesAccounted'
    BY <1>1, <1>7, FramesUnchanged
  <1> HIDE DEF next
  <1>9. walk'.level \in 1 .. Levels /\ walk'.level = lev[next]
    BY <1>3, <1>5, <1>6
  <1>10. TypeOK'
    <2>1. walk' \in [request : Requests, table : Tables', level : 1 .. Levels]
      BY <1>4, <1>5, <1>6, <1>7, <1>9
    <2> QED
      BY <1>1, <1>7, <1>8, <2>1 DEF TypeOK
  <1>11. BootFirst'
    BY <1>1, <1>7 DEF BootFirst, frameVars, bootVars
  <1>12. Levelled'
    <2>1. LinksFit(lev)'
      BY <1>1, <1>3, <1>7 DEF LinksFit, Present, Leaf
    <2>2. lev[walk'.table] = walk'.level
      BY <1>6, <1>9
    <2> QED
      BY <1>1, <1>3, <1>7, <2>1, <2>2 DEF Levelled
  <1> QED
    BY <1>8, <1>10, <1>11, <1>12

LEMMA MapGrowStep ==
    ASSUME MemoryInv, MapGrow PROVE MemoryInv'
  <1> USE DEF MemoryInv
  <1> DEFINE new == NextFree
             at == Index(walk.request.page, walk.level)
             link == [frame |-> new, huge |-> FALSE,
                      flags |-> Intermediate(walk.request.flags.user)]
  <1>1. /\ walk # None /\ walk.level > walk.request.terminal
        /\ TakeNext /\ UNCHANGED <<bootVars, runs, root>>
        /\ walk' = [walk EXCEPT !.table = new, !.level = @ - 1]
        /\ entry' = [t \in Tables \cup {new} |->
                        IF t = new THEN EmptyTable ELSE Put(link)[t]]
    BY DEF MapGrow, Above, Down
  <1>2. walk \in [request : Requests, table : Tables, level : 1 .. Levels]
    BY <1>1 DEF TypeOK
  <1>3. walk.request.terminal \in 1 .. 3 /\ walk.request.flags \in Flags
    BY <1>2, PagingAssumption
  <1>4. Tables' = Tables \cup {new}
    BY <1>1 DEF Tables
  <1>5. FrameTypeOK' /\ FramesAccounted' /\ new \in Frames \ Tables /\ new \in Nat
    BY <1>1, <1>4, NewTableAccounted, FrameAssumption DEF Frames
  <1>6. link \in Entries
    BY <1>3, <1>5 DEF Entries, Flags, Intermediate
  <1>7. entry \in [Tables -> [Indices -> Entries \cup {Empty}]]
    BY DEF TypeOK
  <1>8. EmptyTable \in [Indices -> Entries \cup {Empty}]
    BY DEF EmptyTable
  <1> HIDE DEF link, new, at
  <1>9. Put(link) \in [Tables -> [Indices -> Entries \cup {Empty}]]
    BY <1>6, <1>7 DEF Put
  <1>10. \A t \in Tables, i \in Indices :
            Put(link)[t][i] = entry[t][i] \/ (t = walk.table /\ Put(link)[t][i] = link)
    BY <1>7 DEF Put
  <1>11. walk' = [request |-> walk.request, table |-> new, level |-> walk.level - 1]
    BY <1>1, <1>2
  <1>12. walk.level - 1 \in 1 .. Levels /\ walk.level > 1
    BY <1>1, <1>2, <1>3, PagingAssumption
  <1>13. TypeOK'
    <2>1. entry' \in [Tables' -> [Indices -> Entries \cup {Empty}]]
      BY <1>1, <1>4, <1>8, <1>9
    <2>2. walk' \in [request : Requests, table : Tables', level : 1 .. Levels]
      BY <1>2, <1>4, <1>11, <1>12
    <2> QED
      BY <1>1, <1>4, <1>5, <2>1, <2>2 DEF TypeOK
  <1>14. BootFirst'
    BY <1>1 DEF BootFirst, bootVars
  <1>15. Levelled'
    <2>1. PICK old \in [Tables -> 1 .. Levels] :
             /\ root # None => root \in Tables /\ old[root] = Levels
             /\ walk # None => old[walk.table] = walk.level
             /\ LinksFit(old)
      BY DEF Levelled
    <2>2. \E lev \in [Tables' -> 1 .. Levels] :
             lev[new] = walk.level - 1 /\ \A t \in Tables : lev[t] = old[t]
      <3> DEFINE extended ==
                   [t \in Tables \cup {new} |-> IF t = new THEN walk.level - 1 ELSE old[t]]
      <3>1. extended \in [Tables' -> 1 .. Levels]
        BY <1>4, <1>12, <2>1
      <3>2. extended[new] = walk.level - 1 /\ \A t \in Tables : extended[t] = old[t]
        BY <1>5
      <3> QED
        BY <3>1, <3>2
    <2>3. PICK lev \in [Tables' -> 1 .. Levels] :
             lev[new] = walk.level - 1 /\ \A t \in Tables : lev[t] = old[t]
      BY <2>2
    <2>4. ASSUME NEW t \in Tables', NEW i \in Indices,
                 Present(entry'[t][i]), ~Leaf(entry'[t][i], lev[t])
          PROVE  /\ lev[t] > 1
                 /\ entry'[t][i].frame \in Tables'
                 /\ lev[entry'[t][i].frame] = lev[t] - 1
      <3>1. t # new
        BY <1>1, <1>4, <2>4 DEF EmptyTable, Empty, Present
      <3>2. t \in Tables /\ entry'[t][i] = Put(link)[t][i]
        BY <1>1, <1>4, <3>1
      <3>3. CASE entry'[t][i] = entry[t][i]
        BY <1>4, <2>1, <2>3, <2>4, <3>2, <3>3 DEF LinksFit
      <3>4. CASE t = walk.table /\ entry'[t][i] = link
        <4>1. lev[t] = walk.level
          BY <1>1, <2>1, <2>3, <3>2, <3>4
        <4> QED
          BY <1>4, <1>12, <2>3, <3>4, <4>1 DEF link
      <3> QED
        BY <1>10, <3>2, <3>3, <3>4
    <2>5. LinksFit(lev)'
      BY <2>4 DEF LinksFit, Present, Leaf
    <2>6. root' # None => root' \in Tables' /\ lev[root'] = Levels
      BY <1>1, <1>4, <2>1, <2>3
    <2>7. lev[walk'.table] = walk'.level
      BY <1>11, <2>3
    <2> QED
      BY <2>5, <2>6, <2>7 DEF Levelled
  <1> QED
    BY <1>5, <1>13, <1>14, <1>15

-----------------------------------------------------------------------------
LEMMA MemoryStep == MemoryInv /\ [Next]_vars => MemoryInv'
  <1> SUFFICES ASSUME MemoryInv, [Next]_vars PROVE MemoryInv'
    OBVIOUS
  <1>1. CASE FrameNext /\ UNCHANGED paging
    BY <1>1, BootStep, AllocFrameStep, AllocContiguousStep, FreeRunStep DEF FrameNext
  <1>2. CASE MapNext
    BY <1>2, MakeRootStep, MapBeginStep, MapDescendStep, MapGrowStep, MapRefusedStep,
       MapSetStep DEF MapNext
  <1>3. CASE \E v \in Pages : UnmapPage(v)
    BY <1>3, UnmapPageStep
  <1>4. CASE UNCHANGED vars
    <2>1. UNCHANGED <<taken, used, hint, boot, withheld, reserved, runs, root, entry, walk>>
      BY <1>4 DEF vars, frameVars, allocator, bootVars, paging
    <2>2. Tables' = Tables /\ HeldFrames' = HeldFrames
      BY <2>1 DEF Tables, HeldFrames
    <2>3. TypeOK' /\ FramesAccounted' /\ BootFirst'
      BY <2>1, <2>2 DEF MemoryInv, TypeOK, FrameTypeOK, FramesAccounted, BootFirst
    <2>4. Levelled'
      BY <2>1, <2>2 DEF MemoryInv, Levelled, LinksFit, Present, Leaf
    <2> QED
      BY <2>3, <2>4 DEF MemoryInv
  <1> QED
    BY <1>1, <1>2, <1>3, <1>4 DEF Next

\* The invariant that carries the theorems below holds in every state.
THEOREM MemoryInvariant == Spec => []MemoryInv
  BY MemoryInit, MemoryStep, PTL DEF Spec

\* The variables keep their types: in particular map_page never reads a frame
\* that is no table (paging.rs:381-399).
THEOREM MemoryTypeOK == Spec => []TypeOK
  BY MemoryInvariant, PTL DEF MemoryInv

\* Whatever is added, reserved, allocated, freed, mapped and unmapped, every
\* frame has exactly one use, and the count is exact.
THEOREM MemoryFramesAccounted == Spec => []FramesAccounted
  BY MemoryInvariant, PTL DEF MemoryInv

-----------------------------------------------------------------------------
(* What is reserved stays withheld. *)

ReservedInv ==
    /\ boot = "adding" => reserved = {}
    /\ \A r \in reserved : Outside(r) \subseteq withheld

\* reserve_region rounds outward: a frame that holds a byte of the region is one
\* of those it marks (frame.rs:132-139).
LEMMA OutsideCovers ==
    ASSUME NEW r \in [start : Nat, len : Nat], NEW f \in Frames,
           f * PageSize < r.start + r.len, r.start < (f + 1) * PageSize
    PROVE  f \in Outside(r)
  <1> USE FrameAssumption
  <1> DEFINE first == r.start \div PageSize
             end == r.start + r.len
             last == CeilDiv(end, PageSize)
  <1>1. f \in Nat /\ end \in Nat /\ r.start \in Nat
    BY DEF Frames
  <1>2. first \in Nat /\ first * PageSize <= r.start
    BY <1>1, DivBounds
  <1>3. end + PageSize - 1 \in Nat
    BY <1>1
  <1>4. last \in Nat /\ end + PageSize - 1 < (last + 1) * PageSize
    BY <1>3, DivBounds DEF CeilDiv
  <1> HIDE DEF first, last, end
  <1>5. first <= f
    <2>1. SUFFICES ASSUME f + 1 <= first PROVE FALSE
      BY <1>1, <1>2
    <2>2. (f + 1) * PageSize <= first * PageSize
      BY <1>1, <1>2, <2>1, Times
    <2> QED
      BY <1>1, <1>2, <2>2
  <1>6. f <= last - 1
    <2>1. SUFFICES ASSUME last <= f PROVE FALSE
      BY <1>1, <1>4
    <2>2. last * PageSize <= f * PageSize
      BY <1>1, <1>4, <2>1, Times
    <2>3. (last + 1) * PageSize = last * PageSize + PageSize
      BY <1>4
    <2>4. f * PageSize < end /\ f * PageSize \in Nat /\ last * PageSize \in Nat
      BY <1>1, <1>4 DEF end
    <2> QED
      BY <1>1, <1>4, <2>2, <2>3, <2>4
  <1>7. f \in first .. last - 1
    BY <1>1, <1>2, <1>4, <1>5, <1>6
  <1> QED
    BY <1>7 DEF Outside, first, last, end

LEMMA ReservedStep == ReservedInv /\ [Next]_vars => ReservedInv'
  <1> SUFFICES ASSUME ReservedInv, [Next]_vars PROVE ReservedInv'
    OBVIOUS
  <1>1. ASSUME NEW r \in Usable, AddRegion(r) PROVE ReservedInv'
    BY <1>1 DEF AddRegion, ReservedInv
  <1>2. ASSUME NEW r \in Reserved, ReserveRegion(r) PROVE ReservedInv'
    BY <1>2 DEF ReserveRegion, ReservedInv
  <1>3. CASE StartUp
    BY <1>3 DEF StartUp, ReservedInv
  <1>4. CASE UNCHANGED bootVars
    BY <1>4 DEF bootVars, ReservedInv
  <1>5. CASE UNCHANGED vars
    BY <1>4, <1>5 DEF vars, frameVars
  <1>6. CASE FrameNext /\ UNCHANGED paging
    BY <1>1, <1>2, <1>3, <1>4, <1>6 DEF FrameNext, AllocFrame, AllocContiguous, FreeRun
  <1>7. CASE MapNext
    <2>1. UNCHANGED bootVars
      BY <1>7 DEF MapNext, MakeRoot, MapBegin, MapDescend, MapGrow, MapRefused, MapSet, frameVars
    <2> QED
      BY <1>4, <2>1
  <1>8. CASE \E v \in Pages : UnmapPage(v)
    BY <1>4, <1>8 DEF UnmapPage, frameVars
  <1> QED
    BY <1>5, <1>6, <1>7, <1>8 DEF Next

LEMMA ReservedFollows == MemoryInv /\ ReservedInv => ReservedWithheld
  <1> SUFFICES ASSUME MemoryInv, ReservedInv, NEW r \in reserved, NEW f \in Frames,
                      f * PageSize < r.start + r.len, r.start < (f + 1) * PageSize
               PROVE  f \in taken \ HeldFrames
    BY DEF ReservedWithheld
  <1>1. r \in [start : Nat, len : Nat]
    BY FrameAssumption DEF MemoryInv, TypeOK, FrameTypeOK
  <1>2. f \in withheld
    BY <1>1, OutsideCovers DEF ReservedInv
  <1> QED
    BY <1>2 DEF MemoryInv, FramesAccounted

\* Whatever the page size and the regions, and whoever allocates, no frame that
\* holds a byte of a reserved region is ever handed out.
THEOREM MemoryReservedWithheld == Spec => []ReservedWithheld
  <1>1. Init => ReservedInv
    BY DEF Init, FrameInit, ReservedInv
  <1>2. Spec => []ReservedInv
    BY <1>1, ReservedStep, PTL DEF Spec
  <1> QED
    BY <1>2, MemoryInvariant, ReservedFollows, PTL

-----------------------------------------------------------------------------
(* The searches find what there is. *)

LEMMA ModOfMultiple ==
    ASSUME NEW b \in Nat \ {0}, NEW q \in Nat
    PROVE  q * b \in Nat /\ (q * b) % b = 0
  <1>1. q * b \in Nat
    BY Z3
  <1> DEFINE x == q * b
             d == x \div b
  <1>2. d \in Nat /\ d * b <= x /\ x < (d + 1) * b
    BY <1>1, DivBounds
  <1>3. x % b = x - d * b
    BY <1>1, Z3
  <1> HIDE DEF d
  <1>4. ~(d + 1 <= q)
    <2>1. d + 1 <= q => (d + 1) * b <= q * b
      BY <1>2, Times
    <2>2. (d + 1) * b \in Nat
      BY <1>2, Z3
    <2> QED
      BY <1>1, <1>2, <2>1, <2>2
  <1>5. ~(q + 1 <= d)
    <2>1. q + 1 <= d => (q + 1) * b <= d * b
      BY <1>2, Times
    <2>2. (q + 1) * b = q * b + b /\ d * b \in Nat
      BY <1>2, Z3
    <2> QED
      BY <1>1, <1>2, <2>1, <2>2
  <1>6. d = q
    BY <1>2, <1>4, <1>5
  <1> QED
    BY <1>1, <1>3, <1>6

\* Rounding up to a multiple: the least one that is not below.
LEMMA AlignUpIsLeast ==
    ASSUME NEW a \in Nat, NEW b \in Nat \ {0}
    PROVE  /\ AlignUp(a, b) \in a .. a + b - 1 /\ AlignUp(a, b) % b = 0
           /\ \A x \in Nat : x >= a /\ x % b = 0 => AlignUp(a, b) <= x
  <1> DEFINE q == (a + b - 1) \div b
  <1>1. a + b - 1 \in Nat
    OBVIOUS
  <1>2. q \in Nat /\ q * b <= a + b - 1 /\ a + b - 1 < (q + 1) * b
    BY <1>1, DivBounds
  <1>3. AlignUp(a, b) = q * b
    BY DEF AlignUp, CeilDiv
  <1> HIDE DEF q
  <1>4. q * b \in Nat /\ (q * b) % b = 0 /\ (q + 1) * b = q * b + b
    BY <1>2, ModOfMultiple, Z3
  <1>5. AlignUp(a, b) \in a .. a + b - 1
    BY <1>2, <1>3, <1>4
  <1>6. ASSUME NEW x \in Nat, x >= a, x % b = 0 PROVE q * b <= x
    <2> DEFINE k == x \div b
    <2>1. k \in Nat /\ k * b <= x
      BY DivBounds
    <2>2. x = k * b
      BY <1>6, Z3
    <2> HIDE DEF k
    <2>3. SUFFICES ASSUME k + 1 <= q PROVE FALSE
      <3>1. k >= q => q * b <= k * b
        BY <1>2, <2>1, Times
      <3> QED
        BY <1>2, <2>1, <2>2, <3>1
    <2>4. (k + 1) * b <= q * b
      BY <1>2, <2>1, <2>3, Times
    <2>5. (k + 1) * b = k * b + b
      BY <2>1, Z3
    <2> QED
      BY <1>2, <1>4, <1>6, <2>2, <2>4, <2>5
  <1> QED
    BY <1>3, <1>4, <1>5, <1>6

\* Where the search of alloc_contiguous ends, for any request.
LEMMA CandidateFound ==
    ASSUME taken \subseteq Frames, NEW n \in RunLengths, NEW a \in Alignments
    PROVE  /\ Candidate(n, a) % a = 0
           /\ (\E c \in Frames : c % a = 0 /\ Available(c, n)) => Available(Candidate(n, a), n)
  <1> DEFINE last == End + a
             done == {c \in Base .. last : c + n > End \/ Available(c, n)}
             next == [c \in Base .. last |-> Resume(c, Min(Run(c, n) \cap taken), n, a)]
             Defines(f) == f = [c \in Base .. last |->
                 IF c + n > End \/ Available(c, n) THEN c
                 ELSE f[Resume(c, Min(Run(c, n) \cap taken), n, a)]]
             from == CHOOSE f : Defines(f)
  <1>1. /\ Base \in Nat /\ Count \in Nat /\ n \in Nat \ {0} /\ a \in Nat \ {0}
        /\ End \in Nat /\ last \in Nat /\ End = Base + Count
    BY FrameAssumption DEF End
  <1>2. ASSUME NEW c \in Base .. last, c \notin done
        PROVE  \E blocker \in Run(c, n) \cap taken :
                   blocker \in c .. End - 1 /\ next[c] = AlignUp(blocker + 1, a)
    <2>1. c + n <= End /\ c \in Frames
      BY <1>1, <1>2 DEF Frames
    <2>2. Run(c, n) \cap taken # {}
      BY <1>2, <2>1 DEF Available
    <2>3. Run(c, n) \cap taken \in SUBSET Nat
      BY <1>1 DEF Run
    <2>4. Min(Run(c, n) \cap taken) \in Run(c, n) \cap taken
      BY <2>2, <2>3, MinOfNat
    <2>5. \A b \in Run(c, n) : b \in c .. End - 1
      BY <1>1, <2>1 DEF Run
    <2> QED
      BY <2>4, <2>5 DEF Resume
  <1>3. \A c \in Base .. last : c \in done \/ next[c] \in c + 1 .. last
    <2> SUFFICES ASSUME NEW c \in Base .. last, c \notin done PROVE next[c] \in c + 1 .. last
      OBVIOUS
    <2> HIDE DEF done, next, last
    <2>1. PICK b \in c .. End - 1 : next[c] = AlignUp(b + 1, a)
      BY <1>2
    <2> DEFINE u == b + 1
    <2>2. u \in Nat
      BY <1>1, <2>1
    <2>3. AlignUp(u, a) \in u .. u + a - 1
      <3> HIDE DEF u
      <3> QED
        BY <1>1, <2>2, AlignUpIsLeast
    <2> QED
      BY <1>1, <2>1, <2>3 DEF last
  <1>4. \E f : Defines(f)
    <2>1. \E f : Searches(f, Base, last, done, next)
      <3> HIDE DEF done, next, last
      <3> QED
        BY <1>1, <1>3, SearchRecursion
    <2> QED
      BY <2>1 DEF Searches
  <1>5. Defines(from)
    <2> HIDE DEF Defines
    <2> QED
      BY <1>4
  <1> DEFINE start == AlignUp(Base, a)
  <1>6. Candidate(n, a) = from[start]
    BY DEF Candidate
  <1> HIDE DEF from
  <1>7. \A c \in Base .. last : from[c] = IF c \in done THEN c ELSE from[next[c]]
    BY <1>5
  <1>8. start \in Base .. last /\ start % a = 0
    <2>1. AlignUp(Base, a) \in Base .. Base + a - 1 /\ AlignUp(Base, a) % a = 0
      <3> HIDE DEF last, done, next, Defines
      <3> QED
        BY <1>1, AlignUpIsLeast
    <2> QED
      BY <1>1, <2>1
  <1> HIDE DEF start
  <1> DEFINE Ends(c) == c % a = 0 =>
                 /\ from[c] \in done /\ from[c] % a = 0
                 /\ \A x \in Frames : x >= c /\ x % a = 0 /\ Available(x, n)
                        => Available(from[c], n)
             Good == {k \in Nat : \A c \in Base .. last : c >= last - k => Ends(c)}
  <1>9. ASSUME NEW c \in Base .. last, \A d \in c + 1 .. last : Ends(d) PROVE Ends(c)
    <2> SUFFICES ASSUME c % a = 0
                 PROVE  /\ from[c] \in done /\ from[c] % a = 0
                        /\ \A x \in Frames : x >= c /\ x % a = 0 /\ Available(x, n)
                               => Available(from[c], n)
      OBVIOUS
    <2>1. CASE c \in done
      <3>1. from[c] = c
        BY <1>7, <2>1
      <3>2. ASSUME NEW x \in Frames, x >= c, Available(x, n) PROVE Available(c, n)
        BY <1>1, <2>1, <3>2 DEF Available, Frames
      <3> QED
        BY <2>1, <3>1, <3>2
    <2>2. CASE c \notin done
      <3>1. PICK b \in Run(c, n) \cap taken : b \in c .. End - 1 /\ next[c] = AlignUp(b + 1, a)
        BY <1>2, <2>2
      <3>2. /\ next[c] \in c + 1 .. last /\ next[c] % a = 0 /\ b + 1 \in Nat
            /\ \A x \in Nat : x >= b + 1 /\ x % a = 0 => next[c] <= x
        <4> DEFINE u == b + 1
        <4>1. u \in Nat
          BY <1>1, <3>1
        <4>2. /\ AlignUp(u, a) % a = 0
              /\ \A x \in Nat : x >= u /\ x % a = 0 => AlignUp(u, a) <= x
          <5> HIDE DEF u
          <5> QED
            BY <1>1, <4>1, AlignUpIsLeast
        <4> HIDE DEF next, done, last
        <4> QED
          BY <1>3, <2>2, <3>1, <4>1, <4>2
      <3>3. from[c] = from[next[c]]
        BY <1>7, <2>2
      <3>4. Ends(next[c])
        <4> HIDE DEF Ends, next
        <4> QED
          BY <1>9, <3>2
      <3>5. ASSUME NEW x \in Frames, x >= c, x % a = 0, Available(x, n) PROVE x >= next[c]
        <4>1. x \in Nat
          BY <1>1 DEF Frames
        <4>2. x >= b + 1
          <5>1. SUFFICES ASSUME x <= b PROVE FALSE
            BY <3>1, <4>1
          <5>2. b \in Run(x, n)
            BY <1>1, <3>1, <3>5, <4>1, <5>1 DEF Run
          <5> QED
            BY <3>1, <3>5, <5>2 DEF Available
        <4> HIDE DEF next
        <4> QED
          BY <3>2, <3>5, <4>1, <4>2
      <3> HIDE DEF next, done
      <3> QED
        BY <3>2, <3>3, <3>4, <3>5
    <2> QED
      BY <2>1, <2>2
  <1>10. 0 \in Good
    <2>1. \A c \in Base .. last : c >= last => c = last
      BY <1>1
    <2>2. last \in Base .. last /\ \A d \in last + 1 .. last : Ends(d)
      BY <1>1
    <2>3. Ends(last)
      <3> HIDE DEF Ends, last
      <3> QED
        BY <1>9, <2>2
    <2> HIDE DEF Ends, last
    <2> QED
      BY <1>1, <2>1, <2>3
  <1>11. ASSUME NEW k \in Nat, k \in Good PROVE k + 1 \in Good
    <2> HIDE DEF Ends
    <2>1. ASSUME NEW c \in Base .. last, c >= last - (k + 1) PROVE Ends(c)
      <3>1. \A d \in c + 1 .. last : d \in Base .. last /\ d >= last - k
        BY <1>1, <2>1
      <3> QED
        BY <1>9, <1>11, <3>1
    <2> QED
      BY <2>1
  <1>12. Ends(start)
    <2>1. Nat \subseteq Good
      <3> HIDE DEF Good
      <3> QED
        BY <1>10, <1>11, SetInduction
    <2>2. last \in Good /\ start >= last - last
      <3> HIDE DEF Good, last
      <3> QED
        BY <1>1, <1>8, <2>1
    <2> HIDE DEF Ends
    <2> QED
      BY <1>8, <2>2
  <1> QED
    <2>1. \A c \in Frames : c >= start \/ c % a # 0
      <3>1. \A c \in Nat : c >= Base /\ c % a = 0 => start <= c
        BY <1>1, AlignUpIsLeast DEF start
      <3> QED
        BY <1>1, <1>8, <3>1 DEF Frames
    <2> QED
      BY <1>6, <1>8, <1>12, <2>1

\* What alloc looks for, in its two passes.
LEMMA NextFreeFound ==
    ASSUME FrameTypeOK PROVE NextFree = None <=> Frames \subseteq taken
  <1>1. Frames \subseteq Nat /\ None \notin Nat
    BY FrameAssumption DEF Frames
  <1>2. \A f \in Frames : Word(f) \in Int /\ StartWord \in Int
    <2>1. Base \in Nat /\ WordBits \in Nat \ {0} /\ hint \in Nat
      BY FrameAssumption DEF FrameTypeOK
    <2>2. StartWord \in Nat
      BY <2>1, DivBounds DEF StartWord
    <2>3. ASSUME NEW f \in Frames PROVE Word(f) \in Nat
      <3>1. f - Base \in Nat
        BY <2>1 DEF Frames
      <3> QED
        BY <2>1, <3>1, DivBounds DEF Word
    <2> QED
      BY <2>2, <2>3
  <1>3. FromHint \cup Wrapped = Frames \ taken
    BY <1>2 DEF FromHint, Wrapped
  <1>4. FromHint \in SUBSET Nat /\ Wrapped \in SUBSET Nat
    BY <1>1 DEF FromHint, Wrapped
  <1>5. CASE FromHint # {}
    BY <1>1, <1>3, <1>4, <1>5, MinOfNat DEF NextFree
  <1>6. CASE FromHint = {} /\ Wrapped # {}
    BY <1>1, <1>3, <1>4, <1>6, MinOfNat DEF NextFree
  <1>7. CASE FromHint = {} /\ Wrapped = {}
    BY <1>3, <1>7 DEF NextFree
  <1> QED
    BY <1>5, <1>6, <1>7

\* Whatever memory there is and however it has been cut up, a search fails only
\* if there is nothing to find.
THEOREM MemorySearchesComplete == Spec => []SearchesComplete
  <1>1. TypeOK => SearchesComplete
    BY NextFreeFound, CandidateFound DEF TypeOK, FrameTypeOK, SearchesComplete
  <1> QED
    BY MemoryTypeOK, <1>1, PTL

-----------------------------------------------------------------------------
(* Pages and the entries they share *)

\* The recursive definition, as equations.
LEMMA SpanUnfolds ==
    /\ Span[1] = 1
    /\ \A l \in 1 .. Levels : Span[l + 1] = Span[l] * Fanout
    /\ \A l \in 1 .. Levels + 1 : Span[l] \in Nat \ {0}
  <1> DEFINE S == Nat \ {0}
             next == [p \in (1 .. Levels) \X S |-> p[2] * Fanout]
             Defines(f) == f = [l \in 1 .. Levels + 1 |-> IF l = 1 THEN 1 ELSE f[l - 1] * Fanout]
  <1>1. Levels \in Nat \ {0} /\ Fanout \in Nat \ {0}
    BY PagingAssumption
  <1>2. next \in [(1 .. Levels) \X S -> S] /\ 1 \in S
    <2>1. \A x \in S : x * Fanout \in S
      BY <1>1, Z3
    <2> QED
      BY <2>1
  <1>3. PICK g \in [0 .. Levels -> S] : Unfolds(g, Levels, 1, next)
    <2> HIDE DEF next, S
    <2> QED
      BY <1>1, <1>2, PrimitiveRecursion
  <1> DEFINE f == [l \in 1 .. Levels + 1 |-> g[l - 1]]
  <1>4. /\ f[1] = 1 /\ \A l \in 1 .. Levels + 1 : f[l] \in S
        /\ \A l \in 1 .. Levels + 1 : l # 1 => f[l] = f[l - 1] * Fanout
    <2>1. g[0] = 1 /\ \A i \in 1 .. Levels : g[i] = next[<<i, g[i - 1]>>]
      BY <1>3 DEF Unfolds
    <2>2. \A i \in 0 .. Levels : g[i] \in S
      BY <1>3
    <2>3. \A i \in 1 .. Levels : i - 1 \in 0 .. Levels
      BY <1>1
    <2>4. \A i \in 1 .. Levels : g[i] = g[i - 1] * Fanout
      BY <2>1, <2>2, <2>3
    <2>5. \A l \in 1 .. Levels + 1 : l - 1 \in 0 .. Levels
      BY <1>1
    <2>6. \A l \in 1 .. Levels + 1 : l # 1 => l - 1 \in 1 .. Levels /\ l - 1 \in 1 .. Levels + 1
      BY <1>1
    <2>7. 1 \in 1 .. Levels + 1
      BY <1>1
    <2> QED
      BY <2>1, <2>2, <2>4, <2>5, <2>6, <2>7
  <1>5. Defines(f)
    <2>1. f = [l \in 1 .. Levels + 1 |-> f[l]]
      OBVIOUS
    <2> HIDE DEF f
    <2> QED
      BY <1>4, <2>1
  <1>6. ASSUME NEW h, Defines(h) PROVE h = f
    <2> HIDE DEF f
    <2> DEFINE Same == {n \in Nat : n + 1 <= Levels + 1 => h[n + 1] = f[n + 1]}
    <2>1. 0 \in Same
      BY <1>1, <1>4, <1>6
    <2>2. ASSUME NEW n \in Nat, n \in Same PROVE n + 1 \in Same
      <3> SUFFICES ASSUME n + 2 <= Levels + 1 PROVE h[n + 2] = f[n + 2]
        OBVIOUS
      <3>1. n + 2 \in 1 .. Levels + 1 /\ n + 2 # 1 /\ (n + 2) - 1 = n + 1
        BY <1>1
      <3>2. h[n + 1] = f[n + 1]
        BY <1>1, <2>2
      <3>3. h[n + 2] = h[n + 1] * Fanout /\ f[n + 2] = f[n + 1] * Fanout
        BY <1>4, <1>6, <3>1
      <3> QED
        BY <3>2, <3>3
    <2>3. Nat \subseteq Same
      <3> HIDE DEF Same
      <3> QED
        BY <2>1, <2>2, SetInduction
    <2>4. \A l \in 1 .. Levels + 1 : h[l] = f[l]
      <3> SUFFICES ASSUME NEW l \in 1 .. Levels + 1 PROVE h[l] = f[l]
        OBVIOUS
      <3>1. l - 1 \in Same /\ (l - 1) + 1 = l
        <4> HIDE DEF Same
        <4> QED
          BY <1>1, <2>3
      <3> QED
        BY <1>1, <3>1
    <2>5. /\ h = [l \in 1 .. Levels + 1 |-> h[l]]
          /\ f = [l \in 1 .. Levels + 1 |-> f[l]]
      BY <1>5, <1>6
    <2> QED
      BY <2>4, <2>5
  <1>7. Span = f
    <2> HIDE DEF Defines, f
    <2>1. Span = CHOOSE h : Defines(h)
      BY DEF Span, Defines
    <2> QED
      BY <1>5, <1>6, <2>1
  <1>8. \A l \in 1 .. Levels : l + 1 \in 1 .. Levels + 1 /\ l + 1 # 1 /\ (l + 1) - 1 = l
    BY <1>1
  <1> HIDE DEF f
  <1> QED
    BY <1>4, <1>7, <1>8

\* Two numbers in the same place value system.
LEMMA PlaceValue ==
    ASSUME NEW a \in Nat, NEW b \in Nat, NEW i \in Indices, NEW j \in Indices,
           a * Fanout + i = b * Fanout + j
    PROVE  a = b /\ i = j
  <1> USE PagingAssumption DEF Indices
  <1>1. ~(a + 1 <= b)
    <2>1. a + 1 <= b => (a + 1) * Fanout <= b * Fanout
      BY Times
    <2>2. (a + 1) * Fanout = a * Fanout + Fanout /\ a * Fanout \in Int /\ b * Fanout \in Int
      BY Z3
    <2> QED
      BY <2>1, <2>2
  <1>2. ~(b + 1 <= a)
    <2>1. b + 1 <= a => (b + 1) * Fanout <= a * Fanout
      BY Times
    <2>2. (b + 1) * Fanout = b * Fanout + Fanout /\ a * Fanout \in Int /\ b * Fanout \in Int
      BY Z3
    <2> QED
      BY <2>1, <2>2
  <1>3. a = b
    BY <1>1, <1>2
  <1>4. a * Fanout \in Int
    BY Z3
  <1> QED
    BY <1>3, <1>4

\* The numbers with one quotient.
LEMMA SameQuotient ==
    ASSUME NEW P \in Nat \ {0}, NEW a \in Nat, NEW q \in Nat
    PROVE  a \in q * P .. q * P + P - 1 <=> a \div P = q
  <1> DEFINE x == a \div P
  <1>1. x \in Nat /\ x * P <= a /\ a < (x + 1) * P
    BY DivBounds
  <1> HIDE DEF x
  <1>2. x * P \in Int /\ q * P \in Int /\ (x + 1) * P = x * P + P
    BY <1>1, Z3
  <1>3. ASSUME a \in q * P .. q * P + P - 1 PROVE x = q
    <2>1. ~(x + 1 <= q)
      <3>1. x + 1 <= q => (x + 1) * P <= q * P
        BY <1>1, Times
      <3> QED
        BY <1>1, <1>2, <1>3, <3>1
    <2>2. ~(q + 1 <= x)
      <3>1. q + 1 <= x => (q + 1) * P <= x * P
        BY <1>1, Times
      <3>2. (q + 1) * P = q * P + P
        BY Z3
      <3> QED
        BY <1>1, <1>2, <1>3, <3>1, <3>2
    <2> QED
      BY <1>1, <2>1, <2>2
  <1>4. ASSUME x = q PROVE a \in q * P .. q * P + P - 1
    BY <1>1, <1>2, <1>4
  <1> QED
    BY <1>3, <1>4 DEF x

\* The entry of a page at a level lies in the table of its prefix above it.
Prefix(v, level) == v \div Span[level]

LEMMA PrefixSplits ==
    ASSUME NEW v \in Nat, NEW l \in 1 .. Levels
    PROVE  /\ Prefix(v, l) \in Nat /\ Prefix(v, l + 1) \in Nat
           /\ Index(v, l) \in Indices
           /\ Prefix(v, l) = Prefix(v, l + 1) * Fanout + Index(v, l)
           /\ Prefix(v, l + 1) = Prefix(v, l) \div Fanout
  <1>1. Levels \in Nat /\ Fanout \in Nat \ {0}
    BY PagingAssumption
  <1> DEFINE a == Span[l]
             x == v \div a
  <1>2. a \in Nat \ {0} /\ Span[l + 1] = a * Fanout
    BY <1>1, SpanUnfolds
  <1>3. x \div Fanout = v \div (a * Fanout)
    <2> HIDE DEF a
    <2> QED
      BY <1>1, <1>2, DivDiv
  <1>4. x \in Nat
    <2> HIDE DEF a
    <2> QED
      BY <1>2, DivMod
  <1>5. Prefix(v, l) = x /\ Prefix(v, l + 1) = x \div Fanout /\ Index(v, l) = x % Fanout
    BY <1>2, <1>3 DEF Prefix, Index
  <1> HIDE DEF x, a
  <1> QED
    BY <1>1, <1>4, <1>5, DivMod DEF Indices

\* Pages are the numbers that have no prefix above the root.
LEMMA PagePrefix ==
    /\ Pages \subseteq Nat
    /\ \A v \in Nat : v \in Pages <=> Prefix(v, Levels + 1) = 0
  <1>1. Levels \in Nat /\ Levels + 1 \in 1 .. Levels + 1
    BY PagingAssumption
  <1> DEFINE S == Span[Levels + 1]
  <1>2. S \in Nat \ {0}
    BY <1>1, SpanUnfolds
  <1>3. Pages = 0 .. S - 1
    BY DEF Pages
  <1>4. \A v : Prefix(v, Levels + 1) = v \div S
    BY DEF Prefix
  <1> HIDE DEF S
  <1>5. ASSUME NEW v \in Nat PROVE v \in Pages <=> Prefix(v, Levels + 1) = 0
    <2>1. v \in 0 * S .. 0 * S + S - 1 <=> v \div S = 0
      BY <1>2, SameQuotient
    <2>2. 0 * S = 0 /\ 0 + S - 1 = S - 1
      BY <1>2
    <2> QED
      BY <1>3, <1>4, <2>1, <2>2
  <1> QED
    BY <1>2, <1>3, <1>5

\* A block is the pages with one prefix.
LEMMA BlockPages ==
    ASSUME NEW v \in Pages, NEW l \in 1 .. Levels
    PROVE  Block(v, l) = {u \in Pages : Prefix(u, l) = Prefix(v, l)}
  <1>1. Levels \in Nat /\ l \in 1 .. Levels + 1 /\ v \in Nat
    BY PagingAssumption, PagePrefix
  <1> DEFINE S == Span[l]
             q == v \div S
  <1>2. S \in Nat \ {0}
    BY <1>1, SpanUnfolds
  <1>3. q \in Nat
    <2> HIDE DEF S
    <2> QED
      BY <1>1, <1>2, DivMod
  <1>4. Block(v, l) = q * S .. q * S + S - 1 /\ Prefix(v, l) = q
    BY DEF Block, Run, Prefix
  <1>5. \A u : Prefix(u, l) = u \div S
    BY DEF Prefix
  <1> HIDE DEF q, S
  <1>6. q * S \in Nat
    BY <1>2, <1>3, Z3
  <1>7. \A u \in Nat : u \in Block(v, l) <=> Prefix(u, l) = q
    BY <1>2, <1>3, <1>4, <1>5, SameQuotient
  <1>8. \A u \in Block(v, l) : u \in Nat
    BY <1>2, <1>4, <1>6
  <1>9. ASSUME NEW u \in Nat, Prefix(u, l) = q PROVE u \in Pages
    <2> DEFINE Same == {k \in Nat : l + k <= Levels + 1 => Prefix(u, l + k) = Prefix(v, l + k)}
    <2>1. 0 \in Same
      BY <1>1, <1>4, <1>9
    <2>2. ASSUME NEW k \in Nat, k \in Same PROVE k + 1 \in Same
      <3> SUFFICES ASSUME l + k + 1 <= Levels + 1
                   PROVE  Prefix(u, l + k + 1) = Prefix(v, l + k + 1)
        BY <1>1
      <3>1. l + k \in 1 .. Levels /\ Prefix(u, l + k) = Prefix(v, l + k)
        BY <1>1, <2>2
      <3> DEFINE m == l + k
      <3>2. m \in 1 .. Levels
        BY <3>1
      <3>3. Prefix(u, m) = Prefix(v, m)
        BY <3>1
      <3> HIDE DEF m
      <3>4. Prefix(u, m + 1) = Prefix(u, m) \div Fanout
        BY <3>2, PrefixSplits
      <3>5. Prefix(v, m + 1) = Prefix(v, m) \div Fanout
        BY <1>1, <3>2, PrefixSplits
      <3>6. Prefix(u, m + 1) = Prefix(v, m + 1)
        BY <3>3, <3>4, <3>5
      <3> QED
        BY <3>6 DEF m
    <2>3. Nat \subseteq Same
      <3> HIDE DEF Same
      <3> QED
        BY <2>1, <2>2, SetInduction
    <2>4. (Levels + 1) - l \in Same
      <3>1. (Levels + 1) - l \in Nat
        BY <1>1
      <3> HIDE DEF Same
      <3> QED
        BY <2>3, <3>1
    <2>5. l + ((Levels + 1) - l) = Levels + 1
      BY <1>1
    <2>6. Prefix(u, Levels + 1) = Prefix(v, Levels + 1)
      BY <1>1, <2>4, <2>5
    <2> QED
      BY <1>1, <1>9, <2>6, PagePrefix
  <1>10. \A u \in Pages : u \in Nat
    BY PagePrefix
  <1> QED
    BY <1>4, <1>7, <1>8, <1>9, <1>10

-----------------------------------------------------------------------------
(* The tree: tables have levels and prefixes *)

\* An entry that leads to another table.
Inner(lev, t, i) == Present(entry[t][i]) /\ ~Leaf(entry[t][i], lev[t])

\* The table that the entry leads to.
Child(lev, pre, t, i, s) ==
    /\ s \in Tables
    /\ lev[s] = lev[t] - 1
    /\ pre[s] = pre[t] * Fanout + i

\* What a leaf maps was asked for, there.
Asked(lev, pre, t, i) ==
    \E r \in Requests :
        /\ Valid(r) /\ Aligned(r)
        /\ r.terminal = lev[t]
        /\ Prefix(r.page, lev[t]) = pre[t] * Fanout + i
        /\ entry[t][i].frame = r.frame /\ entry[t][i].flags = r.flags

\* The walk for a page stands in a table that the page belongs to.
OnPath(lev, pre, v, t, level) ==
    /\ t \in Tables
    /\ lev[t] = level
    /\ pre[t] = Prefix(v, level + 1)

RootOnTop(lev, pre) ==
    /\ root # None => root \in Tables
    /\ root \in Tables => lev[root] = Levels /\ pre[root] = 0
LinksDescend(lev, pre) ==
    \A t \in Tables, i \in Indices :
        Inner(lev, t, i) => Child(lev, pre, t, i, entry[t][i].frame)
Parents(lev) ==
    \A s \in Tables \ {root} :
        \E t \in Tables, i \in Indices : Inner(lev, t, i) /\ entry[t][i].frame = s
Distinct(lev, pre) ==
    \A s \in Tables, t \in Tables : lev[s] = lev[t] /\ pre[s] = pre[t] => s = t
LeavesAsked(lev, pre) ==
    \A t \in Tables, i \in Indices : Leaf(entry[t][i], lev[t]) => Asked(lev, pre, t, i)
WalkFits(lev, pre) ==
    walk # None => /\ OnPath(lev, pre, walk.request.page, walk.table, walk.level)
                   /\ Valid(walk.request) /\ Aligned(walk.request)

Tree(lev, pre) ==
    /\ lev \in [Tables -> 1 .. Levels] /\ pre \in [Tables -> Nat]
    /\ RootOnTop(lev, pre) /\ LinksDescend(lev, pre) /\ Parents(lev)
    /\ Distinct(lev, pre) /\ LeavesAsked(lev, pre)
    /\ WalkFits(lev, pre)

TreeInv == \E lev, pre : Tree(lev, pre)

\* Where the walk for a page finds its leaf.
Hit(lev, pre, v, t) ==
    /\ OnPath(lev, pre, v, t, lev[t])
    /\ Leaf(entry[t][Index(v, lev[t])], lev[t])

\* Only the root has the highest level.
LEMMA TopIsRoot ==
    ASSUME NEW lev, NEW pre, Tree(lev, pre), NEW t \in Tables, lev[t] = Levels
    PROVE  t = root
  <1> SUFFICES ASSUME t # root PROVE FALSE
    OBVIOUS
  <1>1. PICK p \in Tables, i \in Indices : Inner(lev, p, i) /\ entry[p][i].frame = t
    BY DEF Tree, Parents
  <1>2. lev[t] = lev[p] - 1 /\ lev[p] \in 1 .. Levels
    BY <1>1 DEF Tree, LinksDescend, Child
  <1> QED
    BY <1>2, PagingAssumption

\* One level up from a table on the path of a page is the entry of the page
\* that leads to it.
LEMMA PathUp ==
    ASSUME NEW lev, NEW pre, Tree(lev, pre), NEW v \in Pages,
           NEW l \in 1 .. Levels - 1, NEW t, OnPath(lev, pre, v, t, l)
    PROVE  \E p \in Tables : /\ OnPath(lev, pre, v, p, l + 1)
                             /\ Inner(lev, p, Index(v, l + 1))
                             /\ entry[p][Index(v, l + 1)].frame = t
  <1>1. t \in Tables /\ lev[t] = l /\ pre[t] = Prefix(v, l + 1)
    BY DEF OnPath
  <1>2. root \in Tables => lev[root] = Levels
    BY DEF Tree, RootOnTop
  <1>3. t # root
    BY <1>1, <1>2, PagingAssumption
  <1>4. PICK p \in Tables, i \in Indices : Inner(lev, p, i) /\ entry[p][i].frame = t
    BY <1>1, <1>3 DEF Tree, Parents
  <1>5. lev[t] = lev[p] - 1 /\ pre[t] = pre[p] * Fanout + i
        /\ lev[p] \in 1 .. Levels /\ pre[p] \in Nat
    BY <1>4 DEF Tree, LinksDescend, Child
  <1>6. lev[p] = l + 1 /\ l + 1 \in 1 .. Levels /\ v \in Nat
    BY <1>1, <1>5, PagingAssumption, PagePrefix
  <1> DEFINE m == l + 1
  <1>7. m \in 1 .. Levels /\ m = l + 1
    BY <1>6
  <1> HIDE DEF m
  <1>8. /\ Prefix(v, m + 1) \in Nat /\ Index(v, m) \in Indices
        /\ Prefix(v, m) = Prefix(v, m + 1) * Fanout + Index(v, m)
    BY <1>6, <1>7, PrefixSplits
  <1>9. pre[p] * Fanout + i = Prefix(v, m + 1) * Fanout + Index(v, m)
    BY <1>1, <1>5, <1>7, <1>8
  <1>10. pre[p] = Prefix(v, m + 1) /\ i = Index(v, m)
    BY <1>5, <1>8, <1>9, PlaceValue
  <1>11. OnPath(lev, pre, v, p, m)
    BY <1>6, <1>7, <1>10 DEF OnPath
  <1> QED
    BY <1>4, <1>7, <1>10, <1>11

-----------------------------------------------------------------------------
(* What translate reads *)

Places == Tables \X (1 .. Levels)

\* What the walk for a page finds from a table and its level on, given what it
\* finds below.
Found(f, page, at) ==
    LET e == entry[at[1]][Index(page, at[2])]
    IN  IF ~Present(e) THEN None
        ELSE IF Leaf(e, at[2]) THEN [table |-> at[1], level |-> at[2]]
        ELSE IF e.frame \notin Tables THEN None
        ELSE f[<<e.frame, at[2] - 1>>]

Descends(f, page) == f = [at \in Places |-> Found(f, page, at)]

\* The recursion of the walk ends at level 1, so that there is such a function.
LEMMA DescentExists ==
    ASSUME NEW page PROVE \E f : Descends(f, page)
  <1> DEFINE T == {k \in Nat : \E f : /\ f = [at \in Places |-> f[at]]
                                      /\ \A at \in Places :
                                             at[2] <= k => f[at] = Found(f, page, at)}
  <1>1. \A at \in Places : at[1] \in Tables /\ at[2] \in 1 .. Levels
    BY DEF Places
  <1>2. 0 \in T
    <2> DEFINE f == [at \in Places |-> None]
    <2>1. f = [at \in Places |-> f[at]]
      OBVIOUS
    <2>2. \A at \in Places : ~(at[2] <= 0)
      BY <1>1, PagingAssumption
    <2> QED
      BY <2>1, <2>2
  <1>3. ASSUME NEW k \in Nat, k \in T PROVE k + 1 \in T
    <2>1. PICK f : /\ f = [at \in Places |-> f[at]]
                   /\ \A at \in Places : at[2] <= k => f[at] = Found(f, page, at)
      BY <1>3
    <2> DEFINE g == [at \in Places |-> IF at[2] = k + 1 THEN Found(f, page, at) ELSE f[at]]
    <2>2. g = [at \in Places |-> g[at]]
      OBVIOUS
    <2>3. \A at \in Places : g[at] = IF at[2] = k + 1 THEN Found(f, page, at) ELSE f[at]
      OBVIOUS
    <2> HIDE DEF g
    <2>4. ASSUME NEW at \in Places, at[2] <= k + 1 PROVE g[at] = Found(g, page, at)
      <3>1. Found(g, page, at) = Found(f, page, at)
        <4> DEFINE e == entry[at[1]][Index(page, at[2])]
                   below == <<e.frame, at[2] - 1>>
        <4>1. at[2] \in 1 .. Levels
          BY <1>1
        <4>2. Present(e) /\ ~Leaf(e, at[2]) => at[2] - 1 \in 1 .. Levels
          BY <4>1, PagingAssumption DEF Leaf
        <4>3. Present(e) /\ ~Leaf(e, at[2]) /\ e.frame \in Tables
                 => below \in Places /\ below[2] # k + 1
          <5>1. at[2] - 1 # k + 1
            BY <2>4, <4>1
          <5>2. below[2] = at[2] - 1
            OBVIOUS
          <5> QED
            BY <4>2, <5>1, <5>2 DEF Places
        <4> HIDE DEF e, below
        <4>4. Present(e) /\ ~Leaf(e, at[2]) /\ e.frame \in Tables => g[below] = f[below]
          BY <2>3, <4>3
        <4> QED
          BY <4>4, Zenon DEF Found, e, below
      <3>2. CASE at[2] = k + 1
        BY <2>3, <3>1, <3>2
      <3>3. CASE at[2] # k + 1
        <4>1. at[2] <= k
          BY <1>1, <2>4, <3>3
        <4> QED
          BY <2>1, <2>3, <3>1, <3>3, <4>1
      <3> QED
        BY <3>2, <3>3
    <2> QED
      BY <2>2, <2>4
  <1>4. Levels \in T
    <2>1. Levels \in Nat
      BY PagingAssumption
    <2> HIDE DEF T
    <2>2. Nat \subseteq T
      BY <1>2, <1>3, SetInduction
    <2> QED
      BY <2>1, <2>2
  <1>5. PICK f : /\ f = [at \in Places |-> f[at]]
                 /\ \A at \in Places : at[2] <= Levels => f[at] = Found(f, page, at)
    BY <1>4
  <1>6. \A at \in Places : f[at] = Found(f, page, at)
    BY <1>1, <1>5
  <1>7. Descends(f, page)
    BY <1>5, <1>6, Zenon DEF Descends
  <1> QED
    BY <1>7

LEMMA PlaceFound ==
    ASSUME NEW page
    PROVE  \E f : /\ Descends(f, page)
                  /\ LeafPlace(page) = IF root = None THEN None ELSE f[<<root, Levels>>]
  <1> DEFINE f == CHOOSE g : Descends(g, page)
  <1>1. Descends(f, page)
    BY DescentExists
  <1>2. LeafPlace(page) = IF root = None THEN None ELSE f[<<root, Levels>>]
    BY Zenon DEF LeafPlace, Descends, Found, Places
  <1> QED
    BY <1>1, <1>2

\* A leaf on the path of a page is the place that the walk for it finds.
LEMMA HitIsFound ==
    ASSUME NEW lev, NEW pre, Tree(lev, pre), None \notin Tables,
           NEW v \in Pages, NEW s, Hit(lev, pre, v, s)
    PROVE  LeafPlace(v) = [table |-> s, level |-> lev[s]]
  <1> DEFINE place == [table |-> s, level |-> lev[s]]
  <1>1. PICK f : /\ Descends(f, v)
                 /\ LeafPlace(v) = IF root = None THEN None ELSE f[<<root, Levels>>]
    BY PlaceFound
  <1>2. /\ s \in Tables /\ lev[s] \in 1 .. Levels /\ OnPath(lev, pre, v, s, lev[s])
        /\ Leaf(entry[s][Index(v, lev[s])], lev[s])
    BY DEF Hit, OnPath, Tree
  <1>3. \A at \in Places : f[at] = Found(f, v, at)
    BY <1>1, Zenon DEF Descends
  <1>4. Levels \in Nat
    BY PagingAssumption
  <1> DEFINE T == {k \in Nat : lev[s] + k <= Levels =>
                     \E t \in Tables : /\ OnPath(lev, pre, v, t, lev[s] + k)
                                       /\ f[<<t, lev[s] + k>>] = place}
  <1>5. 0 \in T
    <2>1. <<s, lev[s]>> \in Places
      BY <1>2 DEF Places
    <2>2. f[<<s, lev[s]>>] = Found(f, v, <<s, lev[s]>>)
      BY <1>3, <2>1
    <2>3. Found(f, v, <<s, lev[s]>>) = place
      BY <1>2, Zenon DEF Found, Leaf
    <2>4. lev[s] + 0 = lev[s]
      BY <1>2
    <2> HIDE DEF place
    <2> QED
      BY <1>2, <2>2, <2>3, <2>4
  <1>6. ASSUME NEW k \in Nat, k \in T PROVE k + 1 \in T
    <2> SUFFICES ASSUME lev[s] + k + 1 <= Levels
                 PROVE  \E t \in Tables : /\ OnPath(lev, pre, v, t, lev[s] + k + 1)
                                          /\ f[<<t, lev[s] + k + 1>>] = place
      BY <1>2
    <2> DEFINE l == lev[s] + k
    <2>1. l \in 1 .. Levels - 1 /\ l + 1 \in 1 .. Levels /\ (l + 1) - 1 = l
      BY <1>2, <1>4
    <2>2. PICK t \in Tables : OnPath(lev, pre, v, t, l) /\ f[<<t, l>>] = place
      BY <1>2, <1>4, <1>6
    <2>3. lev[s] + k + 1 = l + 1
      BY <1>2
    <2> HIDE DEF l, place
    <2>4. PICK p \in Tables : /\ OnPath(lev, pre, v, p, l + 1)
                              /\ Inner(lev, p, Index(v, l + 1))
                              /\ entry[p][Index(v, l + 1)].frame = t
      BY <2>1, <2>2, PathUp
    <2> DEFINE at == <<p, l + 1>>
    <2>5. at \in Places /\ at[1] = p /\ at[2] = l + 1
      BY <2>1 DEF Places
    <2>6. f[at] = Found(f, v, at)
      BY <1>3, <2>5
    <2>7. lev[p] = l + 1
      BY <2>4 DEF OnPath
    <2>8. <<t, at[2] - 1>> = <<t, l>>
      BY <2>1, <2>5
    <2> HIDE DEF at
    <2>9. Found(f, v, at) = f[<<t, at[2] - 1>>]
      BY <2>4, <2>5, <2>7, Zenon DEF Found, Inner
    <2>10. f[at] = place
      BY <2>2, <2>6, <2>8, <2>9
    <2> QED
      BY <2>3, <2>4, <2>10 DEF at
  <1>7. Levels - lev[s] \in T
    <2>1. Levels - lev[s] \in Nat
      BY <1>2, <1>4
    <2> HIDE DEF T
    <2>2. Nat \subseteq T
      BY <1>5, <1>6, SetInduction
    <2> QED
      BY <2>1, <2>2
  <1>8. lev[s] + (Levels - lev[s]) = Levels
    BY <1>2, <1>4
  <1> HIDE DEF place
  <1>9. PICK t \in Tables : OnPath(lev, pre, v, t, Levels) /\ f[<<t, Levels>>] = place
    <2> DEFINE l == lev[s] + (Levels - lev[s])
    <2>1. \E t \in Tables : OnPath(lev, pre, v, t, l) /\ f[<<t, l>>] = place
      BY <1>4, <1>7, <1>8
    <2>2. l = Levels
      BY <1>8
    <2> HIDE DEF l
    <2> QED
      BY <2>1, <2>2
  <1>10. t = root
    BY <1>9, TopIsRoot DEF OnPath
  <1> QED
    BY <1>1, <1>9, <1>10 DEF place

\* What the walk for a page finds is a leaf on its path.
LEMMA FoundIsHit ==
    ASSUME NEW lev, NEW pre, Tree(lev, pre), NEW v \in Pages, LeafPlace(v) # None
    PROVE  \E s : Hit(lev, pre, v, s)
  <1>1. PICK f : /\ Descends(f, v)
                 /\ LeafPlace(v) = IF root = None THEN None ELSE f[<<root, Levels>>]
    BY PlaceFound
  <1>2. \A at \in Places : f[at] = Found(f, v, at)
    BY <1>1, Zenon DEF Descends
  <1>3. Levels \in Nat /\ v \in Nat
    BY PagingAssumption, PagePrefix
  <1> DEFINE T == {k \in Nat : k <= Levels =>
                     \A t : OnPath(lev, pre, v, t, k) /\ f[<<t, k>>] # None
                              => \E s : Hit(lev, pre, v, s)}
  <1>4. 0 \in T
    BY DEF OnPath, Tree
  <1>5. ASSUME NEW k \in Nat, k \in T PROVE k + 1 \in T
    <2> DEFINE l == k + 1
    <2> SUFFICES ASSUME l <= Levels, NEW t, OnPath(lev, pre, v, t, l), f[<<t, l>>] # None,
                        \A s : ~Hit(lev, pre, v, s)
                 PROVE  FALSE
      OBVIOUS
    <2> DEFINE i == Index(v, l)
               at == <<t, l>>
    <2>1. l \in 1 .. Levels /\ l - 1 = k
      BY <1>3
    <2>2. \A s : OnPath(lev, pre, v, s, k) => f[<<s, k>>] = None
      <3>1. k <= Levels
        BY <1>3, <2>1
      <3>2. \A t0 : OnPath(lev, pre, v, t0, k) /\ f[<<t0, k>>] # None
                      => \E s : Hit(lev, pre, v, s)
        BY <1>5, <3>1
      <3> QED
        BY <3>2
    <2> HIDE DEF l
    <2>3. /\ i \in Indices /\ Prefix(v, l) = Prefix(v, l + 1) * Fanout + i
      BY <1>3, <2>1, PrefixSplits
    <2>4. t \in Tables /\ lev[t] = l /\ pre[t] = Prefix(v, l + 1)
      BY DEF OnPath
    <2> HIDE DEF i
    <2>5. f[at] = Found(f, v, at) /\ at[1] = t /\ at[2] = l
      BY <1>2, <2>1, <2>4 DEF Places
    <2> HIDE DEF at
    <2>6. ~Leaf(entry[t][i], l)
      BY <2>4 DEF Hit, i
    <2>7. /\ Present(entry[t][i]) /\ entry[t][i].frame \in Tables
          /\ f[at] = f[<<entry[t][i].frame, at[2] - 1>>]
      <3>1. f[at] # None
        BY DEF at
      <3> QED
        BY <2>5, <2>6, <3>1, Zenon DEF Found, i
    <2> DEFINE s == entry[t][i].frame
    <2>8. Child(lev, pre, t, i, s)
      BY <2>3, <2>4, <2>6, <2>7 DEF Tree, LinksDescend, Inner
    <2>9. OnPath(lev, pre, v, s, k)
      <3>1. s \in Tables /\ lev[s] = k
        BY <2>1, <2>4, <2>8 DEF Child
      <3>2. pre[s] = Prefix(v, k + 1)
        BY <2>3, <2>4, <2>8 DEF Child, l
      <3> QED
        BY <3>1, <3>2 DEF OnPath
    <2>10. f[<<s, k>>] = None
      BY <2>2, <2>9
    <2> QED
      BY <2>1, <2>5, <2>7, <2>10 DEF at
  <1>6. Levels \in T
    <2> HIDE DEF T
    <2>1. Nat \subseteq T
      BY <1>4, <1>5, SetInduction
    <2> QED
      BY <1>3, <2>1
  <1>7. root # None /\ f[<<root, Levels>>] # None
    BY <1>1
  <1>8. OnPath(lev, pre, v, root, Levels)
    BY <1>3, <1>7, PagePrefix DEF Tree, RootOnTop, OnPath
  <1> QED
    BY <1>3, <1>6, <1>7, <1>8

-----------------------------------------------------------------------------
(* Every step keeps the tree *)

LEMMA TreeInit == Init => TreeInv
  <1> SUFFICES ASSUME Init PROVE TreeInv
    OBVIOUS
  <1> DEFINE lev == [t \in {} |-> 1]
             pre == [t \in {} |-> 0]
  <1>1. Tables = {} /\ walk = None
    BY DEF Init, Tables
  <1>2. lev \in [Tables -> 1 .. Levels] /\ pre \in [Tables -> Nat] /\ root = None
    BY <1>1 DEF Init
  <1> HIDE DEF lev, pre
  <1>3. Tree(lev, pre)
    BY <1>1, <1>2 DEF Tree, RootOnTop, LinksDescend, Parents, Distinct, LeavesAsked, WalkFits
  <1> QED
    BY <1>3 DEF TreeInv

\* A step that changes no entry that leads to a table, and puts in only leaves
\* that were asked for there.
LEMMA TreeKept ==
    ASSUME NEW lev, NEW pre, Tree(lev, pre), Tables' = Tables, root' = root,
           WalkFits(lev, pre)',
           \A t \in Tables, i \in Indices :
               \/ entry'[t][i] = entry[t][i]
               \/ /\ ~Inner(lev, t, i) /\ ~Inner(lev, t, i)'
                  /\ Leaf(entry[t][i], lev[t])' => Asked(lev, pre, t, i)'
    PROVE  Tree(lev, pre)'
  <1>1. \A t \in Tables, i \in Indices :
            /\ Inner(lev, t, i)' <=> Inner(lev, t, i)
            /\ Inner(lev, t, i) => entry'[t][i] = entry[t][i]
    BY DEF Inner, Present, Leaf
  <1>2. RootOnTop(lev, pre)'
    BY DEF Tree, RootOnTop
  <1>3. LinksDescend(lev, pre)'
    BY <1>1 DEF Tree, LinksDescend, Child
  <1>4. Parents(lev)'
    BY <1>1 DEF Tree, Parents
  <1>5. Distinct(lev, pre)'
    BY DEF Tree, Distinct
  <1>6. LeavesAsked(lev, pre)'
    <2> SUFFICES ASSUME NEW t \in Tables, NEW i \in Indices, Leaf(entry[t][i], lev[t])'
                 PROVE  Asked(lev, pre, t, i)'
      BY DEF LeavesAsked
    <2>1. CASE entry'[t][i] = entry[t][i]
      <3>1. Leaf(entry[t][i], lev[t])
        BY <2>1 DEF Leaf, Present
      <3>2. Asked(lev, pre, t, i)
        BY <3>1 DEF Tree, LeavesAsked
      <3> QED
        BY <2>1, <3>2 DEF Asked
    <2> QED
      BY <2>1
  <1> QED
    BY <1>2, <1>3, <1>4, <1>5, <1>6 DEF Tree

LEMMA MakeRootTree ==
    ASSUME MemoryInv, MakeRoot
    PROVE  \E lev, pre : Tree(lev, pre)'
  <1>1. /\ Tables = {} /\ walk' = None /\ Tables' = {NextFree}
        /\ root' = NextFree /\ entry' = [t \in {NextFree} |-> EmptyTable]
    BY DEF MakeRoot, MemoryInv, BootFirst, Tables
  <1>2. PICK new, lev, pre : /\ new = NextFree
                             /\ lev = [t \in {new} |-> Levels] /\ pre = [t \in {new} |-> 0]
    OBVIOUS
  <1>3. /\ lev \in [Tables' -> 1 .. Levels] /\ pre \in [Tables' -> Nat]
        /\ lev[new] = Levels /\ pre[new] = 0
    BY <1>1, <1>2, PagingAssumption
  <1>4. \A t \in Tables', i \in Indices : t = new /\ entry'[t][i] = Empty
    BY <1>1, <1>2 DEF EmptyTable
  <1>5. \A t \in Tables', i \in Indices : ~Inner(lev, t, i)' /\ ~Leaf(entry[t][i], lev[t])'
    BY <1>4 DEF Inner, Leaf, Present, Empty
  <1>6. RootOnTop(lev, pre)'
    BY <1>1, <1>2, <1>3 DEF RootOnTop
  <1>7. LinksDescend(lev, pre)' /\ LeavesAsked(lev, pre)'
    BY <1>5 DEF LinksDescend, LeavesAsked
  <1>8. Parents(lev)'
    BY <1>1 DEF Parents
  <1>9. Distinct(lev, pre)'
    BY <1>1 DEF Distinct
  <1>10. WalkFits(lev, pre)'
    BY <1>1 DEF WalkFits
  <1>11. Tree(lev, pre)'
    BY <1>3, <1>6, <1>7, <1>8, <1>9, <1>10 DEF Tree
  <1> QED
    BY <1>11

\* The entry of the walk's page, where the walk stands.
LEMMA WalkEntry ==
    ASSUME MemoryInv, walk # None
    PROVE  /\ walk \in [request : Requests, table : Tables, level : 1 .. Levels]
           /\ walk.request.page \in Pages /\ walk.request.page \in Nat
           /\ walk.request.terminal \in 1 .. 3
           /\ Index(walk.request.page, walk.level) \in Indices
           /\ Prefix(walk.request.page, walk.level)
                 = Prefix(walk.request.page, walk.level + 1) * Fanout
                     + Index(walk.request.page, walk.level)
  <1>1. walk \in [request : Requests, table : Tables, level : 1 .. Levels]
    BY DEF MemoryInv, TypeOK
  <1>2. walk.request \in Requests /\ walk.level \in 1 .. Levels
    BY <1>1
  <1>3. walk.request.page \in Pages /\ walk.request.terminal \in 1 .. 3
    BY <1>2, PagingAssumption
  <1>4. walk.request.page \in Nat
    BY <1>3, PagePrefix
  <1> QED
    BY <1>1, <1>2, <1>3, <1>4, PrefixSplits

LEMMA MapBeginTree ==
    ASSUME MemoryInv, NEW lev, NEW pre, Tree(lev, pre), NEW r \in Requests, MapBegin(r)
    PROVE  Tree(lev, pre)'
  <1>1. /\ root # None /\ Valid(r) /\ Aligned(r)
        /\ walk' = [request |-> r, table |-> root, level |-> Levels]
        /\ entry' = entry /\ root' = root
    BY DEF MapBegin
  <1>2. root \in Tables /\ lev[root] = Levels /\ pre[root] = 0
    BY <1>1 DEF Tree, RootOnTop
  <1>3. Prefix(r.page, Levels + 1) = 0
    BY PagingAssumption, PagePrefix
  <1>4. OnPath(lev, pre, r.page, root, Levels)'
    BY <1>1, <1>2, <1>3 DEF OnPath, Tables
  <1>5. WalkFits(lev, pre)'
    BY <1>1, <1>4 DEF WalkFits, OnPath, Valid, Aligned
  <1> QED
    BY <1>1, <1>5, TreeKept DEF Tables

LEMMA MapDescendTree ==
    ASSUME MemoryInv, NEW lev, NEW pre, Tree(lev, pre), MapDescend
    PROVE  Tree(lev, pre)'
  <1> DEFINE page == walk.request.page
             at == Index(page, walk.level)
             e == entry[walk.table][at]
  <1>1. /\ walk # None /\ Present(e) /\ ~Leaf(e, walk.level)
        /\ walk' = [walk EXCEPT !.table = e.frame, !.level = @ - 1]
        /\ entry' = entry /\ root' = root
    BY DEF MapDescend, Above, Down
  <1>2. /\ walk \in [request : Requests, table : Tables, level : 1 .. Levels]
        /\ at \in Indices
        /\ Prefix(page, walk.level) = Prefix(page, walk.level + 1) * Fanout + at
    BY <1>1, WalkEntry
  <1>3. /\ OnPath(lev, pre, page, walk.table, walk.level)
        /\ Valid(walk.request) /\ Aligned(walk.request)
    BY <1>1 DEF Tree, WalkFits
  <1>4. Child(lev, pre, walk.table, at, e.frame)
    BY <1>1, <1>2, <1>3 DEF Tree, LinksDescend, Inner, OnPath
  <1>5. walk' = [request |-> walk.request, table |-> e.frame, level |-> walk.level - 1]
    BY <1>1, <1>2
  <1>6. walk.level \in Nat /\ (walk.level - 1) + 1 = walk.level
    BY <1>2
  <1> HIDE DEF at, e
  <1>7. OnPath(lev, pre, page, e.frame, walk.level - 1)
    BY <1>2, <1>3, <1>4, <1>6 DEF OnPath, Child
  <1>8. WalkFits(lev, pre)'
    BY <1>1, <1>3, <1>5, <1>7 DEF WalkFits, OnPath, Valid, Aligned, Tables
  <1> QED
    BY <1>1, <1>8, TreeKept DEF Tables

LEMMA MapRefusedTree ==
    ASSUME NEW lev, NEW pre, Tree(lev, pre), MapRefused
    PROVE  Tree(lev, pre)'
  <1>1. walk' = None /\ entry' = entry /\ root' = root
    BY DEF MapRefused
  <1>2. WalkFits(lev, pre)'
    BY <1>1 DEF WalkFits
  <1> QED
    BY <1>1, <1>2, TreeKept DEF Tables

\* What MapSet puts in.
LEMMA MapSetLeaf ==
    ASSUME MemoryInv, NEW lev, NEW pre, Tree(lev, pre), MapSet
    PROVE  LET r  == walk.request
               t  == walk.table
               at == Index(r.page, r.terminal)
           IN  /\ walk # None /\ r \in Requests /\ Valid(r) /\ Aligned(r)
               /\ t \in Tables /\ at \in Indices
               /\ r.terminal \in 1 .. Levels
               /\ OnPath(lev, pre, r.page, t, r.terminal) /\ lev[t] = r.terminal
               /\ ~Present(entry[t][at])
               /\ entry'[t][at].frame = r.frame /\ entry'[t][at].flags = r.flags
               /\ Leaf(entry'[t][at], r.terminal)
               /\ \A s \in Tables, i \in Indices :
                     entry'[s][i] = entry[s][i] \/ (s = t /\ i = at)
               /\ Tables' = Tables /\ walk' = None /\ root' = root
  <1> DEFINE r == walk.request
             t == walk.table
             at == Index(r.page, r.terminal)
             leaf == [frame |-> r.frame, flags |-> r.flags, huge |-> walk.level > 1]
  <1>1. /\ walk # None /\ walk.level = r.terminal
        /\ ~Present(entry[t][at])
        /\ entry' = [entry EXCEPT ![t][at] = leaf]
        /\ walk' = None /\ root' = root
    BY DEF MapSet, AtTerminal, Put
  <1>2. /\ r \in Requests /\ t \in Tables /\ r.terminal \in 1 .. Levels
        /\ at \in Indices /\ r.terminal \in 1 .. 3
    BY <1>1, WalkEntry
  <1>3. r.frame \in Nat
    BY <1>2, PagingAssumption
  <1>4. OnPath(lev, pre, r.page, t, r.terminal) /\ Valid(r) /\ Aligned(r)
    BY <1>1 DEF Tree, WalkFits
  <1>5. entry \in [Tables -> [Indices -> Entries \cup {Empty}]]
    BY DEF MemoryInv, TypeOK
  <1>6. Leaf(leaf, r.terminal)
    <2>1. Present(leaf)
      BY <1>3, FrameAssumption DEF Present
    <2>2. r.terminal = 1 \/ (r.terminal \in {2, 3} /\ walk.level > 1)
      BY <1>1, <1>2
    <2>3. leaf.huge = (walk.level > 1)
      BY Zenon
    <2> QED
      BY <2>1, <2>2, <2>3, Zenon DEF Leaf
  <1>7. leaf.frame = r.frame /\ leaf.flags = r.flags
    BY Zenon
  <1> HIDE DEF leaf, at, r, t
  <1>8. /\ entry'[t][at] = leaf
        /\ \A s \in Tables, i \in Indices :
              entry'[s][i] = entry[s][i] \/ (s = t /\ i = at)
    BY <1>1, <1>2, <1>5
  <1>9. Tables' = Tables
    BY <1>1 DEF Tables
  <1>10. Leaf(entry'[t][at], r.terminal)
    BY <1>6, <1>8
  <1>11. /\ walk # None /\ r \in Requests /\ Valid(r) /\ Aligned(r)
         /\ t \in Tables /\ at \in Indices
         /\ r.terminal \in 1 .. Levels
         /\ OnPath(lev, pre, r.page, t, r.terminal) /\ lev[t] = r.terminal
         /\ ~Present(entry[t][at])
         /\ entry'[t][at].frame = r.frame /\ entry'[t][at].flags = r.flags
    BY <1>1, <1>2, <1>4, <1>7, <1>8 DEF OnPath
  <1> QED
    BY <1>1, <1>8, <1>9, <1>10, <1>11 DEF r, t, at

LEMMA MapSetTree ==
    ASSUME MemoryInv, NEW lev, NEW pre, Tree(lev, pre), MapSet
    PROVE  Tree(lev, pre)'
  <1>1. PICK r, t, at :
           /\ r \in Requests /\ Valid(r) /\ Aligned(r)
           /\ t \in Tables /\ at \in Indices /\ at = Index(r.page, r.terminal)
           /\ r.terminal \in 1 .. Levels
           /\ OnPath(lev, pre, r.page, t, r.terminal) /\ lev[t] = r.terminal
           /\ ~Present(entry[t][at])
           /\ entry'[t][at].frame = r.frame /\ entry'[t][at].flags = r.flags
           /\ Leaf(entry'[t][at], r.terminal)
           /\ \A s \in Tables, i \in Indices :
                 entry'[s][i] = entry[s][i] \/ (s = t /\ i = at)
           /\ Tables' = Tables /\ walk' = None /\ root' = root
    BY MapSetLeaf
  <1>2. Prefix(r.page, r.terminal) = pre[t] * Fanout + at
    <2>1. r.page \in Nat
      BY <1>1, PagingAssumption, PagePrefix
    <2> QED
      BY <1>1, <2>1, PrefixSplits DEF OnPath
  <1>3. Asked(lev, pre, t, at)'
    BY <1>1, <1>2 DEF Asked
  <1>4. ~Inner(lev, t, at) /\ ~Inner(lev, t, at)'
    BY <1>1 DEF Inner
  <1>5. WalkFits(lev, pre)'
    BY <1>1 DEF WalkFits
  <1> QED
    BY <1>1, <1>3, <1>4, <1>5, TreeKept

\* The step clears the leaf of a page, which lies in t, and nothing else.
Clears(lev, pre, page, t) ==
    /\ Hit(lev, pre, page, t) /\ ~Present(entry'[t][Index(page, lev[t])])
    /\ \A s \in Tables, i \in Indices :
          entry'[s][i] = entry[s][i] \/ (s = t /\ i = Index(page, lev[t]))
    /\ Tables' = Tables /\ walk' = None /\ root' = root

\* What UnmapPage takes out.
LEMMA UnmapPageLeaf ==
    ASSUME MemoryInv, NEW lev, NEW pre, Tree(lev, pre), NEW page \in Pages, UnmapPage(page)
    PROVE  \E t : Clears(lev, pre, page, t)
  <1> DEFINE place == LeafPlace(page)
  <1>1. /\ place # None /\ walk = None /\ walk' = walk /\ root' = root
        /\ entry' = [entry EXCEPT ![place.table][Index(page, place.level)] = Empty]
    BY DEF UnmapPage
  <1>2. PICK t : Hit(lev, pre, page, t)
    BY <1>1, FoundIsHit
  <1>3. place = [table |-> t, level |-> lev[t]]
    <2>1. None \notin Tables
      BY NoneIsNoFrame DEF MemoryInv, TypeOK
    <2> QED
      BY <1>2, <2>1, HitIsFound
  <1> DEFINE at == Index(page, lev[t])
  <1>4. entry' = [entry EXCEPT ![t][at] = Empty]
    BY <1>1, <1>3
  <1>5. t \in Tables /\ at \in Indices
    <2>1. t \in Tables /\ lev[t] \in 1 .. Levels
      BY <1>2 DEF Hit, OnPath, Tree
    <2>2. page \in Nat
      BY PagePrefix
    <2> QED
      BY <2>1, <2>2, PrefixSplits
  <1>6. entry \in [Tables -> [Indices -> Entries \cup {Empty}]]
    BY DEF MemoryInv, TypeOK
  <1> HIDE DEF at, place
  <1>7. /\ entry'[t][at] = Empty
        /\ \A s \in Tables, i \in Indices :
              entry'[s][i] = entry[s][i] \/ (s = t /\ i = at)
    BY <1>4, <1>5, <1>6
  <1>8. ~Present(entry'[t][at])
    BY <1>7 DEF Present, Empty
  <1>9. Tables' = Tables
    BY <1>4 DEF Tables
  <1> QED
    BY <1>1, <1>2, <1>7, <1>8, <1>9 DEF at, Clears

LEMMA UnmapPageTree ==
    ASSUME MemoryInv, NEW lev, NEW pre, Tree(lev, pre), NEW page \in Pages, UnmapPage(page)
    PROVE  Tree(lev, pre)'
  <1>1. PICK t : Clears(lev, pre, page, t)
    BY UnmapPageLeaf
  <1>2. PICK at : at = Index(page, lev[t])
    OBVIOUS
  <1>3. /\ ~Inner(lev, t, at) /\ ~Inner(lev, t, at)' /\ ~Leaf(entry'[t][at], lev[t])
    BY <1>1, <1>2 DEF Clears, Hit, Inner, Leaf
  <1>4. WalkFits(lev, pre)'
    BY <1>1 DEF Clears, WalkFits
  <1>5. /\ Tables' = Tables /\ root' = root
        /\ \A s \in Tables, i \in Indices :
              entry'[s][i] = entry[s][i] \/ (s = t /\ i = at)
    BY <1>1, <1>2 DEF Clears
  <1> QED
    BY <1>3, <1>4, <1>5, TreeKept

\* A new table: it continues the walk, and it is at a place of its own because
\* no other entry leads there.
Extends(f, g, new, value) == /\ DOMAIN g = Tables'
                             /\ g[new] = value
                             /\ \A t \in Tables : g[t] = f[t]

LEMMA ExtensionExists ==
    ASSUME NEW f, NEW new, NEW value, NEW S, Tables' = Tables \cup {new}, new \notin Tables,
           f \in [Tables -> S], value \in S
    PROVE  \E g \in [Tables' -> S] : Extends(f, g, new, value)
  <1> DEFINE g == [t \in Tables \cup {new} |-> IF t = new THEN value ELSE f[t]]
  <1>1. g \in [Tables' -> S] /\ Extends(f, g, new, value)
    BY DEF Extends
  <1> QED
    BY <1>1

\* The tree has more tables afterwards, and the same leaves.
Grows(old, above, lev, pre) ==
    /\ Tree(lev, pre)'
    /\ Tables \subseteq Tables'
    /\ \A t \in Tables : lev[t] = old[t] /\ pre[t] = above[t]
    /\ \A t \in Tables', i \in Indices :
          \/ t \in Tables /\ entry'[t][i] = entry[t][i]
          \/ /\ t \in Tables => ~Leaf(entry[t][i], old[t])
             /\ ~Leaf(entry'[t][i], lev[t])

LEMMA MapGrowTree ==
    ASSUME MemoryInv, NEW old, NEW above, Tree(old, above), MapGrow
    PROVE  \E lev, pre : Grows(old, above, lev, pre)
  <1> DEFINE page == walk.request.page
             link == [frame |-> NextFree, huge |-> FALSE,
                      flags |-> Intermediate(walk.request.flags.user)]
  <1>1. PICK new, here, level, at :
           /\ new = NextFree /\ here = walk.table /\ level = walk.level
           /\ at = Index(page, walk.level)
    OBVIOUS
  <1>2. /\ walk # None /\ level > walk.request.terminal
        /\ ~Present(entry[here][at]) /\ TakeNext
        /\ UNCHANGED <<bootVars, runs, root>>
        /\ walk' = [walk EXCEPT !.table = new, !.level = @ - 1]
        /\ entry' = [t \in Tables \cup {new} |->
                        IF t = new THEN EmptyTable ELSE Put(link)[t]]
    BY <1>1 DEF MapGrow, Above, Down
  <1>3. /\ walk \in [request : Requests, table : Tables, level : 1 .. Levels]
        /\ at \in Indices /\ walk.request.terminal \in 1 .. 3
        /\ Prefix(page, level) = Prefix(page, level + 1) * Fanout + at
    BY <1>1, <1>2, WalkEntry
  <1>4. /\ Tables' = Tables \cup {new} /\ new \notin Tables /\ new \in Nat
        /\ here \in Tables /\ level - 1 \in 1 .. Levels /\ level \in 2 .. Levels
    <2>1. Tables' = Tables \cup {new}
      BY <1>2 DEF Tables
    <2>2. NextFree \in Frames \ Tables
      BY <1>1, <1>2, <2>1, NewTableAccounted
    <2>3. here \in Tables /\ level \in 1 .. Levels /\ level > 1
      BY <1>1, <1>2, <1>3
    <2>4. Levels \in Nat /\ Frames \subseteq Nat
      BY PagingAssumption, FrameAssumption DEF Frames
    <2> QED
      BY <1>1, <2>1, <2>2, <2>3, <2>4
  <1>5. /\ OnPath(old, above, page, here, level) /\ Valid(walk.request) /\ Aligned(walk.request)
    BY <1>1, <1>2 DEF Tree, WalkFits
  <1>6. old[here] = level /\ above[here] \in Nat
        /\ Prefix(page, level) = above[here] * Fanout + at
    BY <1>3, <1>4, <1>5 DEF OnPath, Tree
  <1>7. above[here] * Fanout + at \in Nat
    <2>1. above[here] * Fanout \in Nat
      BY <1>6, PagingAssumption, Z3
    <2> QED
      BY <1>3, <2>1 DEF Indices
  <1>8. PICK lev \in [Tables' -> 1 .. Levels] : Extends(old, lev, new, level - 1)
    BY <1>4, ExtensionExists DEF Tree
  <1>9. PICK pre \in [Tables' -> Nat] : Extends(above, pre, new, above[here] * Fanout + at)
    BY <1>4, <1>7, ExtensionExists DEF Tree
  <1>10. /\ \A t \in Tables : lev[t] = old[t] /\ pre[t] = above[t]
         /\ lev[new] = level - 1 /\ pre[new] = above[here] * Fanout + at
    BY <1>8, <1>9 DEF Extends
  <1>11. link.frame = new /\ ~link.huge
    BY <1>1
  <1>12. entry \in [Tables -> [Indices -> Entries \cup {Empty}]]
    BY DEF MemoryInv, TypeOK
  <1> HIDE DEF link
  <1>13. /\ \A i \in Indices : entry'[new][i] = Empty
         /\ entry'[here][at] = link
         /\ \A t \in Tables, i \in Indices :
               (t = here /\ i = at) \/ entry'[t][i] = entry[t][i]
    <2>1. /\ Put(link)[here][at] = link
          /\ \A t \in Tables, i \in Indices :
                (t = here /\ i = at) \/ Put(link)[t][i] = entry[t][i]
      BY <1>1, <1>3, <1>4, <1>12 DEF Put
    <2>2. \A i \in Indices : EmptyTable[i] = Empty
      BY DEF EmptyTable
    <2>3. /\ entry'[new] = EmptyTable
          /\ \A t \in Tables : entry'[t] = Put(link)[t]
      BY <1>2, <1>4
    <2> QED
      BY <1>4, <2>1, <2>2, <2>3
  <1>14. Present(link) /\ ~Leaf(link, level)
    <2>1. new # None
      BY <1>4, FrameAssumption
    <2>2. level # 1
      BY <1>4
    <2> QED
      BY <1>11, <2>1, <2>2, Zenon DEF Leaf, Present
  <1>15. ~Present(Empty)
    BY DEF Present, Empty
  <1>16. \A t \in Tables', i \in Indices :
            Inner(lev, t, i)' <=> (t = here /\ i = at) \/ (t \in Tables /\ Inner(old, t, i))
    <2> SUFFICES ASSUME NEW t \in Tables', NEW i \in Indices
                 PROVE  Inner(lev, t, i)' <=> \/ (t = here /\ i = at)
                                              \/ (t \in Tables /\ Inner(old, t, i))
      OBVIOUS
    <2>1. CASE t = new
      BY <1>4, <1>13, <1>15, <2>1 DEF Inner
    <2>2. CASE t = here /\ i = at
      BY <1>4, <1>6, <1>10, <1>13, <1>14, <2>2 DEF Inner
    <2>3. CASE t \in Tables /\ ~(t = here /\ i = at)
      BY <1>4, <1>10, <1>13, <2>3 DEF Inner
    <2> QED
      BY <1>4, <2>1, <2>2, <2>3
  <1>17. RootOnTop(lev, pre)'
    <2>1. root' = root /\ (root = None => Tables = {})
      BY <1>2 DEF MemoryInv, BootFirst
    <2>2. root \in Tables
      BY <1>4, <2>1 DEF Tree, RootOnTop
    <2> QED
      BY <1>4, <1>10, <2>1, <2>2 DEF Tree, RootOnTop
  <1>18. LinksDescend(lev, pre)'
    <2> SUFFICES ASSUME NEW t \in Tables', NEW i \in Indices, Inner(lev, t, i)'
                 PROVE  Child(lev, pre, t, i, entry[t][i].frame)'
      BY DEF LinksDescend
    <2>1. CASE t = here /\ i = at
      BY <1>4, <1>6, <1>10, <1>11, <1>13, <2>1 DEF Child
    <2>2. CASE t \in Tables /\ Inner(old, t, i) /\ ~(t = here /\ i = at)
      <3>1. Child(old, above, t, i, entry[t][i].frame)
        BY <2>2 DEF Tree, LinksDescend
      <3> QED
        BY <1>4, <1>10, <1>13, <2>2, <3>1 DEF Child
    <2> QED
      BY <1>16, <2>1, <2>2
  <1>19. Parents(lev)'
    <2> SUFFICES ASSUME NEW s \in Tables', s # root'
                 PROVE  \E t \in Tables', i \in Indices :
                           Inner(lev, t, i)' /\ entry'[t][i].frame = s
      BY DEF Parents
    <2>1. CASE s = new
      BY <1>3, <1>4, <1>11, <1>13, <1>16, <2>1
    <2>2. CASE s \in Tables
      <3>1. PICK t \in Tables, i \in Indices : Inner(old, t, i) /\ entry[t][i].frame = s
        BY <1>2, <2>2 DEF Tree, Parents
      <3>2. ~(t = here /\ i = at)
        BY <1>2, <3>1 DEF Inner
      <3> QED
        BY <1>4, <1>13, <1>16, <3>1, <3>2
    <2> QED
      BY <1>4, <2>1, <2>2
  <1>20. Distinct(lev, pre)'
    <2>1. ASSUME NEW s \in Tables, old[s] = level - 1, above[s] = above[here] * Fanout + at
          PROVE  FALSE
      <3>1. s # root
        BY <1>4, <2>1 DEF Tree, RootOnTop
      <3>2. PICK t \in Tables, i \in Indices : Inner(old, t, i) /\ entry[t][i].frame = s
        BY <3>1 DEF Tree, Parents
      <3>3. /\ old[s] = old[t] - 1 /\ above[s] = above[t] * Fanout + i
            /\ old[t] \in 1 .. Levels /\ above[t] \in Nat
        BY <3>2 DEF Tree, LinksDescend, Child
      <3>4. above[t] = above[here] /\ i = at
        BY <1>3, <1>6, <2>1, <3>3, PlaceValue
      <3>5. old[t] = old[here]
        BY <1>4, <1>6, <2>1, <3>3
      <3>6. t = here
        BY <1>4, <3>4, <3>5 DEF Tree, Distinct
      <3> QED
        BY <1>2, <3>2, <3>4, <3>6 DEF Inner
    <2> SUFFICES ASSUME NEW s \in Tables', NEW t \in Tables', lev[s] = lev[t], pre[s] = pre[t]
                 PROVE  s = t
      BY DEF Distinct
    <2>2. CASE s \in Tables /\ t \in Tables
      BY <1>10, <2>2 DEF Tree, Distinct
    <2>3. CASE s = new /\ t \in Tables
      BY <1>10, <2>1, <2>3
    <2>4. CASE t = new /\ s \in Tables
      BY <1>10, <2>1, <2>4
    <2> QED
      BY <1>4, <2>2, <2>3, <2>4
  <1>21. \A t \in Tables', i \in Indices :
            \/ t \in Tables /\ entry'[t][i] = entry[t][i]
            \/ /\ t \in Tables => ~Leaf(entry[t][i], old[t])
               /\ ~Leaf(entry'[t][i], lev[t])
    <2> SUFFICES ASSUME NEW t \in Tables', NEW i \in Indices,
                        ~(t \in Tables /\ entry'[t][i] = entry[t][i])
                 PROVE  /\ t \in Tables => ~Leaf(entry[t][i], old[t])
                        /\ ~Leaf(entry'[t][i], lev[t])
      OBVIOUS
    <2>1. CASE t = new
      BY <1>4, <1>13, <1>15, <2>1 DEF Leaf
    <2>2. CASE t = here /\ i = at
      BY <1>2, <1>4, <1>6, <1>10, <1>13, <1>14, <2>2 DEF Leaf
    <2> QED
      BY <1>4, <1>13, <2>1, <2>2
  <1>22. LeavesAsked(lev, pre)'
    <2> SUFFICES ASSUME NEW t \in Tables', NEW i \in Indices, Leaf(entry[t][i], lev[t])'
                 PROVE  Asked(lev, pre, t, i)'
      BY DEF LeavesAsked
    <2>1. Leaf(entry'[t][i], lev[t])
      OBVIOUS
    <2>2. t \in Tables /\ entry'[t][i] = entry[t][i]
      BY <1>21, <2>1
    <2>3. Asked(old, above, t, i)
      BY <1>10, <2>1, <2>2 DEF Tree, LeavesAsked
    <2> QED
      BY <1>10, <2>2, <2>3 DEF Asked
  <1>23. WalkFits(lev, pre)'
    <2>1. walk' = [request |-> walk.request, table |-> new, level |-> level - 1]
      BY <1>1, <1>2, <1>3
    <2>2. level \in Nat /\ (level - 1) + 1 = level
      BY <1>4
    <2>3. new \in Tables' /\ lev[new] = level - 1 /\ pre[new] = Prefix(page, level)
      BY <1>4, <1>6, <1>10
    <2>4. Valid(walk.request) /\ Aligned(walk.request)
      BY <1>5
    <2> QED
      BY <2>1, <2>2, <2>3, <2>4 DEF WalkFits, OnPath, Valid, Aligned
  <1>24. Tree(lev, pre)'
    BY <1>17, <1>18, <1>19, <1>20, <1>22, <1>23 DEF Tree
  <1>25. Grows(old, above, lev, pre)
    BY <1>4, <1>10, <1>21, <1>24 DEF Grows
  <1> QED
    BY <1>25

LEMMA PagingKeepsTree ==
    ASSUME NEW lev, NEW pre, Tree(lev, pre), UNCHANGED paging
    PROVE  Tree(lev, pre)'
  <1>1. root' = root /\ entry' = entry /\ walk' = walk /\ Tables' = Tables
    BY DEF paging, Tables
  <1>2. WalkFits(lev, pre)'
    BY <1>1 DEF Tree, WalkFits, OnPath, Valid, Aligned
  <1> QED
    BY <1>1, <1>2, TreeKept

LEMMA TreeStep == MemoryInv /\ TreeInv /\ [Next]_vars => TreeInv'
  <1> SUFFICES ASSUME MemoryInv, NEW lev, NEW pre, Tree(lev, pre), [Next]_vars
               PROVE  \E lev2, pre2 : Tree(lev2, pre2)'
    BY DEF TreeInv
  <1>1. CASE UNCHANGED paging
    BY <1>1, PagingKeepsTree
  <1>2. CASE MakeRoot
    BY <1>2, MakeRootTree
  <1>3. ASSUME NEW r \in Requests, MapBegin(r) PROVE Tree(lev, pre)'
    BY <1>3, MapBeginTree
  <1>4. CASE MapDescend
    BY <1>4, MapDescendTree
  <1>5. CASE MapGrow
    <2>1. PICK lev2, pre2 : Grows(lev, pre, lev2, pre2)
      BY <1>5, MapGrowTree
    <2> QED
      BY <2>1 DEF Grows
  <1>6. CASE MapRefused
    BY <1>6, MapRefusedTree
  <1>7. CASE MapSet
    BY <1>7, MapSetTree
  <1>8. ASSUME NEW v \in Pages, UnmapPage(v) PROVE Tree(lev, pre)'
    BY <1>8, UnmapPageTree
  <1>9. CASE UNCHANGED vars
    BY <1>1, <1>9 DEF vars, paging
  <1> QED
    BY <1>1, <1>2, <1>3, <1>4, <1>5, <1>6, <1>7, <1>8, <1>9 DEF Next, MapNext

\* In every state the tables form a tree in which each has a place of its own,
\* and every leaf is one that map_page was asked for there.
THEOREM MemoryTablesFormATree == Spec => []TreeInv
  BY MemoryInvariant, TreeInit, TreeStep, PTL DEF Spec

-----------------------------------------------------------------------------
(* No table is leaked *)

Descending(f) ==
    f = [l \in 1 .. Levels |->
            IF l = Levels THEN {root} \ {None}
            ELSE {entry[x[1]][x[2]].frame :
                     x \in {y \in f[l + 1] \X Indices :
                               LET e == entry[y[1]][y[2]]
                               IN  Present(e) /\ ~Leaf(e, l + 1)}}]

\* The tables one level below those of a set.
Below(S, level) ==
    {entry[x[1]][x[2]].frame :
        x \in {y \in S \X Indices : LET e == entry[y[1]][y[2]]
                                   IN  Present(e) /\ ~Leaf(e, level)}}

AtLevel(lev, level) == {t \in Tables : lev[t] = level}

LEMMA BelowALevel ==
    ASSUME NEW lev, NEW pre, Tree(lev, pre), NEW l \in 1 .. Levels - 1
    PROVE  Below(AtLevel(lev, l + 1), l + 1) = AtLevel(lev, l)
  <1>1. ASSUME NEW t \in AtLevel(lev, l + 1), NEW i \in Indices,
               Present(entry[t][i]), ~Leaf(entry[t][i], l + 1)
        PROVE  entry[t][i].frame \in AtLevel(lev, l)
    <2>1. t \in Tables /\ lev[t] = l + 1 /\ Inner(lev, t, i)
      BY <1>1 DEF AtLevel, Inner
    <2>2. Child(lev, pre, t, i, entry[t][i].frame)
      BY <2>1 DEF Tree, LinksDescend
    <2> QED
      BY <2>1, <2>2 DEF AtLevel, Child
  <1>2. ASSUME NEW s \in AtLevel(lev, l)
        PROVE  \E t \in AtLevel(lev, l + 1), i \in Indices :
                  /\ Present(entry[t][i]) /\ ~Leaf(entry[t][i], l + 1)
                  /\ entry[t][i].frame = s
    <2>1. s \in Tables /\ lev[s] = l /\ s # root
      BY PagingAssumption DEF AtLevel, Tree, RootOnTop
    <2>2. PICK t \in Tables, i \in Indices : Inner(lev, t, i) /\ entry[t][i].frame = s
      BY <2>1 DEF Tree, Parents
    <2>3. lev[s] = lev[t] - 1 /\ lev[t] \in 1 .. Levels
      BY <2>2 DEF Tree, LinksDescend, Child
    <2>4. lev[t] = l + 1
      BY <2>1, <2>3
    <2> QED
      BY <2>2, <2>4 DEF AtLevel, Inner
  <1>3. ASSUME NEW S, NEW k, NEW s
        PROVE  s \in Below(S, k) <=> \E t \in S, i \in Indices :
                                       /\ Present(entry[t][i]) /\ ~Leaf(entry[t][i], k)
                                       /\ entry[t][i].frame = s
    <2>1. ASSUME NEW t \in S, NEW i \in Indices, Present(entry[t][i]), ~Leaf(entry[t][i], k)
          PROVE  entry[t][i].frame \in Below(S, k)
      <3> DEFINE x == <<t, i>>
      <3>1. x \in S \X Indices /\ x[1] = t /\ x[2] = i
        OBVIOUS
      <3> HIDE DEF x
      <3> QED
        BY <2>1, <3>1 DEF Below
    <2>2. ASSUME s \in Below(S, k)
          PROVE  \E t \in S, i \in Indices : /\ Present(entry[t][i]) /\ ~Leaf(entry[t][i], k)
                                             /\ entry[t][i].frame = s
      <3>1. PICK x \in S \X Indices : /\ Present(entry[x[1]][x[2]]) /\ ~Leaf(entry[x[1]][x[2]], k)
                                      /\ entry[x[1]][x[2]].frame = s
        BY <2>2 DEF Below
      <3>2. x[1] \in S /\ x[2] \in Indices
        OBVIOUS
      <3> QED
        BY <3>1, <3>2
    <2> QED
      BY <2>1, <2>2
  <1>4. \A s : s \in Below(AtLevel(lev, l + 1), l + 1) <=> s \in AtLevel(lev, l)
    BY <1>1, <1>2, <1>3
  <1> QED
    BY <1>4

LEMMA LinkedAtIsLevel ==
    ASSUME NEW lev, NEW pre, Tree(lev, pre), None \notin Tables
    PROVE  \A l \in 1 .. Levels : LinkedAt(l) = AtLevel(lev, l)
  <1> DEFINE g == [l \in 1 .. Levels |-> AtLevel(lev, l)]
             Right(f, l) == f[l] = IF l = Levels THEN {root} \ {None} ELSE Below(f[l + 1], l + 1)
  <1>1. \A f : Descending(f) <=> f = [l \in 1 .. Levels |->
                                        IF l = Levels THEN {root} \ {None}
                                        ELSE Below(f[l + 1], l + 1)]
    BY Zenon DEF Descending, Below
  <1>2. Levels \in Nat /\ Levels >= 1
    BY PagingAssumption
  <1>3. AtLevel(lev, Levels) = {root} \ {None}
    BY TopIsRoot DEF AtLevel, Tree, RootOnTop
  <1>4. \A l \in 1 .. Levels : l # Levels => l \in 1 .. Levels - 1 /\ l + 1 \in 1 .. Levels
    BY <1>2
  <1>5. \A l \in 1 .. Levels : Right(g, l)
    BY <1>3, <1>4, BelowALevel
  <1>6. g = [l \in 1 .. Levels |-> IF l = Levels THEN {root} \ {None}
                                   ELSE Below(g[l + 1], l + 1)]
    <2>1. g = [l \in 1 .. Levels |-> g[l]]
      OBVIOUS
    <2> HIDE DEF g
    <2> QED
      BY <1>5, <2>1
  <1>7. Descending(g)
    <2> HIDE DEF g
    <2> QED
      BY <1>1, <1>6
  <1> DEFINE f == CHOOSE h : Descending(h)
  <1>8. Descending(f)
    <2> HIDE DEF g
    <2> QED
      BY <1>7
  <1>9. \A l \in 1 .. Levels : LinkedAt(l) = f[l]
    BY Zenon DEF LinkedAt, Descending
  <1> HIDE DEF f
  <1>10. \A l \in 1 .. Levels : Right(f, l)
    BY <1>1, <1>8
  <1> HIDE DEF g
  <1> DEFINE T == {k \in Nat : k < Levels => f[Levels - k] = g[Levels - k]}
  <1>11. 0 \in T
    <2>1. Levels \in 1 .. Levels /\ Levels - 0 = Levels
      BY <1>2
    <2> QED
      BY <1>5, <1>10, <2>1
  <1>12. ASSUME NEW k \in Nat, k \in T PROVE k + 1 \in T
    <2> SUFFICES ASSUME k + 1 < Levels PROVE f[Levels - (k + 1)] = g[Levels - (k + 1)]
      OBVIOUS
    <2>1. PICK l : l = Levels - (k + 1)
      OBVIOUS
    <2>2. l \in 1 .. Levels /\ l # Levels /\ l + 1 = Levels - k
      BY <1>2, <2>1
    <2>3. f[l + 1] = g[l + 1]
      BY <1>2, <1>12, <2>2
    <2> QED
      BY <1>5, <1>10, <2>1, <2>2, <2>3
  <1>13. Nat \subseteq T
    <2> HIDE DEF T
    <2> QED
      BY <1>11, <1>12, SetInduction
  <1>14. ASSUME NEW l \in 1 .. Levels PROVE f[l] = g[l]
    <2>1. PICK k : k = Levels - l
      OBVIOUS
    <2>2. k \in Nat /\ k < Levels /\ Levels - k = l
      BY <1>2, <2>1
    <2> QED
      BY <1>13, <2>2
  <1> QED
    BY <1>9, <1>14 DEF g

LEMMA TreeHasNoLeak ==
    ASSUME MemoryInv, TreeInv
    PROVE  TablesLinked
  <1>1. PICK lev, pre : Tree(lev, pre)
    BY DEF TreeInv
  <1>2. None \notin Tables /\ IsFiniteSet(Tables)
    <2>1. Tables \subseteq Frames
      BY DEF MemoryInv, TypeOK
    <2> QED
      BY <2>1, NoneIsNoFrame, FramesFinite, FS_Subset
  <1>3. \A l \in 1 .. Levels : LinkedAt(l) = AtLevel(lev, l)
    BY <1>1, <1>2, LinkedAtIsLevel
  <1>4. Tables = UNION {LinkedAt(level) : level \in 1 .. Levels}
    <2>1. \A t \in Tables : lev[t] \in 1 .. Levels /\ t \in AtLevel(lev, lev[t])
      BY <1>1 DEF Tree, AtLevel
    <2>2. \A l : AtLevel(lev, l) \subseteq Tables
      BY DEF AtLevel
    <2> QED
      BY <1>3, <2>1, <2>2
  <1>5. \A x \in Links : /\ x = <<x[1], x[2], x[3]>> /\ x[2] \in Tables /\ x[3] \in Indices
                         /\ lev[x[2]] = x[1] /\ Inner(lev, x[2], x[3])
    BY <1>3, PagingAssumption DEF Links, AtLevel, Inner
  <1>6. \A t \in Tables, i \in Indices : Inner(lev, t, i) => <<lev[t], t, i>> \in Links
    <2> SUFFICES ASSUME NEW t \in Tables, NEW i \in Indices, Inner(lev, t, i)
                 PROVE  <<lev[t], t, i>> \in Links
      OBVIOUS
    <2>1. lev[t] \in 1 .. Levels /\ lev[t] # 1
      <3>1. Child(lev, pre, t, i, entry[t][i].frame)
        BY <1>1 DEF Tree, LinksDescend
      <3> QED
        BY <1>1, <3>1 DEF Tree, Child
    <2>2. t \in LinkedAt(lev[t]) /\ lev[t] \in 2 .. Levels
      BY <1>3, <2>1 DEF AtLevel
    <2> QED
      BY <2>2 DEF Links, Inner
  <1> DEFINE to == [x \in Links |-> entry[x[2]][x[3]].frame]
             Children == Tables \ {root}
  <1>7. to \in [Links -> Children]
    <2> SUFFICES ASSUME NEW x \in Links PROVE entry[x[2]][x[3]].frame \in Children
      OBVIOUS
    <2>1. /\ Child(lev, pre, x[2], x[3], entry[x[2]][x[3]].frame)
          /\ lev[x[2]] \in 1 .. Levels
      BY <1>1, <1>5 DEF Tree, LinksDescend
    <2> QED
      BY <1>1, <2>1, PagingAssumption DEF Tree, RootOnTop, Child
  <1>8. \A x \in Links, y \in Links : to[x] = to[y] => x = y
    <2> SUFFICES ASSUME NEW x \in Links, NEW y \in Links, to[x] = to[y] PROVE x = y
      OBVIOUS
    <2>1. PICK s : s = to[x]
      OBVIOUS
    <2>2. Child(lev, pre, x[2], x[3], s) /\ Child(lev, pre, y[2], y[3], s)
      BY <1>1, <1>5, <2>1 DEF Tree, LinksDescend
    <2>3. /\ lev[x[2]] \in Nat /\ lev[y[2]] \in Nat /\ pre[x[2]] \in Nat /\ pre[y[2]] \in Nat
          /\ x[3] \in Indices /\ y[3] \in Indices
      BY <1>1, <1>5 DEF Tree
    <2>4. pre[x[2]] * Fanout + x[3] = pre[y[2]] * Fanout + y[3] /\ lev[x[2]] = lev[y[2]]
      BY <2>2, <2>3 DEF Child
    <2>5. pre[x[2]] = pre[y[2]] /\ x[3] = y[3]
      BY <2>3, <2>4, PlaceValue
    <2>6. x[2] = y[2]
      BY <1>1, <1>5, <2>4, <2>5 DEF Tree, Distinct
    <2> QED
      BY <1>5, <2>4, <2>5, <2>6
  <1>9. \A s \in Children : \E x \in Links : to[x] = s
    <2> SUFFICES ASSUME NEW s \in Children PROVE \E x \in Links : to[x] = s
      OBVIOUS
    <2>1. PICK t \in Tables, i \in Indices : Inner(lev, t, i) /\ entry[t][i].frame = s
      BY <1>1 DEF Tree, Parents
    <2> DEFINE x == <<lev[t], t, i>>
    <2>2. x \in Links
      BY <1>6, <2>1
    <2>3. to[x] = s
      BY <2>1, <2>2
    <2> QED
      BY <2>2, <2>3
  <1>10. Cardinality(Links) = Cardinality(Children)
    <2>1. to \in Bijection(Links, Children)
      <3> HIDE DEF to, Children
      <3> QED
        BY <1>7, <1>8, <1>9, Fun_IsBij
    <2>2. IsFiniteSet(Children)
      BY <1>2, FS_Subset
    <2>3. ExistsBijection(Children, Links)
      <3> HIDE DEF to, Children
      <3> QED
        BY <2>1, Fun_ExistsBijSymmetric DEF ExistsBijection
    <2> HIDE DEF to, Children
    <2> QED
      BY <2>2, <2>3, FS_Bijection
  <1> QED
    BY <1>4, <1>10 DEF TablesLinked

\* Every table is in use at exactly one place of the tree, in every state.
THEOREM MemoryTablesLinked == Spec => []TablesLinked
  BY MemoryInvariant, MemoryTablesFormATree, TreeHasNoLeak, PTL

-----------------------------------------------------------------------------
(* An address space *)

\* What translate says of a page whose leaf lies in s.
Answer(lev, v, s) == [pages |-> Block(v, lev[s]),
                      frame |-> entry[s][Index(v, lev[s])].frame,
                      flags |-> entry[s][Index(v, lev[s])].flags]

\* translate answers with the one leaf on the path of a page, if there is one.
Reads(lev, pre) ==
    \A v \in Pages :
        /\ \A s, t : Hit(lev, pre, v, s) /\ Hit(lev, pre, v, t) => s = t
        /\ \A s : Hit(lev, pre, v, s) => Translate(v) = Answer(lev, v, s)
        /\ (\A s : ~Hit(lev, pre, v, s)) => Translate(v) = None

TreesRead == \A lev, pre : Tree(lev, pre) /\ Tables \subseteq Frames => Reads(lev, pre)

LEMMA TreeReads == TreesRead
  <1> SUFFICES ASSUME NEW lev, NEW pre, Tree(lev, pre), Tables \subseteq Frames, NEW v \in Pages
               PROVE  /\ \A s, t : Hit(lev, pre, v, s) /\ Hit(lev, pre, v, t) => s = t
                      /\ \A s : Hit(lev, pre, v, s) => Translate(v) = Answer(lev, v, s)
                      /\ (\A s : ~Hit(lev, pre, v, s)) => Translate(v) = None
    BY DEF TreesRead, Reads
  <1>1. ASSUME NEW s, Hit(lev, pre, v, s)
        PROVE  LeafPlace(v) = [table |-> s, level |-> lev[s]]
    BY <1>1, NoneIsNoFrame, HitIsFound
  <1>2. ASSUME NEW s, NEW t, Hit(lev, pre, v, s), Hit(lev, pre, v, t) PROVE s = t
    <2>1. [table |-> s, level |-> lev[s]] = [table |-> t, level |-> lev[t]]
      BY <1>1, <1>2
    <2>2. [table |-> s, level |-> lev[s]].table = s /\ [table |-> t, level |-> lev[t]].table = t
      OBVIOUS
    <2> QED
      BY <2>1, <2>2
  <1>3. ASSUME NEW s, Hit(lev, pre, v, s) PROVE Translate(v) = Answer(lev, v, s)
    <2> DEFINE place == [table |-> s, level |-> lev[s]]
    <2>1. LeafPlace(v) = place
      BY <1>1, <1>3
    <2>2. place # None
      <3>1. s \in Frames /\ lev[s] \in 1 .. Levels
        BY <1>3 DEF Hit, OnPath, Tree
      <3>2. place \in [table : Frames, level : 1 .. Levels]
        BY <3>1
      <3> HIDE DEF place
      <3> QED
        BY <3>2, PagingAssumption
    <2>3. place.table = s /\ place.level = lev[s]
      OBVIOUS
    <2> HIDE DEF place
    <2> QED
      BY <2>1, <2>2, <2>3 DEF Translate, Answer
  <1>4. ASSUME \A s : ~Hit(lev, pre, v, s) PROVE Translate(v) = None
    <2>1. LeafPlace(v) = None
      BY <1>4, FoundIsHit
    <2> QED
      BY <2>1 DEF Translate
  <1> QED
    BY <1>2, <1>3, <1>4

LEMMA TreeReadsNext ==
    ASSUME NEW lev, NEW pre, Tree(lev, pre)', (Tables \subseteq Frames)'
    PROVE  Reads(lev, pre)'
  <1>1. TreesRead'
    BY TreeReads, PTL
  <1> QED
    BY <1>1 DEF TreesRead

\* Two pages share an entry if they share the table and the index.
LEMMA SharesEntry ==
    ASSUME NEW v \in Pages, NEW u \in Pages, NEW l \in 1 .. Levels
    PROVE  /\ v \in Block(u, l) <=> /\ Prefix(v, l + 1) = Prefix(u, l + 1)
                                    /\ Index(v, l) = Index(u, l)
           /\ v \in Block(u, l) => Block(v, l) = Block(u, l)
           /\ Block(u, l) \subseteq Pages
  <1>1. Block(u, l) = {w \in Pages : Prefix(w, l) = Prefix(u, l)}
    BY BlockPages
  <1>2. Block(v, l) = {w \in Pages : Prefix(w, l) = Prefix(v, l)}
    BY BlockPages
  <1>3. v \in Nat /\ u \in Nat
    BY PagePrefix
  <1>4. /\ Prefix(v, l + 1) \in Nat /\ Index(v, l) \in Indices
        /\ Prefix(v, l) = Prefix(v, l + 1) * Fanout + Index(v, l)
    BY <1>3, PrefixSplits
  <1>5. /\ Prefix(u, l + 1) \in Nat /\ Index(u, l) \in Indices
        /\ Prefix(u, l) = Prefix(u, l + 1) * Fanout + Index(u, l)
    BY <1>3, PrefixSplits
  <1>6. Prefix(v, l) = Prefix(u, l) => /\ Prefix(v, l + 1) = Prefix(u, l + 1)
                                       /\ Index(v, l) = Index(u, l)
    <2> SUFFICES ASSUME Prefix(v, l) = Prefix(u, l)
                 PROVE  Prefix(v, l + 1) = Prefix(u, l + 1) /\ Index(v, l) = Index(u, l)
      OBVIOUS
    <2>1. Prefix(v, l + 1) * Fanout + Index(v, l) = Prefix(u, l + 1) * Fanout + Index(u, l)
      BY <1>4, <1>5
    <2> QED
      BY <1>4, <1>5, <2>1, PlaceValue
  <1>7. /\ Prefix(v, l + 1) = Prefix(u, l + 1) /\ Index(v, l) = Index(u, l)
           => Prefix(v, l) = Prefix(u, l)
    BY <1>4, <1>5
  <1> QED
    BY <1>1, <1>2, <1>6, <1>7

\* A page whose leaf is the same before and after a step, or that has none.
LEMMA AnswerKept ==
    ASSUME NEW lev, NEW pre, NEW lev2, NEW pre2, NEW v \in Pages,
           Reads(lev, pre), Reads(lev2, pre2)',
           \A s : Hit(lev, pre, v, s) =>
                   /\ Hit(lev2, pre2, v, s)' /\ lev2[s] = lev[s]
                   /\ entry'[s][Index(v, lev[s])] = entry[s][Index(v, lev[s])],
           \A s : Hit(lev2, pre2, v, s)' => Hit(lev, pre, v, s)
    PROVE  Translate(v)' = Translate(v)
  <1>1. CASE \E s : Hit(lev, pre, v, s)
    <2>1. PICK s : Hit(lev, pre, v, s)
      BY <1>1
    <2>2. Translate(v) = Answer(lev, v, s)
      BY <2>1 DEF Reads
    <2>3. Translate(v)' = Answer(lev2, v, s)'
      BY <2>1 DEF Reads
    <2>4. Answer(lev2, v, s)' = Answer(lev, v, s)
      BY <2>1 DEF Answer
    <2> QED
      BY <2>2, <2>3, <2>4
  <1>2. CASE \A s : ~Hit(lev, pre, v, s)
    <2>1. Translate(v) = None
      BY <1>2 DEF Reads
    <2>2. Translate(v)' = None
      BY <1>2 DEF Reads
    <2> QED
      BY <2>1, <2>2
  <1> QED
    BY <1>1, <1>2

\* What a request maps.
Mapping(r) == [pages |-> Block(r.page, r.terminal), frame |-> r.frame, flags |-> r.flags]

\* The answers for the pages of a request go from one value to another, and no
\* others change.
AnswersChange(r, from, to) ==
    /\ r \in Requests /\ Valid(r) /\ Aligned(r)
    /\ Block(r.page, r.terminal) \subseteq Pages
    /\ \A v \in Pages :
          /\ v \in Block(r.page, r.terminal) => Translate(v) = from /\ Translate(v)' = to
          /\ v \notin Block(r.page, r.terminal) => Translate(v)' = Translate(v)

LEMMA MapSetAnswers ==
    ASSUME MemoryInv, NEW lev, NEW pre, Tree(lev, pre), MapSet
    PROVE  \E r : AnswersChange(r, None, Mapping(r))
  <1>1. PICK r, t, at :
           /\ r \in Requests /\ Valid(r) /\ Aligned(r)
           /\ t \in Tables /\ at \in Indices /\ at = Index(r.page, r.terminal)
           /\ r.terminal \in 1 .. Levels
           /\ OnPath(lev, pre, r.page, t, r.terminal) /\ lev[t] = r.terminal
           /\ ~Present(entry[t][at])
           /\ entry'[t][at].frame = r.frame /\ entry'[t][at].flags = r.flags
           /\ Leaf(entry'[t][at], r.terminal)
           /\ \A s \in Tables, i \in Indices :
                 entry'[s][i] = entry[s][i] \/ (s = t /\ i = at)
           /\ Tables' = Tables /\ walk' = None /\ root' = root
    BY MapSetLeaf
  <1>2. Tables \subseteq Frames /\ (Tables \subseteq Frames)'
    BY <1>1 DEF MemoryInv, TypeOK
  <1>3. Tree(lev, pre)'
    BY MapSetTree
  <1>4. Reads(lev, pre) /\ Reads(lev, pre)'
    BY <1>2, <1>3, TreeReads, TreeReadsNext DEF TreesRead
  <1> DEFINE l == r.terminal
             B == Block(r.page, l)
  <1>5. r.page \in Pages /\ l \in 1 .. Levels /\ pre[t] = Prefix(r.page, l + 1)
    BY <1>1, PagingAssumption DEF OnPath
  <1> HIDE DEF l
  <1>6. \A v \in Pages : \A s : Hit(lev, pre, v, s) \/ Hit(lev, pre, v, s)'
                             => s \in Tables /\ Index(v, lev[s]) \in Indices
    <2>1. ASSUME NEW v \in Pages, NEW s \in Tables PROVE Index(v, lev[s]) \in Indices
      BY <2>1, PagePrefix, PrefixSplits DEF Tree
    <2> QED
      BY <1>1, <2>1 DEF Hit, OnPath
  <1>7. ASSUME NEW v \in Pages, v \in B
        PROVE  Translate(v) = None /\ Translate(v)' = Mapping(r)
    <2>1. Prefix(v, l + 1) = pre[t] /\ Index(v, l) = at /\ Block(v, l) = B
      BY <1>1, <1>5, <1>7, SharesEntry DEF l
    <2>2. Hit(lev, pre, v, t)'
      BY <1>1, <2>1 DEF Hit, OnPath, l
    <2>3. Translate(v)' = Answer(lev, v, t)'
      BY <1>4, <2>2 DEF Reads
    <2>4. Answer(lev, v, t)' = Mapping(r)
      BY <1>1, <2>1 DEF Answer, Mapping, l
    <2>5. ASSUME NEW s, Hit(lev, pre, v, s) PROVE FALSE
      <3>1. s # t
        BY <1>1, <2>1, <2>5 DEF Hit, Leaf, l
      <3>2. Hit(lev, pre, v, s)'
        BY <1>1, <1>6, <2>5, <3>1 DEF Hit, OnPath
      <3> QED
        BY <1>4, <2>2, <3>1, <3>2 DEF Reads
    <2>6. Translate(v) = None
      BY <1>4, <2>5 DEF Reads
    <2> QED
      BY <2>3, <2>4, <2>6
  <1>8. ASSUME NEW v \in Pages, v \notin B PROVE Translate(v)' = Translate(v)
    <2>1. ASSUME NEW s, OnPath(lev, pre, v, s, lev[s]) PROVE ~(s = t /\ Index(v, lev[s]) = at)
      BY <1>1, <1>5, <1>8, <2>1, SharesEntry DEF OnPath, l
    <2>2. ASSUME NEW s, Hit(lev, pre, v, s)
          PROVE  /\ Hit(lev, pre, v, s)'
                 /\ entry'[s][Index(v, lev[s])] = entry[s][Index(v, lev[s])]
      <3>1. entry'[s][Index(v, lev[s])] = entry[s][Index(v, lev[s])]
        BY <1>1, <1>6, <2>1, <2>2 DEF Hit
      <3> QED
        BY <1>1, <2>2, <3>1 DEF Hit, OnPath
    <2>3. ASSUME NEW s, Hit(lev, pre, v, s)' PROVE Hit(lev, pre, v, s)
      <3>1. OnPath(lev, pre, v, s, lev[s])
        BY <1>1, <2>3 DEF Hit, OnPath
      <3>2. entry'[s][Index(v, lev[s])] = entry[s][Index(v, lev[s])]
        BY <1>1, <1>6, <2>1, <2>3, <3>1
      <3> QED
        BY <2>3, <3>1, <3>2 DEF Hit
    <2> QED
      BY <1>4, <2>2, <2>3, AnswerKept
  <1>9. B \subseteq Pages
    BY <1>5, SharesEntry
  <1>10. AnswersChange(r, None, Mapping(r))
    BY <1>1, <1>7, <1>8, <1>9 DEF AnswersChange, l
  <1> QED
    BY <1>10

LEMMA UnmapPageAnswers ==
    ASSUME MemoryInv, NEW lev, NEW pre, Tree(lev, pre), NEW page \in Pages, UnmapPage(page)
    PROVE  \E r : AnswersChange(r, Mapping(r), None)
  <1>1. PICK t : Clears(lev, pre, page, t)
    BY UnmapPageLeaf
  <1>2. PICK l, at : l = lev[t] /\ at = Index(page, l)
    OBVIOUS
  <1>3. /\ Hit(lev, pre, page, t) /\ ~Present(entry'[t][at])
        /\ \A s \in Tables, i \in Indices :
              entry'[s][i] = entry[s][i] \/ (s = t /\ i = at)
        /\ Tables' = Tables
    BY <1>1, <1>2 DEF Clears
  <1>4. Tables \subseteq Frames /\ (Tables \subseteq Frames)'
    BY <1>3 DEF MemoryInv, TypeOK
  <1>5. Tree(lev, pre)'
    BY UnmapPageTree
  <1>6. Reads(lev, pre) /\ Reads(lev, pre)'
    BY <1>4, <1>5, TreeReads, TreeReadsNext DEF TreesRead
  <1>7. \A v \in Pages : \A s : Hit(lev, pre, v, s) \/ Hit(lev, pre, v, s)'
                             => s \in Tables /\ Index(v, lev[s]) \in Indices
    <2>1. ASSUME NEW v \in Pages, NEW s \in Tables PROVE Index(v, lev[s]) \in Indices
      BY <2>1, PagePrefix, PrefixSplits DEF Tree
    <2> QED
      BY <1>3, <2>1 DEF Hit, OnPath
  <1>8. /\ t \in Tables /\ l \in 1 .. Levels /\ at \in Indices
        /\ pre[t] = Prefix(page, l + 1) /\ pre[t] \in Nat /\ Leaf(entry[t][at], l)
    BY <1>2, <1>3, <1>7 DEF Hit, OnPath, Tree
  <1>9. PICK r \in Requests : /\ Valid(r) /\ Aligned(r) /\ r.terminal = l
                              /\ Prefix(r.page, l) = pre[t] * Fanout + at
                              /\ entry[t][at].frame = r.frame /\ entry[t][at].flags = r.flags
    BY <1>2, <1>8 DEF Tree, LeavesAsked, Asked
  <1>10. r.page \in Pages /\ r.page \in Nat
    BY PagingAssumption, PagePrefix
  <1>11. Prefix(r.page, l + 1) = pre[t] /\ Index(r.page, l) = at
    <2>1. /\ Prefix(r.page, l + 1) \in Nat /\ Index(r.page, l) \in Indices
          /\ Prefix(r.page, l) = Prefix(r.page, l + 1) * Fanout + Index(r.page, l)
      BY <1>8, <1>10, PrefixSplits
    <2>2. Prefix(r.page, l + 1) * Fanout + Index(r.page, l) = pre[t] * Fanout + at
      BY <1>9, <2>1
    <2> QED
      BY <1>8, <2>1, <2>2, PlaceValue
  <1> DEFINE B == Block(r.page, l)
  <1>12. ASSUME NEW v \in Pages, v \in B
         PROVE  Translate(v) = Mapping(r) /\ Translate(v)' = None
    <2>1. Prefix(v, l + 1) = pre[t] /\ Index(v, l) = at /\ Block(v, l) = B
      BY <1>8, <1>10, <1>11, <1>12, SharesEntry
    <2>2. Hit(lev, pre, v, t)
      BY <1>2, <1>8, <2>1 DEF Hit, OnPath
    <2>3. Translate(v) = Answer(lev, v, t)
      BY <1>6, <2>2 DEF Reads
    <2>4. Answer(lev, v, t) = Mapping(r)
      BY <1>2, <1>9, <2>1 DEF Answer, Mapping
    <2>5. ASSUME NEW s, Hit(lev, pre, v, s)' PROVE FALSE
      <3>1. s # t
        BY <1>2, <1>3, <2>1, <2>5 DEF Hit, Leaf
      <3>2. Hit(lev, pre, v, s)
        BY <1>3, <1>7, <2>5, <3>1 DEF Hit, OnPath
      <3> QED
        BY <1>6, <2>2, <3>1, <3>2 DEF Reads
    <2>6. Translate(v)' = None
      BY <1>6, <2>5 DEF Reads
    <2> QED
      BY <2>3, <2>4, <2>6
  <1>13. ASSUME NEW v \in Pages, v \notin B PROVE Translate(v)' = Translate(v)
    <2>1. ASSUME NEW s, OnPath(lev, pre, v, s, lev[s]) PROVE ~(s = t /\ Index(v, lev[s]) = at)
      BY <1>2, <1>8, <1>10, <1>11, <1>13, <2>1, SharesEntry DEF OnPath
    <2>2. ASSUME NEW s, Hit(lev, pre, v, s)
          PROVE  /\ Hit(lev, pre, v, s)'
                 /\ entry'[s][Index(v, lev[s])] = entry[s][Index(v, lev[s])]
      <3>1. entry'[s][Index(v, lev[s])] = entry[s][Index(v, lev[s])]
        BY <1>3, <1>7, <2>1, <2>2 DEF Hit
      <3> QED
        BY <1>3, <2>2, <3>1 DEF Hit, OnPath
    <2>3. ASSUME NEW s, Hit(lev, pre, v, s)' PROVE Hit(lev, pre, v, s)
      <3>1. OnPath(lev, pre, v, s, lev[s])
        BY <1>3, <2>3 DEF Hit, OnPath
      <3>2. entry'[s][Index(v, lev[s])] = entry[s][Index(v, lev[s])]
        BY <1>3, <1>7, <2>1, <2>3, <3>1
      <3> QED
        BY <2>3, <3>1, <3>2 DEF Hit
    <2> QED
      BY <1>6, <2>2, <2>3, AnswerKept
  <1>14. B \subseteq Pages
    BY <1>8, <1>10, SharesEntry
  <1>15. AnswersChange(r, Mapping(r), None)
    BY <1>9, <1>12, <1>13, <1>14 DEF AnswersChange
  <1> QED
    BY <1>15

LEMMA MakeRootAnswers ==
    ASSUME MemoryInv, MakeRoot, NEW v \in Pages
    PROVE  Translate(v)' = Translate(v)
  <1>1. /\ root = None /\ Tables' = {NextFree} /\ entry' = [t \in {NextFree} |-> EmptyTable]
    BY DEF MakeRoot, Tables
  <1>2. Translate(v) = None
    BY <1>1 DEF Translate, LeafPlace
  <1>3. MemoryInv'
    BY MakeRootStep
  <1>4. (Tables \subseteq Frames)'
    BY <1>3 DEF MemoryInv, TypeOK
  <1>5. PICK lev, pre : Tree(lev, pre)'
    BY MakeRootTree
  <1>6. Reads(lev, pre)'
    BY <1>4, <1>5, TreeReadsNext
  <1>7. ASSUME NEW s, Hit(lev, pre, v, s)' PROVE FALSE
    <2>1. s \in Tables' /\ lev[s] \in 1 .. Levels
      BY <1>5, <1>7 DEF Hit, OnPath, Tree
    <2>2. Index(v, lev[s]) \in Indices
      BY <2>1, PagePrefix, PrefixSplits
    <2>3. entry'[s][Index(v, lev[s])] = Empty
      BY <1>1, <2>1, <2>2 DEF EmptyTable
    <2> QED
      BY <1>7, <2>3 DEF Hit, Leaf, Present, Empty
  <1>8. Translate(v)' = None
    BY <1>6, <1>7 DEF Reads
  <1> QED
    BY <1>2, <1>8

LEMMA MapGrowAnswers ==
    ASSUME MemoryInv, NEW old, NEW above, Tree(old, above), MapGrow, NEW v \in Pages
    PROVE  Translate(v)' = Translate(v)
  <1>1. PICK lev, pre : Grows(old, above, lev, pre)
    BY MapGrowTree
  <1> USE <1>1 DEF Grows
  <1>2. MemoryInv'
    BY MapGrowStep
  <1>3. Tables \subseteq Frames /\ (Tables \subseteq Frames)'
    BY <1>2 DEF MemoryInv, TypeOK
  <1>4. Reads(old, above) /\ Reads(lev, pre)'
    BY <1>1, <1>3, TreeReads, TreeReadsNext DEF TreesRead
  <1>5. ASSUME NEW s \in Tables' PROVE lev[s] \in 1 .. Levels /\ Index(v, lev[s]) \in Indices
    <2>1. lev[s] \in 1 .. Levels
      BY <1>1 DEF Tree
    <2> QED
      BY <2>1, PagePrefix, PrefixSplits
  <1>6. ASSUME NEW s, Hit(old, above, v, s)
        PROVE  /\ Hit(lev, pre, v, s)' /\ lev[s] = old[s]
               /\ entry'[s][Index(v, old[s])] = entry[s][Index(v, old[s])]
    <2>1. s \in Tables /\ lev[s] = old[s]
      BY <1>1, <1>6 DEF Hit, OnPath
    <2>2. entry'[s][Index(v, old[s])] = entry[s][Index(v, old[s])]
      BY <1>1, <1>5, <1>6, <2>1 DEF Hit
    <2> QED
      BY <1>1, <1>6, <2>1, <2>2 DEF Hit, OnPath
  <1>7. ASSUME NEW s, Hit(lev, pre, v, s)' PROVE Hit(old, above, v, s)
    <2>1. s \in Tables'
      BY <1>7 DEF Hit, OnPath
    <2>2. s \in Tables /\ entry'[s][Index(v, lev[s])] = entry[s][Index(v, lev[s])]
      BY <1>1, <1>5, <1>7, <2>1 DEF Hit
    <2> QED
      BY <1>1, <1>7, <2>2 DEF Hit, OnPath
  <1> QED
    BY <1>4, <1>6, <1>7, AnswerKept

LEMMA SameTablesAnswer ==
    ASSUME MemoryInv, NEW lev, NEW pre, Tree(lev, pre), Tree(lev, pre)',
           UNCHANGED entry, NEW v \in Pages
    PROVE  Translate(v)' = Translate(v)
  <1>1. Tables' = Tables /\ Tables \subseteq Frames /\ (Tables \subseteq Frames)'
    BY DEF MemoryInv, TypeOK, Tables
  <1>2. Reads(lev, pre) /\ Reads(lev, pre)'
    BY <1>1, TreeReads, TreeReadsNext DEF TreesRead
  <1>3. \A s : Hit(lev, pre, v, s)' <=> Hit(lev, pre, v, s)
    BY <1>1 DEF Hit, OnPath
  <1> QED
    BY <1>2, <1>3, AnswerKept

LEMMA MapIsMap ==
    ASSUME NEW r, AnswersChange(r, None, Mapping(r))
    PROVE  A!Next
  <1> DEFINE m == Mapping(r)
             view == [v \in Pages |-> Translate(v)]
  <1>1. m.pages = Block(r.page, r.terminal) /\ m.pages \subseteq Pages
    BY DEF AnswersChange, Mapping
  <1>2. \A v \in Pages : /\ v \in m.pages => Translate(v) = None /\ Translate(v)' = m
                         /\ v \notin m.pages => Translate(v)' = Translate(v)
    BY <1>1 DEF AnswersChange
  <1>3. m \in {[pages |-> Block(q.page, q.terminal), frame |-> q.frame, flags |-> q.flags] :
                 q \in {p \in Requests : Valid(p) /\ Aligned(p)}}
    BY DEF AnswersChange, Mapping
  <1> HIDE DEF m
  <1>4. A!Change(m, None, m)
    BY <1>1, <1>2 DEF A!Change
  <1> QED
    BY <1>3, <1>4 DEF A!Next, A!Map

LEMMA UnmapIsUnmap ==
    ASSUME NEW r, AnswersChange(r, Mapping(r), None)
    PROVE  A!Next
  <1> DEFINE m == Mapping(r)
  <1>1. m.pages = Block(r.page, r.terminal) /\ m.pages \subseteq Pages
    BY DEF AnswersChange, Mapping
  <1>2. \A v \in Pages : /\ v \in m.pages => Translate(v) = m /\ Translate(v)' = None
                         /\ v \notin m.pages => Translate(v)' = Translate(v)
    BY <1>1 DEF AnswersChange
  <1>3. m \in {[pages |-> Block(q.page, q.terminal), frame |-> q.frame, flags |-> q.flags] :
                 q \in {p \in Requests : Valid(p) /\ Aligned(p)}}
    BY DEF AnswersChange, Mapping
  <1> HIDE DEF m
  <1>4. A!Change(m, m, None)
    BY <1>1, <1>2 DEF A!Change
  <1> QED
    BY <1>3, <1>4 DEF A!Next, A!Unmap

LEMMA AddressSpaceInit == Init => A!Init
  <1> SUFFICES ASSUME Init PROVE A!Init
    OBVIOUS
  <1>1. \A v \in Pages : Translate(v) = None
    BY DEF Init, Translate, LeafPlace
  <1> QED
    BY <1>1 DEF A!Init

LEMMA AddressSpaceStep ==
    MemoryInv /\ TreeInv /\ [Next]_vars => [A!Next]_([v \in Pages |-> Translate(v)])
  <1> SUFFICES ASSUME MemoryInv, NEW lev, NEW pre, Tree(lev, pre), [Next]_vars,
                      ~A!Next
               PROVE  [v \in Pages |-> Translate(v)]' = [v \in Pages |-> Translate(v)]
    BY DEF TreeInv
  <1> SUFFICES \A v \in Pages : Translate(v)' = Translate(v)
    OBVIOUS
  <1>1. CASE Tree(lev, pre)' /\ UNCHANGED entry
    BY <1>1, SameTablesAnswer
  <1>2. CASE MakeRoot
    BY <1>2, MakeRootAnswers
  <1>3. CASE MapGrow
    BY <1>3, MapGrowAnswers
  <1>4. CASE MapSet
    BY <1>4, MapSetAnswers, MapIsMap
  <1>5. ASSUME NEW v \in Pages, UnmapPage(v) PROVE FALSE
    BY <1>5, UnmapPageAnswers, UnmapIsUnmap
  <1>6. CASE UNCHANGED paging
    BY <1>1, <1>6, PagingKeepsTree DEF paging
  <1>7. ASSUME NEW r \in Requests, MapBegin(r) PROVE Tree(lev, pre)' /\ UNCHANGED entry
    BY <1>7, MapBeginTree DEF MapBegin
  <1>8. CASE MapDescend
    BY <1>1, <1>8, MapDescendTree DEF MapDescend
  <1>9. CASE MapRefused
    BY <1>1, <1>9, MapRefusedTree DEF MapRefused
  <1>10. CASE UNCHANGED vars
    BY <1>6, <1>10 DEF vars
  <1> QED
    BY <1>1, <1>2, <1>3, <1>4, <1>5, <1>6, <1>7, <1>8, <1>9, <1>10 DEF Next, MapNext

\* Mapping and unmapping change what translate answers for exactly the pages
\* asked for, all at once, whatever fails half-way.
THEOREM MemoryImplementsAddressSpace == Spec => ImplementsAddressSpace
  <1>1. MemoryInv /\ TreeInv /\ [Next]_vars => [A!Next]_([v \in Pages |-> Translate(v)])
    BY AddressSpaceStep
  <1> QED
    BY <1>1, AddressSpaceInit, MemoryInvariant, MemoryTablesFormATree, PTL
       DEF Spec, ImplementsAddressSpace, A!Spec
=============================================================================
