----------------------------- MODULE PageTables -----------------------------
(***************************************************************************)
(* Page tables (kernel/spectre-kernel/src/arch/paging.rs) whose tables are *)
(* frames of the FrameAllocator: map_page, unmap_page and translate in one *)
(* address space, while others allocate and free frames.                   *)
(*                                                                         *)
(* map_page walks down from the root and takes a frame for every table it  *)
(* misses, so that others may allocate between two levels: each level is a *)
(* step.  One walk is under way at a time (`&mut A`).  A page is its       *)
(* number, a frame of a mapping any frame number.  An entry is a record of *)
(* its frame and its flags; accessed, dirty and software bits are left     *)
(* out.  TableAccess::alloc_table is FrameAllocator::alloc with the frame  *)
(* zeroed, as its documentation says.  Refusals before the walk (W^X,      *)
(* user pages in the kernel half, alignment) change nothing.               *)
(***************************************************************************)
EXTENDS FrameAllocator

CONSTANTS
    Levels,      \* PagingMode::levels, 4 or 5 in the code
    Fanout,      \* PageTable::LEN, 512 in the code
    Requests     \* what map_page is asked for: [page, terminal, frame, flags]

\* How many pages share an entry at a level.
Span[level \in 1 .. Levels + 1] == IF level = 1 THEN 1 ELSE Span[level - 1] * Fanout

Pages == 0 .. Span[Levels + 1] - 1
Flags == [write : BOOLEAN, exec : BOOLEAN, user : BOOLEAN]

ASSUME PagingAssumption ==
    /\ Levels \in 4 .. 5 /\ Fanout \in Nat \ {0}
    /\ Requests \subseteq [page : Pages, terminal : 1 .. 3, frame : Nat, flags : Flags]
    /\ None \notin [table : Frames, level : 1 .. Levels]

VARIABLES
    root,     \* the frame of the top table, or None before it is made
    entry,    \* entry[t][i] for every table t
    walk      \* map_page under way: its request, table and level; or None

paging == <<root, entry, walk>>
vars == <<frameVars, paging>>

Indices == 0 .. Fanout - 1
Tables == DOMAIN entry
Empty == [frame |-> None]
EmptyTable == [i \in Indices |-> Empty]
Entries == [frame : Nat, flags : Flags, huge : BOOLEAN]

TypeOK ==
    /\ FrameTypeOK
    /\ root \in Frames \cup {None}
    /\ Tables \subseteq Frames /\ entry \in [Tables -> [Indices -> Entries \cup {Empty}]]
    /\ walk = None \/ walk \in [request : Requests, table : Tables, level : 1 .. Levels]

Init ==
    /\ FrameInit
    /\ root = None /\ walk = None
    /\ entry = [t \in {} |-> EmptyTable]

-----------------------------------------------------------------------------
(* Addresses and entries *)

Index(page, level) == (page \div Span[level]) % Fanout
\* The pages that share an entry with a page at a level.
Block(page, level) == Run((page \div Span[level]) * Span[level], Span[level])
KernelHalf(page) == 2 * page >= Span[Levels + 1]

Present(e) == e.frame # None

\* is_leaf
Leaf(e, level) == Present(e) /\ (level = 1 \/ (level \in {2, 3} /\ e.huge))

\* PageFlags::validate
Valid(r) == /\ ~(r.flags.write /\ r.flags.exec)
            /\ ~(r.flags.user /\ KernelHalf(r.page))

Aligned(r) == r.page % Span[r.terminal] = 0 /\ r.frame % Span[r.terminal] = 0

\* PageFlags::intermediate
Intermediate(user) == [write |-> TRUE, exec |-> TRUE, user |-> user]

-----------------------------------------------------------------------------
(* map_page *)

\* The address space gets its top table.
MakeRoot ==
    /\ boot = "running" /\ root = None
    /\ TakeNext
    /\ root' = NextFree
    /\ entry' = [t \in {NextFree} |-> EmptyTable]
    /\ UNCHANGED <<bootVars, runs, walk>>

MapBegin(r) ==
    /\ root # None /\ walk = None
    /\ Valid(r) /\ Aligned(r)
    /\ walk' = [request |-> r, table |-> root, level |-> Levels]
    /\ UNCHANGED <<frameVars, root, entry>>

\* The walk stands at an entry above, or at, its terminal level.
Above(e) == /\ walk # None
            /\ walk.level > walk.request.terminal
            /\ e = entry[walk.table][Index(walk.request.page, walk.level)]
AtTerminal(e) == /\ walk # None
                 /\ walk.level = walk.request.terminal
                 /\ e = entry[walk.table][Index(walk.request.page, walk.level)]

EntriesOf(table) == {entry[table][i] : i \in Indices}
Here == IF walk = None THEN {} ELSE EntriesOf(walk.table)

Down(table) == walk' = [walk EXCEPT !.table = table, !.level = @ - 1]
Put(e) == [entry EXCEPT ![walk.table][Index(walk.request.page, walk.level)] = e]

MapDescend ==
    \E e \in Here :
        /\ Above(e) /\ Present(e) /\ ~Leaf(e, walk.level)
        /\ Down(e.frame)
        /\ UNCHANGED <<frameVars, root, entry>>

\* Mutation of MapGrow: the new table is not linked in.
MapGrow_Unlinked ==
    \E e \in Here :
        /\ Above(e) /\ ~Present(e)
        /\ TakeNext
        /\ Down(NextFree)
        /\ entry' = [t \in Tables \cup {NextFree} |->
                        IF t = NextFree THEN EmptyTable ELSE entry[t]]
        /\ UNCHANGED <<bootVars, runs, root>>

\* A table is missing: alloc_table, and the entry that points to it.
MapGrow ==
    \E e \in Here :
        /\ Above(e) /\ ~Present(e)
        /\ TakeNext
        /\ Down(NextFree)
        /\ LET link == [frame |-> NextFree, huge |-> FALSE,
                        flags |-> Intermediate(walk.request.flags.user)]
           IN  entry' = [t \in Tables \cup {NextFree} |->
                            IF t = NextFree THEN EmptyTable ELSE Put(link)[t]]
        /\ UNCHANGED <<bootVars, runs, root>>

\* map_page returns an error: AlreadyMapped under a large page, OutOfFrames, or
\* AlreadyMapped at the terminal entry.  What the walk has built stays.
MapRefused ==
    /\ \E e \in Here : \/ Above(e) /\ Leaf(e, walk.level)
                       \/ Above(e) /\ ~Present(e) /\ NextFree = None
                       \/ AtTerminal(e) /\ Present(e)
    /\ walk' = None
    /\ UNCHANGED <<frameVars, root, entry>>

\* Mutation of MapSet: the terminal entry is overwritten.
MapSet_Replaces ==
    \E e \in Here :
        /\ AtTerminal(e)
        /\ entry' = Put([frame |-> walk.request.frame, flags |-> walk.request.flags,
                         huge |-> walk.level > 1])
        /\ walk' = None
        /\ UNCHANGED <<frameVars, root>>

MapSet ==
    \E e \in Here :
        /\ AtTerminal(e) /\ ~Present(e)
        /\ entry' = Put([frame |-> walk.request.frame, flags |-> walk.request.flags,
                         huge |-> walk.level > 1])
        /\ walk' = None
        /\ UNCHANGED <<frameVars, root>>

-----------------------------------------------------------------------------
(* translate and unmap_page *)

\* Where the walk for a page meets its leaf: [table, level], or None.  read_entry
\* has nothing for a frame that is no table.
LeafPlace(page) ==
    LET From[at \in Tables \X (1 .. Levels)] ==
            LET e == entry[at[1]][Index(page, at[2])]
            IN  IF ~Present(e) THEN None
                ELSE IF Leaf(e, at[2]) THEN [table |-> at[1], level |-> at[2]]
                ELSE IF e.frame \notin Tables THEN None
                ELSE From[<<e.frame, at[2] - 1>>]
    IN  IF root = None THEN None ELSE From[<<root, Levels>>]

\* unmap_page clears the leaf; it frees neither the frame nor a table.
UnmapPage(page) ==
    /\ walk = None
    /\ LET place == LeafPlace(page)
       IN  /\ place # None
           /\ entry' = [entry EXCEPT ![place.table][Index(page, place.level)] = Empty]
    /\ UNCHANGED <<frameVars, root, walk>>

-----------------------------------------------------------------------------
MapNext == MakeRoot \/ (\E r \in Requests : MapBegin(r)) \/ MapDescend \/ MapGrow
           \/ MapRefused \/ MapSet

Next == \/ FrameNext /\ UNCHANGED paging
        \/ MapNext
        \/ \E v \in Pages : UnmapPage(v)

Spec == Init /\ [][Next]_vars

-----------------------------------------------------------------------------
(* Properties *)

\* The tables that walks read at a level, and the entries they are found in.
LinkedAt(level) ==
    LET At[l \in 1 .. Levels] ==
            IF l = Levels THEN {root} \ {None}
            ELSE {entry[x[1]][x[2]].frame :
                     x \in {y \in At[l + 1] \X Indices :
                               LET e == entry[y[1]][y[2]]
                               IN  Present(e) /\ ~Leaf(e, l + 1)}}
    IN  At[level]

Links == {l \in (2 .. Levels) \X Tables \X Indices :
             LET e == entry[l[2]][l[3]]
             IN  l[2] \in LinkedAt(l[1]) /\ Present(e) /\ ~Leaf(e, l[1])}

\* Every frame is accounted for exactly once: free, withheld since boot, held
\* by whom it was given to, or a table; and the running count agrees
\* (frame.rs:80-83).
FramesAccounted ==
    /\ taken = withheld \cup HeldFrames \cup Tables
    /\ used = Cardinality(taken)
    /\ withheld \cap (HeldFrames \cup Tables) = {}
    /\ Tables \cap HeldFrames = {}
    /\ \A r, q \in runs : r # q => Run(r.first, r.count) \cap Run(q.first, q.count) = {}

\* Every table is in use at exactly one place of the tree: mappings that fail
\* half-way leak no table (paging.rs:395-398), and no two entries share one.
TablesLinked ==
    /\ Tables = UNION {LinkedAt(level) : level \in 1 .. Levels}
    /\ Cardinality(Tables \ {root}) = Cardinality(Links)

\* What translate says of a page: the pages that share its mapping, the frame
\* of the first of them, and the flags.
Translate(page) ==
    LET place == LeafPlace(page)
    IN  IF place = None THEN None
        ELSE LET e == entry[place.table][Index(page, place.level)]
             IN  [pages |-> Block(page, place.level), frame |-> e.frame, flags |-> e.flags]

A == INSTANCE AddressSpace WITH
        view <- [v \in Pages |-> Translate(v)],
        Mappings <- {[pages |-> Block(r.page, r.terminal), frame |-> r.frame,
                      flags |-> r.flags] : r \in {q \in Requests : Valid(q) /\ Aligned(q)}}

\* Mapping and unmapping, level by level and whatever fails half-way, change
\* what translate answers for exactly the pages asked for, all at once, and
\* never replace a mapping (paging.rs:353-357).
ImplementsAddressSpace == A!Spec
=============================================================================
