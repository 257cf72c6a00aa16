------------------------------ MODULE FileTree ------------------------------
(***************************************************************************)
(* The pointer tree of a SpectreFS file (fs/spectrefs/src/layout.rs):      *)
(* direct pointers in the inode, then four levels of indirect blocks.  A   *)
(* file grows block by block; each block is kept where locate_block puts   *)
(* it.                                                                     *)
(***************************************************************************)
EXTENDS Integers, Sequences

CONSTANTS
    Direct,             \* pointers in the inode
    PointersPerBlock    \* POINTERS_PER_BLOCK

ASSUME FileTreeAssumption == Direct \in Nat /\ PointersPerBlock \in Nat \ {0}

VARIABLES size,    \* Inode.blocks
          tree     \* the file's block at each place of the pointer tree

ftVars == <<size, tree>>

Single == PointersPerBlock
Double == Single * Single
Triple == Double * Single

\* max_file_size, in blocks.
MaxBlocks == Direct + Single + Double + Triple + Triple * Single

\* A path: the inode's pointer and the index at each level, from the top.
Path(pointer, indices) == [pointer |-> pointer, indices |-> indices]
OutOfRange == Path("none", <<>>)

\* Mutation of LocateBlock: the double indirect block starts one block late.
LocateBlock_OffByOne(n) ==
    LET i == n - Direct
        j == i - Single
    IN  IF n < Direct THEN Path("direct", <<n>>)
        ELSE IF i <= Single THEN Path("indirect", <<i % Single>>)
        ELSE IF j < Double THEN Path("double", <<j \div Single, j % Single>>)
        ELSE OutOfRange

LocateBlock(n) ==
    LET i == n - Direct
        j == i - Single
        k == j - Double
        l == k - Triple
    IN  IF n < Direct THEN Path("direct", <<n>>)
        ELSE IF i < Single THEN Path("indirect", <<i>>)
        ELSE IF j < Double THEN Path("double", <<j \div Single, j % Single>>)
        ELSE IF k < Triple
             THEN Path("triple", <<k \div Double, (k \div Single) % Single, k % Single>>)
        ELSE IF l < Triple * Single
             THEN Path("quad", <<l \div Triple, (l \div Double) % Single,
                                 (l \div Single) % Single, l % Single>>)
        ELSE OutOfRange

FileInit == size = 0 /\ tree = <<>>

\* The file grows by a block.
Grow == /\ LocateBlock(size) # OutOfRange
        /\ size' = size + 1
        /\ tree' = [p \in DOMAIN tree \cup {LocateBlock(size)} |->
                       IF p = LocateBlock(size) THEN size ELSE tree[p]]

FileSpec == FileInit /\ [][Grow]_ftVars

\* Every block of the file is still where it was put, no index leaves its
\* indirect block, and the tree is full exactly at max_file_size
\* (layout.rs:246-256).
FileReadsBack ==
    /\ \A i \in 0 .. size - 1 : tree[LocateBlock(i)] = i
    /\ \A p \in DOMAIN tree : p.pointer # "direct" =>
           \A l \in DOMAIN p.indices : p.indices[l] \in 0 .. PointersPerBlock - 1
    /\ LocateBlock(size) = OutOfRange <=> size = MaxBlocks
=============================================================================
