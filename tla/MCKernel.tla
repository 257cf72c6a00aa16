------------------------------ MODULE MCKernel ------------------------------
(***************************************************************************)
(* What the kernel grants and takes back, each part for TLC: capabilities, *)
(* the entries of a notification port, real-time shares, and the frames of *)
(* a machine with the page tables of an address space.  They share no      *)
(* state: a behaviour is one of `unit`, and the others keep their initial  *)
(* states.                                                                 *)
(***************************************************************************)
EXTENDS CapSet, Port, RtAdmission, PageTables, TLC

CONSTANTS p1, p2, o1, o2, t1, t2, t3

VARIABLE unit

-----------------------------------------------------------------------------
(* Kernel objects *)

\* Handles 0 and 2 start their probes at the same entry of two, and there are
\* more handles than entries, so tables fill.
TwoRights == {"DELEGATE", "SEND"}
FewHandles == {0, 1, 2}
RevokeFromOne == {<<p1, o1>>}

\* Three tenths, half, seven tenths rounded down, more than a whole processor, and
\* no period.  Three threads compete for seven tenths.  A budget of eight in five
\* is sixteen tenths, one more than the total can hold.
Request(b, p) == [budget |-> b, period |-> p]
SmallRequests == {Request(3, 10), Request(1, 2), Request(5, 7), Request(6, 5),
                  Request(1, 0)}
AnyRequests == SmallRequests \cup {Request(8, 5)}

-----------------------------------------------------------------------------
(* Memory: eight frames, five of them usable, and sixteen pages in four    *)
(* levels.                                                                 *)

\* Bytes, with pages of four: an overlapping pair, neither end on a page.
UsableRegions == {[start |-> 4, len |-> 22], [start |-> 18, len |-> 16]}

\* Two bytes across the boundary of pages 4 and 5.
ReservedRegions == {[start |-> 19, len |-> 2]}

User == [write |-> TRUE, exec |-> FALSE, user |-> TRUE]
Kernel == [write |-> FALSE, exec |-> TRUE, user |-> FALSE]
Unsafe == [write |-> TRUE, exec |-> TRUE, user |-> FALSE]

MapAt(page, terminal, frame, flags) ==
    [page |-> page, terminal |-> terminal, frame |-> frame, flags |-> flags]

\* A small page, its neighbour, the large page over both, a huge page elsewhere;
\* a misaligned frame and an unsafe page are refused.
Asked == {MapAt(0, 1, 17, Kernel), MapAt(1, 1, 16, User), MapAt(0, 2, 16, User),
          MapAt(8, 3, 20, Kernel), MapAt(0, 2, 17, User), MapAt(4, 1, 18, Unsafe)}

-----------------------------------------------------------------------------
objectVars == <<capVars, portVars, rtVars>>

MCInit == /\ unit \in {"capabilities", "port", "admission", "memory"}
          /\ CapInit /\ PortInit /\ RtInit /\ Init

OnlyPort == unit = "port" /\ UNCHANGED <<unit, capVars, rtVars, vars>>

MCNext ==
    \/ unit = "capabilities" /\ CapNext /\ UNCHANGED <<unit, portVars, rtVars, vars>>
    \/ OnlyPort /\ PortNext
    \/ unit = "admission" /\ RtNext /\ UNCHANGED <<unit, capVars, portVars, vars>>
    \/ unit = "memory" /\ Next /\ UNCHANGED <<unit, objectVars>>

allVars == <<unit, objectVars, vars>>

\* The fairness that Port needs.
MCSpec == /\ MCInit /\ [][MCNext]_allVars
          /\ WF_allVars(OnlyPort /\ Post(p1))
          /\ WF_allVars(OnlyPort /\ Receive)
=============================================================================
