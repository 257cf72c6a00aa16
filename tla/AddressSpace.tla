---------------------------- MODULE AddressSpace ----------------------------
(***************************************************************************)
(* What the page tables promise                                            *)
(* (kernel/spectre-kernel/src/arch/paging.rs): an address space in which   *)
(* mapping never replaces, and unmapping removes exactly one mapping.      *)
(***************************************************************************)
CONSTANTS Pages, Mappings, None

VARIABLE view       \* view[v]: the mapping that page v belongs to, or None

Init == view = [v \in Pages |-> None]

\* The pages of a mapping go from one value to another, the others keep theirs.
Change(m, from, to) ==
    /\ \A v \in m.pages : view[v] = from /\ view'[v] = to
    /\ view' = [v \in Pages |-> IF v \in m.pages THEN to ELSE view[v]]

Map(m) == Change(m, None, m)
Unmap(m) == Change(m, m, None)

Next == \E m \in Mappings : Map(m) \/ Unmap(m)

Spec == Init /\ [][Next]_view
=============================================================================
