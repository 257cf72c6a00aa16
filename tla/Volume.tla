------------------------------- MODULE Volume -------------------------------
(***************************************************************************)
(* What SpectreFS promises of a volume (fs/spectrefs/src/layout.rs:24-31,  *)
(* 44-48, 124): it changes from one version to the next in one step, only  *)
(* to a version somebody asked for, and the version somebody was told of   *)
(* stays until the next one is asked for.                                  *)
(***************************************************************************)
EXTENDS Naturals

CONSTANT None

VARIABLES durable,   \* the version that a mount would find now
          asked,     \* the version being committed, or None
          told       \* the newest version known to be durable

vars == <<durable, asked, told>>

Init == durable = told /\ asked = None

Ask == /\ asked = None /\ told = durable
       /\ asked' # None /\ asked'.txg = durable.txg + 1
       /\ UNCHANGED <<durable, told>>

\* The version asked for takes the place of the durable one, whole.
Advance == /\ asked # None /\ durable # asked
           /\ durable' = asked /\ asked' \in {asked, None}
           /\ UNCHANGED told

\* A power loss before or after the step; nobody asks any more.
Abandon == asked # None /\ asked' = None /\ UNCHANGED <<durable, told>>

\* The commit is acknowledged, or, after a power loss, found to be there.
Tell == told' = durable /\ asked' = None /\ UNCHANGED durable

Next == Ask \/ Advance \/ Abandon \/ Tell

Spec == Init /\ [][Next]_vars
=============================================================================
