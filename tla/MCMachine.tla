----------------------------- MODULE MCMachine -----------------------------
(***************************************************************************)
(* The machine's processors and its disk, each part for TLC: picking a     *)
(* thread from the run queues beside a Game Mode session, switching to it, *)
(* delivering events through the descriptor tables; a small volume with    *)
(* short retention limits, and one file that grows.  They share no state:  *)
(* a behaviour is one of `unit`, and the others keep their initial states. *)
(***************************************************************************)
EXTENDS Dispatch, ContextSwitch, CpuTables, SpectreFS, FileTree

CONSTANTS b1, b2, b3

VARIABLE unit

-----------------------------------------------------------------------------
(* Processors: two, of which a session takes one; a thread of each class,  *)
(* and two interactive ones of which one is the game's                     *)

MCClass == [r |-> "RealTime", g |-> "Interactive", i |-> "Interactive",
            b |-> "Background"]
MCPidOf == [r |-> "system", g |-> "game", i |-> "system", b |-> "system"]
MCDeadlines == [r |-> {1}, g |-> {1, 2}, i |-> {2}, b |-> {1}]

\* Two contexts of one address space, and one of another.
MCSpace == [t1 |-> "A", t2 |-> "A", t3 |-> "B"]

\* A trap, a reserved vector, two faults and a device, with words of one bit.
MCHandlerOf == (3 :> 5) @@ (8 :> 6) @@ (9 :> 7) @@ (13 :> 10) @@ (32 :> 14)

-----------------------------------------------------------------------------
(* Disk *)

MCClasses == <<"hourly">>
MCLimit == [hourly |-> 1]

-----------------------------------------------------------------------------
processorVars == <<vars, switchVars, tableVars>>
diskVars == <<fsVars, ftVars>>

MCInit == /\ unit \in {"dispatch", "switch", "tables", "volume", "file"}
          /\ Init /\ SwitchInit /\ TablesInit /\ FsInit /\ FileInit

MCNext ==
    \/ unit = "dispatch" /\ Next /\ UNCHANGED <<unit, switchVars, tableVars, diskVars>>
    \/ unit = "switch" /\ SwitchNext /\ UNCHANGED <<unit, vars, tableVars, diskVars>>
    \/ unit = "tables" /\ TablesNext /\ UNCHANGED <<unit, vars, switchVars, diskVars>>
    \/ unit = "volume" /\ FsNext /\ UNCHANGED <<unit, processorVars, ftVars>>
    \/ unit = "file" /\ Grow /\ UNCHANGED <<unit, processorVars, fsVars>>
    \/ unit = "file" /\ size = MaxBlocks /\ UNCHANGED <<unit, processorVars, diskVars>>

MCSpec == MCInit /\ [][MCNext]_<<unit, processorVars, diskVars>>
=============================================================================
