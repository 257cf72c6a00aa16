------------------------- MODULE NotificationChannel -------------------------
(***************************************************************************)
(* What a notification port promises (kernel/spectre-kernel/src/ipc.rs,    *)
(* `Port`): a bounded queue that never blocks a poster.  A notification is *)
(* either queued, and then received exactly once and in order, or turned   *)
(* down because the queue is full, and then counted, once, and told to the *)
(* receiver, once.  The queue keeps what it has and turns the new one      *)
(* down, as the code does (ipc.rs:271-274); the overview (ipc.rs:18-21)    *)
(* has it drop the oldest.                                                 *)
(***************************************************************************)
EXTENDS Naturals, Sequences

CONSTANTS Notes, Capacity, NoNote

VARIABLES
    queue,      \* the notifications accepted and not yet received
    last,       \* what the receiver got last
    dropping,   \* notifications turned down and not counted yet
    lost,       \* drops counted that the receiver has not read yet
    told        \* drops the receiver has read

vars == <<queue, last, dropping, lost, told>>

Init == queue = <<>> /\ last = NoNote /\ dropping = 0 /\ lost = 0 /\ told = 0

Accept(n) == /\ Len(queue) < Capacity
             /\ queue' = Append(queue, n)
             /\ UNCHANGED <<last, dropping, lost, told>>

\* Only a full queue drops.
Drop == /\ Len(queue) = Capacity
        /\ dropping' = dropping + 1
        /\ UNCHANGED <<queue, last, lost, told>>

CountDrop == /\ dropping > 0
             /\ dropping' = dropping - 1 /\ lost' = lost + 1
             /\ UNCHANGED <<queue, last, told>>

Receive == /\ queue # <<>>
           /\ last' = Head(queue)
           /\ queue' = Tail(queue)
           /\ UNCHANGED <<dropping, lost, told>>

\* The receiver reads the whole count, which starts again at zero.
ReadDrops == /\ told' = told + lost /\ lost' = 0
             /\ UNCHANGED <<queue, last, dropping>>

Next == (\E n \in Notes : Accept(n)) \/ Drop \/ CountDrop \/ Receive \/ ReadDrops

Spec == Init /\ [][Next]_vars
=============================================================================
