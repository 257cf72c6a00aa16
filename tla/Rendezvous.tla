----------------------------- MODULE Rendezvous -----------------------------
(***************************************************************************)
(* What a synchronous endpoint promises its users                          *)
(* (kernel/spectre-kernel/src/ipc.rs, `Endpoint`): a caller that enters    *)
(* `call` is matched with at most one server, is answered by that server   *)
(* and by no other, and returns successfully only after its answer.        *)
(*                                                                         *)
(* How callers and servers find one another (the queue, the parked         *)
(* receiver, the context switches) is not part of the promise.             *)
(***************************************************************************)
CONSTANTS Callers, Servers, None

VARIABLES
    phase,      \* phase[c]: where caller c stands in its current call
    serving     \* serving[s]: the caller server s owes a reply, or None

vars == <<phase, serving>>

Phases == {"out", "waiting", "served", "answered"}

TypeOK ==
    /\ phase \in [Callers -> Phases]
    /\ serving \in [Servers -> Callers \cup {None}]

Init ==
    /\ phase = [c \in Callers |-> "out"]
    /\ serving = [s \in Servers |-> None]

\* A caller enters `call` and waits for a server.
Enter(c) ==
    /\ phase[c] = "out"
    /\ phase' = [phase EXCEPT ![c] = "waiting"]
    /\ UNCHANGED serving

\* `receive` of server s returns caller c.
Match(c, s) ==
    /\ phase[c] = "waiting"
    /\ serving[s] = None
    /\ phase' = [phase EXCEPT ![c] = "served"]
    /\ serving' = [serving EXCEPT ![s] = c]

\* Server s replies to the caller it serves.
Answer(s) ==
    /\ serving[s] # None
    /\ phase[serving[s]] = "served"
    /\ phase' = [phase EXCEPT ![serving[s]] = "answered"]
    /\ serving' = [serving EXCEPT ![s] = None]

\* The caller picks its reply up and leaves `call`.
Leave(c) ==
    /\ phase[c] = "answered"
    /\ phase' = [phase EXCEPT ![c] = "out"]
    /\ UNCHANGED serving

Next ==
    \/ \E c \in Callers : Enter(c) \/ Leave(c)
    \/ \E c \in Callers, s \in Servers : Match(c, s)
    \/ \E s \in Servers : Answer(s)

Spec == Init /\ [][Next]_vars
=============================================================================
