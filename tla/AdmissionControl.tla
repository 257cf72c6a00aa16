-------------------------- MODULE AdmissionControl --------------------------
(***************************************************************************)
(* What real-time admission promises (sched.rs:11-15, 163-168): a share is *)
(* granted or refused at one instant, by the total granted at that         *)
(* instant, so that the total never exceeds the ceiling and nobody is      *)
(* refused a share that fitted.                                            *)
(***************************************************************************)
EXTENDS Integers, Functions

CONSTANTS RtThreads, Ceiling

VARIABLES
    phase,    \* "out", "asking", "refused" or "held"
    share     \* the share each thread asks for or holds, or 0

vars == <<phase, share>>

Granted == SumFunctionOnSet(share, {t \in RtThreads : phase[t] = "held"})

Init == /\ phase = [t \in RtThreads |-> "out"]
        /\ share = [t \in RtThreads |-> 0]

Ask(t) == /\ phase[t] \in {"out", "refused"}
          /\ phase' = [phase EXCEPT ![t] = "asking"]
          /\ share'[t] \in Nat
          /\ share' = [share EXCEPT ![t] = share'[t]]

\* A malformed request is turned down without being weighed.
Reject(t) == /\ phase[t] \in {"out", "refused"}
             /\ phase' = [phase EXCEPT ![t] = "out"]
             /\ UNCHANGED share

Grant(t) == /\ phase[t] = "asking"
            /\ Granted + share[t] <= Ceiling
            /\ phase' = [phase EXCEPT ![t] = "held"]
            /\ UNCHANGED share

Refuse(t) == /\ phase[t] = "asking"
             /\ Granted + share[t] > Ceiling
             /\ phase' = [phase EXCEPT ![t] = "refused"]
             /\ share' = [share EXCEPT ![t] = 0]

Release(t) == /\ phase[t] = "held"
              /\ phase' = [phase EXCEPT ![t] = "out"]
              /\ share' = [share EXCEPT ![t] = 0]

Next == \E t \in RtThreads :
            Ask(t) \/ Reject(t) \/ Grant(t) \/ Refuse(t) \/ Release(t)

Spec == Init /\ [][Next]_vars
=============================================================================
