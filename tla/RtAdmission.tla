---------------------------- MODULE RtAdmission ----------------------------
(***************************************************************************)
(* Real-time admission control (kernel/spectre-kernel/src/sched.rs,        *)
(* admit_realtime and release_realtime): threads on several processors     *)
(* reserve and return shares of one atomic total.                          *)
(*                                                                         *)
(* Each atomic access to RT_UTILISATION_PPM is a step.  A thread asks for  *)
(* one reservation at a time, and releases what it was granted, once, with *)
(* the budget and period it asked for.                                     *)
(*                                                                         *)
(* The share a request stands for, Share, and the number the code adds to  *)
(* the total, Requested, are the same only while the arithmetic of the     *)
(* code represents it (RequestsFit).                                       *)
(***************************************************************************)
EXTENDS Integers, FiniteSets, Functions

CONSTANTS
    RtThreads,  \* threads that ask for a reservation
    RtRequests, \* the requests they make: [budget, period]
    Million,    \* parts per whole, 10^6 in the code
    Ceiling,    \* RT_CEILING_PPM, 700000 in the code
    Width32,    \* number of values of a u32
    Width64     \* number of values of a u64

ASSUME RtAssumption ==
    /\ RtRequests \subseteq [budget : Nat, period : Nat]
    /\ Million \in Nat \ {0} /\ Ceiling \in 0 .. Million
    /\ Width32 \in Nat /\ Width64 \in Nat
    /\ Million < Width32 /\ Ceiling < Width32 - 1 /\ Width32 <= Width64
    /\ IsFiniteSet(RtThreads)

VARIABLES
    utilisation,   \* RT_UTILISATION_PPM
    place,         \* where each thread stands in admit_realtime
    request,       \* the request it is making or has been granted
    current,       \* its local `current`
    answer         \* how its last admission ended

rtVars == <<utilisation, place, request, current, answer>>

NoRequest == [budget |-> 0, period |-> 1]

\* The total never exceeds the ceiling, not even while admissions race.
RtTypeOK ==
    /\ utilisation \in 0 .. Ceiling
    /\ place \in [RtThreads -> {"out", "asking", "deciding", "held"}]
    /\ request \in [RtThreads -> RtRequests \cup {NoRequest}]
    /\ current \in [RtThreads -> 0 .. Width32 - 1]
    /\ answer \in [RtThreads -> {"none", "ok", "refused", "malformed"}]

RtInit ==
    /\ utilisation = 0
    /\ place = [t \in RtThreads |-> "out"]
    /\ request = [t \in RtThreads |-> NoRequest]
    /\ current = [t \in RtThreads |-> 0]
    /\ answer = [t \in RtThreads |-> "none"]

-----------------------------------------------------------------------------
LowerOf(a, b) == IF a <= b THEN a ELSE b

\* budget_ns.saturating_mul(1_000_000) / period_ns, cut to a u32.
Requested(r) == (LowerOf(r.budget * Million, Width64 - 1) \div r.period) % Width32

\* The parts per million of a processor that a request takes.
Share(r) == (r.budget * Million) \div r.period

\* Neither the multiplication nor the conversion to a u32 loses anything.
Representable(r) ==
    r.period # 0 => r.budget * Million < Width64 /\ Share(r) < Width32

\* No request is too large for the arithmetic.  The code does not see to it.
RequestsFit == \A r \in RtRequests : Representable(r)

\* current.saturating_add(requested)
Raised(t) == LowerOf(current[t] + Requested(request[t]), Width32 - 1)

Fits(t) == Raised(t) <= Ceiling

\* A thread holds nothing any more and its locals are gone.
Leave(t) ==
    /\ place' = [place EXCEPT ![t] = "out"]
    /\ request' = [request EXCEPT ![t] = NoRequest]
    /\ current' = [current EXCEPT ![t] = 0]

\* A request without a period is refused before anything is read.
RejectPeriod(t, r) ==
    /\ place[t] = "out" /\ r.period = 0
    /\ answer' = [answer EXCEPT ![t] = "malformed"]
    /\ UNCHANGED <<utilisation, place, request, current>>

Ask(t, r) ==
    /\ place[t] = "out" /\ r.period # 0
    /\ request' = [request EXCEPT ![t] = r]
    /\ place' = [place EXCEPT ![t] = "asking"]
    /\ answer' = [answer EXCEPT ![t] = "none"]
    /\ UNCHANGED <<utilisation, current>>

LoadTotal(t) ==
    /\ place[t] = "asking"
    /\ current' = [current EXCEPT ![t] = utilisation]
    /\ place' = [place EXCEPT ![t] = "deciding"]
    /\ UNCHANGED <<utilisation, request, answer>>

\* Mutation of Refuse: a thread that lost a race gives up.
Refuse_Contended(t) ==
    /\ place[t] = "deciding"
    /\ ~Fits(t) \/ current[t] # utilisation
    /\ answer' = [answer EXCEPT ![t] = "refused"]
    /\ Leave(t)
    /\ UNCHANGED utilisation

Refuse(t) ==
    /\ place[t] = "deciding" /\ ~Fits(t)
    /\ answer' = [answer EXCEPT ![t] = "refused"]
    /\ Leave(t)
    /\ UNCHANGED utilisation

\* compare_exchange_weak succeeds.
Exchange(t) ==
    /\ place[t] = "deciding" /\ Fits(t)
    /\ utilisation = current[t]
    /\ utilisation' = Raised(t)
    /\ answer' = [answer EXCEPT ![t] = "ok"]
    /\ place' = [place EXCEPT ![t] = "held"]
    /\ UNCHANGED <<request, current>>

\* compare_exchange_weak fails, because the total has changed or spuriously,
\* and the loop goes on with what it observed.
ExchangeFails(t) ==
    /\ place[t] = "deciding" /\ Fits(t)
    /\ current' = [current EXCEPT ![t] = utilisation]
    /\ UNCHANGED <<utilisation, place, request, answer>>

\* release_realtime: fetch_sub wraps around below zero.
Release(t) ==
    /\ place[t] = "held"
    /\ utilisation' = (utilisation - Requested(request[t])) % Width32
    /\ Leave(t)
    /\ UNCHANGED answer

RtNext ==
    \E t \in RtThreads :
        \/ \E r \in RtRequests : RejectPeriod(t, r) \/ Ask(t, r)
        \/ LoadTotal(t) \/ Refuse(t) \/ Exchange(t) \/ ExchangeFails(t)
        \/ Release(t)

RtSpec == RtInit /\ [][RtNext]_rtVars

-----------------------------------------------------------------------------
\* Admission happens at one instant (sched.rs:182-184): a refusal is decided
\* by the total when it was last read, a grant by the total it replaces.
Decided(t) ==
    CASE place[t] = "out" -> IF answer[t] = "refused" THEN "refused" ELSE "out"
      [] place[t] = "asking" -> "asking"
      [] place[t] = "deciding" -> IF Fits(t) THEN "asking" ELSE "refused"
      [] place[t] = "held" -> "held"

Admission == INSTANCE AdmissionControl WITH
        phase <- [t \in RtThreads |-> Decided(t)],
        share <- [t \in RtThreads |-> IF Decided(t) \in {"asking", "held"}
                                    THEN Share(request[t]) ELSE 0]

\* The CAS loop implements admission control of the shares that budgets and
\* periods stand for: the ceiling holds and nobody is refused a share that
\* fitted, whatever else is admitted meanwhile.
ImplementsAdmissionControl == Admission!Spec

Holders == {t \in RtThreads : place[t] = "held"}

\* "sum(budget/period) <= 0.7 across admitted RT threads" (sched.rs:13-14), said
\* of every request there may be.
SharesUnderCeiling ==
    SumFunctionOnSet([t \in RtThreads |-> Share(request[t])], Holders) <= Ceiling

=============================================================================
