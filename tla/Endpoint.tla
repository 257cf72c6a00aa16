------------------------------ MODULE Endpoint ------------------------------
(***************************************************************************)
(* The synchronous endpoint of the Spectre microkernel                     *)
(* (kernel/spectre-kernel/src/ipc.rs, `Endpoint::{call, receive, reply}`)  *)
(* with the scheduler entry points it uses (sched.rs: switch_to_donating,  *)
(* wake_donating, block, block_until, handoff_partner).                    *)
(*                                                                         *)
(* Every thread may run on a processor of its own: a step below is what    *)
(* one thread does between two points at which another processor can       *)
(* interfere.  `call` holds the state lock over its whole decision, and    *)
(* takes the queue lock inside it, so the decision is one step; `receive`  *)
(* takes the two locks one after the other, so it is several; the          *)
(* functions that block (`block`, `switch_to_donating`) run after every    *)
(* lock is released, so they are steps of their own.  block_until arms the *)
(* timer before it blocks: it is two steps, and the timer may fire between *)
(* them, as at any time later.                                             *)
(*                                                                         *)
(* A message is the number of the call that staged it together with the    *)
(* pages it donates: none, its own, or pages that vault::transfer_pages    *)
(* refuses to move.  Bytes, label and delegated capabilities are left out. *)
(* Servers hold RECEIVE and follow the protocol: after a successful        *)
(* `receive` they reply once, to the sender they were given.               *)
(***************************************************************************)
EXTENDS Integers, Sequences, SequencesExt

CONSTANTS
    Callers,     \* threads that use `call`
    Servers,     \* threads that use `receive` and `reply`
    CanSend,     \* the callers whose capability carries SEND
    Deadlined,   \* the callers that pass a deadline to `call`
    QueueCap,    \* capacity of send_queue (64 in the code)
    Messages,    \* the kinds of message they send, see MessageKinds
    MaxCalls,    \* bound: calls each caller makes
    None         \* no thread

\* "grant" donates the sender's own pages, "foreign" pages that transfer_pages
\* refuses (outside the arena, or a share during a key rotation), "oversize"
\* is inline data above INLINE_MAX.
MessageKinds == {"inline", "grant", "foreign", "oversize"}

ASSUME EndpointAssumption ==
    /\ Callers \cap Servers = {}
    /\ None \notin Callers \cup Servers
    /\ {"Idle", "SendersQueued"} \cap (Callers \cup Servers) = {}
    /\ CanSend \subseteq Callers /\ Deadlined \subseteq Callers
    /\ Messages \subseteq MessageKinds
    /\ QueueCap \in Nat \ {0} /\ MaxCalls \in Nat

VARIABLES
    \* the Endpoint
    state,       \* "Idle", "SendersQueued", or s for ReceiverWaiting(s)
    sendQueue,   \* callers waiting for a receiver
    traffic,     \* the calls the endpoint has counted
    \* the threads
    pc,          \* where each thread stands in ipc.rs
    runnable,    \* FALSE from mark_blocked until a wake-up or a switch
    target,      \* the local `receiver` of a caller on the fast path
    timer,       \* the timeout of each caller: "off", "armed", or "fired"
    partner,     \* handoff_partner of each server
    sender,      \* the local `sender` of each server
    buf,         \* message buffer of each caller: [call, pages]
    replied,     \* reply_status(c) is Ready
    \* bookkeeping
    calls,       \* calls each caller has begun
    moved        \* <<c, n>>: the pages donated by call n of c have moved

vars == <<state, sendQueue, traffic, pc, runnable, target, timer, partner, sender,
          buf, replied, calls, moved>>
endpoint == <<state, sendQueue, traffic>>

Threads == Callers \cup Servers
PagesOf(m) == IF m \in {"grant", "foreign"} THEN m ELSE "none"

CallerPc == {"ready", "queued", "armed", "parked", "handoff", "switched"}
ServerPc == {"ready", "empty", "posted", "parked", "took", "serving"}

TypeOK ==
    /\ state \in {"Idle", "SendersQueued"} \cup Servers
    /\ sendQueue \in Seq(Callers) /\ Len(sendQueue) <= QueueCap
    /\ traffic \in Nat
    /\ pc \in [Threads -> CallerPc \cup ServerPc]
    /\ \A c \in Callers : pc[c] \in CallerPc
    /\ \A s \in Servers : pc[s] \in ServerPc
    /\ runnable \in [Threads -> BOOLEAN]
    /\ target \in [Callers -> Servers \cup {None}]
    /\ timer \in [Callers -> {"off", "armed", "fired"}]
    /\ partner \in [Servers -> Callers \cup {None}]
    /\ sender \in [Servers -> Callers \cup {None}]
    /\ buf \in [Callers -> [call : 0 .. MaxCalls, pages : {"none", "grant", "foreign"}]]
    /\ replied \in [Callers -> BOOLEAN]
    /\ calls \in [Callers -> 0 .. MaxCalls]
    /\ moved \subseteq Callers \X (0 .. MaxCalls)

Init ==
    /\ state = "Idle"
    /\ sendQueue = <<>>
    /\ traffic = 0
    /\ pc = [t \in Threads |-> "ready"]
    /\ runnable = [t \in Threads |-> TRUE]
    /\ target = [c \in Callers |-> None]
    /\ timer = [c \in Callers |-> "off"]
    /\ partner = [s \in Servers |-> None]
    /\ sender = [s \in Servers |-> None]
    /\ buf = [c \in Callers |-> [call |-> 0, pages |-> "none"]]
    /\ replied = [c \in Callers |-> FALSE]
    /\ calls = [c \in Callers |-> 0]
    /\ moved = {}

-----------------------------------------------------------------------------
(* Payload staging *)

\* Mutation of StagePayload: set_handoff_partner is forgotten.
StagePayload_NoPartner(c, s, n, m) ==
    /\ buf' = [buf EXCEPT ![c] = [call |-> n, pages |-> PagesOf(m)]]
    /\ UNCHANGED partner

\* stage_payload: fill the sender's buffer with call n, and tell the receiver
\* who its partner is.
StagePayload(c, s, n, m) ==
    /\ buf' = [buf EXCEPT ![c] = [call |-> n, pages |-> PagesOf(m)]]
    /\ partner' = [partner EXCEPT ![s] = c]

\* vault::transfer_pages moves a sender's own pages once: its hook reseal_into
\* can no longer read pages that have been unmapped from the arena.
CanCommit(c) == /\ buf[c].pages # "foreign"
                /\ buf[c].pages = "grant" => <<c, buf[c].call>> \notin moved

\* commit_payload, when it succeeds.
CommitPayload(c) ==
    /\ CanCommit(c)
    /\ moved' = IF buf[c].pages = "grant"
             THEN moved \cup {<<c, buf[c].call>>}
             ELSE moved

-----------------------------------------------------------------------------
(* Endpoint::call *)

\* A caller in user code makes its next call with message m.
Begin(c) ==
    /\ pc[c] = "ready"
    /\ calls[c] < MaxCalls
    /\ calls' = [calls EXCEPT ![c] = @ + 1]

\* `call` checks the right before the size, and touches nothing if it refuses.
CallRefused(c, m) ==
    /\ Begin(c)
    /\ c \notin CanSend \/ m = "oversize"
    /\ UNCHANGED <<endpoint, pc, runnable, target, partner, sender, buf,
                   replied, moved, timer>>

\* The fast path up to drop(state): a receiver has announced itself.
CallFast(c, m) ==
    /\ Begin(c)
    /\ c \in CanSend /\ m # "oversize"
    /\ state \in Servers
    /\ StagePayload(c, state, calls'[c], m)
    /\ traffic' = traffic + 1
    /\ target' = [target EXCEPT ![c] = state]
    /\ state' = "Idle"
    /\ pc' = [pc EXCEPT ![c] = "handoff"]
    /\ UNCHANGED <<sendQueue, runnable, sender, replied, moved, timer>>

\* switch_to_donating: block the caller and run the receiver in its place.
Switch(c) ==
    /\ pc[c] = "handoff"
    /\ runnable' = [runnable EXCEPT ![c] = FALSE, ![target[c]] = TRUE]
    /\ pc' = [pc EXCEPT ![c] = "switched"]
    /\ UNCHANGED <<endpoint, target, partner, sender, buf, replied, calls,
                   moved, timer>>

\* The slow path up to drop(state): join the queue.
CallQueued(c, m) ==
    /\ Begin(c)
    /\ c \in CanSend /\ m # "oversize"
    /\ state \notin Servers
    /\ Len(sendQueue) < QueueCap
    /\ state' = "SendersQueued"
    /\ sendQueue' = Append(sendQueue, c)
    /\ pc' = [pc EXCEPT ![c] = "queued"]
    /\ UNCHANGED <<traffic, runnable, target, partner, sender, buf, replied,
                   moved, timer>>

\* The slow path with a full queue: the new state stays, the call fails.
CallOverflow(c, m) ==
    /\ Begin(c)
    /\ c \in CanSend /\ m # "oversize"
    /\ state \notin Servers
    /\ Len(sendQueue) = QueueCap
    /\ state' = "SendersQueued"
    /\ UNCHANGED <<sendQueue, traffic, pc, runnable, target, partner, sender,
                   buf, replied, moved, timer>>

\* block_until arms the timer ...
ArmTimeout(c) ==
    /\ pc[c] = "queued" /\ c \in Deadlined
    /\ timer' = [timer EXCEPT ![c] = "armed"]
    /\ pc' = [pc EXCEPT ![c] = "armed"]
    /\ UNCHANGED <<endpoint, runnable, target, partner, sender, buf, replied,
                   calls, moved>>

\* ... and then blocks the caller, as block does at once.
BlockSender(c) ==
    /\ pc[c] = IF c \in Deadlined THEN "armed" ELSE "queued"
    /\ runnable' = [runnable EXCEPT ![c] = FALSE]
    /\ pc' = [pc EXCEPT ![c] = "parked"]
    /\ UNCHANGED <<endpoint, target, timer, partner, sender, buf, replied, calls,
                   moved>>

\* Mutation of Expire: a timer finds no caller that has an answer.
Expire_Unanswered(c) ==
    /\ timer[c] = "armed" /\ ~replied[c]
    /\ timer' = [timer EXCEPT ![c] = "fired"]
    /\ runnable' = [runnable EXCEPT ![c] = TRUE]
    /\ UNCHANGED <<endpoint, pc, target, partner, sender, buf, replied, calls,
                   moved>>

\* The deadline passes and the timer wakes the caller, blocked or not yet: one
\* that has armed its timer and is about to block sleeps all the same.
Expire(c) ==
    /\ timer[c] = "armed"
    /\ timer' = [timer EXCEPT ![c] = "fired"]
    /\ runnable' = [runnable EXCEPT ![c] = TRUE]
    /\ UNCHANGED <<endpoint, pc, target, partner, sender, buf, replied, calls,
                   moved>>

\* Mutation of TimedOut: a caller that found no answer in time gives up, deadline
\* or not.
TimedOut_Anyone(c) ==
    /\ pc[c] = "parked" /\ ~replied[c]
    /\ runnable' = [runnable EXCEPT ![c] = TRUE]
    /\ timer' = [timer EXCEPT ![c] = "off"]
    /\ pc' = [pc EXCEPT ![c] = "ready"]
    /\ UNCHANGED <<endpoint, target, partner, sender, buf, replied, calls,
                   moved>>

\* The woken caller finds that its timer has fired, and returns an error whether
\* or not it was answered.  Nothing takes it out of send_queue.
TimedOut(c) ==
    /\ pc[c] = "parked" /\ runnable[c] /\ timer[c] = "fired"
    /\ target' = [target EXCEPT ![c] = None]
    /\ timer' = [timer EXCEPT ![c] = "off"]
    /\ pc' = [pc EXCEPT ![c] = "ready"]
    /\ UNCHANGED <<endpoint, runnable, partner, sender, buf, replied,
                   calls, moved>>

\* The woken caller runs collect_reply, consumes its reply and returns.
CollectReply(c) ==
    /\ pc[c] \in {"parked", "switched"} /\ runnable[c] /\ timer[c] # "fired"
    /\ replied' = [replied EXCEPT ![c] = FALSE]
    /\ target' = [target EXCEPT ![c] = None]
    /\ timer' = [timer EXCEPT ![c] = "off"]
    /\ pc' = [pc EXCEPT ![c] = "ready"]
    /\ UNCHANGED <<endpoint, runnable, partner, sender, buf, calls,
                   moved>>

-----------------------------------------------------------------------------
(* Endpoint::receive and Endpoint::reply *)

\* pop_front under the queue lock found a sender.
ReceivePop(s) ==
    /\ pc[s] = "ready"
    /\ sendQueue # <<>>
    /\ sender' = [sender EXCEPT ![s] = Head(sendQueue)]
    /\ sendQueue' = Tail(sendQueue)
    /\ pc' = [pc EXCEPT ![s] = "took"]
    /\ UNCHANGED <<state, traffic, runnable, target, partner, buf, replied,
                   calls, moved, timer>>

\* commit_payload of the popped sender, then the count, then Ok.
CommitQueued(s) ==
    /\ pc[s] = "took"
    /\ CommitPayload(sender[s])
    /\ traffic' = traffic + 1
    /\ pc' = [pc EXCEPT ![s] = "serving"]
    /\ UNCHANGED <<state, sendQueue, runnable, target, partner, sender, buf,
                   replied, calls, timer>>

\* commit_payload fails and `receive` returns the error: the server never
\* learns whose message it was.
CommitRefused(s) ==
    /\ \/ /\ pc[s] = "took"
          /\ ~CanCommit(sender[s])
       \/ /\ pc[s] = "parked" /\ runnable[s]
          /\ ~CanCommit(partner[s])
    /\ sender' = [sender EXCEPT ![s] = None]
    /\ pc' = [pc EXCEPT ![s] = "ready"]
    /\ UNCHANGED <<endpoint, runnable, target, partner, buf, replied, calls,
                   moved, timer>>

\* pop_front found nothing and the queue lock is released ...
ReceiveEmpty(s) ==
    /\ pc[s] = "ready"
    /\ sendQueue = <<>>
    /\ pc' = [pc EXCEPT ![s] = "empty"]
    /\ UNCHANGED <<endpoint, runnable, target, partner, sender, buf, replied,
                   calls, moved, timer>>

\* ... then the state is set, whatever it has become meanwhile ...
AnnounceReceiver(s) ==
    /\ pc[s] = "empty"
    /\ state' = s
    /\ pc' = [pc EXCEPT ![s] = "posted"]
    /\ UNCHANGED <<sendQueue, traffic, runnable, target, partner, sender, buf,
                   replied, calls, moved, timer>>

\* ... and then the receiver blocks.
BlockReceiver(s) ==
    /\ pc[s] = "posted"
    /\ runnable' = [runnable EXCEPT ![s] = FALSE]
    /\ pc' = [pc EXCEPT ![s] = "parked"]
    /\ UNCHANGED <<endpoint, target, partner, sender, buf, replied, calls,
                   moved, timer>>

\* A caller switched to the parked receiver, which commits its message.
CommitHandoff(s) ==
    /\ pc[s] = "parked" /\ runnable[s]
    /\ CommitPayload(partner[s])
    /\ sender' = [sender EXCEPT ![s] = partner[s]]
    /\ pc' = [pc EXCEPT ![s] = "serving"]
    /\ UNCHANGED <<endpoint, runnable, target, partner, buf, replied, calls, timer>>

\* Mutation of Reply: the caller is only switched to, never made runnable.
Reply_NoWake(s) ==
    /\ pc[s] = "serving"
    /\ replied' = [replied EXCEPT ![sender[s]] = TRUE]
    /\ sender' = [sender EXCEPT ![s] = None]
    /\ pc' = [pc EXCEPT ![s] = "ready"]
    /\ UNCHANGED <<endpoint, runnable, target, partner, buf, calls, moved, timer>>

\* Mutation of Reply: the answer goes to the last handoff partner.
Reply_ToPartner(s) ==
    /\ pc[s] = "serving"
    /\ partner[s] # None
    /\ replied' = [replied EXCEPT ![partner[s]] = TRUE]
    /\ runnable' = [runnable EXCEPT ![partner[s]] = TRUE]
    /\ sender' = [sender EXCEPT ![s] = None]
    /\ pc' = [pc EXCEPT ![s] = "ready"]
    /\ UNCHANGED <<endpoint, target, partner, buf, calls, moved, timer>>

\* reply: stage the answer and wake the sender, which wake_donating marks
\* runnable whether or not it has blocked yet.
Reply(s) ==
    /\ pc[s] = "serving"
    /\ replied' = [replied EXCEPT ![sender[s]] = TRUE]
    /\ runnable' = [runnable EXCEPT ![sender[s]] = TRUE]
    /\ sender' = [sender EXCEPT ![s] = None]
    /\ pc' = [pc EXCEPT ![s] = "ready"]
    /\ UNCHANGED <<endpoint, target, partner, buf, calls, moved, timer>>

-----------------------------------------------------------------------------
CallStart(c) ==
    \E m \in Messages : \/ CallRefused(c, m) \/ CallFast(c, m)
                        \/ CallQueued(c, m) \/ CallOverflow(c, m)

CallContinue(c) == \/ Switch(c) \/ ArmTimeout(c) \/ BlockSender(c)
                   \/ TimedOut(c) \/ CollectReply(c)

ServerStep(s) == \/ ReceivePop(s) \/ CommitQueued(s) \/ CommitRefused(s)
                 \/ ReceiveEmpty(s) \/ AnnounceReceiver(s) \/ BlockReceiver(s)
                 \/ CommitHandoff(s) \/ Reply(s)

Next == \/ \E c \in Callers : CallStart(c) \/ CallContinue(c) \/ Expire(c)
        \/ \E s \in Servers : ServerStep(s)

Spec == Init /\ [][Next]_vars

\* The scheduler runs every thread that is ready to run, timers fire, and servers
\* loop on receive and reply; nobody is obliged to make another call.
Fairness == /\ \A c \in Callers : WF_vars(CallContinue(c)) /\ WF_vars(Expire(c))
            /\ \A s \in Servers : WF_vars(ServerStep(s))

FairSpec == Spec /\ Fairness

-----------------------------------------------------------------------------
(* Safety *)

\* The callers that pass no deadline to `call`.  What follows is about them, beside
\* callers that give up while they are queued, held by a server or being answered,
\* call again, and stand in the queue twice (ipc.rs:163-166).
Patient == Callers \ Deadlined

Busy(s) == pc[s] \in {"took", "serving"}

\* No patient caller stands in send_queue twice (ipc.rs:157): a second entry would
\* hand a later call of the same thread to two servers.
QueuedOnce ==
    \A i, j \in DOMAIN sendQueue :
        sendQueue[i] \in Patient /\ sendQueue[i] = sendQueue[j] => i = j

\* Two servers never hold the same patient sender (ipc.rs:182, 191): otherwise
\* the call would be executed, and replied to, twice.
OneServerPerCaller ==
    \A s1, s2 \in Servers :
        Busy(s1) /\ Busy(s2) /\ sender[s1] \in Patient /\ sender[s1] = sender[s2]
            => s1 = s2

\* While a server has a patient sender in hand, that sender is inside `call`, has
\* left the queue and has not been answered yet: the reply goes to the call that
\* was received.
SenderStillCalling ==
    \A s \in Servers : Busy(s) /\ sender[s] \in Patient =>
        LET c == sender[s]
        IN  /\ pc[c] \in {"queued", "parked", "switched"}
            /\ c \notin ToSet(sendQueue)
            /\ ~replied[c]

\* The receiver named by ReceiverWaiting is on its way to block or blocked,
\* and no caller is switching to it already: the fast path (ipc.rs:143-152)
\* never overwrites the partner of a receiver that has one.
AnnouncedIsFree ==
    state \in Servers =>
        /\ \/ pc[state] = "posted"
           \/ pc[state] = "parked" /\ ~runnable[state]
        /\ \A c \in Callers : pc[c] = "handoff" => target[c] # state

\* A receiver woken out of `block` finds as its partner the caller that switched
\* to it; a patient one is still waiting, with the message of its current call,
\* whose pages have not moved yet.
HandoffIntact ==
    \A s \in Servers : pc[s] = "parked" /\ runnable[s] =>
        LET c == partner[s]
        IN  /\ c \in Callers
            /\ c \in Patient =>
                /\ pc[c] = "switched" /\ target[c] = s /\ ~replied[c]
                /\ buf[c].call = calls[c] /\ <<c, calls[c]>> \notin moved

\* "A sender was already waiting; take its message" (ipc.rs:183): the message
\* committed for a queued sender is the one of the call it is queued in.
QueuedMessageIsCurrent ==
    \A s \in Servers : pc[s] = "took" => buf[sender[s]].call = calls[sender[s]]

-----------------------------------------------------------------------------
(* The inductive invariant                                                   *)

\* A patient caller in the queue waits there and has no answer.
QueueInv ==
    /\ QueuedOnce
    /\ \A i \in DOMAIN sendQueue : sendQueue[i] \in Patient =>
        pc[sendQueue[i]] \in {"queued", "parked"} /\ ~replied[sendQueue[i]]

\* A patient caller that a server holds waits for it, and is in nobody else's hands.
HeldInv ==
    /\ OneServerPerCaller
    /\ \A s \in Servers : Busy(s) => sender[s] \in Callers
    /\ \A s \in Servers : Busy(s) /\ sender[s] \in Patient =>
        /\ pc[sender[s]] \in {"queued", "parked", "switched"}
        /\ pc[sender[s]] = "switched" => target[sender[s]] = s
        /\ \A i \in DOMAIN sendQueue : sendQueue[i] # sender[s]
        /\ ~replied[sender[s]]

\* A patient caller has no timer, and only an answer wakes it.
WakeInv ==
    \A c \in Patient :
        /\ timer[c] = "off" /\ pc[c] # "armed"
        /\ replied[c] => pc[c] \in {"queued", "parked", "switched"}
        /\ pc[c] \in {"parked", "switched"} /\ runnable[c] => replied[c]

\* The message of a handoff in progress is fresh.
Fresh(c) == buf[c].call = calls[c] /\ <<c, calls[c]>> \notin moved

StagedInv ==
    /\ \A c \in Callers : buf[c].call <= calls[c]
    /\ \A c \in Callers, n \in 0 .. MaxCalls : <<c, n>> \in moved => n <= calls[c]
    /\ \A c \in Callers : pc[c] = "handoff" =>
        /\ target[c] \in Servers /\ partner[target[c]] = c
        /\ state # target[c]
        /\ \/ pc[target[c]] = "posted"
           \/ pc[target[c]] = "parked" /\ ~runnable[target[c]]
        /\ c \in Patient => Fresh(c)

\* A receiver woken out of `block` and the patient caller that switched to it agree.
SwitchedTo(c, s) == /\ c \in Callers
                    /\ c \in Patient =>
                        /\ pc[c] = "switched" /\ target[c] = s /\ ~replied[c]
                        /\ Fresh(c)

WokenInv ==
    \A s \in Servers : pc[s] = "parked" /\ runnable[s] => SwitchedTo(partner[s], s)

EndpointInv == /\ TypeOK /\ QueueInv /\ HeldInv /\ WakeInv /\ StagedInv
               /\ WokenInv /\ AnnouncedIsFree

-----------------------------------------------------------------------------
(* Liveness *)

\* A call that found its receiver blocked in `receive`, and donates no pages
\* that cannot move, is answered: the direct handoff loses neither side, whoever
\* else gives up meanwhile.
HandoffAnswered ==
    \A c \in Patient :
        (/\ pc[c] = "handoff" /\ CanCommit(c)
         /\ pc[target[c]] = "parked" /\ ~runnable[target[c]]) ~> pc[c] = "ready"

\* A caller that is asleep when its deadline has not passed leaves `call` whatever
\* the servers do (ipc.rs:164): the timer reaches it even when an answer came
\* before it slept and its wake-up was lost (sched.rs:386-398).
SleeperGivesUp ==
    \A c \in Deadlined :
        (pc[c] = "parked" /\ ~runnable[c] /\ timer[c] = "armed") ~> pc[c] = "ready"

-----------------------------------------------------------------------------
(* Refinement: to its patient callers an endpoint is the rendezvous, whatever *)
(* the others do.                                                            *)

PhaseOf(c) ==
    CASE pc[c] = "ready" -> "out"
      [] pc[c] # "ready" /\ replied[c] -> "answered"
      [] pc[c] # "ready" /\ ~replied[c] ->
            IF \E s \in Servers : pc[s] = "serving" /\ sender[s] = c
            THEN "served" ELSE "waiting"

ServedBy(s) == IF pc[s] = "serving" /\ sender[s] \in Patient THEN sender[s] ELSE None

R == INSTANCE Rendezvous WITH
        Callers <- Patient,
        phase <- [c \in Patient |-> PhaseOf(c)],
        serving <- [s \in Servers |-> ServedBy(s)]

\* Every behaviour of the endpoint is a behaviour of the abstract rendezvous of
\* its patient callers: one server per call, and no success without an answer
\* from that server.
ImplementsRendezvous == R!Spec

=============================================================================
