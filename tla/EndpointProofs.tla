--------------------------- MODULE EndpointProofs ---------------------------
(***************************************************************************)
(* Theorems about the synchronous endpoint, for any number of callers and  *)
(* servers, any queue capacity and any number of calls: what it keeps of   *)
(* its promise to the callers that pass no deadline, beside those that do. *)
(***************************************************************************)
EXTENDS Endpoint, TLAPS

USE DEF Threads, CallerPc, ServerPc

LEMMA PatientCallers == Patient \subseteq Callers
  BY DEF Patient

LEMMA InitEndpointInv == Init => EndpointInv
  <1> SUFFICES ASSUME Init PROVE EndpointInv
    OBVIOUS
  <1> USE EndpointAssumption, PatientCallers DEF Init
  <1>1. TypeOK
    BY DEF TypeOK
  <1>2. QueueInv /\ HeldInv
    BY DEF QueueInv, HeldInv, QueuedOnce, OneServerPerCaller, Busy
  <1>3. WakeInv /\ StagedInv /\ WokenInv /\ AnnouncedIsFree
    BY DEF WakeInv, StagedInv, WokenInv, AnnouncedIsFree
  <1> QED
    BY <1>1, <1>2, <1>3 DEF EndpointInv

LEMMA TypeOKStep == TypeOK /\ EndpointInv /\ Next => TypeOK'
  <1> SUFFICES ASSUME TypeOK, HeldInv, StagedInv, WokenInv, Next PROVE TypeOK'
    BY DEF EndpointInv
  <1> USE EndpointAssumption, PatientCallers DEF endpoint
  <1>1. ASSUME NEW c \in Callers, CallStart(c) PROVE TypeOK'
    <2>1. ASSUME NEW m \in Messages, CallRefused(c, m) PROVE TypeOK'
      BY <2>1 DEF CallRefused, Begin, TypeOK
    <2>2. ASSUME NEW m \in Messages, CallFast(c, m) PROVE TypeOK'
      BY <2>2 DEF CallFast, Begin, StagePayload, PagesOf, TypeOK
    <2>3. ASSUME NEW m \in Messages, CallQueued(c, m) PROVE TypeOK'
      BY <2>3 DEF CallQueued, Begin, TypeOK
    <2>4. ASSUME NEW m \in Messages, CallOverflow(c, m) PROVE TypeOK'
      BY <2>4 DEF CallOverflow, Begin, TypeOK
    <2> QED
      BY <1>1, <2>1, <2>2, <2>3, <2>4 DEF CallStart
  <1>2. ASSUME NEW c \in Callers, CallContinue(c) PROVE TypeOK'
    <2>1. CASE Switch(c)
      BY <2>1 DEF Switch, TypeOK, StagedInv
    <2>2. CASE BlockSender(c)
      BY <2>2 DEF BlockSender, TypeOK
    <2>3. CASE ArmTimeout(c)
      BY <2>3 DEF ArmTimeout, TypeOK
    <2>5. CASE TimedOut(c)
      BY <2>5 DEF TimedOut, TypeOK
    <2>4. CASE CollectReply(c)
      BY <2>4 DEF CollectReply, TypeOK
    <2> QED
      BY <1>2, <2>1, <2>2, <2>3, <2>4, <2>5 DEF CallContinue
  <1>4. ASSUME NEW c \in Callers, Expire(c) PROVE TypeOK'
    BY <1>4 DEF Expire, TypeOK
  <1>3. ASSUME NEW s \in Servers, ServerStep(s) PROVE TypeOK'
    <2>1. CASE ReceivePop(s)
      BY <2>1 DEF ReceivePop, TypeOK
    <2>2. CASE CommitQueued(s)
      BY <2>2 DEF CommitQueued, CommitPayload, TypeOK, HeldInv, Busy
    <2>3. CASE CommitRefused(s)
      BY <2>3 DEF CommitRefused, TypeOK
    <2>4. CASE ReceiveEmpty(s)
      BY <2>4 DEF ReceiveEmpty, TypeOK
    <2>5. CASE AnnounceReceiver(s)
      BY <2>5 DEF AnnounceReceiver, TypeOK
    <2>6. CASE BlockReceiver(s)
      BY <2>6 DEF BlockReceiver, TypeOK
    <2>7. CASE CommitHandoff(s)
      BY <2>7 DEF CommitHandoff, CommitPayload, TypeOK, WokenInv, SwitchedTo
    <2>8. CASE Reply(s)
      BY <2>8 DEF Reply, TypeOK, HeldInv, Busy
    <2> QED
      BY <1>3, <2>1, <2>2, <2>3, <2>4, <2>5, <2>6, <2>7, <2>8
      DEF ServerStep
  <1> QED
    BY <1>1, <1>2, <1>3, <1>4 DEF Next

\* A receiver that was woken before still agrees with its partner if the step leaves
\* a patient partner and its message alone.
LEMMA StaysSwitched ==
    ASSUME NEW t, SwitchedTo(partner[t], t), partner'[t] = partner[t],
           partner[t] \in Patient =>
              /\ pc'[partner[t]] = pc[partner[t]]
              /\ target'[partner[t]] = target[partner[t]]
              /\ replied'[partner[t]] = replied[partner[t]]
              /\ buf'[partner[t]] = buf[partner[t]]
              /\ calls'[partner[t]] = calls[partner[t]]
              /\ <<partner[t], calls[partner[t]]>> \in moved' =>
                     <<partner[t], calls[partner[t]]>> \in moved
    PROVE  SwitchedTo(partner[t], t)'
  BY DEF SwitchedTo, Fresh

LEMMA CallRefusedInv ==
    ASSUME EndpointInv, TypeOK', NEW c \in Callers, NEW m \in Messages, CallRefused(c, m)
    PROVE  EndpointInv'
  <1> USE EndpointAssumption, PatientCallers DEF EndpointInv, TypeOK, endpoint, CallRefused, Begin
  <1>1. QueueInv'
    BY DEF QueueInv, QueuedOnce, HeldInv, WakeInv, Busy
  <1>2. HeldInv'
    BY DEF QueueInv, QueuedOnce, HeldInv, OneServerPerCaller, WakeInv, WokenInv, SwitchedTo, Busy
  <1>3. WakeInv'
    BY DEF WakeInv, HeldInv, Busy
  <1>4. StagedInv'
    BY DEF StagedInv, Fresh, AnnouncedIsFree, HeldInv, Busy, WokenInv, SwitchedTo
  <1>5. WokenInv'
    BY DEF WokenInv, SwitchedTo, Fresh, StagedInv, AnnouncedIsFree, HeldInv, Busy
  <1>6. AnnouncedIsFree'
    BY DEF AnnouncedIsFree, StagedInv
  <1> QED
    BY <1>1, <1>2, <1>3, <1>4, <1>5, <1>6

LEMMA CallFastInv ==
    ASSUME EndpointInv, TypeOK', NEW c \in Callers, NEW m \in Messages, CallFast(c, m)
    PROVE  EndpointInv'
  <1> USE EndpointAssumption, PatientCallers DEF EndpointInv, TypeOK, endpoint, CallFast, Begin, StagePayload
  <1>1. QueueInv'
    BY DEF QueueInv, QueuedOnce, HeldInv, WakeInv, Busy
  <1>2. HeldInv'
    BY DEF QueueInv, QueuedOnce, HeldInv, OneServerPerCaller, WakeInv, WokenInv, SwitchedTo, Busy
  <1>3. WakeInv'
    BY DEF WakeInv, HeldInv, Busy
  <1>4. StagedInv'
    BY DEF StagedInv, Fresh, AnnouncedIsFree, HeldInv, Busy, WokenInv, SwitchedTo
  <1>5. WokenInv'
    <2> SUFFICES ASSUME NEW t \in Servers, pc'[t] = "parked", runnable'[t]
                 PROVE  SwitchedTo(partner[t], t)'
      BY DEF WokenInv
    <2>1. pc[t] = "parked" /\ runnable[t] /\ SwitchedTo(partner[t], t)
      BY DEF WokenInv
    <2>2. partner'[t] = partner[t]
      BY <2>1 DEF AnnouncedIsFree
    <2>3. partner[t] \in Patient => partner[t] # c
      BY <2>1 DEF SwitchedTo
    <2>4. \A d \in Callers \ {c} : /\ pc'[d] = pc[d] /\ target'[d] = target[d]
                                  /\ buf'[d] = buf[d] /\ calls'[d] = calls[d]
                                  /\ replied' = replied /\ moved' = moved
      OBVIOUS
    <2> HIDE DEF CallFast, TypeOK, EndpointInv, Begin, StagePayload
    <2> QED
      BY <2>1, <2>2, <2>3, <2>4, StaysSwitched
  <1>6. AnnouncedIsFree'
    BY DEF AnnouncedIsFree, StagedInv
  <1> QED
    BY <1>1, <1>2, <1>3, <1>4, <1>5, <1>6

LEMMA CallQueuedInv ==
    ASSUME EndpointInv, TypeOK', NEW c \in Callers, NEW m \in Messages, CallQueued(c, m)
    PROVE  EndpointInv'
  <1> USE EndpointAssumption, PatientCallers DEF EndpointInv, TypeOK, endpoint, CallQueued, Begin
  <1>1. QueueInv'
    <2>0. QueueInv /\ pc[c] = "ready"
      OBVIOUS
    <2>1. c \in Patient => \A i \in DOMAIN sendQueue : sendQueue[i] # c
      <3> HIDE DEF TypeOK, EndpointInv, CallQueued, Begin
      <3> QED
        BY <2>0 DEF QueueInv
    <2>2. DOMAIN sendQueue' = 1 .. Len(sendQueue) + 1
      OBVIOUS
    <2>3. /\ \A i \in 1 .. Len(sendQueue) : sendQueue'[i] = sendQueue[i]
          /\ sendQueue'[Len(sendQueue) + 1] = c
      OBVIOUS
    <2>4. c \in Patient => ~replied[c]
      BY DEF WakeInv
    <2>6. DOMAIN sendQueue = 1 .. Len(sendQueue) /\ Len(sendQueue) \in Nat
      OBVIOUS
    <2>7. \A i \in DOMAIN sendQueue : sendQueue[i] \in Patient =>
             /\ sendQueue[i] # c /\ pc'[sendQueue[i]] = pc[sendQueue[i]]
             /\ replied'[sendQueue[i]] = replied[sendQueue[i]]
      BY DEF QueueInv
    <2>8. c \in Patient => pc'[c] = "queued" /\ ~replied'[c]
      BY <2>4
    <2>9. QueueInv
      OBVIOUS
    <2> HIDE DEF TypeOK, EndpointInv, CallQueued, Begin
    <2>5. QueuedOnce'
      BY <2>1, <2>2, <2>3, <2>6, <2>9 DEF QueueInv, QueuedOnce
    <2>10. \A i \in DOMAIN sendQueue' : sendQueue'[i] \in Patient =>
              pc'[sendQueue'[i]] \in {"queued", "parked"} /\ ~replied'[sendQueue'[i]]
      BY <2>2, <2>3, <2>6, <2>7, <2>8, <2>9 DEF QueueInv
    <2> QED
      BY <2>5, <2>10 DEF QueueInv
  <1>2. HeldInv'
    BY DEF QueueInv, QueuedOnce, HeldInv, OneServerPerCaller, WakeInv, WokenInv, SwitchedTo, Busy
  <1>3. WakeInv'
    BY DEF WakeInv, HeldInv, Busy
  <1>4. StagedInv'
    BY DEF StagedInv, Fresh, AnnouncedIsFree, HeldInv, Busy, WokenInv, SwitchedTo
  <1>5. WokenInv'
    BY DEF WokenInv, SwitchedTo, Fresh, StagedInv, AnnouncedIsFree, HeldInv, Busy
  <1>6. AnnouncedIsFree'
    BY DEF AnnouncedIsFree, StagedInv
  <1> QED
    BY <1>1, <1>2, <1>3, <1>4, <1>5, <1>6

LEMMA CallOverflowInv ==
    ASSUME EndpointInv, TypeOK', NEW c \in Callers, NEW m \in Messages, CallOverflow(c, m)
    PROVE  EndpointInv'
  <1> USE EndpointAssumption, PatientCallers DEF EndpointInv, TypeOK, endpoint, CallOverflow, Begin
  <1>1. QueueInv'
    BY DEF QueueInv, QueuedOnce, HeldInv, WakeInv, Busy
  <1>2. HeldInv'
    BY DEF QueueInv, QueuedOnce, HeldInv, OneServerPerCaller, WakeInv, WokenInv, SwitchedTo, Busy
  <1>3. WakeInv'
    BY DEF WakeInv, HeldInv, Busy
  <1>4. StagedInv'
    BY DEF StagedInv, Fresh, AnnouncedIsFree, HeldInv, Busy, WokenInv, SwitchedTo
  <1>5. WokenInv'
    <2> SUFFICES ASSUME NEW t \in Servers, pc'[t] = "parked", runnable'[t]
                 PROVE  SwitchedTo(partner[t], t)'
      BY DEF WokenInv
    <2>1. pc[t] = "parked" /\ runnable[t] /\ SwitchedTo(partner[t], t)
      BY DEF WokenInv
    <2>2. partner[t] \in Patient => partner[t] # c
      BY <2>1 DEF SwitchedTo
    <2> QED
      BY <2>1, <2>2, StaysSwitched
  <1>6. AnnouncedIsFree'
    BY DEF AnnouncedIsFree, StagedInv
  <1> QED
    BY <1>1, <1>2, <1>3, <1>4, <1>5, <1>6

LEMMA SwitchInv ==
    ASSUME EndpointInv, TypeOK', NEW c \in Callers, Switch(c)
    PROVE  EndpointInv'
  <1> USE EndpointAssumption, PatientCallers DEF EndpointInv, TypeOK, endpoint, Switch
  <1>1. QueueInv'
    BY DEF QueueInv, QueuedOnce, HeldInv, WakeInv, Busy
  <1>2. HeldInv'
    BY DEF QueueInv, QueuedOnce, HeldInv, OneServerPerCaller, WakeInv, WokenInv, SwitchedTo, Busy
  <1>3. WakeInv'
    BY DEF WakeInv, HeldInv, Busy
  <1>4. StagedInv'
    <2>1. \A d \in Callers : pc'[d] = "handoff" =>
             d # c /\ pc[d] = "handoff" /\ target[d] # target[c]
      BY DEF StagedInv
    <2> QED
      BY <2>1 DEF StagedInv, Fresh
  <1>5. WokenInv'
    <2> SUFFICES ASSUME NEW t \in Servers, pc'[t] = "parked", runnable'[t]
                 PROVE  SwitchedTo(partner[t], t)'
      BY DEF WokenInv
    <2>1. CASE t = target[c]
      <3>1. partner[t] = c /\ (c \in Patient => Fresh(c) /\ ~replied[c])
        BY <2>1 DEF StagedInv, WakeInv
      <3> QED
        BY <2>1, <3>1 DEF SwitchedTo, Fresh
    <2>2. CASE t # target[c]
      <3>1. pc[t] = "parked" /\ runnable[t] /\ SwitchedTo(partner[t], t)
        BY <2>2 DEF WokenInv
      <3>2. partner[t] \in Patient => partner[t] # c
        BY <3>1 DEF SwitchedTo
      <3> QED
        BY <3>1, <3>2, StaysSwitched
    <2> QED
      BY <2>1, <2>2
  <1>6. AnnouncedIsFree'
    BY DEF AnnouncedIsFree, StagedInv
  <1> QED
    BY <1>1, <1>2, <1>3, <1>4, <1>5, <1>6

LEMMA BlockSenderInv ==
    ASSUME EndpointInv, TypeOK', NEW c \in Callers, BlockSender(c)
    PROVE  EndpointInv'
  <1> USE EndpointAssumption, PatientCallers DEF EndpointInv, TypeOK, endpoint, BlockSender, Patient
  <1>1. QueueInv'
    BY DEF QueueInv, QueuedOnce, HeldInv, WakeInv, Busy
  <1>2. HeldInv'
    BY DEF QueueInv, QueuedOnce, HeldInv, OneServerPerCaller, WakeInv, WokenInv, SwitchedTo, Busy
  <1>3. WakeInv'
    BY DEF WakeInv, HeldInv, Busy
  <1>4. StagedInv'
    BY DEF StagedInv, Fresh, AnnouncedIsFree, HeldInv, Busy, WokenInv, SwitchedTo
  <1>5. WokenInv'
    BY DEF WokenInv, SwitchedTo, Fresh, StagedInv, AnnouncedIsFree, HeldInv, Busy
  <1>6. AnnouncedIsFree'
    BY DEF AnnouncedIsFree, StagedInv
  <1> QED
    BY <1>1, <1>2, <1>3, <1>4, <1>5, <1>6

LEMMA ArmTimeoutInv ==
    ASSUME EndpointInv, TypeOK', NEW c \in Callers, ArmTimeout(c)
    PROVE  EndpointInv'
  <1> USE EndpointAssumption, PatientCallers DEF EndpointInv, TypeOK, endpoint, ArmTimeout, Patient
  <1>1. QueueInv'
    BY DEF QueueInv, QueuedOnce, HeldInv, WakeInv, Busy
  <1>2. HeldInv'
    BY DEF QueueInv, QueuedOnce, HeldInv, OneServerPerCaller, WakeInv, WokenInv, SwitchedTo, Busy
  <1>3. WakeInv'
    BY DEF WakeInv, HeldInv, Busy
  <1>4. StagedInv'
    BY DEF StagedInv, Fresh, AnnouncedIsFree, HeldInv, Busy, WokenInv, SwitchedTo
  <1>5. WokenInv'
    BY DEF WokenInv, SwitchedTo, Fresh, StagedInv, AnnouncedIsFree, HeldInv, Busy
  <1>6. AnnouncedIsFree'
    BY DEF AnnouncedIsFree, StagedInv
  <1> QED
    BY <1>1, <1>2, <1>3, <1>4, <1>5, <1>6

LEMMA ExpireInv ==
    ASSUME EndpointInv, TypeOK', NEW c \in Callers, Expire(c)
    PROVE  EndpointInv'
  <1> USE EndpointAssumption, PatientCallers DEF EndpointInv, TypeOK, endpoint, Expire, Patient
  <1>1. QueueInv'
    BY DEF QueueInv, QueuedOnce, HeldInv, WakeInv, Busy
  <1>2. HeldInv'
    BY DEF QueueInv, QueuedOnce, HeldInv, OneServerPerCaller, WakeInv, WokenInv, SwitchedTo, Busy
  <1>3. WakeInv'
    BY DEF WakeInv, HeldInv, Busy
  <1>4. StagedInv'
    BY DEF StagedInv, Fresh, AnnouncedIsFree, HeldInv, Busy, WokenInv, SwitchedTo
  <1>5. WokenInv'
    BY DEF WokenInv, SwitchedTo, Fresh, StagedInv, AnnouncedIsFree, HeldInv, Busy
  <1>6. AnnouncedIsFree'
    BY DEF AnnouncedIsFree, StagedInv
  <1> QED
    BY <1>1, <1>2, <1>3, <1>4, <1>5, <1>6

LEMMA TimedOutInv ==
    ASSUME EndpointInv, TypeOK', NEW c \in Callers, TimedOut(c)
    PROVE  EndpointInv'
  <1> USE EndpointAssumption, PatientCallers DEF EndpointInv, TypeOK, endpoint, TimedOut
  <1>1. QueueInv'
    BY DEF QueueInv, QueuedOnce, HeldInv, WakeInv, Busy
  <1>2. HeldInv'
    BY DEF QueueInv, QueuedOnce, HeldInv, OneServerPerCaller, WakeInv, WokenInv, SwitchedTo, Busy
  <1>3. WakeInv'
    BY DEF WakeInv, HeldInv, Busy
  <1>4. StagedInv'
    BY DEF StagedInv, Fresh, AnnouncedIsFree, HeldInv, Busy, WokenInv, SwitchedTo
  <1>5. WokenInv'
    BY DEF WokenInv, SwitchedTo, Fresh, StagedInv, AnnouncedIsFree, HeldInv, Busy
  <1>6. AnnouncedIsFree'
    BY DEF AnnouncedIsFree, StagedInv
  <1> QED
    BY <1>1, <1>2, <1>3, <1>4, <1>5, <1>6

LEMMA CollectReplyInv ==
    ASSUME EndpointInv, TypeOK', NEW c \in Callers, CollectReply(c)
    PROVE  EndpointInv'
  <1> USE EndpointAssumption, PatientCallers DEF EndpointInv, TypeOK, endpoint, CollectReply
  <1>1. QueueInv'
    BY DEF QueueInv, QueuedOnce, HeldInv, WakeInv, Busy
  <1>2. HeldInv'
    BY DEF QueueInv, QueuedOnce, HeldInv, OneServerPerCaller, WakeInv, WokenInv, SwitchedTo, Busy
  <1>3. WakeInv'
    BY DEF WakeInv, HeldInv, Busy
  <1>4. StagedInv'
    BY DEF StagedInv, Fresh, AnnouncedIsFree, HeldInv, Busy, WokenInv, SwitchedTo
  <1>5. WokenInv'
    <2> SUFFICES ASSUME NEW t \in Servers, pc'[t] = "parked", runnable'[t]
                 PROVE  SwitchedTo(partner[t], t)'
      BY DEF WokenInv
    <2>1. pc[t] = "parked" /\ runnable[t] /\ SwitchedTo(partner[t], t)
      BY DEF WokenInv
    <2>2. partner[t] \in Patient => partner[t] # c
      BY <2>1 DEF SwitchedTo, WakeInv
    <2> QED
      BY <2>1, <2>2, StaysSwitched
  <1>6. AnnouncedIsFree'
    BY DEF AnnouncedIsFree, StagedInv
  <1> QED
    BY <1>1, <1>2, <1>3, <1>4, <1>5, <1>6

LEMMA ReceivePopInv ==
    ASSUME EndpointInv, TypeOK', NEW s \in Servers, ReceivePop(s)
    PROVE  EndpointInv'
  <1> USE EndpointAssumption, PatientCallers DEF EndpointInv, TypeOK, endpoint, ReceivePop
  <1>1. QueueInv'
    <2>1. /\ sendQueue' \in Seq(Callers)
          /\ DOMAIN sendQueue' = 1 .. Len(sendQueue) - 1
          /\ \A i \in DOMAIN sendQueue' : /\ i + 1 \in DOMAIN sendQueue
                                          /\ sendQueue'[i] = sendQueue[i + 1]
      OBVIOUS
    <2>2. QueuedOnce'
      BY <2>1 DEF QueueInv, QueuedOnce
    <2>3. \A i \in DOMAIN sendQueue' : sendQueue'[i] \in Patient =>
             pc'[sendQueue'[i]] \in {"queued", "parked"} /\ ~replied'[sendQueue'[i]]
      <3>1. \A c \in Callers : pc'[c] = pc[c] /\ replied'[c] = replied[c]
        OBVIOUS
      <3> QED
        BY <2>1, <3>1 DEF QueueInv
    <2> QED
      BY <2>2, <2>3 DEF QueueInv
  <1>2. HeldInv'
    <2>1. /\ sendQueue' \in Seq(Callers)
          /\ DOMAIN sendQueue' = 1 .. Len(sendQueue) - 1
          /\ \A i \in DOMAIN sendQueue' : /\ i + 1 \in DOMAIN sendQueue
                                          /\ sendQueue'[i] = sendQueue[i + 1]
      OBVIOUS
    <2>2. /\ sender'[s] = sendQueue[1] /\ 1 \in DOMAIN sendQueue /\ sendQueue[1] \in Callers
          /\ \A t \in Servers \ {s} : sender'[t] = sender[t] /\ (Busy(t)' <=> Busy(t))
      BY DEF Busy
    <2>0. /\ \A c \in Callers : pc'[c] = pc[c] /\ replied'[c] = replied[c]
          /\ target' = target /\ DOMAIN sendQueue = 1 .. Len(sendQueue) /\ Len(sendQueue) \in Nat
      OBVIOUS
    <2>9. QueueInv /\ HeldInv
      OBVIOUS
    <2> HIDE DEF TypeOK, EndpointInv, ReceivePop
    <2>3. sendQueue[1] \in Patient =>
             pc'[sendQueue[1]] \in {"queued", "parked"} /\ ~replied'[sendQueue[1]]
      BY <2>0, <2>2, <2>9 DEF QueueInv
    <2>4. sendQueue[1] \in Patient => \A i \in DOMAIN sendQueue' : sendQueue'[i] # sendQueue[1]
      BY <2>0, <2>1, <2>2, <2>9 DEF QueueInv, QueuedOnce
    <2>5. \A t \in Servers \ {s} : Busy(t) /\ sender[t] \in Patient => sender[t] # sendQueue[1]
      BY <2>2, <2>9 DEF HeldInv
    <2>6. OneServerPerCaller'
      BY <2>2, <2>5, <2>9 DEF HeldInv, OneServerPerCaller
    <2>7. ASSUME NEW t \in Servers \ {s}, Busy(t)', sender'[t] \in Patient
          PROVE  \A i \in DOMAIN sendQueue' : sendQueue'[i] # sender'[t]
      BY <2>1, <2>2, <2>7, <2>9 DEF HeldInv
    <2>8. ASSUME NEW t \in Servers \ {s}, Busy(t)', sender'[t] \in Patient
          PROVE  /\ pc'[sender'[t]] \in {"queued", "parked", "switched"}
                 /\ pc'[sender'[t]] = "switched" => target'[sender'[t]] = t
                 /\ ~replied'[sender'[t]]
      BY <2>0, <2>2, <2>8, <2>9 DEF HeldInv
    <2>10. \A t \in Servers : Busy(t)' => sender'[t] \in Callers
      BY <2>2, <2>9 DEF HeldInv
    <2> QED
      BY <2>2, <2>3, <2>4, <2>6, <2>7, <2>8, <2>10 DEF HeldInv
  <1>3. WakeInv'
    BY DEF WakeInv, HeldInv, Busy
  <1>4. StagedInv'
    BY DEF StagedInv, Fresh, AnnouncedIsFree, HeldInv, Busy, WokenInv, SwitchedTo
  <1>5. WokenInv'
    BY DEF WokenInv, SwitchedTo, Fresh, StagedInv, AnnouncedIsFree, HeldInv, Busy
  <1>6. AnnouncedIsFree'
    BY DEF AnnouncedIsFree, StagedInv
  <1> QED
    BY <1>1, <1>2, <1>3, <1>4, <1>5, <1>6

LEMMA CommitQueuedInv ==
    ASSUME EndpointInv, TypeOK', NEW s \in Servers, CommitQueued(s)
    PROVE  EndpointInv'
  <1> USE EndpointAssumption, PatientCallers DEF EndpointInv, TypeOK, endpoint, CommitQueued, CommitPayload
  <1>1. QueueInv'
    BY DEF QueueInv, QueuedOnce, HeldInv, WakeInv, Busy
  <1>2. HeldInv'
    BY DEF QueueInv, QueuedOnce, HeldInv, OneServerPerCaller, WakeInv, WokenInv, SwitchedTo, Busy
  <1>3. WakeInv'
    BY DEF WakeInv, HeldInv, Busy
  <1>4. StagedInv'
    <2> DEFINE d == sender[s]
    <2>1. /\ d \in Callers /\ buf[d].call <= calls[d] /\ buf[d].call \in 0 .. MaxCalls
          /\ d \in Patient => pc[d] # "handoff"
          /\ \A e \in Callers : pc'[e] = pc[e]
          /\ \A t \in Servers : pc[t] # "took" => pc'[t] = pc[t]
          /\ calls' = calls /\ buf' = buf /\ target' = target /\ partner' = partner
          /\ state' = state /\ runnable' = runnable
      BY DEF HeldInv, Busy, StagedInv
    <2>2. moved' \subseteq moved \cup {<<d, buf[d].call>>}
      OBVIOUS
    <2>5. StagedInv
      OBVIOUS
    <2> HIDE DEF TypeOK, EndpointInv, CommitQueued, CommitPayload, d
    <2>3. \A e \in Callers, n \in 0 .. MaxCalls : <<e, n>> \in moved' => n <= calls[e]
      BY <2>1, <2>2, <2>5 DEF StagedInv
    <2>4. ASSUME NEW e \in Callers, pc'[e] = "handoff"
          PROVE  /\ target[e] \in Servers /\ partner[target[e]] = e
                 /\ state # target[e]
                 /\ \/ pc'[target[e]] = "posted"
                    \/ pc'[target[e]] = "parked" /\ ~runnable[target[e]]
                 /\ e \in Patient => Fresh(e)'
      BY <2>1, <2>2, <2>4, <2>5 DEF StagedInv, Fresh
    <2> QED
      BY <2>1, <2>3, <2>4, <2>5 DEF StagedInv
  <1>5. WokenInv'
    BY DEF WokenInv, SwitchedTo, Fresh, StagedInv, AnnouncedIsFree, HeldInv, Busy
  <1>6. AnnouncedIsFree'
    BY DEF AnnouncedIsFree, StagedInv
  <1> QED
    BY <1>1, <1>2, <1>3, <1>4, <1>5, <1>6

LEMMA CommitRefusedInv ==
    ASSUME EndpointInv, TypeOK', NEW s \in Servers, CommitRefused(s)
    PROVE  EndpointInv'
  <1> USE EndpointAssumption, PatientCallers DEF EndpointInv, TypeOK, endpoint, CommitRefused, CanCommit
  <1>1. QueueInv'
    BY DEF QueueInv, QueuedOnce, HeldInv, WakeInv, Busy
  <1>2. HeldInv'
    BY DEF QueueInv, QueuedOnce, HeldInv, OneServerPerCaller, WakeInv, WokenInv, SwitchedTo, Busy
  <1>3. WakeInv'
    BY DEF WakeInv, HeldInv, Busy
  <1>4. StagedInv'
    BY DEF StagedInv, Fresh, AnnouncedIsFree, HeldInv, Busy, WokenInv, SwitchedTo
  <1>5. WokenInv'
    BY DEF WokenInv, SwitchedTo, Fresh, StagedInv, AnnouncedIsFree, HeldInv, Busy
  <1>6. AnnouncedIsFree'
    BY DEF AnnouncedIsFree, StagedInv
  <1> QED
    BY <1>1, <1>2, <1>3, <1>4, <1>5, <1>6

LEMMA ReceiveEmptyInv ==
    ASSUME EndpointInv, TypeOK', NEW s \in Servers, ReceiveEmpty(s)
    PROVE  EndpointInv'
  <1> USE EndpointAssumption, PatientCallers DEF EndpointInv, TypeOK, endpoint, ReceiveEmpty
  <1>1. QueueInv'
    BY DEF QueueInv, QueuedOnce, HeldInv, WakeInv, Busy
  <1>2. HeldInv'
    BY DEF QueueInv, QueuedOnce, HeldInv, OneServerPerCaller, WakeInv, WokenInv, SwitchedTo, Busy
  <1>3. WakeInv'
    BY DEF WakeInv, HeldInv, Busy
  <1>4. StagedInv'
    BY DEF StagedInv, Fresh, AnnouncedIsFree, HeldInv, Busy, WokenInv, SwitchedTo
  <1>5. WokenInv'
    BY DEF WokenInv, SwitchedTo, Fresh, StagedInv, AnnouncedIsFree, HeldInv, Busy
  <1>6. AnnouncedIsFree'
    BY DEF AnnouncedIsFree, StagedInv
  <1> QED
    BY <1>1, <1>2, <1>3, <1>4, <1>5, <1>6

LEMMA AnnounceReceiverInv ==
    ASSUME EndpointInv, TypeOK', NEW s \in Servers, AnnounceReceiver(s)
    PROVE  EndpointInv'
  <1> USE EndpointAssumption, PatientCallers DEF EndpointInv, TypeOK, endpoint, AnnounceReceiver
  <1>1. QueueInv'
    BY DEF QueueInv, QueuedOnce, HeldInv, WakeInv, Busy
  <1>2. HeldInv'
    BY DEF QueueInv, QueuedOnce, HeldInv, OneServerPerCaller, WakeInv, WokenInv, SwitchedTo, Busy
  <1>3. WakeInv'
    BY DEF WakeInv, HeldInv, Busy
  <1>4. StagedInv'
    BY DEF StagedInv, Fresh, AnnouncedIsFree, HeldInv, Busy, WokenInv, SwitchedTo
  <1>5. WokenInv'
    BY DEF WokenInv, SwitchedTo, Fresh, StagedInv, AnnouncedIsFree, HeldInv, Busy
  <1>6. AnnouncedIsFree'
    BY DEF AnnouncedIsFree, StagedInv
  <1> QED
    BY <1>1, <1>2, <1>3, <1>4, <1>5, <1>6

LEMMA BlockReceiverInv ==
    ASSUME EndpointInv, TypeOK', NEW s \in Servers, BlockReceiver(s)
    PROVE  EndpointInv'
  <1> USE EndpointAssumption, PatientCallers DEF EndpointInv, TypeOK, endpoint, BlockReceiver
  <1>1. QueueInv'
    BY DEF QueueInv, QueuedOnce, HeldInv, WakeInv, Busy
  <1>2. HeldInv'
    BY DEF QueueInv, QueuedOnce, HeldInv, OneServerPerCaller, WakeInv, WokenInv, SwitchedTo, Busy
  <1>3. WakeInv'
    BY DEF WakeInv, HeldInv, Busy
  <1>4. StagedInv'
    BY DEF StagedInv, Fresh, AnnouncedIsFree, HeldInv, Busy, WokenInv, SwitchedTo
  <1>5. WokenInv'
    BY DEF WokenInv, SwitchedTo, Fresh, StagedInv, AnnouncedIsFree, HeldInv, Busy
  <1>6. AnnouncedIsFree'
    BY DEF AnnouncedIsFree, StagedInv
  <1> QED
    BY <1>1, <1>2, <1>3, <1>4, <1>5, <1>6

LEMMA CommitHandoffInv ==
    ASSUME EndpointInv, TypeOK', NEW s \in Servers, CommitHandoff(s)
    PROVE  EndpointInv'
  <1> USE EndpointAssumption, PatientCallers DEF EndpointInv, TypeOK, endpoint, CommitHandoff, CommitPayload
  <1>1. QueueInv'
    BY DEF QueueInv, QueuedOnce, HeldInv, WakeInv, Busy
  <1>2. HeldInv'
    <2>1. SwitchedTo(partner[s], s)
      BY DEF WokenInv
    <2>2. /\ sender'[s] = partner[s] /\ ~Busy(s)
          /\ \A t \in Servers \ {s} : sender'[t] = sender[t] /\ (Busy(t)' <=> Busy(t))
      BY DEF Busy
    <2>3. partner[s] \in Patient => \A t \in Servers : Busy(t) => sender[t] # partner[s]
      BY <2>1, <2>2 DEF HeldInv, SwitchedTo
    <2>4. partner[s] \in Patient => \A i \in DOMAIN sendQueue : sendQueue[i] # partner[s]
      BY <2>1 DEF QueueInv, SwitchedTo
    <2>5. OneServerPerCaller'
      BY <2>2, <2>3 DEF HeldInv, OneServerPerCaller
    <2>6. /\ \A e \in Callers : pc'[e] = pc[e]
          /\ replied' = replied /\ target' = target /\ sendQueue' = sendQueue
      OBVIOUS
    <2>7. HeldInv
      OBVIOUS
    <2> HIDE DEF TypeOK, EndpointInv, CommitHandoff, CommitPayload
    <2> QED
      BY <2>1, <2>2, <2>4, <2>5, <2>6, <2>7 DEF HeldInv, SwitchedTo
  <1>3. WakeInv'
    BY DEF WakeInv, HeldInv, Busy
  <1>4. StagedInv'
    BY DEF StagedInv, Fresh, AnnouncedIsFree, HeldInv, Busy, WokenInv, SwitchedTo
  <1>5. WokenInv'
    BY DEF WokenInv, SwitchedTo, Fresh, StagedInv, AnnouncedIsFree, HeldInv, Busy
  <1>6. AnnouncedIsFree'
    BY DEF AnnouncedIsFree, StagedInv
  <1> QED
    BY <1>1, <1>2, <1>3, <1>4, <1>5, <1>6

LEMMA ReplyInv ==
    ASSUME EndpointInv, TypeOK', NEW s \in Servers, Reply(s)
    PROVE  EndpointInv'
  <1> USE EndpointAssumption, PatientCallers DEF EndpointInv, TypeOK, endpoint, Reply
  <1>1. QueueInv'
    BY DEF QueueInv, QueuedOnce, HeldInv, WakeInv, Busy
  <1>2. HeldInv'
    BY DEF QueueInv, QueuedOnce, HeldInv, OneServerPerCaller, WakeInv, WokenInv, SwitchedTo, Busy
  <1>3. WakeInv'
    BY DEF WakeInv, HeldInv, Busy
  <1>4. StagedInv'
    BY DEF StagedInv, Fresh, AnnouncedIsFree, HeldInv, Busy, WokenInv, SwitchedTo
  <1>5. WokenInv'
    BY DEF WokenInv, SwitchedTo, Fresh, StagedInv, AnnouncedIsFree, HeldInv, Busy
  <1>6. AnnouncedIsFree'
    BY DEF AnnouncedIsFree, StagedInv
  <1> QED
    BY <1>1, <1>2, <1>3, <1>4, <1>5, <1>6
LEMMA StepEndpointInv ==
    ASSUME EndpointInv, [Next]_vars
    PROVE  EndpointInv'
  <1>1. CASE UNCHANGED vars
    BY <1>1 DEF vars, EndpointInv, TypeOK, QueueInv, QueuedOnce,
         HeldInv, OneServerPerCaller, Busy, WakeInv, StagedInv, Fresh, WokenInv,
         SwitchedTo, AnnouncedIsFree
  <1>2. CASE Next
    <2>1. TypeOK'
      BY <1>2, TypeOKStep DEF EndpointInv
    <2>2. ASSUME NEW c \in Callers, CallStart(c) PROVE EndpointInv'
      BY <2>1, <2>2, CallRefusedInv, CallFastInv, CallQueuedInv, CallOverflowInv
         DEF CallStart
    <2>3. ASSUME NEW c \in Callers, CallContinue(c) PROVE EndpointInv'
      BY <2>1, <2>3, SwitchInv, ArmTimeoutInv, BlockSenderInv, TimedOutInv, CollectReplyInv
         DEF CallContinue
    <2>5. ASSUME NEW c \in Callers, Expire(c) PROVE EndpointInv'
      BY <2>1, <2>5, ExpireInv
    <2>4. ASSUME NEW s \in Servers, ServerStep(s) PROVE EndpointInv'
      BY <2>1, <2>4, ReceivePopInv, CommitQueuedInv, CommitRefusedInv,
         ReceiveEmptyInv, AnnounceReceiverInv, BlockReceiverInv,
         CommitHandoffInv, ReplyInv DEF ServerStep
    <2> QED
      BY <1>2, <2>2, <2>3, <2>4, <2>5 DEF Next
  <1> QED
    BY <1>1, <1>2

-----------------------------------------------------------------------------
\* The invariant holds in every reachable state.
THEOREM EndpointInvariant == Spec => []EndpointInv
  <1>1. Init => EndpointInv
    BY InitEndpointInv
  <1>2. EndpointInv /\ [Next]_vars => EndpointInv'
    BY StepEndpointInv
  <1> QED
    BY <1>1, <1>2, PTL DEF Spec

\* Every variable keeps its type.
THEOREM EndpointTypeOK == Spec => []TypeOK
  <1>1. EndpointInv => TypeOK
    BY DEF EndpointInv
  <1> QED
    BY <1>1, EndpointInvariant, PTL

\* No call of a patient caller is executed twice: two servers never hold the
\* same one (ipc.rs, `Endpoint::receive`).
THEOREM EndpointOneServerPerCaller == Spec => []OneServerPerCaller
  <1>1. EndpointInv => OneServerPerCaller
    BY DEF EndpointInv, HeldInv
  <1> QED
    BY <1>1, EndpointInvariant, PTL

\* A patient sender that a server holds is still in the call that was
\* received, so the reply goes to that call (ipc.rs, `Endpoint::reply`).
THEOREM EndpointSenderStillCalling == Spec => []SenderStillCalling
  <1>1. EndpointInv => SenderStillCalling
    <2> SUFFICES ASSUME EndpointInv, NEW s \in Servers, Busy(s), sender[s] \in Patient
                 PROVE  /\ pc[sender[s]] \in {"queued", "parked", "switched"}
                        /\ sender[s] \notin ToSet(sendQueue)
                        /\ ~replied[sender[s]]
      BY DEF SenderStillCalling
    <2> QED
      BY DEF EndpointInv, HeldInv, ToSet
  <1> QED
    BY <1>1, EndpointInvariant, PTL

\* A direct handoff of a patient caller delivers the message of the call that
\* made it to the receiver that was parked (ipc.rs, the fast path of `call`).
THEOREM EndpointHandoffIntact == Spec => []HandoffIntact
  <1>1. EndpointInv => HandoffIntact
    BY DEF EndpointInv, WokenInv, SwitchedTo, Fresh, HandoffIntact, CanCommit
  <1> QED
    BY <1>1, EndpointInvariant, PTL

-----------------------------------------------------------------------------
(* Refinement                                                                *)

LEMMA InitRefines == Init => R!Init
  <1> SUFFICES ASSUME Init PROVE R!Init
    OBVIOUS
  <1> USE EndpointAssumption, PatientCallers
  <1>1. \A c \in Patient : PhaseOf(c) = "out"
    BY DEF Init, PhaseOf
  <1>2. \A s \in Servers : pc[s] # "serving"
    BY DEF Init
  <1> QED
    BY <1>1, <1>2 DEF R!Init, ServedBy

Phase == [c \in Patient |-> PhaseOf(c)]
Serving == [s \in Servers |-> ServedBy(s)]

\* Steps that are invisible to the rendezvous leave the two mapped variables.
LEMMA InvisibleStep ==
    ASSUME \A c \in Patient : PhaseOf(c)' = PhaseOf(c),
           \A s \in Servers : ServedBy(s)' = ServedBy(s)
    PROVE  UNCHANGED R!vars
  BY DEF R!vars

LEMMA CallerStepRefines ==
    ASSUME EndpointInv, NEW c \in Patient, CallStart(c) \/ CallContinue(c)
    PROVE  [R!Next]_(R!vars)
  <1> USE EndpointAssumption, PatientCallers DEF EndpointInv, TypeOK
  <1>1. \A s \in Servers : pc'[s] = pc[s] /\ sender'[s] = sender[s]
    BY DEF CallStart, CallContinue, CallRefused, CallFast, CallQueued,
       CallOverflow, Switch, ArmTimeout, BlockSender, TimedOut, CollectReply
  <1>0. Serving' = Serving /\ \A s \in Servers : ServedBy(s)' = ServedBy(s)
    BY <1>1 DEF Serving, ServedBy
  <1>2. ASSUME NEW m \in Messages, CallFast(c, m) \/ CallQueued(c, m)
        PROVE  R!Enter(c)
    <2>1. pc[c] = "ready" /\ pc' = [pc EXCEPT ![c] = pc'[c]] /\ pc'[c] # "ready"
      BY <1>2 DEF CallFast, CallQueued, Begin
    <2>2. replied' = replied /\ ~replied[c]
      BY <1>2, <2>1 DEF CallFast, CallQueued, WakeInv
    <2>8. \A d \in Patient \ {c} : pc'[d] = pc[d]
      BY <2>1
    <2>7. HeldInv /\ \A s \in Servers : pc[s] = "serving" => Busy(s)
      BY DEF Busy
    <2> HIDE DEF EndpointInv, TypeOK
    <2>3. \A s \in Servers : pc[s] = "serving" => sender[s] # c
      BY <2>1, <2>7 DEF HeldInv
    <2>4. PhaseOf(c) = "out" /\ PhaseOf(c)' = "waiting"
      BY <1>1, <2>1, <2>2, <2>3 DEF PhaseOf
    <2>5. \A d \in Patient \ {c} : PhaseOf(d)' = PhaseOf(d)
      BY <1>1, <2>2, <2>8 DEF PhaseOf
    <2>6. Phase[c] = "out" /\ Phase' = [Phase EXCEPT ![c] = "waiting"]
      BY <2>4, <2>5 DEF Phase
    <2> QED
      BY <1>0, <2>6 DEF R!Enter, Phase, Serving
  <1>3. ASSUME CollectReply(c) PROVE R!Leave(c)
    <2>1. replied[c] /\ pc[c] # "ready" /\ pc'[c] = "ready"
      BY <1>3 DEF CollectReply, WakeInv
    <2>2. \A d \in Patient \ {c} : pc'[d] = pc[d] /\ replied'[d] = replied[d]
      BY <1>3 DEF CollectReply
    <2> HIDE DEF EndpointInv, TypeOK
    <2>3. PhaseOf(c) = "answered" /\ PhaseOf(c)' = "out"
      BY <2>1 DEF PhaseOf
    <2>4. \A d \in Patient \ {c} : PhaseOf(d)' = PhaseOf(d)
      BY <1>1, <2>2 DEF PhaseOf
    <2>5. Phase[c] = "answered" /\ Phase' = [Phase EXCEPT ![c] = "out"]
      BY <2>3, <2>4 DEF Phase
    <2> QED
      BY <1>0, <2>5 DEF R!Leave, Phase, Serving
  <1>4. ASSUME NEW m \in Messages, CallRefused(c, m) \/ CallOverflow(c, m)
        PROVE  UNCHANGED R!vars
    <2>1. pc' = pc /\ replied' = replied
      BY <1>4 DEF CallRefused, CallOverflow
    <2> QED
      BY <1>0, <1>1, <2>1, InvisibleStep DEF PhaseOf
  <1>5. ASSUME Switch(c) \/ BlockSender(c) PROVE UNCHANGED R!vars
    <2>1. /\ replied' = replied /\ pc[c] # "ready" /\ pc'[c] # "ready"
          /\ \A d \in Patient \ {c} : pc'[d] = pc[d]
      BY <1>5 DEF Switch, BlockSender
    <2>2. \A d \in Patient : PhaseOf(d)' = PhaseOf(d)
      BY <1>1, <2>1 DEF PhaseOf
    <2> QED
      BY <1>0, <2>2, InvisibleStep
  <1>6. CASE CallStart(c)
    BY <1>2, <1>4, <1>6 DEF CallStart, R!Next
  <1>8. ~ArmTimeout(c) /\ ~TimedOut(c)
    <2>1. c \notin Deadlined /\ timer[c] = "off"
      BY DEF Patient, WakeInv
    <2> QED
      BY <2>1 DEF ArmTimeout, TimedOut
  <1>7. CASE CallContinue(c)
    BY <1>3, <1>5, <1>7, <1>8 DEF CallContinue, R!Next
  <1> QED
    BY <1>6, <1>7

\* What a caller with a deadline does, the rendezvous of the others does not see.
LEMMA OthersInvisible ==
    ASSUME EndpointInv, NEW c \in Callers \ Patient,
           CallStart(c) \/ CallContinue(c) \/ Expire(c)
    PROVE  UNCHANGED R!vars
  <1> USE EndpointAssumption, PatientCallers DEF EndpointInv, TypeOK
  <1>1. /\ \A s \in Servers : pc'[s] = pc[s] /\ sender'[s] = sender[s]
        /\ \A d \in Patient : pc'[d] = pc[d] /\ replied'[d] = replied[d]
    BY DEF CallStart, CallContinue, CallRefused, CallFast, CallQueued, CallOverflow, Begin,
       Switch, ArmTimeout, BlockSender, Expire, TimedOut, CollectReply
  <1>2. \A s \in Servers : ServedBy(s)' = ServedBy(s)
    BY <1>1 DEF ServedBy
  <1>3. \A d \in Patient : PhaseOf(d)' = PhaseOf(d)
    BY <1>1 DEF PhaseOf
  <1> QED
    BY <1>2, <1>3, InvisibleStep

LEMMA ExpireInvisible ==
    ASSUME EndpointInv, NEW c \in Callers, Expire(c)
    PROVE  UNCHANGED R!vars
  <1>1. c \notin Patient
    BY DEF Expire, EndpointInv, WakeInv
  <1> QED
    BY <1>1, OthersInvisible

LEMMA ServerStepRefines ==
    ASSUME EndpointInv, NEW s \in Servers, ServerStep(s)
    PROVE  [R!Next]_(R!vars)
  <1> USE EndpointAssumption, PatientCallers DEF EndpointInv, TypeOK
  <1>1. \A d \in Callers : pc'[d] = pc[d]
    BY DEF ServerStep, ReceivePop, CommitQueued, CommitRefused, ReceiveEmpty,
       AnnounceReceiver, BlockReceiver, CommitHandoff, Reply
  <1>0. \A d \in Patient : pc'[d] = pc[d] /\ d \in Callers
    BY <1>1
  <1>2. ASSUME CommitQueued(s) \/ CommitHandoff(s), sender'[s] \in Patient
        PROVE  R!Match(sender'[s], s)
    <2> DEFINE c == sender'[s]
    <2>1. /\ c \in Patient /\ pc[c] # "ready" /\ ~replied[c]
          /\ \A t \in Servers : pc[t] = "serving" => sender[t] # c
      <3>1. CASE CommitQueued(s)
        BY <1>2, <3>1 DEF CommitQueued, HeldInv, OneServerPerCaller, Busy
      <3>2. CASE CommitHandoff(s)
        BY <1>2, <3>2 DEF CommitHandoff, WokenInv, SwitchedTo, HeldInv, Busy
      <3> QED
        BY <1>2, <3>1, <3>2
    <2>2. /\ replied' = replied /\ pc[s] # "serving" /\ pc'[s] = "serving"
          /\ \A t \in Servers \ {s} : pc'[t] = pc[t] /\ sender'[t] = sender[t]
      BY <1>2 DEF CommitQueued, CommitHandoff
    <2>3. PhaseOf(c) = "waiting"
      BY <2>1 DEF PhaseOf
    <2>4. \A d \in Patient : PhaseOf(d)' = IF d = c THEN "served" ELSE PhaseOf(d)
      <3> HIDE DEF EndpointInv, TypeOK, c
      <3> QED
        BY <1>0, <2>1, <2>2 DEF PhaseOf, c
    <2>5. Phase' = [Phase EXCEPT ![c] = "served"]
      BY <2>4 DEF Phase
    <2>6. Serving' = [Serving EXCEPT ![s] = c] /\ Serving[s] = None
      <3> HIDE DEF EndpointInv, TypeOK, c
      <3>1. \A t \in Servers : ServedBy(t)' = IF t = s THEN c ELSE ServedBy(t)
        BY <2>1, <2>2 DEF ServedBy, c
      <3> QED
        BY <2>2, <3>1 DEF Serving, ServedBy
    <2> QED
      BY <2>1, <2>3, <2>5, <2>6 DEF R!Match, Phase, Serving
  <1>3. ASSUME Reply(s), sender[s] \in Patient PROVE R!Answer(s)
    <2> DEFINE c == sender[s]
    <2>1. /\ pc[s] = "serving" /\ c \in Patient /\ pc[c] # "ready" /\ ~replied[c]
          /\ \A t \in Servers : pc[t] = "serving" /\ sender[t] = c => t = s
      BY <1>3 DEF Reply, HeldInv, OneServerPerCaller, Busy
    <2>2. /\ replied'[c] /\ \A d \in Patient \ {c} : replied'[d] = replied[d]
          /\ pc'[s] = "ready" /\ replied'[c] \in BOOLEAN
          /\ \A t \in Servers \ {s} : pc'[t] = pc[t] /\ sender'[t] = sender[t]
      BY <1>3 DEF Reply
    <2>3. PhaseOf(c) = "served"
      BY <2>1 DEF PhaseOf
    <2>4. \A d \in Patient : PhaseOf(d)' = IF d = c THEN "answered" ELSE PhaseOf(d)
      <3> HIDE DEF EndpointInv, TypeOK, c
      <3> QED
        BY <1>0, <2>1, <2>2 DEF PhaseOf, c
    <2>5. Phase' = [Phase EXCEPT ![c] = "answered"]
      BY <2>4 DEF Phase
    <2>6. Serving' = [Serving EXCEPT ![s] = None] /\ Serving[s] = c
      <3> HIDE DEF EndpointInv, TypeOK, c
      <3>1. \A t \in Servers : ServedBy(t)' = IF t = s THEN None ELSE ServedBy(t)
        BY <2>2 DEF ServedBy
      <3> QED
        BY <2>1, <3>1 DEF Serving, ServedBy, c
    <2>7. c # None
      BY <2>1
    <2> QED
      BY <2>1, <2>3, <2>5, <2>6, <2>7 DEF R!Answer, Phase, Serving
  <1>4. ASSUME \/ ReceivePop(s) \/ CommitRefused(s) \/ ReceiveEmpty(s)
               \/ AnnounceReceiver(s) \/ BlockReceiver(s)
        PROVE  UNCHANGED R!vars
    <2>1. /\ replied' = replied /\ pc[s] # "serving" /\ pc'[s] # "serving"
          /\ \A t \in Servers \ {s} : pc'[t] = pc[t] /\ sender'[t] = sender[t]
      BY <1>4 DEF ReceivePop, CommitRefused, ReceiveEmpty, AnnounceReceiver,
         BlockReceiver
    <2>2. \A d \in Patient : PhaseOf(d)' = PhaseOf(d)
      BY <1>1, <2>1 DEF PhaseOf
    <2>3. \A t \in Servers : ServedBy(t)' = ServedBy(t)
      BY <2>1 DEF ServedBy
    <2> QED
      BY <2>2, <2>3, InvisibleStep
  <1>5. ASSUME CommitQueued(s) \/ CommitHandoff(s), sender'[s] \notin Patient
        PROVE  UNCHANGED R!vars
    <2>1. /\ replied' = replied /\ pc[s] # "serving"
          /\ \A t \in Servers \ {s} : pc'[t] = pc[t] /\ sender'[t] = sender[t]
      BY <1>5 DEF CommitQueued, CommitHandoff
    <2>2. \A t \in Servers : ServedBy(t)' = ServedBy(t)
      BY <1>5, <2>1 DEF ServedBy
    <2>3. \A d \in Patient : PhaseOf(d)' = PhaseOf(d)
      <3> HIDE DEF EndpointInv, TypeOK
      <3> QED
        BY <1>0, <1>5, <2>1 DEF PhaseOf
    <2> QED
      BY <2>2, <2>3, InvisibleStep
  <1>6. ASSUME Reply(s), sender[s] \notin Patient PROVE UNCHANGED R!vars
    <2>1. /\ pc[s] = "serving" /\ pc'[s] = "ready"
          /\ \A d \in Patient : replied'[d] = replied[d]
          /\ \A t \in Servers \ {s} : pc'[t] = pc[t] /\ sender'[t] = sender[t]
      BY <1>6 DEF Reply
    <2>2. \A t \in Servers : ServedBy(t)' = ServedBy(t)
      BY <1>6, <2>1 DEF ServedBy
    <2>3. \A d \in Patient : PhaseOf(d)' = PhaseOf(d)
      <3> HIDE DEF EndpointInv, TypeOK
      <3> QED
        BY <1>0, <1>6, <2>1 DEF PhaseOf
    <2> QED
      BY <2>2, <2>3, InvisibleStep
  <1>7. ServerStep(s) => \/ CommitQueued(s) \/ CommitHandoff(s) \/ Reply(s)
                         \/ ReceivePop(s) \/ CommitRefused(s) \/ ReceiveEmpty(s)
                         \/ AnnounceReceiver(s) \/ BlockReceiver(s)
    BY DEF ServerStep
  <1> HIDE DEF EndpointInv, TypeOK
  <1> QED
    BY <1>2, <1>3, <1>4, <1>5, <1>6, <1>7 DEF R!Next

\* To its patient callers an endpoint implements the rendezvous, whatever callers
\* with deadlines do: each of their calls is taken by at most one server, answered
\* by that server, and returns Ok only then.
THEOREM EndpointImplementsRendezvous == Spec => ImplementsRendezvous
  <1>1. Init => R!Init
    BY InitRefines
  <1>2. EndpointInv /\ [Next]_vars => [R!Next]_(R!vars)
    <2>1. ASSUME EndpointInv, Next PROVE [R!Next]_(R!vars)
      <3>1. ASSUME NEW c \in Callers, CallStart(c) \/ CallContinue(c) \/ Expire(c)
            PROVE  [R!Next]_(R!vars)
        <4>1. CASE c \in Patient
          BY <2>1, <3>1, <4>1, CallerStepRefines, ExpireInvisible
        <4>2. CASE c \notin Patient
          BY <2>1, <3>1, <4>2, OthersInvisible
        <4> QED
          BY <4>1, <4>2
      <3> QED
        BY <2>1, <3>1, ServerStepRefines DEF Next
    <2>2. ASSUME UNCHANGED vars PROVE UNCHANGED R!vars
      BY <2>2 DEF vars, R!vars, PhaseOf, ServedBy
    <2> QED
      BY <2>1, <2>2
  <1> QED
    BY <1>1, <1>2, EndpointInvariant, PTL DEF Spec, ImplementsRendezvous, R!Spec

=============================================================================
