-------------------------------- MODULE Port --------------------------------
(***************************************************************************)
(* The asynchronous notification port of the microkernel                   *)
(* (kernel/spectre-kernel/src/ipc.rs, `Port::{post, try_recv,              *)
(* take_drop_count}`): a ring of entries between posters, which may be     *)
(* interrupt handlers, and one receiver.                                   *)
(*                                                                         *)
(* The ring has no lock of its own: every access to head, tail, dropped    *)
(* and a slot is a step.  RingIndices are u32 that wrap; Width stands for      *)
(* 2^32.  The loads in `post` are two steps.  `try_recv` is the only       *)
(* writer of tail, so its load of tail is one step with its load of head.  *)
(* The check of the capability is left out (a refused call touches         *)
(* nothing), and so is the wake-up at the end of `post`: no code in the    *)
(* repository ever stores a thread in `waiter`, so the branch is dead and  *)
(* the receiver polls.                                                     *)
(* The drop count is not cut to 32 bits: it would take 2^32 drops that     *)
(* nobody reads.                                                           *)
(***************************************************************************)
EXTENDS Integers, Sequences, FiniteSetsExt

CONSTANTS
    Producers,   \* contexts that post
    RingSlots,   \* entries of the ring (256 in the code)
    Width,       \* number of values of an index (2^32 in the code)
    MaxPosts,    \* bound: posts of each producer
    NoNote       \* no notification

ASSUME PortAssumption ==
    /\ RingSlots \in Nat \ {0} /\ Width \in Nat \ {0}
    /\ RingSlots < Width /\ Width % RingSlots = 0
    /\ MaxPosts \in Nat
    /\ NoNote \notin Producers \X (1 .. MaxPosts)

VARIABLES
    ring, head, tail, dropped,     \* the Port
    ppc, seen, full,               \* each poster: its place, its load of head,
                                   \* whether its load of tail showed a full ring
    rpc, inHand, last,             \* the receiver: its place, the note it has
                                   \* taken out, the note it last returned
    posts,                         \* notifications each producer began to post
    received, reported             \* history: notes received, drops read

portVars == <<ring, head, tail, dropped, ppc, seen, full, rpc, inHand, last,
              posts, received, reported>>
receiver == <<rpc, inHand, last, received>>

RingIndices == 0 .. Width - 1
Notes == Producers \X (1 .. MaxPosts)
Note(p) == <<p, posts[p]>>

PortTypeOK ==
    /\ ring \in [0 .. RingSlots - 1 -> Notes \cup {NoNote}]
    /\ head \in RingIndices /\ tail \in RingIndices
    /\ dropped \in Nat /\ reported \in Nat /\ received \in Nat
    /\ ppc \in [Producers -> {"idle", "loaded", "checked", "written"}]
    /\ seen \in [Producers -> RingIndices] /\ full \in [Producers -> BOOLEAN]
    /\ rpc \in {"idle", "nonempty", "taken"}
    /\ inHand \in Notes \cup {NoNote} /\ last \in Notes \cup {NoNote}
    /\ posts \in [Producers -> 0 .. MaxPosts]

PortInit ==
    /\ ring = [i \in 0 .. RingSlots - 1 |-> NoNote]
    /\ head = 0 /\ tail = 0 /\ dropped = 0
    /\ ppc = [p \in Producers |-> "idle"]
    /\ seen = [p \in Producers |-> 0]
    /\ full = [p \in Producers |-> FALSE]
    /\ rpc = "idle" /\ inHand = NoNote /\ last = NoNote
    /\ posts = [p \in Producers |-> 0]
    /\ received = 0 /\ reported = 0

\* a.wrapping_sub(b)
Distance(a, b) == (Width + a - b) % Width

-----------------------------------------------------------------------------
(* Port::post *)

LoadHead(p) ==
    /\ ppc[p] = "idle" /\ posts[p] < MaxPosts
    /\ posts' = [posts EXCEPT ![p] = @ + 1]
    /\ seen' = [seen EXCEPT ![p] = head]
    /\ ppc' = [ppc EXCEPT ![p] = "loaded"]
    /\ UNCHANGED <<ring, head, tail, dropped, full, receiver, reported>>

\* Mutation of LoadTail: the last free slot counts as none.
LoadTail_OneSlotShort(p) ==
    /\ ppc[p] = "loaded"
    /\ full' = [full EXCEPT ![p] = Distance(seen[p], tail) >= RingSlots - 1]
    /\ ppc' = [ppc EXCEPT ![p] = "checked"]
    /\ UNCHANGED <<ring, head, tail, dropped, seen, receiver, posts, reported>>

LoadTail(p) ==
    /\ ppc[p] = "loaded"
    /\ full' = [full EXCEPT ![p] = Distance(seen[p], tail) >= RingSlots]
    /\ ppc' = [ppc EXCEPT ![p] = "checked"]
    /\ UNCHANGED <<ring, head, tail, dropped, seen, receiver, posts, reported>>

\* Mutation of CountDrop: the drop is not counted.
CountDrop_Silent(p) ==
    /\ ppc[p] = "checked" /\ full[p]
    /\ ppc' = [ppc EXCEPT ![p] = "idle"]
    /\ UNCHANGED <<ring, head, tail, dropped, seen, full, receiver, posts, reported>>

\* The ring was full: count the drop and return Overflow.
CountDrop(p) ==
    /\ ppc[p] = "checked" /\ full[p]
    /\ dropped' = dropped + 1
    /\ ppc' = [ppc EXCEPT ![p] = "idle"]
    /\ UNCHANGED <<ring, head, tail, seen, full, receiver, posts, reported>>

WriteSlot(p) ==
    /\ ppc[p] = "checked" /\ ~full[p]
    /\ ring' = [ring EXCEPT ![seen[p] % RingSlots] = Note(p)]
    /\ ppc' = [ppc EXCEPT ![p] = "written"]
    /\ UNCHANGED <<head, tail, dropped, seen, full, receiver, posts, reported>>

\* The notification becomes visible to the receiver and `post` returns Ok.
PublishHead(p) ==
    /\ ppc[p] = "written"
    /\ head' = (seen[p] + 1) % Width
    /\ ppc' = [ppc EXCEPT ![p] = "idle"]
    /\ UNCHANGED <<ring, tail, dropped, seen, full, receiver, posts, reported>>

-----------------------------------------------------------------------------
(* Port::try_recv and Port::take_drop_count *)

\* Mutation of SeeNonempty: slots are compared, so a full ring looks empty.
SeeNonempty_BySlot ==
    /\ rpc = "idle"
    /\ tail % RingSlots # head % RingSlots
    /\ rpc' = "nonempty"
    /\ UNCHANGED <<ring, head, tail, dropped, ppc, seen, full, inHand, last, posts,
                   received, reported>>

\* An empty ring returns Ok(NoNote) and changes nothing.
SeeNonempty ==
    /\ rpc = "idle"
    /\ tail # head
    /\ rpc' = "nonempty"
    /\ UNCHANGED <<ring, head, tail, dropped, ppc, seen, full, inHand, last, posts,
                   received, reported>>

TakeSlot ==
    /\ rpc = "nonempty"
    /\ inHand' = ring[tail % RingSlots]
    /\ ring' = [ring EXCEPT ![tail % RingSlots] = NoNote]
    /\ rpc' = "taken"
    /\ UNCHANGED <<head, tail, dropped, ppc, seen, full, last, posts, received,
                   reported>>

PublishTail ==
    /\ rpc = "taken"
    /\ tail' = (tail + 1) % Width
    /\ last' = inHand
    /\ received' = IF inHand = NoNote THEN received ELSE received + 1
    /\ rpc' = "idle"
    /\ UNCHANGED <<ring, head, dropped, ppc, seen, full, inHand, posts, reported>>

TakeDropCount ==
    /\ dropped > 0
    /\ reported' = reported + dropped
    /\ dropped' = 0
    /\ UNCHANGED <<ring, head, tail, ppc, seen, full, receiver, posts>>

-----------------------------------------------------------------------------
Post(p) == \/ LoadTail(p) \/ CountDrop(p) \/ WriteSlot(p) \/ PublishHead(p)

Receive == SeeNonempty \/ TakeSlot \/ PublishTail

PortNext == \/ \E p \in Producers : LoadHead(p) \/ Post(p)
            \/ Receive \/ TakeDropCount

PortSpec == PortInit /\ [][PortNext]_portVars

\* `post` never blocks, and the receiver polls; nobody has to post, or to read
\* the drop count.
PortFairSpec == /\ PortSpec
                /\ \A p \in Producers : WF_portVars(Post(p))
                /\ WF_portVars(Receive)

-----------------------------------------------------------------------------
(* Properties *)

\* The notifications between tail and head; the one the receiver has in hand
\* still occupies the first place.
Queue ==
    [i \in 1 .. Distance(head, tail) |->
        IF i = 1 /\ rpc = "taken" THEN inHand
                                  ELSE ring[(tail + i - 1) % RingSlots]]

\* Posts that returned are received, queued, counted in `dropped`, or were
\* read out of it: "a nonzero value means you missed events" (ipc.rs:232), so
\* a zero value has to mean that none was missed.
NothingLostSilently ==
    SumFunctionOnSet(posts, Producers)
        = received + Len(Queue) + dropped + reported
          + Cardinality({p \in Producers : ppc[p] # "idle"})

\* A notification that was accepted is eventually received.
EventuallyReceived ==
    \A n \in Notes : (\E i \in DOMAIN Queue : Queue[i] = n) ~> last = n

\* A post is received or counted, nothing else, and the indices keep their width.
DeliversOrCounts == [](PortTypeOK /\ NothingLostSilently) /\ EventuallyReceived

\* The port implements a bounded queue that drops only when it is full, counts
\* every drop once and tells the receiver of it once.  A drop is decided when
\* `post` loads tail.
Channel == INSTANCE NotificationChannel WITH
        Capacity <- RingSlots,
        queue <- Queue,
        dropping <- Cardinality({p \in Producers : ppc[p] = "checked" /\ full[p]}),
        lost <- dropped,
        told <- reported

ImplementsChannel == Channel!Spec
=============================================================================
