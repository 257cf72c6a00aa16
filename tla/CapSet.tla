------------------------------- MODULE CapSet -------------------------------
(***************************************************************************)
(* Capabilities and the per-process capability sets of the microkernel     *)
(* (kernel/spectre-kernel/src/cap.rs: `Capability::{mint, derive}`,        *)
(* `CapSet::{insert, lookup, revoke_object}`).                             *)
(*                                                                         *)
(* A token is identified by its handle, a random number that no other      *)
(* token has (the source argues that collisions are negligible); what it   *)
(* names and permits never changes.  A CapSet is an open-addressed table   *)
(* of Slots entries: the probe for a handle starts at handle % Slots and   *)
(* moves up, wrapping around.  Every method takes `&mut self`, so each is  *)
(* one step.  Delivery of tokens to another process with a message         *)
(* (thread::deliver_caps) is external: the receiver inserts the token.     *)
(***************************************************************************)
EXTENDS Integers, FiniteSets

CONSTANTS
    Procs,       \* processes
    Objects,     \* kernel objects
    Rights,      \* the rights, "DELEGATE" among them
    Handles,     \* bound: the handles the CSPRNG draws from
    Slots,       \* entries of a CapSet (256 in the code)
    Revocations, \* <<p, o>>: object o may be revoked from the set of p
    NoHandle         \* an empty entry

ASSUME CapSetAssumption ==
    /\ Slots \in Nat \ {0}
    /\ Handles \subseteq Nat
    /\ "DELEGATE" \in Rights
    /\ Revocations \subseteq Procs \X Objects
    /\ NoHandle \notin Handles

VARIABLES
    token,       \* token[h] = [object, rights, root], for the handles drawn
    entries,     \* entries[p]: the table of process p
    len          \* len[p]: its count of occupied entries

capVars == <<token, entries, len>>

Positions == 0 .. Slots - 1
Drawn == DOMAIN token

\* root is a history: the handle the kernel minted that h descends from.
Tokens == [object : Objects, rights : SUBSET Rights, root : Handles]

CapTypeOK ==
    /\ Drawn \subseteq Handles /\ token \in [Drawn -> Tokens]
    /\ entries \in [Procs -> [Positions -> Drawn \cup {NoHandle}]]
    /\ len \in [Procs -> 0 .. Slots]

CapInit ==
    /\ token = [h \in {} |-> NoHandle]
    /\ entries = [p \in Procs |-> [i \in Positions |-> NoHandle]]
    /\ len = [p \in Procs |-> 0]

-----------------------------------------------------------------------------
(* The table *)

\* The k-th entry of the probe for handle h.
Probe(h, k) == (h + k) % Slots

\* The probe for h gets to its k-th entry: those before it hold other handles.
Reaches(p, h, k) ==
    \A j \in 0 .. k - 1 : entries[p][Probe(h, j)] \notin {NoHandle, h}

\* CapSet::lookup
Found(p, h) == \E k \in Positions : /\ Reaches(p, h, k)
                                    /\ entries[p][Probe(h, k)] = h

\* The tokens process p can act on.
Held(p) == {h \in Drawn : Found(p, h)}

\* Mutation of Insert: a handle already in the table is inserted again.
Insert_Again(p, h) ==
    IF len[p] = Slots
    THEN UNCHANGED <<entries, len>>
    ELSE \E k \in Positions :
            /\ \A j \in 0 .. k - 1 : entries[p][Probe(h, j)] # NoHandle
            /\ entries[p][Probe(h, k)] = NoHandle
            /\ entries' = [entries EXCEPT ![p][Probe(h, k)] = h]
            /\ len' = [len EXCEPT ![p] = @ + 1]

\* CapSet::insert: the first empty entry of the probe, unless the handle comes
\* first.  A full table refuses every insertion.
Insert(p, h) ==
    IF len[p] = Slots \/ Found(p, h)
    THEN UNCHANGED <<entries, len>>
    ELSE \E k \in Positions :
            /\ Reaches(p, h, k) /\ entries[p][Probe(h, k)] = NoHandle
            /\ entries' = [entries EXCEPT ![p][Probe(h, k)] = h]
            /\ len' = [len EXCEPT ![p] = @ + 1]

-----------------------------------------------------------------------------
(* Operations *)

\* The kernel mints a token for p.
Mint(p, h, o, r) ==
    /\ h \in Handles \ Drawn
    /\ token' = [g \in Drawn \cup {h} |->
                    IF g = h THEN [object |-> o, rights |-> r, root |-> h]
                             ELSE token[g]]
    /\ Insert(p, h)

\* Mutation of MayDerive: the subset check is left out.
MayDerive_AnySubset(g, r) == "DELEGATE" \in token[g].rights

\* The two checks of Capability::derive.
MayDerive(g, r) == /\ "DELEGATE" \in token[g].rights
                   /\ r \subseteq token[g].rights

\* p derives a token with fresh handle h from one it holds, and q receives it.
Derive(p, q, g, h, r) ==
    /\ g \in Held(p) /\ MayDerive(g, r)
    /\ h \in Handles \ Drawn
    /\ token' = [d \in Drawn \cup {h} |->
                    IF d = h THEN [token[g] EXCEPT !.rights = r] ELSE token[d]]
    /\ Insert(q, h)

\* q receives a token of p as it is.
Deliver(p, q, h) ==
    /\ h \in Held(p)
    /\ Insert(q, h)
    /\ UNCHANGED token

\* The entries of p that name object o.
Naming(p, o) ==
    {i \in Positions : entries[p][i] # NoHandle /\ token[entries[p][i]].object = o}

\* Mutation of RevokeObject: the count keeps its value.
RevokeObject_KeepsLen(p, o) ==
    /\ Naming(p, o) # {}
    /\ entries' = [entries EXCEPT ![p] =
                    [i \in Positions |-> IF i \in Naming(p, o) THEN NoHandle ELSE @[i]]]
    /\ UNCHANGED <<token, len>>

\* CapSet::revoke_object: clear every such entry, wherever it is.
RevokeObject(p, o) ==
    /\ Naming(p, o) # {}
    /\ entries' = [entries EXCEPT ![p] =
                    [i \in Positions |-> IF i \in Naming(p, o) THEN NoHandle ELSE @[i]]]
    /\ len' = [len EXCEPT ![p] = @ - Cardinality(Naming(p, o))]
    /\ UNCHANGED token

CapNext ==
    \/ \E p \in Procs, h \in Handles, o \in Objects, r \in SUBSET Rights :
            Mint(p, h, o, r)
    \/ \E p, q \in Procs, g, h \in Handles, r \in SUBSET Rights :
            Derive(p, q, g, h, r)
    \/ \E p, q \in Procs, h \in Handles : Deliver(p, q, h)
    \/ \E p \in Procs, o \in Objects : <<p, o>> \in Revocations /\ RevokeObject(p, o)

CapSpec == CapInit /\ [][CapNext]_capVars

-----------------------------------------------------------------------------
(* Properties *)

Occupied(p) == {i \in Positions : entries[p][i] # NoHandle}

\* `len` counts the occupied entries, through insertions of tokens already
\* held and revocations: `insert` trusts it to find an empty entry, and loops
\* for ever in a full table if it is wrong (cap.rs:174-189).
LenIsExact == \A p \in Procs : len[p] = Cardinality(Occupied(p))

\* "A process can never grant more than it holds" (cap.rs:6): along any chain
\* of derivations and deliveries, a token permits at most what the token the
\* kernel minted permits, on the same object, and the kernel's token allows
\* delegation if it has descendants.
NoAmplification ==
    \A h \in Drawn :
        LET root == token[h].root
        IN  /\ root \in Drawn
            /\ token[h].object = token[root].object
            /\ token[h].rights \subseteq token[root].rights
            /\ h # root => "DELEGATE" \in token[root].rights

\* While nothing is revoked from the set of a process, `lookup` finds whatever
\* is in its table (cap.rs:192), and it is in there once.
HeldIsFound ==
    \A p \in Procs : (\A o \in Objects : <<p, o>> \notin Revocations) =>
        /\ \A i \in Occupied(p) : entries[p][i] \in Held(p)
        /\ \A i, j \in Occupied(p) : entries[p][i] = entries[p][j] => i = j

\* Revoking one object leaves the tokens of the others usable (the test
\* revocation_clears_all_tokens_for_an_object, cap.rs:265).
OthersSurvive ==
    [][\A p \in Procs, o \in Objects :
           <<p, o>> \in Revocations /\ RevokeObject(p, o) =>
               {h \in Held(p) : token[h].object # o} \subseteq Held(p)']_capVars
=============================================================================
