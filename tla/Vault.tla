------------------------------- MODULE Vault -------------------------------
(***************************************************************************)
(* One process's encrypted arena (kernel/spectre-kernel/src/vault.rs):     *)
(* sealing and opening pages, key rotation, and the sweep that accounts    *)
(* for pages under the previous key.                                       *)
(*                                                                         *)
(* A key is the number of its derivation: the CSPRNG never repeats one.    *)
(* Ciphertext is the epoch its owner remembers with the key that made it;  *)
(* decryption succeeds under that key only.  Whoever holds the key lock    *)
(* does one step; SWEEPS_DEFERRED is read before the lock is taken.  The   *)
(* caller of `rotate` chooses the number of resident pages.  A sweep only  *)
(* counts, as in the code: nothing there re-encrypts a page.               *)
(***************************************************************************)
EXTENDS Integers, FiniteSets

CONSTANTS
    Pages,       \* pages of the arena
    Sweepers,    \* processors whose idle loop sweeps
    Chunk,       \* MAX_CHUNK, 512 in the code
    MaxEpoch,    \* bound: rotations
    None         \* nothing

ASSUME VaultAssumption ==
    /\ IsFiniteSet(Pages) /\ Chunk \in Nat \ {0} /\ MaxEpoch \in Nat
    /\ None \notin Nat

VARIABLES
    current, previous,   \* VaultKeys: the two live keys
    epoch, stale,        \* VaultKeys::epoch and stale_pages
    cipher,              \* each page: plaintext, or [epoch, key]
    failed,              \* the pages whose open_page failed
    deferred,            \* SWEEPS_DEFERRED, stored by Game Mode
    sweeping,            \* the sweepers that have passed the deferral check
    late                 \* history: pages counted since sweeps were deferred

keys == <<current, previous, epoch, stale>>
arena == <<cipher, failed>>
vars == <<keys, arena, deferred, sweeping, late>>

KeyIds == 0 .. MaxEpoch
Plain == [epoch |-> -1, key |-> -1]

TypeOK ==
    /\ current \in KeyIds /\ previous \in KeyIds \cup {None}
    /\ epoch \in 0 .. MaxEpoch
    /\ stale \in 0 .. Cardinality(Pages)
    /\ cipher \in [Pages -> [epoch : KeyIds, key : KeyIds] \cup {Plain}]
    /\ failed \subseteq Pages
    /\ deferred \in BOOLEAN /\ sweeping \subseteq Sweepers /\ late \in Nat

Init ==
    /\ current = 0 /\ previous = None /\ epoch = 0 /\ stale = 0
    /\ cipher = [p \in Pages |-> Plain]
    /\ failed = {}
    /\ deferred = FALSE /\ sweeping = {} /\ late = 0

-----------------------------------------------------------------------------
(* Sealing and opening *)

SealPage(p) ==
    /\ cipher[p] = Plain
    /\ cipher' = [cipher EXCEPT ![p] = [epoch |-> epoch, key |-> current]]
    /\ UNCHANGED <<keys, failed, deferred, sweeping, late>>

\* The key open_page tries for a page sealed in epoch e.
KeyFor(e) == CASE e = epoch -> current
               [] e + 1 = epoch -> previous
               [] OTHER -> None

\* open_page: the tag verifies under the sealing key only.
OpenPage(p) ==
    /\ cipher[p] # Plain /\ p \notin failed
    /\ IF KeyFor(cipher[p].epoch) = cipher[p].key
       THEN /\ cipher' = [cipher EXCEPT ![p] = Plain]
            /\ UNCHANGED failed
       ELSE /\ failed' = failed \cup {p}
            /\ UNCHANGED cipher
    /\ UNCHANGED <<keys, deferred, sweeping, late>>

-----------------------------------------------------------------------------
(* Rotation and sweep *)

\* Mutation of Rotate: the new key is derived before the old one is kept.
Rotate_LosesKey(resident) ==
    /\ epoch < MaxEpoch
    /\ epoch' = epoch + 1
    /\ current' = epoch + 1 /\ previous' = epoch + 1
    /\ stale' = resident
    /\ UNCHANGED <<arena, deferred, sweeping, late>>

\* rotate: the previous key is scrubbed whether or not pages still need it.
Rotate(resident) ==
    /\ epoch < MaxEpoch
    /\ epoch' = epoch + 1
    /\ previous' = current /\ current' = epoch + 1
    /\ stale' = resident
    /\ UNCHANGED <<arena, deferred, sweeping, late>>

\* sweep_step goes past the check of SWEEPS_DEFERRED ...
SweepAllowed(s) ==
    /\ s \notin sweeping /\ ~deferred
    /\ sweeping' = sweeping \cup {s}
    /\ UNCHANGED <<keys, arena, deferred, late>>

\* Mutation of Swept: a last chunk that is not full is left for later.
Swept_WholeChunks(budget) ==
    LET most == IF budget <= Chunk THEN budget ELSE Chunk
    IN  IF most <= stale THEN most ELSE 0

\* The pages one step accounts for.
Swept(budget) == LET most == IF budget <= Chunk THEN budget ELSE Chunk
                 IN  IF most <= stale THEN most ELSE stale

\* Mutation of SweepStep: the sweeper goes on without looking at the flag again.
SweepStep_Loops(s, budget) ==
    /\ s \in sweeping
    /\ stale' = stale - Swept(budget)
    /\ late' = IF deferred THEN late + Swept(budget) ELSE 0
    /\ UNCHANGED <<current, previous, epoch, arena, deferred, sweeping>>

\* ... and then takes the lock and counts, whatever the flag is by now.
SweepStep(s, budget) ==
    /\ s \in sweeping
    /\ stale' = stale - Swept(budget)
    /\ sweeping' = sweeping \ {s}
    /\ late' = IF deferred THEN late + Swept(budget) ELSE 0
    /\ UNCHANGED <<current, previous, epoch, arena, deferred>>

DeferSweeps(on) ==
    /\ deferred' = on
    /\ late' = IF deferred THEN late ELSE 0
    /\ UNCHANGED <<keys, arena, sweeping>>

-----------------------------------------------------------------------------
Sweep(s) == SweepAllowed(s) \/ \E b \in 1 .. Chunk + 1 : SweepStep(s, b)

Next ==
    \/ \E p \in Pages : SealPage(p) \/ OpenPage(p)
    \/ \E n \in 0 .. Cardinality(Pages) : Rotate(n)
    \/ \E s \in Sweepers : Sweep(s)
    \/ \E on \in BOOLEAN : DeferSweeps(on)

Spec == Init /\ [][Next]_vars

\* The idle loop of every processor keeps sweeping.
FairSpec == Spec /\ \A s \in Sweepers : WF_vars(Sweep(s))
-----------------------------------------------------------------------------
(* The inductive invariant *)

\* The two live keys are those of the epoch and of the one before it, and a
\* page remembers the epoch of the key that sealed it.
KeysInv ==
    /\ current = epoch
    /\ previous = IF epoch = 0 THEN None ELSE epoch - 1
    /\ \A p \in Pages : cipher[p] # Plain =>
          cipher[p].key = cipher[p].epoch /\ cipher[p].epoch <= epoch

-----------------------------------------------------------------------------
(* Properties *)

\* A sealed page opens while its key is current, and while the key is the
\* previous one and the rotation that replaced it is under way (vault.rs:94-97,
\* 218-219), whatever rotations and sweeps did meanwhile.  No page is ever tried
\* under a key other than its own.  Nothing is said of the previous key once the
\* sweep has ended, nor of pages that two rotations have passed over.
OpensDuringRotation ==
    \A p \in Pages : cipher[p] # Plain =>
        /\ \/ cipher[p].epoch = epoch
           \/ cipher[p].epoch + 1 = epoch /\ stale > 0
           => KeyFor(cipher[p].epoch) = cipher[p].key
        /\ KeyFor(cipher[p].epoch) \in {cipher[p].key, None}

\* open_page fails only for pages that two rotations have passed over.
FailsOnlyWhenScrubbed ==
    \A p \in failed : cipher[p] # Plain /\ cipher[p].epoch < epoch - 1

\* Deferring the sweeps (vault.rs:368) stops them: from then on each processor
\* counts at most the one chunk that was under way.
DeferralHolds == late <= Cardinality(Sweepers) * Chunk

\* Rotation completes when the count reaches zero (vault.rs:102-103): it does,
\* unless another rotation starts or Game Mode defers the sweeps again and
\* again.
SweepCompletes ==
    \A e \in 0 .. MaxEpoch :
        (epoch = e /\ stale > 0) ~> (epoch # e \/ stale = 0 \/ deferred)

\* Sweeps stop when they are deferred and finish when they are not.
SweepsStopOrFinish == [](TypeOK /\ DeferralHolds) /\ SweepCompletes

=============================================================================
