------------------------------ MODULE KeysProofs ----------------------------
(***************************************************************************)
(* Where keys are unlocked, used and deferred: the keys of an arena, for   *)
(* any number of pages, processors and rotations; the boot, for any        *)
(* images, memory map and number of power failures; the Game Mode sessions *)
(* for any topology, games and deaths.                                     *)
(***************************************************************************)
EXTENDS Vault, Boot, GameMode, Induction, SequenceTheorems, FiniteSetTheorems, TLAPS

(* The arena *)

VaultInv == TypeOK /\ KeysInv /\ FailsOnlyWhenScrubbed

LEMMA PageCount == Cardinality(Pages) \in Nat
  BY VaultAssumption, FS_CardinalityType

LEMMA VaultInit == Init => VaultInv
  <1> SUFFICES ASSUME Init PROVE VaultInv
    OBVIOUS
  <1> USE VaultAssumption, PageCount DEF Init, KeyIds
  <1>1. TypeOK
    <2>1. cipher \in [Pages -> [epoch : KeyIds, key : KeyIds] \cup {Plain}]
      OBVIOUS
    <2>2. /\ current \in KeyIds /\ epoch \in 0 .. MaxEpoch
          /\ previous \in KeyIds \cup {None}
          /\ stale \in 0 .. Cardinality(Pages)
      OBVIOUS
    <2> QED
      BY <2>1, <2>2 DEF TypeOK
  <1>2. KeysInv
    BY DEF KeysInv
  <1>3. FailsOnlyWhenScrubbed
    BY DEF FailsOnlyWhenScrubbed
  <1> QED
    BY <1>1, <1>2, <1>3 DEF VaultInv

\* Every step keeps the variables in their types.
LEMMA VaultTypeStep ==
    ASSUME VaultInv, [Next]_vars PROVE TypeOK'
  <1> USE VaultAssumption, PageCount DEF VaultInv, TypeOK, KeyIds, Plain, keys, arena
  <1>1. ASSUME NEW p \in Pages, SealPage(p) PROVE TypeOK'
    BY <1>1 DEF SealPage
  <1>2. ASSUME NEW p \in Pages, OpenPage(p) PROVE TypeOK'
    BY <1>2 DEF OpenPage
  <1>3. ASSUME NEW n \in 0 .. Cardinality(Pages), Rotate(n) PROVE TypeOK'
    BY <1>3 DEF Rotate
  <1>4. ASSUME NEW s \in Sweepers, SweepAllowed(s) PROVE TypeOK'
    BY <1>4 DEF SweepAllowed
  <1>5. ASSUME NEW s \in Sweepers, NEW b \in 1 .. Chunk + 1, SweepStep(s, b) PROVE TypeOK'
    <2>1. Swept(b) \in 0 .. stale
      BY DEF Swept
    <2> QED
      BY <1>5, <2>1 DEF SweepStep
  <1>6. ASSUME NEW on \in BOOLEAN, DeferSweeps(on) PROVE TypeOK'
    BY <1>6 DEF DeferSweeps
  <1>7. CASE UNCHANGED vars
    BY <1>7 DEF vars
  <1> QED
    BY <1>1, <1>2, <1>3, <1>4, <1>5, <1>6, <1>7 DEF Next, Sweep

\* Only sealing, opening and rotating touch the keys and the ciphertext.
LEMMA VaultKeysStep ==
    ASSUME VaultInv, [Next]_vars PROVE KeysInv' /\ FailsOnlyWhenScrubbed'
  <1> USE VaultAssumption
      DEF VaultInv, TypeOK, KeysInv, FailsOnlyWhenScrubbed, KeyIds, Plain, keys, arena
  <1>1. ASSUME NEW p \in Pages, SealPage(p) PROVE KeysInv' /\ FailsOnlyWhenScrubbed'
    BY <1>1 DEF SealPage
  <1>2. ASSUME NEW p \in Pages, OpenPage(p) PROVE KeysInv' /\ FailsOnlyWhenScrubbed'
    <2>1. CASE KeyFor(cipher[p].epoch) = cipher[p].key
      BY <1>2, <2>1 DEF OpenPage
    <2>2. CASE KeyFor(cipher[p].epoch) # cipher[p].key
      <3>1. cipher[p].epoch < epoch - 1
        BY <1>2, <2>2 DEF OpenPage, KeyFor
      <3> QED
        BY <1>2, <2>2, <3>1 DEF OpenPage
    <2> QED
      BY <2>1, <2>2
  <1>3. ASSUME NEW n \in 0 .. Cardinality(Pages), Rotate(n)
        PROVE  KeysInv' /\ FailsOnlyWhenScrubbed'
    BY <1>3 DEF Rotate
  <1>4. CASE UNCHANGED <<current, previous, epoch, arena>>
    BY <1>4
  <1> QED
    BY <1>1, <1>2, <1>3, <1>4 DEF Next, Sweep, SweepAllowed, SweepStep, DeferSweeps, vars

\* The two keys follow the epoch and the pages follow the keys.
THEOREM VaultInvariant == Spec => []VaultInv
  <1>1. VaultInv /\ [Next]_vars => VaultInv'
    BY VaultTypeStep, VaultKeysStep DEF VaultInv
  <1> QED
    BY VaultInit, <1>1, PTL DEF Spec

\* Every variable keeps its type: the count of stale pages never underflows.
THEOREM VaultTypeOK == Spec => []TypeOK
  BY VaultInvariant, PTL DEF VaultInv

\* A page sealed under the current key opens, and so does one sealed under the
\* previous key while the rotation that replaced it is under way; no page is ever
\* tried under another key than its own (vault.rs, open_page).
THEOREM VaultOpensDuringRotation == Spec => []OpensDuringRotation
  <1>1. VaultInv => OpensDuringRotation
    BY VaultAssumption
       DEF VaultInv, TypeOK, KeysInv, OpensDuringRotation, KeyFor, KeyIds, Plain
  <1> QED
    BY VaultInvariant, <1>1, PTL

\* open_page fails only for pages whose key was scrubbed.
THEOREM VaultFailsOnlyWhenScrubbed == Spec => []FailsOnlyWhenScrubbed
  BY VaultInvariant, PTL DEF VaultInv

-----------------------------------------------------------------------------
(* The boot *)

\* What the loader has passed, in the order of the manifest.
Passed(n) == {Images[k] : k \in 1 .. n}

\* How far a boot is, by the place in the program: the key comes after the loop
\* over the manifest, and the loop after the signature.
Progress ==
    /\ image \in Nat /\ image \in 1 .. Len(Images) + 1
    /\ passed = Passed(IF pc = "measure" THEN image ELSE image - 1)
    /\ pc = "measure" => image <= Len(Images)
    /\ pc \in {"image", "measure", "unlocked", "kernel"} => genuine
    /\ pc \in {"unlocked", "kernel"} => image = Len(Images) + 1
    /\ key => pc \in {"unlocked", "kernel"}
    /\ \A p \in passed : p \in Range(Images) /\ esp[p] = "signed"

\* The measurements of the images before the n-th.
Measured(n) ==
    /\ pcrs \in Seq(Range(Images) \X (Range(Images) \X {"signed"}))
    /\ \A k \in DOMAIN pcrs : /\ pcrs[k][2] = Manifest(pcrs[k][1])
                              /\ pcrs[k][1] \in passed
    /\ tpm = "works" => pcrs = [k \in 1 .. n - 1 |-> <<PcrOf(Images[k]), Manifest(Images[k])>>]

\* The seal goes before the screen changes, unless the TPM refuses; a TPM that
\* refuses goes on refusing until the next power-on, when the screen is blank.
Wiped == pc = "wiped" \/ screen = "tamper" => ~sealed \/ tpm = "fails"

BootInv == /\ DOMAIN esp = Range(Images)
           /\ Progress /\ Measured(image) /\ Wiped

LEMMA ImageFacts ==
    ASSUME BootAssumption
    PROVE  /\ Len(Images) \in Nat /\ DOMAIN Images = 1 .. Len(Images)
           /\ \A k \in 1 .. Len(Images) : Images[k] \in Range(Images)
           /\ Passed(Len(Images)) = Range(Images)
  BY DEF BootAssumption, Range, Passed

LEMMA SeqIsFunction ==
    ASSUME NEW S, NEW s \in Seq(S) PROVE s = [k \in DOMAIN s |-> s[k]]
  <1>1. PICK n \in Nat : s \in [1 .. n -> S]
    BY SeqDef
  <1> QED
    BY <1>1

LEMMA BootInit == BootAssumption /\ LoaderInit => BootInv
  <1> SUFFICES ASSUME BootAssumption, LoaderInit PROVE BootInv
    OBVIOUS
  <1> USE ImageFacts DEF LoaderInit, PowerOn
  <1>1. Progress
    BY DEF Progress, Passed
  <1>2. Measured(image)
    BY DEF Measured
  <1>3. Wiped
    BY DEF Wiped
  <1> QED
    BY <1>1, <1>2, <1>3 DEF BootInv

\* Whatever the loader does but read and measure images leaves what has passed.
LEMMA BootOther ==
    ASSUME BootAssumption, BootInv,
           \/ ProbeSlot \/ AuditMemory \/ LoadSignedManifest \/ UnlockRootVolume
           \/ BootKernel \/ WipeSealedKeys \/ HaltTamper \/ TpmFails \/ UNCHANGED loaderVars
    PROVE  BootInv'
  <1> USE ImageFacts DEF BootInv, Progress, Measured, Wiped, Passed,
                         machine, disk, output
  <1>1. CASE ProbeSlot
    BY <1>1 DEF ProbeSlot
  <1>2. CASE AuditMemory
    BY <1>2 DEF AuditMemory, HaltMemoryFault
  <1>3. CASE LoadSignedManifest
    BY <1>3 DEF LoadSignedManifest
  <1>4. CASE UnlockRootVolume
    BY <1>4 DEF UnlockRootVolume
  <1>5. CASE BootKernel
    BY <1>5 DEF BootKernel
  <1>6. CASE WipeSealedKeys
    BY <1>6 DEF WipeSealedKeys
  <1>7. CASE HaltTamper
    BY <1>7 DEF HaltTamper
  <1>8. CASE TpmFails
    BY <1>8 DEF TpmFails
  <1>9. CASE UNCHANGED loaderVars
    BY <1>9 DEF loaderVars
  <1> QED
    BY <1>1, <1>2, <1>3, <1>4, <1>5, <1>6, <1>7, <1>8, <1>9

LEMMA BootReads ==
    ASSUME BootAssumption, BootInv, ReadAndVerify PROVE BootInv'
  <1> USE ImageFacts DEF BootInv, ReadAndVerify, machine, disk, output
  <1> DEFINE p == Images[image]
  <1>1. CASE VerifyImage(p)
    <2>1. p \in Range(Images) /\ esp[p] = "signed"
      BY <1>1 DEF VerifyImage, Digest, Manifest, Progress
    <2>2. passed' = Passed(image)
      BY <1>1 DEF Progress, Passed
    <2> QED
      BY <1>1, <2>1, <2>2 DEF Progress, Measured, Wiped
  <1>2. CASE ~VerifyImage(p)
    BY <1>2 DEF Progress, Measured, Wiped
  <1> QED
    BY <1>1, <1>2

LEMMA BootMeasures ==
    ASSUME BootAssumption, BootInv, Measure PROVE BootInv'
  <1> USE ImageFacts DEF BootInv, Measure, machine, disk, output
  <1> DEFINE p == Images[image]
             m == <<PcrOf(p), Manifest(p)>>
  <1>1. Progress' /\ Wiped'
    BY DEF Progress, Wiped, Passed
  <1>2. p \in passed /\ Extended = Append(pcrs, m)
    BY DEF Progress, Passed, Extended, Digest, Manifest
  <1>3. m \in Range(Images) \X (Range(Images) \X {"signed"})
    BY DEF Progress, Manifest, Digest, PcrOf
  <1>4. CASE tpm = "works"
    <2>1. /\ pcrs' = Append(pcrs, m) /\ passed' = passed /\ image' = image + 1
          /\ image \in Nat /\ image >= 1
      BY <1>2, <1>4 DEF Progress
    <2>2. pcrs = [k \in 1 .. image - 1 |-> <<PcrOf(Images[k]), Manifest(Images[k])>>]
      BY <1>4 DEF Measured
    <2>3. pcrs \in Seq(Range(Images) \X (Range(Images) \X {"signed"}))
      BY DEF Measured
    <2>4. Len(pcrs) = image - 1 /\ DOMAIN pcrs = 1 .. image - 1
      BY <2>1, <2>2, <2>3
    <2> DEFINE M == Range(Images) \X (Range(Images) \X {"signed"})
    <2>5. /\ pcrs' \in Seq(M) /\ DOMAIN pcrs' = 1 .. image
          /\ \A k \in 1 .. image - 1 : pcrs'[k] = pcrs[k]
          /\ pcrs'[image] = m
      <3>1. pcrs \in Seq(M) /\ m \in M
        BY <1>3, <2>3
      <3> HIDE DEF M, m
      <3>2. /\ Append(pcrs, m) \in Seq(M)
            /\ Len(Append(pcrs, m)) = Len(pcrs) + 1
            /\ \A k \in 1 .. Len(pcrs) : Append(pcrs, m)[k] = pcrs[k]
            /\ Append(pcrs, m)[Len(pcrs) + 1] = m
        BY <3>1, AppendProperties
      <3> QED
        BY <2>1, <2>4, <3>2
    <2>6. \A k \in DOMAIN pcrs' : pcrs'[k][2] = Manifest(pcrs'[k][1]) /\ pcrs'[k][1] \in passed'
      <3>1. ASSUME NEW k \in 1 .. image
            PROVE  pcrs'[k][2] = Manifest(pcrs'[k][1]) /\ pcrs'[k][1] \in passed'
        <4>1. CASE k = image
          BY <1>2, <2>1, <2>5, <4>1 DEF PcrOf
        <4>2. CASE k # image
          <5>1. k \in 1 .. image - 1
            BY <2>1, <4>2
          <5>2. k \in DOMAIN pcrs /\ pcrs'[k] = pcrs[k]
            BY <2>4, <2>5, <5>1
          <5> QED
            BY <2>1, <5>2 DEF Measured
        <4> QED
          BY <4>1, <4>2
      <3> QED
        BY <2>5, <3>1
    <2>7. pcrs' = [k \in 1 .. image |-> <<PcrOf(Images[k]), Manifest(Images[k])>>]
      <3> DEFINE F == [k \in 1 .. image |-> <<PcrOf(Images[k]), Manifest(Images[k])>>]
      <3>1. \A k \in 1 .. image : pcrs'[k] = F[k]
        <4>1. F[image] = m
          BY <2>1
        <4>2. ASSUME NEW k \in 1 .. image - 1 PROVE pcrs[k] = F[k]
          BY <2>1, <2>2, <4>2
        <4>3. \A k \in 1 .. image : k = image \/ k \in 1 .. image - 1
          BY <2>1
        <4> HIDE DEF F, m
        <4> QED
          BY <2>5, <4>1, <4>2, <4>3
      <3>2. pcrs' = [k \in 1 .. image |-> pcrs'[k]]
        <4>1. pcrs' \in Seq(M) /\ DOMAIN pcrs' = 1 .. image
          BY <2>5
        <4> HIDE DEF M
        <4> QED
          BY <4>1, SeqIsFunction
      <3> HIDE DEF F
      <3>3. F = [k \in 1 .. image |-> F[k]]
        BY DEF F
      <3> QED
        BY <3>1, <3>2, <3>3 DEF F
    <2>8. Measured(image)'
      BY <2>1, <2>5, <2>6, <2>7 DEF Measured
    <2> QED
      BY <1>1, <2>8 DEF Measured
  <1>5. CASE tpm # "works"
    BY <1>1, <1>5 DEF Measured
  <1> QED
    BY <1>4, <1>5

\* Power-on forgets the boot; the disk may be another, of which nothing passed.
LEMMA BootRestarts ==
    ASSUME BootAssumption, BootInv, Restart PROVE BootInv'
  <1> USE ImageFacts DEF BootInv, Restart, machine
  <1>1. DOMAIN esp' = Range(Images)
    OBVIOUS
  <1>2. Progress'
    BY DEF Progress, Passed
  <1>3. Measured(image)'
    BY DEF Measured
  <1>4. Wiped'
    BY DEF Wiped
  <1> QED
    BY <1>1, <1>2, <1>3, <1>4

LEMMA BootStep == BootAssumption /\ BootInv /\ [LoaderNext]_loaderVars => BootInv'
  BY BootOther, BootReads, BootMeasures, BootRestarts DEF LoaderNext, Loader

LEMMA BootGuards == BootAssumption /\ BootInv => KeysGuarded
  <1> SUFFICES ASSUME BootAssumption, BootInv PROVE KeysGuarded
    OBVIOUS
  <1> USE ImageFacts DEF BootInv
  <1>1. KeyOnlyAfterAttestation
    BY DEF Progress, KeyOnlyAfterAttestation
  <1>2. PcrsDescribeTheBoot
    BY DEF PcrsDescribeTheBoot, Measured, Progress
  <1>3. WipedBeforeDrawn
    BY DEF Wiped, WipedBeforeDrawn
  <1> QED
    BY <1>1, <1>2, <1>3 DEF KeysGuarded

\* For any manifest, any modules and any number of power failures: the volume key
\* is in memory only behind a genuine manifest whose images all passed, the seal
\* is gone before the tamper screen, and the PCRs hold the manifest's measurements
\* in its order (main.rs:11-15, 112-113).
THEOREM BootKeysGuarded == BootAssumption /\ LoaderSpec => []KeysGuarded
  <1>1. ASSUME BootAssumption PROVE LoaderSpec => []KeysGuarded
    <2>1. LoaderInit => BootInv
      BY <1>1, BootInit
    <2>2. BootInv /\ [LoaderNext]_loaderVars => BootInv'
      BY <1>1, BootStep
    <2>3. BootInv => KeysGuarded
      BY <1>1, BootGuards
    <2> QED
      BY <2>1, <2>2, <2>3, PTL DEF LoaderSpec
  <1> QED
    BY <1>1

-----------------------------------------------------------------------------
(* Game Mode: which cores *)

\* What an allocation may be: core 0 is not in it, it is as large as asked for or
\* one larger, and it takes siblings together.
Shaped(cores, count) ==
    /\ cores \subseteq Cores \ {0} /\ Cardinality(cores) <= count + 1
    /\ \A c \in cores : Sibling[c] \in cores \cup {0}

\* Core 0 and its sibling are left out, siblings go together, and the fraction
\* holds.
Tight(cores) ==
    /\ 0 \notin cores /\ Sibling[0] \notin cores
    /\ Cardinality(cores) <= MaxCores
    /\ \A c \in cores : Sibling[c] \in cores

\* Every core has a sibling.
Paired == \A c \in Cores : Sibling[c] # c

\* What i looks take of cores that come in pairs: whole pairs, and all that were
\* looked at but those of core 0, or as many as asked for.
Looked(cores, count, i) ==
    /\ \E k \in Nat : Cardinality(cores) = 2 * k
    /\ \/ Cardinality(cores) >= count
       \/ \A c \in Cores \ {0, Sibling[0]} : c >= Total - i => c \in cores

\* Sets of cores are finite.
LEMMA CoresFinite ==
    ASSUME NEW cores \in SUBSET Cores
    PROVE  IsFiniteSet(cores) /\ Cardinality(cores) \in Nat
  <1>1. IsFiniteSet(0 .. Total - 1)
    BY FS_Interval, GameModeAssumption
  <1>2. IsFiniteSet(cores)
    BY <1>1, FS_Subset DEF Cores
  <1> QED
    BY <1>2, FS_CardinalityType

\* The loop's body adds a core and its sibling, and only below the count.
LEMMA TakeKeeps ==
    ASSUME NEW count \in Nat, NEW cores, Shaped(cores, count), NEW c \in 1 .. Total - 1
    PROVE  Shaped(Take(cores, count, c), count)
  <1> DEFINE n == Cardinality(cores)
             r == cores \cup {c} \cup ({Sibling[c]} \ {0})
  <1>1. c \in Cores \ {0} /\ Sibling[c] \in Cores /\ Sibling[Sibling[c]] = c
    BY GameModeAssumption DEF Cores
  <1>2. IsFiniteSet(cores) /\ n \in Nat /\ cores \in SUBSET Cores
    BY CoresFinite DEF Shaped
  <1>3. CASE n >= count \/ c \in cores
    BY <1>3 DEF Take
  <1>4. CASE ~(n >= count \/ c \in cores)
    <2>1. Take(cores, count, c) = r
      BY <1>4 DEF Take
    <2>2. IsFiniteSet(cores \cup {c}) /\ Cardinality(cores \cup {c}) = n + 1
      BY <1>2, <1>4, FS_AddElement
    <2>3. IsFiniteSet((cores \cup {c}) \cup {Sibling[c]})
          /\ Cardinality((cores \cup {c}) \cup {Sibling[c]}) <= n + 2
      <3>1. \/ Cardinality((cores \cup {c}) \cup {Sibling[c]}) = n + 1
            \/ Cardinality((cores \cup {c}) \cup {Sibling[c]}) = (n + 1) + 1
        BY <2>2, FS_AddElement
      <3> QED
        BY <1>2, <2>2, <3>1, FS_AddElement
    <2>4. r \subseteq (cores \cup {c}) \cup {Sibling[c]}
      OBVIOUS
    <2>5. Cardinality(r) <= n + 2 /\ Cardinality(r) \in Nat
      <3>1. Cardinality(r) <= Cardinality((cores \cup {c}) \cup {Sibling[c]})
        BY <2>3, <2>4, FS_Subset
      <3>2. /\ r \in SUBSET Cores
            /\ (cores \cup {c}) \cup {Sibling[c]} \in SUBSET Cores
        BY <1>1, <1>2
      <3>3. /\ Cardinality(r) \in Nat
            /\ Cardinality((cores \cup {c}) \cup {Sibling[c]}) \in Nat
        BY <3>2, CoresFinite
      <3> QED
        BY <1>2, <2>3, <3>1, <3>3
    <2>6. Cardinality(r) <= count + 1
      BY <1>2, <1>4, <2>5
    <2>7. r \subseteq Cores \ {0}
      BY <1>1 DEF Shaped
    <2>8. ASSUME NEW d \in r PROVE Sibling[d] \in r \cup {0}
      BY <1>1, <2>8 DEF Shaped
    <2> QED
      BY <2>1, <2>6, <2>7, <2>8 DEF Shaped
  <1> QED
    BY <1>3, <1>4

\* There is at least one core.
LEMMA MaxCoresIsNatural == MaxCores \in Nat
  BY GameModeAssumption DEF MaxCores

\* Where siblings are the cores themselves, a look takes one core.
LEMMA TakeAlone ==
    ASSUME NEW count \in Nat, count <= MaxCores, NEW cores, Shaped(cores, count),
           Tight(cores), \A c \in Cores : Sibling[c] = c, NEW c \in 1 .. Total - 1
    PROVE  Tight(Take(cores, count, c))
  <1> DEFINE n == Cardinality(cores)
  <1>1. c \in Cores \ {0} /\ Sibling[c] = c /\ 0 \in Cores /\ Sibling[0] = 0
    BY GameModeAssumption DEF Cores
  <1>2. IsFiniteSet(cores) /\ n \in Nat /\ cores \in SUBSET Cores /\ MaxCores \in Nat
    BY CoresFinite, MaxCoresIsNatural DEF Shaped
  <1>3. CASE n >= count \/ c \in cores
    BY <1>3 DEF Take
  <1>4. CASE ~(n >= count \/ c \in cores)
    <2>1. Take(cores, count, c) = cores \cup {c}
      BY <1>1, <1>4 DEF Take
    <2>2. Cardinality(cores \cup {c}) = n + 1
      BY <1>2, <1>4, FS_AddElement
    <2>3. n + 1 <= MaxCores
      BY <1>2, <1>4
    <2>4. \A d \in cores \cup {c} : Sibling[d] \in cores \cup {c}
      BY <1>1 DEF Tight
    <2>5. 0 \notin cores \cup {c}
      BY <1>1 DEF Tight
    <2> QED
      BY <1>1, <2>1, <2>2, <2>3, <2>4, <2>5 DEF Tight
  <1> QED
    BY <1>3, <1>4

\* Where cores come in pairs, a look takes a pair, and never that of core 0: by then
\* there are enough.
LEMMA TakePair ==
    ASSUME NEW count \in Nat, count <= MaxCores, NEW cores, Shaped(cores, count),
           Tight(cores), PairsFit, Paired, NEW i \in Nat, i + 1 \in 1 .. Total - 1,
           Looked(cores, count, i)
    PROVE  /\ Tight(Take(cores, count, Total - (i + 1)))
           /\ Looked(Take(cores, count, Total - (i + 1)), count, i + 1)
  <1> DEFINE n == Cardinality(cores)
             c == Total - (i + 1)
             s == Sibling[c]
             rest == Cores \ {0, Sibling[0]}
  <1>1. /\ c \in Cores \ {0} /\ s \in Cores /\ Sibling[s] = c /\ s # c
        /\ 0 \in Cores /\ Sibling[0] \in Cores /\ Sibling[0] # 0
        /\ Sibling[Sibling[0]] = 0 /\ Total \in Nat
    BY GameModeAssumption DEF Cores, Paired
  <1>2. IsFiniteSet(cores) /\ n \in Nat /\ cores \in SUBSET Cores /\ MaxCores \in Nat
    BY CoresFinite, MaxCoresIsNatural DEF Shaped
  <1>3. /\ \A d \in rest : d > Sibling[0] \/ Sibling[d] > Sibling[0]
        /\ MaxCores % 2 = 0 /\ MaxCores <= Total - 2
    BY <1>1 DEF PairsFit, Paired
  <1>4. PICK k \in Nat : n = 2 * k
    BY DEF Looked
  <1>5. CASE n >= count
    <2>1. Take(cores, count, c) = cores
      BY <1>5 DEF Take
    <2> QED
      BY <1>5, <2>1 DEF Looked
  <1>6. CASE ~(n >= count) /\ c \in cores
    <2>1. Take(cores, count, c) = cores
      BY <1>6 DEF Take
    <2>2. \A d \in rest : d >= Total - (i + 1) => d = c \/ d >= Total - i
      BY <1>1 DEF Cores
    <2>3. \A d \in rest : d >= Total - (i + 1) => d \in cores
      BY <1>6, <2>2 DEF Looked
    <2> QED
      BY <2>1, <2>3 DEF Looked
  <1>7. CASE ~(n >= count) /\ c \notin cores
    <2>1. \A d \in rest : d >= Total - i => d \in cores
      BY <1>7 DEF Looked
    <2>2. c # Sibling[0]
      <3> SUFFICES ASSUME c = Sibling[0] PROVE FALSE
        OBVIOUS
      <3>1. ASSUME NEW d \in rest PROVE d \in cores
        <4>1. Sibling[d] \in rest /\ Sibling[Sibling[d]] = d
          BY <1>1, GameModeAssumption
        <4>2. \A e \in rest : e > Sibling[0] => e >= Total - i
          BY <1>1 DEF Cores
        <4>3. d \in cores \/ Sibling[d] \in cores
          BY <1>3, <2>1, <4>1, <4>2
        <4> QED
          BY <4>1, <4>3 DEF Tight
      <3>2. IsFiniteSet(Cores) /\ Cardinality(Cores) = Total
        <4>1. Total - 1 \in Int /\ ~(0 > Total - 1) /\ (Total - 1) - 0 + 1 = Total
          BY GameModeAssumption
        <4>2. /\ IsFiniteSet(0 .. Total - 1)
              /\ Cardinality(0 .. Total - 1)
                 = IF 0 > Total - 1 THEN 0 ELSE (Total - 1) - 0 + 1
          BY <4>1, FS_Interval
        <4> QED
          BY <4>1, <4>2 DEF Cores
      <3>3. IsFiniteSet(Cores \ {0}) /\ Cardinality(Cores \ {0}) = Total - 1
        BY <1>1, <3>2, FS_RemoveElement
      <3>4. /\ IsFiniteSet((Cores \ {0}) \ {Sibling[0]})
            /\ Cardinality((Cores \ {0}) \ {Sibling[0]}) = (Total - 1) - 1
        BY <1>1, <3>3, FS_RemoveElement
      <3>5. (Cores \ {0}) \ {Sibling[0]} \subseteq cores
        BY <3>1
      <3>6. (Total - 1) - 1 <= n
        BY <1>2, <3>4, <3>5, FS_Subset
      <3> QED
        BY <1>1, <1>2, <1>3, <1>7, <3>6
    <2>3. s # 0 /\ s \notin cores /\ s # Sibling[0]
      BY <1>1, <1>7, <2>2 DEF Tight
    <2>4. Take(cores, count, c) = (cores \cup {c}) \cup {s}
      BY <1>7, <2>3 DEF Take
    <2>5. IsFiniteSet(cores \cup {c}) /\ Cardinality(cores \cup {c}) = n + 1
      BY <1>2, <1>7, FS_AddElement
    <2>6. s \notin cores \cup {c}
      BY <1>1, <2>3
    <2>7. Cardinality((cores \cup {c}) \cup {s}) = (n + 1) + 1
      BY <2>5, <2>6, FS_AddElement
    <2>8. (n + 1) + 1 = 2 * (k + 1) /\ k + 1 \in Nat
      BY <1>4
    <2>9. (n + 1) + 1 <= MaxCores
      BY <1>2, <1>3, <1>4, <1>7
    <2>10. \A d \in (cores \cup {c}) \cup {s} : Sibling[d] \in (cores \cup {c}) \cup {s}
      BY <1>1 DEF Tight
    <2>11. 0 \notin (cores \cup {c}) \cup {s} /\ Sibling[0] \notin (cores \cup {c}) \cup {s}
      BY <1>1, <2>2, <2>3 DEF Tight
    <2>12. \A d \in rest : d >= Total - (i + 1) => d = c \/ d >= Total - i
      BY <1>1 DEF Cores
    <2>13. \A d \in rest : d >= Total - (i + 1) => d \in (cores \cup {c}) \cup {s}
      BY <2>1, <2>12
    <2>14. Tight((cores \cup {c}) \cup {s})
      BY <2>7, <2>9, <2>10, <2>11 DEF Tight
    <2>15. Looked((cores \cup {c}) \cup {s}, count, i + 1)
      BY <2>7, <2>8, <2>13 DEF Looked
    <2> QED
      BY <2>4, <2>14, <2>15
  <1> QED
    BY <1>5, <1>6, <1>7

\* What i looks take of a topology that goes with the fraction.
Fits(cores, count, i) ==
    PairsFit /\ count <= MaxCores => Tight(cores) /\ (Paired => Looked(cores, count, i))

LEMMA TakeFits ==
    ASSUME NEW count \in Nat, NEW cores, Shaped(cores, count), NEW i \in Nat,
           i + 1 \in 1 .. Total - 1, Fits(cores, count, i)
    PROVE  Fits(Take(cores, count, Total - (i + 1)), count, i + 1)
  <1>1. Total - (i + 1) \in 1 .. Total - 1
    BY GameModeAssumption
  <1> SUFFICES ASSUME PairsFit, count <= MaxCores
               PROVE  /\ Tight(Take(cores, count, Total - (i + 1)))
                      /\ Paired => Looked(Take(cores, count, Total - (i + 1)), count, i + 1)
    BY DEF Fits
  <1>2. CASE Paired
    BY <1>2, TakePair DEF Fits
  <1>3. CASE ~Paired
    <2>1. \A c \in Cores : Sibling[c] = c
      BY <1>3 DEF PairsFit, Paired
    <2>2. Tight(Take(cores, count, Total - (i + 1)))
      BY <1>1, <2>1, TakeAlone DEF Fits
    <2> QED
      BY <1>3, <2>2
  <1> QED
    BY <1>2, <1>3

\* The loop of allocate_physical_cores keeps the shape from look to look.
LEMMA AllocationShaped ==
    ASSUME NEW count \in Nat
    PROVE  /\ Shaped(AllocatePhysicalCores(count), count)
           /\ PairsFit /\ count <= MaxCores => Tight(AllocatePhysicalCores(count))
  <1> DEFINE n == Total - 1
             S == SUBSET Cores
             step == [p \in (1 .. n) \X S |-> Take(p[2], count, Total - p[1])]
             Defines(f) == f = [i \in 0 .. n |->
                                  IF i = 0 THEN {} ELSE Take(f[i - 1], count, Total - i)]
             taken == CHOOSE f : Defines(f)
  <1>1. n \in Nat /\ \A i \in 1 .. n : Total - i \in 1 .. Total - 1 /\ i - 1 \in 0 .. n
    BY GameModeAssumption
  <1>2. step \in [(1 .. n) \X S -> S]
    BY <1>1, GameModeAssumption DEF Take, Cores
  <1>3. \E f \in [0 .. n -> S] : Unfolds(f, n, {}, step)
    <2>1. {} \in S
      OBVIOUS
    <2> HIDE DEF step, S, n
    <2> QED
      BY <1>1, <1>2, <2>1, PrimitiveRecursion
  <1>4. \E f : Defines(f)
    <2>1. PICK f \in [0 .. n -> S] :
              f[0] = {} /\ \A i \in 1 .. n : f[i] = step[<<i, f[i - 1]>>]
      BY <1>3 DEF Unfolds
    <2>2. \A i \in 1 .. n : f[i - 1] \in S
      BY <1>1
    <2>3. \A i \in 1 .. n : f[i] = Take(f[i - 1], count, Total - i)
      BY <2>1, <2>2
    <2>4. Defines(f)
      <3> HIDE DEF n
      <3>1. \A i \in 0 .. n :
                f[i] = IF i = 0 THEN {} ELSE Take(f[i - 1], count, Total - i)
        BY <1>1, <2>1, <2>3
      <3> QED
        BY <3>1
    <2> QED
      BY <2>4
  <1>5. Defines(taken)
    <2> HIDE DEF Defines
    <2> QED
      BY <1>4
  <1>6. AllocatePhysicalCores(count) = taken[n]
    BY DEF AllocatePhysicalCores
  <1> HIDE DEF taken
  <1>7. /\ taken[0] = {}
        /\ \A i \in 1 .. n : taken[i] = Take(taken[i - 1], count, Total - i)
    <2> HIDE DEF n
    <2>1. \A i \in 0 .. n :
              taken[i] = IF i = 0 THEN {} ELSE Take(taken[i - 1], count, Total - i)
      <3> DEFINE F(i) == IF i = 0 THEN {} ELSE Take(taken[i - 1], count, Total - i)
      <3>1. taken = [i \in 0 .. n |-> F(i)]
        BY <1>5
      <3> HIDE DEF F
      <3>2. \A i \in 0 .. n : taken[i] = F(i)
        BY <3>1
      <3> QED
        BY <3>2 DEF F
    <2>2. 0 \in 0 .. n /\ \A i \in 1 .. n : i \in 0 .. n /\ i # 0
      BY <1>1
    <2> QED
      BY <2>1, <2>2
  <1> DEFINE T == {i \in Nat : i <= n => Shaped(taken[i], count) /\ Fits(taken[i], count, i)}
  <1>8. 0 \in T
    <2>1. taken[0] = {} /\ Cardinality({}) = 0 /\ 0 = 2 * 0
      BY <1>7, FS_EmptySet
    <2>2. Shaped(taken[0], count)
      BY <2>1 DEF Shaped
    <2>3. Tight(taken[0])
      BY <2>1, MaxCoresIsNatural DEF Tight
    <2>4. \A c \in Cores : ~(c >= Total - 0)
      BY GameModeAssumption DEF Cores
    <2>5. Looked(taken[0], count, 0)
      BY <2>1, <2>4 DEF Looked
    <2> QED
      BY <2>2, <2>3, <2>5 DEF Fits
  <1>9. ASSUME NEW i \in Nat, i \in T PROVE i + 1 \in T
    <2> SUFFICES ASSUME i + 1 <= n
                 PROVE  Shaped(taken[i + 1], count) /\ Fits(taken[i + 1], count, i + 1)
      OBVIOUS
    <2>4. i + 1 \in 1 .. Total - 1
      BY GameModeAssumption
    <2> HIDE DEF n
    <2>1. i + 1 \in 1 .. n /\ i <= n /\ (i + 1) - 1 = i
      BY <1>1
    <2>2. taken[i + 1] = Take(taken[i], count, Total - (i + 1))
      BY <1>7, <2>1
    <2>3. /\ Shaped(taken[i], count) /\ Fits(taken[i], count, i)
          /\ Total - (i + 1) \in 1 .. Total - 1
      BY <1>1, <1>9, <2>1
    <2> QED
      BY <2>2, <2>3, <2>4, TakeKeeps, TakeFits
  <1>10. n \in T
    <2> HIDE DEF T
    <2>1. Nat \subseteq T
      BY <1>8, <1>9, SetInduction
    <2> QED
      BY <1>1, <2>1
  <1> QED
    BY <1>1, <1>6, <1>10 DEF Fits

-----------------------------------------------------------------------------
(* Game Mode: masks, for any number of managers *)

Bounded(cores) ==
    /\ cores \subseteq Cores \ {0} /\ Cardinality(cores) <= MaxCores + 1
    /\ \A c \in cores : Sibling[c] \in cores \cup {0}
    /\ PairsFit => Tight(cores)

\* What a manager is about to store is as bounded as what is stored.
MasksInv ==
    /\ want \in [Managers -> [game : Games \cup {NoPid}, cores : SUBSET Cores]]
    /\ \A m \in Managers : Bounded(want[m].cores)
    /\ Bounded(mask)

\* No core is a bounded mask ...
LEMMA NothingIsBounded == Bounded({})
  BY MaxCoresIsNatural, FS_EmptySet DEF Bounded, Tight

\* ... and so is what an entry that was granted gets.
LEMMA GrantIsBounded ==
    ASSUME NEW n \in 0 .. Total, n <= MaxCores
    PROVE  Bounded(AllocatePhysicalCores(n))
  <1> DEFINE a == AllocatePhysicalCores(n)
  <1>1. Shaped(a, n) /\ n \in Nat /\ (PairsFit => Tight(a))
    BY AllocationShaped
  <1>2. a \in SUBSET Cores
    BY <1>1 DEF Shaped
  <1>3. Cardinality(a) \in Nat
    BY <1>2, CoresFinite
  <1>4. Cardinality(a) <= MaxCores + 1
    BY <1>1, <1>3, MaxCoresIsNatural DEF Shaped
  <1> QED
    BY <1>1, <1>4 DEF Shaped, Bounded

\* Nothing is isolated at first.
LEMMA MasksInit == SessionInit => MasksInv
  <1> SUFFICES ASSUME SessionInit PROVE MasksInv
    OBVIOUS
  <1>1. /\ want \in [Managers -> [game : Games \cup {NoPid}, cores : SUBSET Cores]]
        /\ \A m \in Managers : want[m].cores = {}
        /\ mask = {}
    BY DEF SessionInit
  <1> QED
    BY <1>1, NothingIsBounded DEF MasksInv

\* Masks come from grants.
LEMMA MasksStep == MasksInv /\ [SessionNext]_sessionVars => MasksInv'
  <1> SUFFICES ASSUME MasksInv, [SessionNext]_sessionVars PROVE MasksInv'
    OBVIOUS
  <1>1. CASE UNCHANGED <<mask, want>>
    BY <1>1 DEF MasksInv, Bounded, Tight, PairsFit, Cores, MaxCores
  <1>2. ASSUME NEW m \in Managers, StoreMask(m) PROVE MasksInv'
    BY <1>2 DEF StoreMask, Storing, MasksInv, Bounded, Tight, PairsFit, Cores, MaxCores
  <1>3. ASSUME NEW a \in Actors, ClearMask(a) PROVE MasksInv'
    <2>1. mask' = {} /\ want' = want
      BY <1>3 DEF ClearMask, Storing
    <2> QED
      BY <2>1, NothingIsBounded DEF MasksInv, Bounded, Tight, PairsFit, Cores, MaxCores
  <1>4. ASSUME NEW m \in Managers, NEW g \in Games, NEW n \in 0 .. Total,
               EnterGranted(m, g, n)
        PROVE  MasksInv'
    <2> DEFINE a == AllocatePhysicalCores(n)
    <2>1. /\ want' = [want EXCEPT ![m] = [game |-> g, cores |-> a]] /\ mask' = mask
          /\ n <= MaxCores
      BY <1>4 DEF EnterGranted, kernel
    <2>2. Bounded(a) /\ a \in SUBSET Cores
      BY <2>1, GrantIsBounded DEF Bounded
    <2> HIDE DEF a
    <2>3. want' \in [Managers -> [game : Games \cup {NoPid}, cores : SUBSET Cores]]
      BY <2>1, <2>2 DEF MasksInv
    <2>4. Bounded(mask') /\ \A o \in Managers : Bounded(want'[o].cores)
      BY <2>1, <2>2 DEF MasksInv
    <2> QED
      BY <2>3, <2>4 DEF MasksInv, Bounded, Tight, PairsFit, Cores, MaxCores
  <1>5. ASSUME NEW a \in Actors,
               \/ ClearActive(a) \/ ClearOwner(a) \/ ResumeSweeps(a)
               \/ WidenBackground(a) \/ Calm(a)
        PROVE  UNCHANGED <<mask, want>>
    BY <1>5 DEF ClearActive, ClearOwner, ResumeSweeps, WidenBackground, Calm, Storing
  <1>6. ASSUME NEW m \in Managers,
               \/ LeaveGranted(m) \/ StoreOwner(m) \/ StoreActive(m) \/ MigrateOff(m)
               \/ Defer(m) \/ NarrowBackground(m) \/ Boost(m)
        PROVE  UNCHANGED <<mask, want>>
    BY <1>6 DEF LeaveGranted, StoreOwner, StoreActive, MigrateOff, Defer,
                NarrowBackground, Boost, Storing, kernel
  <1>7. CASE \/ WatchdogSees \/ WatchdogReads \/ WatchdogJudges
             \/ \E g \in Games : Die(g)
             \/ UNCHANGED sessionVars
    BY <1>1, <1>7 DEF WatchdogSees, WatchdogReads, WatchdogJudges, Die, kernel, sessionVars
  <1> QED
    BY <1>1, <1>2, <1>3, <1>4, <1>5, <1>6, <1>7
    DEF SessionNext, Decide, EnterStore, ClearStore, Tick, Actors

\* gamemode.rs:44-47: core 0 is never isolated, for any topology, number of cores
\* and of managers, and the fraction is exceeded by one core at most.
THEOREM SessionKeepsCoreZero ==
    SessionSpec => [](0 \notin mask /\ Cardinality(mask) <= MaxCores + 1)
  <1>1. MasksInv => 0 \notin mask /\ Cardinality(mask) <= MaxCores + 1
    BY DEF MasksInv, Bounded
  <1> QED
    BY <1>1, MasksInit, MasksStep, PTL DEF SessionSpec

\* gamemode.rs:44-56, 114-118 for any number of cores and of managers, where the
\* fraction is of whole pairs: the run core_fraction shows a topology where it is not.
THEOREM SessionIsolationBounded ==
    ASSUME PairsFit PROVE SessionSpec => []IsolationBounded
  <1>1. MasksInv => IsolationBounded
    BY DEF MasksInv, Bounded, Tight, IsolationBounded
  <1> QED
    BY <1>1, MasksInit, MasksStep, PTL DEF SessionSpec

-----------------------------------------------------------------------------
(* Game Mode: sessions, for one manager *)

\* What the k-th store of a clean-up leaves behind.
Off(k) ==
    /\ k = 1 => ~active
    /\ k = 2 => mask = {}
    /\ k = 3 => owner = NoPid
    /\ k = 4 => ~sweepsDeferred
    /\ k = 5 => affinity = Cores
    /\ k = 6 => ~boosted

\* The state when an entry of m has made its stores before the i-th.
Entered(m, i) ==
    /\ want[m].game \in Games
    /\ mask = IF i > 1 THEN want[m].cores ELSE {}
    /\ owner = IF i > 2 THEN want[m].game ELSE NoPid
    /\ IF i > 3 THEN active ELSE ~active
    /\ IF i > 5 THEN sweepsDeferred ELSE ~sweepsDeferred
    /\ affinity = IF i > 6 THEN Cores \ want[m].cores ELSE Cores
    /\ IF i > 7 THEN boosted ELSE ~boosted

\* Actor a cleans up and has made the k-th store.
Past(a, k) == \E i \in k + 1 .. 6 : todo[a] = From(ClearStores, i)

\* Lists of stores are what is left of the two, and the watchdog only cleans up.
ListsInv(m) ==
    /\ want \in [Managers -> [game : Games \cup {NoPid}, cores : SUBSET Cores]]
    /\ todo = [a \in Actors |-> todo[a]]
    /\ \/ \E i \in 1 .. 8 : todo[m] = From(EnterStores, i)
       \/ \E i \in 1 .. 7 : todo[m] = From(ClearStores, i)
    /\ \E i \in 1 .. 7 : todo[Watchdog] = From(ClearStores, i)
    /\ todo[Watchdog] = <<>> <=> tick # "clearing"

\* An entry that nobody crosses makes the session store by store; a clean-up leaves
\* off what it has passed, whoever else cleans up; and between calls all is on or
\* all is off.
StoresInv(m) ==
    /\ \A i \in 1 .. 7 :
           todo[m] = From(EnterStores, i) => tick # "clearing" /\ Entered(m, i)
    /\ ~Entering(m) =>
           /\ active => Described
           /\ \A a \in Actors, k \in 1 .. 5 : Past(a, k) => Off(k)
    /\ Idle(m) /\ tick # "clearing" => Entered(m, 8) \/ \A k \in 1 .. 6 : Off(k)

SessionInv(m) == ListsInv(m) /\ (~crossed => StoresInv(m))

\* What is left of a list: its head, what its tail leaves, and its length.
LEMMA ListFrom ==
    ASSUME NEW S, NEW e \in Seq(S), NEW i \in 1 .. Len(e)
    PROVE  /\ From(e, i) # <<>> /\ Head(From(e, i)) = e[i]
           /\ Tail(From(e, i)) = From(e, i + 1) /\ Len(From(e, i)) = (Len(e) - i) + 1
  <1> DEFINE n == Len(e)
  <1>1. n \in Nat /\ \A j \in 1 .. n : e[j] \in S
    BY LenProperties, ElementOfSeq
  <1>2. i \in Int /\ n \in Int /\ i <= n /\ \A j \in i .. n : e[j] \in S
    <2>1. \A j \in i .. n : j \in 1 .. n
      BY <1>1
    <2> QED
      BY <1>1, <2>1
  <1>3. Len(SubSeq(e, i, n)) = (n - i) + 1 /\ SubSeq(e, i, n) \in Seq(S)
    BY <1>2, SubSeqProperties
  <1>4. SubSeq(e, i, n) # <<>>
    <2>1. Len(SubSeq(e, i, n)) # 0
      BY <1>2, <1>3
    <2> QED
      BY <2>1, EmptySeq
  <1>5. Head(SubSeq(e, i, n)) = e[i] /\ Tail(SubSeq(e, i, n)) = SubSeq(e, i + 1, n)
    <2>1. n \in i .. Len(e)
      BY <1>1, <1>2
    <2> QED
      BY <2>1, HeadTailOfSubSeq
  <1> QED
    BY <1>3, <1>4, <1>5 DEF From

\* ... until nothing is left.
LEMMA ListDone ==
    ASSUME NEW S, NEW e \in Seq(S)
    PROVE  From(e, Len(e) + 1) = <<>>
  <1>1. Len(e) \in Nat
    BY LenProperties
  <1> QED
    BY <1>1, SubSeqEmpty DEF From

EnterNames == {"mask", "owner", "active", "migrate", "defer", "narrow", "boost"}
ClearNames == {"inactive", "unmask", "disown", "resume", "widen", "calm"}

\* The two lists, element by element.
LEMMA EnterLists ==
    /\ \A i \in 1 .. 7 : /\ From(EnterStores, i) # <<>>
                         /\ Head(From(EnterStores, i)) = EnterStores[i]
                         /\ Tail(From(EnterStores, i)) = From(EnterStores, i + 1)
                         /\ Len(From(EnterStores, i)) = 8 - i
                         /\ EnterStores[i] \in EnterNames
    /\ From(EnterStores, 8) = <<>> /\ From(EnterStores, 1) = EnterStores
    /\ DOMAIN EnterStores = 1 .. 7
  <1>1. EnterStores \in Seq(EnterNames) /\ Len(EnterStores) = 7
    BY DEF EnterStores, EnterNames
  <1>2. From(EnterStores, 1) = EnterStores
    BY <1>1, SubSeqFull DEF From
  <1>3. From(EnterStores, 8) = <<>>
    <2>1. From(EnterStores, Len(EnterStores) + 1) = <<>>
      BY <1>1, ListDone
    <2>2. Len(EnterStores) + 1 = 8
      BY <1>1
    <2> QED
      BY <2>1, <2>2
  <1>4. \A i \in 1 .. 7 : EnterStores[i] \in EnterNames
    BY <1>1, ElementOfSeq
  <1>5. ASSUME NEW i \in 1 .. 7
        PROVE  /\ From(EnterStores, i) # <<>> /\ Head(From(EnterStores, i)) = EnterStores[i]
               /\ Tail(From(EnterStores, i)) = From(EnterStores, i + 1)
               /\ Len(From(EnterStores, i)) = 8 - i
    <2>1. i \in 1 .. Len(EnterStores)
      BY <1>1
    <2>2. /\ From(EnterStores, i) # <<>> /\ Head(From(EnterStores, i)) = EnterStores[i]
          /\ Tail(From(EnterStores, i)) = From(EnterStores, i + 1)
          /\ Len(From(EnterStores, i)) = (Len(EnterStores) - i) + 1
      BY <1>1, <2>1, ListFrom
    <2>3. (Len(EnterStores) - i) + 1 = 8 - i
      BY <1>1
    <2> QED
      BY <2>2, <2>3
  <1>6. DOMAIN EnterStores = 1 .. 7
    BY <1>1, LenProperties
  <1> QED
    BY <1>2, <1>3, <1>4, <1>5, <1>6

LEMMA ClearLists ==
    /\ \A i \in 1 .. 6 : /\ From(ClearStores, i) # <<>>
                         /\ Head(From(ClearStores, i)) = ClearStores[i]
                         /\ Tail(From(ClearStores, i)) = From(ClearStores, i + 1)
                         /\ Len(From(ClearStores, i)) = 7 - i
                         /\ ClearStores[i] \in ClearNames
    /\ From(ClearStores, 7) = <<>> /\ From(ClearStores, 1) = ClearStores
  <1>1. ClearStores \in Seq(ClearNames) /\ Len(ClearStores) = 6
    BY DEF ClearStores, ClearNames
  <1>2. From(ClearStores, 1) = ClearStores
    BY <1>1, SubSeqFull DEF From
  <1>3. From(ClearStores, 7) = <<>>
    <2>1. From(ClearStores, Len(ClearStores) + 1) = <<>>
      BY <1>1, ListDone
    <2>2. Len(ClearStores) + 1 = 7
      BY <1>1
    <2> QED
      BY <2>1, <2>2
  <1>4. \A i \in 1 .. 6 : ClearStores[i] \in ClearNames
    BY <1>1, ElementOfSeq
  <1>5. ASSUME NEW i \in 1 .. 6
        PROVE  /\ From(ClearStores, i) # <<>> /\ Head(From(ClearStores, i)) = ClearStores[i]
               /\ Tail(From(ClearStores, i)) = From(ClearStores, i + 1)
               /\ Len(From(ClearStores, i)) = 7 - i
    <2>1. i \in 1 .. Len(ClearStores)
      BY <1>1
    <2>2. /\ From(ClearStores, i) # <<>> /\ Head(From(ClearStores, i)) = ClearStores[i]
          /\ Tail(From(ClearStores, i)) = From(ClearStores, i + 1)
          /\ Len(From(ClearStores, i)) = (Len(ClearStores) - i) + 1
      BY <1>1, <2>1, ListFrom
    <2>3. (Len(ClearStores) - i) + 1 = 7 - i
      BY <1>1
    <2> QED
      BY <2>2, <2>3
  <1> QED
    BY <1>1, <1>2, <1>3, <1>4, <1>5

\* The two kinds of list have no element in common, nor anything but the empty list.
LEMMA ListsDiffer ==
    /\ \A i \in 1 .. 7, j \in 1 .. 7 : From(EnterStores, i) # From(ClearStores, j)
    /\ \A i, j \in 1 .. 8 : From(EnterStores, i) = From(EnterStores, j) => i = j
    /\ \A i, j \in 1 .. 7 : From(ClearStores, i) = From(ClearStores, j) => i = j
  <1>1. EnterNames \cap ClearNames = {}
    BY DEF EnterNames, ClearNames
  <1>2. \A i \in 1 .. 7, j \in 1 .. 7 : From(EnterStores, i) # From(ClearStores, j)
    <2>1. ASSUME NEW i \in 1 .. 7, NEW j \in 1 .. 7,
                 From(EnterStores, i) = From(ClearStores, j)
          PROVE  FALSE
      <3>1. j # 7
        BY <2>1, EnterLists, ClearLists
      <3>2. j \in 1 .. 6
        BY <3>1
      <3>3. Head(From(EnterStores, i)) = EnterStores[i] /\ EnterStores[i] \in EnterNames
        BY EnterLists
      <3>4. Head(From(ClearStores, j)) = ClearStores[j] /\ ClearStores[j] \in ClearNames
        BY <3>2, ClearLists
      <3> QED
        BY <1>1, <2>1, <3>3, <3>4
    <2> QED
      BY <2>1
  <1>3. ASSUME NEW i \in 1 .. 8, NEW j \in 1 .. 8,
               From(EnterStores, i) = From(EnterStores, j)
        PROVE  i = j
    <2>1. ASSUME NEW k \in 1 .. 8 PROVE Len(From(EnterStores, k)) = 8 - k
      <3>1. CASE k = 8
        <4>1. From(EnterStores, k) = <<>>
          BY <3>1, EnterLists
        <4> QED
          BY <3>1, <4>1
      <3>2. CASE k \in 1 .. 7
        BY <3>2, EnterLists
      <3> QED
        BY <3>1, <3>2
    <2> QED
      BY <1>3, <2>1
  <1>4. ASSUME NEW i \in 1 .. 7, NEW j \in 1 .. 7,
               From(ClearStores, i) = From(ClearStores, j)
        PROVE  i = j
    <2>1. ASSUME NEW k \in 1 .. 7 PROVE Len(From(ClearStores, k)) = 7 - k
      <3>1. CASE k = 7
        <4>1. From(ClearStores, k) = <<>>
          BY <3>1, ClearLists
        <4> QED
          BY <3>1, <4>1
      <3>2. CASE k \in 1 .. 6
        BY <3>2, ClearLists
      <3> QED
        BY <3>1, <3>2
    <2> QED
      BY <1>4, <2>1
  <1> QED
    BY <1>2, <1>3, <1>4

\* A store is made at one place of its list.
LEMMA NamesDiffer ==
    /\ \A i, j \in 1 .. 7 : EnterStores[i] = EnterStores[j] => i = j
    /\ \A i, j \in 1 .. 6 : ClearStores[i] = ClearStores[j] => i = j
    /\ \A i \in 1 .. 7, j \in 1 .. 6 : EnterStores[i] # ClearStores[j]
  <1>1. /\ EnterStores[1] = "mask" /\ EnterStores[2] = "owner" /\ EnterStores[3] = "active"
        /\ EnterStores[4] = "migrate" /\ EnterStores[5] = "defer"
        /\ EnterStores[6] = "narrow" /\ EnterStores[7] = "boost"
    BY DEF EnterStores
  <1>2. /\ ClearStores[1] = "inactive" /\ ClearStores[2] = "unmask"
        /\ ClearStores[3] = "disown" /\ ClearStores[4] = "resume"
        /\ ClearStores[5] = "widen" /\ ClearStores[6] = "calm"
    BY DEF ClearStores
  <1>3. \A i \in 1 .. 7 : i = 1 \/ i = 2 \/ i = 3 \/ i = 4 \/ i = 5 \/ i = 6 \/ i = 7
    OBVIOUS
  <1>4. \A i \in 1 .. 6 : i = 1 \/ i = 2 \/ i = 3 \/ i = 4 \/ i = 5 \/ i = 6
    OBVIOUS
  <1>5. \A i, j \in 1 .. 7 : EnterStores[i] = EnterStores[j] => i = j
    BY <1>1, <1>3
  <1>6. \A i, j \in 1 .. 6 : ClearStores[i] = ClearStores[j] => i = j
    BY <1>2, <1>4
  <1>7. \A i \in 1 .. 7, j \in 1 .. 6 : EnterStores[i] # ClearStores[j]
    BY <1>1, <1>2, <1>3, <1>4
  <1> QED
    BY <1>5, <1>6, <1>7

\* The manager makes the k-th store of an entry.
LEMMA EntersAt ==
    ASSUME NEW m \in Managers, ListsInv(m), NEW k \in 1 .. 7, Storing(m, EnterStores[k])
    PROVE  /\ todo[m] = From(EnterStores, k)
           /\ todo' = [todo EXCEPT ![m] = From(EnterStores, k + 1)]
           /\ UNCHANGED <<tick, want, crossed>>
  <1>1. /\ todo[m] # <<>> /\ Head(todo[m]) = EnterStores[k]
        /\ todo' = [todo EXCEPT ![m] = Tail(todo[m])]
        /\ UNCHANGED <<want, crossed>>
    BY DEF Storing
  <1>2. UNCHANGED tick
    BY GameModeAssumption DEF Storing
  <1>3. CASE \E i \in 1 .. 8 : todo[m] = From(EnterStores, i)
    <2>1. PICK i \in 1 .. 8 : todo[m] = From(EnterStores, i)
      BY <1>3
    <2>2. i \in 1 .. 7
      BY <1>1, <2>1, EnterLists
    <2>3. EnterStores[i] = EnterStores[k]
      BY <1>1, <2>1, <2>2, EnterLists
    <2>4. i = k
      BY <2>2, <2>3, NamesDiffer
    <2>5. Tail(todo[m]) = From(EnterStores, k + 1)
      BY <2>1, <2>4, EnterLists
    <2> QED
      BY <1>1, <1>2, <2>1, <2>4, <2>5
  <1>4. CASE \E i \in 1 .. 7 : todo[m] = From(ClearStores, i)
    <2>1. PICK i \in 1 .. 7 : todo[m] = From(ClearStores, i)
      BY <1>4
    <2>2. i \in 1 .. 6
      BY <1>1, <2>1, ClearLists
    <2>3. ClearStores[i] = EnterStores[k]
      BY <1>1, <2>1, <2>2, ClearLists
    <2> QED
      BY <2>2, <2>3, NamesDiffer
  <1> QED
    BY <1>3, <1>4 DEF ListsInv

\* An actor makes the k-th store of a clean-up.
LEMMA ClearsAt ==
    ASSUME NEW m \in Managers, ListsInv(m), NEW a \in {m, Watchdog}, NEW k \in 1 .. 6,
           Storing(a, ClearStores[k])
    PROVE  /\ todo[a] = From(ClearStores, k)
           /\ todo' = [todo EXCEPT ![a] = From(ClearStores, k + 1)]
           /\ tick' = IF a = Watchdog /\ k = 6 THEN "idle" ELSE tick
           /\ UNCHANGED <<want, crossed>>
  <1>1. /\ todo[a] # <<>> /\ Head(todo[a]) = ClearStores[k]
        /\ todo' = [todo EXCEPT ![a] = Tail(todo[a])]
        /\ tick' = IF a = Watchdog /\ Len(todo[a]) = 1 THEN "idle" ELSE tick
        /\ UNCHANGED <<want, crossed>>
    BY DEF Storing
  <1>2. \/ \E i \in 1 .. 8 : todo[a] = From(EnterStores, i)
        \/ \E i \in 1 .. 7 : todo[a] = From(ClearStores, i)
    BY DEF ListsInv
  <1>3. CASE \E i \in 1 .. 8 : todo[a] = From(EnterStores, i)
    <2>1. PICK i \in 1 .. 8 : todo[a] = From(EnterStores, i)
      BY <1>3
    <2>2. i \in 1 .. 7
      BY <1>1, <2>1, EnterLists
    <2>3. EnterStores[i] = ClearStores[k]
      BY <1>1, <2>1, <2>2, EnterLists
    <2> QED
      BY <2>2, <2>3, NamesDiffer
  <1>4. CASE \E i \in 1 .. 7 : todo[a] = From(ClearStores, i)
    <2>1. PICK i \in 1 .. 7 : todo[a] = From(ClearStores, i)
      BY <1>4
    <2>2. i \in 1 .. 6
      BY <1>1, <2>1, ClearLists
    <2>3. ClearStores[i] = ClearStores[k]
      BY <1>1, <2>1, <2>2, ClearLists
    <2>4. i = k
      BY <2>2, <2>3, NamesDiffer
    <2>5. Tail(todo[a]) = From(ClearStores, k + 1) /\ Len(todo[a]) = 7 - k
      BY <2>1, <2>4, ClearLists
    <2>6. Len(todo[a]) = 1 <=> k = 6
      BY <2>5
    <2> QED
      BY <1>1, <2>1, <2>4, <2>5, <2>6
  <1> QED
    BY <1>2, <1>3, <1>4

\* With one manager there are two actors.
LEMMA TwoActors ==
    ASSUME NEW m, Managers = {m}
    PROVE  Actors = {m, Watchdog} /\ m # Watchdog /\ m \in Managers
  BY GameModeAssumption DEF Actors

\* Where an entry stands when it is under way, and where it does not.
LEMMA EnteringAt ==
    ASSUME NEW m
    PROVE  /\ Entering(m) <=> \E i \in 1 .. 7 : todo[m] = From(EnterStores, i)
           /\ \A i \in 1 .. 7 : todo[m] = From(ClearStores, i) => ~Entering(m)
           /\ todo[m] = <<>> => ~Entering(m)
  BY EnterLists, ListsDiffer DEF Entering

\* Every store of an entry brings the session one step further.
LEMMA EnterStep ==
    ASSUME NEW m, Managers = {m}, SessionInv(m), NEW k \in 1 .. 7,
           Storing(m, EnterStores[k]), Entered(m, k) => Entered(m, k + 1)'
    PROVE  SessionInv(m)'
  <1>1. Actors = {m, Watchdog} /\ m # Watchdog /\ m \in Managers
    BY TwoActors
  <1>2. /\ todo[m] = From(EnterStores, k)
        /\ todo' = [todo EXCEPT ![m] = From(EnterStores, k + 1)]
        /\ UNCHANGED <<tick, want, crossed>>
    BY <1>1, EntersAt DEF SessionInv
  <1>3. /\ todo'[m] = From(EnterStores, k + 1) /\ todo'[Watchdog] = todo[Watchdog]
        /\ todo' = [a \in Actors |-> todo'[a]]
    BY <1>1, <1>2 DEF SessionInv, ListsInv
  <1>4. ListsInv(m)'
    <2>1. k + 1 \in 1 .. 8
      OBVIOUS
    <2> QED
      BY <1>1, <1>2, <1>3, <2>1 DEF SessionInv, ListsInv
  <1>5. ASSUME ~crossed PROVE StoresInv(m)'
    <2>1. tick # "clearing" /\ Entered(m, k + 1)'
      BY <1>2, <1>5 DEF SessionInv, StoresInv
    <2>2. ASSUME NEW i \in 1 .. 7, todo'[m] = From(EnterStores, i)
          PROVE  tick' # "clearing" /\ Entered(m, i)'
      <3>1. k + 1 \in 1 .. 8 /\ i \in 1 .. 8
        OBVIOUS
      <3>2. i = k + 1
        BY <1>3, <2>2, <3>1, ListsDiffer
      <3> QED
        BY <1>2, <2>1, <3>2
    <2>3. ASSUME ~Entering(m)' PROVE k = 7
      <3>1. k + 1 \notin 1 .. 7
        BY <1>3, <2>3, EnterLists DEF Entering
      <3> QED
        BY <3>1
    <2>4. k = 7 => active' /\ Described'
      <3> SUFFICES ASSUME k = 7 PROVE active' /\ Described'
        OBVIOUS
      <3>1. /\ want'[m].game \in Games /\ mask' = want'[m].cores
            /\ owner' = want'[m].game /\ active'
        BY <2>1 DEF Entered
      <3>2. owner' # NoPid
        BY <3>1, GameModeAssumption
      <3>3. want'[m] \in [game : Games \cup {NoPid}, cores : SUBSET Cores]
        BY <1>1, <1>4 DEF ListsInv
      <3>4. want'[m] = [game |-> owner', cores |-> mask']
        BY <3>1, <3>3
      <3> QED
        BY <1>1, <3>1, <3>2, <3>4 DEF Described
    <2>5. k = 7 => \A a \in Actors, j \in 1 .. 5 : ~Past(a, j)'
      <3>1. ASSUME k = 7 PROVE todo'[m] = <<>> /\ todo'[Watchdog] = <<>>
        <4>1. todo'[m] = From(EnterStores, 8)
          BY <1>3, <3>1
        <4>2. todo[Watchdog] = <<>>
          BY <2>1 DEF SessionInv, ListsInv
        <4> QED
          BY <4>1, <4>2, <1>3, EnterLists
      <3>2. \A j \in 1 .. 5 : \A i \in j + 1 .. 6 : From(ClearStores, i) # <<>>
        <4>1. \A j \in 1 .. 5 : \A i \in j + 1 .. 6 : i \in 1 .. 6
          OBVIOUS
        <4> QED
          BY <4>1, ClearLists
      <3> QED
        BY <1>1, <3>1, <3>2 DEF Past
    <2>6. ASSUME Idle(m)' PROVE Entered(m, 8)'
      <3>1. k + 1 \notin 1 .. 7
        BY <1>3, <2>6, EnterLists DEF Idle
      <3>2. k = 7
        BY <3>1
      <3> QED
        BY <2>1, <3>2
    <2> QED
      BY <2>2, <2>3, <2>4, <2>5, <2>6 DEF StoresInv
  <1> QED
    BY <1>2, <1>4, <1>5 DEF SessionInv

\* A store of a clean-up turns one thing off and nothing on.
LEMMA ClearStep ==
    ASSUME NEW m, Managers = {m}, SessionInv(m), NEW a \in Actors, NEW k \in 1 .. 6,
           Storing(a, ClearStores[k]), Off(k)', \A j \in 1 .. 6 : Off(j) => Off(j)'
    PROVE  SessionInv(m)'
  <1>1. Actors = {m, Watchdog} /\ m # Watchdog /\ m \in Managers
    BY TwoActors
  <1>2. /\ todo[a] = From(ClearStores, k)
        /\ todo' = [todo EXCEPT ![a] = From(ClearStores, k + 1)]
        /\ tick' = IF a = Watchdog /\ k = 6 THEN "idle" ELSE tick
        /\ UNCHANGED <<want, crossed>>
    BY <1>1, ClearsAt DEF SessionInv
  <1>3. /\ todo'[a] = From(ClearStores, k + 1)
        /\ \A b \in Actors \ {a} : todo'[b] = todo[b]
        /\ todo' = [b \in Actors |-> todo'[b]]
    BY <1>1, <1>2 DEF SessionInv, ListsInv
  <1>4. k + 1 \in 1 .. 7 /\ From(ClearStores, k) # <<>>
        /\ (From(ClearStores, k + 1) = <<>> <=> k = 6)
    <2>1. CASE k = 6
      BY <2>1, ClearLists
    <2>2. CASE k # 6
      <3>1. k + 1 \in 1 .. 6
        BY <2>2
      <3>2. From(ClearStores, k + 1) # <<>> /\ From(ClearStores, k) # <<>>
        BY <3>1, ClearLists
      <3> QED
        BY <2>2, <3>1, <3>2
    <2> QED
      BY <2>1, <2>2
  <1>5. ListsInv(m)'
    <2>1. CASE a = m
      BY <1>1, <1>2, <1>3, <1>4, <2>1 DEF SessionInv, ListsInv
    <2>2. CASE a = Watchdog
      <3>1. tick = "clearing"
        BY <1>2, <1>4, <2>2 DEF SessionInv, ListsInv
      <3>2. todo'[Watchdog] = <<>> <=> tick' # "clearing"
        BY <1>2, <1>3, <1>4, <2>2, <3>1
      <3>3. todo'[m] = todo[m] /\ todo'[Watchdog] = From(ClearStores, k + 1)
        BY <1>1, <1>3, <2>2
      <3> QED
        BY <1>2, <1>3, <1>4, <3>2, <3>3 DEF SessionInv, ListsInv
    <2> QED
      BY <1>1, <2>1, <2>2
  <1>6. ASSUME ~crossed PROVE StoresInv(m)'
    <2>1. ~Entering(m)
      <3>1. CASE a = m
        BY <1>2, <3>1, EnteringAt
      <3>2. CASE a = Watchdog
        <4>1. tick = "clearing"
          BY <1>2, <1>4, <3>2 DEF SessionInv, ListsInv
        <4> QED
          BY <1>6, <4>1, EnteringAt DEF SessionInv, StoresInv
      <3> QED
        BY <1>1, <3>1, <3>2
    <2>2. \A i \in 1 .. 7 : todo'[m] # From(EnterStores, i)
      <3>1. CASE a = m
        BY <1>3, <1>4, <3>1, ListsDiffer
      <3>2. CASE a # m
        BY <1>1, <1>3, <2>1, <3>2, EnteringAt
      <3> QED
        BY <3>1, <3>2
    <2>3. \A b \in Actors, j \in 1 .. 5 : Past(b, j) => Off(j)
      BY <1>6, <2>1 DEF SessionInv, StoresInv
    <2>4. ASSUME NEW j \in 1 .. 6, j <= k PROVE Off(j)'
      <3>1. CASE j = k
        BY <3>1
      <3>2. CASE j < k
        <4>1. Past(a, j) /\ j \in 1 .. 5
          BY <1>2, <3>2 DEF Past
        <4> QED
          BY <2>3, <4>1
      <3> QED
        BY <2>4, <3>1, <3>2
    <2>5. ~active'
      <3>1. Off(1)'
        BY <2>4
      <3> QED
        BY <3>1 DEF Off
    <2>6. ASSUME NEW b \in Actors, NEW j \in 1 .. 5, Past(b, j)' PROVE Off(j)'
      <3>1. CASE b = a
        <4>1. PICK i \in j + 1 .. 6 : todo'[a] = From(ClearStores, i)
          BY <2>6, <3>1 DEF Past
        <4>2. i \in 1 .. 7 /\ j <= i - 1
          OBVIOUS
        <4>3. i = k + 1
          BY <1>3, <1>4, <4>1, <4>2, ListsDiffer
        <4>4. j <= k /\ j \in 1 .. 6
          BY <4>2, <4>3
        <4> QED
          BY <2>4, <4>4
      <3>2. CASE b # a
        <4>1. Past(b, j)
          BY <1>3, <2>6, <3>2 DEF Past
        <4> QED
          BY <2>3, <4>1
      <3> QED
        BY <3>1, <3>2
    <2>7. ASSUME Idle(m)', tick' # "clearing" PROVE \A j \in 1 .. 6 : Off(j)'
      <3>1. CASE k = 6
        BY <2>4, <3>1
      <3>2. CASE k # 6
        <4>1. a # m
          BY <1>3, <1>4, <2>7, <3>2 DEF Idle
        <4>2. a = Watchdog /\ tick' = tick
          BY <1>1, <1>2, <3>2, <4>1
        <4> QED
          BY <1>2, <1>4, <2>7, <4>2 DEF SessionInv, ListsInv
      <3> QED
        BY <3>1, <3>2
    <2> QED
      BY <2>2, <2>5, <2>6, <2>7 DEF StoresInv
  <1> QED
    BY <1>2, <1>5, <1>6 DEF SessionInv

\* The stores of an entry, one by one.
LEMMA EnteringStep ==
    ASSUME NEW m, Managers = {m}, SessionInv(m), EnterStore(m)
    PROVE  SessionInv(m)'
  <1> USE DEF Entered
  <1>1. /\ EnterStores[1] = "mask" /\ EnterStores[2] = "owner" /\ EnterStores[3] = "active"
        /\ EnterStores[4] = "migrate" /\ EnterStores[5] = "defer"
        /\ EnterStores[6] = "narrow" /\ EnterStores[7] = "boost"
    BY DEF EnterStores
  <1>2. UNCHANGED want
    BY DEF EnterStore, StoreMask, StoreOwner, StoreActive, MigrateOff, Defer,
           NarrowBackground, Boost, Storing
  <1>3. CASE StoreMask(m)
    <2>1. Storing(m, EnterStores[1]) /\ (Entered(m, 1) => Entered(m, 1 + 1)')
      BY <1>1, <1>2, <1>3 DEF StoreMask
    <2> QED
      BY <2>1, EnterStep
  <1>4. CASE StoreOwner(m)
    <2>1. Storing(m, EnterStores[2]) /\ (Entered(m, 2) => Entered(m, 2 + 1)')
      BY <1>1, <1>2, <1>4 DEF StoreOwner
    <2> QED
      BY <2>1, EnterStep
  <1>5. CASE StoreActive(m)
    <2>1. Storing(m, EnterStores[3]) /\ (Entered(m, 3) => Entered(m, 3 + 1)')
      BY <1>1, <1>2, <1>5 DEF StoreActive
    <2> QED
      BY <2>1, EnterStep
  <1>6. CASE MigrateOff(m)
    <2>1. Storing(m, EnterStores[4]) /\ (Entered(m, 4) => Entered(m, 4 + 1)')
      BY <1>1, <1>2, <1>6 DEF MigrateOff, kernel
    <2> QED
      BY <2>1, EnterStep
  <1>7. CASE Defer(m)
    <2>1. Storing(m, EnterStores[5]) /\ (Entered(m, 5) => Entered(m, 5 + 1)')
      BY <1>1, <1>2, <1>7 DEF Defer
    <2> QED
      BY <2>1, EnterStep
  <1>8. CASE NarrowBackground(m)
    <2>1. Storing(m, EnterStores[6]) /\ (Entered(m, 6) => Entered(m, 6 + 1)')
      BY <1>1, <1>2, <1>8 DEF NarrowBackground, Cores
    <2> QED
      BY <2>1, EnterStep
  <1>9. CASE Boost(m)
    <2>1. Storing(m, EnterStores[7]) /\ (Entered(m, 7) => Entered(m, 7 + 1)')
      BY <1>1, <1>2, <1>9 DEF Boost, Cores
    <2> QED
      BY <2>1, EnterStep
  <1> QED
    BY <1>3, <1>4, <1>5, <1>6, <1>7, <1>8, <1>9 DEF EnterStore

\* The stores of a clean-up, one by one.
LEMMA ClearingStep ==
    ASSUME NEW m, Managers = {m}, SessionInv(m), NEW a \in Actors, ClearStore(a)
    PROVE  SessionInv(m)'
  <1> USE DEF Off, Cores
  <1>1. /\ ClearStores[1] = "inactive" /\ ClearStores[2] = "unmask"
        /\ ClearStores[3] = "disown" /\ ClearStores[4] = "resume"
        /\ ClearStores[5] = "widen" /\ ClearStores[6] = "calm"
    BY DEF ClearStores
  <1>2. CASE ClearActive(a)
    <2>1. Storing(a, ClearStores[1]) /\ Off(1)' /\ \A j \in 1 .. 6 : Off(j) => Off(j)'
      BY <1>1, <1>2 DEF ClearActive
    <2> QED
      BY <2>1, ClearStep
  <1>3. CASE ClearMask(a)
    <2>1. Storing(a, ClearStores[2]) /\ Off(2)' /\ \A j \in 1 .. 6 : Off(j) => Off(j)'
      BY <1>1, <1>3 DEF ClearMask
    <2> QED
      BY <2>1, ClearStep
  <1>4. CASE ClearOwner(a)
    <2>1. Storing(a, ClearStores[3]) /\ Off(3)' /\ \A j \in 1 .. 6 : Off(j) => Off(j)'
      BY <1>1, <1>4 DEF ClearOwner
    <2> QED
      BY <2>1, ClearStep
  <1>5. CASE ResumeSweeps(a)
    <2>1. Storing(a, ClearStores[4]) /\ Off(4)' /\ \A j \in 1 .. 6 : Off(j) => Off(j)'
      BY <1>1, <1>5 DEF ResumeSweeps
    <2> QED
      BY <2>1, ClearStep
  <1>6. CASE WidenBackground(a)
    <2>1. Storing(a, ClearStores[5]) /\ Off(5)' /\ \A j \in 1 .. 6 : Off(j) => Off(j)'
      BY <1>1, <1>6 DEF WidenBackground
    <2> QED
      BY <2>1, ClearStep
  <1>7. CASE Calm(a)
    <2>1. Storing(a, ClearStores[6]) /\ Off(6)' /\ \A j \in 1 .. 6 : Off(j) => Off(j)'
      BY <1>1, <1>7 DEF Calm
    <2> QED
      BY <2>1, ClearStep
  <1> QED
    BY <1>2, <1>3, <1>4, <1>5, <1>6, <1>7 DEF ClearStore

\* Nobody is in a call, and all is off.
LEMMA StoresInit ==
    ASSUME NEW m, Managers = {m}, SessionInit
    PROVE  SessionInv(m)
  <1>1. Actors = {m, Watchdog} /\ m # Watchdog /\ m \in Managers
    BY TwoActors
  <1>2. todo[m] = <<>> /\ todo[Watchdog] = <<>> /\ tick = "idle"
    BY <1>1 DEF SessionInit
  <1>3. ListsInv(m)
    <2>1. want \in [Managers -> [game : Games \cup {NoPid}, cores : SUBSET Cores]]
      BY DEF SessionInit
    <2>2. todo[m] = From(ClearStores, 7) /\ todo[Watchdog] = From(ClearStores, 7)
      BY <1>2, ClearLists
    <2> QED
      BY <1>2, <2>1, <2>2 DEF SessionInit, ListsInv
  <1>4. \A k \in 1 .. 6 : Off(k)
    BY DEF SessionInit, Off
  <1>5. StoresInv(m)
    <2>1. \A i \in 1 .. 7 : todo[m] # From(EnterStores, i)
      BY <1>2, EnterLists
    <2>2. \A k \in 1 .. 5 : Off(k)
      BY <1>4
    <2> QED
      BY <1>4, <2>1, <2>2 DEF SessionInit, StoresInv
  <1> QED
    BY <1>3, <1>5 DEF SessionInv

\* An entry is granted when all is off, or while a recovery is under way.
LEMMA GrantStep ==
    ASSUME NEW m, Managers = {m}, SessionInv(m), MasksInv', NEW g \in Games,
           NEW n \in 0 .. Total, EnterGranted(m, g, n)
    PROVE  SessionInv(m)'
  <1>1. Actors = {m, Watchdog} /\ m # Watchdog /\ m \in Managers
    BY TwoActors
  <1>2. /\ todo[m] = <<>> /\ ~active
        /\ want'[m].game = g /\ todo' = [todo EXCEPT ![m] = EnterStores]
        /\ UNCHANGED <<kernel, tick>>
        /\ crossed' = (crossed \/ Overlap')
    BY <1>1 DEF EnterGranted, Idle, SessionInv, ListsInv
  <1>3. /\ todo'[m] = From(EnterStores, 1) /\ todo'[Watchdog] = todo[Watchdog]
        /\ todo' = [b \in Actors |-> todo'[b]]
    BY <1>1, <1>2, EnterLists DEF SessionInv, ListsInv
  <1>4. ListsInv(m)'
    BY <1>2, <1>3 DEF SessionInv, ListsInv, MasksInv
  <1>5. Entering(m)'
    BY <1>3, EnterLists DEF Entering
  <1>6. ASSUME ~crossed' PROVE StoresInv(m)'
    <2>1. ~crossed /\ tick # "clearing"
      BY <1>1, <1>2, <1>5, <1>6 DEF Overlap
    <2>2. \A k \in 1 .. 6 : Off(k)
      <3>1. ~Entered(m, 8)
        BY <1>2 DEF Entered
      <3> QED
        BY <1>2, <2>1, <3>1 DEF SessionInv, StoresInv, Idle
    <2>3. /\ mask = {} /\ owner = NoPid /\ ~sweepsDeferred /\ affinity = Cores /\ ~boosted
      <3>1. Off(2) /\ Off(3) /\ Off(4) /\ Off(5) /\ Off(6)
        BY <2>2
      <3> QED
        BY <3>1 DEF Off
    <2>4. Entered(m, 1)'
      BY <1>2, <2>3 DEF Entered, kernel, Cores
    <2>5. \A i \in 1 .. 7 : todo'[m] = From(EnterStores, i) => i = 1
      BY <1>3, ListsDiffer
    <2>6. todo'[m] # <<>>
      BY <1>3, EnterLists
    <2> QED
      BY <1>2, <1>5, <2>1, <2>4, <2>5, <2>6 DEF StoresInv, Idle
  <1> QED
    BY <1>4, <1>6 DEF SessionInv

\* A manager that leaves has passed nothing yet.
LEMMA LeaveStep ==
    ASSUME NEW m, Managers = {m}, SessionInv(m), LeaveGranted(m)
    PROVE  SessionInv(m)'
  <1>1. Actors = {m, Watchdog} /\ m # Watchdog /\ m \in Managers
    BY TwoActors
  <1>2. /\ todo[m] = <<>> /\ todo' = [todo EXCEPT ![m] = ClearStores]
        /\ UNCHANGED <<kernel, want, tick, crossed>>
    BY DEF LeaveGranted, Idle
  <1>3. /\ todo'[m] = From(ClearStores, 1) /\ todo'[Watchdog] = todo[Watchdog]
        /\ todo' = [b \in Actors |-> todo'[b]]
    BY <1>1, <1>2, ClearLists DEF SessionInv, ListsInv
  <1>4. ListsInv(m)'
    BY <1>2, <1>3 DEF SessionInv, ListsInv
  <1>5. ASSUME ~crossed PROVE StoresInv(m)'
    <2>1. ~Entering(m) /\ ~Entering(m)'
      <3>1. ~Entering(m)
        BY <1>2, EnteringAt
      <3>2. \A i \in DOMAIN EnterStores : todo'[m] # From(EnterStores, i)
        BY <1>3, EnterLists, ListsDiffer
      <3> QED
        BY <3>1, <3>2 DEF Entering
    <2>2. \A i \in 1 .. 7 : todo'[m] # From(EnterStores, i)
      BY <1>3, ListsDiffer
    <2>3. \A k \in 1 .. 5 : ~Past(m, k)'
      BY <1>3, ListsDiffer DEF Past
    <2>4. \A k \in 1 .. 5 : Past(Watchdog, k)' => Past(Watchdog, k)
      BY <1>3 DEF Past
    <2>5. \A k \in 1 .. 6 : Off(k) => Off(k)'
      BY <1>2 DEF Off, kernel, Cores
    <2>6. active => active' /\ Described'
      BY <1>2, <1>5, <2>1 DEF SessionInv, StoresInv, Described, kernel
    <2>7. todo'[m] # <<>>
      BY <1>3, ClearLists
    <2>8. active' => Described'
      BY <1>2, <2>6 DEF kernel
    <2>9. ASSUME NEW b \in Actors, NEW k \in 1 .. 5, Past(b, k)' PROVE Off(k)'
      <3>1. b = Watchdog
        BY <1>1, <2>3, <2>9
      <3>2. Past(Watchdog, k) => Off(k)
        BY <1>1, <1>5, <2>1 DEF SessionInv, StoresInv
      <3> QED
        BY <2>4, <2>5, <2>9, <3>1, <3>2
    <2> QED
      BY <2>1, <2>2, <2>7, <2>8, <2>9 DEF StoresInv, Idle
  <1> QED
    BY <1>2, <1>4, <1>5 DEF SessionInv

\* The watchdog starts a recovery: an entry under way is crossed.
LEMMA JudgeStep ==
    ASSUME NEW m, Managers = {m}, SessionInv(m), WatchdogJudges
    PROVE  SessionInv(m)'
  <1>1. Actors = {m, Watchdog} /\ m # Watchdog /\ m \in Managers
    BY TwoActors
  <1>2. /\ tick = "read" /\ UNCHANGED <<kernel, want>>
        /\ crossed' = (crossed \/ Overlap')
        /\ \/ tick' = "clearing" /\ todo' = [todo EXCEPT ![Watchdog] = ClearStores]
           \/ tick' = "idle" /\ todo' = [todo EXCEPT ![Watchdog] = <<>>]
    BY DEF WatchdogJudges
  <1>3. PICK i \in {1, 7} : /\ todo'[Watchdog] = From(ClearStores, i)
                            /\ (i = 1 <=> tick' = "clearing")
    <2>1. \A q : todo' = [todo EXCEPT ![Watchdog] = q] => todo'[Watchdog] = q
      BY <1>1 DEF SessionInv, ListsInv
    <2>2. ClearStores = From(ClearStores, 1) /\ <<>> = From(ClearStores, 7)
      BY ClearLists
    <2> QED
      BY <1>2, <2>1, <2>2
  <1>4. todo'[m] = todo[m] /\ todo' = [b \in Actors |-> todo'[b]]
    BY <1>1, <1>2 DEF SessionInv, ListsInv
  <1>5. ListsInv(m)'
    <2>1. todo'[Watchdog] = <<>> <=> tick' # "clearing"
      <3>1. From(ClearStores, 1) # <<>> /\ From(ClearStores, 7) = <<>>
        BY ClearLists
      <3> QED
        BY <1>3, <3>1
    <2>2. i \in 1 .. 7
      OBVIOUS
    <2> QED
      BY <1>2, <1>3, <1>4, <2>1, <2>2 DEF SessionInv, ListsInv
  <1>6. ASSUME ~crossed' PROVE StoresInv(m)'
    <2>1. ~crossed /\ ~(tick' = "clearing" /\ Entering(m)')
      BY <1>1, <1>2, <1>6 DEF Overlap
    <2>2. Entering(m)' <=> Entering(m)
      BY <1>4 DEF Entering
    <2>3. \A k \in 1 .. 6 : Off(k) => Off(k)'
      BY <1>2 DEF Off, kernel, Cores
    <2>4. ASSUME NEW k \in 1 .. 7, todo'[m] = From(EnterStores, k)
          PROVE  tick' # "clearing" /\ Entered(m, k)'
      <3>1. Entering(m)'
        BY <2>4, EnterLists DEF Entering
      <3>2. Entered(m, k)
        BY <1>4, <2>1, <2>4 DEF SessionInv, StoresInv
      <3> QED
        BY <1>2, <2>1, <3>1, <3>2 DEF Entered, kernel, Cores
    <2>5. ASSUME ~Entering(m)', active' PROVE Described'
      BY <1>2, <2>1, <2>2, <2>5 DEF SessionInv, StoresInv, Described, kernel
    <2>6. ASSUME ~Entering(m)', NEW b \in Actors, NEW k \in 1 .. 5, Past(b, k)'
          PROVE  Off(k)'
      <3>1. \A j \in k + 1 .. 6 : j \in 1 .. 7 /\ j # 1 /\ j # 7
        OBVIOUS
      <3>2. b = m
        BY <1>1, <1>3, <2>6, <3>1, ListsDiffer DEF Past
      <3>3. Past(m, k)
        BY <1>4, <2>6, <3>2 DEF Past
      <3> QED
        BY <1>1, <2>1, <2>2, <2>3, <2>6, <3>3 DEF SessionInv, StoresInv
    <2>7. ASSUME Idle(m)' PROVE Entered(m, 8)' \/ \A k \in 1 .. 6 : Off(k)'
      <3>1. Entered(m, 8) \/ \A k \in 1 .. 6 : Off(k)
        BY <1>2, <1>4, <2>1, <2>7 DEF SessionInv, StoresInv, Idle
      <3>2. Entered(m, 8) => Entered(m, 8)'
        BY <1>2 DEF Entered, kernel, Cores
      <3> QED
        BY <2>3, <3>1, <3>2
    <2> QED
      BY <2>4, <2>5, <2>6, <2>7 DEF StoresInv
  <1> QED
    BY <1>5, <1>6 DEF SessionInv

\* Steps that change neither the session nor the lists.
LEMMA RestStep ==
    ASSUME NEW m, SessionInv(m), UNCHANGED <<kernel, todo, want, crossed>>,
           tick' = "clearing" <=> tick = "clearing"
    PROVE  SessionInv(m)'
  BY DEF SessionInv, ListsInv, StoresInv, Entered, Off, Past, Entering, Described, Idle,
         Cores, kernel

\* Every step keeps the invariant.
LEMMA SessionStep ==
    ASSUME NEW m, Managers = {m}, MasksInv, SessionInv(m), [SessionNext]_sessionVars
    PROVE  SessionInv(m)'
  <1>1. MasksInv'
    BY MasksStep
  <1>2. Watchdog \in Actors /\ m \in Actors
    BY TwoActors
  <1>3. ASSUME NEW g \in Games, NEW n \in 0 .. Total, EnterGranted(m, g, n)
        PROVE  SessionInv(m)'
    BY <1>1, <1>3, GrantStep
  <1>4. CASE WatchdogSees \/ WatchdogReads \/ UNCHANGED sessionVars
             \/ \E g \in Games : Die(g)
    <2>1. UNCHANGED <<kernel, todo, want, crossed>> /\ (tick' = "clearing" <=> tick = "clearing")
      BY <1>4 DEF WatchdogSees, WatchdogReads, Die, sessionVars, kernel
    <2> QED
      BY <2>1, RestStep
  <1> QED
    BY <1>2, <1>3, <1>4, LeaveStep, EnteringStep, ClearingStep, JudgeStep
    DEF SessionNext, Decide, Tick

\* gamemode.rs:44-56, 114-123 and 166-173 for any number of cores and games, where the
\* fraction is of whole pairs:
\* where one thread serves the endpoint, a session is bounded, announced whole and
\* undone whole, whatever the watchdog does in between.
THEOREM SessionIsSound ==
    ASSUME NEW m, Managers = {m}, PairsFit
    PROVE  SessionSpec => []SessionSound
  <1>1. MasksInv /\ SessionInv(m) => SessionSound
    <2> SUFFICES ASSUME MasksInv, SessionInv(m) PROVE SessionSound
      OBVIOUS
    <2>1. Actors = {m, Watchdog} /\ m # Watchdog /\ m \in Managers
      BY TwoActors
    <2>2. IsolationBounded
      BY DEF MasksInv, Bounded, Tight, IsolationBounded
    <2>3. ASSUME active, ~crossed PROVE Described
      <3>1. CASE ~Entering(m)
        BY <2>3, <3>1 DEF SessionInv, StoresInv
      <3>2. CASE Entering(m)
        <4>1. PICK i \in 1 .. 7 : todo[m] = From(EnterStores, i)
          BY <3>2, EnteringAt
        <4>2. Entered(m, i)
          BY <2>3, <4>1 DEF SessionInv, StoresInv
        <4>3. /\ want[m].game \in Games /\ mask = want[m].cores /\ owner = want[m].game
          BY <2>3, <4>2 DEF Entered
        <4>4. want[m] = [game |-> owner, cores |-> mask]
          BY <2>1, <4>3 DEF MasksInv
        <4> QED
          BY <2>1, <4>3, <4>4, GameModeAssumption DEF Described
      <3> QED
        BY <3>1, <3>2
    <2>4. ASSUME ~crossed, tick # "clearing", Idle(m)
          PROVE  \/ active /\ Described /\ sweepsDeferred /\ boosted /\ affinity = Cores \ mask
                 \/ /\ ~active /\ mask = {} /\ owner = NoPid /\ ~sweepsDeferred /\ ~boosted
                    /\ affinity = Cores
      <3>1. CASE Entered(m, 8)
        <4>1. active /\ sweepsDeferred /\ boosted /\ affinity = Cores \ mask
          BY <3>1 DEF Entered
        <4> QED
          BY <2>3, <2>4, <4>1
      <3>2. CASE \A k \in 1 .. 6 : Off(k)
        <4>1. Off(1) /\ Off(2) /\ Off(3) /\ Off(4) /\ Off(5) /\ Off(6)
          BY <3>2
        <4> QED
          BY <4>1 DEF Off
      <3> QED
        BY <2>4, <3>1, <3>2 DEF SessionInv, StoresInv
    <2> QED
      BY <2>1, <2>2, <2>3, <2>4 DEF SessionSound, AnnouncedIsDescribed, AllOrNothing
  <1>2. SessionInit => MasksInv /\ SessionInv(m)
    BY MasksInit, StoresInit
  <1>3. MasksInv /\ SessionInv(m) /\ [SessionNext]_sessionVars => MasksInv' /\ SessionInv(m)'
    BY MasksStep, SessionStep
  <1> QED
    BY <1>1, <1>2, <1>3, PTL DEF SessionSpec
=============================================================================
