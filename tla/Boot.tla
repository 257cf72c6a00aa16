-------------------------------- MODULE Boot --------------------------------
(***************************************************************************)
(* The loader from power-on to the kernel (boot/spectre-boot main.rs,      *)
(* attest.rs, spd.rs): the memory audit, the attestation of every image of *)
(* the manifest, the unlock and the hand-off, with reads of the SMBus that *)
(* time out, a TPM that refuses, and power that fails at any step.  Memory *)
(* is counted in MiB.                                                      *)
(***************************************************************************)
EXTENDS Integers, Sequences, SequencesExt, Functions

CONSTANTS
    Slots,        \* the number of SPD addresses (8 in the code, from 0x50)
    Dimms, Empty, \* what may be in a slot: an SPD record, or nothing
    Carved,       \* how much the firmware may keep from the map
    Images,       \* the manifest: a sequence of paths
    MaxCuts       \* bound: power failures

BootAssumption ==
    /\ Slots \in Nat /\ MaxCuts \in Nat /\ Empty \notin Dimms
    /\ Carved \subseteq Nat /\ Images \in Seq(Range(Images))

VARIABLES
    fitted, carved, bus,      \* the machine: modules, memory kept, SMBus reachable
    esp, genuine,             \* the disk: what each path holds, the manifest's signature
    sealed, tpm,              \* the keys sealed to the TPM exist; whether it works
    pc, slot, found, image,   \* the loader: where it is, modules found, entry at hand
    pcrs,                     \* what the TPM was extended with since power-on
    key, screen, post,        \* the volume key in memory, the screen, port 0x80
    acked, passed, cuts       \* history: an SPD answered, images that passed,
                              \* power failures

machine == <<fitted, carved, bus>>
disk == <<esp, genuine>>
output == <<key, screen, post>>
loaderVars == <<machine, disk, sealed, tpm, pc, slot, found, image, pcrs, output,
                acked, passed, cuts>>

MinRam == 8 * 1024
MapTolerance == 1024

-----------------------------------------------------------------------------
(* spd.rs: modules and the audit *)

Pow2(n) == 2 ^ n

\* Die capacity in megabits by DDR4 density code, and in gigabits by DDR5's.
Ddr4Die(code) == CASE code = 0 -> 256 [] code = 1 -> 512
                   [] code \in 2 .. 7 -> 1024 * Pow2(code - 2)
                   [] code = 8 -> 16 * 1024 [] code = 9 -> 32 * 1024
                   [] OTHER -> 0
Ddr5Die == <<4, 8, 12, 16, 24, 32, 48, 64>>

\* The capacity the loader computes, 0 where it knows the kind or the density
\* not; every division truncates, and DDR5 ranks are not read.
Ddr4Capacity(d) ==
    (Ddr4Die(d.density) \div 8) * ((8 * Pow2(d.bus)) \div (4 * Pow2(d.width))) * d.ranks
Ddr5Capacity(d) ==
    (Ddr5Die[d.density] \div 8) * ((8 * Pow2(d.bus)) \div (4 * Pow2(d.width)))
        * d.channels * 1024
Known(d) == \/ d.kind = "ddr4" /\ d.density \in 0 .. 9
            \/ d.kind = "ddr5" /\ d.density \in 1 .. 8
Capacity(d) == IF d.kind = "ddr4" THEN Ddr4Capacity(d) ELSE Ddr5Capacity(d)

\* What the module really holds: nothing truncated, every rank.
Holds(d) == IF d.kind = "ddr4"
            THEN (Ddr4Die(d.density) * 2 * Pow2(d.bus) * d.ranks) \div (8 * Pow2(d.width))
            ELSE (Ddr5Die[d.density] * 256 * Pow2(d.bus) * d.channels * d.ranks)
                     \div Pow2(d.width)

SpdTotal(caps) == FoldLeft(+, 0, caps)
Installed == SpdTotal([s \in 1 .. Slots |->
                        IF fitted[s] = Empty THEN 0 ELSE Holds(fitted[s])])

\* The sum of the conventional, boot-services and loader descriptors.
ConventionalMemory == IF Installed > carved THEN Installed - carved ELSE 0

\* Mutation of Audit: what the firmware keeps is not tolerated.
Audit_Exact(modules, map, available) ==
    IF available /\ modules = <<>> THEN "NO_MEMORY"
    ELSE IF available /\ SpdTotal(modules) > map THEN "MAP_MISMATCH"
    ELSE IF map < MinRam THEN "MEMORY_LOW"
    ELSE "passed"

Audit(modules, map, available) ==
    IF available /\ modules = <<>> THEN "NO_MEMORY"
    ELSE IF available /\ SpdTotal(modules) > map + MapTolerance THEN "MAP_MISMATCH"
    ELSE IF map < MinRam THEN "MEMORY_LOW"
    ELSE "passed"

-----------------------------------------------------------------------------
(* attest.rs: a digest identifies the contents it was taken of *)

Digest(path, contents) == <<path, contents>>
Manifest(path) == Digest(path, "signed")
PcrOf(path) == path

\* Mutation of VerifyImage: a file that is not there is passed over.
VerifyImage_Absent(path) ==
    esp[path] = "absent" \/ Digest(path, esp[path]) = Manifest(path)

VerifyImage(path) == esp[path] # "absent" /\ Digest(path, esp[path]) = Manifest(path)

-----------------------------------------------------------------------------
(* main.rs *)

PowerOn ==
    /\ pc = "probe" /\ slot = 1 /\ found = <<>> /\ image = 1 /\ pcrs = <<>>
    /\ key = FALSE /\ screen = "firmware" /\ post = "none"
    /\ acked = FALSE /\ passed = {}

LoaderInit ==
    /\ fitted \in [1 .. Slots -> Dimms \cup {Empty}] /\ carved \in Carved
    /\ bus \in BOOLEAN
    /\ esp \in [Range(Images) -> {"signed", "changed", "absent"}] /\ genuine \in BOOLEAN
    /\ sealed = TRUE /\ tpm \in {"works", "fails"} /\ cuts = 0
    /\ PowerOn

\* One address of enumerate: no answer, or one that times out half-way, or a
\* kind or density the loader does not know, skips the slot.
ProbeSlot ==
    /\ pc = "probe" /\ bus /\ slot <= Slots
    /\ LET d == fitted[slot]
       IN  \/ d # Empty /\ Known(d) /\ found' = Append(found, Capacity(d)) /\ acked' = TRUE
           \/ d # Empty /\ UNCHANGED found /\ acked' = TRUE
           \/ UNCHANGED <<found, acked>>
    /\ slot' = slot + 1
    /\ UNCHANGED <<machine, disk, sealed, tpm, pc, image, pcrs, output, passed, cuts>>

\* The banner needs a GOP; the code goes out on port 0x80 in any case.
HaltMemoryFault(fault) ==
    /\ screen' \in {screen, "memory fault"}
    /\ post' = fault /\ pc' = "halted"

AuditMemory ==
    /\ pc = "probe" /\ (bus => slot > Slots)
    /\ LET verdict == Audit(found, ConventionalMemory, bus)
       IN  IF verdict = "passed"
           THEN pc' = "manifest" /\ UNCHANGED <<screen, post>>
           ELSE HaltMemoryFault(verdict)
    /\ UNCHANGED <<machine, disk, sealed, tpm, slot, found, image, pcrs, key,
                   acked, passed, cuts>>

LoadSignedManifest ==
    /\ pc = "manifest" /\ pc' = IF genuine THEN "image" ELSE "tamper"
    /\ UNCHANGED <<machine, disk, sealed, tpm, slot, found, image, pcrs, output,
                   acked, passed, cuts>>

Extended == Append(pcrs, <<PcrOf(Images[image]), Digest(Images[image], esp[Images[image]])>>)

\* Mutation of ReadAndVerify: the measurement is taken before the comparison.
ReadAndVerify_MeasuresFirst ==
    /\ pc = "image" /\ image <= Len(Images)
    /\ pcrs' = IF tpm = "works" THEN Extended ELSE pcrs
    /\ IF VerifyImage(Images[image])
       THEN pc' = "image" /\ passed' = passed \cup {Images[image]} /\ image' = image + 1
       ELSE pc' = "tamper" /\ UNCHANGED <<image, passed>>
    /\ UNCHANGED <<machine, disk, sealed, tpm, slot, found, output, acked, cuts>>

ReadAndVerify ==
    /\ pc = "image" /\ image <= Len(Images)
    /\ IF VerifyImage(Images[image])
       THEN pc' = "measure" /\ passed' = passed \cup {Images[image]}
       ELSE pc' = "tamper" /\ UNCHANGED passed
    /\ UNCHANGED <<machine, disk, sealed, tpm, slot, found, image, pcrs, output,
                   acked, cuts>>

\* Mutation of Measure: an image the TPM did not take is tried again.
Measure_Retries ==
    /\ pc = "measure" /\ tpm = "works" /\ pcrs' = Extended
    /\ image' = image + 1 /\ pc' = "image"
    /\ UNCHANGED <<machine, disk, sealed, tpm, slot, found, output, acked, passed, cuts>>

\* The result of extending the PCR is dropped.
Measure ==
    /\ pc = "measure"
    /\ pcrs' = IF tpm = "works" THEN Extended ELSE pcrs
    /\ image' = image + 1 /\ pc' = "image"
    /\ UNCHANGED <<machine, disk, sealed, tpm, slot, found, output, acked, passed, cuts>>

UnlockRootVolume ==
    /\ pc = "image" /\ image > Len(Images)
    /\ key' = TRUE /\ pc' = "unlocked"
    /\ UNCHANGED <<machine, disk, sealed, tpm, slot, found, image, pcrs, screen, post,
                   acked, passed, cuts>>

BootKernel ==
    /\ pc = "unlocked" /\ pc' = "kernel"
    /\ UNCHANGED <<machine, disk, sealed, tpm, slot, found, image, pcrs, output,
                   acked, passed, cuts>>

\* Mutation of WipeSealedKeys: the banner is drawn before the TPM is cleared.
WipeSealedKeys_AfterBanner ==
    /\ pc = "tamper" /\ pc' = "wiped"
    /\ screen' \in {screen, "tamper"}
    /\ UNCHANGED <<machine, disk, sealed, tpm, slot, found, image, pcrs, key, post,
                   acked, passed, cuts>>

\* halt_tamper: the wipe, its result dropped, comes before the screen.
WipeSealedKeys ==
    /\ pc = "tamper" /\ pc' = "wiped"
    /\ sealed' = (sealed /\ tpm = "fails")
    /\ UNCHANGED <<machine, disk, tpm, slot, found, image, pcrs, output, acked, passed, cuts>>

HaltTamper ==
    /\ pc = "wiped" /\ pc' = "halted" /\ post' = "TAMPER"
    /\ screen' \in {screen, "tamper"}
    /\ UNCHANGED <<machine, disk, sealed, tpm, slot, found, image, pcrs, key,
                   acked, passed, cuts>>

\* Calls to the TPM begin to fail.
TpmFails ==
    /\ tpm = "works" /\ tpm' = "fails"
    /\ UNCHANGED <<machine, disk, sealed, pc, slot, found, image, pcrs, output,
                   acked, passed, cuts>>

\* Power fails at any step, or the user restarts the machine; the disk may have
\* changed before the next start.  Only the TPM's seal and the disk survive.
Restart ==
    /\ cuts < MaxCuts /\ cuts' = cuts + 1
    /\ esp' \in {[esp EXCEPT ![p] = c] : p \in DOMAIN esp, c \in {"signed", "changed"}}
    /\ pc' = "probe" /\ slot' = 1 /\ found' = <<>> /\ image' = 1 /\ pcrs' = <<>>
    /\ key' = FALSE /\ screen' = "firmware" /\ post' = "none"
    /\ acked' = FALSE /\ passed' = {}
    /\ tpm' \in {"works", "fails"}
    /\ UNCHANGED <<machine, genuine, sealed>>

Loader == \/ ProbeSlot \/ AuditMemory \/ LoadSignedManifest \/ ReadAndVerify \/ Measure
          \/ UnlockRootVolume \/ BootKernel \/ WipeSealedKeys \/ HaltTamper
LoaderNext == Loader \/ TpmFails \/ Restart
LoaderSpec == LoaderInit /\ [][LoaderNext]_loaderVars /\ WF_loaderVars(Loader)

-----------------------------------------------------------------------------
(* Properties *)

LoaderTypeOK ==
    /\ tpm \in {"works", "fails"}
    /\ pc \in {"probe", "manifest", "image", "measure", "unlocked", "kernel",
               "tamper", "wiped", "halted"}
    /\ slot \in 1 .. Slots + 1 /\ image \in 1 .. Len(Images) + 1
    /\ {key, sealed, acked} \subseteq BOOLEAN /\ cuts \in 0 .. MaxCuts

\* The volume key is in memory only in a boot that saw a genuine manifest and
\* every image it lists pass: the passphrase is asked for last, and a failure
\* path never leaves the key behind (main.rs:13-15).
KeyOnlyAfterAttestation ==
    key => genuine /\ passed = Range(Images) /\ \A p \in Range(Images) : esp[p] = "signed"

\* The PCRs take measurements of images that passed, in the order of the
\* manifest, and all of them unless the TPM failed (main.rs:11-12).
PcrsDescribeTheBoot ==
    /\ \A k \in DOMAIN pcrs : pcrs[k][2] = Manifest(pcrs[k][1]) /\ pcrs[k][1] \in passed
    /\ pc = "kernel" /\ tpm = "works" =>
        pcrs = [k \in DOMAIN Images |-> <<PcrOf(Images[k]), Manifest(Images[k])>>]

\* Whoever sees the tamper screen may cut the power: the keys are gone by then,
\* or the TPM failed (main.rs:112-113).
WipedBeforeDrawn == screen = "tamper" => ~sealed \/ tpm = "fails"

\* Nobody who may not has the keys, neither a boot that has not attested
\* everything nor whoever sees one fail; and the TPM knows which boot it was.
KeysGuarded == KeyOnlyAfterAttestation /\ WipedBeforeDrawn /\ PcrsDescribeTheBoot

\* A machine whose firmware keeps no more than the tolerance is not taken for one
\* that hides memory, whichever reads of the SMBus time out (spd.rs:54-58).
HonestMapAccepted == post = "MAP_MISMATCH" => carved > MapTolerance

\* A boot comes to an end: the kernel, or a halt with its code on the port, even
\* with a TPM that refuses every call (main.rs:75-82).
BootEnds == <>[](pc \in {"kernel", "halted"})

=============================================================================
