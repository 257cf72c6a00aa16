-------------------------------- MODULE Guard --------------------------------
(***************************************************************************)
(* The integrity guard (userland/whisez-guard/src/main.rs): it takes a     *)
(* baseline of some files, compares them with it on an interval, and scans *)
(* them for indicators, while other programs change and remove them        *)
(* between any two of its system calls.                                    *)
(***************************************************************************)
EXTENDS Integers, Sequences, FiniteSets

CONSTANTS
    Paths,         \* the sequence of paths a walk yields, in order
    Contents, Absent,
    Size,          \* the length of each contents
    Ends,          \* where the indicators each contents matches end in it
    MaxFiles,      \* --max-files
    MaxScanBytes,  \* MAX_SCAN_BYTES
    MaxChanges     \* bound: changes other programs make

GuardAssumption ==
    /\ Paths \in Seq({Paths[k] : k \in DOMAIN Paths})
    /\ \A j, k \in DOMAIN Paths : Paths[j] = Paths[k] => j = k
    /\ Absent \notin Contents /\ MaxFiles \in Nat /\ MaxScanBytes \in Nat
    /\ Size \in [Contents -> Nat] /\ Ends \in [Contents -> Seq(Nat)]

VARIABLES
    file,                  \* the disk: contents of each path, or Absent
    entries,               \* the baseline written so far: [size, hash] by path
    job, at, size, found,  \* the command, its next path, what it knows of that path
                           \* (nothing, that it exists, or its length), its findings
    unchanged,             \* paths verify counted as unchanged
    changes, held, steady  \* history: changes made, contents each path has had since
                           \* the command began, paths not touched since the baseline

disk == <<file, changes, held, steady>>
guardVars == <<file, entries, job, at, size, found, unchanged, changes, held, steady>>

Watched == {Paths[k] : k \in DOMAIN Paths}
NoSize == 0 - 1
Exists == 0 - 2
Path == Paths[at]

CommandInit ==
    /\ file \in [Watched -> Contents] /\ entries = <<>>
    /\ job = "baseline" /\ at = 1 /\ size = NoSize /\ found = <<>> /\ unchanged = {}
    /\ changes = 0 /\ held = [f \in Watched |-> {file[f]}] /\ steady = Watched

\* Another program writes, removes or puts back a file.
Change(f, c) ==
    /\ changes < MaxChanges /\ c # file[f]
    /\ file' = [file EXCEPT ![f] = c] /\ changes' = changes + 1
    /\ held' = [held EXCEPT ![f] = @ \cup {c}] /\ steady' = steady \ {f}
    /\ UNCHANGED <<entries, job, at, size, found, unchanged>>

\* verify asks first whether the path exists.
AskExists ==
    /\ job = "verify" /\ at <= Len(Paths) /\ size = NoSize /\ file[Path] # Absent
    /\ size' = Exists
    /\ UNCHANGED <<entries, job, at, found, unchanged, disk>>

\* fs::metadata, for baseline, verify and scan alike.
ReadMetadata ==
    /\ at <= Len(Paths) /\ job # "failed"
    /\ size = IF job = "verify" THEN Exists ELSE NoSize
    /\ job = "scan" => at <= MaxFiles
    /\ file[Path] # Absent
    /\ size' = Size[file[Path]]
    /\ UNCHANGED <<entries, job, at, found, unchanged, disk>>

Advance == at' = at + 1 /\ size' = NoSize

\* A path that is gone when it is read ends the command with an error.
Fails ==
    /\ at <= Len(Paths) /\ file[Path] = Absent
    /\ \/ job = "baseline"
       \/ job \in {"verify", "scan"} /\ size # NoSize
    /\ job' = "failed"
    /\ UNCHANGED <<entries, at, size, found, unchanged, disk>>

HashForBaseline ==
    /\ job = "baseline" /\ at <= Len(Paths) /\ size # NoSize /\ file[Path] # Absent
    /\ entries' = Append(entries, [size |-> size, hash |-> file[Path]])
    /\ Advance /\ UNCHANGED <<job, found, unchanged, disk>>

\* `exists` said no: a finding, and on to the next path.
Missing ==
    /\ job = "verify" /\ at <= Len(Paths) /\ size = NoSize /\ file[Path] = Absent
    /\ found' = Append(found, <<"missing", Path>>)
    /\ Advance /\ UNCHANGED <<entries, job, unchanged, disk>>

\* Mutation of Differs: equal metadata spares the digest.
Differs_BySize(entry, contents) == size # entry.size

Differs(entry, contents) == size # entry.size \/ contents # entry.hash

HashForVerify ==
    /\ job = "verify" /\ at <= Len(Paths) /\ size \notin {NoSize, Exists} /\ file[Path] # Absent
    /\ IF Differs(entries[at], file[Path])
       THEN found' = Append(found, <<"changed", Path>>) /\ UNCHANGED unchanged
       ELSE unchanged' = unchanged \cup {Path} /\ UNCHANGED found
    /\ Advance /\ UNCHANGED <<entries, job, disk>>

\* scan_path: a path whose metadata cannot be read is passed over ...
PassOver ==
    /\ job = "scan" /\ at <= Len(Paths) /\ at <= MaxFiles /\ size = NoSize /\ file[Path] = Absent
    /\ Advance /\ UNCHANGED <<entries, job, found, unchanged, disk>>

\* read_limit: the length that metadata gave, or MAX_SCAN_BYTES.
ReadLimit(length) == IF length <= MaxScanBytes THEN length ELSE MaxScanBytes

\* The indicators in the first `limit` bytes of the contents.
Indicators(contents, limit) ==
    Cardinality({k \in DOMAIN Ends[contents] : Ends[contents][k] <= limit})

Suspicious(contents, limit) == Indicators(contents, limit) >= 2

\* ... of the others as much is read as they had when their metadata was; two
\* indicators are a warning, four are critical.
InspectFile ==
    /\ job = "scan" /\ at <= Len(Paths) /\ size # NoSize /\ file[Path] # Absent
    /\ LET limit == ReadLimit(size)
       IN  found' = IF ~Suspicious(file[Path], limit) THEN found
                    ELSE Append(found, <<IF Indicators(file[Path], limit) >= 4
                                         THEN "critical" ELSE "warning", Path>>)
    /\ Advance /\ UNCHANGED <<entries, job, unchanged, disk>>

Done == (job = "scan" /\ at > MaxFiles) \/ at > Len(Paths)

\* The report is printed; the baseline is verified, and then scanned, on an
\* interval.
NextCommand ==
    /\ job # "failed" /\ Done
    /\ \E next \in {"verify", "scan"} : job' = next
    /\ at' = 1 /\ size' = NoSize /\ found' = <<>> /\ unchanged' = {}
    /\ held' = [f \in Watched |-> {file[f]}]
    /\ UNCHANGED <<file, entries, changes, steady>>

CommandNext ==
    \/ \E f \in Watched, c \in Contents \cup {Absent} : Change(f, c)
    \/ AskExists \/ ReadMetadata \/ Fails \/ HashForBaseline \/ Missing \/ HashForVerify
    \/ PassOver \/ InspectFile \/ NextCommand
CommandSpec == CommandInit /\ [][CommandNext]_guardVars

-----------------------------------------------------------------------------
(* Properties *)

Position(f) == CHOOSE k \in DOMAIN Paths : Paths[k] = f

\* A finished verification is right about every file, whatever happens to the
\* files meanwhile: one it calls unchanged had the digest of the baseline at some
\* moment since it began, and one it reports was touched since the baseline was
\* begun (main.rs:355-388).
ReportIsTrue ==
    job = "verify" /\ Done =>
        /\ \A f \in unchanged : entries[Position(f)].hash \in held[f]
        /\ \A k \in DOMAIN found : found[k][2] \notin steady
        /\ Cardinality(unchanged) + Len(found) = Len(Paths)

\* A finished scan reports every file it was allowed to inspect that showed two
\* indicators or more all the while, and showed them within the shortest length the
\* file had: of a file that grows in between only so much is read
\* (main.rs:404-447).
ScanIsComplete ==
    job = "scan" /\ Done =>
        \A k \in DOMAIN Paths :
            /\ k <= MaxFiles /\ Absent \notin held[Paths[k]]
            /\ \A c, earlier \in held[Paths[k]] : Suspicious(c, ReadLimit(Size[earlier]))
            => \E n \in DOMAIN found : found[n][2] = Paths[k]

\* What verify and scan report is true, and all of it.
ReportsHold == ReportIsTrue /\ ScanIsComplete
=============================================================================
