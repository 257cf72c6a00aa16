---------------------------- MODULE UserlandProofs --------------------------
(***************************************************************************)
(* The guard's reports, for any paths, contents and changes; the images    *)
(* the loader accepts, for any width and header; windows, the frame budget *)
(* and the estimate of render times; the screen of the desktop preview.    *)
(***************************************************************************)
EXTENDS Guard, PeImage, Compositor, RenderEstimator, DesktopPreview, Heuristic,
        Induction, SequenceTheorems, FiniteSetTheorems, TLAPS

(* The guard *)

Entry == [size : Nat, hash : Contents]
Finding == {"missing", "changed", "warning", "critical"} \X Watched

GuardTypeOK ==
    /\ file \in [Watched -> Contents \cup {Absent}]
    /\ entries \in Seq(Entry) /\ found \in Seq(Finding)
    /\ job \in {"baseline", "verify", "scan", "failed"}
    /\ at \in 1 .. Len(Paths) + 1 /\ size \in Nat \cup {NoSize, Exists}
    /\ held \in [Watched -> SUBSET (Contents \cup {Absent})]

\* What was read of a path that nobody has touched is what it still is.
Untouched ==
    /\ \A f \in steady : f \in Watched => file[f] # Absent
    /\ \A k \in DOMAIN entries : k \in DOMAIN Paths /\ Paths[k] \in steady =>
            entries[k].size = Size[file[Paths[k]]] /\ entries[k].hash = file[Paths[k]]
    /\ at <= Len(Paths) /\ size \notin {NoSize, Exists} /\ Path \in steady =>
            size = Size[file[Path]]
    /\ \A f \in Watched : file[f] \in held[f]

\* The length that is known of a path is one that it has had.
Measured ==
    /\ size = Exists => job \in {"verify", "failed"}
    /\ job = "scan" /\ at <= Len(Paths) /\ size # NoSize =>
            \E c \in held[Path] : c \in Contents /\ size = Size[c]

\* How long the baseline is.
Written ==
    /\ job = "baseline" => Len(entries) = at - 1
    /\ job \in {"verify", "scan"} => Len(entries) = Len(Paths)

\* A verification so far: each path before `at` is counted once, and rightly.
Verified ==
    job = "verify" =>
        /\ unchanged \subseteq {Paths[k] : k \in 1 .. at - 1} /\ IsFiniteSet(unchanged)
        /\ \A k \in 1 .. at - 1 :
                Paths[k] \in unchanged => entries[k].hash \in held[Paths[k]]
        /\ \A n \in DOMAIN found : found[n][2] \notin steady
        /\ Cardinality(unchanged) + Len(found) = at - 1

\* A scan so far.
AllTheWhile(f) ==
    /\ Absent \notin held[f]
    /\ \A c, earlier \in held[f] : Suspicious(c, ReadLimit(Size[earlier]))
Scanned ==
    job = "scan" =>
        \A k \in 1 .. at - 1 : k <= MaxFiles /\ AllTheWhile(Paths[k]) =>
            \E n \in DOMAIN found : found[n][2] = Paths[k]

GuardInv == GuardTypeOK /\ Untouched /\ Measured /\ Written /\ Verified /\ Scanned

-----------------------------------------------------------------------------
LEMMA PathFacts ==
    ASSUME GuardAssumption
    PROVE  /\ Len(Paths) \in Nat /\ DOMAIN Paths = 1 .. Len(Paths)
           /\ \A k \in 1 .. Len(Paths) : Paths[k] \in Watched
           /\ \A j, k \in 1 .. Len(Paths) : Paths[j] = Paths[k] => j = k
           /\ NoSize \notin Nat /\ Exists \notin Nat /\ NoSize # Exists
           /\ Absent \notin Contents /\ MaxFiles \in Nat
           /\ Size \in [Contents -> Nat]
  BY DEF GuardAssumption, Watched, NoSize, Exists

LEMMA AppendFacts ==
    ASSUME NEW S, NEW s \in Seq(S), NEW e \in S
    PROVE  /\ Append(s, e) \in Seq(S) /\ Len(s) \in Nat
           /\ DOMAIN s = 1 .. Len(s) /\ Len(Append(s, e)) = Len(s) + 1
           /\ DOMAIN Append(s, e) = 1 .. Len(s) + 1
           /\ \A k \in 1 .. Len(s) : Append(s, e)[k] = s[k]
           /\ Append(s, e)[Len(s) + 1] = e
  BY AppendProperties

LEMMA GuardInit == GuardAssumption /\ CommandInit => GuardInv
  <1> SUFFICES ASSUME GuardAssumption, CommandInit PROVE GuardInv
    OBVIOUS
  <1> USE PathFacts DEF CommandInit
  <1>1. GuardTypeOK
    BY DEF GuardTypeOK, Watched
  <1>2. Untouched /\ Measured
    BY DEF Untouched, Measured
  <1>3. Written /\ Verified /\ Scanned
    BY DEF Written, Verified, Scanned
  <1> QED
    BY <1>1, <1>2, <1>3 DEF GuardInv

\* Other programs: the touched path leaves `steady`, and `held` only grows.
LEMMA GuardChange ==
    ASSUME GuardAssumption, GuardInv, NEW f \in Watched, NEW c \in Contents \cup {Absent},
           Change(f, c)
    PROVE  GuardInv'
  <1> USE PathFacts DEF GuardInv, Change
  <1>1. GuardTypeOK'
    BY DEF GuardTypeOK
  <1>2. \A g \in Watched : /\ held[g] \subseteq held'[g]
                           /\ g # f => file'[g] = file[g]
                           /\ file'[f] = c /\ c \in held'[f]
    BY DEF GuardTypeOK
  <1>3. Untouched'
    BY <1>2 DEF Untouched, GuardTypeOK, Path
  <1>4. Written'
    BY DEF Written
  <1>m. Measured'
    <2>1. /\ UNCHANGED <<size, job, at>> /\ Path' = Path
          /\ at <= Len(Paths) => Path \in Watched
      BY DEF GuardTypeOK, Path
    <2> QED
      BY <1>2, <2>1 DEF Measured
  <1>5. /\ UNCHANGED <<entries, job, at, found, unchanged>> /\ steady' \subseteq steady
        /\ \A k \in 1 .. at - 1 : Paths[k] \in Watched
    BY DEF GuardTypeOK
  <1>6. Verified'
    <2> SUFFICES ASSUME job = "verify" PROVE Verified'
      BY <1>5 DEF Verified
    <2>1. \A k \in 1 .. at - 1 :
              Paths[k] \in unchanged => entries[k].hash \in held'[Paths[k]]
      BY <1>2, <1>5 DEF Verified
    <2> QED
      BY <1>5, <2>1 DEF Verified
  <1>7. Scanned'
    <2>1. \A k \in 1 .. at - 1 : AllTheWhile(Paths[k])' => AllTheWhile(Paths[k])
      BY <1>2, <1>5 DEF AllTheWhile
    <2> QED
      BY <1>5, <2>1 DEF Scanned
  <1> QED
    BY <1>1, <1>3, <1>4, <1>m, <1>6, <1>7

LEMMA GuardMetadata ==
    ASSUME GuardAssumption, GuardInv, AskExists \/ ReadMetadata \/ Fails PROVE GuardInv'
  <1> USE PathFacts DEF GuardInv, disk
  <1>1. CASE ReadMetadata
    <2>1. Path \in Watched /\ file[Path] \in Contents
      BY <1>1 DEF ReadMetadata, Path, GuardTypeOK
    <2> USE <1>1, <2>1 DEF ReadMetadata
    <2>2. GuardTypeOK'
      BY DEF GuardTypeOK
    <2>3. Untouched'
      BY DEF Untouched, Path
    <2>4. Measured'
      <3>1. Path' = Path /\ Size[file[Path]] \in Nat
        BY DEF Path
      <3> QED
        BY <3>1 DEF Measured, Untouched
    <2> QED
      BY <2>2, <2>3, <2>4 DEF Written, Verified, Scanned, AllTheWhile
  <1>2. CASE Fails
    BY <1>2 DEF Fails, GuardTypeOK, Untouched, Measured, Written, Verified, Scanned, Path
  <1>3. CASE AskExists
    BY <1>3 DEF AskExists, GuardTypeOK, Untouched, Measured, Written, Verified, Scanned,
       AllTheWhile, Path
  <1> QED
    BY <1>1, <1>2, <1>3

LEMMA GuardBaseline ==
    ASSUME GuardAssumption, GuardInv, HashForBaseline PROVE GuardInv'
  <1> USE PathFacts DEF GuardInv, disk, HashForBaseline, Advance
  <1> DEFINE e == [size |-> size, hash |-> file[Path]]
  <1>1. /\ Path \in Watched /\ file[Path] \in Contents /\ e \in Entry
        /\ at \in 1 .. Len(Paths) /\ size \notin {NoSize, Exists}
    BY DEF Path, GuardTypeOK, Entry, Measured
  <1>2. /\ entries' = Append(entries, e) /\ entries' \in Seq(Entry)
        /\ Len(entries) = at - 1 /\ Len(entries') = at
        /\ DOMAIN entries' = 1 .. at /\ DOMAIN entries = 1 .. at - 1
        /\ \A k \in 1 .. at - 1 : entries'[k] = entries[k]
        /\ entries'[at] = e
    <2>1. entries \in Seq(Entry) /\ Len(entries) = at - 1
      BY DEF GuardTypeOK, Written
    <2> HIDE DEF e
    <2> QED
      BY <1>1, <2>1, AppendFacts DEF e
  <1>3. GuardTypeOK'
    BY <1>1, <1>2 DEF GuardTypeOK
  <1>4. Untouched'
    <2>1. ASSUME NEW k \in 1 .. at, Paths[k] \in steady
          PROVE  /\ entries'[k].size = Size[file[Paths[k]]]
                 /\ entries'[k].hash = file[Paths[k]]
      <3>1. CASE k = at
        <4>1. size = Size[file[Path]] /\ Path = Paths[k]
          BY <1>1, <2>1, <3>1 DEF Untouched, Path
        <4> QED
          BY <1>1, <1>2, <3>1, <4>1
      <3>2. CASE k # at
        <4>1. k \in 1 .. at - 1 /\ k \in 1 .. Len(Paths)
          BY <1>1, <3>2
        <4>2. entries'[k] = entries[k] /\ k \in DOMAIN entries
          BY <1>2, <4>1
        <4> QED
          BY <2>1, <4>1, <4>2 DEF Untouched
      <3> QED
        BY <3>1, <3>2
    <2> QED
      BY <1>2, <2>1 DEF Untouched
  <1>5. Measured' /\ Written' /\ Verified' /\ Scanned'
    BY <1>2 DEF Measured, Written, Verified, Scanned
  <1> QED
    BY <1>3, <1>4, <1>5

\* A path that is counted is one more than those before it, and no other.
LEMMA GuardVerify ==
    ASSUME GuardAssumption, GuardInv, Missing \/ HashForVerify PROVE GuardInv'
  <1> USE PathFacts DEF GuardInv, disk, Advance
  <1>1. /\ job = "verify" /\ at \in 1 .. Len(Paths) /\ at' = at + 1 /\ size' = NoSize
        /\ Path \in Watched /\ Path = Paths[at]
        /\ UNCHANGED <<file, entries, job, held, steady>>
        /\ Len(entries) = Len(Paths) /\ at \in DOMAIN entries
    BY DEF Missing, HashForVerify, Path, GuardTypeOK, Written
  <1>2. \/ /\ \E w \in {"missing", "changed"} : found' = Append(found, <<w, Path>>)
           /\ unchanged' = unchanged /\ Path \notin steady
        \/ /\ unchanged' = unchanged \cup {Path} /\ found' = found
           /\ entries[at].hash = file[Path]
    <2>1. CASE Missing
      BY <1>1, <2>1 DEF Missing, Untouched
    <2>2. CASE HashForVerify
      <3>1. CASE Differs(entries[at], file[Path])
        BY <1>1, <2>2, <3>1 DEF HashForVerify, Differs, Untouched
      <3>2. CASE ~Differs(entries[at], file[Path])
        BY <1>1, <2>2, <3>2 DEF HashForVerify, Differs
      <3> QED
        BY <3>1, <3>2
    <2> QED
      BY <2>1, <2>2
  <1>3. Untouched' /\ Measured' /\ Written' /\ Scanned'
    BY <1>1 DEF Untouched, Measured, Written, Scanned
  <1>4. CASE unchanged' = unchanged \cup {Path} /\ found' = found /\ entries[at].hash = file[Path]
    <2>1. GuardTypeOK'
      BY <1>1, <1>4 DEF GuardTypeOK
    <2>2. Path \notin unchanged
      BY <1>1 DEF Verified
    <2>3. IsFiniteSet(unchanged') /\ Cardinality(unchanged') = Cardinality(unchanged) + 1
      BY <1>1, <1>4, <2>2, FS_AddElement DEF Verified
    <2>4. Cardinality(unchanged) \in Nat /\ Len(found) \in Nat
      BY <1>1, FS_CardinalityType DEF Verified, GuardTypeOK
    <2>5. \A k \in 1 .. at : Paths[k] \in unchanged' => entries[k].hash \in held[Paths[k]]
      BY <1>1, <1>4 DEF Verified, Untouched
    <2>6. unchanged' \subseteq {Paths[k] : k \in 1 .. at}
      BY <1>1, <1>4 DEF Verified
    <2>7. Verified'
      BY <1>1, <1>4, <2>3, <2>4, <2>5, <2>6 DEF Verified
    <2> QED
      BY <1>3, <2>1, <2>7
  <1>5. ASSUME NEW w \in {"missing", "changed"}, found' = Append(found, <<w, Path>>),
               unchanged' = unchanged, Path \notin steady
        PROVE  GuardInv'
    <2> DEFINE e == <<w, Path>>
    <2>1. e \in Finding /\ e[2] = Path /\ found \in Seq(Finding)
      BY <1>1 DEF Finding, GuardTypeOK
    <2>2. /\ found' \in Seq(Finding) /\ Len(found') = Len(found) + 1 /\ Len(found) \in Nat
          /\ DOMAIN found' = 1 .. Len(found) + 1 /\ DOMAIN found = 1 .. Len(found)
          /\ \A n \in 1 .. Len(found) : found'[n] = found[n]
          /\ found'[Len(found) + 1] = e
      <3> HIDE DEF e
      <3> QED
        BY <1>5, <2>1, AppendFacts DEF e
    <2>3. GuardTypeOK'
      BY <1>1, <2>2 DEF GuardTypeOK
    <2>4. \A n \in DOMAIN found' : found'[n][2] \notin steady
      <3>1. ASSUME NEW n \in 1 .. Len(found) PROVE found'[n][2] \notin steady
        BY <1>1, <2>2 DEF Verified
      <3>2. found'[Len(found) + 1][2] \notin steady
        BY <1>5, <2>1, <2>2
      <3> HIDE DEF e
      <3> QED
        BY <2>2, <3>1, <3>2
    <2>5. Paths[at] \notin unchanged
      BY <1>1 DEF Verified
    <2>6. Cardinality(unchanged) \in Nat
      BY <1>1, FS_CardinalityType DEF Verified
    <2>7. Verified'
      BY <1>1, <1>5, <2>2, <2>4, <2>5, <2>6 DEF Verified
    <2> QED
      BY <1>3, <2>3, <2>7
  <1> QED
    BY <1>2, <1>4, <1>5

LEMMA GuardScan ==
    ASSUME GuardAssumption, GuardInv, PassOver \/ InspectFile PROVE GuardInv'
  <1> USE PathFacts DEF GuardInv, disk, Advance
  <1>1. /\ job = "scan" /\ at \in 1 .. Len(Paths) /\ at' = at + 1 /\ size' = NoSize
        /\ Path \in Watched /\ Path = Paths[at]
        /\ UNCHANGED <<file, entries, job, unchanged, held, steady>>
    BY DEF PassOver, InspectFile, Path, GuardTypeOK
  <1>2. Untouched' /\ Measured' /\ Written' /\ Verified'
    BY <1>1 DEF Untouched, Measured, Written, Verified
  <1>3. CASE found' = found /\ ~AllTheWhile(Path)
    <2>1. GuardTypeOK'
      BY <1>1, <1>3 DEF GuardTypeOK
    <2>2. Scanned'
      BY <1>1, <1>3 DEF Scanned, AllTheWhile
    <2> QED
      BY <1>2, <2>1, <2>2
  <1>4. ASSUME NEW w \in {"critical", "warning"}, found' = Append(found, <<w, Path>>)
        PROVE  GuardInv'
    <2> DEFINE e == <<w, Path>>
    <2>1. e \in Finding /\ e[2] = Path /\ found \in Seq(Finding)
      BY <1>1 DEF Finding, GuardTypeOK
    <2>2. /\ found' \in Seq(Finding) /\ Len(found) \in Nat
          /\ DOMAIN found' = 1 .. Len(found) + 1 /\ DOMAIN found = 1 .. Len(found)
          /\ \A n \in 1 .. Len(found) : found'[n] = found[n]
          /\ found'[Len(found) + 1] = e
      <3> HIDE DEF e
      <3> QED
        BY <1>4, <2>1, AppendFacts DEF e
    <2>3. GuardTypeOK'
      BY <1>1, <2>2 DEF GuardTypeOK
    <2>4. ASSUME NEW k \in 1 .. at, k <= MaxFiles, AllTheWhile(Paths[k])
          PROVE  \E n \in DOMAIN found' : found'[n][2] = Paths[k]
      <3>1. CASE k = at
        BY <1>1, <2>1, <2>2, <3>1
      <3>2. CASE k # at
        <4>1. PICK n \in DOMAIN found : found[n][2] = Paths[k]
          BY <1>1, <2>4, <3>2 DEF Scanned
        <4> HIDE DEF e
        <4> QED
          BY <2>2, <4>1
      <3> QED
        BY <3>1, <3>2
    <2>5. Scanned'
      BY <1>1, <2>4 DEF Scanned, AllTheWhile
    <2> QED
      BY <1>2, <2>3, <2>5
  <1>5. CASE PassOver
    BY <1>1, <1>3, <1>5 DEF PassOver, Untouched, AllTheWhile
  <1>6. CASE InspectFile
    <2>1. CASE ~Suspicious(file[Path], ReadLimit(size))
      <3>1. PICK c \in held[Path] : size = Size[c]
        BY <1>1, <1>6 DEF InspectFile, Measured
      <3>2. file[Path] \in held[Path]
        BY <1>1 DEF Untouched
      <3>3. ~AllTheWhile(Path)
        BY <2>1, <3>1, <3>2 DEF AllTheWhile
      <3> QED
        BY <1>3, <1>6, <2>1, <3>3 DEF InspectFile
    <2>2. CASE Suspicious(file[Path], ReadLimit(size))
      BY <1>4, <1>6, <2>2 DEF InspectFile
    <2> QED
      BY <2>1, <2>2
  <1> QED
    BY <1>5, <1>6

\* A command starts over with what every file holds at that moment.
LEMMA GuardNext ==
    ASSUME GuardAssumption, GuardInv, NextCommand PROVE GuardInv'
  <1> USE PathFacts DEF GuardInv, NextCommand, Done
  <1>1. GuardTypeOK'
    BY DEF GuardTypeOK
  <1>2. Untouched' /\ Measured'
    BY DEF Untouched, Measured
  <1>3. Written'
    BY DEF Written, GuardTypeOK
  <1>4. IsFiniteSet({}) /\ Cardinality({}) = 0
    BY FS_EmptySet
  <1>5. Verified' /\ Scanned'
    BY <1>4 DEF Verified, Scanned
  <1> QED
    BY <1>1, <1>2, <1>3, <1>5

LEMMA GuardStep == GuardAssumption /\ GuardInv /\ [CommandNext]_guardVars => GuardInv'
  <1> SUFFICES ASSUME GuardAssumption, GuardInv, [CommandNext]_guardVars PROVE GuardInv'
    OBVIOUS
  <1>1. CASE UNCHANGED guardVars
    BY <1>1 DEF guardVars, GuardInv, GuardTypeOK, Untouched, Measured, Written,
                Verified, Scanned, AllTheWhile, Path
  <1>2. CASE CommandNext
    BY <1>2, GuardChange, GuardMetadata, GuardBaseline, GuardVerify, GuardScan,
       GuardNext DEF CommandNext
  <1> QED
    BY <1>1, <1>2

LEMMA GuardTells == GuardAssumption /\ GuardInv => ReportsHold
  <1> SUFFICES ASSUME GuardAssumption, GuardInv PROVE ReportsHold
    OBVIOUS
  <1> USE PathFacts DEF GuardInv
  <1>1. ReportIsTrue
    <2> SUFFICES ASSUME job = "verify", Done
                 PROVE  /\ \A f \in unchanged : entries[Position(f)].hash \in held[f]
                        /\ \A k \in DOMAIN found : found[k][2] \notin steady
                        /\ Cardinality(unchanged) + Len(found) = Len(Paths)
      BY DEF ReportIsTrue
    <2>1. at = Len(Paths) + 1
      BY DEF Done, GuardTypeOK
    <2>2. ASSUME NEW f \in unchanged PROVE entries[Position(f)].hash \in held[f]
      <3>1. \E k \in DOMAIN Paths : Paths[k] = f
        BY <2>1 DEF Verified
      <3>2. Position(f) \in DOMAIN Paths /\ Paths[Position(f)] = f
        BY <3>1 DEF Position
      <3> QED
        BY <2>1, <3>2 DEF Verified
    <2> QED
      BY <2>1, <2>2 DEF Verified
  <1>2. ScanIsComplete
    <2> SUFFICES ASSUME job = "scan", Done, NEW k \in 1 .. Len(Paths), k <= MaxFiles,
                        AllTheWhile(Paths[k])
                 PROVE  \E n \in DOMAIN found : found[n][2] = Paths[k]
      BY DEF ScanIsComplete, AllTheWhile
    <2>1. k \in 1 .. at - 1
      BY DEF Done, GuardTypeOK
    <2> QED
      BY <2>1 DEF Scanned
  <1> QED
    BY <1>1, <1>2 DEF ReportsHold

\* For any paths and any changes between any two system calls: a file that verify
\* counts as unchanged had the digest of the baseline at some moment of the command,
\* what it reports was touched, every path is counted once; and a scan reports
\* every file that was suspicious all the while, within the shortest length it had
\* (main.rs:355-388, 404-447).
THEOREM GuardReportsHold == GuardAssumption /\ CommandSpec => []ReportsHold
  <1>1. ASSUME GuardAssumption PROVE CommandSpec => []ReportsHold
    <2>1. CommandInit => GuardInv
      BY <1>1, GuardInit
    <2>2. GuardInv /\ [CommandNext]_guardVars => GuardInv'
      BY <1>1, GuardStep
    <2>3. GuardInv => ReportsHold
      BY <1>1, GuardTells
    <2> QED
      BY <2>1, <2>2, <2>3, PTL DEF CommandSpec
  <1> QED
    BY <1>1

-----------------------------------------------------------------------------
(* The image *)

LEMMA DivisionFacts ==
    ASSUME NEW v \in Nat, NEW a \in Nat \ {0}
    PROVE  /\ v \div a \in Nat /\ v % a \in 0 .. a - 1
           /\ v = a * (v \div a) + (v % a)
  OBVIOUS

\* A page below the next multiple lies below it as a whole.
LEMMA PageBounds ==
    ASSUME NEW v \in Nat, NEW n \in Nat, NEW k \in 0 .. n - 1, NEW a \in Nat \ {0}
    PROVE  /\ AlignDown(v, a) \in Int /\ AlignUp(v + n, a) \in Int
           /\ AlignDown(v, a) <= a * ((v + k) \div a)
           /\ a * ((v + k) \div a) < AlignUp(v + n, a)
  <1> DEFINE p == (v + k) \div a
             u == v + n + a - 1
  <1>1. /\ v \div a \in Nat /\ v % a \in 0 .. a - 1 /\ v = a * (v \div a) + (v % a)
    BY DivisionFacts
  <1>2. /\ p \in Nat /\ (v + k) % a \in 0 .. a - 1 /\ v + k = a * p + ((v + k) % a)
    <2>1. v + k \in Nat
      OBVIOUS
    <2> QED
      BY <2>1, DivisionFacts
  <1>3. /\ u \in Nat /\ u \div a \in Nat /\ u % a \in 0 .. a - 1 /\ u = a * (u \div a) + (u % a)
    <2>1. u \in Nat
      OBVIOUS
    <2> HIDE DEF u
    <2> QED
      BY <2>1, DivisionFacts
  <1>4. AlignDown(v, a) = a * (v \div a) /\ AlignUp(v + n, a) = a * (u \div a)
    <2>1. AlignUp(v + n, a) = u - (u % a)
      BY DEF AlignUp, AlignDown
    <2>2. AlignDown(v, a) = v - (v % a)
      BY DEF AlignDown
    <2> HIDE DEF u
    <2> QED
      BY <1>1, <1>3, <2>1, <2>2
  <1>5. v \div a <= p
    <2>1. a * (v \div a) < a * (p + 1)
      BY <1>1, <1>2
    <2> QED
      BY <1>1, <1>2, <2>1
  <1>6. p < u \div a
    <2>1. a * p < a * (u \div a)
      BY <1>2, <1>3
    <2> HIDE DEF p, u
    <2> QED
      BY <1>2, <1>3, <2>1
  <1> HIDE DEF p, u
  <1>7. a * (v \div a) <= a * p /\ a * p < a * (u \div a)
    BY <1>1, <1>2, <1>3, <1>5, <1>6
  <1>8. a * (v \div a) \in Int /\ a * (u \div a) \in Int
    BY <1>1, <1>3
  <1> QED
    BY <1>4, <1>7, <1>8 DEF p

\* Two sections with a page in common overlap, if pages do not straddle the units
\* that sections are aligned to.
LEMMA SharedPageOverlaps ==
    ASSUME PeAssumption, header.sectionAlign \in Nat \ {0},
           header.sectionAlign % PageSize = 0,
           NEW s \in SectionHeaders, NEW t \in SectionHeaders,
           NEW p \in Pages(s) \cap Pages(t)
    PROVE  Overlap(s, t)
  <1> DEFINE a == header.sectionAlign
  <1>1. /\ s.va \in Nat /\ Extent(s) \in Nat
        /\ t.va \in Nat /\ Extent(t) \in Nat
    BY DEF PeAssumption, SectionHeaders, Extent, Bigger
  <1> DEFINE n == a \div PageSize
             q == p \div n
  <1>n. n \in Nat \ {0} /\ a = PageSize * n /\ PageSize \in Nat \ {0}
    <2>1. PageSize \in Nat \ {0}
      BY DEF PeAssumption
    <2>2. n \in Nat /\ a = PageSize * n + (a % PageSize) /\ a % PageSize = 0
      BY <2>1, DivisionFacts
    <2> HIDE DEF n
    <2>3. a = PageSize * n
      BY <2>1, <2>2
    <2>4. n # 0
      BY <2>1, <2>3
    <2> QED
      BY <2>1, <2>2, <2>3, <2>4
  <1> HIDE DEF n
  <1>2. PICK k \in 0 .. Extent(s) - 1 : p = (s.va + k) \div PageSize
    BY DEF Pages
  <1>3. PICK m \in 0 .. Extent(t) - 1 : p = (t.va + m) \div PageSize
    BY DEF Pages
  <1>q. q = (s.va + k) \div a /\ q = (t.va + m) \div a
    <2>1. s.va + k \in Nat /\ t.va + m \in Nat
      BY <1>1
    <2>2. ASSUME NEW v \in Nat PROVE (v \div PageSize) \div n = v \div a
      <3>1. (v \div PageSize) \div n = v \div (PageSize * n)
        BY <1>n, DivDiv
      <3> HIDE DEF a
      <3> QED
        BY <1>n, <3>1
    <2> HIDE DEF a
    <2>3. /\ ((s.va + k) \div PageSize) \div n = (s.va + k) \div a
          /\ ((t.va + m) \div PageSize) \div n = (t.va + m) \div a
      BY <2>1, <2>2
    <2> QED
      BY <1>2, <1>3, <2>3
  <1> HIDE DEF q
  <1>4. Start(s) \in Int /\ End(s) \in Int /\ Start(s) <= a * q /\ a * q < End(s)
    BY <1>1, <1>q, PageBounds DEF Start, End
  <1>5. Start(t) \in Int /\ End(t) \in Int /\ Start(t) <= a * q /\ a * q < End(t)
    BY <1>1, <1>q, PageBounds DEF Start, End
  <1>6. a * q \in Int
    BY <1>1, <1>q
  <1> QED
    BY <1>4, <1>5, <1>6 DEF Overlap

-----------------------------------------------------------------------------
\* What has been read passed validation; once it is accepted no two overlap.
PeInv ==
    /\ header \in Headers /\ count \in Nat /\ sections \in Seq(SectionHeaders)
    /\ verdict \in {"headers", "sections", "refused", "accepted"}
    /\ verdict \in {"sections", "accepted"} => header.sectionAlign # 0
    /\ Len(sections) <= count
    /\ \A i \in 1 .. Len(sections) : ValidateSection(sections[i])
    /\ hadWx = (\E i \in 1 .. Len(sections) : sections[i].wx)
    /\ verdict = "accepted" =>
          /\ Len(sections) = count
          /\ \A i, j \in 1 .. count : i < j => ~Overlap(sections[i], sections[j])

LEMMA PeInit == PeAssumption /\ ImageInit => PeInv
  <1> SUFFICES ASSUME PeAssumption, ImageInit PROVE PeInv
    OBVIOUS
  <1>1. sections = <<>> /\ sections \in Seq(SectionHeaders) /\ Len(sections) = 0
    BY DEF ImageInit
  <1>2. hadWx = (\E i \in 1 .. Len(sections) : sections[i].wx)
    <2>1. ~\E i \in 1 .. Len(sections) : sections[i].wx
      BY <1>1
    <2> QED
      BY <2>1 DEF ImageInit
  <1> QED
    BY <1>1, <1>2 DEF PeAssumption, ImageInit, PeInv

LEMMA PeRead ==
    ASSUME PeAssumption, PeInv, NEW s \in SectionHeaders, ReadSection(s)
    PROVE  PeInv'
  <1> USE DEF PeInv, ReadSection
  <1>1. CASE ValidateSection(s)
    <2>1. /\ sections' = Append(sections, s) /\ sections' \in Seq(SectionHeaders)
          /\ Len(sections') = Len(sections) + 1 /\ Len(sections) \in Nat
          /\ \A i \in 1 .. Len(sections) : sections'[i] = sections[i]
          /\ sections'[Len(sections) + 1] = s
      BY <1>1, AppendProperties
    <2>2. \A i \in 1 .. Len(sections) + 1 : i \in 1 .. Len(sections) \/ i = Len(sections) + 1
      BY <2>1
    <2>3. \A i \in 1 .. Len(sections') : ValidateSection(sections'[i])
      BY <1>1, <2>1, <2>2
    <2>4. hadWx' = (\E i \in 1 .. Len(sections') : sections'[i].wx)
      <3>1. s.wx \in BOOLEAN
        BY DEF SectionHeaders
      <3>2. hadWx' = (hadWx \/ s.wx)
        BY <1>1
      <3>3. (\E i \in 1 .. Len(sections') : sections'[i].wx)
                <=> (\E i \in 1 .. Len(sections) : sections[i].wx) \/ s.wx
        BY <2>1, <2>2
      <3> QED
        BY <3>1, <3>2, <3>3
    <2>5. \A i \in 1 .. Len(sections') : ValidateSection(sections[i])'
      BY <2>3 DEF ValidateSection
    <2> QED
      BY <1>1, <2>1, <2>4, <2>5
  <1>2. CASE ~ValidateSection(s)
    BY <1>2 DEF ValidateSection
  <1> QED
    BY <1>1, <1>2

LEMMA PeStep == PeAssumption /\ PeInv /\ [ImageNext]_peVars => PeInv'
  <1> SUFFICES ASSUME PeAssumption, PeInv, [ImageNext]_peVars PROVE PeInv'
    OBVIOUS
  <1> USE DEF PeInv, ValidateSection, Overlap, Start, End
  <1>1. CASE ParseHeaders
    <2>1. PowerOfTwo(header.sectionAlign) => header.sectionAlign # 0
      BY DEF PowerOfTwo, PeAssumption
    <2> QED
      BY <1>1, <2>1 DEF ParseHeaders
  <1>2. CASE TruncatedSection
    BY <1>2 DEF TruncatedSection
  <1>3. CASE CheckNoOverlap
    BY <1>3 DEF CheckNoOverlap
  <1>4. CASE UNCHANGED peVars
    BY <1>4 DEF peVars
  <1> QED
    BY <1>1, <1>2, <1>3, <1>4, PeRead DEF ImageNext

LEMMA PeAccepts == PeAssumption /\ PeInv => PagesMappedOnce
  <1> SUFFICES ASSUME PeAssumption, PeInv, verdict = "accepted"
               PROVE  PagesMappedOnce
    BY DEF PagesMappedOnce
  <1>1. /\ header.sectionAlign \in Nat \ {0} /\ Len(sections) = count /\ count \in Nat
        /\ \A i \in 1 .. count : sections[i] \in SectionHeaders
    BY DEF PeInv, PeAssumption, Headers
  <1>2. ASSUME header.sectionAlign % PageSize = 0,
               NEW i \in 1 .. count, NEW j \in 1 .. count, i # j
        PROVE  Pages(sections[i]) \cap Pages(sections[j]) = {}
    <2>1. ~Overlap(sections[i], sections[j])
      <3>1. i < j \/ j < i
        BY <1>1, <1>2
      <3> QED
        BY <1>1, <3>1 DEF PeInv, Overlap
    <2> QED
      BY <1>1, <1>2, <2>1, SharedPageOverlaps
  <1>3. ASSUME NEW i \in 1 .. count, NEW k \in 0 .. sections[i].rawSize - 1
        PROVE  /\ sections[i].raw + k < header.file
               /\ sections[i].va + k < header.image
    <2>1. /\ sections[i].raw \in Nat /\ sections[i].rawSize \in Nat /\ sections[i].va \in Nat
          /\ sections[i].vsize \in Nat /\ header.file \in Nat /\ header.image \in Nat
      BY <1>1 DEF PeInv, PeAssumption, Headers, SectionHeaders
    <2>2. ValidateSection(sections[i])
      BY <1>1 DEF PeInv
    <2> QED
      BY <2>1, <2>2 DEF ValidateSection, Extent, Bigger
  <1>4. hadWx = (\E i \in 1 .. count : sections[i].wx)
    BY <1>1 DEF PeInv
  <1> QED
    BY <1>2, <1>3, <1>4 DEF PagesMappedOnce

\* For any page size, any sections and fields of any width, as long as their sums
\* are taken in more bits: an accepted image whose sections are aligned to whole
\* pages maps none of them twice, and no accepted image copies anything from outside
\* the file or to outside the image (pe.rs:270-349).
THEOREM PePagesMappedOnce == PeAssumption /\ ImageSpec => []PagesMappedOnce
  <1>1. ASSUME PeAssumption PROVE ImageSpec => []PagesMappedOnce
    <2>1. ImageInit => PeInv
      BY <1>1, PeInit
    <2>2. PeInv /\ [ImageNext]_peVars => PeInv'
      BY <1>1, PeStep
    <2>3. PeInv => PagesMappedOnce
      BY <1>1, PeAccepts
    <2> QED
      BY <2>1, <2>2, <2>3, PTL DEF ImageSpec
  <1> QED
    BY <1>1

-----------------------------------------------------------------------------
(* The desktop preview *)

\* In the middle of a turn the cursor on the screen is where it was before the
\* turn; what has changed has marked the screen to be painted again.
PreviewInv ==
    /\ selected \in Cards /\ view \in 0 .. 3 /\ redraw \in BOOLEAN /\ moved \in BOOLEAN
    /\ step \in {"keys", "pointers", "clicks", "paint"}
    /\ step = "keys" => cursors = {cursor}
    /\ step # "keys" => cursors = {old}
    /\ step # "keys" /\ ~moved => cursor = old
    /\ step = "keys" \/ ~redraw => painted = Shown(view, selected)
    /\ view # 0 => view = selected + 1

LEMMA PreviewInitInv == PreviewInit => PreviewInv
  <1> SUFFICES ASSUME PreviewInit PROVE PreviewInv
    OBVIOUS
  <1>1. selected \in Cards /\ view \in 0 .. 3 /\ view = 0
    BY DEF PreviewInit, Cards
  <1>2. redraw \in BOOLEAN /\ moved \in BOOLEAN
    BY Zenon DEF PreviewInit
  <1>3. step = "keys" /\ cursors = {cursor} /\ painted = Shown(view, selected)
    BY DEF PreviewInit
  <1> QED
    BY <1>1, <1>2, <1>3 DEF PreviewInv

LEMMA PreviewStep == PreviewInv /\ [PreviewNext]_previewVars => PreviewInv'
  <1> SUFFICES ASSUME PreviewInv, [PreviewNext]_previewVars PROVE PreviewInv'
    OBVIOUS
  <1> USE DEF PreviewInv, Cards
  <1>1. CASE Key
    <2>1. \/ redraw' = FALSE /\ UNCHANGED <<view, selected>>
          \/ redraw' = TRUE /\ view = 0 /\ view' = view /\ selected' \in Cards
          \/ redraw' = TRUE /\ selected' \in Cards /\ (view' = 0 \/ view' = selected' + 1)
      BY <1>1 DEF Key
    <2>2. /\ step = "keys" /\ step' = "pointers" /\ old' = cursor /\ moved' = FALSE
          /\ UNCHANGED <<cursor, painted, cursors>>
      BY <1>1 DEF Key
    <2>3. CASE redraw' = FALSE /\ UNCHANGED <<view, selected>>
      <3>1. Shown(view', selected') = Shown(view, selected)
        BY <2>3
      <3> QED
        BY <2>2, <2>3, <3>1
    <2>4. CASE redraw' = TRUE /\ view = 0 /\ view' = view /\ selected' \in Cards
      BY <2>2, <2>4
    <2>5. CASE redraw' = TRUE /\ selected' \in Cards /\ (view' = 0 \/ view' = selected' + 1)
      <3>1. view' \in 0 .. 3 /\ (view' # 0 => view' = selected' + 1)
        BY <2>5
      <3>2. redraw' \in BOOLEAN /\ selected' \in Cards /\ redraw'
        BY <2>5, Zenon
      <3> QED
        BY <2>2, <3>1, <3>2
    <2> QED
      BY <2>1, <2>3, <2>4, <2>5
  <1>2. ASSUME NEW m \in Moves, NEW keys \in SUBSET {"left", "right"},
               Pointer(m[1], m[2], keys)
        PROVE  PreviewInv'
    <2>1. CASE m[1] = 0 /\ m[2] = 0
      BY <1>2, <2>1 DEF Pointer
    <2>2. CASE ~(m[1] = 0 /\ m[2] = 0)
      <3> DEFINE x == AddClamped(cursor[1], PointerDelta(m[1]), ScreenWidth - 1)
                 y == AddClamped(cursor[2], PointerDelta(m[2]), ScreenHeight - 1)
                 hovered == IF view = 0 THEN Hovered(x, y) \ {selected} ELSE {}
      <3>1. hovered \subseteq Cards /\ (view # 0 => hovered = {})
        BY DEF Hovered
      <3>2. /\ moved' = TRUE /\ redraw' = (redraw \/ hovered # {})
            /\ selected' = (IF hovered = {} THEN selected ELSE CHOOSE c \in hovered : TRUE)
            /\ UNCHANGED <<view, step, old, painted, cursors>> /\ step = "pointers"
        BY <1>2, <2>2 DEF Pointer
      <3> HIDE DEF hovered
      <3>3. CASE hovered = {}
        BY <3>2, <3>3
      <3>4. CASE hovered # {}
        <4>1. selected' \in hovered
          BY <3>2, <3>4
        <4> QED
          BY <3>1, <3>2, <3>4, <4>1
      <3> QED
        BY <3>3, <3>4
    <2> QED
      BY <2>1, <2>2
  <1>3. CASE Polled
    BY <1>3 DEF Polled
  <1>4. CASE Click
    <2> DEFINE left == "left" \in buttons /\ ~leftDown
               right == "right" \in buttons /\ ~leftDown
               on == Hovered(cursor[1], cursor[2])
    <2>1. /\ step = "clicks" /\ step' = "paint"
          /\ UNCHANGED <<cursor, old, moved, painted, cursors>>
      BY <1>4 DEF Click
    <2>2. \/ view = 0 /\ \E c \in on : Opened(c)
          \/ view # 0 /\ view' = 0 /\ redraw' = TRUE /\ UNCHANGED selected
          \/ UNCHANGED <<view, redraw, selected>>
      <3> HIDE DEF on
      <3>1. CASE left /\ view = 0 /\ on # {}
        BY <1>4, <3>1 DEF Click, on
      <3>2. CASE ~(left /\ view = 0 /\ on # {})
        BY <1>4, <3>2 DEF Click, on
      <3> QED
        BY <3>1, <3>2
    <2>3. on \subseteq Cards
      BY DEF Hovered
    <2>4. \/ redraw' = TRUE /\ selected' \in Cards /\ (view' = 0 \/ view' = selected' + 1)
          \/ UNCHANGED <<view, redraw, selected>>
      BY <2>2, <2>3 DEF Opened
    <2>5. CASE redraw' = TRUE /\ selected' \in Cards /\ (view' = 0 \/ view' = selected' + 1)
      <3>1. view' \in 0 .. 3 /\ (view' # 0 => view' = selected' + 1)
        BY <2>5
      <3>2. redraw' \in BOOLEAN /\ selected' \in Cards /\ redraw'
        BY <2>5, Zenon
      <3> QED
        BY <2>1, <3>1, <3>2
    <2>6. CASE UNCHANGED <<view, redraw, selected>>
      <3>1. Shown(view', selected') = Shown(view, selected) /\ view' = view
            /\ selected' = selected
        BY <2>6
      <3>2. redraw' \in BOOLEAN /\ (~redraw' => ~redraw)
        BY <2>6, Zenon
      <3> QED
        BY <2>1, <3>1, <3>2
    <2> QED
      BY <2>4, <2>5, <2>6
  <1>5. CASE Paint
    BY <1>5 DEF Paint, Repaint
  <1>6. CASE UNCHANGED previewVars
    BY <1>6 DEF previewVars
  <1> QED
    BY <1>1, <1>2, <1>3, <1>4, <1>5, <1>6 DEF PreviewNext

\* Between two turns the boot preview's screen shows what its loop is in: on a
\* screen of any size, with any pointers, whatever they report.
THEOREM PreviewScreenIsCurrent == PreviewSpec => []ScreenIsCurrent
  <1>1. PreviewInv => ScreenIsCurrent
    BY DEF PreviewInv, ScreenIsCurrent
  <1> QED
    BY PreviewInitInv, PreviewStep, <1>1, PTL DEF PreviewSpec

-----------------------------------------------------------------------------
(* The estimate of render times *)

\* The slots of the last n frames, before the next one's.
Behind(next, n) ==
    {i \in 0 .. Window - 1 : (i < next /\ i >= next - n) \/ i >= Window + next - n}

\* The slow frames that the percentile leaves out of a full ring.
LeftOut == Window - (Window * 95) \div 100

EstimatorInv ==
    /\ slow \subseteq 0 .. Window - 1 /\ idx \in 0 .. Window - 1
    /\ filled \in 0 .. Window /\ streak \in Nat
    /\ Behind(idx, streak) \subseteq slow
    \* At the last recomputation the streak was this long.
    /\ streak - (idx % Recompute) >= LeftOut => cached = "slow"
    /\ idx % Recompute = 0 /\ filled > 0 => cached = Percentile(slow, filled)

LEMMA BehindCounts ==
    ASSUME Window \in Nat, NEW next \in 0 .. Window - 1, NEW n \in 0 .. Window
    PROVE  Cardinality(Behind(next, n)) = n
  <1>1. CASE n <= next
    <2>1. Behind(next, n) = next - n .. next - 1
      BY <1>1 DEF Behind
    <2>2. next - n \in Int /\ next - 1 \in Int
      OBVIOUS
    <2>3. Cardinality(next - n .. next - 1) =
              IF next - n > next - 1 THEN 0 ELSE (next - 1) - (next - n) + 1
      BY <2>2, FS_Interval
    <2> QED
      BY <2>1, <2>3
  <1>2. CASE n > next
    <2> DEFINE low == 0 .. next - 1
               high == Window + next - n .. Window - 1
    <2>1. Behind(next, n) = low \cup high /\ low \cap high = {}
      BY <1>2 DEF Behind
    <2>2. IsFiniteSet(low) /\ Cardinality(low) = next
      <3>1. 0 \in Int /\ next - 1 \in Int
        OBVIOUS
      <3>2. IsFiniteSet(low) /\ Cardinality(low) = IF 0 > next - 1 THEN 0 ELSE (next - 1) - 0 + 1
        BY <3>1, FS_Interval
      <3> QED
        BY <3>2
    <2>3. IsFiniteSet(high) /\ Cardinality(high) = n - next
      <3>1. Window + next - n \in Int /\ Window - 1 \in Int
        OBVIOUS
      <3>2. IsFiniteSet(high) /\ Cardinality(high) =
                IF Window + next - n > Window - 1 THEN 0
                ELSE (Window - 1) - (Window + next - n) + 1
        BY <3>1, FS_Interval
      <3> QED
        BY <1>2, <3>2
    <2> HIDE DEF low, high
    <2>4. Cardinality(low \cup high) = Cardinality(low) + Cardinality(high)
      BY <2>1, <2>2, <2>3, FS_Union, FS_EmptySet
    <2> QED
      BY <2>1, <2>2, <2>3, <2>4
  <1> QED
    BY <1>1, <1>2

\* A ring that holds the slow frames of a streak has at least as many, or is full.
LEMMA StreakCounts ==
    ASSUME NEW ring \in SUBSET (0 .. Window - 1), NEW next \in 0 .. Window - 1,
           NEW n \in Nat, Behind(next, n) \subseteq ring
    PROVE  /\ Cardinality(ring) \in Nat
           /\ n <= Window => Cardinality(ring) >= n
           /\ n >= Window => Cardinality(ring) >= Window
  <1> USE EstimatorAssumption
  <1>1. IsFiniteSet(ring) /\ Cardinality(ring) \in Nat
    <2>1. 0 \in Int /\ Window - 1 \in Int
      OBVIOUS
    <2>2. IsFiniteSet(0 .. Window - 1)
      BY <2>1, FS_Interval
    <2> QED
      BY <2>2, FS_Subset, FS_CardinalityType
  <1>2. ASSUME NEW m \in 0 .. Window, m <= n PROVE Cardinality(ring) >= m
    <2>1. Behind(next, m) \subseteq ring
      BY <1>2 DEF Behind
    <2>2. Cardinality(Behind(next, m)) = m
      BY BehindCounts
    <2>3. Cardinality(Behind(next, m)) <= Cardinality(ring)
      BY <1>1, <2>1, FS_Subset
    <2> QED
      BY <2>2, <2>3
  <1> QED
    BY <1>1, <1>2

\* More slow frames than the percentile leaves out of a full ring are too many
\* for a ring that is filling.
LEMMA EnoughAreSeen ==
    ASSUME NEW slots, NEW n \in 0 .. Window, Cardinality(slots) \in Nat,
           Cardinality(slots) >= LeftOut
    PROVE  Percentile(slots, n) = "slow"
  BY EstimatorAssumption DEF Percentile, LeftOut

LEMMA EstimatorStep ==
    EstimatorInv /\ [EstimatorNext]_renderVars => EstimatorInv'
  <1> SUFFICES ASSUME EstimatorInv, [EstimatorNext]_renderVars PROVE EstimatorInv'
    OBVIOUS
  <1> USE EstimatorAssumption
  <1>1. ASSUME NEW isSlow \in BOOLEAN, RecordFrame(isSlow) PROVE EstimatorInv'
    <2>1. /\ slow' \subseteq 0 .. Window - 1 /\ idx' \in 0 .. Window - 1
          /\ filled' \in 1 .. Window /\ streak' \in Nat
      BY <1>1 DEF EstimatorInv, RecordFrame
    <2>2. idx' = IF idx + 1 = Window THEN 0 ELSE idx + 1
      BY <1>1 DEF EstimatorInv, RecordFrame
    <2>3. Behind(idx', streak') \subseteq slow'
      <3>1. CASE isSlow
        <4>1. slow' = slow \cup {idx} /\ streak' = streak + 1
          BY <1>1, <3>1 DEF RecordFrame
        <4>2. \A i \in Behind(idx', streak') : i = idx \/ i \in Behind(idx, streak)
          BY <2>2, <4>1 DEF Behind, EstimatorInv
        <4> QED
          BY <4>1, <4>2 DEF EstimatorInv
      <3>2. CASE ~isSlow
        <4>1. streak' = 0
          BY <1>1, <3>2 DEF RecordFrame
        <4>2. Behind(idx', streak') = {}
          BY <2>1, <4>1 DEF Behind
        <4> QED
          BY <4>2
      <3> QED
        BY <3>1, <3>2
    <2>4. CASE idx' % Recompute = 0
      <3>1. cached' = Percentile(slow', filled')
        BY <1>1, <2>4 DEF RecordFrame
      <3>2. ASSUME streak' - (idx' % Recompute) >= LeftOut PROVE cached' = "slow"
        <4>1. streak' >= LeftOut /\ LeftOut <= Window
          <5>1. LeftOut \in Nat /\ LeftOut <= Window
            BY DEF LeftOut
          <5>2. streak' >= LeftOut
            <6> HIDE DEF LeftOut
            <6> QED
              BY <2>1, <2>4, <3>2, <5>1
          <5> QED
            BY <5>1, <5>2
        <4>2. isSlow /\ slow' = slow \cup {idx} /\ streak' = streak + 1
          BY <1>1, <4>1 DEF RecordFrame, LeftOut
        <4>3. Cardinality(slow') \in Nat /\ Cardinality(slow') >= LeftOut
          BY <2>1, <2>3, <4>1, StreakCounts DEF LeftOut
        <4> QED
          BY <2>1, <3>1, <4>3, EnoughAreSeen
      <3> QED
        BY <2>1, <2>3, <3>1, <3>2 DEF EstimatorInv
    <2>5. CASE idx' % Recompute # 0
      <3>1. cached' = cached /\ idx' = idx + 1 /\ idx' % Recompute = (idx % Recompute) + 1
        BY <1>1, <2>2, <2>5 DEF RecordFrame, Recompute, EstimatorInv
      <3>2. streak' = streak + 1 \/ streak' = 0
        BY <1>1 DEF RecordFrame
      <3>3. streak' - (idx' % Recompute) >= LeftOut => cached' = "slow"
        <4>1. LeftOut > 0
          BY DEF LeftOut
        <4> QED
          BY <3>1, <3>2, <4>1 DEF EstimatorInv, LeftOut, Recompute
      <3> QED
        BY <2>1, <2>3, <2>5, <3>3 DEF EstimatorInv
    <2> QED
      BY <2>4, <2>5
  <1>2. CASE UNCHANGED renderVars
    BY <1>2 DEF renderVars, EstimatorInv, Behind
  <1> QED
    BY <1>1, <1>2 DEF EstimatorNext

LEMMA EstimatorInvariant == EstimatorSpec => []EstimatorInv
  <1>1. EstimatorInit => EstimatorInv
    <2> SUFFICES ASSUME EstimatorInit PROVE EstimatorInv
      OBVIOUS
    <2> USE EstimatorAssumption DEF EstimatorInit
    <2>1. slow \subseteq 0 .. Window - 1 /\ idx \in 0 .. Window - 1
      OBVIOUS
    <2>2. Behind(idx, streak) = {}
      BY DEF Behind
    <2>3. LeftOut \in Nat \ {0}
      BY DEF LeftOut
    <2>4. streak - (idx % Recompute) = 0 /\ filled = 0 /\ streak \in Nat
      BY DEF Recompute
    <2>5. ~(streak - (idx % Recompute) >= LeftOut)
      BY <2>3, <2>4
    <2>6. filled \in 0 .. Window /\ ~(filled > 0)
      BY <2>4
    <2> QED
      BY <2>1, <2>2, <2>4, <2>5, <2>6 DEF EstimatorInv
  <1> QED
    BY <1>1, EstimatorStep, PTL DEF EstimatorSpec

\* A regression that lasts is in the estimate of render times, and one slow frame
\* is not, for a ring of any size.
THEOREM EstimatorRegressionSeen == EstimatorSpec => []RegressionSeen
  <1>1. EstimatorInv => RegressionSeen
    <2> SUFFICES ASSUME EstimatorInv PROVE RegressionSeen
      OBVIOUS
    <2> USE EstimatorAssumption
    <2>1. streak >= Window - (Window * 95) \div 100 + Recompute - 1 => cached = "slow"
      BY DEF EstimatorInv, LeftOut, Recompute
    <2>2. ASSUME Cardinality(slow) = 1, filled >= 2 * Recompute, idx % Recompute = 0
          PROVE  cached = "quick"
      <3>1. cached = Percentile(slow, filled) /\ filled \in Nat
        BY <2>2 DEF EstimatorInv, Recompute
      <3> QED
        BY <2>2, <3>1 DEF Percentile, Recompute
    <2> QED
      BY <2>1, <2>2 DEF RegressionSeen
  <1> QED
    BY EstimatorInvariant, <1>1, PTL

-----------------------------------------------------------------------------
(* The frame loop *)

\* The recursive definition, as equations.
LEMMA SettlingUnfolds ==
    ASSUME Cheap <= Hitch
    PROVE  /\ Settling[0] = Hitch
           /\ \A n \in 1 .. CooldownFrames :
                  /\ Settling[n - 1] \in Nat
                  /\ Settling[n] = (Settling[n - 1] * 7 + Cheap) \div 8
           /\ \A n \in 0 .. CooldownFrames : Settling[n] \in Nat /\ Settling[n] >= Cheap
  <1> DEFINE S == {x \in Nat : x >= Cheap}
             next == [p \in (1 .. CooldownFrames) \X S |-> (p[2] * 7 + Cheap) \div 8]
             Defines(f) == f = [n \in 0 .. CooldownFrames |->
                 IF n = 0 THEN Hitch ELSE (f[n - 1] * 7 + Cheap) \div 8]
  <1> USE BudgetAssumption
  <1>1. next \in [(1 .. CooldownFrames) \X S -> S] /\ Hitch \in S
    OBVIOUS
  <1>2. PICK f \in [0 .. CooldownFrames -> S] : Unfolds(f, CooldownFrames, Hitch, next)
    <2> HIDE DEF next, S
    <2> QED
      BY <1>1, PrimitiveRecursion
  <1>3. /\ \A n \in 0 .. CooldownFrames : f[n] \in S
        /\ f[0] = Hitch
        /\ \A n \in 1 .. CooldownFrames :
               n - 1 \in 0 .. CooldownFrames /\ f[n] = (f[n - 1] * 7 + Cheap) \div 8
    <2>1. /\ \A n \in 0 .. CooldownFrames : f[n] \in S
          /\ \A n \in 1 .. CooldownFrames : n - 1 \in 0 .. CooldownFrames
      OBVIOUS
    <2> QED
      BY <1>2, <2>1 DEF Unfolds
  <1>4. Defines(f)
    <2>1. \A n \in 0 .. CooldownFrames :
              f[n] = IF n = 0 THEN Hitch ELSE (f[n - 1] * 7 + Cheap) \div 8
      BY <1>3
    <2> QED
      BY <2>1
  <1>5. \A g : Defines(g) => g = f
    <2> SUFFICES ASSUME NEW g, Defines(g) PROVE g = f
      OBVIOUS
    <2> DEFINE Same == {n \in Nat : n <= CooldownFrames => g[n] = f[n]}
    <2>1. 0 \in Same
      BY <1>3
    <2>2. ASSUME NEW n \in Nat, n \in Same PROVE n + 1 \in Same
      BY <1>3, <2>2
    <2>3. Nat \subseteq Same
      <3> HIDE DEF Same
      <3> QED
        BY <2>1, <2>2, SetInduction
    <2>4. \A n \in 0 .. CooldownFrames : g[n] = f[n]
      <3>1. \A n \in 0 .. CooldownFrames : n \in Same
        <4> HIDE DEF Same
        <4> QED
          BY <2>3
      <3> QED
        BY <3>1
    <2>5. /\ g = [n \in 0 .. CooldownFrames |-> g[n]]
          /\ f = [n \in 0 .. CooldownFrames |-> f[n]]
      OBVIOUS
    <2> QED
      BY <2>4, <2>5
  <1>6. Settling = f
    <2> HIDE DEF Defines
    <2>1. Settling = CHOOSE g : Defines(g)
      BY DEF Settling, Defines
    <2> QED
      BY <1>4, <1>5, <2>1
  <1> QED
    BY <1>3, <1>6

\* Before the hitch nothing has been shed.  After it, either the average has come
\* down, or the cooldown still runs and the average is what so many cheap frames
\* leave of the hitch.
BudgetInv ==
    /\ ema \in Nat /\ cooldown \in Nat /\ hitches \in 0 .. 1 /\ sheds \in 0 .. 1
    /\ quality \in Minimal .. Full /\ stable \in Nat
    /\ hitches = 0 => ema <= 80 /\ sheds = 0 /\ cooldown = 0
    /\ hitches = 1 =>
           \/ ema <= 80
           \/ cooldown \in 1 .. CooldownFrames /\ ema <= Settling[CooldownFrames - cooldown]

LEMMA BudgetInit == Init => BudgetInv
  <1> SUFFICES ASSUME Init PROVE BudgetInv
    OBVIOUS
  <1>1. quality \in Minimal .. Full
    <2>1. quality = Minimal \/ quality = Full
      BY DEF Init
    <2> QED
      BY <2>1 DEF Minimal, Full
  <1> QED
    BY <1>1 DEF Init, BudgetInv

LEMMA RenderKeepsBudget ==
    ASSUME HitchSettles, BudgetInv, NEW cost \in {Cheap, Hitch}, Render(cost)
    PROVE  BudgetInv'
  <1> USE BudgetAssumption
  <1> DEFINE last == Settling[CooldownFrames]
  <1>1. /\ Settling[0] = Hitch /\ last \in Nat /\ last <= 80
        /\ \A n \in 1 .. CooldownFrames :
               /\ Settling[n - 1] \in Nat
               /\ Settling[n] = (Settling[n - 1] * 7 + Cheap) \div 8
        /\ \A n \in 0 .. CooldownFrames : Settling[n] \in Nat /\ Settling[n] >= Cheap
    BY SettlingUnfolds DEF HitchSettles
  <1>2. Cheap <= 80 /\ Cheap <= Hitch /\ cost \in Nat
    BY DEF HitchSettles
  <1>3. ema' = Average(cost) /\ ema' \in Nat
    BY <1>2 DEF Render, Record, Average, BudgetInv
  <1>4. /\ stable' \in Nat /\ quality' \in Minimal .. Full
        /\ cooldown' \in Nat
        /\ quality' < quality => cooldown' = CooldownFrames /\ ema' > 80 /\ Less(cooldown) = 0
        /\ \/ cooldown' = Less(cooldown)
           \/ cooldown' = CooldownFrames /\ ema' > 80 /\ Less(cooldown) = 0
        /\ ema' > 80 /\ Less(cooldown) = 0 => cooldown' = CooldownFrames
    <2>1. CASE ema' > 80
      BY <1>3, <2>1 DEF Render, Record, BudgetInv, Less, Lower, Minimal, Full
    <2>2. CASE ~(ema' > 80)
      BY <1>3, <2>2 DEF Render, Record, BudgetInv, Less, Raise, Minimal, Full
    <2> QED
      BY <2>1, <2>2
  <1>5. /\ hitches' = hitches + (IF cost = Hitch THEN 1 ELSE 0)
        /\ sheds' = sheds + (IF quality' < quality THEN 1 ELSE 0)
        /\ cost = Hitch => hitches = 0
    BY DEF Render
  <1>6. CASE cost = Hitch
    <2>1. hitches = 0 /\ hitches' = 1 /\ sheds = 0 /\ ema <= 80 /\ cooldown = 0
      BY <1>5, <1>6 DEF BudgetInv
    <2>2. ema' <= 80 \/ ema' <= Hitch
      BY <1>3, <1>6, <2>1 DEF Average, BudgetInv
    <2>3. sheds' \in 0 .. 1
      BY <1>5, <2>1
    <2>4. CASE ema' <= 80
      BY <1>3, <1>4, <2>1, <2>3, <2>4 DEF BudgetInv
    <2>5. CASE ema' > 80
      <3>1. cooldown' = CooldownFrames /\ ema' <= Settling[0]
        BY <1>1, <1>3, <1>4, <2>1, <2>2, <2>5 DEF Less
      <3>2. CooldownFrames # 0
        BY <1>1, <1>3, <2>5, <3>1
      <3> QED
        BY <1>3, <1>4, <2>1, <2>3, <3>1, <3>2 DEF BudgetInv
    <2> QED
      BY <1>3, <2>4, <2>5
  <1>7. CASE cost # Hitch
    <2>1. cost = Cheap /\ hitches' = hitches
      BY <1>5, <1>7 DEF BudgetInv
    <2>2. CASE ema <= 80
      <3>1. ema' <= 80
        BY <1>2, <1>3, <2>1, <2>2 DEF Average, BudgetInv
      <3>2. ~(quality' < quality) /\ cooldown' = Less(cooldown)
        BY <1>3, <1>4, <3>1
      <3>3. sheds' = sheds
        BY <1>5, <3>2 DEF BudgetInv
      <3> QED
        BY <1>3, <1>4, <2>1, <3>1, <3>2, <3>3 DEF BudgetInv, Less
    <2>3. CASE ~(ema <= 80)
      <3> DEFINE n == CooldownFrames - cooldown
      <3>1. /\ hitches = 1 /\ cooldown \in 1 .. CooldownFrames /\ ema <= Settling[n]
            /\ n + 1 \in 1 .. CooldownFrames /\ n \in 0 .. CooldownFrames
        BY <2>3 DEF BudgetInv
      <3>2. Settling[n] \in Nat /\ Settling[n + 1] = (Settling[n] * 7 + Cheap) \div 8
        BY <1>1, <3>1
      <3>3. ema' <= Settling[n + 1]
        BY <1>2, <1>3, <2>1, <2>3, <3>1, <3>2 DEF Average, BudgetInv
      <3>4. Less(cooldown) = cooldown - 1
        BY <3>1 DEF Less
      <3>5. CASE cooldown = 1
        <4>1. ema' <= 80
          BY <1>1, <1>3, <3>2, <3>3, <3>5
        <4>2. sheds' = sheds
          BY <1>3, <1>4, <1>5, <4>1 DEF BudgetInv
        <4> QED
          BY <1>3, <1>4, <2>1, <3>1, <4>1, <4>2 DEF BudgetInv
      <3>6. CASE cooldown # 1
        <4>1. cooldown' = cooldown - 1 /\ ~(quality' < quality)
          BY <1>4, <3>1, <3>4, <3>6
        <4>2. CooldownFrames - cooldown' = n + 1 /\ cooldown' \in 1 .. CooldownFrames
          BY <3>1, <3>6, <4>1
        <4>3. sheds' = sheds
          BY <1>5, <4>1 DEF BudgetInv
        <4>4. ema' <= Settling[CooldownFrames - cooldown'] /\ hitches' = 1
          BY <2>1, <3>1, <3>3, <4>2
        <4> QED
          BY <1>3, <1>4, <4>2, <4>3, <4>4 DEF BudgetInv
      <3> QED
        BY <3>5, <3>6
    <2> QED
      BY <2>2, <2>3
  <1> QED
    BY <1>6, <1>7

LEMMA BudgetStep == HitchSettles /\ BudgetInv /\ [Next]_vars => BudgetInv'
  <1> SUFFICES ASSUME HitchSettles, BudgetInv, [Next]_vars PROVE BudgetInv'
    OBVIOUS
  <1>1. \/ \E cost \in {Cheap, Hitch} : Render(cost)
        \/ UNCHANGED <<budget, hitches, sheds>>
    BY DEF Next, Frame, Open, Focus, Request, EndInput, Tick, Skip, vars
  <1>2. CASE UNCHANGED <<budget, hitches, sheds>>
    BY <1>2 DEF budget, BudgetInv
  <1> QED
    BY <1>1, <1>2, RenderKeepsBudget

\* One frame that takes long costs at most one tier of quality, whatever the frame
\* rate, the cost of a frame and the windows: as long as the average has come down
\* by the end of the cooldown, which is what the cooldown is sized to.
THEOREM CompositorOneHitchOneTier ==
    ASSUME HitchSettles PROVE Spec => []OneHitchOneTier
  <1>1. BudgetInv => OneHitchOneTier
    BY DEF BudgetInv, OneHitchOneTier
  <1> QED
    BY BudgetInit, BudgetStep, <1>1, PTL DEF Spec

\* A window that is due at the next tick is being animated.
WindowInv ==
    /\ state \in [Windows -> {"absent", "Opening", "Normal", "Dragging", "Minimising",
                              "Minimised", "Restoring", "Closing", "Gone"}]
    /\ transition \in [Windows -> Animated \cup {"none"}]
    /\ \A w \in due : w \in Windows /\ transition[w] # "none"
    /\ \A w \in Windows : AnimatesItsState(w) /\ GoneWasAskedFor(w)

LEMMA WindowStep == WindowInv /\ [Next]_vars => WindowInv'
  <1> SUFFICES ASSUME WindowInv, [Next]_vars PROVE WindowInv'
    OBVIOUS
  <1> USE DEF WindowInv, AnimatesItsState, GoneWasAskedFor
  <1>1. ASSUME NEW w \in Windows, Open(w) PROVE WindowInv'
    BY <1>1 DEF Open, Animated
  <1>2. ASSUME NEW w \in Windows, NEW t \in Targets, Request(w, t) PROVE WindowInv'
    BY <1>2 DEF Request, Valid, Animated
  <1>3. CASE Tick
    <2> DEFINE ticked == [w \in Windows |->
                              IF w \in due THEN After(transition[w]) ELSE state[w]]
    <2>1. \A w \in due : ticked[w] \in {"Normal", "Minimised", "Gone"}
      BY DEF After, Animated
    <2>2. \A w \in Windows \ due : ticked[w] = state[w]
      OBVIOUS
    <2>3. /\ transition' = [w \in Windows |-> IF w \in due THEN "none" ELSE transition[w]]
          /\ due' = {}
          /\ \/ /\ state' = [w \in Windows |-> IF ticked[w] = "Gone" THEN "absent" ELSE ticked[w]]
                /\ discarded' = discarded \ {w \in Windows : ticked[w] = "Gone"}
             \/ /\ state' = ticked /\ discarded' = discarded /\ ~NeedsRedraw
      BY <1>3 DEF Tick
    <2>6. ~NeedsRedraw => due = {}
      <3>1. ASSUME NEW w \in due PROVE w \in Present
        BY <3>1 DEF Present, Animated
      <3> QED
        BY <3>1 DEF NeedsRedraw
    <2> HIDE DEF ticked
    <2>7. ASSUME NEW w \in Windows, state'[w] = "Gone" PROVE w \in discarded'
      <3>1. state' = ticked /\ discarded' = discarded /\ due = {}
        BY <2>3, <2>6, <2>7
      <3> QED
        BY <2>2, <2>7, <3>1
    <2>4. \A w \in Windows : \/ state'[w] = ticked[w]
                             \/ ticked[w] = "Gone" /\ state'[w] = "absent"
      BY <2>3 DEF ticked
    <2>5. DOMAIN state' = Windows /\ state' = [w \in Windows |-> state'[w]]
      BY <2>3 DEF ticked
    <2> QED
      BY <2>1, <2>2, <2>3, <2>4, <2>5, <2>7 DEF Animated
  <1>4. CASE /\ UNCHANGED <<state, transition, discarded>>
             /\ due' \subseteq due \cup {w \in Windows : transition[w] # "none"}
    BY <1>4
  <1>5. ASSUME NEW done \in SUBSET {w \in Windows : transition[w] # "none"}, EndInput(done)
        PROVE  WindowInv'
    BY <1>4, <1>5 DEF EndInput
  <1>6. CASE Skip \/ UNCHANGED vars \/ \E cost \in {Cheap, Hitch} : Render(cost)
    BY <1>4, <1>6 DEF Skip, Render, vars, window
  <1>7. ASSUME NEW on, Focus(on) PROVE WindowInv'
    BY <1>4, <1>7 DEF Focus
  <1> QED
    BY <1>1, <1>2, <1>3, <1>5, <1>6, <1>7 DEF Next, Frame

\* However animations interrupt each other, a window's state is the one being
\* animated, a window at rest has no animation left, and one whose closing has run
\* out is released in that very frame: for any windows, and any states that are
\* asked for.
THEOREM CompositorAnimatesItsState ==
    Spec => [](\A w \in Windows : AnimatesItsState(w) /\ GoneWasAskedFor(w))
  <1>1. Init => WindowInv
    BY DEF Init, WindowInv, AnimatesItsState, GoneWasAskedFor, Animated
  <1>2. WindowInv => \A w \in Windows : AnimatesItsState(w) /\ GoneWasAskedFor(w)
    BY DEF WindowInv
  <1> QED
    BY WindowStep, <1>1, <1>2, PTL DEF Spec

-----------------------------------------------------------------------------
(* The behaviour score *)

\* A discount is a percentage: what is left of a weight is a natural number.
LEMMA WeightTypes == \A b \in Behaviours : Weight[b] \in Nat
  BY DEF Behaviours, Weight

LEMMA DiscountTypes == \A r \in Roles, b \in Behaviours : Discount(r, b) \in 0 .. 100
  BY DEF Discount

LEMMA DiscountedTypes == \A r \in Roles, b \in Behaviours : Discounted(r, b) \in Nat
  <1> SUFFICES ASSUME NEW r \in Roles, NEW b \in Behaviours PROVE Discounted(r, b) \in Nat
    OBVIOUS
  <1>1. Weight[b] \in Nat /\ 100 - Discount(r, b) \in Nat
    BY WeightTypes, DiscountTypes
  <1>2. Weight[b] * (100 - Discount(r, b)) \in Nat
    BY <1>1
  <1> QED
    BY <1>2, DivBounds DEF Discounted

\* A role that is spared nothing of the writes is spared nothing of the snapshot.
LEMMA DecisiveWeights ==
    ASSUME NEW r \in Roles, Discount(r, "WriteHighEntropy") = 0
    PROVE  Discounted(r, "WriteHighEntropy") = 12 /\ Discounted(r, "DestroySnapshot") = 35
  <1>1. Weight["WriteHighEntropy"] = 12 /\ Weight["DestroySnapshot"] = 35
    BY DEF Weight
  <1>2. Discount(r, "DestroySnapshot") = 0
    BY DEF Discount
  <1> QED
    BY <1>1, <1>2 DEF Discounted

\* Of a weight u that the score covers, given w at most for each unit of time, the
\* decayed score covers u less w for each unit that has passed.
LEMMA AfterDecay ==
    ASSUME NEW H \in Nat \ {0}, NEW s \in Nat, NEW e \in Nat, e <= H,
           NEW w \in Nat, NEW u \in Nat, u <= w * H, u <= H * s
    PROVE  u - w * e <= H * (s - (s * e) \div H)
  <1> DEFINE q == (s * e) \div H
  <1>1. s * e \in Nat
    OBVIOUS
  <1>2. q \in Nat /\ q * H <= s * e
    BY <1>1, DivBounds
  <1> HIDE DEF q
  <1>3. H * (s - q) = H * s - q * H
    BY <1>2
  <1>4. H * s - s * e <= H * (s - q)
    BY <1>2, <1>3
  <1>5. CASE s <= w
    <2>1. s * e <= w * e
      BY <1>5, Times
    <2> QED
      BY <1>4, <2>1 DEF q
  <1>6. CASE w <= s
    <2>1. H * s - s * e = s * (H - e) /\ w * H - w * e = w * (H - e)
      OBVIOUS
    <2>2. w * (H - e) <= s * (H - e)
      BY <1>6, Times
    <2> QED
      BY <1>4, <2>1, <2>2 DEF q
  <1> QED
    BY <1>5, <1>6

Kinds == DOMAIN Combinations
Bonus == [c \in Kinds |-> Combinations[c].bonus]

LEMMA BonusTypes ==
    /\ Kinds = {"ransomware", "exfiltration", "injection", "implant"} /\ IsFiniteSet(Kinds)
    /\ \A c \in Kinds : Bonus[c] \in Nat
    /\ Bonus["ransomware"] = 70
  <1>1. Kinds = {"ransomware", "exfiltration", "injection", "implant"}
    BY DEF Kinds, Combinations
  <1>2. IsFiniteSet({"ransomware"} \cup {"exfiltration"} \cup {"injection"} \cup {"implant"})
    BY FS_Singleton, FS_Union
  <1>3. Kinds = {"ransomware"} \cup {"exfiltration"} \cup {"injection"} \cup {"implant"}
    BY <1>1
  <1>4. ASSUME NEW c \in Kinds PROVE Combinations[c].bonus \in Nat
    BY <1>1 DEF Combinations
  <1>5. Combinations["ransomware"].bonus = 70
    BY DEF Combinations
  <1> QED
    BY <1>1, <1>2, <1>3, <1>4, <1>5 DEF Bonus

\* Bonuses of different combinations add up.
LEMMA BonusesAdd ==
    /\ \A s \in SUBSET Kinds : Bonuses(s) \in Nat
    /\ \A s, t \in SUBSET Kinds : s \cap t = {} => Bonuses(s \cup t) = Bonuses(s) + Bonuses(t)
    /\ \A s \in SUBSET Kinds : "ransomware" \in s => Bonuses(s) >= 70
    /\ Bonuses({}) = 0
  <1>1. \A s : Bonuses(s) = SumFunctionOnSet(Bonus, s)
    BY DEF Bonuses, Bonus, Kinds
  <1>2. \A s \in SUBSET Kinds : IsFiniteSet(s) /\ \A c \in s : Bonus[c] \in Nat
    BY BonusTypes, FS_Subset
  <1>3. ASSUME NEW s \in SUBSET Kinds PROVE SumFunctionOnSet(Bonus, s) \in Nat
    BY <1>2, SumType
  <1>4. ASSUME NEW s \in SUBSET Kinds, NEW t \in SUBSET Kinds, s \cap t = {}
        PROVE  SumFunctionOnSet(Bonus, s \cup t) = SumFunctionOnSet(Bonus, s) + SumFunctionOnSet(Bonus, t)
    <2> DEFINE S == Kinds
               f == Bonus
    <2>1. IsFiniteSet(S) /\ (\A c \in S : f[c] \in Nat) /\ s \in SUBSET S /\ t \in SUBSET S
      BY BonusTypes
    <2> HIDE DEF S, f
    <2>2. SumFunctionOnSet(f, s \cup t) = SumFunctionOnSet(f, s) + SumFunctionOnSet(f, t)
      BY <1>4, <2>1, SumOfUnion
    <2> QED
      BY <2>2 DEF f
  <1>5. ASSUME NEW s \in SUBSET Kinds, "ransomware" \in s PROVE SumFunctionOnSet(Bonus, s) >= 70
    <2>1. SumFunctionOnSet(Bonus, s) = Bonus["ransomware"] + SumFunctionOnSet(Bonus, s \ {"ransomware"})
      BY <1>2, <1>5, SumWithout
    <2>2. SumFunctionOnSet(Bonus, s \ {"ransomware"}) \in Nat
      BY <1>3
    <2> QED
      BY <2>1, <2>2, BonusTypes
  <1>6. SumFunctionOnSet(Bonus, {}) = 0
    BY SumUnfolds, FS_EmptySet
  <1> QED
    BY <1>1, <1>3, <1>4, <1>5, <1>6

\* Shifting to the right makes no number larger.
LEMMA ShiftedBound ==
    ASSUME NEW s \in Nat, NEW n \in Nat
    PROVE  Shifted(s, n) \in 0 .. s /\ (n = 0 => Shifted(s, n) = s)
  <1> DEFINE S == 0 .. s
             half == [p \in (1 .. n) \X S |-> p[2] \div 2]
             Defines(f) == f = [i \in 0 .. n |-> IF i = 0 THEN s ELSE f[i - 1] \div 2]
  <1>1. half \in [(1 .. n) \X S -> S] /\ s \in S
    OBVIOUS
  <1>2. PICK f \in [0 .. n -> S] : Unfolds(f, n, s, half)
    <2> HIDE DEF half, S
    <2> QED
      BY <1>1, PrimitiveRecursion
  <1>3. /\ \A i \in 0 .. n : f[i] \in S
        /\ f[0] = s
        /\ \A i \in 1 .. n : i - 1 \in 0 .. n /\ f[i] = f[i - 1] \div 2
    <2>1. /\ \A i \in 0 .. n : f[i] \in S
          /\ \A i \in 1 .. n : i - 1 \in 0 .. n
      OBVIOUS
    <2> QED
      BY <1>2, <2>1 DEF Unfolds
  <1>4. Defines(f)
    <2>1. \A i \in 0 .. n : f[i] = IF i = 0 THEN s ELSE f[i - 1] \div 2
      BY <1>3
    <2> QED
      BY <2>1
  <1> DEFINE g == CHOOSE h : Defines(h)
  <1>5. Defines(g)
    BY <1>4
  <1>6. Shifted(s, n) = g[n]
    BY DEF Shifted
  <1> HIDE DEF g
  <1> DEFINE T == {k \in Nat : k <= n => g[k] \in S}
  <1>7. g[0] = s /\ \A i \in 1 .. n : g[i] = g[i - 1] \div 2
    BY <1>5
  <1>8. 0 \in T
    BY <1>7
  <1>9. ASSUME NEW k \in Nat, k \in T PROVE k + 1 \in T
    <2> SUFFICES ASSUME k + 1 <= n PROVE g[k + 1] \in S
      OBVIOUS
    <2>1. k + 1 \in 1 .. n /\ g[k] \in S
      BY <1>9
    <2>2. g[k + 1] = g[k] \div 2
      BY <1>7, <2>1
    <2> QED
      BY <2>1, <2>2
  <1>10. n \in T
    <2> HIDE DEF T
    <2>1. Nat \subseteq T
      BY <1>8, <1>9, SetInduction
    <2> QED
      BY <2>1
  <1> QED
    BY <1>6, <1>7, <1>10

LEMMA HalfLifeType == HalfLife \in Nat \ {0} /\ 2 * HalfLife \in Nat \ {0} /\ HalfMinute \in Nat \ {0}
  BY ProfileAssumption DEF HalfLife

\* The decay adds nothing, and within a half-life it is linear.
LEMMA DecayBounds ==
    ASSUME NEW s \in Nat, NEW elapsed \in Nat
    PROVE  /\ Decay(s, elapsed) \in 0 .. s
           /\ elapsed < HalfLife => Decay(s, elapsed) = s - (s * elapsed) \div (2 * HalfLife)
  <1> DEFINE periods == elapsed \div HalfLife
             rest == elapsed % HalfLife
             halved == Shifted(s, periods)
             q == (halved * rest) \div (2 * HalfLife)
  <1>1. periods \in Nat /\ rest \in 0 .. HalfLife - 1
    BY HalfLifeType
  <1>2. elapsed < HalfLife => periods = 0 /\ rest = elapsed
    BY HalfLifeType
  <1>3. halved \in 0 .. s /\ (periods = 0 => halved = s)
    BY <1>1, ShiftedBound
  <1>4. q \in 0 .. halved
    <2>1. halved * rest \in Nat
      BY <1>1, <1>3
    <2>2. q \in Nat /\ q * (2 * HalfLife) <= halved * rest
      BY <2>1, HalfLifeType, DivBounds
    <2>3. halved * rest <= halved * (2 * HalfLife)
      BY <1>1, <1>3, HalfLifeType, Times
    <2> HIDE DEF q, halved
    <2>4. ~(halved < q)
      <3> SUFFICES ASSUME halved + 1 <= q PROVE FALSE
        BY <1>3, <2>2
      <3>1. (halved + 1) * (2 * HalfLife) <= q * (2 * HalfLife)
        BY <1>3, <2>2, HalfLifeType, Times
      <3>2. (halved + 1) * (2 * HalfLife) = halved * (2 * HalfLife) + 2 * HalfLife
        BY <1>3, HalfLifeType
      <3> QED
        BY <1>1, <1>3, <2>2, <2>3, <3>1, <3>2, HalfLifeType
    <2> QED
      BY <1>3, <2>2, <2>4
  <1>5. Decay(s, elapsed) = IF periods >= 32 THEN 0 ELSE halved - q
    BY DEF Decay
  <1>6. Decay(s, elapsed) \in 0 .. s
    <2> HIDE DEF periods, halved, q
    <2> QED
      BY <1>3, <1>4, <1>5
  <1>7. ASSUME elapsed < HalfLife PROVE Decay(s, elapsed) = s - (s * elapsed) \div (2 * HalfLife)
    <2>1. halved = s /\ rest = elapsed /\ ~(periods >= 32)
      BY <1>2, <1>3, <1>7
    <2> QED
      BY <1>5, <2>1
  <1> QED
    BY <1>6, <1>7

-----------------------------------------------------------------------------
Items == [is : Behaviours, age : Nat]
Whole == 2 * HalfLife
Left(o) == Whole - o.age
Writes(o) == o.is = "WriteHighEntropy" /\ o.age <= 3 * HalfMinute
Destroys(o) == o.is = "DestroySnapshot" /\ o.age <= 3 * HalfMinute

\* Of a write and of a destroyed snapshot in the last 90 s, the score s still has
\* the weight that a linear decay over two half-lives leaves.
StillWeighs(h, s) ==
    /\ \A i \in DOMAIN h : Writes(h[i]) => 12 * Left(h[i]) <= Whole * s
    /\ \A j \in DOMAIN h : Destroys(h[j]) => 35 * Left(h[j]) <= Whole * s
    /\ \A i, j \in DOMAIN h :
           Writes(h[i]) /\ Destroys(h[j]) => 12 * Left(h[i]) + 35 * Left(h[j]) <= Whole * s

ProfileTypes ==
    /\ role \in Roles /\ repertoire \in Repertoires
    /\ history \in Seq(Items) /\ score \in 0 .. MaxScore
    /\ credited \in SUBSET Kinds /\ earned \in Nat

BonusOnce == score <= earned + Bonuses(credited)

ProfileInv ==
    /\ ProfileTypes
    /\ BonusOnce
    /\ Discount(role, "WriteHighEntropy") = 0 => StillWeighs(history, score)

\* The parts of an observation.
Aged(elapsed) == [k \in DOMAIN history |-> [history[k] EXCEPT !.age = @ + elapsed]]
Recent(b, elapsed) ==
    Append(IF Len(Aged(elapsed)) = Ring THEN Tail(Aged(elapsed)) ELSE Aged(elapsed), [is |-> b, age |-> 0])
Before(elapsed) == IF elapsed > 0 /\ Decay(score, elapsed) = 0 THEN {} ELSE credited
Fired(b, elapsed) == CheckCombinations(Recent(b, elapsed), Before(elapsed))
Weighed(b, elapsed) == Saturated(Decay(score, elapsed) + Discounted(role, b))

LEMMA ObserveParts ==
    ASSUME NEW b, NEW elapsed, Observe(b, elapsed)
    PROVE  /\ history' = Recent(b, elapsed)
           /\ score' = Saturated(Weighed(b, elapsed) + Bonuses(Fired(b, elapsed)))
           /\ credited' = Before(elapsed) \cup Fired(b, elapsed)
           /\ earned' = Discounted(role, b) + (IF Decay(score, elapsed) = 0 THEN 0 ELSE earned)
           /\ role' = role /\ repertoire' = repertoire
  BY DEF Observe, Aged, Recent, Before, Fired, Weighed, process

\* The observation just made, and those made before it.
New(b) == [is |-> b, age |-> 0]
OldOf(o, elapsed) == \E k \in DOMAIN history :
    o.is = history[k].is /\ o.age = history[k].age + elapsed

\* What is remembered is the new observation and older ones.
LEMMA RecentItems ==
    ASSUME ProfileTypes, NEW b \in Behaviours, NEW elapsed \in Nat
    PROVE  /\ Recent(b, elapsed) \in Seq(Items)
           /\ \A k \in DOMAIN Recent(b, elapsed) :
                  Recent(b, elapsed)[k] = New(b) \/ OldOf(Recent(b, elapsed)[k], elapsed)
  <1> DEFINE a == Aged(elapsed)
             r == IF Len(a) = Ring THEN Tail(a) ELSE a
  <1>1. /\ Len(history) \in Nat /\ DOMAIN history = 1 .. Len(history)
        /\ \A k \in 1 .. Len(history) : history[k] \in Items
    BY DEF ProfileTypes
  <1>2. ASSUME NEW k \in 1 .. Len(history)
        PROVE  a[k] \in Items /\ a[k].is = history[k].is /\ a[k].age = history[k].age + elapsed
    <2>1. a[k] = [history[k] EXCEPT !.age = @ + elapsed]
      BY <1>1 DEF Aged
    <2> QED
      BY <1>1, <2>1 DEF Items
  <1>3. a = [k \in 1 .. Len(history) |-> a[k]]
    BY <1>1 DEF Aged
  <1>4. a \in Seq(Items) /\ Len(a) = Len(history)
    <2> HIDE DEF a
    <2> QED
      BY <1>1, <1>2, <1>3
  <1>5. \A k \in 1 .. Len(a) : OldOf(a[k], elapsed)
    BY <1>1, <1>2, <1>4 DEF OldOf
  <1> HIDE DEF a
  <1>6. r \in Seq(Items) /\ \A k \in 1 .. Len(r) : OldOf(r[k], elapsed)
    <2>1. CASE Len(a) = Ring
      <3>1. a # <<>>
        BY <2>1, ProfileAssumption
      <3>2. Tail(a) \in Seq(Items) /\ Len(Tail(a)) = Len(a) - 1
        BY <1>4, <3>1
      <3>3. \A k \in 1 .. Len(Tail(a)) : Tail(a)[k] = a[k + 1] /\ k + 1 \in 1 .. Len(a)
        BY <1>4, <3>1
      <3> QED
        BY <1>5, <2>1, <3>2, <3>3
    <2>2. CASE Len(a) # Ring
      BY <1>4, <1>5, <2>2
    <2> QED
      BY <2>1, <2>2
  <1>7. Recent(b, elapsed) = Append(r, New(b))
    BY DEF Recent, a, New
  <1>8. New(b) \in Items
    BY DEF New, Items
  <1> HIDE DEF r
  <1>9. /\ Append(r, New(b)) \in Seq(Items)
        /\ \A k \in 1 .. Len(r) + 1 : Append(r, New(b))[k] = IF k = Len(r) + 1 THEN New(b) ELSE r[k]
        /\ DOMAIN Append(r, New(b)) = 1 .. Len(r) + 1
    BY <1>6, <1>8
  <1> QED
    BY <1>6, <1>7, <1>9

LEMMA SaturatedTypes ==
    ASSUME NEW s \in Nat
    PROVE  /\ Saturated(s) \in 0 .. MaxScore /\ Saturated(s) <= s
           /\ \A t \in Nat : t <= s /\ t <= MaxScore => t <= Saturated(s)
  BY ProfileAssumption DEF Saturated

\* The old observations weigh on through the decay.
LEMMA OldStillWeighs ==
    ASSUME ProfileInv, Discount(role, "WriteHighEntropy") = 0, NEW elapsed \in Nat,
           NEW o \in Items, OldOf(o, elapsed), NEW p \in Items, OldOf(p, elapsed)
    PROVE  LET s == Decay(score, elapsed)
           IN  /\ Writes(o) => 12 * Left(o) <= Whole * s
               /\ Destroys(p) => 35 * Left(p) <= Whole * s
               /\ Writes(o) /\ Destroys(p) => 12 * Left(o) + 35 * Left(p) <= Whole * s
  <1> DEFINE s == Decay(score, elapsed)
  <1>1. PICK i \in DOMAIN history : o.is = history[i].is /\ o.age = history[i].age + elapsed
    BY DEF OldOf
  <1>2. PICK j \in DOMAIN history : p.is = history[j].is /\ p.age = history[j].age + elapsed
    BY DEF OldOf
  <1> DEFINE x == history[i].age
             y == history[j].age
             T == HalfMinute
  <1>3. /\ score \in Nat /\ x \in Nat /\ y \in Nat
        /\ o.age \in Nat /\ p.age \in Nat
    <2>1. history[i] \in Items /\ history[j] \in Items /\ score \in 0 .. MaxScore /\ MaxScore \in Nat
      BY ProfileAssumption DEF ProfileInv, ProfileTypes
    <2> QED
      BY <2>1 DEF Items
  <1>4. Whole = 20 * T /\ HalfLife = 10 * T /\ T \in Nat \ {0}
    BY HalfLifeType DEF Whole, HalfLife
  <1>5. StillWeighs(history, score)
    BY DEF ProfileInv
  <1>6. elapsed < HalfLife => s = score - (score * elapsed) \div Whole
    BY <1>3, DecayBounds DEF Whole
  <1>7. ASSUME Writes(o)
        PROVE  /\ x + elapsed <= 3 * T /\ Left(o) = Whole - x - elapsed
               /\ 12 * (Whole - x) <= Whole * score /\ Writes(history[i])
    <2>1. x + elapsed <= 3 * T
      BY <1>1, <1>3, <1>7 DEF Writes
    <2>2. Writes(history[i]) /\ Left(history[i]) = Whole - x /\ Left(o) = Whole - x - elapsed
      BY <1>1, <1>3, <1>4, <1>7, <2>1 DEF Writes, Left
    <2> QED
      BY <1>5, <2>1, <2>2 DEF StillWeighs
  <1>8. ASSUME Destroys(p)
        PROVE  /\ y + elapsed <= 3 * T /\ Left(p) = Whole - y - elapsed
               /\ 35 * (Whole - y) <= Whole * score /\ Destroys(history[j])
    <2>1. y + elapsed <= 3 * T
      BY <1>2, <1>3, <1>8 DEF Destroys
    <2>2. Destroys(history[j]) /\ Left(history[j]) = Whole - y /\ Left(p) = Whole - y - elapsed
      BY <1>2, <1>3, <1>4, <1>8, <2>1 DEF Destroys, Left
    <2> QED
      BY <1>5, <2>1, <2>2 DEF StillWeighs
  <1>9. ASSUME Writes(o), Destroys(p)
        PROVE  12 * (Whole - x) + 35 * (Whole - y) <= Whole * score
    <2>1. Left(history[i]) = Whole - x /\ Left(history[j]) = Whole - y
      BY DEF Left
    <2> QED
      BY <1>5, <1>7, <1>8, <1>9, <2>1 DEF StillWeighs
  <1> HIDE DEF x, y, T, s
  <1>10. ASSUME NEW w \in Nat, NEW u \in Nat, u <= w * Whole, u <= Whole * score, elapsed <= 3 * T
         PROVE  u - w * elapsed <= Whole * s
    <2>1. elapsed < HalfLife /\ elapsed <= Whole /\ Whole \in Nat \ {0}
      BY <1>4, <1>10
    <2> QED
      BY <1>3, <1>6, <1>10, <2>1, AfterDecay
  <1>11. ASSUME Writes(o) PROVE 12 * Left(o) <= Whole * s
    <2> DEFINE u == 12 * (Whole - x)
    <2>1. u \in Nat /\ u <= 12 * Whole /\ elapsed <= 3 * T /\ u - 12 * elapsed = 12 * Left(o)
      BY <1>3, <1>4, <1>7, <1>11
    <2>2. u - 12 * elapsed <= Whole * s
      BY <1>7, <1>10, <1>11, <2>1
    <2> QED
      BY <2>1, <2>2
  <1>12. ASSUME Destroys(p) PROVE 35 * Left(p) <= Whole * s
    <2> DEFINE u == 35 * (Whole - y)
    <2>1. u \in Nat /\ u <= 35 * Whole /\ elapsed <= 3 * T /\ u - 35 * elapsed = 35 * Left(p)
      BY <1>3, <1>4, <1>8, <1>12
    <2>2. u - 35 * elapsed <= Whole * s
      BY <1>8, <1>10, <1>12, <2>1
    <2> QED
      BY <2>1, <2>2
  <1>13. ASSUME Writes(o), Destroys(p) PROVE 12 * Left(o) + 35 * Left(p) <= Whole * s
    <2> DEFINE u == 12 * (Whole - x) + 35 * (Whole - y)
    <2>1. /\ u \in Nat /\ u <= 47 * Whole /\ elapsed <= 3 * T
          /\ u - 47 * elapsed = 12 * Left(o) + 35 * Left(p)
      BY <1>3, <1>4, <1>7, <1>8, <1>13
    <2>2. u - 47 * elapsed <= Whole * s
      BY <1>9, <1>10, <1>13, <2>1
    <2> QED
      BY <2>1, <2>2
  <1> QED
    BY <1>11, <1>12, <1>13 DEF s

\* And the new one adds its weight.
LEMMA RecentStillWeighs ==
    ASSUME ProfileInv, Discount(role, "WriteHighEntropy") = 0,
           NEW b \in Behaviours, NEW elapsed \in Nat
    PROVE  StillWeighs(Recent(b, elapsed), Weighed(b, elapsed))
  <1> DEFINE h == Recent(b, elapsed)
             s == Decay(score, elapsed)
             d == Discounted(role, b)
             v == Weighed(b, elapsed)
             IsOld(o) == OldOf(o, elapsed)
             A(o) == 12 * Left(o)
             D(o) == 35 * Left(o)
  <1>1. ProfileTypes /\ score \in Nat /\ score <= MaxScore /\ role \in Roles /\ MaxScore \in Nat
    BY ProfileAssumption DEF ProfileInv, ProfileTypes
  <1>2. s \in Nat /\ s <= score /\ d \in Nat
    BY <1>1, DecayBounds, DiscountedTypes
  <1>3. v \in Nat /\ s <= v /\ (s + d <= v \/ MaxScore <= v)
    <2>1. v = Saturated(s + d)
      BY DEF Weighed
    <2> HIDE DEF s, d, v
    <2> QED
      BY <1>1, <1>2, <2>1 DEF Saturated
  <1>4. \A k \in DOMAIN h : h[k] \in Items /\ (h[k] = New(b) \/ IsOld(h[k]))
    BY <1>1, RecentItems
  <1>5. \A o, p \in Items : IsOld(o) /\ IsOld(p) =>
            /\ Writes(o) => A(o) <= Whole * s
            /\ Destroys(p) => D(p) <= Whole * s
            /\ Writes(o) /\ Destroys(p) => A(o) + D(p) <= Whole * s
    BY OldStillWeighs
  <1>6. Whole \in Nat \ {0} /\ Whole = 20 * HalfMinute /\ HalfMinute \in Nat \ {0}
    BY HalfLifeType DEF Whole, HalfLife
  <1>7. \A o \in Items :
            /\ Writes(o) => A(o) \in Nat /\ A(o) <= 12 * Whole
            /\ Destroys(o) => D(o) \in Nat /\ D(o) <= 35 * Whole
    <2> SUFFICES ASSUME NEW o \in Items, o.age <= 3 * HalfMinute
                 PROVE  /\ A(o) \in Nat /\ A(o) <= 12 * Whole
                        /\ D(o) \in Nat /\ D(o) <= 35 * Whole
      BY DEF Writes, Destroys
    <2>1. o.age \in Nat
      BY DEF Items
    <2> QED
      BY <1>6, <2>1 DEF Left
  <1>8. Writes(New(b)) => d = 12 /\ ~Destroys(New(b))
    BY <1>1, DecisiveWeights DEF Writes, Destroys, New
  <1>9. Destroys(New(b)) => d = 35
    BY <1>1, DecisiveWeights DEF Destroys, New
  <1>10. Whole * s <= Whole * v /\ Whole * s + Whole * d = Whole * (s + d) /\ Whole * s \in Nat
    BY <1>2, <1>3, <1>6, Times
  <1>11. Whole * (s + d) <= Whole * v \/ 110 * Whole <= Whole * v
    BY <1>1, <1>2, <1>3, <1>6, Times, ProfileAssumption
  <1> HIDE DEF h, s, d, v, A, D, IsOld
  <1>12. Whole * v \in Nat
    BY <1>3, <1>6
  <1>13. ASSUME NEW i \in DOMAIN h, Writes(h[i]) PROVE A(h[i]) <= Whole * v
    <2>1. CASE h[i] = New(b)
      <3>1. d = 12 /\ A(h[i]) \in Nat /\ A(h[i]) <= 12 * Whole
        BY <1>4, <1>7, <1>8, <1>13, <2>1
      <3> QED
        BY <1>6, <1>10, <1>11, <1>12, <3>1
    <2>2. CASE IsOld(h[i])
      <3>1. A(h[i]) \in Nat /\ A(h[i]) <= Whole * s
        BY <1>4, <1>5, <1>7, <1>13, <2>2
      <3> QED
        BY <1>10, <1>12, <3>1
    <2> QED
      BY <1>4, <2>1, <2>2
  <1>14. ASSUME NEW j \in DOMAIN h, Destroys(h[j]) PROVE D(h[j]) <= Whole * v
    <2>1. CASE h[j] = New(b)
      <3>1. d = 35 /\ D(h[j]) \in Nat /\ D(h[j]) <= 35 * Whole
        BY <1>4, <1>7, <1>9, <1>14, <2>1
      <3> QED
        BY <1>6, <1>10, <1>11, <1>12, <3>1
    <2>2. CASE IsOld(h[j])
      <3>1. D(h[j]) \in Nat /\ D(h[j]) <= Whole * s
        BY <1>4, <1>5, <1>7, <1>14, <2>2
      <3> QED
        BY <1>10, <1>12, <3>1
    <2> QED
      BY <1>4, <2>1, <2>2
  <1>15. ASSUME NEW i \in DOMAIN h, NEW j \in DOMAIN h, Writes(h[i]), Destroys(h[j])
         PROVE  A(h[i]) + D(h[j]) <= Whole * v
    <2>1. A(h[i]) \in Nat /\ A(h[i]) <= 12 * Whole /\ D(h[j]) \in Nat /\ D(h[j]) <= 35 * Whole
      BY <1>4, <1>7, <1>15
    <2>2. CASE h[i] = New(b)
      <3>1. d = 12 /\ h[j] # New(b)
        BY <1>8, <1>15, <2>2
      <3>2. D(h[j]) <= Whole * s
        BY <1>4, <1>5, <1>15, <3>1
      <3> QED
        BY <1>6, <1>10, <1>11, <1>12, <2>1, <3>1, <3>2
    <2>3. CASE h[j] = New(b)
      <3>1. d = 35 /\ h[i] # New(b)
        BY <1>8, <1>9, <1>15, <2>3
      <3>2. A(h[i]) <= Whole * s
        BY <1>4, <1>5, <1>15, <3>1
      <3> QED
        BY <1>6, <1>10, <1>11, <1>12, <2>1, <3>1, <3>2
    <2>4. CASE IsOld(h[i]) /\ IsOld(h[j])
      <3>1. A(h[i]) + D(h[j]) <= Whole * s
        BY <1>4, <1>5, <1>15, <2>4
      <3> QED
        BY <1>10, <1>12, <2>1, <3>1
    <2> QED
      BY <1>4, <2>2, <2>3, <2>4
  <1> QED
    BY <1>13, <1>14, <1>15 DEF StillWeighs, h, v, A, D

\* More score, as much weight.
LEMMA StillWeighsMore ==
    ASSUME NEW h \in Seq(Items), NEW s \in Nat, NEW t \in Nat, s <= t, StillWeighs(h, s)
    PROVE  StillWeighs(h, t)
  <1>1. Whole \in Nat
    BY HalfLifeType DEF Whole
  <1>2. Whole * s <= Whole * t /\ Whole * s \in Int /\ Whole * t \in Int
    BY <1>1, Times
  <1>3. \A i \in DOMAIN h : 12 * Left(h[i]) \in Int /\ 35 * Left(h[i]) \in Int
    <2> SUFFICES ASSUME NEW i \in DOMAIN h PROVE Left(h[i]) \in Int
      OBVIOUS
    <2>1. h[i] \in Items
      OBVIOUS
    <2>2. h[i].age \in Nat
      BY <2>1 DEF Items
    <2> QED
      BY <1>1, <2>2 DEF Left
  <1> QED
    BY <1>2, <1>3 DEF StillWeighs

\* With the ransomware shape complete, 47 less three tenths of it round up to 40.
LEMMA ShapeWeighs ==
    ASSUME NEW h \in Seq(Items), NEW s \in Nat, StillWeighs(h, s), NEW i \in DOMAIN h, NEW j \in DOMAIN h,
           Writes(h[i]), Destroys(h[j])
    PROVE  s >= 40
  <1> DEFINE T == HalfMinute
             x == h[i].age
             y == h[j].age
  <1>1. Whole = 20 * T /\ T \in Nat \ {0}
    BY HalfLifeType DEF Whole, HalfLife
  <1>2. x \in Nat /\ y \in Nat
    <2>1. h[i] \in Items /\ h[j] \in Items
      OBVIOUS
    <2> QED
      BY <2>1 DEF Items
  <1>3. x <= 3 * T /\ y <= 3 * T
    BY DEF Writes, Destroys
  <1>4. 12 * (Whole - x) + 35 * (Whole - y) <= Whole * s
    BY DEF StillWeighs, Left
  <1> HIDE DEF T, x, y
  <1>5. 799 * T <= Whole * s
    BY <1>1, <1>2, <1>3, <1>4
  <1>6. s <= 39 => Whole * s <= 39 * Whole
    BY <1>1, Times
  <1> QED
    BY <1>1, <1>5, <1>6

\* What an observation does to the score, from the invariant.
LEMMA ObserveFacts ==
    ASSUME ProfileInv, NEW b \in repertoire, NEW elapsed \in Gaps, Observe(b, elapsed)
    PROVE  /\ b \in Behaviours /\ elapsed \in Nat
           /\ Weighed(b, elapsed) \in 0 .. MaxScore
           /\ Weighed(b, elapsed) <= Decay(score, elapsed) + Discounted(role, b)
           /\ Decay(score, elapsed) \in 0 .. score /\ Discounted(role, b) \in Nat
           /\ Fired(b, elapsed) \in SUBSET (Kinds \ Before(elapsed))
           /\ Before(elapsed) \in SUBSET credited
           /\ Weighed(b, elapsed) + Bonuses(Fired(b, elapsed)) \in Nat
           /\ score' \in 0 .. MaxScore
           /\ score' <= Weighed(b, elapsed) + Bonuses(Fired(b, elapsed))
           /\ Weighed(b, elapsed) <= score'
  <1> DEFINE s == Decay(score, elapsed)
             d == Discounted(role, b)
             f == Fired(b, elapsed)
             v == Weighed(b, elapsed)
  <1>1. b \in Behaviours /\ elapsed \in Nat /\ score \in Nat /\ role \in Roles
    BY ProfileAssumption DEF ProfileInv, ProfileTypes
  <1>2. s \in 0 .. score /\ d \in Nat
    BY <1>1, DecayBounds, DiscountedTypes
  <1>3. f \in SUBSET (Kinds \ Before(elapsed)) /\ Before(elapsed) \in SUBSET credited
    BY DEF Fired, Before, CheckCombinations, Kinds
  <1>4. Bonuses(f) \in Nat
    BY <1>3, BonusesAdd
  <1>5. v = Saturated(s + d)
    BY DEF Weighed
  <1>6. score' = Saturated(v + Bonuses(f))
    BY ObserveParts
  <1> HIDE DEF s, d, f, v
  <1>7. s + d \in Nat
    BY <1>1, <1>2
  <1>8. v \in 0 .. MaxScore /\ v <= s + d
    BY <1>5, <1>7, SaturatedTypes
  <1>9. v + Bonuses(f) \in Nat /\ v \in Nat /\ v <= MaxScore /\ v <= v + Bonuses(f)
    BY <1>4, <1>8, ProfileAssumption
  <1>10. score' \in 0 .. MaxScore /\ score' <= v + Bonuses(f) /\ v <= score'
    BY <1>6, <1>9, SaturatedTypes
  <1> QED
    BY <1>1, <1>2, <1>3, <1>8, <1>9, <1>10 DEF s, d, f, v

LEMMA ProfileStep == ProfileInv /\ [ProfileNext]_profileVars => ProfileInv'
  <1> SUFFICES ASSUME ProfileInv, [ProfileNext]_profileVars PROVE ProfileInv'
    OBVIOUS
  <1>1. CASE UNCHANGED profileVars
    BY <1>1 DEF ProfileInv, ProfileTypes, BonusOnce, StillWeighs, profileVars, process
  <1>2. ASSUME NEW b \in repertoire, NEW elapsed \in Gaps, Observe(b, elapsed) PROVE ProfileInv'
    <2> DEFINE s == Decay(score, elapsed)
               d == Discounted(role, b)
               f == Fired(b, elapsed)
               v == Weighed(b, elapsed)
               k == Before(elapsed)
    <2>1. /\ history' = Recent(b, elapsed) /\ credited' = k \cup f
          /\ earned' = d + (IF s = 0 THEN 0 ELSE earned)
          /\ role' = role /\ repertoire' = repertoire
      BY <1>2, ObserveParts
    <2>2. /\ b \in Behaviours /\ elapsed \in Nat /\ v \in 0 .. MaxScore /\ v <= s + d
          /\ s \in 0 .. score /\ d \in Nat
          /\ f \in SUBSET (Kinds \ k) /\ k \in SUBSET credited
          /\ score' \in 0 .. MaxScore /\ score' <= v + Bonuses(f) /\ v <= score'
      BY <1>2, ObserveFacts
    <2>3. ProfileTypes /\ MaxScore \in Nat
      BY ProfileAssumption DEF ProfileInv
    <2>4. Recent(b, elapsed) \in Seq(Items)
      BY <2>2, <2>3, RecentItems
    <2>5. s # 0 => k = credited
      BY DEF Before
    <2> HIDE DEF s, d, f, v, k
    <2>6. ProfileTypes'
      BY <2>1, <2>2, <2>3, <2>4 DEF ProfileTypes
    <2>7. BonusOnce'
      <3>1. k \in SUBSET Kinds /\ f \in SUBSET Kinds /\ k \cap f = {}
        BY <2>2, <2>3 DEF ProfileTypes
      <3>2. Bonuses(credited') = Bonuses(k) + Bonuses(f) /\ Bonuses(k) \in Nat /\ Bonuses(f) \in Nat
        BY <2>1, <3>1, BonusesAdd
      <3>3. score \in Nat /\ earned \in Nat /\ score <= earned + Bonuses(credited)
        BY <2>3 DEF ProfileInv, ProfileTypes, BonusOnce
      <3>4. score' <= earned' + Bonuses(credited')
        BY <2>1, <2>2, <2>3, <2>5, <3>2, <3>3
      <3>5. Bonuses(credited)' = Bonuses(credited')
        BY DEF Bonuses
      <3> QED
        BY <3>4, <3>5 DEF BonusOnce
    <2>8. ASSUME Discount(role, "WriteHighEntropy") = 0 PROVE StillWeighs(history', score')
      <3>1. StillWeighs(Recent(b, elapsed), v)
        BY <2>2, <2>8, RecentStillWeighs DEF v
      <3>2. StillWeighs(Recent(b, elapsed), score')
        BY <2>2, <2>3, <2>4, <3>1, StillWeighsMore
      <3> QED
        BY <2>1, <3>2
    <2>9. Discount(role', "WriteHighEntropy") = Discount(role, "WriteHighEntropy")
      BY <2>1
    <2> QED
      BY <2>6, <2>7, <2>8, <2>9 DEF ProfileInv
  <1> QED
    BY <1>1, <1>2 DEF ProfileNext

LEMMA ProfileInitInv == ProfileInit => ProfileInv
  <1> SUFFICES ASSUME ProfileInit PROVE ProfileInv
    OBVIOUS
  <1>1. ProfileTypes
    BY ProfileAssumption DEF ProfileInit, ProfileTypes
  <1>2. BonusOnce
    BY BonusesAdd DEF ProfileInit, BonusOnce
  <1>3. StillWeighs(history, score)
    BY DEF ProfileInit, StillWeighs
  <1> QED
    BY <1>1, <1>2, <1>3 DEF ProfileInv

\* The shape that completes in this step puts the process to the user.
LEMMA ShapeAsks ==
    ASSUME ProfileInv, [ProfileNext]_profileVars
    PROVE  \A r \in Roles : Discount(r, "WriteHighEntropy") = 0 => Decisive(r)
  <1> SUFFICES ASSUME Discount(role, "WriteHighEntropy") = 0,
                      "ransomware" \notin credited, "ransomware" \in credited'
               PROVE  Verdict(score') = "SuspendAndAsk"
    BY DEF Decisive
  <1>1. PICK b \in repertoire, elapsed \in Gaps : Observe(b, elapsed)
    BY DEF ProfileNext, profileVars
  <1> DEFINE f == Fired(b, elapsed)
             v == Weighed(b, elapsed)
             h == Recent(b, elapsed)
  <1>2. /\ b \in Behaviours /\ elapsed \in Nat /\ v \in 0 .. MaxScore
        /\ f \in SUBSET Kinds /\ Before(elapsed) \in SUBSET credited
    BY <1>1, ObserveFacts
  <1>3. "ransomware" \in f
    <2>1. credited' = Before(elapsed) \cup f
      BY <1>1, ObserveParts
    <2> QED
      BY <1>2, <2>1
  <1>4. PICK i \in DOMAIN h, j \in DOMAIN h : Writes(h[i]) /\ Destroys(h[j])
    <2>1. Combinations["ransomware"].required =
              {"EnumerateUserDocuments", "ReadForeignFile", "WriteHighEntropy", "DestroySnapshot"}
      BY DEF Combinations
    <2>2. Combinations["ransomware"].window = 3 * HalfMinute
      BY DEF Combinations
    <2>3. \A c \in Combinations["ransomware"].required :
              \E m \in DOMAIN h : h[m].is = c /\ h[m].age <= Combinations["ransomware"].window
      BY <1>3 DEF Fired, CheckCombinations
    <2> HIDE DEF h
    <2> QED
      BY <2>1, <2>2, <2>3 DEF Writes, Destroys
  <1>5. v >= 40
    <2>1. h \in Seq(Items)
      BY <1>2, RecentItems DEF ProfileInv
    <2>2. StillWeighs(h, v) /\ v \in Nat
      BY <1>2, RecentStillWeighs
    <2> HIDE DEF h, v
    <2> QED
      BY <1>4, <2>1, <2>2, ShapeWeighs
  <1>6. score' = Saturated(v + Bonuses(f))
    BY <1>1, ObserveParts
  <1>7. Bonuses(f) >= 70 /\ Bonuses(f) \in Nat
    BY <1>2, <1>3, BonusesAdd
  <1> HIDE DEF f, v
  <1>8. score' >= 110
    BY <1>2, <1>5, <1>6, <1>7, ProfileAssumption DEF Saturated
  <1> QED
    BY <1>8 DEF Verdict

\* A sustained pattern earns its bonus once, and the ransomware shape within 90 s
\* puts the process to the user, however its observations interleave with others
\* and with the decay (heuristic.rs:274-346).
THEOREM ScoreBonusesAreRight == ProfileSpec => BonusesAreRight
  <1>1. ProfileInv => score <= earned + Bonuses(credited)
    BY DEF ProfileInv, BonusOnce
  <1>2. ProfileInv /\ [ProfileNext]_profileVars =>
            [\A r \in Roles : Discount(r, "WriteHighEntropy") = 0 => Decisive(r)]_profileVars
    BY ShapeAsks
  <1> QED
    BY <1>1, <1>2, ProfileInitInv, ProfileStep, PTL DEF ProfileSpec, BonusesAreRight, AsksAboutRansomware
=============================================================================
