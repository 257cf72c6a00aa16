------------------------- MODULE KernelObjectProofs -------------------------
(***************************************************************************)
(* Theorems about kernel objects that share no state: capabilities, for    *)
(* any processes, objects, rights, table size and revocations; real-time   *)
(* admission, for any threads, requests and ceiling; and a notification    *)
(* port with one poster, for any size of its ring.                         *)
(***************************************************************************)
EXTENDS CapSet, Port, RtAdmission, Induction, FiniteSetTheorems, TLAPS

(* Capabilities *)

CapSetInv == CapTypeOK /\ LenIsExact /\ NoAmplification

LEMMA PositionsFinite == IsFiniteSet(Positions) /\ Cardinality(Positions) = Slots
  BY CapSetAssumption, FS_Interval DEF Positions

LEMMA OccupiedFinite ==
    ASSUME NEW p \in Procs PROVE IsFiniteSet(Occupied(p))
  <1>1. Occupied(p) \subseteq Positions
    BY DEF Occupied
  <1> QED
    BY <1>1, PositionsFinite, FS_Subset

LEMMA ProbeType ==
    ASSUME NEW h \in Handles, NEW k \in Positions
    PROVE  Probe(h, k) \in Positions
  BY CapSetAssumption DEF Probe, Positions

LEMMA InitCapSetInv == CapInit => CapSetInv
  <1> SUFFICES ASSUME CapInit PROVE CapSetInv
    OBVIOUS
  <1>1. Drawn = {}
    BY DEF CapInit, Drawn
  <1>2. CapTypeOK
    BY <1>1, CapSetAssumption DEF CapInit, CapTypeOK, Drawn, Positions
  <1>3. LenIsExact
    <2> SUFFICES ASSUME NEW p \in Procs PROVE len[p] = Cardinality(Occupied(p))
      BY DEF LenIsExact
    <2>1. Occupied(p) = {}
      BY DEF CapInit, Occupied
    <2> QED
      BY <2>1, FS_EmptySet DEF CapInit
  <1>4. NoAmplification
    BY <1>1 DEF NoAmplification
  <1> QED
    BY <1>2, <1>3, <1>4 DEF CapSetInv

\* `insert` keeps the table well formed and its count exact.
LEMMA InsertInv ==
    ASSUME CapSetInv, NEW p \in Procs, NEW h \in Handles, Insert(p, h),
           Drawn \subseteq Drawn', h \in Drawn'
    PROVE  /\ entries' \in [Procs -> [Positions -> Drawn' \cup {NoHandle}]]
           /\ len' \in [Procs -> 0 .. Slots]
           /\ LenIsExact'
  <1> USE CapSetAssumption DEF CapSetInv, CapTypeOK
  <1>0. entries \in [Procs -> [Positions -> Drawn' \cup {NoHandle}]]
    <2>1. \A q \in Procs : entries[q] \in [Positions -> Drawn' \cup {NoHandle}]
      <3> SUFFICES ASSUME NEW q \in Procs
                   PROVE  entries[q] \in [Positions -> Drawn' \cup {NoHandle}]
        OBVIOUS
      <3>1. entries[q] \in [Positions -> Drawn \cup {NoHandle}]
        OBVIOUS
      <3> QED
        BY <3>1
    <2> QED
      BY <2>1
  <1>1. CASE UNCHANGED <<entries, len>>
    <2>1. LenIsExact'
      BY <1>1 DEF LenIsExact, Occupied
    <2> QED
      BY <1>0, <1>1, <2>1
  <1>2. CASE \E k \in Positions :
                /\ len[p] # Slots
                /\ Reaches(p, h, k) /\ entries[p][Probe(h, k)] = NoHandle
                /\ entries' = [entries EXCEPT ![p][Probe(h, k)] = h]
                /\ len' = [len EXCEPT ![p] = @ + 1]
    <2> PICK k \in Positions :
            /\ len[p] # Slots
            /\ entries[p][Probe(h, k)] = NoHandle
            /\ entries' = [entries EXCEPT ![p][Probe(h, k)] = h]
            /\ len' = [len EXCEPT ![p] = @ + 1]
      BY <1>2
    <2> DEFINE i == Probe(h, k)
    <2>1. i \in Positions /\ h # NoHandle
      BY ProbeType
    <2>2. entries' \in [Procs -> [Positions -> Drawn' \cup {NoHandle}]]
      BY <1>0, <2>1
    <2>3. len' \in [Procs -> 0 .. Slots]
      BY DEF Positions
    <2>4. ASSUME NEW q \in Procs, q # p PROVE len'[q] = Cardinality(Occupied(q)')
      <3>1. entries'[q] = entries[q] /\ len'[q] = len[q]
        BY <2>4
      <3> QED
        BY <3>1 DEF LenIsExact, Occupied
    <2>5. Occupied(p)' = Occupied(p) \cup {i} /\ i \notin Occupied(p)
      BY <2>1 DEF Occupied
    <2>6. len'[p] = Cardinality(Occupied(p)')
      <3>1. Cardinality(Occupied(p)') = Cardinality(Occupied(p)) + 1
        BY <2>5, OccupiedFinite, FS_AddElement
      <3> QED
        BY <3>1 DEF LenIsExact
    <2> QED
      BY <2>2, <2>3, <2>4, <2>6 DEF LenIsExact
  <1> QED
    BY <1>1, <1>2 DEF Insert

LEMMA RevokeInv ==
    ASSUME CapSetInv, NEW p \in Procs, NEW o \in Objects, RevokeObject(p, o)
    PROVE  /\ entries' \in [Procs -> [Positions -> Drawn' \cup {NoHandle}]]
           /\ len' \in [Procs -> 0 .. Slots]
           /\ LenIsExact'
  <1> USE CapSetAssumption DEF CapSetInv, CapTypeOK, RevokeObject
  <1> DEFINE N == Naming(p, o)
  <1>1. N \subseteq Occupied(p)
    BY DEF Naming, Occupied
  <1>2. /\ IsFiniteSet(N) /\ Cardinality(N) \in Nat
        /\ Cardinality(N) <= Cardinality(Occupied(p))
    BY <1>1, OccupiedFinite, FS_Subset, FS_CardinalityType
  <1>3. len[p] = Cardinality(Occupied(p)) /\ len[p] \in 0 .. Slots
    BY DEF LenIsExact
  <1>4. len' \in [Procs -> 0 .. Slots] /\ len'[p] = len[p] - Cardinality(N)
    <2>1. len[p] - Cardinality(N) \in 0 .. Slots
      BY <1>2, <1>3
    <2> QED
      BY <2>1
  <1>5. entries' \in [Procs -> [Positions -> Drawn' \cup {NoHandle}]]
    BY DEF Drawn
  <1>6. Occupied(p)' = Occupied(p) \ N
    BY <1>1 DEF Occupied
  <1>7. Cardinality(Occupied(p)') = Cardinality(Occupied(p)) - Cardinality(N)
    <2>1. Occupied(p) \cap N = N
      BY <1>1
    <2> QED
      BY <1>6, <2>1, OccupiedFinite, FS_Difference
  <1>8. ASSUME NEW q \in Procs, q # p PROVE len'[q] = Cardinality(Occupied(q)')
    <2>1. entries'[q] = entries[q] /\ len'[q] = len[q]
      BY <1>8
    <2> QED
      BY <2>1 DEF LenIsExact, Occupied
  <1> QED
    BY <1>3, <1>4, <1>5, <1>7, <1>8 DEF LenIsExact

\* A token that is new and descends from one drawn earlier amplifies nothing.
LEMMA DeriveAmplifiesNothing ==
    ASSUME CapSetInv, NEW p \in Procs, NEW q \in Procs,
           NEW g \in Handles, NEW h \in Handles, NEW r \in SUBSET Rights,
           Derive(p, q, g, h, r)
    PROVE  /\ Drawn' = Drawn \cup {h} /\ token' \in [Drawn' -> Tokens]
           /\ NoAmplification'
  <1> USE DEF CapSetInv, CapTypeOK, Derive, Drawn
  <1>1. g \in Drawn /\ h \notin Drawn
    BY DEF Held
  <1>2. DOMAIN token' = DOMAIN token \cup {h}
    OBVIOUS
  <1>3. /\ token'[h] = [token[g] EXCEPT !.rights = r]
        /\ \A d \in DOMAIN token : token'[d] = token[d]
    BY <1>1
  <1>4. /\ token'[h].root = token[g].root /\ token'[h].rights = r
        /\ token'[h].object = token[g].object
        /\ token'[h] \in Tokens
    BY <1>1, <1>3 DEF Tokens
  <1>5. token' \in [Drawn' -> Tokens]
    BY <1>2, <1>3, <1>4
  <1>6. NoAmplification'
    BY <1>1, <1>2, <1>3, <1>4 DEF NoAmplification, MayDerive
  <1> QED
    BY <1>2, <1>5, <1>6

LEMMA MintAmplifiesNothing ==
    ASSUME CapSetInv, NEW p \in Procs, NEW h \in Handles, NEW o \in Objects,
           NEW r \in SUBSET Rights, Mint(p, h, o, r)
    PROVE  /\ Drawn' = Drawn \cup {h} /\ token' \in [Drawn' -> Tokens]
           /\ NoAmplification'
  <1> USE DEF CapSetInv, CapTypeOK, Mint, Drawn
  <1>1. DOMAIN token' = DOMAIN token \cup {h} /\ h \notin DOMAIN token
    OBVIOUS
  <1>2. /\ token'[h] = [object |-> o, rights |-> r, root |-> h]
        /\ \A d \in DOMAIN token : token'[d] = token[d]
    BY <1>1
  <1>3. token' \in [Drawn' -> Tokens]
    BY <1>1, <1>2 DEF Tokens
  <1>4. NoAmplification'
    BY <1>1, <1>2 DEF NoAmplification
  <1> QED
    BY <1>1, <1>3, <1>4

LEMMA StepCapSetInv == CapSetInv /\ [CapNext]_capVars => CapSetInv'
  <1> SUFFICES ASSUME CapSetInv, [CapNext]_capVars PROVE CapSetInv'
    OBVIOUS
  <1>1. ASSUME NEW p \in Procs, NEW h \in Handles, NEW o \in Objects,
               NEW r \in SUBSET Rights, Mint(p, h, o, r)
        PROVE  CapSetInv'
    <2>1. /\ Drawn' = Drawn \cup {h} /\ token' \in [Drawn' -> Tokens]
          /\ NoAmplification'
      BY <1>1, MintAmplifiesNothing
    <2>2. Insert(p, h)
      BY <1>1 DEF Mint
    <2> QED
      BY <2>1, <2>2, InsertInv DEF CapSetInv, CapTypeOK
  <1>2. ASSUME NEW p \in Procs, NEW q \in Procs, NEW g \in Handles,
               NEW h \in Handles, NEW r \in SUBSET Rights, Derive(p, q, g, h, r)
        PROVE  CapSetInv'
    <2>1. /\ Drawn' = Drawn \cup {h} /\ token' \in [Drawn' -> Tokens]
          /\ NoAmplification'
      BY <1>2, DeriveAmplifiesNothing
    <2>2. Insert(q, h)
      BY <1>2 DEF Derive
    <2> QED
      BY <2>1, <2>2, InsertInv DEF CapSetInv, CapTypeOK
  <1>3. ASSUME NEW p \in Procs, NEW q \in Procs, NEW h \in Handles, Deliver(p, q, h)
        PROVE  CapSetInv'
    <2>1. token' = token /\ Drawn' = Drawn /\ h \in Drawn /\ Insert(q, h)
      BY <1>3 DEF Deliver, Held, Drawn
    <2>2. NoAmplification'
      BY <2>1 DEF CapSetInv, NoAmplification
    <2> QED
      BY <2>1, <2>2, InsertInv DEF CapSetInv, CapTypeOK
  <1>4. ASSUME NEW p \in Procs, NEW o \in Objects, RevokeObject(p, o)
        PROVE  CapSetInv'
    <2>1. token' = token /\ Drawn' = Drawn
      BY <1>4 DEF RevokeObject, Drawn
    <2>2. NoAmplification'
      BY <2>1 DEF CapSetInv, NoAmplification
    <2> QED
      BY <1>4, <2>1, <2>2, RevokeInv DEF CapSetInv, CapTypeOK
  <1>5. CASE UNCHANGED capVars
    BY <1>5 DEF capVars, CapSetInv, CapTypeOK, LenIsExact, Occupied, NoAmplification, Drawn
  <1> QED
    BY <1>1, <1>2, <1>3, <1>4, <1>5 DEF CapNext

\* The type invariant, the exact count and the bound on authority together are
\* inductive.
THEOREM CapSetInvariant == CapSpec => []CapSetInv
  BY InitCapSetInv, StepCapSetInv, PTL DEF CapSpec

\* Every variable keeps its type; no CapSet counts more than Slots tokens.
THEOREM CapSetTypeOK == CapSpec => []CapTypeOK
  <1>1. CapSetInv => CapTypeOK
    BY DEF CapSetInv
  <1> QED
    BY <1>1, CapSetInvariant, PTL

\* The count `insert` relies on to end its probe is the number of occupied
\* entries, whatever is inserted, delivered and revoked (cap.rs, CapSet).
THEOREM CapSetLenIsExact == CapSpec => []LenIsExact
  <1>1. CapSetInv => LenIsExact
    BY DEF CapSetInv
  <1> QED
    BY <1>1, CapSetInvariant, PTL

\* No chain of derivations permits more than the token the kernel minted
\* (cap.rs, `Capability::derive`).
THEOREM CapSetNoAmplification == CapSpec => []NoAmplification
  <1>1. CapSetInv => NoAmplification
    BY DEF CapSetInv
  <1> QED
    BY <1>1, CapSetInvariant, PTL

-----------------------------------------------------------------------------
(* Lookup *)

\* What HeldIsFound says of one process.
FindsItsEntries(p) ==
    /\ \A i \in Occupied(p) : entries[p][i] \in Held(p)
    /\ \A i, j \in Occupied(p) : entries[p][i] = entries[p][j] => i = j

\* A table that keeps its entries keeps finding them.
LEMMA UntouchedTable ==
    ASSUME NEW p \in Procs, FindsItsEntries(p), entries'[p] = entries[p],
           Drawn \subseteq Drawn'
    PROVE  FindsItsEntries(p)'
  <1>1. Occupied(p)' = Occupied(p)
    BY DEF Occupied
  <1>2. ASSUME NEW x, Found(p, x) PROVE Found(p, x)'
    BY <1>2 DEF Found, Reaches
  <1>3. \A x \in Held(p) : x \in Held(p)'
    BY <1>2 DEF Held
  <1> QED
    BY <1>1, <1>3 DEF FindsItsEntries

\* An insertion fills an empty entry: the probes that found a handle passed
\* only occupied ones, so they find it still, and the new handle is reached.
LEMMA InsertFinds ==
    ASSUME CapSetInv, NEW p \in Procs, NEW h \in Handles, FindsItsEntries(p),
           NEW k \in Positions, ~Found(p, h),
           Reaches(p, h, k), entries[p][Probe(h, k)] = NoHandle,
           entries' = [entries EXCEPT ![p][Probe(h, k)] = h],
           Drawn \subseteq Drawn', h \in Drawn'
    PROVE  FindsItsEntries(p)'
  <1> DEFINE i == Probe(h, k)
  <1>1. i \in Positions /\ h # NoHandle /\ NoHandle \notin Drawn
    BY ProbeType, CapSetAssumption DEF CapSetInv, CapTypeOK
  <1>2. /\ entries'[p][i] = h
        /\ \A j \in Positions \ {i} : entries'[p][j] = entries[p][j]
    BY <1>1 DEF CapSetInv, CapTypeOK
  <1>3. \A j \in Positions : entries[p][j] # h
    <2> SUFFICES ASSUME NEW j \in Positions, entries[p][j] = h PROVE FALSE
      OBVIOUS
    <2>1. j \in Occupied(p)
      BY <1>1 DEF Occupied
    <2> QED
      BY <2>1 DEF FindsItsEntries, Held
  <1>4. Occupied(p)' = Occupied(p) \cup {i} /\ i \notin Occupied(p)
    BY <1>1, <1>2 DEF Occupied
  <1>5. ASSUME NEW g \in Handles, NEW m \in Positions, Reaches(p, g, m)
        PROVE  \A j \in 0 .. m - 1 : /\ Probe(g, j) # i
                                     /\ entries'[p][Probe(g, j)] = entries[p][Probe(g, j)]
    <2> SUFFICES ASSUME NEW j \in 0 .. m - 1
                 PROVE  /\ Probe(g, j) # i
                        /\ entries'[p][Probe(g, j)] = entries[p][Probe(g, j)]
      OBVIOUS
    <2>1. Probe(g, j) \in Positions
      <3>1. j \in Positions
        BY CapSetAssumption DEF Positions
      <3> QED
        BY <3>1, ProbeType
    <2>2. entries[p][Probe(g, j)] # NoHandle
      BY <1>5 DEF Reaches
    <2> QED
      BY <1>2, <2>1, <2>2
  <1>6. h \in Held(p)'
    <2>1. Reaches(p, h, k)'
      BY <1>5 DEF Reaches
    <2> QED
      BY <1>2, <2>1 DEF Held, Found
  <1>7. ASSUME NEW x \in Held(p) PROVE x \in Held(p)'
    <2>1. x \in Drawn /\ x \in Handles /\ x # NoHandle
      BY <1>1 DEF Held, CapSetInv, CapTypeOK
    <2> PICK m \in Positions : Reaches(p, x, m) /\ entries[p][Probe(x, m)] = x
      BY DEF Held, Found
    <2>2. Reaches(p, x, m)'
      BY <1>5, <2>1 DEF Reaches
    <2>3. entries'[p][Probe(x, m)] = x
      <3>1. Probe(x, m) \in Positions
        BY <2>1, ProbeType
      <3> QED
        BY <1>2, <2>1, <3>1
    <2> QED
      BY <2>1, <2>2, <2>3 DEF Held, Found
  <1>8. \A j \in Occupied(p)' : entries'[p][j] \in Held(p)'
    <2> SUFFICES ASSUME NEW j \in Occupied(p), j # i
                 PROVE  entries'[p][j] \in Held(p)'
      BY <1>2, <1>4, <1>6
    <2> QED
      BY <1>2, <1>7 DEF FindsItsEntries, Occupied
  <1>9. \A j, m \in Occupied(p)' : entries'[p][j] = entries'[p][m] => j = m
    <2>1. \A j \in Occupied(p) : entries'[p][j] = entries[p][j] /\ entries[p][j] # h
      BY <1>2, <1>3, <1>4 DEF Occupied
    <2> QED
      BY <1>2, <1>4, <2>1 DEF FindsItsEntries
  <1> QED
    BY <1>8, <1>9 DEF FindsItsEntries

LEMMA InsertKeepsFinding ==
    ASSUME CapSetInv, HeldIsFound, NEW p \in Procs, NEW h \in Handles, Insert(p, h),
           Drawn \subseteq Drawn', h \in Drawn'
    PROVE  HeldIsFound'
  <1> SUFFICES ASSUME NEW q \in Procs, \A o \in Objects : <<q, o>> \notin Revocations
               PROVE  FindsItsEntries(q)'
    BY DEF HeldIsFound, FindsItsEntries
  <1>1. FindsItsEntries(q)
    BY DEF HeldIsFound, FindsItsEntries
  <1>2. CASE entries'[q] = entries[q]
    BY <1>1, <1>2, UntouchedTable
  <1>3. CASE entries'[q] # entries[q]
    <2>1. q = p /\ entries' # entries
      BY <1>3 DEF Insert, CapSetInv, CapTypeOK
    <2>2. PICK k \in Positions :
            /\ ~Found(p, h) /\ Reaches(p, h, k) /\ entries[p][Probe(h, k)] = NoHandle
            /\ entries' = [entries EXCEPT ![p][Probe(h, k)] = h]
      BY <2>1 DEF Insert
    <2> QED
      BY <1>1, <2>1, <2>2, InsertFinds
  <1> QED
    BY <1>2, <1>3

LEMMA InitHeldIsFound == CapInit => HeldIsFound
  BY DEF CapInit, HeldIsFound, Occupied

LEMMA StepHeldIsFound == CapSetInv /\ HeldIsFound /\ [CapNext]_capVars => HeldIsFound'
  <1> SUFFICES ASSUME CapSetInv, HeldIsFound, [CapNext]_capVars PROVE HeldIsFound'
    OBVIOUS
  <1>1. ASSUME NEW p \in Procs, NEW h \in Handles, NEW o \in Objects,
               NEW r \in SUBSET Rights, Mint(p, h, o, r)
        PROVE  HeldIsFound'
    <2>1. Drawn' = Drawn \cup {h} /\ Insert(p, h)
      BY <1>1, MintAmplifiesNothing DEF Mint
    <2> QED
      BY <2>1, InsertKeepsFinding
  <1>2. ASSUME NEW p \in Procs, NEW q \in Procs, NEW g \in Handles,
               NEW h \in Handles, NEW r \in SUBSET Rights, Derive(p, q, g, h, r)
        PROVE  HeldIsFound'
    <2>1. Drawn' = Drawn \cup {h} /\ Insert(q, h)
      BY <1>2, DeriveAmplifiesNothing DEF Derive
    <2> QED
      BY <2>1, InsertKeepsFinding
  <1>3. ASSUME NEW p \in Procs, NEW q \in Procs, NEW h \in Handles, Deliver(p, q, h)
        PROVE  HeldIsFound'
    <2>1. Drawn' = Drawn /\ h \in Drawn /\ Insert(q, h)
      BY <1>3 DEF Deliver, Held, Drawn
    <2> QED
      BY <2>1, InsertKeepsFinding
  <1>4. ASSUME NEW p \in Procs, NEW o \in Objects,
               <<p, o>> \in Revocations, RevokeObject(p, o)
        PROVE  HeldIsFound'
    <2> SUFFICES ASSUME NEW q \in Procs, \A x \in Objects : <<q, x>> \notin Revocations
                 PROVE  FindsItsEntries(q)'
      BY DEF HeldIsFound, FindsItsEntries
    <2>1. FindsItsEntries(q)
      BY DEF HeldIsFound, FindsItsEntries
    <2>2. q # p
      BY <1>4
    <2>3. entries'[q] = entries[q] /\ Drawn' = Drawn
      BY <1>4, <2>2 DEF RevokeObject, Drawn, CapSetInv, CapTypeOK
    <2> QED
      BY <2>1, <2>3, UntouchedTable
  <1>5. CASE UNCHANGED capVars
    BY <1>5 DEF capVars, HeldIsFound, Occupied, Held, Found, Reaches, Drawn
  <1> QED
    BY <1>1, <1>2, <1>3, <1>4, <1>5 DEF CapNext

\* As long as nothing is revoked from the set of a process, `lookup` finds
\* every token in its table, at the one entry that holds it: no order of
\* insertions leaves an empty entry on the way (cap.rs, `CapSet::{insert,
\* lookup}`).
THEOREM CapSetHeldIsFound == CapSpec => []HeldIsFound
  <1>1. CapSetInv /\ CapSetInv' /\ HeldIsFound /\ [CapNext]_capVars => HeldIsFound'
    BY StepHeldIsFound
  <1> QED
    BY <1>1, InitHeldIsFound, CapSetInvariant, PTL DEF CapSpec

-----------------------------------------------------------------------------
(* Real-time admission *)

\* What the code adds to the total for each thread.
Shares == [t \in RtThreads |-> Requested(request[t])]

\* The total is the sum of what was granted.
RtInv ==
    /\ RtTypeOK
    /\ \A t \in RtThreads : request[t].period # 0
    /\ \A t \in RtThreads : place[t] = "out" => request[t] = NoRequest
    /\ \A t \in RtThreads : place[t] = "held" => answer[t] = "ok"
    /\ utilisation = SumFunctionOnSet(Shares, Holders)

Whole == [budget : Nat, period : Nat \ {0}]

LEMMA RequestedType ==
    ASSUME NEW r \in Whole PROVE Requested(r) \in 0 .. Width32 - 1
  <1> DEFINE x == r.budget * Million
             y == LowerOf(x, Width64 - 1)
             z == y \div r.period
  <1>1. x \in Nat /\ Width64 - 1 \in Nat /\ Width32 \in Nat \ {0}
    BY RtAssumption DEF Whole
  <1>2. y \in Nat
    BY <1>1 DEF LowerOf
  <1>3. z \in Nat
    <2>1. r.period \in Nat \ {0}
      BY DEF Whole
    <2> HIDE DEF y
    <2> QED
      BY <1>2, <2>1
  <1> HIDE DEF z
  <1>4. z % Width32 \in 0 .. Width32 - 1
    BY <1>1, <1>3
  <1> QED
    BY <1>4 DEF Requested, z

LEMMA SharesType ==
    ASSUME RtInv
    PROVE  /\ \A t \in RtThreads : /\ request[t] \in Whole
                                 /\ Requested(request[t]) \in 0 .. Width32 - 1
                                 /\ Shares[t] = Requested(request[t])
           /\ \A t \in RtThreads : Shares[t] \in Nat
           /\ IsFiniteSet(Holders)
  <1>1. \A t \in RtThreads : request[t] \in Whole
    BY RtAssumption DEF RtInv, RtTypeOK, Whole, NoRequest
  <1>2. IsFiniteSet(Holders)
    BY RtAssumption, FS_Subset DEF Holders
  <1> QED
    BY <1>1, <1>2, RequestedType, RtAssumption DEF Shares

LEMMA RtInitInv == RtInit => RtInv
  <1> SUFFICES ASSUME RtInit PROVE RtInv
    OBVIOUS
  <1>1. Holders = {}
    BY DEF RtInit, Holders
  <1>2. SumFunctionOnSet(Shares, Holders) = 0
    BY <1>1, SumUnfolds, FS_EmptySet
  <1> QED
    BY <1>2, RtAssumption DEF RtInit, RtInv, RtTypeOK, NoRequest

\* Whoever comes into place, the total stays the sum.
LEMMA SumStays ==
    ASSUME RtInv, Holders' = Holders, utilisation' = utilisation,
           \A u \in Holders : request'[u] = request[u]
    PROVE  utilisation' = SumFunctionOnSet(Shares, Holders)'
  <1>1. \A u \in Holders : Shares[u] = Shares'[u]
    BY DEF Shares, Holders
  <1>2. SumFunctionOnSet(Shares, Holders) = SumFunctionOnSet(Shares', Holders)
    BY <1>1, SharesType, SumAgrees
  <1> QED
    BY <1>2 DEF RtInv

\* Fitting is fitting under the ceiling: the addition saturates above it.
LEMMA FitsUnderCeiling ==
    ASSUME RtInv, NEW t \in RtThreads
    PROVE  /\ Fits(t) <=> current[t] + Requested(request[t]) <= Ceiling
           /\ Fits(t) => Raised(t) = current[t] + Requested(request[t])
  <1>1. Requested(request[t]) \in Nat /\ current[t] \in Nat
    BY SharesType, RtAssumption DEF RtInv, RtTypeOK
  <1>2. Ceiling \in Nat /\ Width32 - 1 \in Nat /\ Ceiling < Width32 - 1
    BY RtAssumption
  <1> QED
    BY <1>1, <1>2 DEF Fits, Raised, LowerOf

LEMMA RtStepInv == RtInv /\ [RtNext]_rtVars => RtInv'
  <1> SUFFICES ASSUME RtInv, [RtNext]_rtVars PROVE RtInv'
    OBVIOUS
  <1> USE DEF RtInv, RtTypeOK
  <1>0. CASE UNCHANGED rtVars
    <2>1. Holders' = Holders /\ Shares' = Shares
      BY <1>0 DEF rtVars, Holders, Shares
    <2> QED
      BY <1>0, <2>1 DEF rtVars
  <1>1. ASSUME NEW t \in RtThreads, NEW r \in RtRequests, RejectPeriod(t, r) PROVE RtInv'
    <2>1. Holders' = Holders /\ Shares' = Shares
      BY <1>1 DEF RejectPeriod, Holders, Shares
    <2> QED
      BY <1>1, <2>1 DEF RejectPeriod
  <1>2. ASSUME NEW t \in RtThreads, NEW r \in RtRequests, Ask(t, r) PROVE RtInv'
    <2>1. Holders' = Holders /\ t \notin Holders
      BY <1>2 DEF Ask, Holders
    <2>2. utilisation' = SumFunctionOnSet(Shares, Holders)'
      BY <1>2, <2>1, SumStays DEF Ask, Holders
    <2> QED
      BY <1>2, <2>2 DEF Ask
  <1>3. ASSUME NEW t \in RtThreads, LoadTotal(t) PROVE RtInv'
    <2>1. Holders' = Holders /\ Shares' = Shares
      BY <1>3 DEF LoadTotal, Holders, Shares
    <2>2. utilisation \in 0 .. Width32 - 1
      BY RtAssumption
    <2> QED
      BY <1>3, <2>1, <2>2 DEF LoadTotal
  <1>4. ASSUME NEW t \in RtThreads, Refuse(t) PROVE RtInv'
    <2>1. Holders' = Holders /\ t \notin Holders
      BY <1>4 DEF Refuse, Leave, Holders
    <2>2. utilisation' = SumFunctionOnSet(Shares, Holders)'
      BY <1>4, <2>1, SumStays DEF Refuse, Leave, Holders
    <2> QED
      BY <1>4, <2>2, RtAssumption DEF Refuse, Leave, NoRequest
  <1>5. ASSUME NEW t \in RtThreads, Exchange(t) PROVE RtInv'
    <2>1. /\ Holders' = Holders \cup {t} /\ t \notin Holders /\ Holders' \ {t} = Holders
          /\ Shares' = Shares
      BY <1>5 DEF Exchange, Holders, Shares
    <2>2. IsFiniteSet(Holders')
      BY <2>1, SharesType, FS_AddElement
    <2>3. \A u \in Holders' : Shares[u] \in Nat
      BY <1>5, <2>1, SharesType DEF Holders
    <2>4. SumFunctionOnSet(Shares, Holders') = Shares[t] + SumFunctionOnSet(Shares, Holders)
      <3>1. t \in Holders'
        BY <2>1
      <3>2. SumFunctionOnSet(Shares, Holders')
            = Shares[t] + SumFunctionOnSet(Shares, Holders' \ {t})
        BY <2>2, <2>3, <3>1, SumWithout
      <3> QED
        BY <2>1, <3>2
    <2>5. utilisation' = utilisation + Shares[t] /\ utilisation' <= Ceiling
      BY <1>5, FitsUnderCeiling, SharesType, RtAssumption DEF Exchange, Fits
    <2>6. utilisation' = SumFunctionOnSet(Shares, Holders)'
      BY <2>1, <2>4, <2>5, SharesType
    <2>7. utilisation' \in 0 .. Ceiling
      BY <2>5, SharesType, RtAssumption
    <2> QED
      BY <1>5, <2>6, <2>7 DEF Exchange
  <1>6. ASSUME NEW t \in RtThreads, ExchangeFails(t) PROVE RtInv'
    <2>1. Holders' = Holders /\ Shares' = Shares
      BY <1>6 DEF ExchangeFails, Holders, Shares
    <2>2. utilisation \in 0 .. Width32 - 1
      BY RtAssumption
    <2> QED
      BY <1>6, <2>1, <2>2 DEF ExchangeFails
  <1>7. ASSUME NEW t \in RtThreads, Release(t) PROVE RtInv'
    <2>1. Holders' = Holders \ {t} /\ t \in Holders /\ Holders \subseteq RtThreads
      BY <1>7 DEF Release, Leave, Holders
    <2>2. SumFunctionOnSet(Shares, Holders) = Shares[t] + SumFunctionOnSet(Shares, Holders \ {t})
      BY <2>1, SharesType, SumWithout
    <2>3. \A u \in Holders \ {t} : Shares'[u] = Shares[u]
      BY <1>7, <2>1 DEF Release, Leave, Shares
    <2>4. IsFiniteSet(Holders \ {t})
      BY SharesType, FS_Subset
    <2>5. SumFunctionOnSet(Shares, Holders \ {t}) = SumFunctionOnSet(Shares', Holders \ {t})
      BY <2>3, <2>4, SumAgrees
    <2>6. SumFunctionOnSet(Shares, Holders \ {t}) \in Nat
      BY <2>1, <2>4, SharesType, SumType
    <2>7. utilisation - Shares[t] \in 0 .. Ceiling /\ Ceiling < Width32 /\ Ceiling \in Nat
      BY <2>1, <2>2, <2>6, SharesType, RtAssumption
    <2>8. (utilisation - Shares[t]) % Width32 = utilisation - Shares[t]
      BY <2>7, RtAssumption
    <2>9. utilisation' = utilisation - Shares[t]
      BY <1>7, <2>8, SharesType DEF Release
    <2>10. utilisation' = SumFunctionOnSet(Shares, Holders)'
      BY <2>1, <2>2, <2>5, <2>6, <2>9, SharesType
    <2> QED
      BY <1>7, <2>7, <2>9, <2>10, RtAssumption DEF Release, Leave, NoRequest
  <1> QED
    BY <1>0, <1>1, <1>2, <1>3, <1>4, <1>5, <1>6, <1>7 DEF RtNext

-----------------------------------------------------------------------------
(* Atomic admission *)

Phase == [t \in RtThreads |-> Decided(t)]
Asked == [t \in RtThreads |-> IF Decided(t) \in {"asking", "held"}
                            THEN Share(request[t]) ELSE 0]

\* What the code adds is the share a request stands for, if the arithmetic
\* represents it.
LEMMA RequestedIsShare ==
    ASSUME NEW r \in Whole, Representable(r)
    PROVE  Requested(r) = Share(r)
  <1> DEFINE x == r.budget * Million  z == x \div r.period
  <1>1. x \in Nat /\ Width64 \in Nat /\ Width32 \in Nat /\ r.period \in Nat \ {0}
    BY RtAssumption DEF Whole
  <1>2. x < Width64 /\ z < Width32
    BY <1>1 DEF Representable, Share
  <1>3. LowerOf(x, Width64 - 1) = x
    BY <1>1, <1>2 DEF LowerOf
  <1>4. z \in Nat
    <2> HIDE DEF x
    <2> QED
      BY <1>1
  <1>5. z % Width32 = z
    <2> HIDE DEF z
    <2> QED
      BY <1>1, <1>2, <1>4
  <1> QED
    BY <1>3, <1>5 DEF Requested, Share

LEMMA SharesFit ==
    ASSUME RequestsFit, RtInv
    PROVE  \A t \in RtThreads : Share(request[t]) = Requested(request[t])
  <1>1. Representable(NoRequest)
    <2>1. 0 * Million = 0 /\ 0 \div 1 = 0 /\ 0 < Width64 /\ 0 < Width32
      BY RtAssumption
    <2> QED
      BY <2>1 DEF Representable, NoRequest, Share
  <1>2. \A t \in RtThreads : request[t] \in Whole /\ Representable(request[t])
    BY <1>1, SharesType DEF RequestsFit, RtInv, RtTypeOK
  <1> QED
    BY <1>2, RequestedIsShare

\* What the abstract total is.
LEMMA GrantedIsTotal ==
    ASSUME RequestsFit, RtInv PROVE Admission!Granted = utilisation
  <1>1. \A t \in RtThreads : Decided(t) = "held" <=> place[t] = "held"
    BY DEF RtInv, RtTypeOK, Decided
  <1>2. {t \in RtThreads : Phase[t] = "held"} = Holders
    BY <1>1 DEF Phase, Holders
  <1>3. \A t \in Holders : Asked[t] = Shares[t]
    BY <1>1, SharesFit DEF Asked, Shares, Holders
  <1>4. SumFunctionOnSet(Asked, Holders) = SumFunctionOnSet(Shares, Holders)
    BY <1>3, SharesType, SumAgrees
  <1>5. Admission!Granted = Admission!SumFunctionOnSet(Asked, {t \in RtThreads : Phase[t] = "held"})
    BY DEF Admission!Granted, Asked, Phase
  <1>6. Admission!SumFunctionOnSet(Asked, {t \in RtThreads : Phase[t] = "held"})
        = SumFunctionOnSet(Asked, {t \in RtThreads : Phase[t] = "held"})
    BY DEF SumFunctionOnSet, FoldFunctionOnSet, MapThenFoldSet,
           Admission!SumFunctionOnSet, Admission!FoldFunctionOnSet, Admission!MapThenFoldSet
  <1> QED
    BY <1>2, <1>4, <1>5, <1>6 DEF RtInv

\* A step of one thread leaves the others' phases and shares alone.
LEMMA OthersKeep ==
    ASSUME NEW t \in RtThreads,
           \A u \in RtThreads \ {t} : /\ place'[u] = place[u] /\ request'[u] = request[u]
                                    /\ current'[u] = current[u] /\ answer'[u] = answer[u]
    PROVE  /\ Phase' = [Phase EXCEPT ![t] = Decided(t)']
           /\ Asked' = [Asked EXCEPT ![t] = Asked'[t]]
  <1>1. \A u \in RtThreads \ {t} : Fits(u)' = Fits(u)
    BY DEF Fits, Raised
  <1>2. \A u \in RtThreads \ {t} : Decided(u)' = Decided(u)
    BY <1>1 DEF Decided
  <1>3. ASSUME NEW u \in RtThreads \ {t} PROVE Phase'[u] = Phase[u] /\ Asked'[u] = Asked[u]
    BY <1>2 DEF Phase, Asked
  <1>4. Phase'[t] = Decided(t)'
    BY DEF Phase
  <1>5. /\ Phase = [u \in RtThreads |-> Phase[u]] /\ Phase' = [u \in RtThreads |-> Phase'[u]]
        /\ Asked = [u \in RtThreads |-> Asked[u]] /\ Asked' = [u \in RtThreads |-> Asked'[u]]
    BY DEF Phase, Asked
  <1> DEFINE p == Phase  pp == Phase'  s == Asked  ss == Asked'
  <1> HIDE DEF p, pp, s, ss
  <1> QED
    BY <1>3, <1>4, <1>5

\* A thread whose entry is rewritten as it was.
LEMMA SameEntry ==
    ASSUME NEW t \in RtThreads
    PROVE  /\ [Phase EXCEPT ![t] = Phase[t]] = Phase
           /\ [Asked EXCEPT ![t] = Asked[t]] = Asked
  BY DEF Phase, Asked

AbstractStep == [Admission!Next]_(Admission!vars)

LEMMA StutterOf ==
    ASSUME Phase' = Phase, Asked' = Asked PROVE AbstractStep
  BY DEF AbstractStep, Admission!vars, Phase, Asked

LEMMA AdmissionInit == RtInit => Admission!Init
  <1> SUFFICES ASSUME RtInit PROVE Admission!Init
    OBVIOUS
  <1>1. \A t \in RtThreads : Decided(t) = "out"
    BY DEF RtInit, Decided
  <1> QED
    BY <1>1 DEF Admission!Init

LEMMA AdmissionStep ==
    ASSUME RequestsFit, RtInv, RtInv', [RtNext]_rtVars PROVE AbstractStep
  <1> USE DEF RtInv, RtTypeOK
  <1>0. CASE UNCHANGED rtVars
    <2>1. \A t \in RtThreads : Decided(t)' = Decided(t)
      BY <1>0 DEF rtVars, Decided, Fits, Raised
    <2> QED
      BY <1>0, <2>1, StutterOf DEF Phase, Asked, rtVars
  <1>1. ASSUME NEW t \in RtThreads, NEW r \in RtRequests, RejectPeriod(t, r) PROVE AbstractStep
    <2>1. Decided(t) \in {"out", "refused"} /\ Decided(t)' = "out"
      BY <1>1 DEF RejectPeriod, Decided
    <2>2. Phase' = [Phase EXCEPT ![t] = "out"] /\ Asked' = Asked
      <3>1. /\ Phase' = [Phase EXCEPT ![t] = Decided(t)']
            /\ Asked' = [Asked EXCEPT ![t] = Asked'[t]]
        BY <1>1, OthersKeep DEF RejectPeriod
      <3>2. Asked'[t] = 0 /\ Asked[t] = 0
        BY <2>1 DEF Asked
      <3> QED
        BY <2>1, <3>1, <3>2 DEF Asked
    <2>3. Admission!Reject(t)
      BY <2>1, <2>2 DEF Admission!Reject, Phase, Asked
    <2> QED
      BY <2>3 DEF AbstractStep, Admission!Next
  <1>2. ASSUME NEW t \in RtThreads, NEW r \in RtRequests, Ask(t, r) PROVE AbstractStep
    <2>1. Decided(t) \in {"out", "refused"} /\ Decided(t)' = "asking"
      BY <1>2 DEF Ask, Decided
    <2>2. /\ Phase' = [Phase EXCEPT ![t] = "asking"]
          /\ Asked' = [Asked EXCEPT ![t] = Asked'[t]]
      BY <1>2, <2>1, OthersKeep DEF Ask
    <2>3. Asked'[t] \in Nat
      <3>1. request'[t] = r /\ r \in Whole /\ Representable(r)
        BY <1>2, RtAssumption DEF Ask, Whole, RequestsFit
      <3>2. Asked'[t] = Share(request'[t])
        BY <2>1 DEF Asked
      <3> QED
        BY <3>1, <3>2, RequestedIsShare, RequestedType, RtAssumption
    <2>4. Admission!Ask(t)
      BY <2>1, <2>2, <2>3 DEF Admission!Ask, Phase, Asked
    <2> QED
      BY <2>4 DEF AbstractStep, Admission!Next
  \* A load decides: the thread still asks, or its share does not fit.
  <1>3. ASSUME NEW t \in RtThreads, Decided(t) = "asking",
               place'[t] = "deciding", current'[t] = utilisation, request' = request,
               utilisation' = utilisation,
               \A u \in RtThreads \ {t} : /\ place'[u] = place[u] /\ current'[u] = current[u]
                                        /\ answer'[u] = answer[u]
        PROVE  AbstractStep
    <2>1. /\ Phase' = [Phase EXCEPT ![t] = Decided(t)']
          /\ Asked' = [Asked EXCEPT ![t] = Asked'[t]]
      BY <1>3, OthersKeep
    <2>2. Asked[t] = Requested(request[t])
      BY <1>3, SharesFit DEF Asked
    <2>3. Fits(t)' <=> utilisation + Requested(request[t]) <= Ceiling
      <3>1. Fits(t)' <=> (current[t] + Requested(request[t]) <= Ceiling)'
        BY FitsUnderCeiling, PTL
      <3> QED
        BY <1>3, <3>1
    <2>4. CASE Fits(t)'
      <3>1. Decided(t)' = "asking" /\ Asked'[t] = Asked[t]
        BY <1>3, <2>2, <2>4 DEF Decided, Asked
      <3>2. Decided(t)' = Phase[t]
        BY <1>3, <3>1 DEF Phase
      <3>3. Phase' = Phase /\ Asked' = Asked
        BY <2>1, <3>1, <3>2, SameEntry
      <3> QED
        BY <3>3, StutterOf
    <2>5. CASE ~Fits(t)'
      <3>1. Decided(t)' = "refused" /\ Asked'[t] = 0
        BY <1>3, <2>5 DEF Decided, Asked
      <3>2. Admission!Granted + Asked[t] > Ceiling
        BY <2>2, <2>3, <2>5, GrantedIsTotal, SharesType, RtAssumption
      <3>3. Admission!Refuse(t)
        BY <1>3, <2>1, <3>1, <3>2 DEF Admission!Refuse, Phase, Asked
      <3> QED
        BY <3>3 DEF AbstractStep, Admission!Next
    <2> QED
      BY <2>4, <2>5
  <1>4. ASSUME NEW t \in RtThreads, LoadTotal(t) PROVE AbstractStep
    BY <1>3, <1>4 DEF LoadTotal, Decided
  <1>5. ASSUME NEW t \in RtThreads, ExchangeFails(t) PROVE AbstractStep
    BY <1>3, <1>5 DEF ExchangeFails, Decided
  <1>6. ASSUME NEW t \in RtThreads, Refuse(t) PROVE AbstractStep
    <2>1. Decided(t) = "refused" /\ Decided(t)' = "refused"
      BY <1>6 DEF Refuse, Leave, Decided
    <2>2. /\ Phase' = [Phase EXCEPT ![t] = Decided(t)']
          /\ Asked' = [Asked EXCEPT ![t] = Asked'[t]]
      BY <1>6, OthersKeep DEF Refuse, Leave
    <2>3. Decided(t)' = Phase[t] /\ Asked'[t] = Asked[t]
      BY <2>1 DEF Phase, Asked
    <2>4. Phase' = Phase /\ Asked' = Asked
      BY <2>2, <2>3, SameEntry
    <2> QED
      BY <2>4, StutterOf
  <1>7. ASSUME NEW t \in RtThreads, Exchange(t) PROVE AbstractStep
    <2>1. Decided(t) = "asking" /\ Decided(t)' = "held"
      BY <1>7 DEF Exchange, Decided
    <2>2. /\ Phase' = [Phase EXCEPT ![t] = "held"]
          /\ Asked' = [Asked EXCEPT ![t] = Asked'[t]]
      BY <1>7, <2>1, OthersKeep DEF Exchange
    <2>3. Asked[t] = Requested(request[t]) /\ Asked'[t] = Asked[t]
      BY <1>7, <2>1, SharesFit DEF Exchange, Asked
    <2>6. Asked' = Asked
      BY <2>2, <2>3, SameEntry
    <2>4. Admission!Granted + Asked[t] <= Ceiling
      BY <1>7, <2>3, GrantedIsTotal, FitsUnderCeiling DEF Exchange
    <2>5. Admission!Grant(t)
      BY <2>1, <2>2, <2>6, <2>4 DEF Admission!Grant, Phase, Asked
    <2> QED
      BY <2>5 DEF AbstractStep, Admission!Next
  <1>8. ASSUME NEW t \in RtThreads, Release(t) PROVE AbstractStep
    <2>1. Decided(t) = "held" /\ Decided(t)' = "out"
      BY <1>8 DEF Release, Leave, Decided
    <2>2. Asked'[t] = 0
      BY <2>1 DEF Asked
    <2>3. /\ Phase' = [Phase EXCEPT ![t] = "out"]
          /\ Asked' = [Asked EXCEPT ![t] = 0]
      BY <1>8, <2>1, <2>2, OthersKeep DEF Release, Leave
    <2>4. Admission!Release(t)
      BY <2>1, <2>3 DEF Admission!Release, Phase, Asked
    <2> QED
      BY <2>4 DEF AbstractStep, Admission!Next
  <1> QED
    BY <1>0, <1>1, <1>2, <1>4, <1>5, <1>6, <1>7, <1>8 DEF RtNext

-----------------------------------------------------------------------------
\* The total is the sum of what was added for those who hold a reservation,
\* however the loads and exchanges of admissions and releases interleave
\* (sched.rs:174-214).  This holds of every request, the ones too large for the
\* arithmetic included.
THEOREM RtTotalIsSum == RtSpec => []RtInv
  BY RtInitInv, RtStepInv, PTL DEF RtSpec

\* The loop of admit_realtime implements admission at one instant, of the shares
\* that budgets and periods stand for: the ceiling holds, and nobody is refused
\* a share that fitted (sched.rs:163-206).  No request may be too large for the
\* arithmetic: the run rt_overflow shows what becomes of the ceiling otherwise.
THEOREM RtImplementsAdmission ==
    ASSUME RequestsFit PROVE RtSpec => ImplementsAdmissionControl
  <1>1. RtInv /\ RtInv' /\ [RtNext]_rtVars => AbstractStep
    BY AdmissionStep
  <1> QED
    BY <1>1, RtTotalIsSum, AdmissionInit, PTL
    DEF RtSpec, ImplementsAdmissionControl, Admission!Spec, AbstractStep

-----------------------------------------------------------------------------
(* Notification ports *)

\* Remainders are unique.
LEMMA RemainderIs ==
    ASSUME NEW n \in Nat \ {0}, NEW q \in Int, NEW r \in 0 .. n - 1, NEW x \in Nat,
           x = q * n + r
    PROVE  x % n = r
  <1> DEFINE c == x \div n  s == x % n
  <1>1. x = c * n + s /\ c \in Int /\ s \in 0 .. n - 1
    BY Z3
  <1> HIDE DEF c, s
  <1> DEFINE k == q - c
  <1>2. k \in Int /\ k * n = s - r
    BY <1>1
  <1> HIDE DEF k
  <1>3. ~(k >= 1) /\ ~(k <= -1)
    BY <1>1, <1>2, Z3
  <1>4. k * n = 0
    BY <1>2, <1>3
  <1> QED
    BY <1>1, <1>2, <1>4 DEF s

\* What is added by a multiple leaves the remainder alone.
LEMMA RemainderShifts ==
    ASSUME NEW n \in Nat \ {0}, NEW q \in Nat, NEW x \in Nat
    PROVE  (x + (q * n)) % n = x % n
  <1> DEFINE c == x \div n  s == x % n
  <1>1. x = c * n + s /\ c \in Nat /\ s \in 0 .. n - 1
    BY Z3
  <1> HIDE DEF c, s
  <1>2. x + (q * n) = (c + q) * n + s /\ c + q \in Int /\ x + (q * n) \in Nat
    BY <1>1
  <1>3. (x + (q * n)) % n = s
    BY <1>1, <1>2, RemainderIs
  <1> QED
    BY <1>3 DEF s

\* The width of an index is a multiple of the ring's size.
LEMMA WidthIsMultiple ==
    \E m \in Nat : Width = m * RingSlots
  <1> DEFINE c == Width \div RingSlots
  <1>1. Width = c * RingSlots + (Width % RingSlots) /\ c \in Nat
    BY Z3, PortAssumption
  <1> QED
    BY <1>1, PortAssumption

Wraps(x) == x % Width = IF x < Width THEN x ELSE x - Width

LEMMA WrapIs ==
    ASSUME NEW x, x \in 0 .. (2 * Width) - 1
    PROVE  Wraps(x)
  <1>1. Width \in Nat \ {0} /\ x \in Nat
    BY PortAssumption
  <1>2. CASE x < Width
    <2>1. x = 0 * Width + x /\ x \in 0 .. Width - 1
      BY <1>1, <1>2
    <2>2. x % Width = x
      BY <1>1, <2>1, RemainderIs
    <2> QED
      BY <1>2, <2>2 DEF Wraps
  <1>3. CASE ~(x < Width)
    <2>1. x = 1 * Width + (x - Width) /\ x - Width \in 0 .. Width - 1
      BY <1>1, <1>3
    <2>2. x % Width = x - Width
      BY <1>1, <2>1, RemainderIs
    <2> QED
      BY <1>3, <2>2 DEF Wraps
  <1> QED
    BY <1>2, <1>3

\* The distance between two indices.
LEMMA DistanceIs ==
    ASSUME NEW a \in RingIndices, NEW b \in RingIndices
    PROVE  Distance(a, b) = IF a < b THEN Width + a - b ELSE a - b
  <1>1. Width \in Nat \ {0} /\ a \in Nat /\ b \in Nat /\ a < Width /\ b < Width
    BY PortAssumption DEF RingIndices
  <1>2. Width + a - b \in 0 .. (2 * Width) - 1
    BY <1>1
  <1>3. Wraps(Width + a - b)
    BY <1>2, WrapIs
  <1> QED
    BY <1>1, <1>3 DEF Distance, Wraps

\* One index moves on by one, unless the indices would meet.
LEMMA DistanceMoves ==
    ASSUME NEW a \in RingIndices, NEW b \in RingIndices
    PROVE  /\ Distance(a, b) \in 0 .. Width - 1
           /\ (a + 1) % Width \in RingIndices
           /\ Distance(a, b) < Width - 1 => Distance((a + 1) % Width, b) = Distance(a, b) + 1
           /\ Distance(a, b) # 0 => Distance(a, (b + 1) % Width) = Distance(a, b) - 1
  <1>1. Width \in Nat /\ Width > 1 /\ a \in Nat /\ b \in Nat /\ a < Width /\ b < Width
    BY PortAssumption DEF RingIndices
  <1>2. ASSUME NEW x \in RingIndices
        PROVE  /\ (x + 1) % Width = IF x + 1 < Width THEN x + 1 ELSE 0
               /\ (x + 1) % Width \in RingIndices
    <2>1. x \in Nat /\ x < Width /\ x + 1 \in 0 .. (2 * Width) - 1
      BY <1>1 DEF RingIndices
    <2>2. Wraps(x + 1)
      BY <2>1, WrapIs
    <2>3. (x + 1) % Width = IF x + 1 < Width THEN x + 1 ELSE 0
      BY <1>1, <2>1, <2>2 DEF Wraps
    <2> QED
      BY <1>1, <2>1, <2>3 DEF RingIndices
  <1> DEFINE d == Distance(a, b)  an == (a + 1) % Width  bn == (b + 1) % Width
  <1>3. d = IF a < b THEN Width + a - b ELSE a - b
    BY DistanceIs
  <1>4. /\ an = IF a + 1 < Width THEN a + 1 ELSE 0
        /\ bn = IF b + 1 < Width THEN b + 1 ELSE 0
        /\ an \in RingIndices /\ bn \in RingIndices
    BY <1>2
  <1>5. /\ Distance(an, b) = IF an < b THEN Width + an - b ELSE an - b
        /\ Distance(a, bn) = IF a < bn THEN Width + a - bn ELSE a - bn
    BY <1>4, DistanceIs
  <1> HIDE DEF d, an, bn
  <1>6. /\ d \in 0 .. Width - 1
        /\ d < Width - 1 => Distance(an, b) = d + 1
        /\ d # 0 => Distance(a, bn) = d - 1
    BY <1>1, <1>3, <1>4, <1>5
  <1> QED
    BY <1>4, <1>6 DEF d, an, bn

\* The entry an index leads to when it has moved on by k.
Entry(a, k) == (a + k) % RingSlots

LEMMA EntryType ==
    ASSUME NEW a \in RingIndices, NEW k \in Nat
    PROVE  Entry(a, k) \in 0 .. RingSlots - 1 /\ Entry(a, 0) = a % RingSlots
  <1>1. RingSlots \in Nat \ {0} /\ a \in Nat
    BY PortAssumption DEF RingIndices
  <1>2. (a + k) % RingSlots \in 0 .. RingSlots - 1
    BY <1>1, Z3
  <1>3. a + 0 = a
    BY <1>1
  <1> QED
    BY <1>2, <1>3 DEF Entry

\* Fewer entries than the ring has are all different.
LEMMA EntriesDiffer ==
    ASSUME NEW a \in RingIndices, NEW j \in Nat, NEW k \in Nat,
           j < k, k < j + RingSlots
    PROVE  Entry(a, j) # Entry(a, k)
  <1> DEFINE n == RingSlots  x == a + j  c == x \div n  s == x % n  y == a + k
  <1>1. n \in Nat \ {0} /\ x \in Nat /\ y \in Nat /\ a \in Nat
    BY PortAssumption DEF RingIndices
  <1>2. x = c * n + s /\ c \in Int /\ s \in 0 .. n - 1
    BY <1>1, Z3
  <1> HIDE DEF c, s
  <1> SUFFICES ASSUME Entry(a, j) = Entry(a, k) PROVE FALSE
    OBVIOUS
  <1> DEFINE e == y \div n  t == y % n
  <1>3. y = e * n + t /\ e \in Int
    BY <1>1, Z3
  <1>4. s = t
    BY DEF Entry, s, t
  <1> HIDE DEF e, t
  <1> DEFINE b == e - c
  <1>5. b \in Int /\ b * n = k - j
    BY <1>1, <1>2, <1>3, <1>4
  <1> HIDE DEF b
  <1>6. ~(b >= 1) /\ ~(b <= 0)
    BY <1>1, <1>5, Z3
  <1> QED
    BY <1>5, <1>6

\* The head's entry is the one behind the queue; the tail's next is the second.
LEMMA EntryOfHead ==
    ASSUME NEW a \in RingIndices, NEW b \in RingIndices
    PROVE  a % RingSlots = Entry(b, Distance(a, b))
  <1>1. RingSlots \in Nat \ {0} /\ Width \in Nat /\ a \in Nat /\ b \in Nat /\ a < Width /\ b < Width
    BY PortAssumption DEF RingIndices
  <1>2. Distance(a, b) = IF a < b THEN Width + a - b ELSE a - b
    BY DistanceIs
  <1>3. CASE ~(a < b)
    <2>1. b + Distance(a, b) = a
      BY <1>1, <1>2, <1>3
    <2> QED
      BY <2>1 DEF Entry
  <1>4. CASE a < b
    <2>1. PICK m \in Nat : Width = m * RingSlots
      BY WidthIsMultiple
    <2>2. b + Distance(a, b) = a + (m * RingSlots)
      BY <1>1, <1>2, <1>4, <2>1
    <2>3. (a + (m * RingSlots)) % RingSlots = a % RingSlots
      BY <1>1, RemainderShifts
    <2> QED
      BY <2>2, <2>3 DEF Entry
  <1> QED
    BY <1>3, <1>4

LEMMA EntryAfter ==
    ASSUME NEW b \in RingIndices, NEW k \in Nat
    PROVE  Entry((b + 1) % Width, k) = Entry(b, k + 1)
  <1>1. RingSlots \in Nat \ {0} /\ Width \in Nat /\ Width > 1 /\ b \in Nat /\ b < Width
    BY PortAssumption DEF RingIndices
  <1>2. b + 1 \in 0 .. (2 * Width) - 1
    BY <1>1
  <1>3. Wraps(b + 1)
    BY <1>2, WrapIs
  <1>4. CASE b + 1 < Width
    <2>1. (b + 1) + k = b + (k + 1)
      BY <1>1
    <2> QED
      BY <1>3, <1>4, <2>1 DEF Entry, Wraps
  <1>5. CASE ~(b + 1 < Width)
    <2>1. PICK m \in Nat : Width = m * RingSlots
      BY WidthIsMultiple
    <2>2. b + (k + 1) = k + (m * RingSlots) /\ ((b + 1) % Width) + k = k
      BY <1>1, <1>3, <1>5, <2>1 DEF Wraps
    <2>3. (k + (m * RingSlots)) % RingSlots = k % RingSlots
      BY <1>1, RemainderShifts
    <2> QED
      BY <2>2, <2>3 DEF Entry
  <1> QED
    BY <1>4, <1>5

\* How many notifications are between tail and head.
Fill == Distance(head, tail)

\* What is known of a port with one poster: it alone moves head, so that what
\* it loaded is the head still; the ring is never overfull; between tail and
\* head there are notifications; and the posts add up.
PostInv(p) ==
    /\ ppc[p] # "idle" => seen[p] = head /\ posts[p] # 0
    /\ ppc[p] = "written" \/ (ppc[p] = "checked" /\ ~full[p]) => Fill < RingSlots
    /\ ppc[p] = "written" => ring[Entry(tail, Fill)] = Note(p)

RingInv ==
    /\ Fill <= RingSlots
    /\ rpc # "idle" => Fill # 0
    /\ rpc = "taken" => inHand \in Notes
    /\ \A i \in 0 .. Fill - 1 : i # 0 \/ rpc # "taken" => ring[Entry(tail, i)] \in Notes

CountInv(p) ==
    posts[p] = received + Fill + dropped + reported + (IF ppc[p] = "idle" THEN 0 ELSE 1)

PortInv(p) == PortTypeOK /\ PostInv(p) /\ RingInv /\ CountInv(p)

LEMMA PortFacts ==
    ASSUME NEW p \in Producers, PortInv(p)
    PROVE  /\ head \in RingIndices /\ tail \in RingIndices
           /\ Fill \in 0 .. Width - 1 /\ Fill \in 0 .. RingSlots
           /\ RingSlots \in Nat \ {0} /\ RingSlots < Width /\ Width \in Nat
           /\ head % RingSlots = Entry(tail, Fill)
           /\ tail % RingSlots = Entry(tail, 0)
           /\ \A i \in Nat : Entry(tail, i) \in 0 .. RingSlots - 1
           /\ NoNote \notin Notes
  <1>1. head \in RingIndices /\ tail \in RingIndices
    BY DEF PortInv, PortTypeOK
  <1>2. Fill \in 0 .. Width - 1
    BY <1>1, DistanceMoves DEF Fill
  <1>3. RingSlots \in Nat \ {0} /\ RingSlots < Width /\ Width \in Nat /\ NoNote \notin Notes
    BY PortAssumption DEF Notes
  <1>4. Fill \in 0 .. RingSlots
    BY <1>2, <1>3 DEF PortInv, RingInv
  <1>5. head % RingSlots = Entry(tail, Fill)
    BY <1>1, EntryOfHead DEF Fill
  <1>6. tail % RingSlots = Entry(tail, 0) /\ \A i \in Nat : Entry(tail, i) \in 0 .. RingSlots - 1
    BY <1>1, EntryType
  <1> QED
    BY <1>1, <1>2, <1>3, <1>4, <1>5, <1>6

LEMMA PortInitInv ==
    ASSUME NEW p, Producers = {p}, PortInit PROVE PortInv(p)
  <1>1. 0 \in RingIndices
    BY PortAssumption DEF RingIndices
  <1>2. Fill = 0
    BY <1>1, DistanceIs DEF PortInit, Fill
  <1>3. PortTypeOK
    BY <1>1, PortAssumption DEF PortInit, PortTypeOK
  <1>4. PostInv(p) /\ CountInv(p)
    BY <1>2 DEF PortInit, PostInv, CountInv
  <1>5. RingInv
    BY <1>2, PortAssumption DEF PortInit, RingInv
  <1> QED
    BY <1>3, <1>4, <1>5 DEF PortInv

LEMMA PortStepInv ==
    ASSUME NEW p, Producers = {p}, PortInv(p), [PortNext]_portVars
    PROVE  PortInv(p)'
  <1> DEFINE f == Fill
  <1>p. p \in Producers
    OBVIOUS
  <1>f. /\ head \in RingIndices /\ tail \in RingIndices
        /\ f \in 0 .. Width - 1 /\ f \in 0 .. RingSlots
        /\ RingSlots \in Nat \ {0} /\ RingSlots < Width /\ Width \in Nat
        /\ head % RingSlots = Entry(tail, f)
        /\ tail % RingSlots = Entry(tail, 0)
        /\ \A i \in Nat : Entry(tail, i) \in 0 .. RingSlots - 1
        /\ NoNote \notin Notes
    BY <1>p, PortFacts
  <1> HIDE DEF f
  <1>i. ASSUME head' = head, tail' = tail PROVE Fill' = f
    BY <1>i DEF Fill, Distance, f
  <1>0. CASE UNCHANGED portVars
    <2>1. Fill' = Fill /\ \A i : Entry(tail, i)' = Entry(tail, i)
      BY <1>0 DEF portVars, Fill, Distance, Entry
    <2> QED
      BY <1>0, <2>1 DEF portVars, PortInv, PortTypeOK, PostInv, RingInv, CountInv, Note
  <1>1. CASE LoadHead(p)
    <2>1. Fill' = f /\ f = Fill /\ tail' = tail
      BY <1>1, <1>i DEF LoadHead, f
    <2>2. PortTypeOK'
      <3>1. posts[p] + 1 \in 0 .. MaxPosts
        BY <1>1, <1>p, PortAssumption DEF LoadHead, PortInv, PortTypeOK
      <3> QED
        BY <1>1, <1>p, <1>f, <3>1 DEF LoadHead, PortInv, PortTypeOK, receiver
    <2>3. PostInv(p)'
      BY <1>1, <1>p, <2>1 DEF LoadHead, PortInv, PortTypeOK, PostInv
    <2>4. RingInv'
      BY <1>1, <2>1 DEF LoadHead, PortInv, RingInv, receiver, Entry
    <2>5. CountInv(p)'
      BY <1>1, <1>p, <1>f, <2>1 DEF LoadHead, PortInv, PortTypeOK, CountInv, receiver
    <2> QED
      BY <2>2, <2>3, <2>4, <2>5 DEF PortInv
  <1>2. CASE LoadTail(p)
    <2>1. Fill' = f /\ f = Fill /\ tail' = tail
      BY <1>2, <1>i DEF LoadTail, f
    <2>2. PortTypeOK'
      BY <1>2, <1>p, <1>f DEF LoadTail, PortInv, PortTypeOK, receiver
    <2>3. PostInv(p)'
      <3>1. seen[p] = head /\ posts[p] # 0
        BY <1>2 DEF LoadTail, PortInv, PostInv
      <3>2. full'[p] = (Fill >= RingSlots)
        BY <1>2, <1>p, <3>1 DEF LoadTail, PortInv, PortTypeOK, Fill
      <3>4. Fill >= RingSlots \/ f < RingSlots
        BY <1>f, <2>1
      <3>3. full'[p] \/ f < RingSlots
        BY <3>2, <3>4, Zenon
      <3> QED
        BY <1>2, <1>p, <2>1, <3>1, <3>3 DEF LoadTail, PortInv, PortTypeOK, PostInv
    <2>4. RingInv'
      BY <1>2, <2>1 DEF LoadTail, PortInv, RingInv, receiver, Entry
    <2>5. CountInv(p)'
      BY <1>2, <1>p, <1>f, <2>1 DEF LoadTail, PortInv, PortTypeOK, CountInv, receiver
    <2> QED
      BY <2>2, <2>3, <2>4, <2>5 DEF PortInv
  <1>3. CASE CountDrop(p)
    <2>1. Fill' = f /\ f = Fill /\ tail' = tail
      BY <1>3, <1>i DEF CountDrop, f
    <2>2. PortTypeOK'
      BY <1>3, <1>p, <1>f DEF CountDrop, PortInv, PortTypeOK, receiver
    <2>3. PostInv(p)'
      BY <1>3, <1>p, <2>1 DEF CountDrop, PortInv, PortTypeOK, PostInv
    <2>4. RingInv'
      BY <1>3, <2>1 DEF CountDrop, PortInv, RingInv, receiver, Entry
    <2>5. CountInv(p)'
      BY <1>3, <1>p, <1>f, <2>1 DEF CountDrop, PortInv, PortTypeOK, CountInv, receiver
    <2> QED
      BY <2>2, <2>3, <2>4, <2>5 DEF PortInv
  <1>4. CASE WriteSlot(p)
    <2>1. Fill' = f /\ f = Fill /\ tail' = tail /\ f < RingSlots
      BY <1>4, <1>i DEF WriteSlot, f, PortInv, PostInv
    <2>2. /\ seen[p] = head /\ posts[p] # 0 /\ Note(p) \in Notes
          /\ ring' = [ring EXCEPT ![Entry(tail, f)] = Note(p)]
      <3>1. seen[p] = head /\ posts[p] # 0
        BY <1>4 DEF WriteSlot, PortInv, PostInv
      <3>2. posts[p] \in 1 .. MaxPosts
        BY <1>p, <3>1, PortAssumption DEF PortInv, PortTypeOK
      <3> QED
        BY <1>4, <1>p, <1>f, <3>1, <3>2 DEF WriteSlot, Note, Notes
    <2>3. PortTypeOK'
      BY <1>4, <1>p, <1>f, <2>2 DEF WriteSlot, PortInv, PortTypeOK, receiver
    <2>4. PostInv(p)'
      <3>1. ring'[Entry(tail, f)] = Note(p)
        BY <1>f, <2>2 DEF PortInv, PortTypeOK
      <3>2. ring'[Entry(tail, Fill)'] = Note(p)'
        BY <1>4, <2>1, <3>1 DEF Entry, Note, WriteSlot
      <3> QED
        BY <1>4, <1>p, <2>1, <2>2, <3>2 DEF WriteSlot, PortInv, PortTypeOK, PostInv
    <2>5. RingInv'
      <3>1. ASSUME NEW i \in 0 .. f - 1, i # 0 \/ rpc # "taken"
            PROVE  ring'[Entry(tail, i)] \in Notes
        <4>1. ring[Entry(tail, i)] \in Notes
          BY <2>1, <3>1 DEF PortInv, RingInv
        <4>2. i \in Nat /\ f \in Nat /\ i < f /\ f < i + RingSlots
          BY <1>f, <2>1
        <4>3. Entry(tail, i) # Entry(tail, f)
          BY <1>f, <4>2, EntriesDiffer
        <4> QED
          BY <1>f, <2>2, <4>1, <4>2, <4>3 DEF PortInv, PortTypeOK
      <3> QED
        BY <1>4, <2>1, <3>1 DEF WriteSlot, PortInv, RingInv, receiver, Entry
    <2>6. CountInv(p)'
      BY <1>4, <1>p, <1>f, <2>1 DEF WriteSlot, PortInv, PortTypeOK, CountInv, receiver
    <2> QED
      BY <2>3, <2>4, <2>5, <2>6 DEF PortInv
  <1>5. CASE PublishHead(p)
    <2>1. /\ f = Fill /\ f < RingSlots /\ seen[p] = head /\ ring[Entry(tail, f)] \in Notes
          /\ tail' = tail
      <3>1. f = Fill /\ f < RingSlots /\ seen[p] = head /\ posts[p] # 0
            /\ ring[Entry(tail, f)] = Note(p)
        BY <1>5 DEF PublishHead, PortInv, PostInv, f
      <3>2. posts[p] \in 1 .. MaxPosts
        BY <1>p, <3>1, PortAssumption DEF PortInv, PortTypeOK
      <3> QED
        BY <1>5, <1>p, <3>1, <3>2 DEF Note, Notes, PublishHead
    <2>2. Fill' = f + 1 /\ head' \in RingIndices
      <3>1. f < Width - 1
        BY <1>f, <2>1
      <3>2. Distance((head + 1) % Width, tail) = f + 1 /\ (head + 1) % Width \in RingIndices
        BY <1>f, <2>1, <3>1, DistanceMoves DEF Fill
      <3> QED
        BY <1>5, <2>1, <3>2 DEF PublishHead, Fill
    <2>3. PortTypeOK'
      BY <1>5, <1>p, <1>f, <2>2 DEF PublishHead, PortInv, PortTypeOK, receiver
    <2>4. PostInv(p)'
      BY <1>5, <1>p DEF PublishHead, PortInv, PortTypeOK, PostInv
    <2>5. RingInv'
      <3>1. ASSUME NEW i \in 0 .. f, i # 0 \/ rpc # "taken"
            PROVE  ring[Entry(tail, i)] \in Notes
        <4>1. CASE i = f
          BY <2>1, <4>1
        <4>2. CASE i # f
          <5>1. i \in 0 .. f - 1
            BY <1>f, <4>2
          <5> QED
            BY <2>1, <3>1, <5>1 DEF PortInv, RingInv
        <4> QED
          BY <4>1, <4>2
      <3>2. f + 1 <= RingSlots /\ f + 1 # 0 /\ f + 1 - 1 = f
        BY <1>f, <2>1
      <3>3. Fill' - 1 = f /\ Fill' <= RingSlots /\ Fill' # 0
        BY <1>f, <2>2, <3>2
      <3>4. /\ rpc' = rpc /\ inHand' = inHand /\ ring' = ring
            /\ \A i : Entry(tail, i)' = Entry(tail, i)
        BY <1>5 DEF PublishHead, receiver, Entry
      <3> QED
        BY <3>1, <3>3, <3>4 DEF PortInv, RingInv
    <2>6. CountInv(p)'
      BY <1>5, <1>p, <1>f, <2>1, <2>2 DEF PublishHead, PortInv, PortTypeOK, CountInv, receiver
    <2> QED
      BY <2>3, <2>4, <2>5, <2>6 DEF PortInv
  <1>6. CASE SeeNonempty
    <2>1. Fill' = f /\ f = Fill /\ tail' = tail /\ f # 0
      <3>1. Fill = IF head < tail THEN Width + head - tail ELSE head - tail
        BY <1>f, DistanceIs DEF Fill
      <3>2. head # tail /\ head \in Nat /\ tail \in Nat /\ head < Width /\ tail < Width
        BY <1>6, <1>f DEF SeeNonempty, RingIndices
      <3>3. Fill # 0
        BY <1>f, <3>1, <3>2
      <3> QED
        BY <1>6, <1>i, <3>3 DEF SeeNonempty, f
    <2>2. PortTypeOK'
      BY <1>6, <1>p, <1>f DEF SeeNonempty, PortInv, PortTypeOK
    <2>3. PostInv(p)'
      BY <1>6, <1>p, <2>1 DEF SeeNonempty, PortInv, PostInv, Entry, Note
    <2>4. RingInv'
      BY <1>6, <2>1 DEF SeeNonempty, PortInv, RingInv, Entry
    <2>5. CountInv(p)'
      BY <1>6, <1>p, <2>1 DEF SeeNonempty, PortInv, CountInv
    <2> QED
      BY <2>2, <2>3, <2>4, <2>5 DEF PortInv
  <1>7. CASE TakeSlot
    <2>1. Fill' = f /\ f = Fill /\ tail' = tail /\ f # 0
      BY <1>7, <1>i DEF TakeSlot, f, PortInv, RingInv
    <2>2. inHand' \in Notes /\ ring' = [ring EXCEPT ![Entry(tail, 0)] = NoNote]
      <3>1. 0 \in 0 .. f - 1
        BY <1>f, <2>1
      <3>2. ring[Entry(tail, 0)] \in Notes
        BY <1>7, <2>1, <3>1 DEF TakeSlot, PortInv, RingInv
      <3> QED
        BY <1>7, <1>f, <3>2 DEF TakeSlot
    <2>7. ASSUME NEW i \in Nat, 0 < i, i < RingSlots
          PROVE  ring'[Entry(tail, i)] = ring[Entry(tail, i)]
      <3>1. Entry(tail, 0) # Entry(tail, i)
        BY <1>f, <2>7, EntriesDiffer
      <3> QED
        BY <1>f, <2>2, <3>1 DEF PortInv, PortTypeOK
    <2>3. PortTypeOK'
      BY <1>7, <1>p, <1>f, <2>2 DEF TakeSlot, PortInv, PortTypeOK
    <2>4. PostInv(p)'
      <3>1. ASSUME ppc[p] = "written" PROVE ring'[Entry(tail, f)] = Note(p)
        <4>1. f \in Nat /\ 0 < f /\ f < RingSlots /\ ring[Entry(tail, f)] = Note(p)
          BY <1>f, <2>1, <3>1 DEF PortInv, PostInv
        <4> QED
          BY <2>7, <4>1
      <3>2. Entry(tail, Fill)' = Entry(tail, f) /\ Note(p)' = Note(p)
        BY <1>7, <2>1 DEF TakeSlot, Entry, Note
      <3> QED
        BY <1>7, <1>p, <2>1, <3>1, <3>2 DEF TakeSlot, PortInv, PostInv
    <2>5. RingInv'
      <3>1. ASSUME NEW i \in 0 .. f - 1, i # 0
            PROVE  ring'[Entry(tail, i)] \in Notes
        <4>1. i \in Nat /\ 0 < i /\ i < RingSlots
          BY <1>f, <3>1
        <4>2. ring[Entry(tail, i)] \in Notes
          BY <2>1, <3>1 DEF PortInv, RingInv
        <4> QED
          BY <2>7, <4>1, <4>2
      <3> QED
        BY <1>7, <2>1, <2>2, <3>1 DEF TakeSlot, PortInv, RingInv, Entry
    <2>6. CountInv(p)'
      BY <1>7, <1>p, <2>1 DEF TakeSlot, PortInv, CountInv
    <2> QED
      BY <2>3, <2>4, <2>5, <2>6 DEF PortInv
  <1>8. CASE PublishTail
    <2>1. f = Fill /\ f # 0 /\ inHand \in Notes
      BY <1>8 DEF PublishTail, f, PortInv, RingInv
    <2>2. Fill' = f - 1 /\ tail' = (tail + 1) % Width /\ tail' \in RingIndices
      <3>1. Distance(head, (tail + 1) % Width) = f - 1 /\ (tail + 1) % Width \in RingIndices
        BY <1>f, <2>1, DistanceMoves DEF Fill
      <3> QED
        BY <1>8, <3>1 DEF PublishTail, Fill
    <2>3. \A i \in Nat : Entry(tail', i) = Entry(tail, i + 1)
      BY <1>f, <2>2, EntryAfter
    <2>4. PortTypeOK'
      BY <1>8, <1>p, <1>f, <2>2 DEF PublishTail, PortInv, PortTypeOK
    <2>5. PostInv(p)'
      <3>1. Entry(tail', f - 1) = Entry(tail, f)
        <4>1. f - 1 \in Nat /\ f - 1 + 1 = f
          BY <1>f, <2>1
        <4> QED
          BY <2>3, <4>1
      <3>2. Entry(tail, Fill)' = Entry(tail, f) /\ Note(p)' = Note(p)
        BY <1>8, <2>2, <3>1 DEF PublishTail, Entry, Note
      <3> QED
        BY <1>8, <1>p, <1>f, <2>1, <2>2, <3>2 DEF PublishTail, PortInv, PostInv
    <2>6. RingInv'
      <3>1. ASSUME NEW i \in 0 .. f - 2 PROVE ring[Entry(tail', i)] \in Notes
        <4>1. i \in Nat /\ i + 1 \in 0 .. f - 1 /\ i + 1 # 0
          BY <1>f
        <4>2. ring[Entry(tail, i + 1)] \in Notes
          BY <2>1, <4>1 DEF PortInv, RingInv
        <4> QED
          BY <2>3, <4>1, <4>2
      <3>2. f - 1 <= RingSlots /\ (f - 1) - 1 = f - 2
        BY <1>f
      <3> QED
        BY <1>8, <2>2, <3>1, <3>2 DEF PublishTail, RingInv, Entry
    <2>7. CountInv(p)'
      <3>1. received' = received + 1
        BY <1>8, <1>f, <2>1 DEF PublishTail
      <3> QED
        BY <1>8, <1>p, <1>f, <2>1, <2>2, <3>1 DEF PublishTail, PortInv, PortTypeOK, CountInv
    <2> QED
      BY <2>4, <2>5, <2>6, <2>7 DEF PortInv
  <1>9. CASE TakeDropCount
    <2>1. Fill' = f /\ f = Fill /\ tail' = tail
      BY <1>9, <1>i DEF TakeDropCount, f
    <2>2. PortTypeOK'
      BY <1>9, <1>p, <1>f DEF TakeDropCount, PortInv, PortTypeOK, receiver
    <2>3. PostInv(p)'
      BY <1>9, <1>p, <2>1 DEF TakeDropCount, PortInv, PostInv, Entry, Note
    <2>4. RingInv'
      BY <1>9, <2>1 DEF TakeDropCount, PortInv, RingInv, Entry, receiver
    <2>5. CountInv(p)'
      BY <1>9, <1>p, <1>f, <2>1 DEF TakeDropCount, PortInv, PortTypeOK, CountInv, receiver
    <2> QED
      BY <2>2, <2>3, <2>4, <2>5 DEF PortInv
  <1> QED
    BY <1>0, <1>1, <1>2, <1>3, <1>4, <1>5, <1>6, <1>7, <1>8, <1>9
    DEF PortNext, Post, Receive

-----------------------------------------------------------------------------
(* A bounded queue *)

\* The i-th notification of the queue, from 1.
Item(i) == IF i = 1 /\ rpc = "taken" THEN inHand ELSE ring[Entry(tail, i - 1)]

Doomed(p) == IF ppc[p] = "checked" /\ full[p] THEN 1 ELSE 0

Dropping == Cardinality({p \in Producers : ppc[p] = "checked" /\ full[p]})
Counts == <<Dropping, dropped, reported>>

QueueFacts(p) ==
    /\ Queue = [i \in 1 .. Fill |-> Item(i)]
    /\ Queue \in Seq(Notes) /\ Len(Queue) = Fill
    /\ Dropping = Doomed(p)

LEMMA QueueIs ==
    ASSUME NEW p, Producers = {p}, PortInv(p)
    PROVE  QueueFacts(p)
  <1>1. /\ tail \in RingIndices /\ Fill \in 0 .. RingSlots /\ RingSlots \in Nat
        /\ \A i \in Nat : Entry(tail, i) \in 0 .. RingSlots - 1
    BY PortFacts
  <1>2. ASSUME NEW i \in 1 .. Fill
        PROVE  (tail + i - 1) % RingSlots = Entry(tail, i - 1)
    <2>1. tail + i - 1 = tail + (i - 1)
      BY <1>1 DEF RingIndices
    <2> QED
      BY <2>1 DEF Entry
  <1>3. Queue = [i \in 1 .. Fill |-> Item(i)]
    BY <1>2 DEF Queue, Item, Fill
  <1>4. ASSUME NEW i \in 1 .. Fill PROVE Item(i) \in Notes
    <2>1. i - 1 \in 0 .. Fill - 1 /\ (i - 1 # 0 <=> i # 1)
      BY <1>1
    <2> QED
      BY <2>1 DEF Item, PortInv, RingInv
  <1>5. Queue \in Seq(Notes) /\ Len(Queue) = Fill
    BY <1>1, <1>3, <1>4
  <1>6. Cardinality({u \in Producers : ppc[u] = "checked" /\ full[u]}) = Doomed(p)
    <2>1. CASE ppc[p] = "checked" /\ full[p]
      <3>1. {u \in Producers : ppc[u] = "checked" /\ full[u]} = {p}
        BY <2>1
      <3> QED
        BY <2>1, <3>1, FS_Singleton DEF Doomed
    <2>2. CASE ~(ppc[p] = "checked" /\ full[p])
      <3>1. {u \in Producers : ppc[u] = "checked" /\ full[u]} = {}
        BY <2>2
      <3> QED
        BY <2>2, <3>1, FS_EmptySet DEF Doomed
    <2> QED
      BY <2>1, <2>2
  <1> QED
    BY <1>3, <1>5, <1>6 DEF Dropping, QueueFacts

LEMMA QueueIsNext ==
    ASSUME NEW p, Producers = {p}
    PROVE  PortInv(p)' => QueueFacts(p)'
  <1>1. PortInv(p) => QueueFacts(p)
    BY QueueIs
  <1> QED
    BY <1>1, PTL

ChannelStep == [Channel!Next]_(Channel!vars)

LEMMA ChannelInit ==
    ASSUME NEW p, Producers = {p}, PortInit PROVE Channel!Init
  <1>1. 0 \in RingIndices
    BY PortAssumption DEF RingIndices
  <1>2. Fill = 0
    BY <1>1, DistanceIs DEF PortInit, Fill
  <1>3. PortInv(p)
    BY PortInitInv
  <1>4. Queue = <<>>
    BY <1>2, <1>3, QueueIs DEF QueueFacts
  <1>5. Dropping = 0
    BY <1>3, QueueIs DEF PortInit, Doomed, QueueFacts
  <1> QED
    BY <1>4, <1>5 DEF Channel!Init, Dropping, PortInit

LEMMA ChannelRefined ==
    ASSUME NEW p, Producers = {p}, PortInv(p), PortInv(p)',
           [PortNext]_portVars
    PROVE  ChannelStep
  <1>p. p \in Producers
    OBVIOUS
  <1>f. /\ head \in RingIndices /\ tail \in RingIndices
        /\ Fill \in 0 .. Width - 1 /\ Fill \in 0 .. RingSlots
        /\ RingSlots \in Nat \ {0} /\ RingSlots < Width /\ Width \in Nat
        /\ head % RingSlots = Entry(tail, Fill)
        /\ tail % RingSlots = Entry(tail, 0)
        /\ \A i \in Nat : Entry(tail, i) \in 0 .. RingSlots - 1
    BY <1>p, PortFacts
  <1>q. Queue = [i \in 1 .. Fill |-> Item(i)] /\ Queue \in Seq(Notes) /\ Len(Queue) = Fill
        /\ Dropping = Doomed(p)
    BY QueueIs DEF QueueFacts
  <1>r. Queue' = [i \in 1 .. Fill' |-> Item(i)'] /\ Queue' \in Seq(Notes) /\ Len(Queue') = Fill'
        /\ Dropping' = Doomed(p)'
    BY QueueIsNext DEF QueueFacts
  <1>t. dropped \in Nat /\ Doomed(p) \in {0, 1} /\ Doomed(p)' \in {0, 1}
    BY DEF PortInv, PortTypeOK, Doomed
  <1>i. ASSUME head' = head, tail' = tail
        PROVE  Fill' = Fill /\ \A i : Entry(tail, i)' = Entry(tail, i)
    BY <1>i DEF Fill, Distance, Entry
  \* Steps that touch neither the ring nor the receiver.
  <1>s. ASSUME head' = head, tail' = tail, ring' = ring, inHand' = inHand,
               rpc' = rpc \/ (rpc # "taken" /\ rpc' # "taken")
        PROVE  Queue' = Queue
    <2>1. \A i \in 1 .. Fill : Item(i)' = Item(i)
      BY <1>s, <1>i DEF Item
    <2> QED
      BY <1>s, <1>i, <1>q, <1>r, <2>1
  <1>e. ASSUME Queue' = Queue, Counts' = Counts, last' = last PROVE ChannelStep
    BY <1>e DEF ChannelStep, Channel!vars, Counts, Dropping
  <1>0. CASE UNCHANGED portVars
    BY <1>0, <1>s, <1>e DEF portVars, Counts, Dropping
  <1>1. CASE LoadHead(p)
    <2>1. Queue' = Queue /\ last' = last
      BY <1>1, <1>s DEF LoadHead, receiver
    <2>2. Doomed(p)' = Doomed(p) /\ dropped' = dropped /\ reported' = reported
      BY <1>1, <1>p DEF LoadHead, Doomed, PortInv, PortTypeOK
    <2> QED
      BY <1>e, <1>q, <1>r, <2>1, <2>2 DEF Counts
  <1>2. CASE LoadTail(p)
    <2>1. /\ Queue' = Queue /\ last' = last /\ dropped' = dropped
          /\ reported' = reported /\ Doomed(p) = 0
      BY <1>2, <1>s DEF LoadTail, receiver, Doomed
    <2>2. ppc'[p] = "checked" /\ full'[p] = (Fill >= RingSlots)
      BY <1>2, <1>p DEF LoadTail, PortInv, PortTypeOK, PostInv, Fill
    <2>3. CASE Fill >= RingSlots
      <3>1. full'[p]
        BY <2>2, <2>3, Zenon
      <3>2. Dropping' = Dropping + 1
        BY <1>q, <1>r, <1>t, <2>1, <2>2, <3>1 DEF Doomed
      <3>3. Len(Queue) = RingSlots
        BY <1>f, <1>q, <2>3
      <3>4. Channel!Drop
        BY <2>1, <3>2, <3>3 DEF Channel!Drop, Dropping
      <3> QED
        BY <3>4 DEF ChannelStep, Channel!Next
    <2>4. CASE ~(Fill >= RingSlots)
      <3>1. ~full'[p]
        BY <2>2, <2>4, Zenon
      <3>2. Doomed(p)' = 0
        BY <3>1 DEF Doomed
      <3> QED
        BY <1>e, <1>q, <1>r, <2>1, <3>2 DEF Counts
    <2> QED
      BY <2>3, <2>4
  <1>3. CASE CountDrop(p)
    <2>1. Queue' = Queue /\ last' = last
      BY <1>3, <1>s DEF CountDrop, receiver
    <2>2. /\ Doomed(p) = 1 /\ Doomed(p)' = 0 /\ dropped' = dropped + 1
          /\ reported' = reported
      BY <1>3, <1>p DEF CountDrop, Doomed, PortInv, PortTypeOK
    <2>4. Dropping > 0 /\ Dropping' = Dropping - 1
      BY <1>q, <1>r, <2>2
    <2>3. Channel!CountDrop
      BY <2>1, <2>2, <2>4 DEF Channel!CountDrop, Dropping
    <2> QED
      BY <2>3 DEF ChannelStep, Channel!Next
  <1>4. CASE WriteSlot(p)
    <2>1. Fill' = Fill /\ last' = last /\ Fill < RingSlots
          /\ dropped' = dropped /\ reported' = reported
          /\ ring' = [ring EXCEPT ![Entry(tail, Fill)] = Note(p)]
      <3>1. seen[p] = head /\ Fill < RingSlots
        BY <1>4 DEF WriteSlot, PortInv, PostInv
      <3> QED
        BY <1>4, <1>i, <1>f, <3>1 DEF WriteSlot, receiver
    <2>2. ASSUME NEW i \in 1 .. Fill PROVE Item(i)' = Item(i)
      <3>1. i - 1 \in Nat /\ i - 1 < Fill /\ Fill < (i - 1) + RingSlots /\ Fill \in Nat
        BY <1>f, <2>1
      <3>2. Entry(tail, i - 1) # Entry(tail, Fill)
        BY <1>f, <3>1, EntriesDiffer
      <3>3. ring'[Entry(tail, i - 1)] = ring[Entry(tail, i - 1)]
        BY <1>f, <2>1, <3>1, <3>2 DEF PortInv, PortTypeOK
      <3> QED
        BY <1>4, <1>i, <3>3 DEF WriteSlot, receiver, Item
    <2>3. Queue' = Queue
      BY <1>q, <1>r, <2>1, <2>2
    <2>4. Doomed(p) = 0 /\ Doomed(p)' = 0
      BY <1>4, <1>p DEF WriteSlot, Doomed, PortInv, PortTypeOK
    <2> QED
      BY <1>e, <1>q, <1>r, <2>1, <2>3, <2>4 DEF Counts
  <1>5. CASE PublishHead(p)
    <2>1. /\ Fill < RingSlots /\ seen[p] = head /\ ring[Entry(tail, Fill)] = Note(p)
          /\ Note(p) \in Notes
      <3>1. /\ Fill < RingSlots /\ seen[p] = head /\ ring[Entry(tail, Fill)] = Note(p)
            /\ posts[p] # 0
        BY <1>5 DEF PublishHead, PortInv, PostInv
      <3>2. posts[p] \in 1 .. MaxPosts
        BY <1>p, <3>1, PortAssumption DEF PortInv, PortTypeOK
      <3> QED
        BY <1>p, <3>1, <3>2 DEF Note, Notes
    <2>2. Fill' = Fill + 1
      <3>1. Fill < Width - 1
        BY <1>f, <2>1
      <3>2. Distance((head + 1) % Width, tail) = Fill + 1
        BY <1>f, <2>1, <3>1, DistanceMoves DEF Fill
      <3> QED
        BY <1>5, <2>1, <3>2 DEF PublishHead, Fill
    <2>3. ASSUME NEW i \in 1 .. Fill PROVE Item(i)' = Item(i)
      BY <1>5 DEF PublishHead, receiver, Item, Entry
    <2>4. Item(Fill)' = Note(p)
      <3>1. ~(Fill' = 1 /\ rpc' = "taken") /\ Fill' - 1 = Fill
        BY <1>5, <1>f, <2>2 DEF PublishHead, receiver, PortInv, RingInv
      <3>2. Entry(tail', Fill' - 1) = Entry(tail, Fill) /\ ring' = ring
        BY <1>5, <3>1 DEF PublishHead
      <3>3. Item(Fill)' = ring'[Entry(tail', Fill' - 1)]
        BY <3>1 DEF Item, Entry
      <3> QED
        BY <2>1, <3>2, <3>3
    <2>5. Queue' = Append(Queue, Note(p))
      <3> DEFINE q == Queue  r == Queue'  n == Fill
      <3>1. q \in Seq(Notes) /\ Len(q) = n /\ n \in Nat
        BY <1>q, <1>f
      <3>2. r \in Seq(Notes) /\ Len(r) = n + 1 /\ r[n + 1] = Note(p)
        <4>1. Fill' \in 1 .. Fill' /\ Fill' = n + 1
          BY <1>f, <2>2
        <4>2. r[Fill'] = Item(Fill)'
          BY <1>r, <4>1
        <4> QED
          BY <1>r, <2>4, <4>1, <4>2
      <3>3. \A i \in 1 .. n : r[i] = q[i]
        BY <1>q, <1>r, <1>f, <2>2, <2>3
      <3> HIDE DEF q, r, n
      <3>4. r = Append(q, Note(p))
        BY <2>1, <3>1, <3>2, <3>3
      <3> QED
        BY <3>4 DEF q, r
    <2>6. last' = last /\ Counts' = Counts /\ Len(Queue) < RingSlots
      <3>1. /\ Doomed(p) = 0 /\ Doomed(p)' = 0 /\ dropped' = dropped
            /\ last' = last /\ reported' = reported
        BY <1>5, <1>p DEF PublishHead, Doomed, PortInv, PortTypeOK, receiver
      <3> QED
        BY <1>q, <1>r, <2>1, <3>1 DEF Counts
    <2>7. Channel!Accept(Note(p))
      BY <2>5, <2>6 DEF Channel!Accept, Counts, Dropping
    <2> QED
      BY <2>1, <2>7 DEF ChannelStep, Channel!Next
  <1>6. CASE SeeNonempty
    <2>1. Queue' = Queue /\ last' = last /\ Counts' = Counts
      BY <1>6, <1>s DEF SeeNonempty, Counts, Dropping
    <2> QED
      BY <1>e, <2>1
  <1>7. CASE TakeSlot
    <2>1. /\ Fill' = Fill /\ last' = last /\ Counts' = Counts /\ rpc' = "taken"
          /\ inHand' = ring[Entry(tail, 0)]
          /\ ring' = [ring EXCEPT ![Entry(tail, 0)] = NoNote] /\ rpc # "taken"
      BY <1>7, <1>i, <1>f DEF TakeSlot, Counts, Dropping
    <2>2. ASSUME NEW i \in 1 .. Fill PROVE Item(i)' = Item(i)
      <3>1. CASE i = 1
        BY <2>1, <3>1 DEF Item
      <3>2. CASE i # 1
        <4>1. i - 1 \in Nat /\ 0 < i - 1 /\ i - 1 < 0 + RingSlots
          BY <1>f, <3>2
        <4>2. Entry(tail, 0) # Entry(tail, i - 1)
          BY <1>f, <4>1, EntriesDiffer
        <4>3. ring'[Entry(tail, i - 1)] = ring[Entry(tail, i - 1)]
          BY <1>f, <2>1, <4>1, <4>2 DEF PortInv, PortTypeOK
        <4> QED
          BY <1>7, <1>i, <3>2, <4>3 DEF TakeSlot, Item
      <3> QED
        BY <3>1, <3>2
    <2>3. Queue' = Queue
      BY <1>q, <1>r, <2>1, <2>2
    <2> QED
      BY <1>e, <2>1, <2>3
  <1>8. CASE PublishTail
    <2>1. Fill # 0 /\ inHand \in Notes
      BY <1>8 DEF PublishTail, PortInv, RingInv
    <2>2. Fill' = Fill - 1 /\ tail' = (tail + 1) % Width /\ last' = inHand /\ Counts' = Counts
      <3>1. Distance(head, (tail + 1) % Width) = Fill - 1
        BY <1>f, <2>1, DistanceMoves DEF Fill
      <3> QED
        BY <1>8, <3>1 DEF PublishTail, Fill, Counts, Dropping
    <2>3. ASSUME NEW i \in 1 .. Fill - 1 PROVE Item(i)' = Item(i + 1)
      <3>1. i - 1 \in Nat /\ i + 1 # 1 /\ (i - 1) + 1 = (i + 1) - 1
        BY <1>f
      <3>2. Entry(tail', i - 1) = Entry(tail, (i - 1) + 1)
        BY <1>f, <2>2, <3>1, EntryAfter
      <3>3. Item(i + 1) = ring[Entry(tail, (i + 1) - 1)]
        BY <3>1 DEF Item
      <3>4. Item(i)' = ring[Entry(tail', i - 1)]
        BY <1>8 DEF PublishTail, Item, Entry
      <3> QED
        BY <3>1, <3>2, <3>3, <3>4
    <2>4. Queue # <<>> /\ inHand = Head(Queue)
      <3>1. 1 \in 1 .. Fill /\ Item(1) = inHand
        BY <1>8, <1>f, <2>1 DEF PublishTail, Item
      <3> QED
        BY <1>q, <3>1
    <2>5. Queue' = Tail(Queue)
      <3> DEFINE q == Queue  r == Queue'  n == Fill
      <3>1. q \in Seq(Notes) /\ Len(q) = n /\ n \in Nat /\ n # 0
        BY <1>q, <1>f, <2>1
      <3>2. r \in Seq(Notes) /\ Len(r) = n - 1
        BY <1>r, <2>2
      <3>3. ASSUME NEW i \in 1 .. n - 1 PROVE r[i] = q[i + 1]
        <4>1. i \in 1 .. Fill' /\ i + 1 \in 1 .. Fill
          BY <1>f, <2>2
        <4> QED
          BY <1>q, <1>r, <2>3, <4>1
      <3> HIDE DEF q, r, n
      <3>4. r = Tail(q)
        BY <3>1, <3>2, <3>3
      <3> QED
        BY <3>4 DEF q, r
    <2>6. Channel!Receive
      BY <2>2, <2>4, <2>5 DEF Channel!Receive, Counts, Dropping
    <2> QED
      BY <2>6 DEF ChannelStep, Channel!Next
  <1>9. CASE TakeDropCount
    <2>1. Queue' = Queue /\ last' = last
      BY <1>9, <1>s DEF TakeDropCount, receiver
    <2>2. /\ Doomed(p)' = Doomed(p) /\ dropped' = 0
          /\ reported' = reported + dropped
      BY <1>9 DEF TakeDropCount, Doomed
    <2>3. Dropping' = Dropping
      BY <1>q, <1>r, <2>2
    <2>4. Channel!ReadDrops
      BY <2>1, <2>2, <2>3 DEF Channel!ReadDrops, Dropping
    <2> QED
      BY <2>4 DEF ChannelStep, Channel!Next
  <1> QED
    BY <1>0, <1>1, <1>2, <1>3, <1>4, <1>5, <1>6, <1>7, <1>8, <1>9
    DEF PortNext, Post, Receive

THEOREM PortInvariant ==
    ASSUME NEW p, Producers = {p} PROVE PortSpec => []PortInv(p)
  <1>1. PortInit => PortInv(p)
    BY PortInitInv
  <1>2. PortInv(p) /\ [PortNext]_portVars => PortInv(p)'
    BY PortStepInv
  <1> QED
    BY <1>1, <1>2, PTL DEF PortSpec

\* Every post of one poster is received, queued, counted, or was read out of the
\* count, wherever the two sides of the ring stand and however often its
\* indices have wrapped (ipc.rs:258-308).
THEOREM PortNothingLost ==
    ASSUME NEW p, Producers = {p} PROVE PortSpec => [](PortTypeOK /\ NothingLostSilently)
  <1>1. ASSUME PortInv(p) PROVE PortTypeOK /\ NothingLostSilently
    <2>1. Len(Queue) = Fill
      BY <1>1, QueueIs DEF QueueFacts
    <2>2. SumFunctionOnSet(posts, Producers) = posts[p]
      <3>1. IsFiniteSet(Producers) /\ Producers \ {p} = {} /\ IsFiniteSet({})
        BY FS_Singleton, FS_EmptySet
      <3>2. posts[p] \in Nat
        BY <1>1 DEF PortInv, PortTypeOK
      <3>3. SumFunctionOnSet(posts, Producers)
            = posts[p] + SumFunctionOnSet(posts, Producers \ {p})
        BY <3>1, <3>2, SumWithout
      <3>4. SumFunctionOnSet(posts, {}) = 0
        BY <3>1, SumUnfolds
      <3>5. SumFunctionOnSet(posts, Producers \ {p}) = 0
        BY <3>1, <3>4, Zenon
      <3> QED
        BY <3>2, <3>3, <3>5
    <2>3. Cardinality({u \in Producers : ppc[u] # "idle"}) = IF ppc[p] = "idle" THEN 0 ELSE 1
      <3>1. CASE ppc[p] = "idle"
        <4>1. {u \in Producers : ppc[u] # "idle"} = {}
          BY <3>1
        <4> QED
          BY <3>1, <4>1, FS_EmptySet
      <3>2. CASE ppc[p] # "idle"
        <4>1. {u \in Producers : ppc[u] # "idle"} = {p}
          BY <3>2
        <4> QED
          BY <3>2, <4>1, FS_Singleton
      <3> QED
        BY <3>1, <3>2
    <2> QED
      BY <1>1, <2>1, <2>2, <2>3 DEF PortInv, CountInv, NothingLostSilently
  <1> QED
    BY <1>1, PortInvariant, PTL

\* For any size of the ring that divides the range of the indices, a port with
\* one poster implements a bounded queue: received once and in order, dropped
\* only when full, every drop counted once and told once (ipc.rs:219-308).
THEOREM PortImplementsChannel ==
    ASSUME NEW p, Producers = {p} PROVE PortSpec => ImplementsChannel
  <1>1. PortInit => Channel!Init
    BY ChannelInit
  <1>2. PortInv(p) /\ PortInv(p)' /\ [PortNext]_portVars => ChannelStep
    BY ChannelRefined
  <1> QED
    BY <1>1, <1>2, PortInvariant, PTL DEF PortSpec, ImplementsChannel, Channel!Spec, ChannelStep
=============================================================================
