-------------------------- MODULE SpectreFSProofs --------------------------
(***************************************************************************)
(* Theorems about a SpectreFS volume, for any number of uberblock slots    *)
(* from two on, any blocks, snapshots, retention limits and transactions:  *)
(* power may fail at any step, any number of times.  And about the pointer *)
(* tree of a file, for any fan-out and any number of direct pointers.      *)
(***************************************************************************)
EXTENDS SpectreFS, FileTree, Induction, FiniteSetTheorems, TLAPS

-----------------------------------------------------------------------------
(* What is on the platter *)

Transactions == 0 .. MaxTxg
Places == 0 .. UberblockSlots - 1
Pointers == {Sparse} \cup [lba : Blocks, birth : Transactions]
Snapshots == [class : Retentions, created : Transactions, root : Pointers]
Versions == [txg : Transactions, root : Pointers, snaps : SUBSET Snapshots]
Uberblocks == [magic : BOOLEAN, txg : Transactions, root : Pointers,
               snaps : SUBSET Snapshots,
               sum : {Zero} \cup {Blake3(f) : f \in Versions}]

\* What the checksum is relied on for: no two versions have one digest, and none
\* has what a blank slot holds.
NoCollisions == /\ \A f, g \in Versions : Blake3(f) = Blake3(g) => f = g
                /\ \A f \in Versions : Blake3(f) # Zero

\* What the drive is relied on for.  It does what it says it has flushed, and it
\* writes an uberblock whole or not at all; or the hash tells a torn one, which the
\* one in the tree does not (layout.rs:382-386).
Reliable == ~FlushLies /\ (Tears => NoCollisions)

\* The uberblock of the newest version on the platter.
Durable == SelectNewestValid(uber)
Home(u) == u.txg % UberblockSlots

\* Version u is in its slot of the ring s, and no other version is as new.
Newest(s, u) == /\ u \in Uberblocks /\ s[Home(u)] = u /\ ValidUber(u)
                /\ \A k \in ValidSlots(s) : s[k].txg <= u.txg

\* A valid slot holds a version of its own residue.  Where a write may be torn, a
\* checksum without its version is of a version already overtaken.
Ring ==
    /\ uber \in [Places -> Uberblocks]
    /\ \A k \in Places : /\ ValidUber(uber[k]) => Home(uber[k]) = k
                         /\ ~uber[k].magic => uber[k].sum = Zero
                         /\ Tears => \A f \in Versions : uber[k].sum = Blake3(f) =>
                                                             f.txg <= Durable.txg

\* UberblockSlots - 1 versions, up to the one last told, are in their slots.
Rotation == \A back \in 0 .. UberblockSlots - 2 :
                back <= told.txg =>
                    LET k == (told.txg - back) % UberblockSlots
                    IN  k \in ValidSlots(uber) /\ uber[k].txg = told.txg - back

Pointed(u) == {u.root} \cup {s.root : s \in u.snaps}
ReadsBack(u) == \A p \in Pointed(u) : Readable(p, u.txg)
Intact == \A k \in ValidSlots(uber) : ReadsBack(uber[k])

-----------------------------------------------------------------------------
(* Where the writer stands *)

Sealed(u) == u \in Uberblocks /\ u = Seal(Fields(u))

Prepared == /\ Sealed(next) /\ next.txg = cur.txg + 1

Mounted == /\ cur = Durable /\ told = cur /\ next = Blank /\ cached = {}
Staging == /\ cur = Durable /\ told = cur /\ Prepared
           /\ cached = {next.root} /\ next.snaps = cur.snaps
           /\ next.root \in [lba : Blocks, birth : {next.txg}]
           /\ Fresh(next.root.lba)
Publishing == /\ cur = Durable /\ told = cur /\ Prepared
              /\ ReadsBack(next) /\ cached = {}
Published == /\ next = Durable /\ told = cur /\ Prepared /\ cached = {}
Down == /\ Durable = told \/ Durable.txg = told.txg + 1
        /\ next = Blank /\ cached = {}

Writer == /\ phase = "mounted" => Mounted
          /\ phase = "staging" => Staging
          /\ phase = "publishing" => Publishing
          /\ phase = "published" => Published
          /\ phase = "down" => Down

VolumeInv == /\ block \in [Blocks -> Transactions]
             /\ phase \in {"mounted", "staging", "publishing", "published", "down"}
             /\ told \in Uberblocks
             /\ Ring /\ Newest(uber, Durable) /\ Rotation /\ Intact /\ Writer

-----------------------------------------------------------------------------
(* Slots *)

\* Within a turn of the ring two versions have different slots.
LEMMA DifferentHomes ==
    ASSUME NEW a \in Nat, NEW b \in Nat, a < b, b - a < UberblockSlots
    PROVE  a % UberblockSlots # b % UberblockSlots
  <1> USE SpectreFSAssumption
  <1> DEFINE m == b \div UberblockSlots
             n == a \div UberblockSlots
  <1>1. /\ m \in Nat /\ n \in Nat
        /\ a = UberblockSlots * n + (a % UberblockSlots) /\ b = UberblockSlots * m + (b % UberblockSlots)
    OBVIOUS
  <1> HIDE DEF m, n
  <1> SUFFICES ASSUME a % UberblockSlots = b % UberblockSlots PROVE FALSE
    OBVIOUS
  <1>2. b - a = UberblockSlots * m - UberblockSlots * n
    BY <1>1
  <1>3. CASE m > n
    <2>1. m - n >= 1 /\ UberblockSlots * m - UberblockSlots * n = UberblockSlots * (m - n)
      BY <1>1, <1>3
    <2>2. UberblockSlots * (m - n) >= UberblockSlots
      BY <1>1, <2>1
    <2> QED
      BY <1>2, <2>1, <2>2
  <1>4. CASE m <= n
    <2>1. UberblockSlots * m <= UberblockSlots * n
      BY <1>1, <1>4
    <2> QED
      BY <1>1, <1>2, <2>1
  <1> QED
    BY <1>1, <1>3, <1>4

LEMMA HomeType == \A t \in Nat : t % UberblockSlots \in Places
  BY SpectreFSAssumption DEF Places

\* There is at most one newest version, and it is what a mount finds.
LEMMA SelectsNewest ==
    ASSUME NEW s \in [Places -> Uberblocks], NEW k \in ValidSlots(s),
           \A j \in ValidSlots(s) : j # k => s[j].txg < s[k].txg
    PROVE  SelectNewestValid(s) = s[k]
  <1> DEFINE Best(m) == \A j \in ValidSlots(s) :
                            s[j].txg < s[m].txg \/ (s[j].txg = s[m].txg /\ j <= m)
  <1>1. ValidSlots(s) \subseteq Int /\ \A j \in ValidSlots(s) : s[j].txg \in Int
    BY SpectreFSAssumption DEF ValidSlots, Places, Uberblocks, Transactions
  <1>2. Best(k)
    BY <1>1
  <1>3. \A m \in ValidSlots(s) : Best(m) => m = k
    BY <1>1
  <1>4. (CHOOSE m \in ValidSlots(s) : Best(m)) = k
    BY <1>2, <1>3
  <1> QED
    BY <1>4 DEF SelectNewestValid

LEMMA NewestIsSelected ==
    ASSUME NEW s \in [Places -> Uberblocks],
           \A k \in ValidSlots(s) : Home(s[k]) = k,
           NEW u, Newest(s, u)
    PROVE  SelectNewestValid(s) = u
  <1>1. Home(u) \in Places /\ Home(u) \in ValidSlots(s) /\ s[Home(u)] = u
    BY HomeType, SpectreFSAssumption
       DEF Newest, Home, Uberblocks, Transactions, ValidSlots
  <1>2. ASSUME NEW j \in ValidSlots(s), j # Home(u) PROVE s[j].txg < u.txg
    <2>1. s[j].txg # u.txg
      BY <1>2 DEF Home
    <2>2. s[j].txg <= u.txg /\ s[j].txg \in Int /\ u.txg \in Int
      BY SpectreFSAssumption DEF Newest, ValidSlots, Uberblocks, Transactions
    <2> QED
      BY <2>1, <2>2
  <1> QED
    BY <1>1, <1>2, SelectsNewest

\* The records: what Seal and Fields do to a version.
LEMMA SealType ==
    ASSUME NEW f \in Versions
    PROVE  /\ Sealed(Seal(f)) /\ Fields(Seal(f)) = f /\ Seal(f).magic
           /\ Seal(f).txg = f.txg /\ Seal(f).root = f.root /\ Seal(f).snaps = f.snaps
           /\ Seal(f).sum = Blake3(f)
  <1>1. Fields(Seal(f)) = f
    BY DEF Fields, Seal, Versions
  <1>2. Seal(f) \in Uberblocks
    BY DEF Seal, Versions, Uberblocks
  <1> QED
    BY <1>1, <1>2 DEF Sealed, Seal

LEMMA FieldsType ==
    ASSUME NEW u \in Uberblocks
    PROVE  /\ Fields(u) \in Versions
           /\ Fields(u).txg = u.txg /\ Fields(u).root = u.root
           /\ Fields(u).snaps = u.snaps
  BY DEF Fields, Versions, Uberblocks

LEMMA SealedIsValid ==
    ASSUME NEW u, Sealed(u)
    PROVE  ValidUber(u) /\ u \in Uberblocks /\ u.sum = Blake3(Fields(u)) /\ Fields(u) \in Versions
  <1>1. u = Seal(Fields(u)) /\ Fields(u) \in Versions
    BY FieldsType DEF Sealed
  <1>2. Seal(Fields(u)).magic /\ Seal(Fields(u)).sum = Blake3(Fields(u))
    BY <1>1, SealType
  <1> QED
    BY <1>1, <1>2 DEF ValidUber, VerifyChecksum, Sealed

LEMMA ValidIsSealed ==
    ASSUME NEW u \in Uberblocks, ValidUber(u) PROVE Sealed(u)
  BY DEF Sealed, Seal, Fields, ValidUber, VerifyChecksum, Uberblocks

LEMMA BlankType ==
    Blank \in Uberblocks /\ ~Blank.magic /\ ~ValidUber(Blank) /\ Blank.sum = Zero
  BY SpectreFSAssumption DEF Blank, Uberblocks, Transactions, Pointers, ValidUber

\* A torn uberblock is invalid, or the old one, or the new one.
LEMMA TornIsInvalid ==
    ASSUME NoCollisions, NEW old \in Uberblocks, NEW new, Sealed(new),
           ~old.magic => old.sum = Zero,
           \A f \in Versions : old.sum = Blake3(f) => f.txg < new.txg,
           NEW u \in Torn(old, new)
    PROVE  \/ u = new
           \/ u = old
           \/ u \in Uberblocks /\ ~ValidUber(u) /\ u.magic /\ u.sum = old.sum
  <1> DEFINE order == <<"magic", "txg", "root", "snaps", "sum">>
             names == {"magic", "txg", "root", "snaps", "sum"}
  <1>1. new \in Uberblocks /\ new.magic /\ Fields(new) \in Versions
    BY SealedIsValid DEF ValidUber
  <1>2. DOMAIN new = names /\ DOMAIN old = names
    BY <1>1 DEF Uberblocks
  <1>3. PICK n \in 0 .. 5 :
            u = [f \in DOMAIN new |-> IF \E i \in 1 .. n : order[i] = f
                                      THEN new[f] ELSE old[f]]
    BY DEF Torn
  <1>4. /\ u.magic = IF n >= 1 THEN new.magic ELSE old.magic
        /\ u.txg = IF n >= 2 THEN new.txg ELSE old.txg
        /\ u.root = IF n >= 3 THEN new.root ELSE old.root
        /\ u.snaps = IF n >= 4 THEN new.snaps ELSE old.snaps
        /\ u.sum = IF n >= 5 THEN new.sum ELSE old.sum
    <2>1. /\ (\E i \in 1 .. n : order[i] = "magic") <=> n >= 1
          /\ (\E i \in 1 .. n : order[i] = "txg") <=> n >= 2
          /\ (\E i \in 1 .. n : order[i] = "root") <=> n >= 3
          /\ (\E i \in 1 .. n : order[i] = "snaps") <=> n >= 4
          /\ (\E i \in 1 .. n : order[i] = "sum") <=> n >= 5
      OBVIOUS
    <2> QED
      BY <1>2, <1>3, <2>1
  <1>5. u = [magic |-> u.magic, txg |-> u.txg, root |-> u.root, snaps |-> u.snaps,
             sum |-> u.sum]
    BY <1>2, <1>3
  <1>6. u \in Uberblocks
    BY <1>1, <1>4, <1>5 DEF Uberblocks
  <1> DEFINE Rebuilt(v) == [magic |-> v.magic, txg |-> v.txg, root |-> v.root,
                            snaps |-> v.snaps, sum |-> v.sum]
  <1>r. old = Rebuilt(old) /\ new = Rebuilt(new) /\ u = Rebuilt(u)
    BY <1>1, <1>5 DEF Uberblocks
  <1>7. CASE n = 0
    BY <1>4, <1>5, <1>7 DEF Uberblocks
  <1>8. CASE n = 1
    <2>1. u.magic /\ Fields(u) = Fields(old) /\ u.sum = old.sum
      BY <1>1, <1>4, <1>8 DEF Fields
    <2>2. ValidUber(u) => old.magic
      BY <1>6, <2>1, FieldsType DEF ValidUber, VerifyChecksum, NoCollisions
    <2>3. ASSUME old.magic PROVE u = old
      <3>1. old.magic = TRUE /\ new.magic = TRUE
        BY <1>1, <2>3 DEF Uberblocks
      <3>2. /\ u.magic = old.magic /\ u.txg = old.txg /\ u.root = old.root
            /\ u.snaps = old.snaps /\ u.sum = old.sum
        <4>1. u.magic = new.magic
          BY <1>4, <1>8
        <4>2. u.txg = old.txg /\ u.root = old.root
          BY <1>4, <1>8
        <4>3. u.snaps = old.snaps /\ u.sum = old.sum
          BY <1>4, <1>8
        <4> QED
          BY <3>1, <4>1, <4>2, <4>3
      <3>3. Rebuilt(u) = Rebuilt(old)
        BY <3>2
      <3> QED
        BY <1>r, <3>3
    <2> QED
      BY <1>6, <2>1, <2>2, <2>3
  <1>9. CASE n \in 2 .. 4
    <2>1. u.magic /\ u.txg = new.txg /\ u.sum = old.sum
      BY <1>1, <1>4, <1>9
    <2>2. new.txg \in Int
      BY <1>1, SpectreFSAssumption DEF Uberblocks, Transactions
    <2>3. ~ValidUber(u)
      BY <1>6, <2>1, <2>2, FieldsType DEF ValidUber, VerifyChecksum
    <2> QED
      BY <1>6, <2>1, <2>3
  <1>10. CASE n = 5
    BY <1>4, <1>10, <1>r
  <1> QED
    BY <1>7, <1>8, <1>9, <1>10

-----------------------------------------------------------------------------
(* Writing the next uberblock *)

\* The slot of the next version is not that of any version told of.
LEMMA NextSlotIsFree ==
    ASSUME VolumeInv, phase = "publishing"
    PROVE  /\ NextSlot(cur) \in Places /\ NextSlot(cur) = Home(next)
           /\ cur = Durable /\ told = cur /\ cur \in Uberblocks /\ cur.txg \in Nat
           /\ next \in Uberblocks /\ ValidUber(next) /\ next.txg = cur.txg + 1
           /\ Home(cur) # NextSlot(cur) /\ Home(cur) \in Places
           /\ \A back \in 0 .. UberblockSlots - 2 :
                  back <= told.txg => (told.txg - back) % UberblockSlots # NextSlot(cur)
  <1> USE SpectreFSAssumption
  <1>1. Publishing /\ Newest(uber, Durable)
    BY DEF VolumeInv, Writer
  <1>2. /\ cur = Durable /\ told = cur /\ cur \in Uberblocks
        /\ next \in Uberblocks /\ ValidUber(next) /\ next.txg = cur.txg + 1
    BY <1>1, SealedIsValid DEF Publishing, Prepared, Newest
  <1>3. cur.txg \in Nat
    BY <1>2 DEF Uberblocks, Transactions
  <1>4. NextSlot(cur) = Home(next) /\ NextSlot(cur) \in Places /\ Home(cur) \in Places
    BY <1>2, <1>3, HomeType DEF NextSlot, Home
  <1>5. ASSUME NEW back \in 0 .. UberblockSlots - 2, back <= told.txg
        PROVE  (told.txg - back) % UberblockSlots # NextSlot(cur)
    <2> DEFINE a == told.txg - back
               b == cur.txg + 1
    <2>1. a \in Nat /\ b \in Nat /\ a < b /\ b - a < UberblockSlots
      BY <1>2, <1>3, <1>5
    <2> QED
      BY <2>1, DifferentHomes DEF NextSlot
  <1>6. Home(cur) # NextSlot(cur)
    <2>1. 0 \in 0 .. UberblockSlots - 2 /\ 0 <= told.txg /\ told.txg - 0 = cur.txg
      BY <1>2, <1>3
    <2> QED
      BY <1>5, <2>1 DEF Home
  <1> QED
    BY <1>2, <1>3, <1>4, <1>5, <1>6

\* Written whole, it is the newest version.
LEMMA WrittenWhole ==
    ASSUME Reliable, VolumeInv, phase = "publishing",
           uber' = [uber EXCEPT ![NextSlot(cur)] = next], told' = told, block' = block
    PROVE  Ring' /\ Durable' = next /\ Newest(uber, Durable)' /\ Rotation' /\ Intact'
  <1> USE SpectreFSAssumption
  <1> DEFINE h == NextSlot(cur)
  <1>1. /\ h \in Places /\ h = Home(next) /\ cur = Durable /\ cur.txg \in Nat
        /\ next \in Uberblocks /\ ValidUber(next) /\ next.txg = cur.txg + 1
    BY NextSlotIsFree
  <1>2. /\ uber \in [Places -> Uberblocks] /\ uber' \in [Places -> Uberblocks]
        /\ uber'[h] = next /\ \A k \in Places \ {h} : uber'[k] = uber[k]
    BY <1>1 DEF VolumeInv, Ring
  <1>3. ValidSlots(uber') = ValidSlots(uber) \cup {h}
    BY <1>1, <1>2 DEF ValidSlots
  <1>4. \A k \in ValidSlots(uber) : k \in Places /\ uber[k].txg <= cur.txg
                                    /\ uber[k].txg \in Int
    BY <1>1, <1>2 DEF VolumeInv, Newest, ValidSlots, Uberblocks, Transactions
  <1>5. Newest(uber', next)
    <2>1. \A k \in ValidSlots(uber') : uber'[k].txg <= next.txg
      BY <1>1, <1>2, <1>3, <1>4
    <2> QED
      BY <1>1, <1>2, <2>1 DEF Newest
  <1>6. \A k \in ValidSlots(uber') : Home(uber'[k]) = k
    BY <1>1, <1>2 DEF VolumeInv, Ring, ValidSlots
  <1>7. Durable' = next
    BY <1>2, <1>5, <1>6, NewestIsSelected DEF Durable
  <1>8. Ring'
    <2>1. ASSUME NEW k \in Places
          PROVE  /\ ValidUber(uber'[k]) => Home(uber'[k]) = k
                 /\ ~uber'[k].magic => uber'[k].sum = Zero
                 /\ Tears => \A f \in Versions :
                                  uber'[k].sum = Blake3(f) => f.txg <= next.txg
      <3>1. CASE k = h
        <4>1. Sealed(next) /\ next.magic
          BY <1>1, ValidIsSealed DEF ValidUber
        <4>2. Tears => \A f \in Versions : next.sum = Blake3(f) => f = Fields(next)
          BY <4>1, SealedIsValid DEF Reliable, NoCollisions
        <4> QED
          BY <1>1, <1>2, <3>1, <4>1, <4>2, FieldsType
      <3>2. CASE k # h
        <4>1. /\ ValidUber(uber[k]) => Home(uber[k]) = k
              /\ ~uber[k].magic => uber[k].sum = Zero
              /\ Tears => \A f \in Versions :
                               uber[k].sum = Blake3(f) => f.txg <= cur.txg
          BY <1>1 DEF VolumeInv, Ring
        <4>2. \A f \in Versions : f.txg \in Int
          BY DEF Versions, Transactions
        <4> QED
          BY <1>1, <1>2, <3>2, <4>1, <4>2
      <3> QED
        BY <3>1, <3>2
    <2> QED
      BY <1>2, <1>7, <2>1 DEF Ring
  <1>9. Rotation'
    <2> SUFFICES ASSUME NEW back \in 0 .. UberblockSlots - 2, back <= told.txg
                 PROVE  LET k == (told.txg - back) % UberblockSlots
                        IN  k \in ValidSlots(uber') /\ uber'[k].txg = told.txg - back
      BY DEF Rotation
    <2> DEFINE k == (told.txg - back) % UberblockSlots
    <2>1. k # h
      BY NextSlotIsFree
    <2>2. k \in ValidSlots(uber) /\ uber[k].txg = told.txg - back
      BY DEF VolumeInv, Rotation
    <2> QED
      BY <1>2, <1>3, <1>4, <2>1, <2>2
  <1>10. Intact'
    <2> SUFFICES ASSUME NEW k \in ValidSlots(uber') PROVE ReadsBack(uber[k])'
      BY DEF Intact
    <2>1. CASE k = h
      BY <1>2, <2>1 DEF VolumeInv, Writer, Publishing, ReadsBack, Readable
    <2>2. CASE k # h
      BY <1>2, <1>3, <1>4, <2>2 DEF VolumeInv, Intact, ReadsBack, Readable
    <2> QED
      BY <2>1, <2>2
  <1> QED
    BY <1>5, <1>7, <1>8, <1>9, <1>10

\* Torn to an invalid record, it changes nothing that counts: its slot held a
\* version that nobody is promised.
LEMMA WrittenTorn ==
    ASSUME VolumeInv, phase = "publishing",
           NEW u \in Uberblocks, ~ValidUber(u), u.magic, u.sum = uber[NextSlot(cur)].sum,
           uber' = [uber EXCEPT ![NextSlot(cur)] = u], told' = told, block' = block
    PROVE  Ring' /\ Durable' = Durable /\ Newest(uber, Durable)' /\ Rotation' /\ Intact'
  <1> USE SpectreFSAssumption
  <1> DEFINE h == NextSlot(cur)
  <1>1. /\ h \in Places /\ Home(cur) # h /\ Home(cur) \in Places
        /\ cur = Durable /\ cur.txg \in Nat
    BY NextSlotIsFree
  <1>2. /\ uber \in [Places -> Uberblocks] /\ uber' \in [Places -> Uberblocks]
        /\ uber'[h] = u /\ \A k \in Places \ {h} : uber'[k] = uber[k]
    BY <1>1 DEF VolumeInv, Ring
  <1>3. ValidSlots(uber') = ValidSlots(uber) \ {h}
    BY <1>1, <1>2 DEF ValidSlots
  <1>4. \A k \in ValidSlots(uber) : k \in Places
    BY <1>2 DEF ValidSlots
  <1>5. Newest(uber', cur)
    BY <1>1, <1>2, <1>3, <1>4 DEF VolumeInv, Newest
  <1>6. \A k \in ValidSlots(uber') : Home(uber'[k]) = k
    BY <1>1, <1>2 DEF VolumeInv, Ring, ValidSlots
  <1>7. Durable' = cur
    BY <1>2, <1>5, <1>6, NewestIsSelected DEF Durable
  <1>8. Ring'
    <2>1. ASSUME NEW k \in Places
          PROVE  /\ ValidUber(uber'[k]) => Home(uber'[k]) = k
                 /\ ~uber'[k].magic => uber'[k].sum = Zero
                 /\ Tears => \A f \in Versions :
                                  uber'[k].sum = Blake3(f) => f.txg <= cur.txg
      BY <1>1, <1>2 DEF VolumeInv, Ring
    <2> QED
      BY <1>2, <1>7, <2>1 DEF Ring
  <1>9. Rotation'
    <2> SUFFICES ASSUME NEW back \in 0 .. UberblockSlots - 2, back <= told.txg
                 PROVE  LET k == (told.txg - back) % UberblockSlots
                        IN  k \in ValidSlots(uber') /\ uber'[k].txg = told.txg - back
      BY DEF Rotation
    <2> DEFINE k == (told.txg - back) % UberblockSlots
    <2>1. k # h
      BY NextSlotIsFree
    <2>2. k \in ValidSlots(uber) /\ uber[k].txg = told.txg - back
      BY DEF VolumeInv, Rotation
    <2> QED
      BY <1>2, <1>3, <1>4, <2>1, <2>2
  <1>10. Intact'
    <2> SUFFICES ASSUME NEW k \in ValidSlots(uber') PROVE ReadsBack(uber[k])'
      BY DEF Intact
    <2> QED
      BY <1>2, <1>3, <1>4 DEF VolumeInv, Intact, ReadsBack, Readable
  <1> QED
    BY <1>1, <1>5, <1>7, <1>8, <1>9, <1>10

\* A platter on which no slot changes.
LEMMA SlotsKept ==
    ASSUME VolumeInv, uber' = uber
    PROVE  /\ Ring' /\ Durable' = Durable /\ Newest(uber, Durable)'
           /\ told' = told => Rotation'
           /\ block' = block => Intact'
  <1>1. Durable' = Durable
    BY DEF Durable
  <1>2. Ring' /\ Newest(uber, Durable)'
    BY <1>1 DEF VolumeInv, Ring, Newest
  <1>3. ASSUME told' = told PROVE Rotation'
    BY <1>3 DEF VolumeInv, Rotation
  <1>4. ASSUME block' = block PROVE Intact'
    BY <1>4 DEF VolumeInv, Intact, ReadsBack, Readable
  <1> QED
    BY <1>1, <1>2, <1>3, <1>4

\* What the cache holds goes to a block no version on the platter points to.
LEMMA CacheLands ==
    ASSUME VolumeInv, uber' = uber, NEW part \in SUBSET cached, block' = Landed(part)
    PROVE  Landed(part) \in [Blocks -> Transactions] /\ Intact'
  <1>1. CASE part # {}
    <2> DEFINE p == next.root
    <2>1. phase = "staging"
      BY <1>1 DEF VolumeInv, Writer, Mounted, Publishing, Published, Down
    <2>2. /\ part = {p} /\ p.lba \in Blocks /\ p.birth = next.txg /\ Fresh(p.lba)
          /\ next.txg \in Transactions
      BY <1>1, <2>1 DEF VolumeInv, Writer, Staging, Prepared, Sealed, Uberblocks
    <2>3. Landed(part) = [b \in Blocks |-> IF b = p.lba THEN p.birth ELSE block[b]]
      BY <2>2 DEF Landed
    <2>4. Landed(part) \in [Blocks -> Transactions]
      BY <2>2, <2>3 DEF VolumeInv
    <2>5. ASSUME NEW k \in ValidSlots(uber), NEW q \in Pointed(uber[k])
          PROVE  Readable(q, uber[k].txg)'
      <3>1. Readable(q, uber[k].txg)
        BY DEF VolumeInv, Intact, ReadsBack
      <3>2. q.lba # p.lba
        BY <2>2 DEF Fresh, InUse, Referred, Pointed
      <3>3. q \in Pointers
        BY DEF VolumeInv, Ring, ValidSlots, Uberblocks, Snapshots, Pointed
      <3>4. q = Sparse \/ q.lba \in Blocks
        BY <3>3 DEF Pointers
      <3> QED
        BY <2>3, <3>1, <3>2, <3>4 DEF Readable
    <2> QED
      BY <2>4, <2>5 DEF Intact, ReadsBack
  <1>2. CASE part = {}
    <2>1. Landed(part) = block
      BY <1>2 DEF Landed, VolumeInv
    <2> QED
      BY <2>1, SlotsKept DEF VolumeInv
  <1> QED
    BY <1>1, <1>2

-----------------------------------------------------------------------------
(* The steps *)

LEMMA InitVolumeInv == Reliable /\ FsInit => VolumeInv
  <1> SUFFICES ASSUME Reliable, FsInit PROVE VolumeInv
    OBVIOUS
  <1> USE SpectreFSAssumption
  <1> DEFINE f == [txg |-> 0, root |-> Sparse, snaps |-> {}]
             u == Seal(f)
  <1>1. f \in Versions
    BY DEF Versions, Transactions, Pointers
  <1>2. /\ u \in Uberblocks /\ ValidUber(u) /\ u.magic /\ u.txg = 0 /\ u.root = Sparse
        /\ u.snaps = {} /\ u.sum = Blake3(f) /\ Home(u) = 0
    <2>1. f.txg = 0 /\ f.root = Sparse /\ f.snaps = {} /\ 0 % UberblockSlots = 0
      OBVIOUS
    <2> HIDE DEF f
    <2>2. Sealed(u) /\ u.magic /\ u.txg = 0 /\ u.root = Sparse /\ u.snaps = {}
          /\ u.sum = Blake3(f)
      BY <1>1, <2>1, SealType
    <2> HIDE DEF u
    <2> QED
      BY <2>1, <2>2, SealedIsValid DEF Home
  <1> HIDE DEF u, f
  <1>3. /\ uber \in [Places -> Uberblocks] /\ 0 \in Places /\ uber[0] = u
        /\ \A k \in Places \ {0} : uber[k] = Blank
    BY <1>2, BlankType DEF FsInit, Places, u, f
  <1>4. ValidSlots(uber) = {0}
    BY <1>2, <1>3, BlankType DEF ValidSlots
  <1>5. Newest(uber, u)
    BY <1>2, <1>3, <1>4 DEF Newest
  <1>6. Durable = u
    BY <1>2, <1>3, <1>4, <1>5, NewestIsSelected DEF Durable
  <1>7. Ring
    <2>1. ASSUME Tears, NEW g \in Versions, Blake3(f) = Blake3(g) PROVE g.txg <= 0
      BY <1>1, <2>1 DEF Reliable, NoCollisions, f
    <2>2. Tears => \A g \in Versions : Zero # Blake3(g)
      BY DEF Reliable, NoCollisions
    <2> QED
      BY <1>2, <1>3, <1>6, <2>1, <2>2, BlankType DEF Ring
  <1>8. Rotation
    <2> SUFFICES ASSUME NEW back \in 0 .. UberblockSlots - 2, back <= told.txg
                 PROVE  LET k == (told.txg - back) % UberblockSlots
                        IN  k \in ValidSlots(uber) /\ uber[k].txg = told.txg - back
      BY DEF Rotation
    <2>1. told = u /\ back = 0 /\ told.txg - back = 0
      BY <1>2, <1>3 DEF FsInit
    <2>2. 0 % UberblockSlots = 0
      OBVIOUS
    <2> QED
      BY <1>2, <1>3, <1>4, <2>1, <2>2
  <1>9. Intact
    BY <1>2, <1>3, <1>4 DEF Intact, ReadsBack, Readable, IsStale, Pointed
  <1>10. Writer
    BY <1>3, <1>6 DEF Writer, Mounted, FsInit
  <1>11. block \in [Blocks -> Transactions]
    BY DEF FsInit, Transactions
  <1> QED
    BY <1>2, <1>3, <1>5, <1>6, <1>7, <1>8, <1>9, <1>10, <1>11 DEF VolumeInv, FsInit

\* What is true before a transaction begins.
LEMMA MountedFacts ==
    ASSUME VolumeInv, phase = "mounted"
    PROVE  /\ cur = Durable /\ told = cur /\ next = Blank /\ cached = {}
           /\ cur \in Uberblocks /\ cur.txg \in Nat /\ ReadsBack(cur)
           /\ cur.root \in Pointers /\ cur.snaps \subseteq Snapshots
  <1>1. Mounted /\ Newest(uber, Durable)
    BY DEF VolumeInv, Writer
  <1>2. cur \in Uberblocks /\ Home(cur) \in ValidSlots(uber) /\ uber[Home(cur)] = cur
    BY <1>1, HomeType, SpectreFSAssumption
       DEF Mounted, Newest, ValidSlots, Home, VolumeInv, Ring, Uberblocks, Transactions
  <1>3. ReadsBack(cur)
    BY <1>2 DEF VolumeInv, Intact
  <1> QED
    BY <1>1, <1>2, <1>3, SpectreFSAssumption DEF Mounted, Uberblocks, Transactions

\* A transaction is prepared beside the platter.
LEMMA BeginPrepares ==
    ASSUME VolumeInv, NEW f, Begin(f), f.txg = cur.txg + 1,
           f = [txg |-> f.txg, root |-> f.root, snaps |-> f.snaps],
           f.txg \in Transactions => f.root \in Pointers /\ f.snaps \subseteq Snapshots
    PROVE  /\ Prepared' /\ Fields(next') = f /\ next' = Seal(f) /\ f \in Versions
           /\ next'.txg = f.txg /\ next'.root = f.root /\ next'.snaps = f.snaps
  <1>1. f.txg \in Transactions
    BY MountedFacts, SpectreFSAssumption DEF Begin, Transactions
  <1>2. f \in Versions
    BY <1>1 DEF Versions
  <1>3. next' = Seal(f) /\ cur' = cur
    BY DEF Begin
  <1> QED
    BY <1>2, <1>3, SealType DEF Prepared

LEMMA BeginWriteInv ==
    ASSUME VolumeInv, NEW b \in Blocks, BeginWrite(b) PROVE VolumeInv'
  <1> DEFINE t == cur.txg + 1
             f == [txg |-> t, root |-> [lba |-> b, birth |-> t], snaps |-> cur.snaps]
  <1>1. /\ phase = "mounted" /\ phase' = "staging" /\ Begin(f) /\ Fresh(b)
        /\ cached' = {next'.root}
    BY MountedFacts DEF BeginWrite, Begin
  <1>2. /\ uber' = uber /\ block' = block /\ cur' = cur /\ told' = told
    BY <1>1 DEF Begin
  <1>3. Prepared' /\ next'.txg = t /\ next'.root = f.root /\ next'.snaps = cur.snaps
    BY <1>1, MountedFacts, BeginPrepares DEF Pointers
  <1>4. Staging'
    <2>1. Fresh(b)'
      BY <1>1, <1>2 DEF Fresh, InUse
    <2> QED
      BY <1>1, <1>2, <1>3, <2>1, MountedFacts, SlotsKept DEF Staging
  <1> QED
    BY <1>1, <1>2, <1>4, SlotsKept DEF VolumeInv, Writer

LEMMA BeginSnapshotInv ==
    ASSUME VolumeInv, NEW c \in Retentions, BeginSnapshot(c) PROVE VolumeInv'
  <1> DEFINE t == cur.txg + 1
             s == [class |-> c, created |-> t, root |-> cur.root]
             f == [txg |-> t, root |-> cur.root, snaps |-> cur.snaps \cup {s}]
  <1>1. phase = "mounted" /\ phase' = "publishing" /\ Begin(f) /\ cached' = cached
    BY DEF BeginSnapshot, Begin
  <1>2. /\ uber' = uber /\ block' = block /\ cur' = cur /\ told' = told
    BY <1>1 DEF Begin
  <1>3. /\ Prepared' /\ next'.txg = t /\ next'.root = cur.root
        /\ next'.snaps = cur.snaps \cup {s}
    BY <1>1, MountedFacts, BeginPrepares DEF Snapshots
  <1>4. ReadsBack(next)'
    <2>1. Pointed(next') \subseteq Pointed(cur)
      BY <1>3 DEF Pointed
    <2>2. \A p \in Pointed(cur) : p.birth \in Int /\ Readable(p, cur.txg)
      BY <1>1, MountedFacts, SpectreFSAssumption
         DEF ReadsBack, Pointed, Snapshots, Pointers, Sparse, Transactions
    <2> QED
      BY <1>1, <1>2, <1>3, <2>1, <2>2, MountedFacts DEF ReadsBack, Readable, IsStale
  <1>5. Publishing'
    BY <1>1, <1>2, <1>3, <1>4, MountedFacts, SlotsKept DEF Publishing
  <1> QED
    BY <1>1, <1>2, <1>5, SlotsKept DEF VolumeInv, Writer

LEMMA BeginPruneInv == ASSUME VolumeInv, BeginPrune PROVE VolumeInv'
  <1> DEFINE t == cur.txg + 1
             kept == cur.snaps \ PrunePlan(cur.snaps)
             f == [txg |-> t, root |-> cur.root, snaps |-> kept]
  <1>1. phase = "mounted" /\ phase' = "publishing" /\ Begin(f) /\ cached' = cached
    BY DEF BeginPrune, Begin
  <1>2. /\ uber' = uber /\ block' = block /\ cur' = cur /\ told' = told
    BY <1>1 DEF Begin
  <1>3. Prepared' /\ next'.txg = t /\ next'.root = cur.root /\ next'.snaps = kept
    BY <1>1, MountedFacts, BeginPrepares
  <1>4. ReadsBack(next)'
    <2>1. Pointed(next') \subseteq Pointed(cur)
      BY <1>3 DEF Pointed
    <2>2. \A p \in Pointed(cur) : p.birth \in Int /\ Readable(p, cur.txg)
      BY <1>1, MountedFacts, SpectreFSAssumption
         DEF ReadsBack, Pointed, Snapshots, Pointers, Sparse, Transactions
    <2> QED
      BY <1>1, <1>2, <1>3, <2>1, <2>2, MountedFacts DEF ReadsBack, Readable, IsStale
  <1>5. Publishing'
    BY <1>1, <1>2, <1>3, <1>4, MountedFacts, SlotsKept DEF Publishing
  <1> QED
    BY <1>1, <1>2, <1>5, SlotsKept DEF VolumeInv, Writer

LEMMA FlushInv == ASSUME Reliable, VolumeInv, Flush PROVE VolumeInv'
  <1>1. Staging /\ phase' = "publishing" /\ block' = Landed(cached) /\ cached' = {}
    BY DEF Flush, VolumeInv, Writer, Reliable
  <1>2. uber' = uber /\ cur' = cur /\ next' = next /\ told' = told
    BY DEF Flush
  <1>3. Prepared' /\ next.txg \in Int /\ cur.txg \in Int
    BY <1>1, <1>2, SpectreFSAssumption
       DEF Staging, Prepared, Sealed, Uberblocks, Transactions, VolumeInv, Newest
  <1>4. ReadsBack(cur)
    <2>1. Home(cur) \in ValidSlots(uber) /\ uber[Home(cur)] = cur
      BY <1>1, HomeType, SpectreFSAssumption
         DEF Staging, Newest, ValidSlots, Home, VolumeInv, Ring, Uberblocks, Transactions
    <2> QED
      BY <2>1 DEF VolumeInv, Intact
  <1>5. ReadsBack(next)'
    <2>1. /\ next.root.lba \in Blocks /\ next.root.birth = next.txg
          /\ block'[next.root.lba] = next.root.birth
      BY <1>1 DEF Staging, Landed
    <2>2. Readable(next.root, next.txg)'
      BY <1>2, <1>3, <2>1 DEF Readable, IsStale
    <2>3. ASSUME NEW s \in cur.snaps PROVE Readable(s.root, next.txg)'
      <3>1. /\ Home(cur) \in ValidSlots(uber) /\ uber[Home(cur)] = cur
            /\ s.root \in Pointed(cur)
        BY <1>1, HomeType, SpectreFSAssumption
           DEF Staging, Newest, ValidSlots, Home, VolumeInv, Ring, Uberblocks,
               Transactions, Pointed
      <3>2. Readable(s.root, cur.txg)'
        BY <1>1, <1>2, <3>1, CacheLands DEF Intact, ReadsBack
      <3>3. s.root.birth \in Int
        BY <1>1, SpectreFSAssumption
           DEF Staging, VolumeInv, Newest, Uberblocks, Snapshots, Pointers, Sparse,
               Transactions
      <3> QED
        BY <1>1, <1>2, <1>3, <3>2, <3>3 DEF Readable, IsStale, Staging, Prepared
    <2> QED
      BY <1>1, <1>2, <2>2, <2>3 DEF ReadsBack, Pointed, Staging
  <1>6. Publishing'
    BY <1>1, <1>2, <1>3, <1>5, SlotsKept DEF Publishing, Staging
  <1> QED
    BY <1>1, <1>2, <1>6, SlotsKept, CacheLands DEF VolumeInv, Writer

LEMMA PublishInv == ASSUME Reliable, VolumeInv, Publish PROVE VolumeInv'
  <1>1. /\ phase = "publishing" /\ phase' = "published" /\ Publishing
        /\ uber' = [uber EXCEPT ![NextSlot(cur)] = next]
        /\ block' = block /\ cached' = cached /\ cur' = cur /\ next' = next /\ told' = told
    BY DEF Publish, VolumeInv, Writer
  <1>2. Ring' /\ Durable' = next /\ Newest(uber, Durable)' /\ Rotation' /\ Intact'
    BY <1>1, WrittenWhole
  <1>3. Published'
    BY <1>1, <1>2 DEF Published, Publishing, Prepared
  <1> QED
    BY <1>1, <1>2, <1>3 DEF VolumeInv, Writer

\* Told of the next version, the ring keeps one version less of the old ones.
LEMMA LaterRotation ==
    ASSUME VolumeInv, NEW u \in Uberblocks, u.txg = told.txg + 1,
           uber[Home(u)] = u, ValidUber(u), uber' = uber, told' = u
    PROVE  Rotation'
  <1> USE SpectreFSAssumption
  <1>1. u.txg \in Nat /\ told.txg \in Nat
    BY DEF VolumeInv, Uberblocks, Transactions
  <1> SUFFICES ASSUME NEW back \in 0 .. UberblockSlots - 2, back <= u.txg
               PROVE  LET k == (u.txg - back) % UberblockSlots
                      IN  k \in ValidSlots(uber) /\ uber[k].txg = u.txg - back
    BY DEF Rotation
  <1>2. CASE back = 0
    <2>1. u.txg - back = u.txg /\ u.txg % UberblockSlots = Home(u) /\ Home(u) \in Places
      BY <1>1, <1>2, HomeType DEF Home
    <2> QED
      BY <2>1 DEF ValidSlots, VolumeInv, Ring
  <1>3. CASE back # 0
    <2>1. /\ back - 1 \in 0 .. UberblockSlots - 2 /\ back - 1 <= told.txg
          /\ u.txg - back = told.txg - (back - 1)
      BY <1>1, <1>3
    <2> QED
      BY <2>1 DEF VolumeInv, Rotation
  <1> QED
    BY <1>2, <1>3

LEMMA AcknowledgeInv == ASSUME VolumeInv, Acknowledge PROVE VolumeInv'
  <1> USE SpectreFSAssumption
  <1>1. /\ Published /\ phase' = "mounted"
        /\ cur' = next /\ told' = next /\ next' = Blank
        /\ uber' = uber /\ block' = block /\ cached' = cached
    BY DEF Acknowledge, VolumeInv, Writer
  <1>2. /\ next = Durable /\ next.txg = told.txg + 1 /\ told.txg \in Nat
        /\ next \in Uberblocks /\ uber[Home(next)] = next /\ ValidUber(next)
    BY <1>1 DEF Published, Prepared, VolumeInv, Newest, Uberblocks, Transactions
  <1>3. Rotation'
    BY <1>1, <1>2, LaterRotation
  <1>4. Mounted'
    BY <1>1, SlotsKept DEF Mounted, Published
  <1> QED
    BY <1>1, <1>2, <1>3, <1>4, SlotsKept DEF VolumeInv, Writer

\* The power loss that tears an uberblock leaves the next version or none.
LEMMA PowerLossTears ==
    ASSUME Reliable, VolumeInv, PowerLoss, uber' # uber
    PROVE  /\ phase = "publishing" /\ block' = block
           /\ Ring' /\ Durable' \in {Durable, next} /\ Newest(uber, Durable)'
           /\ Rotation' /\ Intact'
  <1> DEFINE h == NextSlot(cur)
  <1> PICK u \in Left(uber[h], next) :
          phase = "publishing" /\ uber' = [uber EXCEPT ![h] = u]
    BY DEF PowerLoss
  <1>1. Publishing /\ block' = block /\ told' = told
    <2>1. Publishing
      BY DEF VolumeInv, Writer
    <2>2. PICK part \in SUBSET cached : block' = Landed(part)
      BY DEF PowerLoss
    <2>3. Landed(part) = block
      BY <2>1 DEF Landed, Publishing, VolumeInv
    <2> QED
      BY <2>1, <2>2, <2>3 DEF PowerLoss
  <1>2. /\ h \in Places /\ uber[h] \in Uberblocks /\ Sealed(next)
        /\ ~uber[h].magic => uber[h].sum = Zero
        /\ Tears => \A f \in Versions : uber[h].sum = Blake3(f) => f.txg < next.txg
    <2>1. /\ h \in Places /\ uber[h] \in Uberblocks /\ Sealed(next)
          /\ ~uber[h].magic => uber[h].sum = Zero
          /\ Tears => \A f \in Versions : uber[h].sum = Blake3(f) => f.txg <= cur.txg
      BY <1>1, NextSlotIsFree DEF VolumeInv, Ring, Publishing, Prepared
    <2>2. \A f \in Versions : f.txg \in Int
      BY SpectreFSAssumption DEF Versions, Transactions
    <2> QED
      BY <2>1, <2>2, NextSlotIsFree
  <1>3. \/ u = next
        \/ u = uber[h]
        \/ u \in Uberblocks /\ ~ValidUber(u) /\ u.magic /\ u.sum = uber[h].sum
    <2>1. CASE Tears
      BY <1>2, <2>1, TornIsInvalid DEF Left, Reliable
    <2>2. CASE ~Tears
      BY <2>2 DEF Left
    <2> QED
      BY <2>1, <2>2
  <1>4. u # uber[h]
    BY <1>2 DEF VolumeInv, Ring
  <1> QED
    BY <1>1, <1>3, <1>4, WrittenWhole, WrittenTorn

LEMMA PowerLossInv == ASSUME Reliable, VolumeInv, PowerLoss PROVE VolumeInv'
  <1>1. /\ phase # "down" /\ phase' = "down" /\ cached' = {} /\ next' = Blank
        /\ told' = told /\ \E part \in SUBSET cached : block' = Landed(part)
    BY DEF PowerLoss
  <1>2. CASE uber' = uber
    <2>1. \/ Durable = told
          \/ Durable.txg = told.txg + 1
      BY <1>1 DEF VolumeInv, Writer, Mounted, Staging, Publishing, Published, Prepared
    <2>2. block' \in [Blocks -> Transactions] /\ Intact'
      BY <1>1, <1>2, CacheLands, SlotsKept DEF VolumeInv
    <2>3. Down'
      BY <1>1, <1>2, <2>1, SlotsKept DEF Down
    <2> QED
      BY <1>1, <1>2, <2>2, <2>3, SlotsKept DEF VolumeInv, Writer
  <1>3. CASE uber' # uber
    <2>1. Down'
      BY <1>1, <1>3, PowerLossTears, NextSlotIsFree DEF Down
    <2> QED
      BY <1>1, <1>3, <2>1, PowerLossTears DEF VolumeInv, Writer
  <1> QED
    BY <1>2, <1>3

LEMMA MountInv == ASSUME VolumeInv, Mount PROVE VolumeInv'
  <1> USE SpectreFSAssumption
  <1>1. /\ Down /\ phase' = "mounted" /\ cur' = Durable /\ told' = Durable
        /\ uber' = uber /\ block' = block /\ cached' = cached /\ next' = next
    BY DEF Mount, VolumeInv, Writer, Durable
  <1>2. Durable \in Uberblocks /\ uber[Home(Durable)] = Durable /\ ValidUber(Durable)
    BY DEF VolumeInv, Newest
  <1>3. Rotation'
    <2>1. CASE Durable = told
      BY <1>1, <2>1, SlotsKept
    <2>2. CASE Durable.txg = told.txg + 1
      <3>1. told.txg \in Nat
        BY DEF VolumeInv, Uberblocks, Transactions
      <3> QED
        BY <1>1, <1>2, <2>2, <3>1, LaterRotation
    <2> QED
      BY <1>1, <2>1, <2>2 DEF Down
  <1>4. Mounted'
    BY <1>1, SlotsKept DEF Mounted, Down
  <1> QED
    BY <1>1, <1>2, <1>3, <1>4, SlotsKept DEF VolumeInv, Writer

LEMMA StepVolumeInv == Reliable /\ VolumeInv /\ [FsNext]_fsVars => VolumeInv'
  <1> SUFFICES ASSUME Reliable, VolumeInv, [FsNext]_fsVars PROVE VolumeInv'
    OBVIOUS
  <1>1. ASSUME NEW b \in Blocks, BeginWrite(b) PROVE VolumeInv'
    BY <1>1, BeginWriteInv
  <1>2. ASSUME NEW c \in Retentions, BeginSnapshot(c) PROVE VolumeInv'
    BY <1>2, BeginSnapshotInv
  <1>3. CASE UNCHANGED fsVars
    <2>1. /\ uber' = uber /\ block' = block /\ cached' = cached /\ cur' = cur
          /\ next' = next /\ phase' = phase /\ told' = told
      BY <1>3 DEF fsVars
    <2>2. Writer'
      BY <2>1 DEF VolumeInv, Writer, Mounted, Staging, Publishing, Published, Down,
         Prepared, ReadsBack, Readable, Fresh, InUse, Durable
    <2> QED
      BY <2>1, <2>2, SlotsKept DEF VolumeInv
  <1> QED
    BY <1>1, <1>2, <1>3, BeginPruneInv, FlushInv, PublishInv, AcknowledgeInv,
       PowerLossInv, MountInv DEF FsNext

\* Slots, cache and memory agree at every step of the writer and after any loss of
\* power.
THEOREM SpectreFSInvariant == ASSUME Reliable PROVE FsSpec => []VolumeInv
  <1>1. FsInit => VolumeInv
    BY InitVolumeInv
  <1>2. VolumeInv /\ [FsNext]_fsVars => VolumeInv'
    BY StepVolumeInv
  <1> QED
    BY <1>1, <1>2, PTL DEF FsSpec

\* What a mount would find reads back, tree and snapshots, at every instant: no
\* block of it was reused and no pointer is stale (layout.rs, the order of blocks,
\* flush and uberblock, and the copy on write).
THEOREM SpectreFSMountReadsBack == ASSUME Reliable PROVE FsSpec => []MountReadsBack
  <1>1. VolumeInv => MountReadsBack
    <2> SUFFICES ASSUME VolumeInv PROVE MountReadsBack
      OBVIOUS
    <2>1. Home(Durable) \in ValidSlots(uber) /\ uber[Home(Durable)] = Durable
      BY HomeType, SpectreFSAssumption
         DEF VolumeInv, Newest, ValidSlots, Home, Ring, Uberblocks, Transactions
    <2> QED
      BY <2>1 DEF VolumeInv, Intact, ReadsBack, Pointed, MountReadsBack, Durable
  <1> QED
    BY <1>1, SpectreFSInvariant, PTL

\* A torn write costs one slot: the UberblockSlots - 1 versions up to the newest
\* acknowledged one stay in their slots (layout.rs, `next_slot`).
THEOREM SpectreFSFallbacksRemain == ASSUME Reliable PROVE FsSpec => []FallbacksRemain
  <1>1. VolumeInv => FallbacksRemain
    BY DEF VolumeInv, Rotation, FallbacksRemain
  <1> QED
    BY <1>1, SpectreFSInvariant, PTL

\* What a mount would find changes to the uberblock being written or not at all: with
\* a hash that has no collisions even on a drive that tears it, which is what the
\* comment promises of the checksum (layout.rs:136-137).
THEOREM SpectreFSTornWriteDetected == ASSUME Reliable PROVE FsSpec => TornWriteDetected
  <1>1. ASSUME VolumeInv, [FsNext]_fsVars PROVE Durable' \in {Durable, next}
    <2>1. CASE uber' = uber
      BY <1>1, <2>1, SlotsKept
    <2>2. CASE Publish
      BY <1>1, <2>2, WrittenWhole DEF Publish
    <2>3. CASE PowerLoss /\ uber' # uber
      BY <1>1, <2>3, PowerLossTears
    <2> QED
      BY <1>1, <2>1, <2>2, <2>3
         DEF FsNext, fsVars, BeginWrite, BeginSnapshot, BeginPrune, Begin, Flush,
             Acknowledge, Mount
  <1>2. VolumeInv /\ [FsNext]_fsVars =>
            [SelectNewestValid(uber)' \in {SelectNewestValid(uber), next}]_uber
    BY <1>1 DEF Durable
  <1> QED
    BY <1>2, SpectreFSInvariant, PTL DEF FsSpec, TornWriteDetected

-----------------------------------------------------------------------------
(* Refinement *)

Asked == IF next = Blank THEN Blank ELSE Fields(next)

\* A sealed version is not mistaken for a blank slot, nor its fields.
LEMMA SealedIsAsked ==
    ASSUME NEW u, Sealed(u)
    PROVE  u # Blank /\ Fields(u) # Blank
  <1>1. u # Blank
    BY SealedIsValid, BlankType
  <1>2. "magic" \in DOMAIN Blank /\ "magic" \notin DOMAIN Fields(u)
    BY DEF Fields, Blank
  <1> QED
    BY <1>1, <1>2

LEMMA DurableType ==
    ASSUME VolumeInv PROVE Durable \in Uberblocks /\ Fields(Durable).txg = Durable.txg
  BY FieldsType DEF VolumeInv, Newest

\* Every transaction that begins asks for the version after the durable one.
LEMMA BeginRefines ==
    ASSUME VolumeInv, VolumeInv', NEW f, Begin(f),
           phase' \in {"staging", "publishing"}
    PROVE  Vol!Ask
  <1>1. phase = "mounted" /\ uber' = uber /\ told' = told /\ cur' = cur
    BY DEF Begin
  <1>2. next = Blank /\ told = Durable /\ cur = Durable
    BY <1>1, MountedFacts
  <1>3. Sealed(next)' /\ next'.txg = cur'.txg + 1
    BY DEF VolumeInv, Writer, Staging, Publishing, Prepared
  <1>4. next' # Blank /\ Fields(next') # Blank /\ Fields(next').txg = cur.txg + 1
    BY <1>1, <1>3, SealedIsAsked, FieldsType DEF Sealed
  <1> QED
    BY <1>1, <1>2, <1>4, DurableType DEF Vol!Ask, Durable

LEMMA PublishRefines ==
    ASSUME VolumeInv, VolumeInv', Publish PROVE Vol!Advance
  <1>1. Durable' = next /\ told' = told /\ next' = next /\ Publishing
    BY DEF Publish, VolumeInv, Writer, Published
  <1>2. next # Blank /\ Fields(next) # Blank /\ Fields(next).txg = cur.txg + 1
    BY <1>1, SealedIsAsked, FieldsType DEF Publishing, Prepared, Sealed
  <1>3. Fields(Durable) # Fields(next)
    <2>1. cur = Durable /\ cur.txg \in Int
      BY <1>1, DurableType, SpectreFSAssumption
         DEF Publishing, Uberblocks, Transactions
    <2> QED
      BY <1>2, <2>1, DurableType
  <1> QED
    BY <1>1, <1>2, <1>3 DEF Vol!Advance, Durable

LEMMA AcknowledgeRefines == ASSUME VolumeInv, Acknowledge PROVE Vol!Tell
  <1>1. /\ told' = next /\ next' = Blank /\ uber' = uber /\ next = Durable
    BY DEF Acknowledge, VolumeInv, Writer, Published
  <1> QED
    BY <1>1 DEF Vol!Tell, Durable

\* The power fails before the version is durable, or after it.
LEMMA PowerLossRefines ==
    ASSUME Reliable, VolumeInv, VolumeInv', PowerLoss
    PROVE  Vol!Abandon \/ Vol!Advance \/ UNCHANGED Vol!vars
  <1>1. phase' = "down" /\ next' = Blank /\ told' = told /\ phase # "down"
    BY DEF PowerLoss
  <1>2. CASE Durable' = Durable
    <2>1. CASE next = Blank
      BY <1>1, <1>2, <2>1 DEF Vol!vars, Durable
    <2>2. CASE next # Blank
      <3>1. Sealed(next)
        BY <1>1, <2>2 DEF VolumeInv, Writer, Mounted, Staging, Publishing, Published,
           Prepared
      <3>2. Fields(next) # Blank
        BY <3>1, SealedIsAsked
      <3> QED
        BY <1>1, <1>2, <2>2, <3>2 DEF Vol!Abandon, Durable
    <2> QED
      BY <2>1, <2>2
  <1>3. CASE Durable' # Durable
    <2>1. uber' # uber
      BY <1>3 DEF Durable
    <2>2. phase = "publishing"
      BY <2>1 DEF PowerLoss
    <2>3. /\ cur = Durable /\ told = cur /\ Sealed(next) /\ next.txg = cur.txg + 1
          /\ cur.txg \in Int
      BY <2>2, NextSlotIsFree DEF VolumeInv, Writer, Publishing, Prepared
    <2>4. Durable' = next
      BY <1>3, <2>1, PowerLossTears
    <2>5. next # Blank /\ Fields(next) # Blank /\ Fields(next).txg = next.txg
      BY <2>3, SealedIsAsked, FieldsType DEF Sealed
    <2>6. Fields(Durable) # Fields(next)
      BY <2>3, <2>5, DurableType
    <2> QED
      BY <1>1, <2>4, <2>5, <2>6 DEF Vol!Advance, Durable
  <1> QED
    BY <1>2, <1>3

LEMMA MountRefines == ASSUME VolumeInv, VolumeInv', Mount PROVE Vol!Tell
  <1>1. told' = Durable /\ uber' = uber /\ next' = Blank
    BY DEF Mount, VolumeInv, Writer, Mounted, Durable
  <1> QED
    BY <1>1 DEF Vol!Tell, Durable

LEMMA StepRefines ==
    ASSUME Reliable, VolumeInv, VolumeInv', [FsNext]_fsVars
    PROVE  [Vol!Next]_(Vol!vars)
  <1>1. ASSUME NEW b \in Blocks, BeginWrite(b) PROVE Vol!Ask
    BY <1>1, BeginRefines DEF BeginWrite
  <1>2. ASSUME NEW c \in Retentions, BeginSnapshot(c) PROVE Vol!Ask
    BY <1>2, BeginRefines DEF BeginSnapshot
  <1>3. CASE BeginPrune
    BY <1>3, BeginRefines DEF BeginPrune, Vol!Next
  <1>4. CASE Flush \/ UNCHANGED fsVars
    <2>1. uber' = uber /\ next' = next /\ told' = told
      BY <1>4 DEF Flush, fsVars
    <2> QED
      BY <2>1 DEF Vol!vars, Durable
  <1> QED
    BY <1>1, <1>2, <1>3, <1>4, PublishRefines, AcknowledgeRefines, PowerLossRefines,
       MountRefines DEF FsNext, Vol!Next

\* The volume changes from one version to the next one asked for in one step, and
\* an acknowledged version is never lost (layout.rs, `select_newest_valid`).
THEOREM SpectreFSImplementsVolume ==
    ASSUME Reliable PROVE FsSpec => ImplementsVolume
  <1>1. FsInit => Vol!Init
    <2> SUFFICES ASSUME FsInit PROVE Vol!Init
      OBVIOUS
    <2>1. phase = "mounted" /\ VolumeInv
      BY InitVolumeInv DEF FsInit
    <2>2. told = Durable /\ next = Blank
      BY <2>1, MountedFacts
    <2> QED
      BY <2>2 DEF Vol!Init, Durable
  <1>2. VolumeInv /\ VolumeInv' /\ [FsNext]_fsVars => [Vol!Next]_(Vol!vars)
    BY StepRefines
  <1> QED
    BY <1>1, <1>2, SpectreFSInvariant, PTL DEF FsSpec, ImplementsVolume, Vol!Spec

-----------------------------------------------------------------------------
(* Pruning *)

\* What a pruned version b keeps of a.
Keeps(a, b) ==
    \A s \in a \ b :
        /\ s.class # Manual
        /\ Cardinality(OfClass(b, s.class)) >= Limit[s.class]
        /\ \A t \in OfClass(b, s.class) : t.created > s.created

\* Snapshots are as many as there are instants, and none is of the future.
Dated(txg, snaps) ==
    /\ IsFiniteSet(snaps)
    /\ \A s \in snaps : s.class \in Retentions /\ s.created \in 0 .. txg
    /\ \A s, t \in snaps : s.created = t.created => s = t

Doomed(snaps) == UNION {Excess(snaps, c) : c \in ToSet(Classes)}
Pushed(snaps, s) == {t \in Doomed(snaps) : Earlier(t, s)}

LEMMA DoomedMembers ==
    ASSUME NEW S, NEW s
    PROVE  s \in Doomed(S) <=>
               /\ s \in S /\ s.class \in ToSet(Classes)
               /\ Cardinality({t \in OfClass(S, s.class) : t.created > s.created}) >= Limit[s.class]
  <1>1. s \in Doomed(S) <=> \E c \in ToSet(Classes) : s \in Excess(S, c)
    BY DEF Doomed
  <1>2. ASSUME NEW c
        PROVE  s \in Excess(S, c) <=>
                   /\ s \in S /\ s.class = c
                   /\ Cardinality({t \in OfClass(S, c) : t.created > s.created}) >= Limit[c]
    BY DEF Excess, OfClass
  <1> QED
    BY <1>1, <1>2

LEMMA PlanMembers ==
    ASSUME NEW S, NEW s
    PROVE  s \in PrunePlan(S) <=> s \in Doomed(S) /\ Cardinality(Pushed(S, s)) < DoomedMax
  BY DEF PrunePlan, Doomed, Pushed

\* A larger finite set has no fewer members.
LEMMA MoreMembers ==
    ASSUME NEW A, NEW B, IsFiniteSet(B), A \subseteq B
    PROVE  /\ Cardinality(A) \in Nat /\ Cardinality(B) \in Nat
           /\ Cardinality(A) <= Cardinality(B)
  BY FS_Subset, FS_CardinalityType

\* With a snapshot the plan has every older one of its class.
LEMMA PlanIsDownward ==
    ASSUME NEW n \in Nat, NEW S, Dated(n, S), NEW s \in PrunePlan(S), NEW t \in S,
           t.class = s.class, t.created < s.created
    PROVE  t \in PrunePlan(S)
  <1> DEFINE Newer(x) == {y \in OfClass(S, x.class) : y.created > x.created}
  <1>1. s \in Doomed(S) /\ Cardinality(Pushed(S, s)) < DoomedMax
    BY PlanMembers
  <1>2. s \in S /\ s.class \in ToSet(Classes) /\ Cardinality(Newer(s)) >= Limit[s.class]
    BY <1>1, DoomedMembers
  <1>3. \A x \in S : x.created \in Nat
    BY DEF Dated
  <1>4. IsFiniteSet(S) /\ Newer(t) \subseteq S /\ Newer(s) \subseteq Newer(t)
    BY <1>2, <1>3 DEF Dated, OfClass
  <1>5. IsFiniteSet(Newer(t))
    BY <1>4, FS_Subset
  <1>6. /\ Cardinality(Newer(s)) \in Nat /\ Cardinality(Newer(t)) \in Nat
        /\ Cardinality(Newer(s)) <= Cardinality(Newer(t))
    BY <1>4, <1>5, MoreMembers
  <1>7. Limit[s.class] \in Nat
    BY <1>2, SpectreFSAssumption
  <1>8. t \in Doomed(S)
    <2>1. Cardinality(Newer(t)) >= Limit[t.class]
      BY <1>2, <1>6, <1>7
    <2> QED
      BY <1>2, <2>1, DoomedMembers
  <1>9. Doomed(S) \subseteq S
    BY DoomedMembers
  <1>10. Pushed(S, t) \subseteq Pushed(S, s) /\ Pushed(S, s) \subseteq S
    <2>1. ASSUME NEW x \in Doomed(S), Earlier(x, t) PROVE Earlier(x, s)
      <3>1. x.created \in Nat /\ t.created \in Nat /\ s.created \in Nat
        BY <1>2, <1>3, <1>9
      <3>2. CASE Place(x.class) < Place(t.class)
        BY <3>2 DEF Earlier
      <3>3. CASE x.class = t.class /\ x.created < t.created
        BY <3>1, <3>3 DEF Earlier
      <3> QED
        BY <2>1, <3>2, <3>3 DEF Earlier
    <2> QED
      BY <1>9, <2>1 DEF Pushed
  <1>11. IsFiniteSet(Pushed(S, s))
    BY <1>4, <1>10, FS_Subset
  <1>12. /\ Cardinality(Pushed(S, t)) \in Nat /\ Cardinality(Pushed(S, s)) \in Nat
         /\ Cardinality(Pushed(S, t)) <= Cardinality(Pushed(S, s))
    BY <1>10, <1>11, MoreMembers
  <1>13. Cardinality(Pushed(S, t)) < DoomedMax
    BY <1>1, <1>12, SpectreFSAssumption
  <1> QED
    BY <1>8, <1>13, PlanMembers

\* Of a class, the newest snapshot that is given up has the limit of newer ones
\* behind it, and all of them stay.
LEMMA PlanKeeps ==
    ASSUME NEW n \in Nat, NEW S, Dated(n, S)
    PROVE  Keeps(S, S \ PrunePlan(S))
  <1> DEFINE P == PrunePlan(S)
             Newer(x) == {y \in OfClass(S, x.class) : y.created > x.created}
  <1>1. \A x \in S : x.created \in 0 .. n
    BY DEF Dated
  <1>2. P \subseteq S
    BY PlanMembers, DoomedMembers
  <1> SUFFICES ASSUME NEW s \in P
               PROVE  /\ s.class # Manual
                      /\ Cardinality(OfClass(S \ P, s.class)) >= Limit[s.class]
                      /\ \A t \in OfClass(S \ P, s.class) : t.created > s.created
    BY <1>2 DEF Keeps
  <1>3. s.class \in ToSet(Classes) /\ s.class # Manual /\ Limit[s.class] \in Nat
    <2>1. s.class \in ToSet(Classes)
      BY PlanMembers, DoomedMembers
    <2> QED
      BY <2>1, SpectreFSAssumption
  <1>4. ASSUME NEW t \in OfClass(S \ P, s.class) PROVE t.created > s.created
    <2>1. t \in S /\ t \notin P /\ t.class = s.class
      BY DEF OfClass
    <2>2. ~(t.created < s.created)
      BY <2>1, PlanIsDownward
    <2>3. t.created # s.created
      BY <1>2, <2>1 DEF Dated
    <2> HIDE DEF P
    <2>4. t.created \in Int /\ s.created \in Int
      BY <1>1, <1>2, <2>1
    <2> QED
      BY <2>2, <2>3, <2>4
  <1>5. Cardinality(OfClass(S \ P, s.class)) >= Limit[s.class]
    <2> DEFINE T == {n - x.created : x \in OfClass(P, s.class)}
    <2>1. T \subseteq Nat /\ T # {}
      <3> HIDE DEF P
      <3>1. \A x \in OfClass(P, s.class) : n - x.created \in Nat
        BY <1>1, <1>2 DEF OfClass
      <3>2. s \in OfClass(P, s.class)
        BY DEF OfClass
      <3> QED
        BY <3>1, <3>2
    <2>2. PICK least \in T : \A y \in T : least <= y
      <3> HIDE DEF T
      <3> QED
        BY <2>1, LeastNatural
    <2>3. PICK m \in OfClass(P, s.class) : least = n - m.created
      BY <2>2
    <2>4. m \in P /\ m.class = s.class
      BY <2>3 DEF OfClass
    <2>5. Cardinality(Newer(m)) >= Limit[s.class]
      BY <2>4, PlanMembers, DoomedMembers
    <2> HIDE DEF P
    <2>6. ASSUME NEW x \in Newer(m) PROVE x \in OfClass(S \ P, s.class)
      <3>1. x \in S /\ x.class = s.class /\ x.created > m.created
        BY <2>4 DEF OfClass
      <3>2. x.created \in Int /\ m.created \in Int
        BY <1>1, <1>2, <2>4, <3>1
      <3>3. x \notin P
        <4> SUFFICES ASSUME x \in P PROVE FALSE
          OBVIOUS
        <4>1. n - x.created \in T
          BY <3>1 DEF OfClass
        <4>2. n - m.created <= n - x.created
          BY <2>2, <2>3, <4>1
        <4> QED
          BY <3>1, <3>2, <4>2
      <3> QED
        BY <3>1, <3>3 DEF OfClass
    <2>7. IsFiniteSet(OfClass(S \ P, s.class))
      <3>1. IsFiniteSet(S) /\ OfClass(S \ P, s.class) \subseteq S
        BY DEF Dated, OfClass
      <3> QED
        BY <3>1, FS_Subset
    <2>8. Newer(m) \subseteq OfClass(S \ P, s.class)
      BY <2>6
    <2> HIDE DEF Newer, T
    <2>9. /\ Cardinality(Newer(m)) \in Nat /\ Cardinality(OfClass(S \ P, s.class)) \in Nat
          /\ Cardinality(Newer(m)) <= Cardinality(OfClass(S \ P, s.class))
      BY <2>7, <2>8, MoreMembers
    <2> QED
      BY <1>3, <2>5, <2>9
  <1> QED
    BY <1>3, <1>4, <1>5

DatedOf(u) == Dated(u.txg, u.snaps)

\* What is told, what a mount would find and what is under way are dated, and
\* whatever comes after what was told keeps the newest of it.
PruneInv ==
    /\ DatedOf(told) /\ DatedOf(Durable) /\ Keeps(told.snaps, Durable.snaps)
    /\ next # Blank => DatedOf(next) /\ Keeps(told.snaps, next.snaps)

LEMMA FieldsNotBlank ==
    \A u : /\ Fields(u) # Blank
           /\ Fields(u).txg = u.txg /\ Fields(u).snaps = u.snaps
  <1> TAKE u
  <1>1. "magic" \in DOMAIN Blank /\ "magic" \notin DOMAIN Fields(u)
    BY DEF Fields, Blank
  <1> QED
    BY <1>1 DEF Fields

\* What begins is asked of the version that was told.
LEMMA BeginPruneInvFacts ==
    ASSUME VolumeInv, PruneInv, NEW f, Begin(f), DatedOf(f), Keeps(told.snaps, f.snaps)
    PROVE  PruneInv' /\ told' = told
  <1>1. phase = "mounted" /\ uber' = uber /\ told' = told /\ next' = Seal(f)
    BY DEF Begin
  <1>2. Durable' = Durable
    BY <1>1 DEF Durable
  <1>3. Seal(f).txg = f.txg /\ Seal(f).snaps = f.snaps
    BY DEF Seal
  <1> QED
    BY <1>1, <1>2, <1>3 DEF PruneInv, DatedOf

\* When a transaction begins, the mounted version is the one told.
LEMMA BeginsFromTold ==
    ASSUME VolumeInv, PruneInv, phase = "mounted", cur.txg < MaxTxg
    PROVE  /\ cur = told /\ Dated(cur.txg, cur.snaps) /\ cur.txg \in Nat
           /\ Dated(cur.txg + 1, cur.snaps)
  <1>1. cur = told /\ told \in Uberblocks
    BY MountedFacts DEF VolumeInv
  <1>2. cur.txg \in Nat
    BY <1>1, SpectreFSAssumption DEF Uberblocks, Transactions
  <1>3. Dated(cur.txg, cur.snaps)
    BY <1>1 DEF PruneInv, DatedOf
  <1>4. Dated(cur.txg + 1, cur.snaps)
    BY <1>2, <1>3 DEF Dated
  <1> QED
    BY <1>1, <1>2, <1>3, <1>4

\* A version that keeps every snapshot keeps the newest.
LEMMA AllKept == ASSUME NEW a, NEW b, a \subseteq b PROVE Keeps(a, b)
  BY DEF Keeps

LEMMA BeginKeeps ==
    ASSUME VolumeInv, PruneInv,
           \/ \E b \in Blocks : BeginWrite(b)
           \/ \E c \in Retentions : BeginSnapshot(c)
           \/ BeginPrune
    PROVE  PruneInv' /\ told' = told
  <1>1. phase = "mounted" /\ cur.txg < MaxTxg
    BY DEF BeginWrite, BeginSnapshot, BeginPrune, Begin
  <1>2. /\ cur = told /\ Dated(cur.txg, cur.snaps) /\ cur.txg \in Nat
        /\ Dated(cur.txg + 1, cur.snaps)
    BY <1>1, BeginsFromTold
  <1>3. ASSUME NEW b \in Blocks, BeginWrite(b) PROVE PruneInv' /\ told' = told
    <2> DEFINE f == [txg |-> cur.txg + 1, root |-> [lba |-> b, birth |-> cur.txg + 1],
                     snaps |-> cur.snaps]
    <2>1. Begin(f)
      BY <1>3 DEF BeginWrite
    <2>2. f.snaps = cur.snaps /\ f.txg = cur.txg + 1
      OBVIOUS
    <2> HIDE DEF f
    <2> QED
      BY <1>2, <2>1, <2>2, AllKept, BeginPruneInvFacts DEF DatedOf
  <1>4. ASSUME NEW c \in Retentions, BeginSnapshot(c) PROVE PruneInv' /\ told' = told
    <2> DEFINE s == [class |-> c, created |-> cur.txg + 1, root |-> cur.root]
               f == [txg |-> cur.txg + 1, root |-> cur.root, snaps |-> cur.snaps \cup {s}]
    <2>1. Begin(f)
      BY <1>4 DEF BeginSnapshot
    <2>2. f.snaps = cur.snaps \cup {s} /\ f.txg = cur.txg + 1
      OBVIOUS
    <2>3. s.class = c /\ s.created = cur.txg + 1
      OBVIOUS
    <2> HIDE DEF f, s
    <2>4. IsFiniteSet(cur.snaps \cup {s})
      BY <1>2, FS_AddElement DEF Dated
    <2>5. \A t \in cur.snaps : t.created \in 0 .. cur.txg
      BY <1>2 DEF Dated
    <2>6. \A t, x \in cur.snaps \cup {s} : t.created = x.created => t = x
      BY <1>2, <2>3, <2>5 DEF Dated
    <2>7. Dated(cur.txg + 1, cur.snaps \cup {s})
      BY <1>2, <2>3, <2>4, <2>6 DEF Dated
    <2> QED
      BY <1>2, <2>1, <2>2, <2>7, AllKept, BeginPruneInvFacts DEF DatedOf
  <1>5. CASE BeginPrune
    <2> DEFINE kept == cur.snaps \ PrunePlan(cur.snaps)
               f == [txg |-> cur.txg + 1, root |-> cur.root, snaps |-> kept]
    <2>1. Begin(f)
      BY <1>5 DEF BeginPrune
    <2>2. f.snaps = kept /\ f.txg = cur.txg + 1
      OBVIOUS
    <2> HIDE DEF f
    <2>3. Keeps(cur.snaps, kept)
      BY <1>2, PlanKeeps
    <2>4. IsFiniteSet(kept) /\ kept \subseteq cur.snaps
      BY <1>2, FS_Subset DEF Dated
    <2>5. Dated(cur.txg + 1, kept)
      BY <1>2, <2>4 DEF Dated
    <2> HIDE DEF kept
    <2> QED
      BY <1>2, <2>1, <2>2, <2>3, <2>5, BeginPruneInvFacts DEF DatedOf
  <1> QED
    BY <1>3, <1>4, <1>5

\* Every other step only moves versions: to the platter, to memory, or away.
LEMMA MovesKeep ==
    ASSUME PruneInv, Vol!Advance \/ Vol!Abandon \/ Vol!Tell \/ UNCHANGED Vol!vars
    PROVE  PruneInv' /\ Keeps(told.snaps, told'.snaps)
  <1> DEFINE A == Asked
  <1>1. \A u, v : Fields(u) = Fields(v) => u.txg = v.txg /\ u.snaps = v.snaps
    BY FieldsNotBlank
  <1>2. \A a : Keeps(a, a)
    BY AllKept
  <1>3. CASE Vol!Advance
    <2>1. /\ A # Blank /\ Fields(Durable)' = A /\ (A' = A \/ A' = Blank)
          /\ Fields(told)' = Fields(told)
      BY <1>3 DEF Vol!Advance, Asked, Durable
    <2>2. next # Blank /\ A = Fields(next)
      BY <2>1 DEF Asked
    <2>3. next' # Blank => A' = Fields(next') /\ A' # Blank
      BY FieldsNotBlank DEF Asked
    <2>4. Durable'.txg = next.txg /\ Durable'.snaps = next.snaps
      BY <1>1, <2>1, <2>2
    <2>5. told'.txg = told.txg /\ told'.snaps = told.snaps
      BY <1>1, <2>1
    <2>6. next' # Blank => next'.txg = next.txg /\ next'.snaps = next.snaps
      BY <1>1, <2>1, <2>2, <2>3
    <2> QED
      BY <1>2, <2>2, <2>4, <2>5, <2>6 DEF PruneInv, DatedOf
  <1>4. CASE Vol!Abandon
    <2>1. A' = Blank /\ Fields(Durable)' = Fields(Durable) /\ Fields(told)' = Fields(told)
      BY <1>4 DEF Vol!Abandon, Asked, Durable
    <2>2. next' = Blank
      BY <2>1, FieldsNotBlank DEF Asked
    <2>3. /\ Durable'.txg = Durable.txg /\ Durable'.snaps = Durable.snaps
          /\ told'.txg = told.txg /\ told'.snaps = told.snaps
      BY <1>1, <2>1
    <2> QED
      BY <1>2, <2>2, <2>3 DEF PruneInv, DatedOf
  <1>5. CASE Vol!Tell
    <2>1. A' = Blank /\ Fields(Durable)' = Fields(Durable) /\ Fields(told)' = Fields(Durable)
      BY <1>5 DEF Vol!Tell, Asked, Durable
    <2>2. next' = Blank
      BY <2>1, FieldsNotBlank DEF Asked
    <2>3. /\ Durable'.txg = Durable.txg /\ Durable'.snaps = Durable.snaps
          /\ told'.txg = Durable.txg /\ told'.snaps = Durable.snaps
      BY <1>1, <2>1
    <2> QED
      BY <1>2, <2>2, <2>3 DEF PruneInv, DatedOf
  <1>6. CASE UNCHANGED Vol!vars
    <2>1. A' = A /\ Fields(Durable)' = Fields(Durable) /\ Fields(told)' = Fields(told)
      BY <1>6 DEF Vol!vars, Asked, Durable
    <2>2. next' # Blank => next # Blank /\ Fields(next') = Fields(next)
      BY <2>1, FieldsNotBlank DEF Asked
    <2>3. /\ Durable'.txg = Durable.txg /\ Durable'.snaps = Durable.snaps
          /\ told'.txg = told.txg /\ told'.snaps = told.snaps
      BY <1>1, <2>1
    <2>4. next' # Blank => next'.txg = next.txg /\ next'.snaps = next.snaps
      BY <1>1, <2>2
    <2> QED
      BY <1>2, <2>2, <2>3, <2>4 DEF PruneInv, DatedOf
  <1> QED
    BY <1>3, <1>4, <1>5, <1>6

LEMMA StepKeeps ==
    ASSUME Reliable, VolumeInv, VolumeInv', PruneInv, [FsNext]_fsVars
    PROVE  PruneInv' /\ Keeps(told.snaps, told'.snaps)
  <1>1. CASE \/ \E b \in Blocks : BeginWrite(b)
             \/ \E c \in Retentions : BeginSnapshot(c)
             \/ BeginPrune
    BY <1>1, BeginKeeps, AllKept
  <1>2. CASE Flush \/ UNCHANGED fsVars
    <2>1. uber' = uber /\ next' = next /\ told' = told
      BY <1>2 DEF Flush, fsVars
    <2>2. UNCHANGED Vol!vars
      BY <2>1 DEF Vol!vars, Durable
    <2> QED
      BY <2>2, MovesKeep
  <1>3. CASE Publish
    BY <1>3, PublishRefines, MovesKeep
  <1>4. CASE Acknowledge
    BY <1>4, AcknowledgeRefines, MovesKeep
  <1>5. CASE PowerLoss
    BY <1>5, PowerLossRefines, MovesKeep
  <1>6. CASE Mount
    BY <1>6, MountRefines, MovesKeep
  <1> QED
    BY <1>1, <1>2, <1>3, <1>4, <1>5, <1>6 DEF FsNext

\* Pruning gives up no snapshot of the user's, none while an older one of its class
\* stays, and none below the limit of its class, though the list of what to give
\* up may overflow and the power may fail at any step (layout.rs, `prune_plan`).
THEOREM SpectreFSPruneKeepsNewest ==
    ASSUME Reliable PROVE FsSpec => PruneKeepsNewest
  <1>1. FsInit => PruneInv
    <2> SUFFICES ASSUME FsInit PROVE PruneInv
      OBVIOUS
    <2>1. told = Durable /\ next = Blank
      <3>1. phase = "mounted" /\ VolumeInv
        BY InitVolumeInv DEF FsInit
      <3> QED
        BY <3>1, MountedFacts
    <2>2. told.txg = 0 /\ told.snaps = {}
      BY SpectreFSAssumption DEF FsInit, Seal
    <2>3. Dated(0, {})
      BY FS_EmptySet DEF Dated
    <2> QED
      BY <2>1, <2>2, <2>3, AllKept DEF PruneInv, DatedOf
  <1>2. VolumeInv /\ VolumeInv' /\ PruneInv /\ [FsNext]_fsVars => PruneInv'
    BY StepKeeps
  <1>3. VolumeInv /\ VolumeInv' /\ PruneInv /\ [FsNext]_fsVars =>
            [\A s \in told.snaps \ told'.snaps :
                /\ s.class # Manual
                /\ Cardinality(OfClass(told'.snaps, s.class)) >= Limit[s.class]
                /\ \A t \in OfClass(told'.snaps, s.class) : t.created > s.created]_told
    BY StepKeeps DEF Keeps
  <1> QED
    BY <1>1, <1>2, <1>3, SpectreFSInvariant, PTL DEF FsSpec, PruneKeepsNewest

-----------------------------------------------------------------------------
(* The pointer tree of a file *)

\* The block a path was made for.
Origin(p) ==
    LET i == p.indices
    IN  CASE p.pointer = "direct" -> i[1]
          [] p.pointer = "indirect" -> Direct + i[1]
          [] p.pointer = "double" -> Direct + Single + (i[1] * Single + i[2])
          [] p.pointer = "triple" -> Direct + Single + Double + ((i[1] * Single + i[2]) * Single + i[3])
          [] p.pointer = "quad" ->
                 Direct + Single + Double + Triple
                     + (((i[1] * Single + i[2]) * Single + i[3]) * Single + i[4])

InBlock(x) == x \in 0 .. PointersPerBlock - 1

IndicesFit(p) ==
    p.pointer # "direct" => \A l \in DOMAIN p.indices : InBlock(p.indices[l])

LEMMA SpanTypes ==
    /\ PointersPerBlock \in Nat \ {0} /\ Direct \in Nat /\ Single \in Nat \ {0} /\ Double \in Nat \ {0}
    /\ Triple \in Nat \ {0} /\ Triple * Single \in Nat \ {0}
    /\ MaxBlocks = Direct + Single + Double + Triple + Triple * Single /\ MaxBlocks \in Nat
  <1>1. ASSUME NEW a \in Nat \ {0}, NEW b \in Nat \ {0} PROVE a * b \in Nat \ {0}
    BY Z3
  <1>2. PointersPerBlock \in Nat \ {0} /\ Direct \in Nat
    BY FileTreeAssumption
  <1>3. Single \in Nat \ {0} /\ Double \in Nat \ {0}
    BY <1>1, <1>2 DEF Single, Double
  <1>4. Triple \in Nat \ {0}
    BY <1>1, <1>3 DEF Triple
  <1>5. Triple * Single \in Nat \ {0}
    BY <1>1, <1>3, <1>4
  <1> QED
    BY <1>2, <1>3, <1>4, <1>5 DEF MaxBlocks

\* A quotient stays below the number of parts.
LEMMA QuotientBound ==
    ASSUME NEW a \in Nat \ {0}, NEW b \in Nat, NEW v \in Nat, v < b * a
    PROVE  v \div a \in 0 .. b - 1
  <1> DEFINE q == v \div a
  <1>1. q \in Nat /\ q * a <= v
    BY DivBounds
  <1> HIDE DEF q
  <1>2. ~(b <= q)
    <2>1. b <= q => b * a <= q * a
      BY <1>1, Times
    <2>2. b * a \in Int /\ q * a \in Int
      BY <1>1
    <2> QED
      BY <1>1, <2>1, <2>2
  <1> QED
    BY <1>1, <1>2 DEF q

\* The indices of a block below two, three and four levels.
LEMMA TwoIndices ==
    ASSUME NEW j \in Nat, j < Double
    PROVE  /\ InBlock(j \div Single) /\ InBlock(j % Single)
           /\ j = (j \div Single) * Single + (j % Single)
  <1>1. Single \in Nat \ {0} /\ Double = Single * Single /\ Single = PointersPerBlock
    BY SpanTypes DEF Double, Single
  <1>2. j \div Single \in 0 .. Single - 1
    BY <1>1, QuotientBound
  <1>3. j = (j \div Single) * Single + (j % Single) /\ j % Single \in 0 .. Single - 1
    BY <1>1, DivMod
  <1> QED
    BY <1>1, <1>2, <1>3 DEF InBlock

LEMMA ThreeIndices ==
    ASSUME NEW k \in Nat, k < Triple
    PROVE  /\ InBlock(k \div Double) /\ InBlock((k \div Single) % Single) /\ InBlock(k % Single)
           /\ k = ((k \div Double) * Single + ((k \div Single) % Single)) * Single + (k % Single)
  <1>1. /\ Single \in Nat \ {0} /\ Double \in Nat \ {0} /\ Single = PointersPerBlock
        /\ Double = Single * Single /\ Triple = Double * Single
    BY SpanTypes DEF Double, Single, Triple
  <1> DEFINE j == k \div Single
  <1>2. k = j * Single + (k % Single) /\ k % Single \in 0 .. Single - 1 /\ j \in Nat
    BY <1>1, DivMod
  <1>3. j < Double
    BY <1>1, QuotientBound
  <1>4. k \div Double = j \div Single
    BY <1>1, DivDiv
  <1> HIDE DEF j
  <1>5. /\ InBlock(j \div Single) /\ InBlock(j % Single)
        /\ j = (j \div Single) * Single + (j % Single)
    BY <1>2, <1>3, TwoIndices
  <1>6. InBlock(k % Single)
    BY <1>1, <1>2 DEF InBlock
  <1>7. k = ((k \div Double) * Single + (j % Single)) * Single + (k % Single)
    BY <1>2, <1>4, <1>5
  <1> QED
    BY <1>4, <1>5, <1>6, <1>7 DEF j

LEMMA FourIndices ==
    ASSUME NEW l \in Nat, l < Triple * Single
    PROVE  /\ InBlock(l \div Triple) /\ InBlock((l \div Double) % Single)
           /\ InBlock((l \div Single) % Single) /\ InBlock(l % Single)
           /\ l = (((l \div Triple) * Single + ((l \div Double) % Single)) * Single
                       + ((l \div Single) % Single)) * Single + (l % Single)
  <1>1. /\ Single \in Nat \ {0} /\ Double \in Nat \ {0} /\ Triple \in Nat \ {0} /\ Single = PointersPerBlock
        /\ Double = Single * Single /\ Triple = Double * Single /\ Triple = Single * Double
    BY SpanTypes DEF Double, Single, Triple
  <1> DEFINE k == l \div Single
  <1>2. l = k * Single + (l % Single) /\ l % Single \in 0 .. Single - 1 /\ k \in Nat
    BY <1>1, DivMod
  <1>3. k < Triple
    BY <1>1, QuotientBound
  <1>4. l \div Double = k \div Single
    BY <1>1, DivDiv
  <1>5. l \div Triple = k \div Double
    BY <1>1, DivDiv
  <1> HIDE DEF k
  <1>6. /\ InBlock(k \div Double) /\ InBlock((k \div Single) % Single) /\ InBlock(k % Single)
        /\ k = ((k \div Double) * Single + ((k \div Single) % Single)) * Single + (k % Single)
    BY <1>2, <1>3, ThreeIndices
  <1>7. InBlock(l % Single)
    BY <1>1, <1>2 DEF InBlock
  <1>8. l = (((l \div Triple) * Single + ((l \div Double) % Single)) * Single
                 + (k % Single)) * Single + (l % Single)
    BY <1>2, <1>4, <1>5, <1>6
  <1> QED
    BY <1>4, <1>5, <1>6, <1>7, <1>8 DEF k

\* A block's path leads back to it, its indices fit, and only a block beyond the
\* largest file has none.
LEMMA PathIsOwn ==
    ASSUME NEW n \in Nat
    PROVE  /\ n < MaxBlocks => /\ LocateBlock(n) # OutOfRange
                               /\ Origin(LocateBlock(n)) = n
                               /\ IndicesFit(LocateBlock(n))
           /\ ~(n < MaxBlocks) => LocateBlock(n) = OutOfRange
  <1> DEFINE i == n - Direct  j == i - Single  k == j - Double  l == k - Triple
  <1> USE SpanTypes
  <1>1. CASE n < Direct
    <2>1. LocateBlock(n) = Path("direct", <<n>>)
      BY <1>1 DEF LocateBlock
    <2>2. n < MaxBlocks
      BY <1>1
    <2> QED
      BY <2>1, <2>2 DEF Path, OutOfRange, Origin, IndicesFit
  <1>2. CASE ~(n < Direct) /\ i < Single
    <2>1. LocateBlock(n) = Path("indirect", <<i>>)
      BY <1>2 DEF LocateBlock
    <2>2. n < MaxBlocks /\ i \in Nat /\ n = Direct + i /\ InBlock(i)
      BY <1>2 DEF InBlock, Single
    <2> HIDE DEF i
    <2> QED
      BY <2>1, <2>2 DEF Path, OutOfRange, Origin, IndicesFit
  <1>3. CASE ~(n < Direct) /\ ~(i < Single) /\ j < Double
    <2>1. LocateBlock(n) = Path("double", <<j \div Single, j % Single>>)
      BY <1>3 DEF LocateBlock
    <2>2. n < MaxBlocks /\ j \in Nat /\ n = Direct + Single + j
      BY <1>3
    <2>3. j < Double
      BY <1>3
    <2> HIDE DEF i, j
    <2> DEFINE a == j \div Single  b == j % Single
    <2>4. InBlock(a) /\ InBlock(b) /\ j = a * Single + b
      BY <2>2, <2>3, TwoIndices
    <2> HIDE DEF a, b
    <2>5. LocateBlock(n) = [pointer |-> "double", indices |-> <<a, b>>]
      BY <2>1 DEF a, b, Path
    <2>6. Origin(LocateBlock(n)) = Direct + Single + (a * Single + b)
      BY <2>5 DEF Origin
    <2>7. Origin(LocateBlock(n)) = n
      BY <2>2, <2>4, <2>6
    <2>8. LocateBlock(n) # OutOfRange /\ IndicesFit(LocateBlock(n))
      BY <2>4, <2>5 DEF Path, OutOfRange, IndicesFit
    <2> QED
      BY <2>2, <2>7, <2>8
  <1>4. CASE ~(n < Direct) /\ ~(i < Single) /\ ~(j < Double) /\ k < Triple
    <2>1. LocateBlock(n)
          = Path("triple", <<k \div Double, (k \div Single) % Single, k % Single>>)
      BY <1>4 DEF LocateBlock
    <2>2. n < MaxBlocks /\ k \in Nat /\ n = Direct + Single + Double + k
      BY <1>4
    <2>3. k < Triple
      BY <1>4
    <2> HIDE DEF i, j, k
    <2> DEFINE a == k \div Double  b == (k \div Single) % Single  c == k % Single
    <2>4. InBlock(a) /\ InBlock(b) /\ InBlock(c) /\ k = (a * Single + b) * Single + c
      BY <2>2, <2>3, ThreeIndices
    <2> HIDE DEF a, b, c
    <2>5. LocateBlock(n) = [pointer |-> "triple", indices |-> <<a, b, c>>]
      BY <2>1 DEF a, b, c, Path
    <2>6. Origin(LocateBlock(n)) = Direct + Single + Double + ((a * Single + b) * Single + c)
      BY <2>5 DEF Origin
    <2>7. Origin(LocateBlock(n)) = n
      BY <2>2, <2>4, <2>6
    <2>8. LocateBlock(n) # OutOfRange /\ IndicesFit(LocateBlock(n))
      BY <2>4, <2>5 DEF Path, OutOfRange, IndicesFit
    <2> QED
      BY <2>2, <2>7, <2>8
  <1>5. CASE /\ ~(n < Direct) /\ ~(i < Single) /\ ~(j < Double) /\ ~(k < Triple)
             /\ l < Triple * Single
    <2>1. LocateBlock(n)
          = Path("quad", <<l \div Triple, (l \div Double) % Single,
                           (l \div Single) % Single, l % Single>>)
      BY <1>5 DEF LocateBlock
    <2>2. n < MaxBlocks /\ l \in Nat /\ n = Direct + Single + Double + Triple + l
      BY <1>5
    <2>3. l < Triple * Single
      BY <1>5
    <2> HIDE DEF i, j, k, l
    <2> DEFINE a == l \div Triple  b == (l \div Double) % Single
               c == (l \div Single) % Single  d == l % Single
    <2>4. /\ InBlock(a) /\ InBlock(b) /\ InBlock(c) /\ InBlock(d)
          /\ l = ((a * Single + b) * Single + c) * Single + d
      BY <2>2, <2>3, FourIndices
    <2> HIDE DEF a, b, c, d
    <2>5. LocateBlock(n) = [pointer |-> "quad", indices |-> <<a, b, c, d>>]
      BY <2>1 DEF a, b, c, d, Path
    <2>6. Origin(LocateBlock(n))
          = Direct + Single + Double + Triple + (((a * Single + b) * Single + c) * Single + d)
      BY <2>5 DEF Origin
    <2>7. Origin(LocateBlock(n)) = n
      BY <2>2, <2>4, <2>6
    <2>8. LocateBlock(n) # OutOfRange /\ IndicesFit(LocateBlock(n))
      BY <2>4, <2>5 DEF Path, OutOfRange, IndicesFit
    <2> QED
      BY <2>2, <2>7, <2>8
  <1>6. CASE /\ ~(n < Direct) /\ ~(i < Single) /\ ~(j < Double) /\ ~(k < Triple)
             /\ ~(l < Triple * Single)
    <2>1. LocateBlock(n) = OutOfRange
      BY <1>6 DEF LocateBlock
    <2>2. ~(n < MaxBlocks)
      BY <1>6
    <2> QED
      BY <2>1, <2>2
  <1> QED
    BY <1>1, <1>2, <1>3, <1>4, <1>5, <1>6

FileInv ==
    /\ size \in 0 .. MaxBlocks
    /\ DOMAIN tree = {LocateBlock(i) : i \in 0 .. size - 1}
    /\ \A i \in 0 .. size - 1 : tree[LocateBlock(i)] = i

LEMMA FileInitInv == FileInit => FileInv
  <1> SUFFICES ASSUME FileInit PROVE FileInv
    OBVIOUS
  <1>1. 0 .. size - 1 = {} /\ size \in 0 .. MaxBlocks
    BY SpanTypes DEF FileInit
  <1> QED
    BY <1>1 DEF FileInit, FileInv

LEMMA FileStepInv == FileInv /\ [Grow]_ftVars => FileInv'
  <1> SUFFICES ASSUME FileInv, [Grow]_ftVars PROVE FileInv'
    OBVIOUS
  <1>1. CASE UNCHANGED ftVars
    BY <1>1 DEF FileInv, ftVars
  <1>2. CASE Grow
    <2> DEFINE q == LocateBlock(size)
    <2>1. size \in Nat /\ size < MaxBlocks /\ Origin(q) = size
      BY <1>2, SpanTypes, PathIsOwn DEF FileInv, Grow
    <2>2. /\ size' = size + 1 /\ size' \in 0 .. MaxBlocks
          /\ 0 .. size' - 1 = (0 .. size - 1) \cup {size}
      BY <1>2, <2>1, SpanTypes DEF Grow
    <2>3. ASSUME NEW i \in 0 .. size - 1 PROVE LocateBlock(i) # q
      <3>1. i \in Nat /\ i < MaxBlocks /\ i # size
        BY <2>1, SpanTypes
      <3>2. Origin(LocateBlock(i)) = i
        BY <3>1, PathIsOwn
      <3> QED
        BY <2>1, <3>1, <3>2
    <2>4. tree' = [p \in DOMAIN tree \cup {q} |-> IF p = q THEN size ELSE tree[p]]
      BY <1>2 DEF Grow
    <2>5. DOMAIN tree' = {LocateBlock(i) : i \in 0 .. size' - 1}
      BY <2>2, <2>4 DEF FileInv
    <2>6. ASSUME NEW i \in 0 .. size' - 1 PROVE tree'[LocateBlock(i)] = i
      <3>1. CASE i = size
        BY <2>4, <3>1
      <3>2. CASE i \in 0 .. size - 1
        <4>1. LocateBlock(i) \in DOMAIN tree /\ tree[LocateBlock(i)] = i
          BY <3>2 DEF FileInv
        <4> QED
          BY <2>3, <2>4, <3>2, <4>1
      <3> QED
        BY <2>2, <3>1, <3>2
    <2> HIDE DEF q
    <2>7. \A i : LocateBlock(i)' = LocateBlock(i)
      BY DEF LocateBlock, Path, OutOfRange, Single, Double, Triple
    <2> QED
      BY <2>2, <2>5, <2>6, <2>7 DEF FileInv, MaxBlocks, Single, Double, Triple
  <1> QED
    BY <1>1, <1>2

\* However far a file grows, every block is still where it was put, no index
\* leaves its indirect block, and the tree is full exactly at max_file_size
\* (layout.rs:246-330).
THEOREM FileTreeReadsBack == FileSpec => []FileReadsBack
  <1>1. FileInv => FileReadsBack
    <2> SUFFICES ASSUME FileInv PROVE FileReadsBack
      OBVIOUS
    <2>1. \A i \in 0 .. size - 1 : tree[LocateBlock(i)] = i
      BY DEF FileInv
    <2>2. ASSUME NEW p \in DOMAIN tree PROVE IndicesFit(p)
      <3>1. PICK i \in 0 .. size - 1 : p = LocateBlock(i)
        BY DEF FileInv
      <3>2. i \in Nat /\ i < MaxBlocks
        BY SpanTypes DEF FileInv
      <3> QED
        BY <3>1, <3>2, PathIsOwn
    <2>3. LocateBlock(size) = OutOfRange <=> size = MaxBlocks
      <3>1. size \in Nat /\ (size = MaxBlocks <=> ~(size < MaxBlocks))
        BY SpanTypes DEF FileInv
      <3> QED
        BY <3>1, PathIsOwn
    <2> QED
      BY <2>1, <2>2, <2>3 DEF FileReadsBack, IndicesFit, InBlock
  <1> QED
    BY <1>1, FileInitInv, FileStepInv, PTL DEF FileSpec
=============================================================================
