------------------------------ MODULE Induction ------------------------------
(***************************************************************************)
(* Least numbers and induction over the natural numbers, with sets instead *)
(* of predicates, so that a use needs no operator as a parameter: the set  *)
(* of the numbers that have the property is given where a proof by         *)
(* induction would give the property.                                      *)
(***************************************************************************)
EXTENDS Integers, WellFoundedInduction, FiniteSetTheorems, Functions, TLAPS

LEMMA LeastNatural ==
    ASSUME NEW T, T \subseteq Nat, T # {}
    PROVE  \E x \in T : \A y \in T : x <= y
  <1> DEFINE R == {ss \in Nat \X Nat : ss[1] < ss[2]}
  <1>1. IsWellFoundedOn(R, Nat)
    BY NatLessThanWellFounded DEF OpToRel
  <1>2. \E x \in T : \A y \in T : ~ (<<y, x>> \in R)
    <2> HIDE DEF R
    <2> QED
      BY <1>1, WFMin
  <1>3. PICK x \in T : \A y \in T : ~ (<<y, x>> \in R)
    BY <1>2
  <1>4. ASSUME NEW y \in T PROVE x <= y
    <2>1. x \in Nat /\ y \in Nat
      OBVIOUS
    <2>2. ~ (<<y, x>> \in R)
      BY <1>3
    <2>3. ~ (y < x)
      BY <2>1, <2>2
    <2> QED
      BY <2>1, <2>3
  <1> QED
    BY <1>4

LEMMA SetInduction ==
    ASSUME NEW S, 0 \in S, \A n \in Nat : n \in S => n + 1 \in S
    PROVE  Nat \subseteq S
  <1> SUFFICES ASSUME Nat \ S # {} PROVE FALSE
    OBVIOUS
  <1>1. PICK x \in Nat \ S : \A y \in Nat \ S : x <= y
    BY LeastNatural
  <1>2. x # 0 /\ x - 1 \in Nat
    BY <1>1
  <1>3. x - 1 \in S
    BY <1>1, <1>2
  <1> QED
    BY <1>1, <1>2, <1>3

\* f begins with a, and each value comes from the one before it by a step.
Unfolds(f, n, a, step) == f[0] = a /\ \A i \in 1 .. n : f[i] = step[<<i, f[i - 1]>>]

\* There is a function that a first value and a step define.
LEMMA PrimitiveRecursion ==
    ASSUME NEW n \in Nat, NEW S, NEW a \in S, NEW step \in [(1 .. n) \X S -> S]
    PROVE  \E f \in [0 .. n -> S] : Unfolds(f, n, a, step)
  <1> DEFINE Defined(f, k) == Unfolds(f, k, a, step)
             T == {k \in Nat : k <= n => \E f \in [0 .. k -> S] : Defined(f, k)}
  <1>1. 0 \in T
    <2> DEFINE f == [i \in 0 .. 0 |-> a]
    <2>1. f \in [0 .. 0 -> S] /\ Defined(f, 0)
      BY DEF Unfolds
    <2> QED
      BY <2>1
  <1>2. ASSUME NEW k \in Nat, k \in T PROVE k + 1 \in T
    <2> SUFFICES ASSUME k + 1 <= n PROVE \E f \in [0 .. k + 1 -> S] : Defined(f, k + 1)
      OBVIOUS
    <2>1. PICK f \in [0 .. k -> S] : Defined(f, k)
      BY <1>2
    <2> DEFINE e == step[<<k + 1, f[k]>>]
               g == [i \in 0 .. k + 1 |-> IF i = k + 1 THEN e ELSE f[i]]
    <2>2. e \in S
      OBVIOUS
    <2>3. g \in [0 .. k + 1 -> S] /\ g[k + 1] = e /\ \A i \in 0 .. k : g[i] = f[i]
      BY <2>2
    <2> HIDE DEF g
    <2>4. Defined(g, k + 1)
      BY <2>1, <2>3 DEF Unfolds
    <2> QED
      BY <2>3, <2>4
  <1>3. n \in T
    <2> HIDE DEF T
    <2>1. Nat \subseteq T
      BY <1>1, <1>2, SetInduction
    <2> QED
      BY <2>1
  <1> QED
    BY <1>3

\* A set of positions that holds every earlier one of each is a prefix.
LEMMA PrefixIsInterval ==
    ASSUME NEW n \in Nat, NEW S \in SUBSET (1 .. n),
           \A i \in S : \A j \in 1 .. n : j <= i => j \in S
    PROVE  Cardinality(S) \in 0 .. n /\ S = 1 .. Cardinality(S)
  <1>1. CASE S = 1 .. n
    <2>1. Cardinality(1 .. n) = n
      BY FS_Interval
    <2> QED
      BY <1>1, <2>1
  <1>2. CASE S # 1 .. n
    <2>1. (1 .. n) \ S # {} /\ (1 .. n) \ S \subseteq Nat
      <3>1. S \subseteq 1 .. n
        OBVIOUS
      <3>2. \A i \in 1 .. n : i \in Nat
        OBVIOUS
      <3> QED
        BY <1>2, <3>1, <3>2, Zenon
    <2>2. PICK x \in (1 .. n) \ S : \A y \in (1 .. n) \ S : x <= y
      BY <2>1, LeastNatural
    <2>3. x \in 1 .. n /\ x \notin S
      BY <2>2
    <2>4. S = 1 .. x - 1
      <3>1. ASSUME NEW i \in S PROVE i \in 1 .. x - 1
        BY <2>3
      <3>2. ASSUME NEW i \in 1 .. x - 1 PROVE i \in S
        BY <2>2, <2>3
      <3> QED
        BY <3>1, <3>2
    <2>5. Cardinality(1 .. x - 1) = x - 1
      BY <2>3, FS_Interval
    <2> QED
      BY <2>3, <2>4, <2>5
  <1> QED
    BY <1>1, <1>2

\* A search that goes on from c at next[c], and stops in the set `done`.
Searches(f, m, n, done, next) ==
    f = [c \in m .. n |-> IF c \in done THEN c ELSE f[next[c]]]

\* There is such a function, if the search only goes up and stops at the end.
LEMMA SearchRecursion ==
    ASSUME NEW m \in Nat, NEW n \in Nat, NEW done, NEW next,
           \A c \in m .. n : c \in done \/ next[c] \in c + 1 .. n
    PROVE  \E f : Searches(f, m, n, done, next)
  <1> DEFINE Right(f, c) == f[c] = IF c \in done THEN c ELSE f[next[c]]
             T == {k \in Nat : \E f : DOMAIN f = m .. n /\ f = [c \in m .. n |-> f[c]]
                                      /\ \A c \in m .. n : c > n - k => Right(f, c)}
  <1>1. 0 \in T
    <2> DEFINE f == [c \in m .. n |-> c]
    <2>1. DOMAIN f = m .. n /\ f = [c \in m .. n |-> f[c]]
      OBVIOUS
    <2>2. \A c \in m .. n : ~(c > n - 0)
      OBVIOUS
    <2> QED
      BY <2>1, <2>2
  <1>2. ASSUME NEW k \in Nat, k \in T PROVE k + 1 \in T
    <2>1. PICK f : /\ DOMAIN f = m .. n /\ f = [c \in m .. n |-> f[c]]
                   /\ \A c \in m .. n : c > n - k => Right(f, c)
      BY <1>2
    <2> DEFINE here == n - k
               g == [c \in m .. n |->
                        IF c = here THEN IF c \in done THEN c ELSE f[next[c]] ELSE f[c]]
    <2>2. DOMAIN g = m .. n /\ g = [c \in m .. n |-> g[c]]
      OBVIOUS
    <2>3. ASSUME NEW c \in m .. n, c > n - (k + 1) PROVE Right(g, c)
      <3>1. c >= here
        BY <2>3
      <3>2. c \in done \/ (next[c] \in m .. n /\ next[c] # here)
        BY <3>1
      <3>3. c \in done \/ g[next[c]] = f[next[c]]
        BY <3>2
      <3>4. CASE c = here
        BY <3>3, <3>4
      <3>5. CASE c # here
        BY <2>1, <3>1, <3>3, <3>5
      <3> QED
        BY <3>4, <3>5
    <2> HIDE DEF g
    <2> QED
      BY <2>2, <2>3
  <1>3. n + 1 \in T
    <2> HIDE DEF T
    <2>1. Nat \subseteq T
      BY <1>1, <1>2, SetInduction
    <2> QED
      BY <2>1
  <1>4. PICK f : /\ DOMAIN f = m .. n /\ f = [c \in m .. n |-> f[c]]
                 /\ \A c \in m .. n : Right(f, c)
    BY <1>3
  <1>5. Searches(f, m, n, done, next)
    BY <1>4 DEF Searches
  <1> QED
    BY <1>5

-----------------------------------------------------------------------------
(* Sums over finite sets *)

Pick(s) == CHOOSE x \in s : TRUE
Adds(sum, f, s) == sum[s] = IF s = {} THEN 0 ELSE f[Pick(s)] + sum[s \ {Pick(s)}]

\* The recursion by which SumFunctionOnSet is defined.
Sums(sum, f, S) ==
    sum = [s \in SUBSET S |-> IF s = {} THEN 0 ELSE f[Pick(s)] + sum[s \ {Pick(s)}]]

LEMMA SumIsRecursive ==
    ASSUME NEW f, NEW S
    PROVE  SumFunctionOnSet(f, S) = (CHOOSE sum : Sums(sum, f, S))[S]
  BY DEF SumFunctionOnSet, FoldFunctionOnSet, MapThenFoldSet, Sums, Pick

LEMMA PickIsMember == \A s : s # {} => Pick(s) \in s
  BY DEF Pick

LEMMA SmallerWithoutPick ==
    ASSUME NEW s, IsFiniteSet(s), s # {}
    PROVE  /\ IsFiniteSet(s \ {Pick(s)})
           /\ Cardinality(s) \in Nat \ {0}
           /\ Cardinality(s \ {Pick(s)}) = Cardinality(s) - 1
  BY PickIsMember, FS_RemoveElement, FS_EmptySet, FS_CardinalityType

LEMMA SumExists ==
    ASSUME NEW f, NEW S, IsFiniteSet(S) PROVE \E sum : Sums(sum, f, S)
  <1> DEFINE T == {k \in Nat : \E sum : \A s \in SUBSET S : Cardinality(s) <= k => Adds(sum, f, s)}
  <1>1. \A s \in SUBSET S : IsFiniteSet(s) /\ Cardinality(s) \in Nat
    BY FS_Subset, FS_CardinalityType
  <1>2. 0 \in T
    <2> DEFINE sum == [s \in SUBSET S |-> 0]
    <2>1. ASSUME NEW s \in SUBSET S, Cardinality(s) <= 0 PROVE Adds(sum, f, s)
      <3>1. s = {}
        BY <1>1, <2>1, FS_EmptySet
      <3> QED
        BY <3>1 DEF Adds
    <2> QED
      BY <2>1
  <1>3. ASSUME NEW k \in Nat, k \in T PROVE k + 1 \in T
    <2>1. PICK old : \A s \in SUBSET S : Cardinality(s) <= k => Adds(old, f, s)
      BY <1>3
    <2> DEFINE sum == [s \in SUBSET S |-> IF Cardinality(s) = k + 1
                                          THEN f[Pick(s)] + old[s \ {Pick(s)}] ELSE old[s]]
    <2>2. ASSUME NEW s \in SUBSET S, Cardinality(s) <= k + 1 PROVE Adds(sum, f, s)
      <3>1. CASE s = {}
        <4>1. Cardinality(s) = 0
          BY <3>1, FS_EmptySet
        <4> QED
          BY <2>1, <3>1, <4>1 DEF Adds
      <3>2. CASE s # {}
        <4> DEFINE r == s \ {Pick(s)}
        <4>1. r \in SUBSET S /\ Cardinality(r) = Cardinality(s) - 1 /\ Cardinality(s) \in Nat
          BY <1>1, <3>2, SmallerWithoutPick
        <4>2. sum[r] = old[r]
          BY <2>2, <4>1
        <4>3. CASE Cardinality(s) = k + 1
          <5>1. sum[s] = f[Pick(s)] + old[r]
            BY <4>3
          <5> QED
            BY <3>2, <4>2, <5>1 DEF Adds
        <4>4. CASE Cardinality(s) # k + 1
          <5>1. sum[s] = old[s] /\ Cardinality(s) <= k
            BY <2>2, <4>1, <4>4
          <5>2. old[s] = f[Pick(s)] + old[r]
            BY <2>1, <3>2, <5>1 DEF Adds
          <5> QED
            BY <3>2, <4>2, <5>1, <5>2 DEF Adds
        <4> QED
          BY <4>3, <4>4
      <3> QED
        BY <3>1, <3>2
    <2> HIDE DEF sum
    <2>3. \E g : \A s \in SUBSET S : Cardinality(s) <= k + 1 => Adds(g, f, s)
      BY <2>2
    <2> QED
      BY <2>3
  <1>4. Cardinality(S) \in T
    <2> HIDE DEF T
    <2>1. Nat \subseteq T
      BY <1>2, <1>3, SetInduction
    <2> QED
      BY <1>1, <2>1
  <1>5. PICK old : \A s \in SUBSET S : Cardinality(s) <= Cardinality(S) => Adds(old, f, s)
    BY <1>4
  <1>6. \A s \in SUBSET S : Adds(old, f, s)
    BY <1>5, FS_Subset
  <1> DEFINE sum == [s \in SUBSET S |-> old[s]]
  <1>7. ASSUME NEW s \in SUBSET S
        PROVE  sum[s] = IF s = {} THEN 0 ELSE f[Pick(s)] + sum[s \ {Pick(s)}]
    BY <1>6 DEF Adds
  <1>8. Sums(sum, f, S)
    BY <1>7 DEF Sums
  <1> QED
    BY <1>8

\* The sum over a part does not depend on the whole.
LEMMA SumOfPart ==
    ASSUME NEW f, NEW S, IsFiniteSet(S), NEW R \in SUBSET S,
           NEW a, Sums(a, f, S), NEW b, Sums(b, f, R)
    PROVE  a[R] = b[R]
  <1> DEFINE T == {k \in Nat : \A s \in SUBSET R : Cardinality(s) = k => a[s] = b[s]}
  <1>1. \A s \in SUBSET R : /\ a[s] = IF s = {} THEN 0 ELSE f[Pick(s)] + a[s \ {Pick(s)}]
                            /\ b[s] = IF s = {} THEN 0 ELSE f[Pick(s)] + b[s \ {Pick(s)}]
    BY DEF Sums
  <1>2. \A s \in SUBSET R : IsFiniteSet(s) /\ Cardinality(s) \in Nat
    BY FS_Subset, FS_CardinalityType
  <1>3. 0 \in T
    BY <1>1, <1>2, FS_EmptySet
  <1>4. ASSUME NEW k \in Nat, k \in T PROVE k + 1 \in T
    <2>1. ASSUME NEW s \in SUBSET R, Cardinality(s) = k + 1 PROVE a[s] = b[s]
      <3>1. s # {}
        BY <2>1, FS_EmptySet
      <3>2. s \ {Pick(s)} \in SUBSET R /\ Cardinality(s \ {Pick(s)}) = k
        BY <1>2, <2>1, <3>1, SmallerWithoutPick
      <3>3. a[s \ {Pick(s)}] = b[s \ {Pick(s)}]
        BY <1>4, <3>2
      <3> QED
        BY <1>1, <3>1, <3>3
    <2> QED
      BY <2>1
  <1>5. Cardinality(R) \in T
    <2> HIDE DEF T
    <2>1. Nat \subseteq T
      BY <1>3, <1>4, SetInduction
    <2> QED
      BY <1>2, <2>1
  <1> QED
    BY <1>5

LEMMA SumUnfolds ==
    ASSUME NEW f, NEW S, IsFiniteSet(S)
    PROVE  SumFunctionOnSet(f, S) =
               IF S = {} THEN 0 ELSE f[Pick(S)] + SumFunctionOnSet(f, S \ {Pick(S)})
  <1> DEFINE a == CHOOSE sum : Sums(sum, f, S)
             R == S \ {Pick(S)}
             b == CHOOSE sum : Sums(sum, f, R)
  <1>1. IsFiniteSet(R) /\ R \in SUBSET S
    BY FS_Subset
  <1>2. Sums(a, f, S) /\ Sums(b, f, R)
    BY <1>1, SumExists
  <1>3. SumFunctionOnSet(f, S) = a[S] /\ SumFunctionOnSet(f, R) = b[R]
    BY SumIsRecursive
  <1> HIDE DEF a, b
  <1>4. a[R] = b[R]
    BY <1>1, <1>2, SumOfPart
  <1>5. a[S] = IF S = {} THEN 0 ELSE f[Pick(S)] + a[R]
    BY <1>2 DEF Sums
  <1> QED
    BY <1>3, <1>4, <1>5

\* Sums of naturals are naturals.
LEMMA SumType ==
    ASSUME NEW S, IsFiniteSet(S), NEW f, \A x \in S : f[x] \in Nat
    PROVE  SumFunctionOnSet(f, S) \in Nat
  <1> DEFINE T == {k \in Nat : \A s \in SUBSET S : Cardinality(s) = k => SumFunctionOnSet(f, s) \in Nat}
  <1>1. \A s \in SUBSET S : IsFiniteSet(s) /\ Cardinality(s) \in Nat
    BY FS_Subset, FS_CardinalityType
  <1>2. \A s \in SUBSET S : SumFunctionOnSet(f, s) =
            IF s = {} THEN 0 ELSE f[Pick(s)] + SumFunctionOnSet(f, s \ {Pick(s)})
    BY <1>1, SumUnfolds
  <1>3. 0 \in T
    BY <1>1, <1>2, FS_EmptySet
  <1>4. ASSUME NEW k \in Nat, k \in T PROVE k + 1 \in T
    <2>1. ASSUME NEW s \in SUBSET S, Cardinality(s) = k + 1 PROVE SumFunctionOnSet(f, s) \in Nat
      <3>1. s # {}
        BY <2>1, FS_EmptySet
      <3>2. s \ {Pick(s)} \in SUBSET S /\ Cardinality(s \ {Pick(s)}) = k /\ Pick(s) \in S
        BY <1>1, <2>1, <3>1, SmallerWithoutPick, PickIsMember
      <3>3. SumFunctionOnSet(f, s \ {Pick(s)}) \in Nat
        BY <1>4, <3>2
      <3> QED
        BY <1>2, <3>1, <3>2, <3>3
    <2> QED
      BY <2>1
  <1>5. Cardinality(S) \in T
    <2> HIDE DEF T
    <2>1. Nat \subseteq T
      BY <1>3, <1>4, SetInduction
    <2> QED
      BY <1>1, <2>1
  <1> QED
    BY <1>5

\* Any element may be taken out first.
LEMMA SumWithout ==
    ASSUME NEW S, IsFiniteSet(S), NEW f, \A x \in S : f[x] \in Nat, NEW e \in S
    PROVE  SumFunctionOnSet(f, S) = f[e] + SumFunctionOnSet(f, S \ {e})
  <1> DEFINE Total(s) == SumFunctionOnSet(f, s)
             T == {k \in Nat : \A s \in SUBSET S : Cardinality(s) = k =>
                                   \A x \in s : Total(s) = f[x] + Total(s \ {x})}
  <1>1. \A s \in SUBSET S : IsFiniteSet(s) /\ Cardinality(s) \in Nat
    BY FS_Subset, FS_CardinalityType
  <1>2. \A s \in SUBSET S : Total(s) \in Nat /\ (s # {} => Total(s) = f[Pick(s)] + Total(s \ {Pick(s)}))
    BY <1>1, SumUnfolds, SumType
  <1>3. 0 \in T
    BY <1>1, FS_EmptySet
  <1>4. ASSUME NEW k \in Nat, k \in T PROVE k + 1 \in T
    <2>1. ASSUME NEW s \in SUBSET S, Cardinality(s) = k + 1, NEW x \in s
          PROVE  Total(s) = f[x] + Total(s \ {x})
      <3> DEFINE c == Pick(s)
      <3>1. c \in s /\ s # {} /\ Total(s) = f[c] + Total(s \ {c})
        BY <1>2, PickIsMember
      <3>2. CASE x = c
        BY <3>1, <3>2
      <3>3. CASE x # c
        <4>1. Cardinality(s \ {x}) = k /\ Cardinality(s \ {c}) = k
          BY <1>1, <2>1, <3>1, FS_RemoveElement
        <4>2. Total(s \ {c}) = f[x] + Total((s \ {c}) \ {x})
          BY <1>4, <3>3, <4>1
        <4>3. Total(s \ {x}) = f[c] + Total((s \ {x}) \ {c})
          BY <1>4, <3>1, <3>3, <4>1
        <4>4. (s \ {c}) \ {x} = (s \ {x}) \ {c}
          OBVIOUS
        <4>5. Total((s \ {x}) \ {c}) \in Nat /\ f[x] \in Nat /\ f[c] \in Nat
          BY <1>2, <3>1
        <4>6. \A m, n, r \in Nat : m + (n + r) = n + (m + r)
          OBVIOUS
        <4>7. Total(s) = f[c] + (f[x] + Total((s \ {x}) \ {c}))
          BY <3>1, <4>2, <4>4
        <4> HIDE DEF Total, c
        <4> QED
          BY <4>3, <4>5, <4>6, <4>7
      <3> QED
        BY <3>2, <3>3
    <2> QED
      BY <2>1
  <1>5. Cardinality(S) \in T
    <2> HIDE DEF T
    <2>1. Nat \subseteq T
      BY <1>3, <1>4, SetInduction
    <2> QED
      BY <1>1, <2>1
  <1> QED
    BY <1>5

\* The sum depends on the summands only.
LEMMA SumAgrees ==
    ASSUME NEW S, IsFiniteSet(S), NEW f, NEW g, \A x \in S : f[x] = g[x]
    PROVE  SumFunctionOnSet(f, S) = SumFunctionOnSet(g, S)
  <1>1. PICK sum : Sums(sum, f, S)
    BY SumExists
  <1>2. \A s \in SUBSET S : s # {} => f[Pick(s)] = g[Pick(s)]
    BY PickIsMember
  <1>3. \A a : Sums(a, f, S) <=> Sums(a, g, S)
    <2> SUFFICES ASSUME NEW a
                 PROVE  [s \in SUBSET S |-> IF s = {} THEN 0 ELSE f[Pick(s)] + a[s \ {Pick(s)}]]
                      = [s \in SUBSET S |-> IF s = {} THEN 0 ELSE g[Pick(s)] + a[s \ {Pick(s)}]]
      BY DEF Sums
    <2> QED
      BY <1>2
  <1>4. (CHOOSE a : Sums(a, f, S)) = (CHOOSE a : Sums(a, g, S))
    BY <1>3
  <1> QED
    BY <1>4, SumIsRecursive

\* The sum over two disjoint sets.
LEMMA SumOfUnion ==
    ASSUME NEW S, IsFiniteSet(S), NEW f, \A x \in S : f[x] \in Nat,
           NEW A \in SUBSET S, NEW B \in SUBSET S, A \cap B = {}
    PROVE  SumFunctionOnSet(f, A \cup B) = SumFunctionOnSet(f, A) + SumFunctionOnSet(f, B)
  <1> DEFINE Splits(s) == SumFunctionOnSet(f, A \cup s) = SumFunctionOnSet(f, A) + SumFunctionOnSet(f, s)
             T == {k \in Nat : \A s \in SUBSET B : Cardinality(s) = k => Splits(s)}
  <1>1. \A s \in SUBSET S : IsFiniteSet(s) /\ Cardinality(s) \in Nat /\ SumFunctionOnSet(f, s) \in Nat
    BY FS_Subset, FS_CardinalityType, SumType
  <1>2. 0 \in T
    <2>1. ASSUME NEW s \in SUBSET B, Cardinality(s) = 0 PROVE Splits(s)
      <3>1. s = {}
        BY <1>1, <2>1, FS_EmptySet
      <3>2. SumFunctionOnSet(f, {}) = 0
        BY FS_EmptySet, SumUnfolds
      <3>3. A \cup {} = A /\ SumFunctionOnSet(f, A) \in Nat
        BY <1>1
      <3> QED
        BY <3>1, <3>2, <3>3
    <2> QED
      BY <2>1
  <1>3. ASSUME NEW k \in Nat, k \in T PROVE k + 1 \in T
    <2>1. ASSUME NEW s \in SUBSET B, Cardinality(s) = k + 1 PROVE Splits(s)
      <3>1. IsFiniteSet(s) /\ s # {}
        BY <1>1, <2>1, FS_EmptySet
      <3>2. PICK e : e \in s
        BY <3>1
      <3> DEFINE t == s \ {e}
      <3>3. t \in SUBSET B /\ Cardinality(t) = k
        <4>1. Cardinality(t) = Cardinality(s) - 1
          BY <3>1, <3>2, FS_RemoveElement
        <4> QED
          BY <2>1, <4>1
      <3>4. Splits(t)
        BY <1>3, <3>3
      <3>5. SumFunctionOnSet(f, s) = f[e] + SumFunctionOnSet(f, t)
        BY <3>1, <3>2, SumWithout
      <3>6. (A \cup s) \ {e} = A \cup t /\ e \in A \cup s /\ IsFiniteSet(A \cup s)
        BY <1>1, <3>2
      <3>7. SumFunctionOnSet(f, A \cup s) = f[e] + SumFunctionOnSet(f, A \cup t)
        BY <3>6, SumWithout
      <3>8. /\ f[e] \in Nat /\ SumFunctionOnSet(f, A) \in Nat
            /\ SumFunctionOnSet(f, t) \in Nat
        BY <1>1, <3>2, <3>3
      <3> HIDE DEF t
      <3> QED
        BY <3>4, <3>5, <3>7, <3>8
    <2> QED
      BY <2>1
  <1>4. Cardinality(B) \in T
    <2> HIDE DEF T
    <2>1. Nat \subseteq T
      BY <1>2, <1>3, SetInduction
    <2> QED
      BY <1>1, <2>1
  <1> QED
    BY <1>4

-----------------------------------------------------------------------------
(* Division *)

LEMMA Times == ASSUME NEW P \in Nat, NEW a \in Int, NEW b \in Int, a <= b
               PROVE  a * P <= b * P
  BY Z3

LEMMA DivBounds == ASSUME NEW P \in Nat \ {0}, NEW a \in Nat
                   PROVE  /\ a \div P \in Nat
                          /\ (a \div P) * P <= a /\ a < (a \div P + 1) * P
  BY Z3

\* Division with remainder.
LEMMA DivMod ==
    ASSUME NEW P \in Nat \ {0}, NEW a \in Nat
    PROVE  a = (a \div P) * P + (a % P) /\ a % P \in 0 .. P - 1 /\ a \div P \in Nat
  BY Z3

\* Dividing in two steps.
LEMMA DivDiv ==
    ASSUME NEW v \in Nat, NEW a \in Nat \ {0}, NEW b \in Nat \ {0}
    PROVE  (v \div a) \div b = v \div (a * b)
  <1> DEFINE x == v \div a
             y == x \div b
             c == a * b
             z == v \div c
  <1>1. c \in Nat \ {0}
    BY Z3
  <1>2. x \in Nat /\ x * a <= v /\ v < (x + 1) * a
    BY DivBounds
  <1>3. y \in Nat /\ y * b <= x /\ x < (y + 1) * b
    BY <1>2, DivBounds
  <1>4. z \in Nat /\ z * c <= v /\ v < (z + 1) * c
    BY <1>1, DivBounds
  <1> HIDE DEF x, y, z
  <1>5. y * c <= v
    <2>1. (y * b) * a <= x * a
      <3>1. y * b \in Int
        BY <1>3
      <3> QED
        BY <1>2, <1>3, <3>1, Times
    <2>2. (y * b) * a = y * c
      BY <1>3, Z3
    <2>3. y * c \in Int /\ x * a \in Int
      BY <1>1, <1>2, <1>3
    <2> QED
      BY <1>2, <2>1, <2>2, <2>3
  <1>6. v < (y + 1) * c
    <2>1. x + 1 <= (y + 1) * b
      BY <1>2, <1>3
    <2>2. (x + 1) * a <= ((y + 1) * b) * a
      <3>1. (y + 1) * b \in Int /\ x + 1 \in Int
        BY <1>2, <1>3
      <3> QED
        BY <2>1, <3>1, Times
    <2>3. ((y + 1) * b) * a = (y + 1) * c
      BY <1>3, Z3
    <2>4. (y + 1) * c \in Int /\ (x + 1) * a \in Int
      BY <1>1, <1>2, <1>3
    <2> QED
      BY <1>2, <2>2, <2>3, <2>4
  <1> HIDE DEF c
  <1>7. ~(y + 1 <= z)
    <2>1. y + 1 <= z => (y + 1) * c <= z * c
      BY <1>1, <1>3, <1>4, Times
    <2>2. (y + 1) * c \in Int /\ z * c \in Int
      BY <1>1, <1>3, <1>4
    <2> QED
      BY <1>4, <1>6, <2>1, <2>2
  <1>8. ~(z + 1 <= y)
    <2>1. z + 1 <= y => (z + 1) * c <= y * c
      BY <1>1, <1>3, <1>4, Times
    <2>2. (z + 1) * c \in Int /\ y * c \in Int
      BY <1>1, <1>3, <1>4
    <2> QED
      BY <1>4, <1>5, <2>1, <2>2
  <1>9. y = z
    BY <1>3, <1>4, <1>7, <1>8
  <1> QED
    BY <1>9 DEF x, y, z, c
=============================================================================
