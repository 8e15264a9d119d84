-------------------------------- MODULE Sums --------------------------------
(***************************************************************************)
(* What SumFunction, the sum of a function's values, does for any function *)
(* on a finite set.  The library defines it as a fold that takes one value *)
(* after the other out of the domain, in an order that only CHOOSE knows.  *)
(*                                                                         *)
(* The library's induction theorems quantify over operators.  Here the     *)
(* cases that an induction is about form a set: the naturals and the       *)
(* subsets of a finite set are well founded, so a set of counterexamples   *)
(* would have a least one.                                                 *)
(***************************************************************************)
EXTENDS Integers, Functions, FiniteSets, FiniteSetTheorems, TLAPS

\* A set of naturals has a least member: induction without an operator parameter.
LEMMA Least ==
    ASSUME NEW T \in SUBSET Nat, T # {}
    PROVE  \E n \in T : \A k \in T : n <= k
  <1> DEFINE R == {pair \in Nat \X Nat : pair[1] < pair[2]}
  <1>1. IsWellFoundedOn(R, Nat)
    BY NatLessThanWellFounded DEF OpToRel
  <1>2. \A k, n \in T : k < n => <<k, n>> \in R
    OBVIOUS
  <1> HIDE DEF R
  <1>3. PICK n \in T : \A k \in T : ~(<<k, n>> \in R)
    BY <1>1, WFMin
  <1>4. ASSUME NEW k \in T PROVE n <= k
    <2>1. k \in Nat /\ n \in Nat /\ ~(k < n)
      BY <1>2, <1>3
    <2> QED
      BY <2>1
  <1> QED
    BY <1>4

\* A family of subsets of a finite set has a smallest member.
LEMMA Smallest ==
    ASSUME NEW S, IsFiniteSet(S), NEW T \in SUBSET SUBSET S, T # {}
    PROVE  \E s \in T : \A t \in T : t \subseteq s => t = s
  <1> DEFINE R == StrictSubsetOrdering(S)
  <1>1. IsWellFoundedOn(R, SUBSET S)
    BY FS_StrictSubsetOrderingWellFounded, FS_FiniteSubsetsOfFinite
  <1> HIDE DEF R
  <1>2. PICK s \in T : \A t \in T : ~(<<t, s>> \in R)
    BY <1>1, WFMin
  <1>3. \A t \in T : t \subseteq s /\ t # s => <<t, s>> \in R
    BY DEF R, StrictSubsetOrdering
  <1>4. \A t \in T : t \subseteq s => t = s
    BY <1>2, <1>3
  <1> QED
    BY <1>4

Pick(s) == CHOOSE x \in s : TRUE

LEMMA PickIn == ASSUME NEW s, s # {} PROVE Pick(s) \in s
  BY DEF Pick

\* Induction over the subsets of a finite set.
LEMMA Shrinking ==
    ASSUME NEW S, IsFiniteSet(S), NEW Good, {} \in Good,
           \A s \in SUBSET S : s # {} /\ s \ {Pick(s)} \in Good => s \in Good
    PROVE  S \in Good
  <1> DEFINE Bad == {s \in SUBSET S : s \notin Good}
  <1>1. ASSUME Bad # {} PROVE FALSE
    <2>1. Bad \in SUBSET SUBSET S
      OBVIOUS
    <2> HIDE DEF Bad
    <2>2. PICK s \in Bad : \A t \in Bad : t \subseteq s => t = s
      BY <1>1, <2>1, Smallest
    <2> USE DEF Bad
    <2>3. s # {} /\ s \ {Pick(s)} \notin Good
      OBVIOUS
    <2>4. s \ {Pick(s)} \in Bad
      BY <2>3
    <2> QED
      BY <2>2, <2>3, <2>4, PickIn
  <1> QED
    BY <1>1

\* The partial sums that SumFunction folds over.
IsPartial(g, f, D) ==
    g = [s \in D |-> IF s = {} THEN 0 ELSE f[Pick(s)] + g[s \ {Pick(s)}]]

LEMMA Unfold ==
    ASSUME NEW f
    PROVE  SumFunction(f) = (CHOOSE g : IsPartial(g, f, SUBSET DOMAIN f))[DOMAIN f]
  BY DEF SumFunction, SumFunctionOnSet, FoldFunctionOnSet, MapThenFoldSet, Pick, IsPartial

LEMMA PartialExists ==
    ASSUME NEW f, NEW S, IsFiniteSet(S)
    PROVE  \E g : IsPartial(g, f, SUBSET S)
  <1> DEFINE D(n) == {s \in SUBSET S : Cardinality(s) <= n}
             Bad == {n \in Nat : ~\E g : IsPartial(g, f, D(n))}
  <1>1. \A s \in SUBSET S : IsFiniteSet(s) /\ Cardinality(s) \in Nat /\ Cardinality(s) <= Cardinality(S)
    BY FS_Subset, FS_CardinalityType
  <1>2. \A s \in SUBSET S : s # {} => s \ {Pick(s)} \in SUBSET S /\ Cardinality(s \ {Pick(s)}) = Cardinality(s) - 1
    BY <1>1, PickIn, FS_RemoveElement
  <1>3. D(0) = {{}}
    BY <1>1, FS_EmptySet
  <1>4. ASSUME Bad # {} PROVE FALSE
    <2>1. PICK n \in Bad : \A k \in Bad : n <= k
      BY <1>4, Least
    <2>2. CASE n = 0
      <3> DEFINE g == [s \in D(0) |-> 0]
      <3>1. IsPartial(g, f, D(0))
        BY <1>3 DEF IsPartial
      <3> QED
        BY <2>2, <3>1
    <2>3. CASE n # 0
      <3>1. n - 1 \in Nat /\ n \in Nat
        BY <2>3
      <3>2. \A k \in Nat : k < n => \E g : IsPartial(g, f, D(k))
        <4> HIDE DEF D
        <4> QED
          BY <2>1, <3>1
      <3>9. n - 1 < n
        BY <3>1
      <3>10. \E g : IsPartial(g, f, D(n - 1))
        <4> DEFINE k == n - 1
        <4>1. k \in Nat /\ k < n
          BY <3>1, <3>9
        <4> HIDE DEF D, k
        <4>2. \E g : IsPartial(g, f, D(k))
          BY <3>2, <4>1
        <4> QED
          BY <4>2 DEF k
      <3> PICK g : IsPartial(g, f, D(n - 1))
        BY <3>10
      <3> DEFINE h == [s \in D(n) |-> IF s = {} THEN 0 ELSE f[Pick(s)] + g[s \ {Pick(s)}]]
      <3>3. \A s \in D(n) : s # {} => s \ {Pick(s)} \in D(n - 1)
        BY <1>1, <1>2, <3>1
      <3>4. D(n - 1) \subseteq D(n)
        BY <1>1, <3>1
      <3>5. \A s \in D(n - 1) : h[s] = g[s]
        BY <3>4 DEF IsPartial
      <3>6. \A s \in D(n) : s # {} => g[s \ {Pick(s)}] = h[s \ {Pick(s)}]
        BY <3>3, <3>5
      <3> HIDE DEF D
      <3>7. h = [s \in D(n) |-> IF s = {} THEN 0 ELSE f[Pick(s)] + h[s \ {Pick(s)}]]
        BY <3>6
      <3>8. IsPartial(h, f, D(n))
        BY <3>7 DEF IsPartial
      <3> QED
        BY <3>8
    <2> QED
      BY <2>2, <2>3
  <1>5. Cardinality(S) \in Nat
    BY FS_CardinalityType
  <1>6. D(Cardinality(S)) = SUBSET S
    BY <1>1
  <1>7. \E g : IsPartial(g, f, D(Cardinality(S)))
    BY <1>4, <1>5
  <1> QED
    BY <1>6, <1>7

\* What the proofs about sums use of them.
Adds(g, f, S) ==
    /\ g[{}] = 0
    /\ \A s \in SUBSET S : s # {} => g[s] = f[Pick(s)] + g[s \ {Pick(s)}]

LEMMA SumIs ==
    ASSUME NEW f, NEW S, DOMAIN f = S, IsFiniteSet(S)
    PROVE  \E g : Adds(g, f, S) /\ SumFunction(f) = g[S]
  <1> DEFINE g == CHOOSE g : IsPartial(g, f, SUBSET DOMAIN f)
  <1>1. IsPartial(g, f, SUBSET S)
    BY PartialExists
  <1>2. SumFunction(f) = g[S]
    BY Unfold
  <1> HIDE DEF g
  <1>3. Adds(g, f, S)
    BY <1>1, PickIn DEF IsPartial, Adds
  <1> QED
    BY <1>2, <1>3

\* Sums add up.
LEMMA SumPlus ==
    ASSUME NEW S, IsFiniteSet(S), NEW a \in [S -> Int], NEW b \in [S -> Int], NEW c \in [S -> Int],
           \A x \in S : c[x] = a[x] + b[x]
    PROVE  /\ SumFunction(a) \in Int /\ SumFunction(b) \in Int
           /\ SumFunction(c) = SumFunction(a) + SumFunction(b)
  <1>1. PICK ga : Adds(ga, a, S) /\ SumFunction(a) = ga[S]
    BY SumIs
  <1>2. PICK gb : Adds(gb, b, S) /\ SumFunction(b) = gb[S]
    BY SumIs
  <1>3. PICK gc : Adds(gc, c, S) /\ SumFunction(c) = gc[S]
    BY SumIs
  <1> DEFINE Good == {s \in SUBSET S : ga[s] \in Int /\ gb[s] \in Int /\ gc[s] = ga[s] + gb[s]}
  <1>4. {} \in Good
    <2>1. ga[{}] = 0 /\ gb[{}] = 0 /\ gc[{}] = 0
      BY <1>1, <1>2, <1>3 DEF Adds
    <2> QED
      BY <2>1
  <1>5. ASSUME NEW s \in SUBSET S, s # {}, s \ {Pick(s)} \in Good PROVE s \in Good
    <2> DEFINE x == Pick(s)
               t == s \ {Pick(s)}
    <2>1. x \in S /\ ga[s] = a[x] + ga[t] /\ gb[s] = b[x] + gb[t] /\ gc[s] = c[x] + gc[t]
      <3> HIDE DEF Good
      <3>1. s \in SUBSET S /\ s # {}
        BY <1>5
      <3>2. x \in S /\ ga[s] = a[x] + ga[t]
        BY <1>1, <3>1, PickIn DEF Adds
      <3>3. gb[s] = b[x] + gb[t]
        BY <1>2, <3>1, PickIn DEF Adds
      <3>4. gc[s] = c[x] + gc[t]
        BY <1>3, <3>1, PickIn DEF Adds
      <3> QED
        BY <3>2, <3>3, <3>4
    <2>2. ga[t] \in Int /\ gb[t] \in Int /\ gc[t] = ga[t] + gb[t]
      BY <1>5
    <2>3. a[x] \in Int /\ b[x] \in Int /\ c[x] = a[x] + b[x]
      BY <2>1
    <2> HIDE DEF x, t
    <2> QED
      BY <2>1, <2>2, <2>3
  <1>6. S \in Good
    <2> HIDE DEF Good
    <2> QED
      BY <1>4, <1>5, Shrinking
  <1> QED
    BY <1>1, <1>2, <1>3, <1>6

\* A larger summand, a larger sum.
LEMMA SumNat ==
    ASSUME NEW S, IsFiniteSet(S), NEW a \in [S -> Nat]
    PROVE  /\ SumFunction(a) \in Nat
           /\ SumFunction(a) = 0 => \A x \in S : a[x] = 0
  <1>1. PICK g : Adds(g, a, S) /\ SumFunction(a) = g[S]
    BY SumIs
  <1> DEFINE Good == {s \in SUBSET S : g[s] \in Nat /\ (g[s] = 0 => \A x \in s : a[x] = 0)}
  <1>2. {} \in Good
    BY <1>1 DEF Adds
  <1>3. ASSUME NEW s \in SUBSET S, s # {}, s \ {Pick(s)} \in Good PROVE s \in Good
    <2>1. Pick(s) \in S /\ Pick(s) \in s /\ g[s] = a[Pick(s)] + g[s \ {Pick(s)}]
      BY <1>1, <1>3, PickIn DEF Adds
    <2>2. a[Pick(s)] \in Nat /\ g[s \ {Pick(s)}] \in Nat
      BY <1>3, <2>1
    <2>3. g[s] \in Nat /\ (g[s] = 0 => a[Pick(s)] = 0 /\ g[s \ {Pick(s)}] = 0)
      BY <2>1, <2>2
    <2> QED
      BY <1>3, <2>3
  <1>4. S \in Good
    <2> HIDE DEF Good
    <2> QED
      BY <1>2, <1>3, Shrinking
  <1> QED
    BY <1>1, <1>4

\* One summand.
LEMMA SumOne ==
    ASSUME NEW S, IsFiniteSet(S), NEW i \in S, NEW v \in Int
    PROVE  SumFunction([x \in S |-> IF x = i THEN v ELSE 0]) = v
  <1> DEFINE a == [x \in S |-> IF x = i THEN v ELSE 0]
  <1>5. DOMAIN a = S /\ \A x \in S : a[x] = IF x = i THEN v ELSE 0
    OBVIOUS
  <1> HIDE DEF a
  <1>1. PICK g : Adds(g, a, S) /\ SumFunction(a) = g[S]
    BY <1>5, SumIs
  <1> DEFINE Good == {s \in SUBSET S : g[s] = IF i \in s THEN v ELSE 0}
  <1>2. {} \in Good
    BY <1>1 DEF Adds
  <1>3. ASSUME NEW s \in SUBSET S, s # {}, s \ {Pick(s)} \in Good PROVE s \in Good
    <2>1. Pick(s) \in S /\ Pick(s) \in s /\ g[s] = a[Pick(s)] + g[s \ {Pick(s)}]
      <3> HIDE DEF Good
      <3> QED
        BY <1>1, <1>3, PickIn DEF Adds
    <2>2. a[Pick(s)] = IF Pick(s) = i THEN v ELSE 0
      BY <1>5, <2>1
    <2>3. g[s \ {Pick(s)}] = IF i \in s /\ Pick(s) # i THEN v ELSE 0
      BY <1>3
    <2>4. g[s] = IF i \in s THEN v ELSE 0
      BY <2>1, <2>2, <2>3
    <2> QED
      BY <2>4
  <1>4. S \in Good
    <2> HIDE DEF Good
    <2> QED
      BY <1>2, <1>3, Shrinking
  <1> QED
    BY <1>1, <1>4 DEF a

\* Smaller summands, a smaller sum; and an equal sum only of equal ones.
LEMMA SumBelow ==
    ASSUME NEW S, IsFiniteSet(S), NEW a \in [S -> Int], NEW b \in [S -> Int],
           \A x \in S : a[x] <= b[x]
    PROVE  /\ SumFunction(a) \in Int /\ SumFunction(b) \in Int
           /\ SumFunction(a) <= SumFunction(b)
           /\ SumFunction(a) = SumFunction(b) => \A x \in S : a[x] = b[x]
  <1> DEFINE d == [x \in S |-> b[x] - a[x]]
  <1>1. d \in [S -> Nat]
    OBVIOUS
  <1>2. d \in [S -> Int]
    OBVIOUS
  <1>3. \A x \in S : b[x] = a[x] + d[x]
    OBVIOUS
  <1>4. \A x \in S : d[x] = 0 => a[x] = b[x]
    OBVIOUS
  <1> HIDE DEF d
  <1>5. /\ SumFunction(a) \in Int
        /\ SumFunction(b) = SumFunction(a) + SumFunction(d)
    BY <1>2, <1>3, SumPlus
  <1>6. SumFunction(d) \in Nat /\ (SumFunction(d) = 0 => \A x \in S : d[x] = 0)
    BY <1>1, SumNat
  <1> QED
    BY <1>4, <1>5, <1>6

\* A sum of nothing.
LEMMA SumZero ==
    ASSUME NEW S, IsFiniteSet(S)
    PROVE  SumFunction([x \in S |-> 0]) = 0
  <1> DEFINE a == [x \in S |-> 0]
  <1>1. DOMAIN a = S /\ \A x \in S : a[x] = 0
    OBVIOUS
  <1> HIDE DEF a
  <1>2. PICK g : Adds(g, a, S) /\ SumFunction(a) = g[S]
    BY <1>1, SumIs
  <1> DEFINE Good == {s \in SUBSET S : g[s] = 0}
  <1>3. {} \in Good
    BY <1>2 DEF Adds
  <1>4. ASSUME NEW s \in SUBSET S, s # {}, s \ {Pick(s)} \in Good PROVE s \in Good
    <2>1. Pick(s) \in S /\ g[s] = a[Pick(s)] + g[s \ {Pick(s)}]
      <3> HIDE DEF Good
      <3> QED
        BY <1>2, <1>4, PickIn DEF Adds
    <2> QED
      BY <1>1, <1>4, <2>1
  <1>5. S \in Good
    <2> HIDE DEF Good
    <2> QED
      BY <1>3, <1>4, Shrinking
  <1> QED
    BY <1>2, <1>5 DEF a

\* Adding one to one of the summands.
LEMMA SumBump ==
    ASSUME NEW S, IsFiniteSet(S), NEW a \in [S -> Int], NEW i \in S
    PROVE  /\ SumFunction(a) \in Int
           /\ SumFunction([a EXCEPT ![i] = @ + 1]) = SumFunction(a) + 1
  <1> DEFINE b == [x \in S |-> IF x = i THEN 1 ELSE 0]
             c == [a EXCEPT ![i] = @ + 1]
  <1>1. b \in [S -> Int] /\ c \in [S -> Int] /\ \A x \in S : c[x] = a[x] + b[x]
    OBVIOUS
  <1>2. SumFunction(b) = 1
    BY SumOne
  <1> HIDE DEF b, c
  <1>3. SumFunction(a) \in Int /\ SumFunction(c) = SumFunction(a) + SumFunction(b)
    BY <1>1, SumPlus
  <1> QED
    BY <1>2, <1>3 DEF c
=============================================================================
