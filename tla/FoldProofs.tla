----------------------------- MODULE FoldProofs -----------------------------
(***************************************************************************)
(* What the folds of the community modules compute. They recurse over the  *)
(* subsets of a set, so a fact about them needs an induction. The library's *)
(* induction theorems take a predicate; here the predicate is the set of   *)
(* the things it holds of, and the step is that a set of counterexamples   *)
(* has a least element (WFMin, in WellFoundedInduction).                   *)
(***************************************************************************)
EXTENDS Integers, Functions, FiniteSets, FiniteSetTheorems,
        WellFoundedInduction, TLAPS

\* A set of natural numbers with 0 and every successor has all of them.
LEMMA NatInduct ==
  ASSUME NEW G, 0 \in G, \A n \in Nat : n \in G => n + 1 \in G
  PROVE  Nat \subseteq G
<1> DEFINE T == Nat \ G
<1> SUFFICES ASSUME T # {} PROVE FALSE
  OBVIOUS
<1>1. PICK m \in T : \A k \in T : ~(<<k, m>> \in OpToRel(<, Nat))
  <2> HIDE DEF T
  <2>1. T \subseteq Nat
    BY DEF T
  <2> QED
    BY <2>1, WFMin, NatLessThanWellFounded
<1>2. \A k \in T : ~(k < m)
  BY <1>1 DEF OpToRel
<1>3. m # 0 /\ m - 1 \in Nat /\ m - 1 < m
  OBVIOUS
<1>4. m - 1 \in G
  BY <1>2, <1>3
<1> QED
  BY <1>3, <1>4

\* The subsets of a finite set are all in a set that has a subset whenever
\* it has those with one element less.
LEMMA SubsetInduct ==
  ASSUME NEW S, IsFiniteSet(S), NEW G,
         \A s \in SUBSET S : (\A x \in s : s \ {x} \in G) => s \in G
  PROVE  SUBSET S \subseteq G
<1> DEFINE H == {n \in Nat : \A s \in SUBSET S : Cardinality(s) = n => s \in G}
<1>1. \A s \in SUBSET S : IsFiniteSet(s) /\ Cardinality(s) \in Nat
  BY FS_Subset, FS_CardinalityType
<1>2. 0 \in H
  <2>1. ASSUME NEW s \in SUBSET S, Cardinality(s) = 0 PROVE s \in G
    <3>1. s = {}
      BY <1>1, <2>1, FS_EmptySet
    <3> QED
      BY <3>1
  <2> QED
    BY <2>1
<1>3. ASSUME NEW n \in Nat, n \in H PROVE n + 1 \in H
  <2>1. ASSUME NEW s \in SUBSET S, Cardinality(s) = n + 1 PROVE s \in G
    <3>1. ASSUME NEW x \in s PROVE s \ {x} \in G
      <4>1. Cardinality(s \ {x}) = n
        BY <1>1, <2>1, FS_RemoveElement
      <4> QED
        BY <1>3, <4>1
    <3> QED
      BY <3>1
  <2> QED
    BY <2>1
<1> HIDE DEF H
<1>4. Nat \subseteq H
  BY <1>2, <1>3, NatInduct
<1> QED
  BY <1>1, <1>4 DEF H

\* An order in which the elements of a subset are taken.
IsPick(pick, S) == \A s \in SUBSET S : s # {} => pick[s] \in s

\* The function that a recursion over the subsets of S defines, which takes
\* one element at a time.
IsFoldOf(f, S, V, base, pick, step) ==
  /\ f \in [SUBSET S -> V]
  /\ \A s \in SUBSET S :
       f[s] = IF s = {} THEN base ELSE step[<<pick[s], f[s \ {pick[s]}]>>]

\* A recursion over the subsets of a finite set defines a function.
LEMMA FoldExists ==
  ASSUME NEW S, IsFiniteSet(S), NEW V, NEW base \in V,
         NEW pick, IsPick(pick, S), NEW step \in [S \X V -> V]
  PROVE  \E f : IsFoldOf(f, S, V, base, pick, step)
<1> USE DEF IsPick
<1> DEFINE Small(n) == {s \in SUBSET S : Cardinality(s) <= n}
           IsFold(f, n) ==
             \A s \in Small(n) :
               f[s] = IF s = {} THEN base
                                ELSE step[<<pick[s], f[s \ {pick[s]}]>>]
           H == {n \in Nat : \E f \in [Small(n) -> V] : IsFold(f, n)}
<1>1. \A s \in SUBSET S : IsFiniteSet(s) /\ Cardinality(s) \in Nat
  BY FS_Subset, FS_CardinalityType
<1>2. 0 \in H
  <2> DEFINE f == [s \in Small(0) |-> base]
  <2>1. \A s \in Small(0) : s = {}
    BY <1>1, FS_EmptySet
  <2>2. f \in [Small(0) -> V] /\ IsFold(f, 0)
    BY <2>1
  <2> QED
    BY <2>2
<1>3. ASSUME NEW n \in Nat, n \in H PROVE n + 1 \in H
  <2>1. PICK f \in [Small(n) -> V] : IsFold(f, n)
    BY <1>3
  <2> DEFINE g == [s \in Small(n + 1) |->
                     IF s = {} THEN base
                               ELSE step[<<pick[s], f[s \ {pick[s]}]>>]]
  <2>2. ASSUME NEW s \in Small(n)
        PROVE  s \in Small(n + 1) /\ g[s] = f[s]
    <3>1. s \in Small(n + 1)
      BY <1>1
    <3>2. g[s] = IF s = {} THEN base
                           ELSE step[<<pick[s], f[s \ {pick[s]}]>>]
      BY <3>1
    <3>3. f[s] = IF s = {} THEN base
                           ELSE step[<<pick[s], f[s \ {pick[s]}]>>]
      BY <2>1
    <3> QED
      BY <3>1, <3>2, <3>3
  <2>3. ASSUME NEW s \in Small(n + 1), s # {}
        PROVE  pick[s] \in S /\ s \ {pick[s]} \in Small(n)
    <3>1. pick[s] \in s
      BY <2>3
    <3>2. Cardinality(s \ {pick[s]}) = Cardinality(s) - 1
      BY <1>1, <3>1, FS_RemoveElement
    <3> QED
      BY <1>1, <3>1, <3>2
  <2>4. g \in [Small(n + 1) -> V]
    <3>1. ASSUME NEW s \in Small(n + 1), s # {}
          PROVE  step[<<pick[s], f[s \ {pick[s]}]>>] \in V
      <4>1. pick[s] \in S /\ f[s \ {pick[s]}] \in V
        BY <2>3, <3>1
      <4> QED
        BY <4>1
    <3> QED
      BY <3>1
  <2>5. IsFold(g, n + 1)
    BY <2>2, <2>3
  <2> HIDE DEF g, IsFold, Small
  <2> QED
    BY <2>4, <2>5
<1> HIDE DEF H
<1>4. Nat \subseteq H
  BY <1>2, <1>3, NatInduct
<1> DEFINE m == Cardinality(S)
<1>5. m \in Nat /\ Small(m) = SUBSET S
  BY FS_Subset, FS_CardinalityType
<1>6. PICK f \in [Small(m) -> V] : IsFold(f, m)
  BY <1>4, <1>5 DEF H
<1> QED
  BY <1>5, <1>6 DEF IsFoldOf

-----------------------------------------------------------------------------
(***************************************************************************)
(* The sum of the values of a function (SumFunction).                      *)
(***************************************************************************)

\* The element that a fold over a set takes first.
First(s) == CHOOSE x \in s : TRUE

\* The sums of f over the subsets of its domain.
IsSumOf(it, f) ==
  it = [s \in SUBSET (DOMAIN f) |->
          IF s = {} THEN 0 ELSE f[First(s)] + it[s \ {First(s)}]]

SumsOf(f) == CHOOSE it : IsSumOf(it, f)

LEMMA SumUnfolds ==
  ASSUME NEW f
  PROVE  SumFunction(f) = SumsOf(f)[DOMAIN f]
  BY DEF SumFunction, SumFunctionOnSet, FoldFunctionOnSet, MapThenFoldSet,
         SumsOf, IsSumOf, First

\* Sums of integers exist.
LEMMA SumsExist ==
  ASSUME NEW S, IsFiniteSet(S), NEW f \in [S -> Int]
  PROVE  \E g : IsSumOf(g, f)
<1> DEFINE pick == [s \in SUBSET S |-> First(s)]
           step == [p \in S \X Int |-> f[p[1]] + p[2]]
<1>1. \A s \in SUBSET S : s # {} => First(s) \in s /\ pick[s] = First(s)
  BY DEF First
<1>2. step \in [S \X Int -> Int]
  OBVIOUS
<1>3. PICK g : IsFoldOf(g, S, Int, 0, pick, step)
  <2> DEFINE V == Int
             base == 0
  <2>1. IsPick(pick, S)
    BY <1>1 DEF IsPick
  <2>2. base \in V /\ step \in [S \X V -> V]
    BY <1>2
  <2> HIDE DEF pick, step, V, base
  <2>3. \E g : IsFoldOf(g, S, V, base, pick, step)
    BY <2>1, <2>2, FoldExists
  <2> QED
    BY <2>3 DEF V, base
<1>4. /\ g \in [SUBSET S -> Int]
      /\ \A s \in SUBSET S :
           g[s] = IF s = {} THEN 0 ELSE step[<<pick[s], g[s \ {pick[s]}]>>]
  BY <1>3 DEF IsFoldOf
<1>5. ASSUME NEW s \in SUBSET S, s # {}
      PROVE  g[s] = f[First(s)] + g[s \ {First(s)}]
  BY <1>1, <1>4, <1>5
<1>6. IsSumOf(g, f)
  BY <1>4, <1>5 DEF IsSumOf
<1> QED
  BY <1>6

\* They are integers, computed one element at a time.
LEMMA SumsAreIntegers ==
  ASSUME NEW S, IsFiniteSet(S), NEW f \in [S -> Int]
  PROVE  /\ SumsOf(f)[{}] = 0
         /\ \A s \in SUBSET S :
              /\ SumsOf(f)[s] \in Int
              /\ s # {} =>
                   /\ First(s) \in s
                   /\ SumsOf(f)[s] = f[First(s)] + SumsOf(f)[s \ {First(s)}]
<1> DEFINE it == SumsOf(f)
<1>1. IsSumOf(it, f)
  BY SumsExist DEF SumsOf
<1> HIDE DEF it
<1>2. /\ it[{}] = 0
      /\ \A s \in SUBSET S : s # {} => it[s] = f[First(s)] + it[s \ {First(s)}]
  BY <1>1 DEF IsSumOf
<1>3. \A s \in SUBSET S : s # {} => First(s) \in s
  BY DEF First
<1>4. \A s \in SUBSET S : it[s] \in Int
  <2> DEFINE G == {s \in SUBSET S : it[s] \in Int}
  <2>1. \A s \in SUBSET S : (\A x \in s : s \ {x} \in G) => s \in G
    <3> SUFFICES ASSUME NEW s \in SUBSET S, \A x \in s : s \ {x} \in G
                 PROVE  it[s] \in Int
      OBVIOUS
    <3>1. CASE s = {}
      BY <1>2, <3>1
    <3>2. CASE s # {}
      <4>1. f[First(s)] \in Int /\ it[s \ {First(s)}] \in Int
        BY <1>3, <3>2
      <4>2. it[s] = f[First(s)] + it[s \ {First(s)}]
        BY <1>2, <3>2
      <4> QED
        BY <4>1, <4>2
    <3> QED
      BY <3>1, <3>2
  <2> HIDE DEF G
  <2>2. SUBSET S \subseteq G
    BY <2>1, SubsetInduct
  <2> QED
    BY <2>2 DEF G
<1> QED
  BY <1>2, <1>3, <1>4 DEF it

\* A sum is an integer, and a sum of nothing but zeros is zero.
LEMMA SumIsInteger ==
  ASSUME NEW S, IsFiniteSet(S), NEW f \in [S -> Int]
  PROVE  /\ SumFunction(f) \in Int
         /\ (\A x \in S : f[x] = 0) => SumFunction(f) = 0
<1> DEFINE it == SumsOf(f)
<1>1. SumFunction(f) = it[S]
  BY SumUnfolds
<1>2. /\ it[{}] = 0
      /\ \A s \in SUBSET S :
           /\ it[s] \in Int
           /\ s # {} => First(s) \in s /\ it[s] = f[First(s)] + it[s \ {First(s)}]
  BY SumsAreIntegers
<1> HIDE DEF it
<1>3. ASSUME \A x \in S : f[x] = 0
      PROVE  it[S] = 0
  <2> DEFINE G == {s \in SUBSET S : it[s] = 0}
  <2>1. \A s \in SUBSET S : (\A x \in s : s \ {x} \in G) => s \in G
    <3> SUFFICES ASSUME NEW s \in SUBSET S, \A x \in s : s \ {x} \in G,
                        s # {}
                 PROVE  it[s] = 0
      BY <1>2
    <3>1. f[First(s)] = 0 /\ it[s \ {First(s)}] = 0
      BY <1>2, <1>3
    <3>2. it[s] = f[First(s)] + it[s \ {First(s)}]
      BY <1>2
    <3> QED
      BY <3>1, <3>2
  <2> HIDE DEF G
  <2>2. SUBSET S \subseteq G
    BY <2>1, SubsetInduct
  <2> QED
    BY <2>2 DEF G
<1> QED
  BY <1>1, <1>2, <1>3

\* Two functions that differ at one point have sums that differ by as much.
LEMMA SumChanges ==
  ASSUME NEW S, IsFiniteSet(S), NEW f \in [S -> Int], NEW g \in [S -> Int],
         NEW x \in S, \A y \in S \ {x} : g[y] = f[y]
  PROVE  SumFunction(g) = SumFunction(f) + (g[x] - f[x])
<1> DEFINE it == SumsOf(f)
           jt == SumsOf(g)
           more(s) == IF x \in s THEN g[x] - f[x] ELSE 0
<1>1. SumFunction(f) = it[S] /\ SumFunction(g) = jt[S]
  BY SumUnfolds
<1>2. /\ it[{}] = 0
      /\ \A s \in SUBSET S :
           /\ it[s] \in Int
           /\ s # {} => First(s) \in s /\ it[s] = f[First(s)] + it[s \ {First(s)}]
  BY SumsAreIntegers
<1>3. /\ jt[{}] = 0
      /\ \A s \in SUBSET S :
           /\ jt[s] \in Int
           /\ s # {} => First(s) \in s /\ jt[s] = g[First(s)] + jt[s \ {First(s)}]
  BY SumsAreIntegers
<1> HIDE DEF it, jt
<1>4. jt[S] = it[S] + more(S)
  <2> DEFINE G == {s \in SUBSET S : jt[s] = it[s] + more(s)}
  <2>1. \A s \in SUBSET S : (\A y \in s : s \ {y} \in G) => s \in G
    <3> SUFFICES ASSUME NEW s \in SUBSET S, \A y \in s : s \ {y} \in G
                 PROVE  jt[s] = it[s] + more(s)
      OBVIOUS
    <3>1. CASE s = {}
      BY <1>2, <1>3, <3>1
    <3>2. CASE s # {}
      <4> DEFINE y == First(s)
      <4>1. /\ y \in s /\ y \in S
            /\ it[s] = f[y] + it[s \ {y}] /\ jt[s] = g[y] + jt[s \ {y}]
        BY <1>2, <1>3, <3>2
      <4> HIDE DEF y
      <4>2. jt[s \ {y}] = it[s \ {y}] + more(s \ {y})
        BY <4>1
      <4>3. /\ it[s \ {y}] \in Int
            /\ f[y] \in Int /\ g[y] \in Int /\ f[x] \in Int /\ g[x] \in Int
        BY <1>2, <4>1
      <4>4. CASE y = x
        <5>1. x \in s /\ x \notin s \ {y}
          BY <4>1, <4>4
        <5> QED
          BY <4>1, <4>2, <4>3, <4>4, <5>1
      <4>5. CASE y # x
        <5>1. g[y] = f[y] /\ (x \in s <=> x \in s \ {y})
          BY <4>1, <4>5
        <5> QED
          BY <4>1, <4>2, <4>3, <5>1
      <4> QED
        BY <4>4, <4>5
    <3> QED
      BY <3>1, <3>2
  <2> HIDE DEF G
  <2>2. SUBSET S \subseteq G
    BY <2>1, SubsetInduct
  <2> QED
    BY <2>2 DEF G
<1> QED
  BY <1>1, <1>4

-----------------------------------------------------------------------------
(***************************************************************************)
(* Folds of sequences (FoldLeft), which take the greatest index first.     *)
(***************************************************************************)
Latest(s) == CHOOSE x \in s : \A y \in s : x >= y

\* The greatest index of a set of indices is there.
LEMMA LatestIsPick ==
  ASSUME NEW n \in Nat
  PROVE  /\ IsPick([s \in SUBSET (1 .. n) |-> Latest(s)], 1 .. n)
         /\ \A k \in 1 .. n : Latest(1 .. k) = k
<1> DEFINE HasLatest(s) == \E x \in s : \A y \in s : x >= y
           G == {m \in Nat : \A s \in SUBSET (1 .. m) : s # {} => HasLatest(s)}
<1>1. 0 \in G
  <2>1. 1 .. 0 = {}
    OBVIOUS
  <2>2. \A s \in SUBSET (1 .. 0) : s = {}
    BY <2>1
  <2> QED
    BY <2>2
<1>2. ASSUME NEW m \in Nat, m \in G PROVE m + 1 \in G
  <2> SUFFICES ASSUME NEW s \in SUBSET (1 .. m + 1), s # {} PROVE HasLatest(s)
    OBVIOUS
  <2>1. CASE m + 1 \in s
    BY <2>1
  <2>2. CASE m + 1 \notin s
    <3>1. s \in SUBSET (1 .. m)
      BY <2>2
    <3> QED
      BY <1>2, <3>1
  <2> QED
    BY <2>1, <2>2
<1> HIDE DEF G
<1>3. Nat \subseteq G
  BY <1>1, <1>2, NatInduct
<1>4. \A s \in SUBSET (1 .. n) : s # {} => HasLatest(s)
  BY <1>3 DEF G
<1>5. IsPick([s \in SUBSET (1 .. n) |-> Latest(s)], 1 .. n)
  BY <1>4 DEF IsPick, Latest
<1>6. ASSUME NEW k \in 1 .. n PROVE Latest(1 .. k) = k
  BY DEF Latest
<1> QED
  BY <1>5, <1>6
=============================================================================
