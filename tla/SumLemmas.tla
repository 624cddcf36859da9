------------------------------ MODULE SumLemmas ------------------------------
(***************************************************************************)
(* What SumFunction of the community modules computes, for any function    *)
(* with a finite domain.  The library defines it by a function on subsets  *)
(* that refers to itself: the lemmas show that there is such a function,   *)
(* and that the sum does not depend on the order the elements are taken    *)
(* in.  Induction is by a smallest counterexample, as a set.  The same for *)
(* functions defined by recursion on an interval of integers.              *)
(***************************************************************************)
EXTENDS Integers, Functions, FiniteSetTheorems, WellFoundedInduction, TLAPS

(***************************************************************************)
(* A set of naturals has a least element.                                  *)
(***************************************************************************)
LEMMA Least ==
  ASSUME NEW T \in SUBSET Nat, T # {}
  PROVE  \E n \in T : \A m \in T : n <= m
<1>1. PICK n \in T : \A m \in T : <<m, n>> \notin OpToRel(<, Nat)
  BY NatLessThanWellFounded, WFMin
<1>2. \A m \in T : ~(m < n)
  BY <1>1 DEF OpToRel
<1> QED
  BY <1>2

(***************************************************************************)
(* A family G of subsets of a finite set holds all of them, if it holds a  *)
(* subset whenever it holds what is left of it without any one element.    *)
(***************************************************************************)
LEMMA SubsetInduction ==
  ASSUME NEW S, IsFiniteSet(S), NEW G,
         \A T \in SUBSET S : (\A y \in T : T \ {y} \in G) => T \in G
  PROVE  \A T \in SUBSET S : T \in G
<1> DEFINE Bad == {T \in SUBSET S : T \notin G}
           Sizes == {Cardinality(T) : T \in Bad}
<1>1. SUFFICES ASSUME Bad # {} PROVE FALSE
  OBVIOUS
<1>2. \A T \in SUBSET S : IsFiniteSet(T) /\ Cardinality(T) \in Nat
  BY FS_Subset, FS_CardinalityType
<1>3. Sizes \in SUBSET Nat /\ Sizes # {}
  BY <1>1, <1>2
<1>4. PICK n \in Sizes : \A m \in Sizes : n <= m
  BY <1>3, Least
<1>5. PICK T \in Bad : n = Cardinality(T)
  OBVIOUS
<1>6. ASSUME NEW y \in T PROVE T \ {y} \in G
  <2>1. Cardinality(T \ {y}) = Cardinality(T) - 1
    BY <1>2, FS_RemoveElement
  <2>2. T \ {y} \in SUBSET S
    OBVIOUS
  <2>3. CASE T \ {y} \in Bad
    <3>1. n <= Cardinality(T \ {y})
      BY <1>4, <2>3
    <3> QED
      BY <3>1, <2>1, <1>5, <1>2
  <2> QED
    BY <2>2, <2>3
<1> QED
  BY <1>5, <1>6

-----------------------------------------------------------------------------
\* The element of a set that the library takes, and the function it asks for.
Some(s) == CHOOSE x \in s : TRUE
Adds(f, S, g) ==
  g = [s \in SUBSET S |-> IF s = {} THEN 0 ELSE f[Some(s)] + g[s \ {Some(s)}]]
PartialSum(f, T) == (CHOOSE g : Adds(f, DOMAIN f, g))[T]

\* The same, on the subsets of at most n elements.
Small(S, n) == {s \in SUBSET S : Cardinality(s) <= n}
AddsSmall(f, S, n, g) ==
  g = [s \in Small(S, n) |-> IF s = {} THEN 0 ELSE f[Some(s)] + g[s \ {Some(s)}]]

LEMMA SumFunctionDef ==
  ASSUME NEW f
  PROVE  SumFunction(f) = PartialSum(f, DOMAIN f)
BY DEF SumFunction, SumFunctionOnSet, FoldFunctionOnSet, MapThenFoldSet, PartialSum, Adds, Some

\* What is left of a subset after one element.
LEMMA Rest ==
  ASSUME NEW S, IsFiniteSet(S), NEW n \in Nat, NEW s \in Small(S, n + 1), s # {}
  PROVE  Some(s) \in s /\ s \ {Some(s)} \in Small(S, n)
<1>1. Some(s) \in s
  BY DEF Some
<1>2. IsFiniteSet(s) /\ Cardinality(s) \in Nat /\ Cardinality(s) <= n + 1
  BY FS_Subset, FS_CardinalityType DEF Small
<1>3. Cardinality(s \ {Some(s)}) = Cardinality(s) - 1
  BY <1>1, <1>2, FS_RemoveElement
<1> QED
  BY <1>1, <1>2, <1>3 DEF Small

LEMMA AddsLonger ==
  ASSUME NEW f, NEW S, IsFiniteSet(S), NEW n \in Nat, NEW h, AddsSmall(f, S, n, h)
  PROVE  \E g : AddsSmall(f, S, n + 1, g)
<1> DEFINE Value(s) == IF s = {} THEN 0 ELSE f[Some(s)] + h[s \ {Some(s)}]
           g == [s \in Small(S, n + 1) |-> Value(s)]
<1>1. \A t \in Small(S, n) : h[t] = Value(t)
  BY DEF AddsSmall
<1>2. Small(S, n) \subseteq Small(S, n + 1)
  BY FS_Subset, FS_CardinalityType DEF Small
<1>3. \A t \in Small(S, n) : g[t] = h[t]
  BY <1>1, <1>2
<1>4. ASSUME NEW s \in Small(S, n + 1)
      PROVE  Value(s) = IF s = {} THEN 0 ELSE f[Some(s)] + g[s \ {Some(s)}]
  BY <1>3, Rest
<1>5. g = [s \in Small(S, n + 1) |-> IF s = {} THEN 0 ELSE f[Some(s)] + g[s \ {Some(s)}]]
  <2> HIDE DEF Value
  <2> QED
    BY <1>4
<1> QED
  BY <1>5 DEF AddsSmall

LEMMA AddsExists ==
  ASSUME NEW f, NEW S, IsFiniteSet(S)
  PROVE  \E g : Adds(f, S, g)
<1> DEFINE Bad == {n \in Nat : ~ \E g : AddsSmall(f, S, n, g)}
<1>1. \E g : AddsSmall(f, S, 0, g)
  <2>1. Small(S, 0) = {{}}
    BY FS_Subset, FS_CardinalityType, FS_EmptySet DEF Small
  <2>2. AddsSmall(f, S, 0, [s \in {{}} |-> 0])
    BY <2>1 DEF AddsSmall
  <2> QED
    BY <2>2
<1>2. Bad = {}
  <2>1. SUFFICES ASSUME Bad # {} PROVE FALSE
    OBVIOUS
  <2>2. PICK n \in Bad : \A m \in Bad : n <= m
    BY <2>1, Least
  <2>3. n # 0
    BY <1>1
  <2>4. n - 1 \in Nat /\ n - 1 \notin Bad
    BY <2>2, <2>3
  <2>5. PICK h : AddsSmall(f, S, n - 1, h)
    BY <2>4
  <2>6. \E g : AddsSmall(f, S, (n - 1) + 1, g)
    BY <2>4, <2>5, AddsLonger
  <2> QED
    BY <2>6, <2>2
<1>3. Cardinality(S) \in Nat
  BY FS_CardinalityType
<1>4. PICK g : AddsSmall(f, S, Cardinality(S), g)
  BY <1>2, <1>3
<1>5. Small(S, Cardinality(S)) = SUBSET S
  BY FS_Subset DEF Small
<1>6. Adds(f, S, g)
  BY <1>4, <1>5 DEF Adds, AddsSmall
<1> QED
  BY <1>6

(***************************************************************************)
(* The sum over no element, and over a set of which the library takes one. *)
(***************************************************************************)
LEMMA SumUnfolds ==
  ASSUME NEW f, IsFiniteSet(DOMAIN f)
  PROVE  /\ PartialSum(f, {}) = 0
         /\ \A T \in SUBSET DOMAIN f :
              T # {} => PartialSum(f, T) = f[Some(T)] + PartialSum(f, T \ {Some(T)})
<1> DEFINE g == CHOOSE h : Adds(f, DOMAIN f, h)
<1>1. Adds(f, DOMAIN f, g)
  BY AddsExists
<1>2. \A T : PartialSum(f, T) = g[T]
  BY DEF PartialSum
<1> HIDE DEF g
<1>3. \A T \in SUBSET DOMAIN f :
        g[T] = IF T = {} THEN 0 ELSE f[Some(T)] + g[T \ {Some(T)}]
  BY <1>1 DEF Adds
<1> QED
  BY <1>2, <1>3

LEMMA SumType ==
  ASSUME NEW S, IsFiniteSet(S), NEW f \in [S -> Int]
  PROVE  \A T \in SUBSET S : PartialSum(f, T) \in Int
<1> DEFINE G == {T \in SUBSET S : PartialSum(f, T) \in Int}
<1>1. ASSUME NEW T \in SUBSET S, \A y \in T : T \ {y} \in G
      PROVE  T \in G
  <2>1. CASE T = {}
    BY <2>1, SumUnfolds
  <2>2. CASE T # {}
    <3>1. Some(T) \in T
      BY <2>2 DEF Some
    <3>2. PartialSum(f, T) = f[Some(T)] + PartialSum(f, T \ {Some(T)})
      BY <2>2, SumUnfolds
    <3>3. f[Some(T)] \in Int /\ PartialSum(f, T \ {Some(T)}) \in Int
      BY <1>1, <3>1
    <3> QED
      BY <3>2, <3>3
  <2> QED
    BY <2>1, <2>2
<1> HIDE DEF G
<1>2. \A T \in SUBSET S : T \in G
  BY <1>1, SubsetInduction
<1> QED
  BY <1>2 DEF G

(***************************************************************************)
(* Whichever element is taken: the order is of no consequence.             *)
(***************************************************************************)
LEMMA SumAdds ==
  ASSUME NEW S, IsFiniteSet(S), NEW f \in [S -> Int]
  PROVE  \A T \in SUBSET S : \A x \in S \ T : PartialSum(f, T \cup {x}) = f[x] + PartialSum(f, T)
<1> DEFINE Good(T) == \A x \in S \ T : PartialSum(f, T \cup {x}) = f[x] + PartialSum(f, T)
           G == {T \in SUBSET S : Good(T)}
<1>1. ASSUME NEW T \in SUBSET S, \A y \in T : T \ {y} \in G
      PROVE  Good(T)
  <2>1. SUFFICES ASSUME NEW x \in S \ T
                 PROVE  PartialSum(f, T \cup {x}) = f[x] + PartialSum(f, T)
    OBVIOUS
  <2> DEFINE U == T \cup {x}
             y == Some(U)
  <2>2. y \in U
    BY DEF Some
  <2>3. PartialSum(f, U) = f[y] + PartialSum(f, U \ {y})
    BY SumUnfolds
  <2> HIDE DEF y
  <2>4. CASE y = x
    <3>1. U \ {y} = T
      BY <2>4
    <3> QED
      BY <2>3, <2>4, <3>1
  <2>5. CASE y # x
    <3>1. y \in T
      BY <2>2, <2>5
    <3>2. Good(T \ {y}) /\ T \ {y} \in SUBSET S
      BY <1>1, <3>1
    <3>3. PartialSum(f, (T \ {y}) \cup {x}) = f[x] + PartialSum(f, T \ {y})
      BY <3>2
    <3>4. PartialSum(f, (T \ {y}) \cup {y}) = f[y] + PartialSum(f, T \ {y})
      BY <3>1, <3>2
    <3>5. U \ {y} = (T \ {y}) \cup {x} /\ (T \ {y}) \cup {y} = T
      BY <2>5, <3>1
    <3>6. PartialSum(f, T \ {y}) \in Int /\ f[x] \in Int /\ f[y] \in Int
      BY <3>1, <3>2, SumType
    <3>7. PartialSum(f, U) = f[y] + (f[x] + PartialSum(f, T \ {y}))
      BY <2>3, <3>3, <3>5
    <3>8. PartialSum(f, T) = f[y] + PartialSum(f, T \ {y})
      BY <3>4, <3>5
    <3> QED
      BY <3>6, <3>7, <3>8
  <2> QED
    BY <2>4, <2>5
<1>2. \A T \in SUBSET S : (\A y \in T : T \ {y} \in G) => T \in G
  <2> HIDE DEF Good
  <2> QED
    BY <1>1
<1> HIDE DEF G
<1>3. \A T \in SUBSET S : T \in G
  BY <1>2, SubsetInduction
<1> QED
  BY <1>3 DEF G

(***************************************************************************)
(* A sum of naturals is a natural, and zero only if all of them are.       *)
(***************************************************************************)
LEMMA SumOfNaturals ==
  ASSUME NEW S, IsFiniteSet(S), NEW f \in [S -> Nat]
  PROVE  /\ SumFunction(f) \in Nat
         /\ SumFunction(f) = 0 <=> \A x \in S : f[x] = 0
<1> DEFINE Good(T) == /\ PartialSum(f, T) \in Nat
                      /\ PartialSum(f, T) = 0 <=> \A x \in T : f[x] = 0
           G == {T \in SUBSET S : Good(T)}
<1>1. ASSUME NEW T \in SUBSET S, \A y \in T : T \ {y} \in G
      PROVE  T \in G
  <2>1. CASE T = {}
    BY <2>1, SumUnfolds
  <2>2. CASE T # {}
    <3> DEFINE y == Some(T)
    <3>1. y \in T
      BY <2>2 DEF Some
    <3>2. PartialSum(f, T) = f[y] + PartialSum(f, T \ {y})
      BY <2>2, SumUnfolds
    <3> HIDE DEF y
    <3>3. /\ PartialSum(f, T \ {y}) \in Nat /\ f[y] \in Nat
          /\ PartialSum(f, T \ {y}) = 0 <=> \A x \in T \ {y} : f[x] = 0
      BY <1>1, <3>1
    <3>4. (\A x \in T : f[x] = 0) <=> f[y] = 0 /\ \A x \in T \ {y} : f[x] = 0
      BY <3>1
    <3> QED
      BY <3>2, <3>3, <3>4
  <2> QED
    BY <2>1, <2>2
<1> HIDE DEF G
<1>2. \A T \in SUBSET S : T \in G
  BY <1>1, SubsetInduction
<1> QED
  BY <1>2, SumFunctionDef DEF G

\* One product fewer.
LEMMA OneTimesLess ==
  ASSUME NEW c \in Nat, NEW n \in Nat
  PROVE  n + (c - 1) * n = c * n
<1>1. (c - 1) * n = c * n - n
  OBVIOUS
<1>2. c * n \in Int
  OBVIOUS
<1> QED
  BY <1>1, <1>2

(***************************************************************************)
(* A sum of equals is a product.                                           *)
(***************************************************************************)
LEMMA SumOfEquals ==
  ASSUME NEW S, IsFiniteSet(S), NEW n \in Nat, NEW f \in [S -> Nat], \A x \in S : f[x] = n
  PROVE  SumFunction(f) = Cardinality(S) * n
<1> DEFINE G == {T \in SUBSET S : PartialSum(f, T) = Cardinality(T) * n}
<1>1. ASSUME NEW T \in SUBSET S, \A y \in T : T \ {y} \in G
      PROVE  T \in G
  <2>1. CASE T = {}
    <3>1. Cardinality(T) = 0 /\ PartialSum(f, T) = 0
      BY <2>1, SumUnfolds, FS_EmptySet
    <3> QED
      BY <3>1
  <2>2. CASE T # {}
    <3> DEFINE y == Some(T)
    <3>1. y \in T
      BY <2>2 DEF Some
    <3>2. PartialSum(f, T) = n + PartialSum(f, T \ {y})
      BY <2>2, <3>1, SumUnfolds
    <3> HIDE DEF y
    <3>3. IsFiniteSet(T)
      BY FS_Subset
    <3>4. Cardinality(T \ {y}) = Cardinality(T) - 1 /\ Cardinality(T) \in Nat
      BY <3>1, <3>3, FS_RemoveElement, FS_CardinalityType
    <3>5. PartialSum(f, T \ {y}) = (Cardinality(T) - 1) * n
      BY <1>1, <3>1, <3>4
    <3> QED
      BY <3>2, <3>4, <3>5, OneTimesLess
  <2> QED
    BY <2>1, <2>2
<1> HIDE DEF G
<1>2. \A T \in SUBSET S : T \in G
  BY <1>1, SubsetInduction
<1> QED
  BY <1>2, SumFunctionDef DEF G

-----------------------------------------------------------------------------
\* Induction up to n.
LEMMA CountingUp ==
  ASSUME NEW n \in Nat, NEW G, 0 \in G, \A k \in 0 .. n - 1 : k \in G => k + 1 \in G
  PROVE  \A k \in 0 .. n : k \in G
<1> DEFINE Bad == {k \in 0 .. n : k \notin G}
<1>1. SUFFICES ASSUME Bad # {} PROVE FALSE
  OBVIOUS
<1>2. PICK k \in Bad : \A m \in Bad : k <= m
  <2>1. Bad \in SUBSET Nat
    OBVIOUS
  <2> HIDE DEF Bad
  <2> QED
    BY <1>1, <2>1, Least
<1>3. k # 0 /\ k - 1 \in 0 .. n - 1 /\ k - 1 \notin Bad
  BY <1>2
<1> QED
  BY <1>2, <1>3

\* The sum over the first k ranks.
LEMMA NextRank ==
  ASSUME NEW n \in Nat, NEW f \in [0 .. n - 1 -> Int], NEW k \in 0 .. n - 1
  PROVE  /\ PartialSum(f, 0 .. k - 1) \in Int
         /\ PartialSum(f, 0 .. (k + 1) - 1) = f[k] + PartialSum(f, 0 .. k - 1)
<1> DEFINE S == 0 .. n - 1
           T == 0 .. k - 1
<1>1. IsFiniteSet(S) /\ f \in [S -> Int]
  BY FS_Interval
<1>2. T \in SUBSET S /\ k \in S \ T
  OBVIOUS
<1>3. T \cup {k} = 0 .. (k + 1) - 1
  OBVIOUS
<1>4. PartialSum(f, T \cup {k}) = f[k] + PartialSum(f, T) /\ PartialSum(f, T) \in Int
  <2> HIDE DEF S, T
  <2>1. \A U \in SUBSET S : \A x \in S \ U : PartialSum(f, U \cup {x}) = f[x] + PartialSum(f, U)
    BY <1>1, SumAdds
  <2>2. \A U \in SUBSET S : PartialSum(f, U) \in Int
    BY <1>1, SumType
  <2> QED
    BY <1>2, <2>1, <2>2
<1> QED
  BY <1>3, <1>4

LEMMA WholeSum ==
  ASSUME NEW n \in Nat, NEW f \in [0 .. n - 1 -> Int]
  PROVE  /\ SumFunction(f) = PartialSum(f, 0 .. n - 1)
         /\ PartialSum(f, 0 .. n - 1) \in Int
         /\ PartialSum(f, 0 .. 0 - 1) = 0
<1> DEFINE S == 0 .. n - 1
<1>1. IsFiniteSet(S) /\ f \in [S -> Int]
  BY FS_Interval
<1>2. 0 .. 0 - 1 = {}
  OBVIOUS
<1>3. SumFunction(f) = PartialSum(f, S) /\ PartialSum(f, S) \in Int /\ PartialSum(f, {}) = 0
  <2> HIDE DEF S
  <2> QED
    BY <1>1, SumFunctionDef, SumUnfolds, SumType
<1> QED
  BY <1>2, <1>3

-----------------------------------------------------------------------------
(***************************************************************************)
(* Functions defined by recursion on an interval.                          *)
(***************************************************************************)
\* The values of a recursion that starts at a and takes n steps.
Unrolled(f, n, S, a, step) ==
  /\ f \in [0 .. n -> S] /\ f[0] = a
  /\ \A k \in 1 .. n : f[k] = step[k][f[k - 1]]

LEMMA Recursion ==
  ASSUME NEW n \in Nat, NEW S, NEW a \in S, NEW step \in [1 .. n -> [S -> S]]
  PROVE  \E f : Unrolled(f, n, S, a, step)
<1> DEFINE G == {m \in 0 .. n : \E f : Unrolled(f, m, S, a, step)}
<1>1. 0 \in G
  <2> DEFINE f == [k \in 0 .. 0 |-> a]
  <2>1. f \in [0 .. 0 -> S] /\ f[0] = a /\ 1 .. 0 = {}
    OBVIOUS
  <2>2. Unrolled(f, 0, S, a, step)
    BY <2>1 DEF Unrolled
  <2> QED
    BY <2>2
<1>2. ASSUME NEW m \in 0 .. n - 1, m \in G PROVE m + 1 \in G
  <2>1. PICK f : Unrolled(f, m, S, a, step)
    BY <1>2
  <2> DEFINE g == [k \in 0 .. m + 1 |-> IF k = m + 1 THEN step[m + 1][f[m]] ELSE f[k]]
  <2>2. f \in [0 .. m -> S] /\ m + 1 \in 1 .. n /\ m \in 0 .. m
    BY <2>1 DEF Unrolled
  <2>3. step[m + 1][f[m]] \in S
    <3>1. f[m] \in S /\ step[m + 1] \in [S -> S]
      BY <2>2
    <3> QED
      BY <3>1
  <2>4. g \in [0 .. m + 1 -> S]
    BY <2>2, <2>3
  <2>5. g[0] = a
    BY <2>1 DEF Unrolled
  <2>6. ASSUME NEW k \in 1 .. m + 1 PROVE g[k] = step[k][g[k - 1]]
    <3>1. CASE k = m + 1
      <4>1. g[k] = step[m + 1][f[m]] /\ g[k - 1] = f[m]
        BY <3>1
      <4> QED
        BY <3>1, <4>1
    <3>2. CASE k # m + 1
      <4>1. k \in 1 .. m /\ g[k] = f[k] /\ g[k - 1] = f[k - 1]
        BY <3>2
      <4> QED
        BY <2>1, <4>1 DEF Unrolled
    <3> QED
      BY <3>1, <3>2
  <2>7. Unrolled(g, m + 1, S, a, step)
    BY <2>4, <2>5, <2>6 DEF Unrolled
  <2> QED
    BY <2>2, <2>7
<1> HIDE DEF G
<1>3. \A k \in 0 .. n : k \in G
  BY <1>1, <1>2, CountingUp
<1> QED
  BY <1>3 DEF G

=============================================================================
