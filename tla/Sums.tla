--------------------------------- MODULE Sums ---------------------------------
(***************************************************************************)
(* Lemmas about the sum of a function over a finite set, by which the      *)
(* paper account values its positions and adds up their cost.  Induction   *)
(* is by a smallest counterexample.                                        *)
(***************************************************************************)
EXTENDS Integers, FiniteSets, FiniteSetsExt, FiniteSetTheorems,
        WellFoundedInduction, TLAPS

Sum(f, S) == MapThenSumSet(LAMBDA s : f[s], S)

(***************************************************************************)
(* The sum is the value at S of a function on the subsets of S; that one   *)
(* exists, and every two of them agree.                                    *)
(***************************************************************************)
First(T) == CHOOSE x \in T : TRUE

PartialSums(g, f, D) ==
  g = [T \in D |-> IF T = {} THEN 0 ELSE f[First(T)] + g[T \ {First(T)}]]

SubsetSums(g, f, S) == PartialSums(g, f, SUBSET S)

LEMMA SumDef ==
  ASSUME NEW f, NEW S
  PROVE  Sum(f, S) = (CHOOSE g : SubsetSums(g, f, S))[S]
BY DEF Sum, MapThenSumSet, MapThenFoldSet, PartialSums, SubsetSums, First

\* A nonempty set of naturals has a least element.
LEMMA LeastNumber ==
  ASSUME NEW S \in SUBSET Nat, S # {}
  PROVE  \E n \in S : \A m \in S : n <= m
<1>1. PICK n \in S : \A m \in S : ~(<<m, n>> \in OpToRel(<, Nat))
  BY WFMin, NatLessThanWellFounded
<1>2. ASSUME NEW m \in S PROVE n <= m
  <2>1. ~(<<m, n>> \in {p \in Nat \X Nat : p[1] < p[2]})
    BY <1>1 DEF OpToRel
  <2> QED
    BY <2>1
<1> QED
  BY <1>2

LEMMA FirstIn ==
  ASSUME NEW T, T # {}
  PROVE  First(T) \in T
BY DEF First

LEMMA WithoutFirst ==
  ASSUME NEW T, IsFiniteSet(T), NEW x \in T
  PROVE  /\ IsFiniteSet(T \ {x})
         /\ Cardinality(T) \in Nat
         /\ Cardinality(T \ {x}) \in Nat
         /\ Cardinality(T \ {x}) = Cardinality(T) - 1
<1>1. IsFiniteSet(T \ {x}) /\ Cardinality(T \ {x}) = Cardinality(T) - 1
  BY FS_RemoveElement
<1>2. Cardinality(T) \in Nat
  BY FS_CardinalityType
<1>3. Cardinality(T \ {x}) \in Nat
  BY <1>1, FS_CardinalityType
<1> QED
  BY <1>1, <1>2, <1>3

\* Among sets of subsets of a finite set there is one that contains no other.
LEMMA SmallestSet ==
  ASSUME NEW S, IsFiniteSet(S), NEW B \in SUBSET (SUBSET S), B # {}
  PROVE  \E T \in B : \A x \in T : \A R \in SUBSET (T \ {x}) : R \notin B
<1> DEFINE Sizes == {n \in Nat : \E T \in B : n = Cardinality(T)}
<1>1. ASSUME NEW T \in SUBSET S PROVE IsFiniteSet(T) /\ Cardinality(T) \in Nat
  <2>1. IsFiniteSet(T)
    BY FS_Subset
  <2> QED
    BY <2>1, FS_CardinalityType
<1>2. Sizes # {}
  <2>1. PICK T \in B : TRUE
    OBVIOUS
  <2> QED
    BY <1>1, <2>1
<1>3. PICK n \in Sizes : \A m \in Sizes : n <= m
  BY <1>2, LeastNumber
<1>4. PICK T \in B : n = Cardinality(T)
  BY <1>3
<1>5. ASSUME NEW x \in T, NEW R \in SUBSET (T \ {x}), R \in B
      PROVE  FALSE
  <2>1. IsFiniteSet(T \ {x}) /\ Cardinality(T \ {x}) = Cardinality(T) - 1
    BY <1>1, WithoutFirst
  <2>2. Cardinality(R) <= Cardinality(T \ {x})
    BY <2>1, FS_Subset
  <2>3. Cardinality(R) \in Nat /\ Cardinality(T) \in Nat
    BY <1>1, <1>5
  <2>4. ~(Cardinality(T) <= Cardinality(R))
    BY <2>1, <2>2, <2>3
  <2>5. Cardinality(R) \in Sizes
    BY <1>5, <2>3
  <2> HIDE DEF Sizes
  <2> QED
    BY <1>3, <1>4, <2>4, <2>5
<1> QED
  BY <1>5

\* The subsets of S with at most n elements.
UpTo(S, n) == {T \in SUBSET S : Cardinality(T) <= n}

LEMMA PartialSumsExtend ==
  ASSUME NEW S, IsFiniteSet(S), NEW f, NEW n \in Nat,
         \E g : PartialSums(g, f, UpTo(S, n))
  PROVE  \E g : PartialSums(g, f, UpTo(S, n + 1))
<1>1. PICK g : PartialSums(g, f, UpTo(S, n))
  OBVIOUS
<1> DEFINE Extended(h) ==
             [T \in UpTo(S, n + 1) |->
                IF T = {} THEN 0 ELSE f[First(T)] + h[T \ {First(T)}]]
           h1 == Extended(g)
<1>2. ASSUME NEW T \in UpTo(S, n + 1), T # {}
      PROVE  T \ {First(T)} \in UpTo(S, n)
  <2>1. First(T) \in T /\ IsFiniteSet(T)
    BY <1>2, FirstIn, FS_Subset DEF UpTo
  <2>2. /\ Cardinality(T) \in Nat /\ Cardinality(T \ {First(T)}) \in Nat
        /\ Cardinality(T \ {First(T)}) = Cardinality(T) - 1
    BY <2>1, WithoutFirst
  <2> QED
    BY <2>2 DEF UpTo
<1>3. ASSUME NEW T \in UpTo(S, n)
      PROVE  T \in UpTo(S, n + 1)
  <2>1. IsFiniteSet(T) /\ Cardinality(T) <= n
    BY FS_Subset DEF UpTo
  <2>2. Cardinality(T) \in Nat
    BY <2>1, FS_CardinalityType
  <2>3. Cardinality(T) <= n + 1
    BY <2>1, <2>2
  <2> QED
    BY <2>3 DEF UpTo
<1>4. ASSUME NEW T \in UpTo(S, n) PROVE h1[T] = g[T]
  <2>1. h1[T] = IF T = {} THEN 0 ELSE f[First(T)] + g[T \ {First(T)}]
    BY <1>3
  <2>2. g[T] = IF T = {} THEN 0 ELSE f[First(T)] + g[T \ {First(T)}]
    BY <1>1 DEF PartialSums
  <2> QED
    BY <2>1, <2>2
<1>5. \A T \in UpTo(S, n + 1) : T # {} => h1[T \ {First(T)}] = g[T \ {First(T)}]
  BY <1>2, <1>4
<1>6. Extended(h1) = Extended(g)
  <2> HIDE DEF h1
  <2> QED
    BY <1>5
<1>7. PartialSums(h1, f, UpTo(S, n + 1))
  <2>1. h1 = Extended(h1)
    BY <1>6
  <2> HIDE DEF h1
  <2> QED
    BY <2>1 DEF PartialSums
<1> QED
  BY <1>7

LEMMA PartialSumsExist ==
  ASSUME NEW S, IsFiniteSet(S), NEW f
  PROVE  \E g : SubsetSums(g, f, S)
<1> DEFINE Fails == {n \in Nat : ~\E g : PartialSums(g, f, UpTo(S, n))}
<1>1. \E g : PartialSums(g, f, UpTo(S, 0))
  <2>1. ASSUME NEW T \in UpTo(S, 0) PROVE T = {}
    <3>1. IsFiniteSet(T) /\ Cardinality(T) <= 0
      BY FS_Subset DEF UpTo
    <3>2. Cardinality(T) \in Nat
      BY <3>1, FS_CardinalityType
    <3>3. Cardinality(T) = 0
      BY <3>1, <3>2
    <3> QED
      BY <3>1, <3>3, FS_EmptySet
  <2>2. PartialSums([T \in UpTo(S, 0) |-> 0], f, UpTo(S, 0))
    BY <2>1 DEF SubsetSums, PartialSums
  <2> QED
    BY <2>2
<1>2. Fails = {}
  <2> SUFFICES ASSUME Fails # {} PROVE FALSE
    OBVIOUS
  <2>1. PICK n \in Fails : \A m \in Fails : n <= m
    BY LeastNumber
  <2>2. n \in Nat /\ n # 0
    BY <1>1
  <2>3. n - 1 \in Nat /\ ~(n <= n - 1)
    BY <2>2
  <2>4. n - 1 \notin Fails
    BY <2>1, <2>3
  <2>5. \E g : PartialSums(g, f, UpTo(S, n - 1))
    BY <2>3, <2>4
  <2>6. \E g : PartialSums(g, f, UpTo(S, (n - 1) + 1))
    BY <2>3, <2>5, PartialSumsExtend
  <2>7. (n - 1) + 1 = n
    BY <2>2
  <2>8. \E g : PartialSums(g, f, UpTo(S, n))
    BY <2>6, <2>7
  <2> QED
    BY <2>1, <2>8
<1>3. Cardinality(S) \in Nat
  BY FS_CardinalityType
<1>4. UpTo(S, Cardinality(S)) = SUBSET S
  BY FS_Subset DEF UpTo
<1>5. \E g : PartialSums(g, f, UpTo(S, Cardinality(S)))
  BY <1>2, <1>3
<1> QED
  BY <1>4, <1>5 DEF SubsetSums

LEMMA PartialSumsAgree ==
  ASSUME NEW S, IsFiniteSet(S), NEW R \in SUBSET S, NEW f,
         NEW g, SubsetSums(g, f, S),
         NEW h, SubsetSums(h, f, R)
  PROVE  \A T \in SUBSET R : g[T] = h[T]
<1> DEFINE Differ == {T \in SUBSET R : g[T] # h[T]}
<1> SUFFICES ASSUME Differ # {} PROVE FALSE
  OBVIOUS
<1>1. IsFiniteSet(R) /\ Differ \in SUBSET (SUBSET R)
  BY FS_Subset
<1>2. PICK T \in Differ : \A x \in T : \A U \in SUBSET (T \ {x}) : U \notin Differ
  <2> HIDE DEF Differ
  <2> QED
    BY <1>1, SmallestSet
<1>3. /\ g[T] = IF T = {} THEN 0 ELSE f[First(T)] + g[T \ {First(T)}]
      /\ h[T] = IF T = {} THEN 0 ELSE f[First(T)] + h[T \ {First(T)}]
  <2>1. T \in SUBSET S /\ T \in SUBSET R
    OBVIOUS
  <2> QED
    BY <2>1 DEF SubsetSums, PartialSums
<1>4. T # {}
  BY <1>3
<1>5. First(T) \in T
  BY <1>4, FirstIn
<1>6. g[T \ {First(T)}] = h[T \ {First(T)}]
  BY <1>2, <1>5
<1> QED
  BY <1>3, <1>6

(***************************************************************************)
(* What the account's sums are computed by.                                *)
(***************************************************************************)
LEMMA SumIsPartialSum ==
  ASSUME NEW f, NEW S, IsFiniteSet(S)
  PROVE  \E g : SubsetSums(g, f, S) /\ \A R \in SUBSET S : Sum(f, R) = g[R]
<1> DEFINE Best(R) == CHOOSE g : SubsetSums(g, f, R)
<1>1. ASSUME NEW R \in SUBSET S
      PROVE  SubsetSums(Best(R), f, R) /\ Sum(f, R) = Best(R)[R]
  <2>1. IsFiniteSet(R)
    BY FS_Subset
  <2>2. \E g : SubsetSums(g, f, R)
    BY <2>1, PartialSumsExist
  <2>3. Sum(f, R) = Best(R)[R]
    BY SumDef
  <2> QED
    BY <2>2, <2>3
<1>2. SubsetSums(Best(S), f, S)
  BY <1>1
<1> HIDE DEF Best
<1>3. ASSUME NEW R \in SUBSET S PROVE Sum(f, R) = Best(S)[R]
  <2>1. SubsetSums(Best(R), f, R) /\ Sum(f, R) = Best(R)[R]
    BY <1>1
  <2>2. \A T \in SUBSET R : Best(S)[T] = Best(R)[T]
    BY <1>2, <2>1, PartialSumsAgree
  <2> QED
    BY <2>1, <2>2
<1> QED
  BY <1>2, <1>3

LEMMA SumOfNone ==
  ASSUME NEW f
  PROVE  Sum(f, {}) = 0
<1>1. PICK g : /\ SubsetSums(g, f, {})
               /\ \A R \in SUBSET {} : Sum(f, R) = g[R]
  BY FS_EmptySet, SumIsPartialSum
<1>2. g[{}] = 0
  BY <1>1 DEF SubsetSums, PartialSums
<1> QED
  BY <1>1, <1>2

LEMMA SumFromFirst ==
  ASSUME NEW f, NEW S, IsFiniteSet(S), S # {}
  PROVE  Sum(f, S) = f[First(S)] + Sum(f, S \ {First(S)})
<1>1. PICK g : /\ SubsetSums(g, f, S)
               /\ \A R \in SUBSET S : Sum(f, R) = g[R]
  BY SumIsPartialSum
<1>2. S \in SUBSET S /\ S \ {First(S)} \in SUBSET S
  OBVIOUS
<1>3. g[S] = f[First(S)] + g[S \ {First(S)}]
  BY <1>1, <1>2 DEF SubsetSums, PartialSums
<1> QED
  BY <1>1, <1>2, <1>3

\* A sum of integers is an integer, and any element can be taken out first:
\* the order in which the code adds them up does not matter.
LEMMA SumTakesOut ==
  ASSUME NEW S, IsFiniteSet(S), NEW f, \A s \in S : f[s] \in Int
  PROVE  /\ Sum(f, S) \in Int
         /\ \A x \in S : Sum(f, S) = f[x] + Sum(f, S \ {x})
<1> DEFINE Good(T) == /\ Sum(f, T) \in Int
                      /\ \A x \in T : Sum(f, T) = f[x] + Sum(f, T \ {x})
           Bad == {T \in SUBSET S : ~Good(T)}
<1> SUFFICES ASSUME ~Good(S) PROVE FALSE
  OBVIOUS
<1>1. PICK T \in Bad : \A x \in T : \A R \in SUBSET (T \ {x}) : R \notin Bad
  <2>1. Bad \in SUBSET (SUBSET S) /\ Bad # {}
    OBVIOUS
  <2> HIDE DEF Bad
  <2> QED
    BY <2>1, SmallestSet
<1>2. T \in SUBSET S /\ ~Good(T) /\ IsFiniteSet(T)
  BY FS_Subset
<1>3. ASSUME NEW y \in T, NEW R \in SUBSET (T \ {y})
      PROVE  Good(R)
  <2>1. R \notin Bad /\ R \in SUBSET S
    BY <1>1
  <2> HIDE DEF Good
  <2> QED
    BY <2>1
<1>4. CASE T = {}
  <2>1. Sum(f, T) = 0
    BY <1>4, SumOfNone
  <2> QED
    BY <1>2, <1>4, <2>1
<1>5. CASE T # {}
  <2> DEFINE c == First(T)
             U == T \ {c}
  <2>1. c \in T
    BY <1>5, FirstIn
  <2>2. Sum(f, T) = f[c] + Sum(f, U)
    BY <1>2, <1>5, SumFromFirst
  <2>3. Good(U)
    BY <1>3, <2>1
  <2> HIDE DEF c
  <2>4. f[c] \in Int /\ Sum(f, U) \in Int
    BY <2>1, <2>3
  <2>5. Sum(f, T) \in Int
    BY <2>2, <2>4
  <2>6. ASSUME NEW x \in T
        PROVE  Sum(f, T) = f[x] + Sum(f, T \ {x})
    <3>1. CASE x = c
      BY <2>2, <3>1
    <3>2. CASE x # c
      <4> DEFINE W == T \ {x}
                 V == U \ {x}
      <4>1. x \in U /\ c \in W
        BY <2>1, <3>2
      <4>2. W \ {c} = V
        OBVIOUS
      <4>3. Sum(f, U) = f[x] + Sum(f, V)
        BY <2>3, <4>1
      <4>4. Good(W)
        BY <1>3
      <4>5. Sum(f, W) = f[c] + Sum(f, W \ {c})
        BY <4>1, <4>4
      <4>6. Good(V)
        BY <1>3
      <4>7. f[x] \in Int /\ Sum(f, V) \in Int
        BY <4>6
      <4>8. Sum(f, W) = f[c] + Sum(f, V)
        BY <4>2, <4>5
      <4> HIDE DEF U, W, V
      <4>9. Sum(f, T) = f[c] + (f[x] + Sum(f, V))
        BY <2>2, <4>3
      <4>10. Sum(f, T) = f[x] + (f[c] + Sum(f, V))
        BY <2>4, <4>7, <4>9
      <4>11. Sum(f, T) = f[x] + Sum(f, W)
        BY <4>8, <4>10
      <4> QED
        BY <4>11 DEF W
    <3> QED
      BY <3>1, <3>2
  <2> QED
    BY <1>2, <2>5, <2>6
<1> QED
  BY <1>4, <1>5

\* Two functions that agree on a set have the same sum over it.
LEMMA SumsAgree ==
  ASSUME NEW S, IsFiniteSet(S), NEW f, NEW g,
         \A s \in S : f[s] \in Int /\ g[s] = f[s]
  PROVE  Sum(g, S) = Sum(f, S)
<1> DEFINE Differ == {T \in SUBSET S : Sum(g, T) # Sum(f, T)}
<1> SUFFICES ASSUME Differ # {} PROVE FALSE
  OBVIOUS
<1>1. PICK T \in Differ : \A x \in T : \A R \in SUBSET (T \ {x}) : R \notin Differ
  <2>1. Differ \in SUBSET (SUBSET S)
    OBVIOUS
  <2> HIDE DEF Differ
  <2> QED
    BY <2>1, SmallestSet
<1>2. T # {}
  BY SumOfNone
<1>3. IsFiniteSet(T) /\ T \in SUBSET S
  BY FS_Subset
<1>4. PICK x \in T : x = First(T)
  BY <1>2, FirstIn
<1>5. Sum(g, T \ {x}) = Sum(f, T \ {x})
  BY <1>1, <1>3
<1>6. Sum(g, T) = g[x] + Sum(g, T \ {x}) /\ Sum(f, T) = f[x] + Sum(f, T \ {x})
  BY <1>2, <1>3, <1>4, SumFromFirst
<1> QED
  BY <1>3, <1>5, <1>6

\* Changing the function at one element changes the sum by the difference.
LEMMA SumWithOneChange ==
  ASSUME NEW S, IsFiniteSet(S), NEW x \in S, NEW f, NEW g,
         \A s \in S : f[s] \in Int /\ g[s] \in Int,
         \A s \in S \ {x} : g[s] = f[s]
  PROVE  /\ Sum(f, S) \in Int /\ Sum(g, S) \in Int
         /\ Sum(g, S) = Sum(f, S) - f[x] + g[x]
<1>1. Sum(f, S) = f[x] + Sum(f, S \ {x}) /\ Sum(f, S) \in Int
  BY SumTakesOut
<1>2. Sum(g, S) = g[x] + Sum(g, S \ {x}) /\ Sum(g, S) \in Int
  BY SumTakesOut
<1>3. IsFiniteSet(S \ {x})
  BY FS_RemoveElement
<1>4. Sum(g, S \ {x}) = Sum(f, S \ {x})
  BY <1>3, SumsAgree
<1>5. Sum(f, S \ {x}) \in Int
  BY <1>3, SumTakesOut
<1> QED
  BY <1>1, <1>2, <1>4, <1>5
===============================================================================
