-------------------------------- MODULE Sums --------------------------------
(***************************************************************************)
(* Induction, stated about sets so that it needs no operator parameter,    *)
(* and what it gives the other proofs: what the sums of the community      *)
(* modules are, whatever element their folds choose next; and remainders.  *)
(***************************************************************************)
EXTENDS Integers, FiniteSets, FiniteSetsExt, Functions, FiniteSetTheorems, WellFoundedInduction,
        TLAPS

\* A non-empty set of numbers has a least one.
LEMMA LeastNatural ==
  ASSUME NEW T, T \subseteq Nat, T # {} PROVE \E x \in T : \A y \in T : x <= y
<1> DEFINE R == OpToRel(<, Nat)
<1>1. IsWellFoundedOn(R, Nat)
  BY NatLessThanWellFounded
<1>2. R = {ss \in Nat \X Nat : ss[1] < ss[2]}
  BY DEF OpToRel
<1>3. \A x, y \in Nat : <<y, x>> \in R <=> y < x
  BY <1>2
<1> HIDE DEF R
<1>4. PICK x \in T : \A y \in T : ~ (<<y, x>> \in R)
  BY <1>1, WFMin
<1>5. ASSUME NEW y \in T PROVE x <= y
  <2>1. x \in Nat /\ y \in Nat /\ ~ (<<y, x>> \in R)
    BY <1>4
  <2>2. ~ (y < x)
    BY <2>1, <1>3
  <2> QED
    BY <2>1, <2>2
<1> QED
  BY <1>5

\* Induction over the numbers: the set of those for which something holds.
LEMMA NatInSet ==
  ASSUME NEW S, 0 \in S, \A n \in Nat : n \in S => n + 1 \in S PROVE Nat \subseteq S
<1> SUFFICES ASSUME Nat \ S # {} PROVE FALSE
  OBVIOUS
<1>1. PICK x \in Nat \ S : \A y \in Nat \ S : x <= y
  BY LeastNatural
<1>2. x - 1 \in Nat /\ x - 1 \in S
  BY <1>1
<1> QED
  BY <1>1, <1>2

LEMMA SmallerSet ==
  ASSUME NEW S, IsFiniteSet(S), NEW s \in SUBSET S, s # {}, NEW x \in s
  PROVE  /\ IsFiniteSet(s) /\ Cardinality(s) \in Nat \ {0}
         /\ s \ {x} \in SUBSET S /\ Cardinality(s \ {x}) = Cardinality(s) - 1
<1>1. IsFiniteSet(s)
  BY FS_Subset
<1>2. Cardinality(s) \in Nat /\ Cardinality(s) # 0
  BY <1>1, FS_CardinalityType, FS_EmptySet
<1>3. Cardinality(s \ {x}) = Cardinality(s) - 1
  BY <1>1, FS_RemoveElement
<1> QED
  BY <1>1, <1>2, <1>3

\* Induction over the subsets of a finite set, one element more at a time.
LEMMA SubsetsInSet ==
  ASSUME NEW S, IsFiniteSet(S), NEW F, {} \in F,
         \A s \in SUBSET S : \A x \in S \ s : s \in F => s \cup {x} \in F
  PROVE  SUBSET S \subseteq F
<1> DEFINE Good == {n \in Nat : \A s \in SUBSET S : Cardinality(s) = n => s \in F}
<1>0. \A s \in SUBSET S : Cardinality(s) \in Nat /\ (Cardinality(s) = 0 <=> s = {})
  BY FS_Subset, FS_CardinalityType, FS_EmptySet
<1>1. 0 \in Good
  BY <1>0
<1>2. ASSUME NEW n \in Nat, n \in Good PROVE n + 1 \in Good
  <2> SUFFICES ASSUME NEW s \in SUBSET S, Cardinality(s) = n + 1 PROVE s \in F
    OBVIOUS
  <2>1. s # {}
    BY <1>0
  <2>2. PICK x \in s : TRUE
    BY <2>1
  <2>3. s \ {x} \in SUBSET S /\ Cardinality(s \ {x}) = n
    BY <2>1, SmallerSet
  <2>4. s \ {x} \in F
    BY <2>3, <1>2
  <2>5. x \in S \ (s \ {x}) /\ (s \ {x}) \cup {x} = s
    BY <2>2
  <2> QED
    BY <2>3, <2>4, <2>5
<1> HIDE DEF Good
<1>3. Nat \subseteq Good
  BY <1>1, <1>2, NatInSet
<1> QED
  BY <1>3, <1>0 DEF Good

-----------------------------------------------------------------------------
\* The recursion of MapThenFoldSet, as a sum of the weights of a set's elements.
SumStep(it, w, s) == IF s = {} THEN 0 ELSE LET x == CHOOSE x \in s : TRUE IN w[x] + it[s \ {x}]
SumsUp(it, w, S) == it = [s \in SUBSET S |-> SumStep(it, w, s)]

LEMMA SumExists ==
  ASSUME NEW S, IsFiniteSet(S), NEW w \in [S -> Nat]
  PROVE  \E it \in [SUBSET S -> Nat] : SumsUp(it, w, S)
<1> DEFINE UpTo(it, n) == \A s \in SUBSET S : Cardinality(s) <= n => it[s] = SumStep(it, w, s)
           Good == {n \in Nat : \E it \in [SUBSET S -> Nat] : UpTo(it, n)}
<1>0. \A s \in SUBSET S : Cardinality(s) \in Nat /\ (Cardinality(s) = 0 <=> s = {})
  BY FS_Subset, FS_CardinalityType, FS_EmptySet
<1>1. 0 \in Good
  <2> DEFINE it == [s \in SUBSET S |-> 0]
  <2>1. it \in [SUBSET S -> Nat] /\ UpTo(it, 0)
    BY <1>0 DEF SumStep
  <2> QED
    BY <2>1
<1>2. ASSUME NEW n \in Nat, n \in Good PROVE n + 1 \in Good
  <2>1. PICK it \in [SUBSET S -> Nat] : UpTo(it, n)
    BY <1>2
  <2> DEFINE more == [s \in SUBSET S |-> IF Cardinality(s) = n + 1 THEN SumStep(it, w, s) ELSE it[s]]
  <2>2. ASSUME NEW s \in SUBSET S PROVE SumStep(it, w, s) \in Nat
    <3>1. CASE s = {}
      BY <3>1 DEF SumStep
    <3>2. CASE s # {}
      <4> DEFINE x == CHOOSE x \in s : TRUE
      <4>1. x \in s
        BY <3>2
      <4>2. w[x] \in Nat /\ it[s \ {x}] \in Nat
        BY <4>1
      <4>3. SumStep(it, w, s) = w[x] + it[s \ {x}]
        BY <3>2 DEF SumStep
      <4> QED
        BY <4>2, <4>3
    <3> QED
      BY <3>1, <3>2
  <2>3. more \in [SUBSET S -> Nat]
    BY <2>2
  <2>4. ASSUME NEW s \in SUBSET S, Cardinality(s) <= n + 1 PROVE more[s] = SumStep(more, w, s)
    <3>1. CASE s = {}
      BY <3>1, <2>1, <1>0 DEF SumStep
    <3>2. CASE s # {}
      <4> DEFINE x == CHOOSE x \in s : TRUE
      <4>1. x \in s
        BY <3>2
      <4>2. s \ {x} \in SUBSET S /\ Cardinality(s \ {x}) <= n /\ Cardinality(s \ {x}) \in Nat
        <5>1. Cardinality(s \ {x}) = Cardinality(s) - 1 /\ Cardinality(s) \in Nat \ {0}
          BY <4>1, <3>2, SmallerSet
        <5> QED
          BY <5>1, <2>4
      <4>3. more[s \ {x}] = it[s \ {x}]
        BY <4>2
      <4>4. SumStep(more, w, s) = SumStep(it, w, s)
        BY <4>3, <3>2 DEF SumStep
      <4>5. it[s] = SumStep(it, w, s) \/ Cardinality(s) = n + 1
        BY <2>1, <2>4, <1>0
      <4> QED
        BY <4>4, <4>5
    <3> QED
      BY <3>1, <3>2
  <2>5. UpTo(more, n + 1)
    BY <2>4
  <2> HIDE DEF more, UpTo
  <2> QED
    BY <2>3, <2>5
<1> HIDE DEF Good
<1>3. Cardinality(S) \in Good
  BY <1>1, <1>2, NatInSet, FS_CardinalityType
<1>4. PICK it \in [SUBSET S -> Nat] : UpTo(it, Cardinality(S))
  BY <1>3 DEF Good
<1>5. \A s \in SUBSET S : Cardinality(s) <= Cardinality(S)
  BY FS_Subset
<1>6. \A s \in SUBSET S : it[s] = SumStep(it, w, s)
  BY <1>4, <1>5
<1> HIDE DEF UpTo
<1>7. it = [s \in SUBSET S |-> SumStep(it, w, s)]
  BY <1>6
<1> QED
  BY <1>7 DEF SumsUp

\* Whichever element the fold takes first, each counts once.
Adds(it, w, S) == /\ it \in [SUBSET S -> Nat] /\ it[{}] = 0
                  /\ \A s \in SUBSET S : \A x \in s : it[s] = w[x] + it[s \ {x}]

LEMMA SumRemoves ==
  ASSUME NEW S, IsFiniteSet(S), NEW w \in [S -> Nat], NEW it, SumsUp(it, w, S)
  PROVE  Adds(it, w, S)
<1> DEFINE Typed == {n \in Nat : \A s \in SUBSET S : Cardinality(s) = n => it[s] \in Nat}
           Good == {n \in Nat : \A s \in SUBSET S : Cardinality(s) = n =>
                                   \A x \in s : it[s] = w[x] + it[s \ {x}]}
<1>0. \A s \in SUBSET S : IsFiniteSet(s) /\ Cardinality(s) \in Nat /\ (Cardinality(s) = 0 <=> s = {})
  BY FS_Subset, FS_CardinalityType, FS_EmptySet
<1>1. \A s \in SUBSET S : it[s] = SumStep(it, w, s)
  BY DEF SumsUp
<1>2. it[{}] = 0
  BY <1>1 DEF SumStep
<1>3. ASSUME NEW s \in SUBSET S, s # {}
      PROVE  \E y \in s : it[s] = w[y] + it[s \ {y}]
  <2> DEFINE y == CHOOSE y \in s : TRUE
  <2>1. y \in s
    BY <1>3
  <2>2. it[s] = w[y] + it[s \ {y}]
    BY <1>1, <1>3 DEF SumStep
  <2> QED
    BY <2>1, <2>2
<1>4. \A s \in SUBSET S : it[s] \in Nat
  <2>1. 0 \in Typed
    BY <1>0, <1>2
  <2>2. ASSUME NEW n \in Nat, n \in Typed PROVE n + 1 \in Typed
    <3> SUFFICES ASSUME NEW s \in SUBSET S, Cardinality(s) = n + 1 PROVE it[s] \in Nat
      OBVIOUS
    <3>1. s # {}
      BY <1>0
    <3>2. PICK y \in s : it[s] = w[y] + it[s \ {y}]
      BY <3>1, <1>3
    <3>3. Cardinality(s \ {y}) = n /\ s \ {y} \in SUBSET S
      BY <3>1, SmallerSet
    <3> QED
      BY <3>2, <3>3, <2>2
  <2> HIDE DEF Typed
  <2>3. Nat \subseteq Typed
    BY <2>1, <2>2, NatInSet
  <2> QED
    BY <2>3, <1>0 DEF Typed
<1>5. \A s \in SUBSET S : \A x \in s : it[s] = w[x] + it[s \ {x}]
  <2>1. 0 \in Good
    BY <1>0
  <2>2. ASSUME NEW n \in Nat, n \in Good PROVE n + 1 \in Good
    <3> SUFFICES ASSUME NEW s \in SUBSET S, Cardinality(s) = n + 1, NEW x \in s
                 PROVE it[s] = w[x] + it[s \ {x}]
      OBVIOUS
    <3>1. PICK y \in s : it[s] = w[y] + it[s \ {y}]
      BY <1>3
    <3>2. CASE x = y
      BY <3>1, <3>2
    <3>3. CASE x # y
      <4>1. /\ Cardinality(s \ {y}) = n /\ s \ {y} \in SUBSET S
            /\ Cardinality(s \ {x}) = n /\ s \ {x} \in SUBSET S
        <5>1. \A z \in s : Cardinality(s \ {z}) = Cardinality(s) - 1 /\ s \ {z} \in SUBSET S
          BY SmallerSet
        <5> QED
          BY <5>1
      <4>2. x \in s \ {y} /\ y \in s \ {x} /\ (s \ {y}) \ {x} = (s \ {x}) \ {y}
        BY <3>3
      <4>3. it[s \ {y}] = w[x] + it[(s \ {y}) \ {x}]
        BY <4>1, <4>2, <2>2
      <4>4. it[s \ {x}] = w[y] + it[(s \ {y}) \ {x}]
        BY <4>1, <4>2, <2>2
      <4>5. it[(s \ {y}) \ {x}] \in Nat /\ w[x] \in Nat /\ w[y] \in Nat
        BY <1>4
      <4> HIDE DEF Good
      <4> QED
        BY <3>1, <4>3, <4>4, <4>5
    <3> QED
      BY <3>2, <3>3
  <2> HIDE DEF Good
  <2>3. Nat \subseteq Good
    BY <2>1, <2>2, NatInSet
  <2> QED
    BY <2>3, <1>0 DEF Good
<1>6. it \in [SUBSET S -> Nat]
  BY <1>4 DEF SumsUp
<1> QED
  BY <1>2, <1>5, <1>6 DEF Adds

\* The community modules' sum of a function's values.
LEMMA SumFunctionIs ==
  ASSUME NEW S, IsFiniteSet(S), NEW f \in [S -> Nat]
  PROVE  \E it : SumsUp(it, f, S) /\ SumFunction(f) = it[S]
<1> DEFINE P(it) == it = [s \in SUBSET S |-> IF s = {} THEN 0
                                             ELSE f[CHOOSE x \in s : TRUE]
                                                  + it[s \ {CHOOSE x \in s : TRUE}]]
<1>1. \E it : P(it)
  <2>1. PICK it : SumsUp(it, f, S)
    BY SumExists, Zenon
  <2>2. P(it)
    BY <2>1 DEF SumsUp, SumStep
  <2> QED
    BY <2>2
<1>2. P(CHOOSE it : P(it))
  BY <1>1
<1>3. SumFunction(f) = (CHOOSE it : P(it))[S]
  BY DEF SumFunction, SumFunctionOnSet, FoldFunctionOnSet, MapThenFoldSet
<1> QED
  BY <1>2, <1>3 DEF SumsUp, SumStep

LEMMA SumFunctionFacts ==
  ASSUME NEW S, IsFiniteSet(S), NEW f \in [S -> Nat]
  PROVE  /\ SumFunction(f) \in Nat
         /\ \A x \in S : f[x] <= SumFunction(f)
<1>1. PICK it : SumsUp(it, f, S) /\ SumFunction(f) = it[S]
  BY SumFunctionIs
<1>2. Adds(it, f, S)
  BY <1>1, SumRemoves
<1>3. ASSUME NEW x \in S PROVE f[x] <= it[S]
  <2>1. it[S] = f[x] + it[S \ {x}] /\ it[S \ {x}] \in Nat /\ f[x] \in Nat
    BY <1>2 DEF Adds
  <2> QED
    BY <2>1
<1> QED
  BY <1>1, <1>2, <1>3 DEF Adds

-----------------------------------------------------------------------------
\* Division leaves one remainder.
LEMMA OneRemainder ==
  ASSUME NEW M \in Nat \ {0}, NEW p \in Int, NEW q \in Int, NEW r \in 0..(M - 1), NEW s \in 0..(M - 1),
         p * M + r = q * M + s
  PROVE  p = q /\ r = s
<1>1. ASSUME NEW a \in Int, NEW b \in Int, a < b PROVE b * M - a * M >= M
  <2>1. b - a - 1 \in Nat
    BY <1>1
  <2>2. (b - a - 1) * M \in Nat
    BY <2>1
  <2>3. (b - a - 1) * M = b * M - a * M - M
    OBVIOUS
  <2> QED
    BY <2>2, <2>3
<1>2. ~ (p < q) /\ ~ (q < p)
  <2>1. p * M \in Int /\ q * M \in Int
    OBVIOUS
  <2>2. p < q => q * M - p * M >= M
    BY <1>1
  <2>3. q < p => p * M - q * M >= M
    BY <1>1
  <2> QED
    BY <2>1, <2>2, <2>3
<1> QED
  BY <1>2

LEMMA Divide ==
  ASSUME NEW M \in Nat \ {0}, NEW k \in Nat
  PROVE  /\ k \div M \in Nat /\ k % M \in 0..(M - 1)
         /\ k = (k \div M) * M + (k % M)
OBVIOUS

LEMMA NextRemainder ==
  ASSUME NEW M \in Nat \ {0}, NEW k \in Nat
  PROVE  (k + 1) % M = IF (k % M) + 1 = M THEN 0 ELSE (k % M) + 1
<1> DEFINE q == k \div M
           m == k % M
           Q == (k + 1) \div M
           R == (k + 1) % M
<1>1. q \in Nat /\ m \in 0..(M - 1) /\ k = q * M + m
  BY Divide
<1>6. k + 1 \in Nat
  OBVIOUS
<1>2. Q \in Nat /\ R \in 0..(M - 1) /\ k + 1 = Q * M + R
  BY <1>6, Divide
<1> HIDE DEF q, m, Q, R
<1>3. q * M \in Int /\ (q + 1) * M = q * M + M
  BY <1>1
<1>4. CASE m + 1 = M
  <2>1. Q * M + R = (q + 1) * M + 0
    BY <1>1, <1>2, <1>3, <1>4
  <2>2. R = 0
    BY <2>1, <1>1, <1>2, OneRemainder
  <2> QED
    BY <2>2, <1>4 DEF m, R
<1>5. CASE m + 1 # M
  <2>1. Q * M + R = q * M + (m + 1) /\ m + 1 \in 0..(M - 1)
    BY <1>1, <1>2, <1>5
  <2>2. R = m + 1
    BY <2>1, <1>1, <1>2, OneRemainder
  <2> QED
    BY <2>2, <1>5 DEF m, R
<1> QED
  BY <1>4, <1>5
=============================================================================
