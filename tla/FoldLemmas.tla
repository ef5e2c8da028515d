----------------------------- MODULE FoldLemmas -----------------------------
(***************************************************************************)
(* Facts about the folds of the community modules, which define each fold  *)
(* as a function over the subsets of a finite set that takes the chosen    *)
(* element away.  Here c is that choice and h the function.                *)
(***************************************************************************)
EXTENDS Integers, FiniteSets, FiniteSetTheorems, WellFoundedInduction, TLAPS

(* A set of naturals with 0 and the successor of each member has them all. *)
LEMMA NaturalsByStep ==
  ASSUME NEW N, 0 \in N, \A n \in N \cap Nat : n + 1 \in N
  PROVE  Nat \subseteq N
<1>1. SUFFICES ASSUME Nat \ N # {} PROVE FALSE
  OBVIOUS
<1>2. PICK n \in Nat \ N : \A m \in Nat \ N : ~ (<<m, n>> \in OpToRel(<, Nat))
  <2>1. Nat \ N \subseteq Nat
    OBVIOUS
  <2> QED
    BY <1>1, <2>1, NatLessThanWellFounded, WFMin
<1>3. n \in Nat /\ n # 0 /\ n - 1 \in Nat
  OBVIOUS
<1>4. <<n - 1, n>> \in OpToRel(<, Nat)
  BY <1>3 DEF OpToRel
<1>5. n - 1 \in N
  BY <1>2, <1>3, <1>4
<1>6. (n - 1) + 1 \in N
  BY <1>3, <1>5
<1>7. (n - 1) + 1 = n
  BY <1>3
<1> QED
  BY <1>6, <1>7

\* c chooses an element of every set that a fold over S comes to.
Choice(c, S) == \A s \in (SUBSET S) \ {{}} : c[s] \in s

(* Induction over the subsets of a finite set along the choice c. *)
LEMMA SubsetsByChoice ==
  ASSUME NEW S, IsFiniteSet(S),
         NEW c, \A s \in (SUBSET S) \ {{}} : c[s] \in s,
         NEW T, {} \in T,
         \A s \in (SUBSET S) \ {{}} : s \ {c[s]} \in T => s \in T
  PROVE  SUBSET S \subseteq T
<1> DEFINE N == {n \in Nat : \A s \in SUBSET S : Cardinality(s) <= n => s \in T}
<1>1. \A s \in SUBSET S : IsFiniteSet(s) /\ Cardinality(s) \in Nat
  BY FS_Subset, FS_CardinalityType
<1>2. 0 \in N
  BY <1>1, FS_EmptySet
<1>3. ASSUME NEW n \in N PROVE n + 1 \in N
  <2>1. ASSUME NEW s \in SUBSET S, Cardinality(s) <= n + 1 PROVE s \in T
    <3>1. CASE s = {}
      BY <3>1
    <3>2. CASE s # {}
      <4>1. c[s] \in s /\ s \ {c[s]} \in SUBSET S
        BY <3>2
      <4>2. Cardinality(s \ {c[s]}) = Cardinality(s) - 1
        BY <1>1, <4>1, FS_RemoveElement
      <4>3. Cardinality(s \ {c[s]}) <= n
        BY <1>1, <2>1, <4>2
      <4>4. s \ {c[s]} \in T
        BY <4>1, <4>3
      <4> QED
        BY <3>2, <4>4
    <3> QED
      BY <3>1, <3>2
  <2> QED
    BY <2>1
<1>4. Nat \subseteq N
  <2> HIDE DEF N
  <2> QED
    BY <1>2, <1>3, NaturalsByStep
<1>5. ASSUME NEW s \in SUBSET S PROVE s \in T
  <2>1. Cardinality(s) \in N
    BY <1>1, <1>4
  <2> QED
    BY <1>1, <2>1
<1> QED
  BY <1>5

-----------------------------------------------------------------------------
(* Sums of naturals.  Total is the sum without a recursion: the number of  *)
(* unit layers the values are made of.                                     *)

Layers(f, S) == {l \in S \X Nat : 1 <= l[2] /\ l[2] <= f[l[1]]}
Total(f, S) == Cardinality(Layers(f, S))

(* The layers of one element are as many as its value says. *)
LEMMA OneLayers ==
  ASSUME NEW x, NEW n \in Nat
  PROVE  IsFiniteSet({x} \X (1..n)) /\ Cardinality({x} \X (1..n)) = n
<1> DEFINE T == {x} \X (1..n)
           b == [i \in 1..n |-> <<x, i>>]
<1>1. b \in [1..n -> T]
  OBVIOUS
<1>2. \A t \in T : \E i \in 1..n : b[i] = t
  OBVIOUS
<1>3. \A i, k \in 1..n : b[i] = b[k] => i = k
  OBVIOUS
<1>4. b \in Bijection(1..n, T)
  <2> HIDE DEF b, T
  <2>1. b \in Injection(1..n, T)
    BY <1>1, <1>3 DEF Injection, IsInjective
  <2>2. b \in Surjection(1..n, T)
    BY <1>1, <1>2 DEF Surjection
  <2> QED
    BY <2>1, <2>2 DEF Bijection
<1>5. IsFiniteSet(1..n) /\ Cardinality(1..n) = n
  BY FS_Interval
<1>6. ExistsBijection(1..n, T)
  BY <1>4 DEF ExistsBijection
<1> QED
  BY <1>5, <1>6, FS_Bijection

(* One more element adds its value to a total that is finite. *)
LEMMA LayersAdd ==
  ASSUME NEW f, NEW S, NEW x, x \notin S, f[x] \in Nat,
         IsFiniteSet(Layers(f, S))
  PROVE  /\ IsFiniteSet(Layers(f, S \cup {x}))
         /\ Total(f, S \cup {x}) = Total(f, S) + f[x]
<1> DEFINE L == Layers(f, S)
           X == {x} \X (1..f[x])
<1>1. Layers(f, S \cup {x}) = L \cup X
  BY DEF Layers
<1>2. L \cap X = {}
  BY DEF Layers
<1>3. IsFiniteSet(X) /\ Cardinality(X) = f[x]
  BY OneLayers
<1>4. Cardinality(L) \in Nat
  BY FS_CardinalityType
<1> HIDE DEF L, X
<1>5. /\ IsFiniteSet(L \cup X)
      /\ Cardinality(L \cup X) = Cardinality(L) + Cardinality(X) - Cardinality(L \cap X)
  BY <1>3, FS_Union DEF L
<1>6. Cardinality(L \cap X) = 0
  BY <1>2, FS_EmptySet
<1>7. Cardinality(L \cup X) = Cardinality(L) + f[x]
  BY <1>3, <1>4, <1>5, <1>6
<1> QED
  BY <1>1, <1>5, <1>7 DEF Total, L

(* The layers of a finite set are finite. *)
LEMMA LayersFinite ==
  ASSUME NEW S, IsFiniteSet(S), NEW f, \A x \in S : f[x] \in Nat
  PROVE  IsFiniteSet(Layers(f, S)) /\ Total(f, S) \in Nat
<1> DEFINE c == [s \in (SUBSET S) \ {{}} |-> CHOOSE x \in s : TRUE]
           T == {s \in SUBSET S : IsFiniteSet(Layers(f, s))}
<1>1. \A s \in (SUBSET S) \ {{}} : c[s] \in s
  OBVIOUS
<1>2. {} \in T
  <2>1. Layers(f, {}) = {}
    BY DEF Layers
  <2> QED
    BY <2>1, FS_EmptySet
<1>3. ASSUME NEW s \in (SUBSET S) \ {{}}, s \ {c[s]} \in T PROVE s \in T
  <2> DEFINE y == c[s]
             r == s \ {y}
  <2>1. y \in s /\ y \notin r /\ f[y] \in Nat /\ s = r \cup {y}
    BY <1>1
  <2>2. IsFiniteSet(Layers(f, r))
    BY <1>3
  <2> HIDE DEF y, r, c
  <2>3. IsFiniteSet(Layers(f, r \cup {y}))
    BY <2>1, <2>2, LayersAdd
  <2> QED
    BY <2>1, <2>3
<1>4. SUBSET S \subseteq T
  <2> HIDE DEF c, T
  <2> QED
    BY <1>1, <1>2, <1>3, SubsetsByChoice
<1>5. IsFiniteSet(Layers(f, S))
  BY <1>4
<1> QED
  BY <1>5, FS_CardinalityType DEF Total

(* Nothing sums up to zero. *)
LEMMA TotalEmpty ==
  ASSUME NEW f
  PROVE  Total(f, {}) = 0
<1>1. Layers(f, {}) = {}
  BY DEF Layers
<1> QED
  BY <1>1, FS_EmptySet DEF Total

(* Zeros sum up to zero. *)
LEMMA TotalZero ==
  ASSUME NEW S, NEW f, \A x \in S : f[x] = 0
  PROVE  Total(f, S) = 0
<1>1. Layers(f, S) = {}
  BY DEF Layers
<1> QED
  BY <1>1, FS_EmptySet DEF Total

(* The total with one more element. *)
LEMMA TotalAdd ==
  ASSUME NEW S, IsFiniteSet(S), NEW f, \A x \in S : f[x] \in Nat,
         NEW x, x \notin S, f[x] \in Nat
  PROVE  Total(f, S \cup {x}) = Total(f, S) + f[x]
BY LayersFinite, LayersAdd

(* A part sums up to no more than the whole. *)
LEMMA TotalPart ==
  ASSUME NEW S, IsFiniteSet(S), NEW f, \A x \in S : f[x] \in Nat,
         NEW R \in SUBSET S
  PROVE  Total(f, R) \in Nat /\ Total(f, S) \in Nat /\ Total(f, R) <= Total(f, S)
<1>1. IsFiniteSet(R) /\ \A x \in R : f[x] \in Nat
  BY FS_Subset
<1>2. Layers(f, R) \in SUBSET Layers(f, S)
  BY DEF Layers
<1>3. Total(f, R) <= Total(f, S)
  BY <1>2, LayersFinite, FS_Subset DEF Total
<1> QED
  BY <1>1, <1>3, LayersFinite

(* Values that agree have the same total. *)
LEMMA TotalSame ==
  ASSUME NEW S, NEW f, NEW g, \A x \in S : f[x] = g[x]
  PROVE  Total(f, S) = Total(g, S)
<1>1. Layers(f, S) = Layers(g, S)
  BY DEF Layers
<1> QED
  BY <1>1 DEF Total

(* The total of values that agree everywhere but in x. *)
LEMMA TotalBut ==
  ASSUME NEW S, IsFiniteSet(S), NEW f \in [S -> Nat], NEW g \in [S -> Nat],
         NEW x \in S, \A y \in S : y # x => g[y] = f[y]
  PROVE  Total(g, S) = (Total(f, S) - f[x]) + g[x]
<1> DEFINE R == S \ {x}
<1>1. IsFiniteSet(R) /\ x \notin R /\ S = R \cup {x}
  BY FS_RemoveElement
<1>2. \A y \in R : f[y] = g[y] /\ f[y] \in Nat /\ g[y] \in Nat
  OBVIOUS
<1>3. f[x] \in Nat /\ g[x] \in Nat
  OBVIOUS
<1> HIDE DEF R
<1>4. Total(f, R \cup {x}) = Total(f, R) + f[x]
  BY <1>1, <1>2, <1>3, TotalAdd
<1>5. Total(g, R \cup {x}) = Total(g, R) + g[x]
  BY <1>1, <1>2, <1>3, TotalAdd
<1>6. Total(f, R) = Total(g, R)
  BY <1>2, TotalSame
<1>7. Total(f, R) \in Nat
  BY <1>1, <1>2, LayersFinite
<1> QED
  BY <1>1, <1>3, <1>4, <1>5, <1>6, <1>7

(* The recursion of a sum exists, and what it returns is the total. *)
LEMMA SumRecursion ==
  ASSUME NEW S, IsFiniteSet(S), NEW f, \A x \in S : f[x] \in Nat,
         NEW c, \A s \in (SUBSET S) \ {{}} : c[s] \in s
  PROVE  /\ \E h : h = [s \in SUBSET S |->
                          IF s = {} THEN 0 ELSE f[c[s]] + h[s \ {c[s]}]]
         /\ \A h : h = [s \in SUBSET S |->
                          IF s = {} THEN 0 ELSE f[c[s]] + h[s \ {c[s]}]]
              => h[S] = Total(f, S)
<1>1. ASSUME NEW s \in (SUBSET S) \ {{}}
      PROVE  /\ s \ {c[s]} \in SUBSET S
             /\ Total(f, s) = f[c[s]] + Total(f, s \ {c[s]})
  <2> DEFINE y == c[s]
             r == s \ {y}
  <2>1. y \in s /\ y \notin r /\ f[y] \in Nat /\ s = r \cup {y} /\ r \in SUBSET S
    OBVIOUS
  <2>2. IsFiniteSet(r) /\ \A x \in r : f[x] \in Nat
    BY FS_Subset
  <2> HIDE DEF y, r
  <2>3. Total(f, r \cup {y}) = Total(f, r) + f[y]
    BY <2>1, <2>2, TotalAdd
  <2>4. Total(f, r) \in Nat
    BY <2>2, LayersFinite
  <2>5. Total(f, s) = f[y] + Total(f, r)
    BY <2>1, <2>3, <2>4
  <2> QED
    BY <2>1, <2>5 DEF y, r
<1>2. \E h : h = [s \in SUBSET S |-> IF s = {} THEN 0 ELSE f[c[s]] + h[s \ {c[s]}]]
  <2> DEFINE g == [s \in SUBSET S |-> Total(f, s)]
  <2>1. g = [s \in SUBSET S |-> IF s = {} THEN 0 ELSE f[c[s]] + g[s \ {c[s]}]]
    BY <1>1, TotalEmpty
  <2> QED
    BY <2>1
<1>3. ASSUME NEW h,
             h = [s \in SUBSET S |-> IF s = {} THEN 0 ELSE f[c[s]] + h[s \ {c[s]}]]
      PROVE  h[S] = Total(f, S)
  <2> DEFINE T == {s \in SUBSET S : h[s] = Total(f, s)}
  <2>1. {} \in T
    BY <1>3, TotalEmpty
  <2>2. ASSUME NEW s \in (SUBSET S) \ {{}}, s \ {c[s]} \in T PROVE s \in T
    <3>1. h[s] = f[c[s]] + h[s \ {c[s]}]
      BY <1>3
    <3> QED
      BY <1>1, <2>2, <3>1
  <2>3. SUBSET S \subseteq T
    <3> HIDE DEF T
    <3> QED
      BY <2>1, <2>2, SubsetsByChoice
  <2> QED
    BY <2>3
<1> QED
  BY <1>2, <1>3

(* SumFunction is the total of a function's values. *)
LEMMA SumFunctionTotal ==
  ASSUME NEW S, IsFiniteSet(S), NEW f \in [S -> Nat]
  PROVE  SumFunction(f) = Total(f, S)
<1> DEFINE c == [s \in (SUBSET S) \ {{}} |-> CHOOSE x \in s : TRUE]
           Rec(h) == [s \in SUBSET S |->
                        IF s = {} THEN 0 ELSE f[c[s]] + h[s \ {c[s]}]]
           iter == CHOOSE h : h = Rec(h)
<1>1. /\ \E h : h = Rec(h)
      /\ \A h : h = Rec(h) => h[S] = Total(f, S)
  <2>1. \A s \in (SUBSET S) \ {{}} : c[s] \in s
    OBVIOUS
  <2> HIDE DEF c
  <2> QED
    BY <2>1, SumRecursion
<1>2. iter = Rec(iter)
  <2> HIDE DEF Rec
  <2> QED
    BY <1>1
<1>3. SumFunction(f) = iter[S]
  <2> DEFINE Body(h) == [s \in SUBSET S |->
               IF s = {} THEN 0
               ELSE f[CHOOSE x \in s : TRUE] + h[s \ {CHOOSE x \in s : TRUE}]]
  <2>1. SumFunction(f) = (CHOOSE h : h = Body(h))[S]
    <3>1. DOMAIN f = S
      OBVIOUS
    <3> QED
      BY <3>1, Zenon DEF SumFunction, SumFunctionOnSet, FoldFunctionOnSet, MapThenFoldSet
  <2>2. ASSUME NEW h PROVE Body(h) = Rec(h)
    <3>1. \A s \in (SUBSET S) \ {{}} : c[s] = CHOOSE x \in s : TRUE
      OBVIOUS
    <3> HIDE DEF c
    <3> QED
      BY <3>1
  <2>3. (CHOOSE h : h = Body(h)) = (CHOOSE h : h = Rec(h))
    <3> HIDE DEF Body, Rec
    <3> QED
      BY <2>2
  <2> QED
    BY <2>1, <2>3
<1> QED
  BY <1>1, <1>2, <1>3

-----------------------------------------------------------------------------
(* Folds whose accumulators stay in a set A.                               *)

\* h is the recursion of the fold of G over S from base.
IsFold(h, S, c, A, base, G) ==
  /\ h \in [SUBSET S -> A]
  /\ \A s \in SUBSET S : h[s] = IF s = {} THEN base ELSE G[c[s]][h[s \ {c[s]}]]

(* The recursion of a fold over a finite set exists. *)
LEMMA FoldRecursion ==
  ASSUME NEW S, IsFiniteSet(S),
         NEW c, Choice(c, S),
         NEW A, NEW base \in A, NEW G \in [S -> [A -> A]]
  PROVE  \E h : IsFold(h, S, c, A, base, G)
<1> DEFINE Step(h, s) == IF s = {} THEN base ELSE G[c[s]][h[s \ {c[s]}]]
           Good(h, n) == \A s \in SUBSET S : Cardinality(s) <= n => h[s] = Step(h, s)
           N == {n \in Nat : \E h \in [SUBSET S -> A] : Good(h, n)}
<1>1. ASSUME NEW s \in SUBSET S
      PROVE  IsFiniteSet(s) /\ Cardinality(s) \in Nat /\ (Cardinality(s) = 0 => s = {})
  BY FS_Subset, FS_CardinalityType, FS_EmptySet
<1>2. ASSUME NEW s \in (SUBSET S) \ {{}}
      PROVE  /\ c[s] \in S /\ s \ {c[s]} \in SUBSET S
             /\ Cardinality(s \ {c[s]}) = Cardinality(s) - 1
  <2>1. c[s] \in s
    BY DEF Choice
  <2>2. Cardinality(s \ {c[s]}) = Cardinality(s) - 1
    <3> DEFINE y == c[s]
    <3>1. IsFiniteSet(s) /\ y \in s
      BY <1>1, <2>1
    <3> HIDE DEF y
    <3>2. Cardinality(s \ {y}) = Cardinality(s) - 1
      BY <3>1, FS_RemoveElement
    <3> QED
      BY <3>2 DEF y
  <2> QED
    BY <2>1, <2>2
<1>3. 0 \in N
  <2> DEFINE h == [s \in SUBSET S |-> base]
  <2>1. h \in [SUBSET S -> A] /\ Good(h, 0)
    BY <1>1
  <2> QED
    BY <2>1
<1>4. ASSUME NEW n \in N PROVE n + 1 \in N
  <2>1. PICK h \in [SUBSET S -> A] : Good(h, n)
    OBVIOUS
  <2> DEFINE g == [s \in SUBSET S |-> Step(h, s)]
  <2>2. ASSUME NEW s \in SUBSET S PROVE Step(h, s) \in A
    <3>1. CASE s = {}
      BY <3>1
    <3>2. CASE s # {}
      <4>1. c[s] \in S /\ h[s \ {c[s]}] \in A
        BY <1>2, <3>2
      <4> QED
        BY <3>2, <4>1
    <3> QED
      BY <3>1, <3>2
  <2>3. g \in [SUBSET S -> A]
    <3> HIDE DEF Step
    <3> QED
      BY <2>2
  <2>4. ASSUME NEW s \in SUBSET S, Cardinality(s) <= n + 1 PROVE g[s] = Step(g, s)
    <3>1. CASE s = {}
      BY <3>1
    <3>2. CASE s # {}
      <4> DEFINE r == s \ {c[s]}
      <4>1. r \in SUBSET S /\ Cardinality(r) <= n
        BY <1>1, <1>2, <2>4, <3>2
      <4>2. h[r] = Step(h, r)
        BY <2>1, <4>1
      <4>3. g[r] = h[r]
        <5> HIDE DEF Step, r
        <5> QED
          BY <4>1, <4>2
      <4> QED
        BY <3>2, <4>3
    <3> QED
      BY <3>1, <3>2
  <2>5. Good(g, n + 1)
    <3> HIDE DEF g, Step
    <3> QED
      BY <2>4
  <2> HIDE DEF Good, g
  <2> QED
    BY <2>3, <2>5
<1>5. Cardinality(S) \in N
  <2>1. Nat \subseteq N
    <3> HIDE DEF N
    <3> QED
      BY <1>3, <1>4, NaturalsByStep
  <2> QED
    BY <1>1, <2>1
<1>6. PICK h \in [SUBSET S -> A] : Good(h, Cardinality(S))
  <2> HIDE DEF Good
  <2> QED
    BY <1>5
<1>7. \A s \in SUBSET S : h[s] = Step(h, s)
  <2> HIDE DEF Step
  <2> QED
    BY <1>6, FS_Subset
<1> QED
  BY <1>7 DEF IsFold

=============================================================================
