------------------------------ MODULE FiniteSums ------------------------------
(***************************************************************************)
(* Sums over finite sets, as the modules write them with MapThenSumSet of  *)
(* the community modules: the equation of the fold, and that the order in  *)
(* which it chooses the elements does not matter.                          *)
(*                                                                         *)
(* The fold is a recursive function over subsets, so these are proofs by   *)
(* induction.  An induction here takes the set of the subsets that violate *)
(* a claim and looks at a smallest one of them.                            *)
(***************************************************************************)
EXTENDS Integers, FiniteSetsExt, FiniteSetTheorems, WellFoundedInduction, TLAPS

Total(a, S) == MapThenSumSet(LAMBDA x : a[x], S)

(* The element a fold takes next. *)
Pick(s) == CHOOSE x \in s : TRUE

(* f is the fold of a over the subsets of S. *)
Adds(f, a, S) ==
    f = [s \in SUBSET S |-> IF s = {} THEN 0 ELSE a[Pick(s)] + f[s \ {Pick(s)}]]

--------------------------------------------------------------------------------
(* Among sets of subsets of a finite set there is a smallest. *)
LEMMA SmallestSubset ==
    ASSUME NEW S, IsFiniteSet(S), NEW T \in SUBSET SUBSET S, T # {}
    PROVE  \E X \in T : \A Y \in T : Y \subseteq X => Y = X
  <1>1. IsWellFoundedOn(StrictSubsetOrdering(S), SUBSET S)
    BY FS_StrictSubsetOrderingWellFounded, FS_FiniteSubsetsOfFinite
  <1>2. \E X \in T : \A Y \in T : ~ (<<Y, X>> \in StrictSubsetOrdering(S))
    BY <1>1, WFMin
  <1> QED BY <1>2 DEF StrictSubsetOrdering

LEMMA PickIsElement ==
    ASSUME NEW s, s # {}
    PROVE  Pick(s) \in s
  BY DEF Pick

LEMMA AddsEquation ==
    ASSUME NEW S, NEW a, NEW f, Adds(f, a, S), NEW s \in SUBSET S
    PROVE  f[s] = IF s = {} THEN 0 ELSE a[Pick(s)] + f[s \ {Pick(s)}]
  <1> DEFINE G == [t \in SUBSET S |-> IF t = {} THEN 0 ELSE a[Pick(t)] + f[t \ {Pick(t)}]]
  <1>1. f = G
    BY DEF Adds
  <1>2. G[s] = IF s = {} THEN 0 ELSE a[Pick(s)] + f[s \ {Pick(s)}]
    OBVIOUS
  <1> HIDE DEF G
  <1> QED BY <1>1, <1>2

(* Folds over two sets agree on their common subsets. *)
LEMMA FoldUnique ==
    ASSUME NEW S, IsFiniteSet(S), NEW U, NEW a, NEW b, NEW f, NEW g,
           Adds(f, a, S), Adds(g, b, U),
           \A x \in S : a[x] = b[x]
    PROVE  \A s \in SUBSET S : s \in SUBSET U => f[s] = g[s]
  <1> DEFINE T == {s \in SUBSET S : s \in SUBSET U /\ f[s] # g[s]}
  <1> SUFFICES ASSUME T # {} PROVE FALSE
    OBVIOUS
  <1>1. PICK X \in T : \A Y \in T : Y \subseteq X => Y = X
    <2>1. T \in SUBSET SUBSET S
      OBVIOUS
    <2> HIDE DEF T
    <2> QED BY <2>1, SmallestSubset
  <1>2. X \in SUBSET S /\ X \in SUBSET U /\ f[X] # g[X]
    BY <1>1
  <1>3. CASE X = {}
    BY <1>2, <1>3, AddsEquation
  <1>4. CASE X # {}
    <2>1. Pick(X) \in X
      BY <1>4, PickIsElement
    <2>2. X \ {Pick(X)} \notin T
      BY <1>1, <2>1
    <2>3. f[X \ {Pick(X)}] = g[X \ {Pick(X)}]
      BY <1>2, <2>2
    <2> HIDE DEF T
    <2>4. f[X] = a[Pick(X)] + f[X \ {Pick(X)}]
      BY <1>2, <1>4, AddsEquation
    <2>5. g[X] = b[Pick(X)] + g[X \ {Pick(X)}]
      BY <1>2, <1>4, AddsEquation
    <2> QED BY <1>2, <2>1, <2>3, <2>4, <2>5
  <1> QED BY <1>3, <1>4

(* The recursion defines a function. *)
LEMMA FoldExists ==
    ASSUME NEW S, IsFiniteSet(S), NEW a
    PROVE  \E f : Adds(f, a, S)
  <1> DEFINE T == {s \in SUBSET S : ~ \E f : Adds(f, a, s)}
  <1> SUFFICES ASSUME T # {} PROVE FALSE
    OBVIOUS
  <1>1. PICK X \in T : \A Y \in T : Y \subseteq X => Y = X
    <2>1. T \in SUBSET SUBSET S
      OBVIOUS
    <2> HIDE DEF T
    <2> QED BY <2>1, SmallestSubset
  <1>2. X \in SUBSET S /\ IsFiniteSet(X) /\ ~ \E f : Adds(f, a, X)
    BY <1>1, FS_Subset
  <1> DEFINE g(s) == CHOOSE f : Adds(f, a, s)
             f == [s \in SUBSET X |->
                     IF s = {} THEN 0
                     ELSE a[Pick(s)] + g(s \ {Pick(s)})[s \ {Pick(s)}]]
  <1>3. ASSUME NEW s \in SUBSET X, s # X
        PROVE  Adds(g(s), a, s) /\ IsFiniteSet(s)
    <2>1. \E h : Adds(h, a, s)
      BY <1>1, <1>3
    <2> QED BY <2>1, <1>2, FS_Subset
  <1>4. ASSUME NEW s \in SUBSET X, s # X
        PROVE  f[s] = g(s)[s]
    <2>1. Adds(g(s), a, s) /\ IsFiniteSet(s)
      BY <1>3, <1>4
    <2>2. g(s)[s] = IF s = {} THEN 0 ELSE a[Pick(s)] + g(s)[s \ {Pick(s)}]
      BY <2>1, AddsEquation
    <2>3. CASE s = {}
      BY <2>2, <2>3
    <2>4. CASE s # {}
      <3> DEFINE t == s \ {Pick(s)}
      <3>1. Pick(s) \in s
        BY <2>4, PickIsElement
      <3>2. t \in SUBSET X /\ t # X /\ t \in SUBSET s
        BY <3>1
      <3>3. Adds(g(t), a, t) /\ IsFiniteSet(t)
        BY <3>2, <1>3
      <3>4. g(t)[t] = g(s)[t]
        <4> HIDE DEF g, t
        <4> QED BY <3>2, <3>3, <2>1, FoldUnique
      <3>5. f[s] = a[Pick(s)] + g(t)[t]
        BY <2>4
      <3> QED BY <3>4, <3>5, <2>2, <2>4
    <2> QED BY <2>3, <2>4
  <1>5. Adds(f, a, X)
    <2> DEFINE G == [s \in SUBSET X |->
                       IF s = {} THEN 0 ELSE a[Pick(s)] + f[s \ {Pick(s)}]]
    <2>1. ASSUME NEW s \in SUBSET X
          PROVE  f[s] = G[s]
      <3>1. CASE s = {}
        BY <3>1
      <3>2. CASE s # {}
        <4> DEFINE t == s \ {Pick(s)}
        <4>1. Pick(s) \in s
          BY <3>2, PickIsElement
        <4>2. t \in SUBSET X /\ t # X
          BY <4>1
        <4>3. f[t] = g(t)[t]
          BY <4>2, <1>4
        <4>4. f[s] = a[Pick(s)] + g(t)[t]
          BY <3>2
        <4>5. G[s] = a[Pick(s)] + f[t]
          BY <3>2
        <4> QED BY <4>3, <4>4, <4>5
      <3> QED BY <3>1, <3>2
    <2>2. f = G
      BY <2>1
    <2> QED BY <2>2 DEF Adds
  <1> QED BY <1>2, <1>5

--------------------------------------------------------------------------------
(* The equation of a sum. *)
LEMMA TotalIsFold ==
    ASSUME NEW S, IsFiniteSet(S), NEW a
    PROVE  \E f : Adds(f, a, S) /\ Total(a, S) = f[S]
  <1> DEFINE g == CHOOSE f : f = [s \in SUBSET S |->
                     IF s = {} THEN 0 ELSE a[Pick(s)] + f[s \ {Pick(s)}]]
  <1>1. Adds(g, a, S)
    <2>1. \E f : Adds(f, a, S)
      BY FoldExists
    <2> QED BY <2>1 DEF Adds
  <1>2. Total(a, S) = g[S]
    BY DEF Total, MapThenSumSet, MapThenFoldSet, Pick
  <1> QED BY <1>1, <1>2

LEMMA TotalEmpty ==
    ASSUME NEW a
    PROVE  Total(a, {}) = 0
  <1>1. PICK f : Adds(f, a, {}) /\ Total(a, {}) = f[{}]
    BY TotalIsFold, FS_EmptySet
  <1> QED BY <1>1, AddsEquation

LEMMA TotalPick ==
    ASSUME NEW S, IsFiniteSet(S), S # {}, NEW a
    PROVE  Total(a, S) = a[Pick(S)] + Total(a, S \ {Pick(S)})
  <1> DEFINE t == S \ {Pick(S)}
  <1>1. IsFiniteSet(t) /\ t \in SUBSET S
    BY FS_Subset
  <1> HIDE DEF t
  <1>2. PICK f : Adds(f, a, S) /\ Total(a, S) = f[S]
    BY TotalIsFold
  <1>3. PICK g : Adds(g, a, t) /\ Total(a, t) = g[t]
    BY <1>1, TotalIsFold
  <1>4. g[t] = f[t]
    BY <1>1, <1>2, <1>3, FoldUnique
  <1>5. f[S] = a[Pick(S)] + f[t]
    BY <1>2, AddsEquation DEF t
  <1> QED BY <1>2, <1>3, <1>4, <1>5 DEF t

(* A sum is determined by its summands. *)
LEMMA TotalCongruent ==
    ASSUME NEW S, IsFiniteSet(S), NEW a, NEW b, \A x \in S : a[x] = b[x]
    PROVE  Total(a, S) = Total(b, S)
  <1>1. PICK f : Adds(f, a, S) /\ Total(a, S) = f[S]
    BY TotalIsFold
  <1>2. PICK g : Adds(g, b, S) /\ Total(b, S) = g[S]
    BY TotalIsFold
  <1> QED BY <1>1, <1>2, FoldUnique

LEMMA TotalType ==
    ASSUME NEW S, IsFiniteSet(S), NEW a, \A x \in S : a[x] \in Int
    PROVE  Total(a, S) \in Int
  <1> DEFINE T == {s \in SUBSET S : Total(a, s) \notin Int}
  <1> SUFFICES ASSUME T # {} PROVE FALSE
    OBVIOUS
  <1>1. PICK X \in T : \A Y \in T : Y \subseteq X => Y = X
    <2>1. T \in SUBSET SUBSET S
      OBVIOUS
    <2> HIDE DEF T
    <2> QED BY <2>1, SmallestSubset
  <1>2. X \in SUBSET S /\ Total(a, X) \notin Int /\ IsFiniteSet(X)
    BY <1>1, FS_Subset
  <1>3. X # {}
    BY <1>2, TotalEmpty
  <1>4. Pick(X) \in X
    BY <1>3, PickIsElement
  <1>5. Total(a, X \ {Pick(X)}) \in Int
    BY <1>1, <1>4
  <1> HIDE DEF T
  <1>6. Total(a, X) = a[Pick(X)] + Total(a, X \ {Pick(X)})
    BY <1>2, <1>3, TotalPick
  <1> QED BY <1>2, <1>4, <1>5, <1>6

(* Any element may be taken first. *)
LEMMA TotalRemove ==
    ASSUME NEW S, IsFiniteSet(S), NEW a, \A x \in S : a[x] \in Int, NEW y \in S
    PROVE  Total(a, S) = a[y] + Total(a, S \ {y})
  <1> DEFINE T == {s \in SUBSET S : \E x \in s : Total(a, s) # a[x] + Total(a, s \ {x})}
  <1> SUFFICES ASSUME T # {} PROVE FALSE
    OBVIOUS
  <1>1. PICK X \in T : \A Y \in T : Y \subseteq X => Y = X
    <2>1. T \in SUBSET SUBSET S
      OBVIOUS
    <2> HIDE DEF T
    <2> QED BY <2>1, SmallestSubset
  <1>2. X \in SUBSET S /\ IsFiniteSet(X)
    BY <1>1, FS_Subset
  <1>3. PICK x \in X : Total(a, X) # a[x] + Total(a, X \ {x})
    BY <1>1
  <1> DEFINE p == Pick(X)
  <1>4. p \in X
    BY <1>3, PickIsElement
  <1>5. Total(a, X) = a[p] + Total(a, X \ {p})
    BY <1>2, <1>4, TotalPick
  <1>6. x # p
    BY <1>3, <1>5
  <1>7. \A Y \in SUBSET X : Y # X => \A z \in Y : Total(a, Y) = a[z] + Total(a, Y \ {z})
    BY <1>1, <1>2
  <1> HIDE DEF T, p
  <1>8. Total(a, X \ {p}) = a[x] + Total(a, (X \ {p}) \ {x})
    BY <1>4, <1>6, <1>7
  <1>9. Total(a, X \ {x}) = a[p] + Total(a, (X \ {x}) \ {p})
    BY <1>4, <1>6, <1>7
  <1>10. (X \ {p}) \ {x} = (X \ {x}) \ {p}
    OBVIOUS
  <1>11. /\ a[x] \in Int /\ a[p] \in Int
         /\ Total(a, (X \ {p}) \ {x}) \in Int
    <2>1. IsFiniteSet((X \ {p}) \ {x}) /\ \A z \in (X \ {p}) \ {x} : a[z] \in Int
      BY <1>2, FS_Subset
    <2> QED BY <1>2, <1>4, <2>1, TotalType
  <1> DEFINE rest == Total(a, (X \ {p}) \ {x})
  <1>12. Total(a, X) = a[p] + (a[x] + rest)
    BY <1>5, <1>8
  <1>13. Total(a, X \ {x}) = a[p] + rest
    BY <1>9, <1>10
  <1>14. a[p] + (a[x] + rest) = a[x] + (a[p] + rest)
    BY <1>11
  <1> QED BY <1>3, <1>12, <1>13, <1>14

LEMMA TotalAdd ==
    ASSUME NEW S, IsFiniteSet(S), NEW y, y \notin S,
           NEW a, \A x \in S \cup {y} : a[x] \in Int
    PROVE  Total(a, S \cup {y}) = a[y] + Total(a, S)
  <1>1. IsFiniteSet(S \cup {y}) /\ (S \cup {y}) \ {y} = S
    BY FS_AddElement
  <1> QED BY <1>1, TotalRemove

(* The difference of two sums over a part is the sum of the differences, *)
(* with nothing for the rest of the whole.                                *)
LEMMA TotalDifference ==
    ASSUME NEW U, IsFiniteSet(U), NEW S \in SUBSET U, NEW a, NEW b, NEW r,
           \A x \in S : a[x] \in Int /\ b[x] \in Int,
           \A x \in U : r[x] = IF x \in S THEN a[x] - b[x] ELSE 0
    PROVE  Total(r, U) = Total(a, S) - Total(b, S)
  <1> DEFINE T == {s \in SUBSET U : Total(r, s) # Total(a, s \cap S) - Total(b, s \cap S)}
  <1> SUFFICES ASSUME T # {} PROVE FALSE
    <2>1. U \cap S = S
      OBVIOUS
    <2> QED BY <2>1
  <1>1. PICK X \in T : \A Y \in T : Y \subseteq X => Y = X
    <2>1. T \in SUBSET SUBSET U
      OBVIOUS
    <2> HIDE DEF T
    <2> QED BY <2>1, SmallestSubset
  <1>2. /\ X \in SUBSET U /\ IsFiniteSet(X)
        /\ Total(r, X) # Total(a, X \cap S) - Total(b, X \cap S)
    BY <1>1, FS_Subset
  <1>3. X # {}
    <2> SUFFICES ASSUME X = {} PROVE FALSE
      OBVIOUS
    <2>1. X \cap S = {}
      OBVIOUS
    <2>2. Total(r, X) = 0 /\ Total(a, X \cap S) = 0 /\ Total(b, X \cap S) = 0
      BY <2>1, TotalEmpty
    <2> QED BY <1>2, <2>2
  <1>4. PICK x \in X : TRUE
    BY <1>3
  <1> DEFINE Y == X \ {x}
  <1>5. Total(r, Y) = Total(a, Y \cap S) - Total(b, Y \cap S)
    BY <1>1, <1>4
  <1> HIDE DEF T
  <1>6. /\ \A z \in X : r[z] \in Int
        /\ r[x] = IF x \in S THEN a[x] - b[x] ELSE 0
    BY <1>2
  <1>7. Total(r, X) = r[x] + Total(r, Y)
    BY <1>2, <1>6, TotalRemove
  <1>8. IsFiniteSet(X \cap S) /\ IsFiniteSet(Y \cap S)
    BY <1>2, FS_Subset
  <1>9. Total(a, Y \cap S) \in Int /\ Total(b, Y \cap S) \in Int
    BY <1>8, TotalType
  <1>10. CASE x \in S
    <2>1. x \in X \cap S /\ (X \cap S) \ {x} = Y \cap S
      BY <1>10
    <2>2. Total(a, X \cap S) = a[x] + Total(a, Y \cap S)
      BY <2>1, <1>8, TotalRemove
    <2>3. Total(b, X \cap S) = b[x] + Total(b, Y \cap S)
      BY <2>1, <1>8, TotalRemove
    <2>4. a[x] \in Int /\ b[x] \in Int /\ r[x] = a[x] - b[x]
      BY <1>10, <1>6
    <2> HIDE DEF Y
    <2> QED BY <1>2, <1>5, <1>7, <1>9, <2>2, <2>3, <2>4
  <1>11. CASE x \notin S
    <2>1. X \cap S = Y \cap S
      BY <1>11
    <2>2. r[x] = 0
      BY <1>11, <1>6
    <2>3. Total(r, Y) \in Int
      BY <1>5, <1>9
    <2>4. Total(r, X) = Total(r, Y)
      BY <1>7, <2>2, <2>3
    <2> QED BY <1>2, <1>5, <2>1, <2>4
  <1> QED BY <1>10, <1>11
================================================================================
