------------------------------ MODULE SetSums -------------------------------
(***************************************************************************)
(* Facts about the sums of the community modules (SumFunctionOnSet), which *)
(* fold a function over a finite set by a recursive function on its        *)
(* subsets.  Each is proved from a smallest subset that would violate it.  *)
(***************************************************************************)
EXTENDS Integers, FiniteSets, Functions, FiniteSetTheorems, TLAPS

\* A collection of subsets of a finite set has a smallest one.
LEMMA SmallestSubset ==
  ASSUME NEW S, IsFiniteSet(S), NEW T \in SUBSET SUBSET S, T # {}
  PROVE  \E U \in T : \A V \in T : V \subseteq U => V = U
<1>1. IsWellFoundedOn(StrictSubsetOrdering(S), SUBSET S)
  BY FS_StrictSubsetOrderingWellFounded, FS_FiniteSubsetsOfFinite
<1>2. \E U \in T : \A V \in T : ~(<<V, U>> \in StrictSubsetOrdering(S))
  BY <1>1, WFMin
<1> QED
  BY <1>2 DEF StrictSubsetOrdering

\* So has a set of natural numbers, by the intervals up to its elements.
LEMMA LeastNatural ==
  ASSUME NEW T \in SUBSET Nat, T # {}
  PROVE  \E m \in T : \A y \in T : m <= y
<1>1. PICK n \in T : TRUE
  OBVIOUS
<1> DEFINE upTo == {0..x : x \in {y \in T : y <= n}}
<1>2. IsFiniteSet(0..n) /\ upTo \in SUBSET SUBSET (0..n) /\ upTo # {}
  <2>1. IsFiniteSet(0..n) /\ n \in Nat
    BY <1>1, FS_Interval
  <2>2. 0..n \in upTo
    BY <2>1
  <2>3. ASSUME NEW x \in {y \in T : y <= n}
        PROVE  0..x \in SUBSET (0..n)
    BY <2>1, <2>3
  <2> QED
    BY <2>1, <2>2, <2>3
<1>3. PICK U \in upTo : \A V \in upTo : V \subseteq U => V = U
  <2> DEFINE all == 0..n
  <2>1. IsFiniteSet(all) /\ upTo \in SUBSET SUBSET all /\ upTo # {}
    BY <1>2
  <2> HIDE DEF upTo, all
  <2> QED
    BY <2>1, SmallestSubset
<1>4. PICK m \in T : U = 0..m /\ m <= n
  BY <1>3
<1>5. ASSUME NEW y \in T, y < m
      PROVE  FALSE
  <2>1. y \in Nat /\ m \in Nat /\ n \in Nat /\ y <= n
    BY <1>1, <1>4, <1>5
  <2>2. 0..y \in upTo
    BY <2>1
  <2>3. 0..y \subseteq 0..m /\ m \in 0..m /\ m \notin 0..y
    BY <1>5, <2>1
  <2> HIDE DEF upTo
  <2> QED
    BY <1>3, <1>4, <2>2, <2>3
<1> QED
  BY <1>4, <1>5

Next1(s) == CHOOSE x \in s : TRUE

\* g is the recursive function with which h is summed over the subsets of S.
Adds(h, S, g) ==
  g = [s \in SUBSET S |-> IF s = {} THEN 0 ELSE h[Next1(s)] + g[s \ {Next1(s)}]]

LEMMA SumUnfolds ==
  ASSUME NEW h, NEW S, \E g : Adds(h, S, g)
  PROVE  \E g : Adds(h, S, g) /\ SumFunctionOnSet(h, S) = g[S]
BY DEF SumFunctionOnSet, FoldFunctionOnSet, MapThenFoldSet, Adds, Next1

LEMMA Next1In ==
  ASSUME NEW s, s # {}
  PROVE  Next1(s) \in s
BY DEF Next1

\* Two such functions agree wherever both are defined.
LEMMA AddsAgree ==
  ASSUME NEW h, NEW V, IsFiniteSet(V), NEW W, V \subseteq W,
         NEW g1, Adds(h, V, g1), NEW g2, Adds(h, W, g2)
  PROVE  \A s \in SUBSET V : g1[s] = g2[s]
<1> DEFINE bad == {s \in SUBSET V : g1[s] # g2[s]}
<1>1. SUFFICES ASSUME bad # {} PROVE FALSE
  OBVIOUS
<1>2. PICK U \in bad : \A X \in bad : X \subseteq U => X = U
  <2>1. bad \in SUBSET SUBSET V
    OBVIOUS
  <2> HIDE DEF bad
  <2> QED
    BY <1>1, <2>1, SmallestSubset
<1>3. U \in SUBSET V /\ U \in SUBSET W /\ g1[U] # g2[U]
  BY <1>2
<1>4. /\ g1[U] = IF U = {} THEN 0 ELSE h[Next1(U)] + g1[U \ {Next1(U)}]
      /\ g2[U] = IF U = {} THEN 0 ELSE h[Next1(U)] + g2[U \ {Next1(U)}]
  BY <1>3 DEF Adds
<1>5. U # {}
  BY <1>3, <1>4
<1>6. U \ {Next1(U)} \notin bad
  BY <1>2, <1>5, Next1In
<1>7. g1[U \ {Next1(U)}] = g2[U \ {Next1(U)}]
  BY <1>3, <1>6
<1> QED
  BY <1>3, <1>4, <1>7

\* Such a function exists for every finite set.
LEMMA AddsExists ==
  ASSUME NEW h, NEW S, IsFiniteSet(S)
  PROVE  \E g : Adds(h, S, g)
<1> DEFINE bad == {s \in SUBSET S : ~\E g : Adds(h, s, g)}
<1>1. SUFFICES ASSUME bad # {} PROVE FALSE
  OBVIOUS
<1>2. PICK U \in bad : \A X \in bad : X \subseteq U => X = U
  <2>1. bad \in SUBSET SUBSET S
    OBVIOUS
  <2> HIDE DEF bad
  <2> QED
    BY <1>1, <2>1, SmallestSubset
<1>3. U \in SUBSET S /\ ~\E g : Adds(h, U, g)
  BY <1>2
<1>4. \A X \in SUBSET U : X # U => \E g : Adds(h, X, g)
  BY <1>2, <1>3
<1> DEFINE part(X) == CHOOSE g : Adds(h, X, g)
           less(s) == s \ {Next1(s)}
           whole == [s \in SUBSET U |->
                      IF s = {} THEN 0 ELSE h[Next1(s)] + part(less(s))[less(s)]]
<1>5. \A X \in SUBSET U : X # U => Adds(h, X, part(X))
  BY <1>4
<1>6. \A s \in SUBSET U : s # {} => less(s) \in SUBSET U /\ less(s) # U /\ less(s) # s
  BY Next1In
<1>7. ASSUME NEW s \in SUBSET U, s # {}
      PROVE  part(less(s))[less(s)] = whole[less(s)]
  <2> DEFINE X == less(s)
  <2>1. X \in SUBSET U /\ X # U /\ Adds(h, X, part(X))
    BY <1>5, <1>6, <1>7
  <2>2. whole[X] = IF X = {} THEN 0 ELSE h[Next1(X)] + part(less(X))[less(X)]
    BY <2>1
  <2>3. part(X)[X] = IF X = {} THEN 0 ELSE h[Next1(X)] + part(X)[less(X)]
    BY <2>1 DEF Adds
  <2>4. ASSUME X # {}
        PROVE  part(X)[less(X)] = part(less(X))[less(X)]
    <3>1. less(X) \in SUBSET U /\ less(X) # U /\ Adds(h, less(X), part(less(X)))
      BY <1>5, <1>6, <2>1, <2>4
    <3>2. less(X) \subseteq X /\ IsFiniteSet(less(X))
      BY <1>3, <3>1, FS_Subset
    <3>3. PICK V, W, g1, g2 : /\ V = less(X) /\ W = X
                              /\ g1 = part(V) /\ g2 = part(W)
      OBVIOUS
    <3>4. IsFiniteSet(V) /\ V \subseteq W /\ Adds(h, V, g1) /\ Adds(h, W, g2)
      BY <2>1, <3>1, <3>2, <3>3
    <3>5. g1[V] = g2[V]
      BY <3>4, AddsAgree
    <3> QED
      BY <3>3, <3>5
  <2> HIDE DEF part, whole
  <2> QED
    BY <2>2, <2>3, <2>4
<1>8. Adds(h, U, whole)
  <2>1. \A s \in SUBSET U :
          whole[s] = IF s = {} THEN 0 ELSE h[Next1(s)] + whole[less(s)]
    <3> HIDE DEF part
    <3> QED
      BY <1>7
  <2>2. whole = [s \in SUBSET U |-> whole[s]]
    OBVIOUS
  <2> HIDE DEF whole
  <2> QED
    BY <2>1, <2>2, Zenon DEF Adds
<1> QED
  BY <1>3, <1>8

----------------------------------------------------------------------------
(* What a sum is *)

LEMMA SumEmpty == \A h : SumFunctionOnSet(h, {}) = 0
<1> SUFFICES ASSUME NEW h PROVE SumFunctionOnSet(h, {}) = 0
  OBVIOUS
<1>1. PICK g : Adds(h, {}, g) /\ SumFunctionOnSet(h, {}) = g[{}]
  BY SumUnfolds, AddsExists, FS_EmptySet
<1>2. g[{}] = 0
  BY <1>1 DEF Adds
<1> QED
  BY <1>1, <1>2

\* The first element is added to the sum of the others.
LEMMA SumFirst ==
  ASSUME NEW h, NEW S, IsFiniteSet(S), S # {}
  PROVE  SumFunctionOnSet(h, S) = h[Next1(S)] + SumFunctionOnSet(h, S \ {Next1(S)})
<1> DEFINE R == S \ {Next1(S)}
<1>1. IsFiniteSet(R) /\ R \subseteq S
  BY FS_Subset
<1>2. PICK g : Adds(h, S, g) /\ SumFunctionOnSet(h, S) = g[S]
  BY SumUnfolds, AddsExists
<1>3. PICK k : Adds(h, R, k) /\ SumFunctionOnSet(h, R) = k[R]
  <2> HIDE DEF R
  <2> QED
    BY <1>1, SumUnfolds, AddsExists
<1>4. k[R] = g[R]
  <2> HIDE DEF R
  <2>1. \A s \in SUBSET R : k[s] = g[s]
    BY <1>1, <1>2, <1>3, AddsAgree
  <2> QED
    BY <2>1
<1>5. g[S] = h[Next1(S)] + g[R]
  BY <1>2 DEF Adds
<1> QED
  BY <1>2, <1>3, <1>4, <1>5

\* A sum depends on nothing but the values over the set.
LEMMA SumSame ==
  ASSUME NEW S, IsFiniteSet(S), NEW h, NEW k, \A x \in S : h[x] = k[x]
  PROVE  SumFunctionOnSet(h, S) = SumFunctionOnSet(k, S)
<1> DEFINE bad == {s \in SUBSET S : SumFunctionOnSet(h, s) # SumFunctionOnSet(k, s)}
<1>1. SUFFICES ASSUME bad # {} PROVE FALSE
  BY S \in SUBSET S
<1>2. PICK U \in bad : \A X \in bad : X \subseteq U => X = U
  <2>1. bad \in SUBSET SUBSET S
    OBVIOUS
  <2> HIDE DEF bad
  <2> QED
    BY <1>1, <2>1, SmallestSubset
<1>3. U \in SUBSET S /\ IsFiniteSet(U) /\ U # {}
  BY <1>2, FS_Subset, SumEmpty
<1>4. Next1(U) \in U
  BY <1>3, Next1In
<1>5. SumFunctionOnSet(h, U \ {Next1(U)}) = SumFunctionOnSet(k, U \ {Next1(U)})
  BY <1>2, <1>3, <1>4
<1> QED
  BY <1>2, <1>3, <1>4, <1>5, SumFirst

\* Integers sum to an integer.
LEMMA SumInt ==
  ASSUME NEW S, IsFiniteSet(S), NEW h, \A x \in S : h[x] \in Int
  PROVE  SumFunctionOnSet(h, S) \in Int
<1> DEFINE bad == {s \in SUBSET S : SumFunctionOnSet(h, s) \notin Int}
<1>1. SUFFICES ASSUME bad # {} PROVE FALSE
  BY S \in SUBSET S
<1>2. PICK U \in bad : \A X \in bad : X \subseteq U => X = U
  <2>1. bad \in SUBSET SUBSET S
    OBVIOUS
  <2> HIDE DEF bad
  <2> QED
    BY <1>1, <2>1, SmallestSubset
<1>3. U \in SUBSET S /\ IsFiniteSet(U) /\ U # {}
  <2>1. U \in SUBSET S /\ SumFunctionOnSet(h, U) \notin Int
    BY <1>2
  <2>2. SumFunctionOnSet(h, {}) \in Int
    BY SumEmpty
  <2>3. U # {}
    BY <2>1, <2>2
  <2> QED
    BY <2>1, <2>3, FS_Subset
<1>4. Next1(U) \in U
  BY <1>3, Next1In
<1>5. SumFunctionOnSet(h, U \ {Next1(U)}) \in Int
  BY <1>2, <1>3, <1>4
<1>6. h[Next1(U)] \in Int
  BY <1>3, <1>4
<1>7. SumFunctionOnSet(h, U) = h[Next1(U)] + SumFunctionOnSet(h, U \ {Next1(U)})
  BY <1>3, SumFirst
<1> QED
  BY <1>2, <1>5, <1>6, <1>7

\* Any element may be added last: the order in which a sum is taken is of no
\* account.
LEMMA SumTake ==
  ASSUME NEW S, IsFiniteSet(S), NEW h, \A x \in S : h[x] \in Int, NEW e \in S
  PROVE  SumFunctionOnSet(h, S) = h[e] + SumFunctionOnSet(h, S \ {e})
<1> DEFINE T(s) == SumFunctionOnSet(h, s)
           bad == {s \in SUBSET S : \E x \in s : T(s) # h[x] + T(s \ {x})}
<1>1. SUFFICES ASSUME bad # {} PROVE FALSE
  BY S \in SUBSET S
<1>2. PICK U \in bad : \A X \in bad : X \subseteq U => X = U
  <2>1. bad \in SUBSET SUBSET S
    OBVIOUS
  <2> HIDE DEF bad
  <2> QED
    BY <1>1, <2>1, SmallestSubset
<1>3. PICK x \in U : T(U) # h[x] + T(U \ {x})
  BY <1>2
<1> DEFINE y == Next1(U)  V == U \ {x}  W == U \ {y}
<1>4. U \in SUBSET S /\ IsFiniteSet(U) /\ y \in U
  BY <1>2, <1>3, FS_Subset, Next1In
<1>5. T(U) = h[y] + T(W)
  BY <1>4, SumFirst
<1>6. x # y
  BY <1>3, <1>5
<1>7. V \notin bad /\ W \notin bad
  BY <1>2, <1>3, <1>4
<1>8. V \in SUBSET S /\ W \in SUBSET S /\ y \in V /\ x \in W
  BY <1>3, <1>4, <1>6
<1>9. T(V) = h[y] + T(V \ {y}) /\ T(W) = h[x] + T(W \ {x})
  BY <1>7, <1>8
<1>10. V \ {y} = W \ {x} /\ V \ {y} \in SUBSET S
  BY <1>4
<1>11. T(V \ {y}) \in Int /\ h[x] \in Int /\ h[y] \in Int
  BY <1>4, <1>8, <1>10, FS_Subset, SumInt
<1>12. T(U) = h[y] + (h[x] + T(V \ {y})) /\ h[x] + T(V) = h[x] + (h[y] + T(V \ {y}))
  BY <1>5, <1>9, <1>10
<1> HIDE DEF T, y, V, W
<1>13. T(U) = h[x] + T(V)
  BY <1>11, <1>12
<1> QED
  BY <1>3, <1>13 DEF V

\* One element more, one value changed, a value alone, values of zero.
LEMMA SumAdd ==
  ASSUME NEW S, IsFiniteSet(S), NEW h, NEW e, e \notin S, \A x \in S \cup {e} : h[x] \in Int
  PROVE  SumFunctionOnSet(h, S \cup {e}) = h[e] + SumFunctionOnSet(h, S)
<1>1. IsFiniteSet(S \cup {e}) /\ (S \cup {e}) \ {e} = S /\ e \in S \cup {e}
  BY FS_AddElement
<1> QED
  BY <1>1, SumTake

LEMMA SumUpdate ==
  ASSUME NEW S, IsFiniteSet(S), NEW e \in S, NEW h, NEW k,
         \A x \in S : h[x] \in Int /\ k[x] \in Int,
         \A x \in S : x # e => k[x] = h[x]
  PROVE  SumFunctionOnSet(k, S) = SumFunctionOnSet(h, S) + (k[e] - h[e])
<1> DEFINE R == S \ {e}
<1>1. IsFiniteSet(R) /\ \A x \in R : h[x] = k[x] /\ h[x] \in Int
  BY FS_Subset
<1>2. SumFunctionOnSet(k, R) = SumFunctionOnSet(h, R) /\ SumFunctionOnSet(h, R) \in Int
  <2> HIDE DEF R
  <2> QED
    BY <1>1, SumSame, SumInt
<1>3. SumFunctionOnSet(k, S) = k[e] + SumFunctionOnSet(k, R)
  BY SumTake
<1>4. SumFunctionOnSet(h, S) = h[e] + SumFunctionOnSet(h, R)
  BY SumTake
<1>5. h[e] \in Int /\ k[e] \in Int
  OBVIOUS
<1> HIDE DEF R
<1> QED
  BY <1>2, <1>3, <1>4, <1>5

LEMMA SumSingle ==
  ASSUME NEW h, NEW e, h[e] \in Int
  PROVE  SumFunctionOnSet(h, {e}) = h[e]
<1>1. IsFiniteSet({}) /\ {} \cup {e} = {e}
  BY FS_EmptySet
<1>2. SumFunctionOnSet(h, {e}) = h[e] + SumFunctionOnSet(h, {})
  BY <1>1, SumAdd
<1> QED
  BY <1>2, SumEmpty

LEMMA SumZeros ==
  ASSUME NEW S, IsFiniteSet(S), NEW M \in SUBSET S, NEW h, \A x \in S : h[x] \in Int,
         \A x \in S \ M : h[x] = 0
  PROVE  SumFunctionOnSet(h, M) = SumFunctionOnSet(h, S)
<1> DEFINE T(s) == SumFunctionOnSet(h, s)
           bad == {s \in SUBSET S : T(s \cap M) # T(s)}
<1>1. SUFFICES ASSUME bad # {} PROVE FALSE
  BY S \in SUBSET S, S \cap M = M
<1>2. PICK U \in bad : \A X \in bad : X \subseteq U => X = U
  <2>1. bad \in SUBSET SUBSET S
    OBVIOUS
  <2> HIDE DEF bad
  <2> QED
    BY <1>1, <2>1, SmallestSubset
<1>3. U \in SUBSET S /\ T(U \cap M) # T(U) /\ U # U \cap M
  BY <1>2
<1>4. PICK x \in U : x \notin M
  BY <1>3
<1>5. IsFiniteSet(U) /\ h[x] = 0
  BY <1>3, <1>4, FS_Subset
<1>6. T(U) = h[x] + T(U \ {x})
  BY <1>3, <1>4, <1>5, SumTake
<1>7. T((U \ {x}) \cap M) = T(U \ {x})
  BY <1>2, <1>3, <1>4
<1>8. (U \ {x}) \cap M = U \cap M
  BY <1>4
<1>9. T(U \ {x}) \in Int
  BY <1>3, <1>5, FS_Subset, SumInt
<1>10. T(U) = T(U \ {x})
  <2> HIDE DEF T
  <2> QED
    BY <1>5, <1>6, <1>9
<1>11. T(U \cap M) = T(U \ {x})
  BY <1>7, <1>8
<1> QED
  BY <1>3, <1>10, <1>11

\* The same for the sum of all values of a function: its domain grows by one,
\* one of its values changes.
LEMMA TotalGrows ==
  ASSUME NEW S, IsFiniteSet(S), NEW e, e \notin S, NEW h, NEW k,
         DOMAIN h = S, DOMAIN k = S \cup {e},
         \A x \in S : h[x] \in Int /\ k[x] = h[x], k[e] \in Int
  PROVE  SumFunction(k) = SumFunction(h) + k[e]
<1>1. SumFunctionOnSet(k, S \cup {e}) = k[e] + SumFunctionOnSet(k, S)
  BY SumAdd
<1>2. SumFunctionOnSet(k, S) = SumFunctionOnSet(h, S)
  BY SumSame
<1>3. SumFunctionOnSet(h, S) \in Int
  BY SumInt
<1> QED
  BY <1>1, <1>2, <1>3 DEF SumFunction

LEMMA TotalChanges ==
  ASSUME NEW S, IsFiniteSet(S), NEW e \in S, NEW h, NEW k,
         DOMAIN h = S, DOMAIN k = S,
         \A x \in S : h[x] \in Int /\ k[x] \in Int,
         \A x \in S : x # e => k[x] = h[x]
  PROVE  SumFunction(k) = SumFunction(h) + (k[e] - h[e])
BY SumUpdate DEF SumFunction

LEMMA TotalInt ==
  ASSUME NEW h, IsFiniteSet(DOMAIN h), \A x \in DOMAIN h : h[x] \in Int
  PROVE  SumFunction(h) \in Int
BY SumInt DEF SumFunction

LEMMA TotalNat ==
  ASSUME NEW h, IsFiniteSet(DOMAIN h), \A x \in DOMAIN h : h[x] \in Nat
  PROVE  SumFunction(h) \in Nat
<1> DEFINE S == DOMAIN h
           bad == {s \in SUBSET S : SumFunctionOnSet(h, s) \notin Nat}
<1>1. SUFFICES ASSUME bad # {} PROVE FALSE
  BY S \in SUBSET S DEF SumFunction
<1>2. PICK U \in bad : \A X \in bad : X \subseteq U => X = U
  <2>1. bad \in SUBSET SUBSET S /\ IsFiniteSet(S)
    OBVIOUS
  <2> HIDE DEF bad, S
  <2> QED
    BY <1>1, <2>1, SmallestSubset
<1>3. U \in SUBSET S /\ IsFiniteSet(U) /\ U # {}
  <2>1. U \in SUBSET S /\ SumFunctionOnSet(h, U) \notin Nat
    BY <1>2
  <2>2. SumFunctionOnSet(h, {}) \in Nat
    BY SumEmpty
  <2>3. U # {}
    BY <2>1, <2>2
  <2> QED
    BY <2>1, <2>3, FS_Subset
<1>4. Next1(U) \in U
  BY <1>3, Next1In
<1>5. SumFunctionOnSet(h, U \ {Next1(U)}) \in Nat
  BY <1>2, <1>3, <1>4
<1>6. h[Next1(U)] \in Nat
  BY <1>3, <1>4
<1>7. SumFunctionOnSet(h, U) = h[Next1(U)] + SumFunctionOnSet(h, U \ {Next1(U)})
  BY <1>3, SumFirst
<1> QED
  BY <1>2, <1>5, <1>6, <1>7

\* Zeros may be left out.
LEMMA TotalZeros ==
  ASSUME NEW S, IsFiniteSet(S), NEW M \in SUBSET S, NEW h, NEW k,
         DOMAIN h = S, DOMAIN k = M, \A x \in S : h[x] \in Int,
         \A x \in M : k[x] = h[x], \A x \in S \ M : h[x] = 0
  PROVE  SumFunction(k) = SumFunction(h)
<1>1. IsFiniteSet(M)
  BY FS_Subset
<1>2. SumFunctionOnSet(k, M) = SumFunctionOnSet(h, M)
  BY <1>1, SumSame
<1>3. SumFunctionOnSet(h, M) = SumFunctionOnSet(h, S)
  BY SumZeros
<1> QED
  BY <1>2, <1>3 DEF SumFunction
=============================================================================
