----------------------------- MODULE FiniteFacts -----------------------------
(***************************************************************************)
(* Facts about finite sets that the proofs of several modules need: how    *)
(* the sums of the community modules behave, that a finite set of numbers  *)
(* can be listed in order, and two forms of induction.  Both are stated    *)
(* with a set of the elements for which a fact holds, not with a           *)
(* predicate: a set is a value a prover can choose.                        *)
(***************************************************************************)
EXTENDS Sequences, FiniteSetsExt, FiniteSetTheorems, TLAPS

\* The element a fold takes next, and the recursion it computes: over every
\* subset of S at once.
Pick(s) == CHOOSE x \in s : TRUE

IsSum(g, f, S) ==
  g = [s \in SUBSET S |->
         IF s = {} THEN 0 ELSE f[Pick(s)] + g[s \ {Pick(s)}]]

\* What is picked of a set that is not empty is in it.
LEMMA PickIn == \A s : s # {} => Pick(s) \in s
BY Zenon DEF Pick

\* The sum of f over S.
SumOver(f, S) == (CHOOSE g : IsSum(g, f, S))[S]

\* g gives the sum of f over every subset of S.
Sums(g, f, S) ==
  /\ g \in [SUBSET S -> Nat]
  /\ g[{}] = 0
  /\ \A s \in SUBSET S : s # {} =>
       /\ Pick(s) \in s /\ f[Pick(s)] \in Nat
       /\ s \ {Pick(s)} \in SUBSET s /\ s \ {Pick(s)} # s
       /\ g[s \ {Pick(s)}] \in Nat
       /\ g[s] = f[Pick(s)] + g[s \ {Pick(s)}]

\* MapThenSumSet is that sum,
LEMMA SumUnfold ==
  ASSUME NEW S, NEW f
  PROVE  MapThenSumSet(LAMBDA c : f[c], S) = SumOver(f, S)
BY DEF MapThenSumSet, MapThenFoldSet, SumOver, IsSum, Pick

\* so is the fold of a function with +,
LEMMA FoldUnfold ==
  ASSUME NEW S, NEW f
  PROVE  FoldFunctionOnSet(+, 0, f, S) = SumOver(f, S)
BY DEF FoldFunctionOnSet, MapThenFoldSet, SumOver, IsSum, Pick

\* and SumFunction.
LEMMA FunctionUnfold ==
  ASSUME NEW f
  PROVE  SumFunction(f) = SumOver(f, DOMAIN f)
BY DEF SumFunction, SumFunctionOnSet, FoldFunctionOnSet, MapThenFoldSet, SumOver,
       IsSum, Pick

\* A function on 1..k is a sequence of length k.
LEMMA FunctionIsSeq ==
  ASSUME NEW T, NEW k \in Nat, NEW s \in [1..k -> T]
  PROVE  s \in Seq(T) /\ Len(s) = k
OBVIOUS

\* If what holds of every smaller subset carries over, it holds of every one.
LEMMA SubsetInduction ==
  ASSUME NEW S, IsFiniteSet(S), NEW B,
         \A s \in SUBSET S : (\A t \in SUBSET s : t # s => t \in B) => s \in B
  PROVE  \A s \in SUBSET S : s \in B
<1> DEFINE R == StrictSubsetOrdering(S)
           T == {s \in SUBSET S : s \notin B}
<1>1. IsWellFoundedOn(R, SUBSET S)
  BY FS_StrictSubsetOrderingWellFounded, FS_FiniteSubsetsOfFinite
<1>2. SUFFICES ASSUME T # {} PROVE FALSE
  OBVIOUS
<1>3. PICK s \in T : \A t \in T : ~(<<t, s>> \in R)
  <2>1. T \subseteq SUBSET S
    OBVIOUS
  <2> HIDE DEF R, T
  <2> QED BY <1>1, <1>2, <2>1, WFMin
<1>4. \A t \in SUBSET s : t # s => t \in B
  <2> SUFFICES ASSUME NEW t \in SUBSET s, t # s, t \notin B PROVE FALSE
    OBVIOUS
  <2>1. t \in T /\ <<t, s>> \in R
    BY DEF StrictSubsetOrdering
  <2> QED BY <1>3, <2>1
<1> QED BY <1>4

\* Induction on the natural numbers, for a set rather than a predicate.
LEMMA NatSetInduction ==
  ASSUME NEW B, 0 \in B, \A n \in Nat : n \in B => n + 1 \in B
  PROVE  \A n \in Nat : n \in B
<1> DEFINE R == OpToRel(<, Nat)
           T == {n \in Nat : n \notin B}
<1>1. IsWellFoundedOn(R, Nat)
  BY NatLessThanWellFounded
<1>2. SUFFICES ASSUME T # {} PROVE FALSE
  OBVIOUS
<1>3. PICK n \in T : \A m \in T : ~(<<m, n>> \in R)
  <2>1. T \subseteq Nat
    OBVIOUS
  <2> HIDE DEF R, T
  <2> QED BY <1>1, <1>2, <2>1, WFMin
<1>4. n \in Nat /\ n # 0 /\ n - 1 \in Nat /\ n - 1 < n
  OBVIOUS
<1>5. n - 1 \in B
  <2> SUFFICES ASSUME n - 1 \notin B PROVE FALSE
    OBVIOUS
  <2>1. n - 1 \in T /\ <<n - 1, n>> \in R
    BY <1>4 DEF OpToRel
  <2> QED BY <1>3, <2>1
<1>6. (n - 1) + 1 \in B
  BY <1>4, <1>5
<1> QED BY <1>4, <1>6

\* The recursion of the fold has a solution.
LEMMA SumExists ==
  ASSUME NEW S, IsFiniteSet(S), NEW f \in [S -> Nat]
  PROVE  \E g : IsSum(g, f, S) /\ g \in [SUBSET S -> Nat]
<1> DEFINE Step(g, s) == IF s = {} THEN 0 ELSE f[Pick(s)] + g[s \ {Pick(s)}]
           B == {n \in Nat : \E g \in [SUBSET S -> Nat] :
                   \A s \in SUBSET S : Cardinality(s) <= n => g[s] = Step(g, s)}
<1>0. \A s \in SUBSET S : /\ IsFiniteSet(s) /\ Cardinality(s) \in Nat
                          /\ Cardinality(s) <= Cardinality(S)
                          /\ s = {} <=> Cardinality(s) = 0
  BY FS_Subset, FS_CardinalityType, FS_EmptySet
<1>p. \A s \in SUBSET S : s # {} =>
        /\ Pick(s) \in s /\ f[Pick(s)] \in Nat
        /\ s \ {Pick(s)} \in SUBSET S
        /\ Cardinality(s \ {Pick(s)}) = Cardinality(s) - 1
  BY <1>0, PickIn, FS_RemoveElement
<1>t. \A g \in [SUBSET S -> Nat], s \in SUBSET S : Step(g, s) \in Nat
  <2> TAKE g \in [SUBSET S -> Nat], s \in SUBSET S
  <2>1. CASE s = {}
    BY <2>1
  <2>2. CASE s # {}
    <3>1. f[Pick(s)] \in Nat /\ g[s \ {Pick(s)}] \in Nat
      BY <2>2, <1>p
    <3> QED BY <2>2, <3>1
  <2> QED BY <2>1, <2>2
<1>1. 0 \in B
  <2> DEFINE g == [s \in SUBSET S |-> 0]
  <2>1. g \in [SUBSET S -> Nat]
    OBVIOUS
  <2>2. \A s \in SUBSET S : Cardinality(s) <= 0 => g[s] = Step(g, s)
    BY <1>0
  <2> QED BY <2>1, <2>2
<1>2. ASSUME NEW n \in Nat, n \in B PROVE n + 1 \in B
  <2>1. PICK g \in [SUBSET S -> Nat] :
          \A s \in SUBSET S : Cardinality(s) <= n => g[s] = Step(g, s)
    BY <1>2
  <2> DEFINE h == [s \in SUBSET S |->
                     IF Cardinality(s) <= n THEN g[s] ELSE Step(g, s)]
  <2>2. h \in [SUBSET S -> Nat]
    <3> HIDE DEF Step
    <3> QED BY <1>t
  <2>3. \A s \in SUBSET S : Cardinality(s) <= n + 1 => h[s] = Step(h, s)
    <3> TAKE s \in SUBSET S
    <3> HAVE Cardinality(s) <= n + 1
    <3>1. h[s] = Step(g, s)
      <4> HIDE DEF Step
      <4> QED BY <2>1
    <3>2. Step(h, s) = Step(g, s)
      <4>1. CASE s = {}
        BY <4>1
      <4>2. CASE s # {}
        <5> DEFINE t == s \ {Pick(s)}
        <5>1. t \in SUBSET S /\ Cardinality(t) <= n
          <6>1. Cardinality(t) = Cardinality(s) - 1 /\ Cardinality(s) \in Nat
            BY <4>2, <1>p, <1>0
          <6> QED BY <6>1, <4>2, <1>p
        <5>2. h[t] = g[t]
          <6> HIDE DEF t, Step
          <6> QED BY <5>1
        <5> HIDE DEF h
        <5> QED BY <4>2, <5>2
      <4> QED BY <4>1, <4>2
    <3> QED BY <3>1, <3>2
  <2> HIDE DEF h, Step
  <2> QED BY <2>2, <2>3
<1>3. Cardinality(S) \in B
  <2>1. Cardinality(S) \in Nat
    BY FS_CardinalityType
  <2> HIDE DEF B
  <2> QED BY <1>1, <1>2, <2>1, NatSetInduction
<1>4. PICK g \in [SUBSET S -> Nat] :
        \A s \in SUBSET S : Cardinality(s) <= Cardinality(S) => g[s] = Step(g, s)
  BY <1>3
<1>5. g = [s \in SUBSET S |-> Step(g, s)]
  <2> HIDE DEF Step
  <2> QED BY <1>0, <1>4
<1> QED BY <1>4, <1>5 DEF IsSum

\* and only one.
LEMMA SumUnique ==
  ASSUME NEW S, IsFiniteSet(S), NEW f, NEW g, NEW h,
         IsSum(g, f, S), IsSum(h, f, S)
  PROVE  g = h
<1> DEFINE B == {s \in SUBSET S : g[s] = h[s]}
<1>1. ASSUME NEW s \in SUBSET S, \A t \in SUBSET s : t # s => t \in B
      PROVE  s \in B
  <2>1. CASE s = {}
    BY <2>1 DEF IsSum
  <2>2. CASE s # {}
    <3> DEFINE t == s \ {Pick(s)}
    <3>1. t \in SUBSET s /\ t # s
      BY <2>2, PickIn
    <3>2. g[t] = h[t]
      BY <1>1, <3>1
    <3>3. g[s] = f[Pick(s)] + g[t] /\ h[s] = f[Pick(s)] + h[t]
      BY <2>2 DEF IsSum
    <3> QED BY <3>2, <3>3
  <2> QED BY <2>1, <2>2
<1>2. \A s \in SUBSET S : s \in B
  <2> HIDE DEF B
  <2> QED BY <1>1, SubsetInduction
<1>3. \A s \in SUBSET S : g[s] = h[s]
  BY <1>2
<1> QED BY <1>3 DEF IsSum

\* So a sum is read off any solution.
LEMMA SumSolved ==
  ASSUME NEW S, IsFiniteSet(S), NEW f \in [S -> Nat]
  PROVE  \E g : SumOver(f, S) = g[S] /\ Sums(g, f, S)
<1> DEFINE c == CHOOSE g : IsSum(g, f, S)
<1>1. PICK g : IsSum(g, f, S) /\ g \in [SUBSET S -> Nat]
  BY SumExists
<1>2. IsSum(c, f, S)
  BY <1>1, Zenon
<1>3. c = g
  <2> HIDE DEF c
  <2> QED BY <1>1, <1>2, SumUnique
<1>4. SumOver(f, S) = g[S]
  BY <1>3 DEF SumOver
<1>5. g[{}] = 0
  BY <1>1 DEF IsSum
<1>6. ASSUME NEW s \in SUBSET S, s # {}
      PROVE  /\ Pick(s) \in s /\ f[Pick(s)] \in Nat
             /\ s \ {Pick(s)} \in SUBSET s /\ s \ {Pick(s)} # s
             /\ g[s \ {Pick(s)}] \in Nat
             /\ g[s] = f[Pick(s)] + g[s \ {Pick(s)}]
  <2>1. Pick(s) \in s
    BY <1>6, PickIn
  <2>2. s \ {Pick(s)} \in SUBSET S
    OBVIOUS
  <2>3. g[s] = f[Pick(s)] + g[s \ {Pick(s)}]
    BY <1>1, <1>6 DEF IsSum
  <2> QED BY <1>1, <2>1, <2>2, <2>3
<1> QED BY <1>1, <1>4, <1>5, <1>6 DEF Sums

\* A sum of naturals is a natural.
LEMMA SumNat ==
  ASSUME NEW S, IsFiniteSet(S), NEW f \in [S -> Nat]
  PROVE  SumOver(f, S) \in Nat
<1>1. PICK g : SumOver(f, S) = g[S] /\ Sums(g, f, S)
  BY SumSolved
<1> QED BY <1>1 DEF Sums

\* The sum is monotonic.
LEMMA SumMonotonic ==
  ASSUME NEW S, IsFiniteSet(S), NEW f \in [S -> Nat], NEW h \in [S -> Nat],
         \A c \in S : f[c] <= h[c]
  PROVE  SumOver(f, S) <= SumOver(h, S)
<1>1. PICK g : SumOver(f, S) = g[S] /\ Sums(g, f, S)
  BY SumSolved
<1>2. PICK k : SumOver(h, S) = k[S] /\ Sums(k, h, S)
  BY SumSolved
<1> DEFINE B == {s \in SUBSET S : g[s] <= k[s]}
<1>3. ASSUME NEW s \in SUBSET S, \A t \in SUBSET s : t # s => t \in B
      PROVE  s \in B
  <2>1. CASE s = {}
    BY <2>1, <1>1, <1>2 DEF Sums
  <2>2. CASE s # {}
    <3> DEFINE t == s \ {Pick(s)}
    <3>1. /\ t \in SUBSET s /\ t # s /\ Pick(s) \in S
          /\ g[s] = f[Pick(s)] + g[t] /\ g[t] \in Nat /\ f[Pick(s)] \in Nat
          /\ k[s] = h[Pick(s)] + k[t] /\ k[t] \in Nat /\ h[Pick(s)] \in Nat
      BY <2>2, <1>1, <1>2 DEF Sums
    <3>2. g[t] <= k[t]
      BY <1>3, <3>1
    <3>3. f[Pick(s)] <= h[Pick(s)]
      BY <3>1
    <3> HIDE DEF t
    <3> QED BY <3>1, <3>2, <3>3
  <2> QED BY <2>1, <2>2
<1>4. \A s \in SUBSET S : s \in B
  <2> HIDE DEF B
  <2> QED BY <1>3, SubsetInduction
<1> QED BY <1>1, <1>2, <1>4

\* The sum is additive.
LEMMA SumAdds ==
  ASSUME NEW S, IsFiniteSet(S), NEW f \in [S -> Nat], NEW h \in [S -> Nat]
  PROVE  SumOver([c \in S |-> f[c] + h[c]], S) = SumOver(f, S) + SumOver(h, S)
<1> DEFINE e == [c \in S |-> f[c] + h[c]]
<1>0. e \in [S -> Nat] /\ \A c \in S : e[c] = f[c] + h[c]
  OBVIOUS
<1> HIDE DEF e
<1>1. PICK g : SumOver(f, S) = g[S] /\ Sums(g, f, S)
  BY SumSolved
<1>2. PICK k : SumOver(h, S) = k[S] /\ Sums(k, h, S)
  BY SumSolved
<1>3. PICK m : SumOver(e, S) = m[S] /\ Sums(m, e, S)
  BY <1>0, SumSolved
<1> DEFINE B == {s \in SUBSET S : m[s] = g[s] + k[s]}
<1>4. ASSUME NEW s \in SUBSET S, \A t \in SUBSET s : t # s => t \in B
      PROVE  s \in B
  <2>1. CASE s = {}
    BY <2>1, <1>1, <1>2, <1>3 DEF Sums
  <2>2. CASE s # {}
    <3> DEFINE t == s \ {Pick(s)}
    <3>1. /\ t \in SUBSET s /\ t # s /\ Pick(s) \in S
          /\ g[s] = f[Pick(s)] + g[t] /\ g[t] \in Nat /\ f[Pick(s)] \in Nat
          /\ k[s] = h[Pick(s)] + k[t] /\ k[t] \in Nat /\ h[Pick(s)] \in Nat
          /\ m[s] = e[Pick(s)] + m[t] /\ m[t] \in Nat
      BY <2>2, <1>1, <1>2, <1>3 DEF Sums
    <3>2. m[t] = g[t] + k[t]
      BY <1>4, <3>1
    <3>3. e[Pick(s)] = f[Pick(s)] + h[Pick(s)]
      BY <3>1, <1>0
    <3> HIDE DEF t
    <3> QED BY <3>1, <3>2, <3>3
  <2> QED BY <2>1, <2>2
<1>5. \A s \in SUBSET S : s \in B
  <2> HIDE DEF B
  <2> QED BY <1>4, SubsetInduction
<1>6. m[S] = g[S] + k[S]
  BY <1>5
<1> QED BY <1>1, <1>2, <1>3, <1>6 DEF e

\* The order in which a sum is taken does not matter.
LEMMA SumAnyOrder ==
  ASSUME NEW S, IsFiniteSet(S), NEW f \in [S -> Nat], NEW g, Sums(g, f, S),
         NEW s \in SUBSET S, NEW c \in s
  PROVE  g[s] = f[c] + g[s \ {c}]
<1> DEFINE B == {t \in SUBSET S : \A d \in t : g[t] = f[d] + g[t \ {d}]}
<1>1. ASSUME NEW t \in SUBSET S, \A u \in SUBSET t : u # t => u \in B
      PROVE  t \in B
  <2> SUFFICES ASSUME NEW d \in t PROVE g[t] = f[d] + g[t \ {d}]
    OBVIOUS
  <2> DEFINE p == Pick(t)
  <2>1. /\ p \in t /\ f[p] \in Nat
        /\ g[t] = f[p] + g[t \ {p}]
    BY DEF Sums
  <2>2. CASE d = p
    BY <2>1, <2>2
  <2>3. CASE d # p
    <3>1. /\ t \ {p} \in B /\ d \in t \ {p}
          /\ t \ {d} \in B /\ p \in t \ {d}
      BY <1>1, <2>1, <2>3
    <3>2. g[t \ {p}] = f[d] + g[(t \ {p}) \ {d}]
      BY <3>1
    <3>3. g[t \ {d}] = f[p] + g[(t \ {d}) \ {p}]
      BY <3>1
    <3>4. (t \ {p}) \ {d} = (t \ {d}) \ {p}
      OBVIOUS
    <3>5. g[(t \ {d}) \ {p}] \in Nat /\ f[d] \in Nat
      <4>1. (t \ {d}) \ {p} \in SUBSET S /\ d \in S
        OBVIOUS
      <4> HIDE DEF p
      <4> QED BY <4>1 DEF Sums
    <3> DEFINE x == g[(t \ {d}) \ {p}]
    <3>6. g[t] = f[p] + (f[d] + x) /\ f[d] + g[t \ {d}] = f[d] + (f[p] + x)
      BY <2>1, <3>2, <3>3, <3>4
    <3>7. x \in Nat /\ f[d] \in Nat /\ f[p] \in Nat
      BY <2>1, <3>5
    <3> HIDE DEF p, x
    <3> QED BY ONLY <3>6, <3>7
  <2> QED BY <2>2, <2>3
<1>2. \A t \in SUBSET S : t \in B
  <2> HIDE DEF B
  <2> QED BY <1>1, SubsetInduction
<1> QED BY <1>2

\* A sum over a subset is read off the same solution.
LEMMA SumRestricts ==
  ASSUME NEW S, IsFiniteSet(S), NEW f \in [S -> Nat], NEW g, Sums(g, f, S),
         NEW A \in SUBSET S, NEW h \in [A -> Nat], \A c \in A : h[c] = f[c]
  PROVE  SumOver(h, A) = g[A]
<1>0. IsFiniteSet(A)
  BY FS_Subset
<1>1. PICK k : SumOver(h, A) = k[A] /\ Sums(k, h, A)
  BY <1>0, SumSolved
<1> DEFINE B == {s \in SUBSET A : k[s] = g[s]}
<1>2. ASSUME NEW s \in SUBSET A, \A t \in SUBSET s : t # s => t \in B
      PROVE  s \in B
  <2>1. CASE s = {}
    BY <2>1, <1>1 DEF Sums
  <2>2. CASE s # {}
    <3> DEFINE t == s \ {Pick(s)}
    <3>1. /\ t \in SUBSET s /\ t # s /\ Pick(s) \in A
          /\ k[s] = h[Pick(s)] + k[t] /\ g[s] = f[Pick(s)] + g[t]
      BY <2>2, <1>1 DEF Sums
    <3>2. k[t] = g[t]
      BY <1>2, <3>1
    <3> HIDE DEF t
    <3> QED BY <3>1, <3>2
  <2> QED BY <2>1, <2>2
<1>3. \A s \in SUBSET A : s \in B
  <2> HIDE DEF B
  <2> QED BY <1>2, <1>0, SubsetInduction
<1> QED BY <1>1, <1>3

\* A sum splits at any subset.
LEMMA SumSplits ==
  ASSUME NEW S, IsFiniteSet(S), NEW f \in [S -> Nat], NEW A \in SUBSET S,
         NEW h \in [A -> Nat], \A c \in A : h[c] = f[c],
         NEW r \in [S \ A -> Nat], \A c \in S \ A : r[c] = f[c]
  PROVE  SumOver(f, S) = SumOver(h, A) + SumOver(r, S \ A)
<1>1. PICK g : SumOver(f, S) = g[S] /\ Sums(g, f, S)
  BY SumSolved
<1> DEFINE B == {s \in SUBSET S : g[s] = g[s \cap A] + g[s \ A]}
<1>2. ASSUME NEW s \in SUBSET S, \A t \in SUBSET s : t # s => t \in B
      PROVE  s \in B
  <2>1. CASE s = {}
    <3>1. s \cap A = {} /\ s \ A = {}
      BY <2>1
    <3> QED BY <2>1, <3>1, <1>1 DEF Sums
  <2>2. CASE s # {}
    <3> DEFINE p == Pick(s)
               t == s \ {p}
    <3>1. /\ t \in SUBSET s /\ t # s /\ p \in s /\ f[p] \in Nat
          /\ g[s] = f[p] + g[t]
      BY <2>2, <1>1 DEF Sums
    <3>2. g[t] = g[t \cap A] + g[t \ A]
      BY <1>2, <3>1
    <3>3. \A u \in SUBSET S : g[u] \in Nat
      BY <1>1 DEF Sums
    <3> HIDE DEF p
    <3>4. CASE p \in A
      <4>1. /\ p \in s \cap A /\ (s \cap A) \ {p} = t \cap A /\ t \ A = s \ A
        BY <3>1, <3>4
      <4>2. g[s \cap A] = f[p] + g[(s \cap A) \ {p}]
        <5> DEFINE a == s \cap A
        <5>1. a \in SUBSET S /\ p \in a
          BY <4>1
        <5> HIDE DEF a
        <5>2. g[a] = f[p] + g[a \ {p}]
          BY <5>1, <1>1, SumAnyOrder
        <5> QED BY <5>2 DEF a
      <4>3. g[t \cap A] \in Nat /\ g[t \ A] \in Nat
        BY <3>3
      <4>4. g[s] = f[p] + (g[t \cap A] + g[t \ A])
        BY <3>1, <3>2
      <4>5. g[s \cap A] = f[p] + g[t \cap A] /\ g[s \ A] = g[t \ A]
        BY <4>1, <4>2
      <4> HIDE DEF t
      <4>6. g[s] = g[s \cap A] + g[s \ A]
        BY ONLY <4>3, <4>4, <4>5, <3>1
      <4> QED BY <4>6
    <3>5. CASE p \notin A
      <4>1. /\ p \in s \ A /\ (s \ A) \ {p} = t \ A /\ t \cap A = s \cap A
        BY <3>1, <3>5
      <4>2. g[s \ A] = f[p] + g[(s \ A) \ {p}]
        <5> DEFINE a == s \ A
        <5>1. a \in SUBSET S /\ p \in a
          BY <4>1
        <5> HIDE DEF a
        <5>2. g[a] = f[p] + g[a \ {p}]
          BY <5>1, <1>1, SumAnyOrder
        <5> QED BY <5>2 DEF a
      <4>3. g[t \cap A] \in Nat /\ g[t \ A] \in Nat
        BY <3>3
      <4>4. g[s] = f[p] + (g[t \cap A] + g[t \ A])
        BY <3>1, <3>2
      <4>5. g[s \ A] = f[p] + g[t \ A] /\ g[s \cap A] = g[t \cap A]
        BY <4>1, <4>2
      <4> HIDE DEF t
      <4>6. g[s] = g[s \cap A] + g[s \ A]
        BY ONLY <4>3, <4>4, <4>5, <3>1
      <4> QED BY <4>6
    <3> QED BY <3>4, <3>5
  <2> QED BY <2>1, <2>2
<1>3. \A s \in SUBSET S : s \in B
  <2> HIDE DEF B
  <2> QED BY <1>2, SubsetInduction
<1>4. g[S] = g[S \cap A] + g[S \ A]
  BY <1>3
<1>5. S \cap A = A
  OBVIOUS
<1>6. SumOver(h, A) = g[A]
  BY <1>1, SumRestricts
<1>7. SumOver(r, S \ A) = g[S \ A]
  BY <1>1, SumRestricts
<1> QED BY <1>1, <1>4, <1>5, <1>6, <1>7

\* Once more is one more of it.
LEMMA OneMore == \A k, n \in Nat : k * (n + 1) = k * n + k /\ k * n \in Nat
OBVIOUS

\* A sum of terms of at most k is at most k times their number.
LEMMA SumBounded ==
  ASSUME NEW S, IsFiniteSet(S), NEW f \in [S -> Nat], NEW k \in Nat,
         \A c \in S : f[c] <= k
  PROVE  SumOver(f, S) <= k * Cardinality(S)
<1>1. PICK g : SumOver(f, S) = g[S] /\ Sums(g, f, S)
  BY SumSolved
<1> DEFINE B == {s \in SUBSET S : g[s] <= k * Cardinality(s)}
<1>2. ASSUME NEW s \in SUBSET S, \A t \in SUBSET s : t # s => t \in B
      PROVE  s \in B
  <2>0. IsFiniteSet(s) /\ Cardinality(s) \in Nat
    BY FS_Subset, FS_CardinalityType
  <2>1. CASE s = {}
    <3>1. Cardinality(s) = 0 /\ g[s] = 0
      BY <2>1, <1>1, FS_EmptySet DEF Sums
    <3> QED BY <3>1
  <2>2. CASE s # {}
    <3> DEFINE t == s \ {Pick(s)}
               n == Cardinality(t)
    <3>1. /\ t \in SUBSET s /\ t # s /\ Pick(s) \in S
          /\ g[s] = f[Pick(s)] + g[t] /\ g[t] \in Nat /\ f[Pick(s)] \in Nat
      BY <2>2, <1>1 DEF Sums
    <3>2. g[t] <= k * n
      BY <1>2, <3>1
    <3>3. f[Pick(s)] <= k
      BY <3>1
    <3>4. Cardinality(s) = n + 1 /\ n \in Nat
      <4>1. n = Cardinality(s) - 1 /\ IsFiniteSet(t)
        BY <2>0, <2>2, PickIn, FS_RemoveElement
      <4>2. n \in Nat
        BY <4>1, FS_CardinalityType
      <4> HIDE DEF n
      <4> QED BY <2>0, <4>1, <4>2
    <3> HIDE DEF t, n
    <3>5. k * (n + 1) = k * n + k /\ k * n \in Nat
      BY <3>4, OneMore
    <3>6. g[s] <= k * (n + 1)
      BY <3>1, <3>2, <3>3, <3>5
    <3> QED BY <3>4, <3>6
  <2> QED BY <2>1, <2>2
<1>3. \A s \in SUBSET S : s \in B
  <2> HIDE DEF B
  <2> QED BY <1>2, SubsetInduction
<1> QED BY <1>1, <1>3

\* A sum of at most one for each element is at most their number.
LEMMA SumOfOnes ==
  ASSUME NEW S, IsFiniteSet(S), NEW f \in [S -> Nat], \A c \in S : f[c] <= 1
  PROVE  SumOver(f, S) <= Cardinality(S)
<1>1. SumOver(f, S) <= 1 * Cardinality(S)
  BY SumBounded
<1>2. Cardinality(S) \in Nat
  BY FS_CardinalityType
<1>3. 1 * Cardinality(S) = Cardinality(S)
  BY <1>2
<1> QED BY <1>1, <1>3

\* A set of naturals that is not empty has a least element.
LEMMA NatMinimum ==
  ASSUME NEW T, T \subseteq Nat, T # {}
  PROVE  \E m \in T : \A k \in T : m <= k
<1> DEFINE R == OpToRel(<, Nat)
<1>1. IsWellFoundedOn(R, Nat)
  BY NatLessThanWellFounded
<1>2. PICK m \in T : \A k \in T : ~(<<k, m>> \in R)
  <2> HIDE DEF R
  <2> QED BY <1>1, WFMin
<1>3. \A k \in T : ~(k < m)
  BY <1>2 DEF OpToRel
<1> QED BY <1>3

\* A finite set of naturals can be listed in order.
LEMMA SortedExists ==
  ASSUME NEW S, IsFiniteSet(S), S \subseteq Nat
  PROVE  \E s \in [1..Cardinality(S) -> S] :
           \A m, n \in 1..Cardinality(S) : m < n => s[m] < s[n]
<1> DEFINE Listed(T) == \E s \in [1..Cardinality(T) -> T] :
                          \A m, n \in 1..Cardinality(T) : m < n => s[m] < s[n]
           B == {T \in SUBSET S : Listed(T)}
<1>1. ASSUME NEW T \in SUBSET S, \A t \in SUBSET T : t # T => t \in B
      PROVE  T \in B
  <2>0. IsFiniteSet(T) /\ Cardinality(T) \in Nat
    BY FS_Subset, FS_CardinalityType
  <2>1. CASE T = {}
    <3>1. Cardinality(T) = 0
      BY <2>1, FS_EmptySet
    <3> DEFINE s == [k \in 1..Cardinality(T) |-> 0]
    <3>2. s \in [1..Cardinality(T) -> T]
      BY <3>1
    <3>3. \A m, n \in 1..Cardinality(T) : m < n => s[m] < s[n]
      BY <3>1
    <3> HIDE DEF s
    <3> QED BY <3>2, <3>3
  <2>2. CASE T # {}
    <3>1. PICK x \in T : \A k \in T : x <= k
      BY <2>2, NatMinimum
    <3> DEFINE U == T \ {x}
    <3>2. U \in SUBSET T /\ U # T /\ Cardinality(U) = Cardinality(T) - 1
      BY <2>0, FS_RemoveElement
    <3>3. PICK u \in [1..Cardinality(U) -> U] :
            \A m, n \in 1..Cardinality(U) : m < n => u[m] < u[n]
      BY <1>1, <3>2
    <3> DEFINE s == [k \in 1..Cardinality(T) |-> IF k = 1 THEN x ELSE u[k - 1]]
    <3>4. \A k \in 1..Cardinality(T) :
            k # 1 => k - 1 \in 1..Cardinality(U) /\ u[k - 1] \in U
      <4> HIDE DEF U
      <4>1. \A k \in 1..Cardinality(T) : k # 1 => k - 1 \in 1..Cardinality(U)
        BY <2>0, <3>2
      <4> QED BY <4>1, <3>3
    <3>5. s \in [1..Cardinality(T) -> T]
      BY <3>1, <3>4
    <3>6. \A m, n \in 1..Cardinality(T) : m < n => s[m] < s[n]
      <4> SUFFICES ASSUME NEW m \in 1..Cardinality(T),
                          NEW n \in 1..Cardinality(T), m < n
                   PROVE  s[m] < s[n]
        OBVIOUS
      <4>0. m \in Nat /\ n \in Nat /\ 1 <= m
        BY <2>0
      <4>n. n # 1
        BY <4>0
      <4>1. n - 1 \in 1..Cardinality(U) /\ s[n] = u[n - 1]
        <5> HIDE DEF U
        <5> QED BY <3>4, <4>n
      <4>2. CASE m = 1
        <5>1. u[n - 1] \in T /\ u[n - 1] # x /\ x <= u[n - 1]
          BY <3>1, <3>3, <4>1
        <5>2. x \in Nat /\ u[n - 1] \in Nat /\ s[m] = x
          BY <5>1, <4>2
        <5> HIDE DEF s
        <5> QED BY <4>1, <5>1, <5>2
      <4>3. CASE m # 1
        <5>1. m - 1 \in 1..Cardinality(U) /\ m - 1 < n - 1 /\ s[m] = u[m - 1]
          <6> HIDE DEF U
          <6> QED BY <3>4, <4>0, <4>3
        <5> HIDE DEF s
        <5> QED BY <3>3, <4>1, <5>1
      <4> QED BY <4>2, <4>3
    <3> HIDE DEF s
    <3> QED BY <3>5, <3>6
  <2> QED BY <2>1, <2>2
<1>2. \A T \in SUBSET S : T \in B
  <2> HIDE DEF B
  <2> QED BY <1>1, SubsetInduction
<1> QED BY <1>2

\* In a sorted list no element comes twice and none is left out.
LEMMA SortedOnto ==
  ASSUME NEW S, IsFiniteSet(S), NEW s \in [1..Cardinality(S) -> S],
         \A m, n \in 1..Cardinality(S) : m < n => s[m] # s[n]
  PROVE  \A c \in S : \E n \in 1..Cardinality(S) : s[n] = c
<1>1. Cardinality(S) \in Nat
  BY FS_CardinalityType
<1>2. /\ IsFiniteSet(1..Cardinality(S))
      /\ Cardinality(1..Cardinality(S)) = Cardinality(S)
  BY <1>1, FS_Interval
<1> SUFFICES ASSUME NEW c \in S, \A n \in 1..Cardinality(S) : s[n] # c
             PROVE  FALSE
  OBVIOUS
<1>3. s \in [1..Cardinality(S) -> S \ {c}]
  OBVIOUS
<1>4. IsFiniteSet(S \ {c}) /\ Cardinality(S \ {c}) = Cardinality(S) - 1
  BY FS_RemoveElement
<1>5. PICK x, y \in 1..Cardinality(S) : x # y /\ s[x] = s[y]
  <2> DEFINE D == 1..Cardinality(S)
             T == S \ {c}
  <2>1. Cardinality(T) < Cardinality(D) /\ s \in [D -> T]
    BY <1>1, <1>2, <1>3, <1>4
  <2>2. IsFiniteSet(D) /\ IsFiniteSet(T)
    BY <1>2, <1>4
  <2> HIDE DEF D, T
  <2>3. \E x, y \in D : x # y /\ s[x] = s[y]
    BY ONLY <2>1, <2>2, FS_PigeonHole
  <2> QED BY <2>3 DEF D
<1>6. x < y \/ y < x
  BY <1>1, <1>5
<1> QED BY <1>5, <1>6

\* The sum over a subset of a function's domain does not look beyond it.
LEMMA SumOnSubset ==
  ASSUME NEW S, IsFiniteSet(S), NEW f \in [S -> Nat], NEW A \in SUBSET S
  PROVE  /\ [c \in A |-> f[c]] \in [A -> Nat]
         /\ SumOver(f, A) = SumOver([c \in A |-> f[c]], A)
         /\ SumOver(f, A) \in Nat
<1> DEFINE h == [c \in A |-> f[c]]
<1>1. h \in [A -> Nat]
  OBVIOUS
<1>2. ASSUME NEW g PROVE IsSum(g, f, A) <=> IsSum(g, h, A)
  <2>1. \A s \in SUBSET A : s # {} => h[Pick(s)] = f[Pick(s)]
    BY PickIn
  <2> HIDE DEF h
  <2>2. [s \in SUBSET A |-> IF s = {} THEN 0 ELSE f[Pick(s)] + g[s \ {Pick(s)}]]
          = [s \in SUBSET A |-> IF s = {} THEN 0 ELSE h[Pick(s)] + g[s \ {Pick(s)}]]
    BY <2>1
  <2> QED BY <2>2 DEF IsSum
<1> HIDE DEF h
<1>3. SumOver(f, A) = SumOver(h, A)
  <2>1. (CHOOSE g : IsSum(g, f, A)) = (CHOOSE g : IsSum(g, h, A))
    BY <1>2, Zenon
  <2> QED BY <2>1 DEF SumOver
<1>4. SumOver(h, A) \in Nat
  BY <1>1, FS_Subset, SumNat
<1> QED BY <1>1, <1>3, <1>4 DEF h

\* The sum over the empty set.
LEMMA SumEmpty ==
  ASSUME NEW f \in [{} -> Nat]
  PROVE  SumOver(f, {}) = 0
<1>1. IsFiniteSet({})
  BY FS_EmptySet
<1>2. PICK g : SumOver(f, {}) = g[{}] /\ Sums(g, f, {})
  BY <1>1, SumSolved
<1> QED BY <1>2 DEF Sums

\* The sum over one element more.
LEMMA SumInsert ==
  ASSUME NEW S, IsFiniteSet(S), NEW k \in S, NEW f \in [S -> Nat],
         NEW h \in [S \ {k} -> Nat], \A c \in S \ {k} : h[c] = f[c]
  PROVE  SumOver(f, S) = SumOver(h, S \ {k}) + f[k]
<1>1. PICK g : SumOver(f, S) = g[S] /\ Sums(g, f, S)
  BY SumSolved
<1>2. g[S] = f[k] + g[S \ {k}]
  <2>1. S \in SUBSET S
    OBVIOUS
  <2> QED BY <1>1, <2>1, SumAnyOrder
<1>3. SumOver(h, S \ {k}) = g[S \ {k}]
  BY <1>1, SumRestricts
<1>4. g[S \ {k}] \in Nat
  BY <1>1 DEF Sums
<1> QED BY <1>1, <1>2, <1>3, <1>4

\* A sum of which one term grows by x.
LEMMA SumPoint ==
  ASSUME NEW S, IsFiniteSet(S), NEW k \in S, NEW x \in Nat,
         NEW f \in [S -> Nat], NEW h \in [S -> Nat],
         h[k] = f[k] + x, \A c \in S \ {k} : h[c] = f[c]
  PROVE  SumOver(h, S) = SumOver(f, S) + x
<1> DEFINE r == [c \in S \ {k} |-> f[c]]
<1>1. r \in [S \ {k} -> Nat] /\ \A c \in S \ {k} : r[c] = f[c] /\ r[c] = h[c]
  OBVIOUS
<1> HIDE DEF r
<1>2. SumOver(f, S) = SumOver(r, S \ {k}) + f[k]
  BY <1>1, SumInsert
<1>3. SumOver(h, S) = SumOver(r, S \ {k}) + h[k]
  BY <1>1, SumInsert
<1>4. SumOver(r, S \ {k}) \in Nat
  BY <1>1, FS_RemoveElement, SumNat
<1> QED BY <1>2, <1>3, <1>4

\* Over two sets without a common element a sum is that of both.
LEMMA SumUnion ==
  ASSUME NEW S, IsFiniteSet(S), NEW f \in [S -> Nat], NEW g, Sums(g, f, S),
         NEW A \in SUBSET S, NEW B \in SUBSET S, A \cap B = {}
  PROVE  g[A \cup B] = g[A] + g[B]
<1> DEFINE U == A \cup B
           e == [c \in U |-> f[c]]
           a == [c \in A |-> f[c]]
           b == [c \in B |-> f[c]]
<1>1. /\ e \in [U -> Nat] /\ a \in [A -> Nat] /\ b \in [B -> Nat]
      /\ \A c \in U : e[c] = f[c]
      /\ \A c \in A : a[c] = f[c] /\ a[c] = e[c]
      /\ \A c \in B : b[c] = f[c] /\ b[c] = e[c]
  OBVIOUS
<1>2. U \ A = B /\ U \in SUBSET S /\ A \in SUBSET U /\ IsFiniteSet(U)
  BY FS_Subset
<1> HIDE DEF U, e, a, b
<1>3. SumOver(e, U) = g[U] /\ SumOver(a, A) = g[A] /\ SumOver(b, B) = g[B]
  BY <1>1, <1>2, SumRestricts
<1>4. SumOver(e, U) = SumOver(a, A) + SumOver(b, U \ A)
  BY <1>1, <1>2, SumSplits
<1> QED BY <1>2, <1>3, <1>4 DEF U

\* The sums over sets no two of which have an element in common add up to no more
\* than the sum over everything.
LEMMA SumDisjoint ==
  ASSUME NEW S, IsFiniteSet(S), NEW f \in [S -> Nat],
         NEW N, IsFiniteSet(N), NEW A \in [N -> SUBSET S],
         \A m, n \in N : m # n => A[m] \cap A[n] = {},
         NEW F \in [N -> Nat], \A n \in N : F[n] = SumOver(f, A[n])
  PROVE  SumOver(F, N) <= SumOver(f, S)
<1>1. PICK g : SumOver(f, S) = g[S] /\ Sums(g, f, S)
  BY SumSolved
<1>2. PICK G : SumOver(F, N) = G[N] /\ Sums(G, F, N)
  BY SumSolved
<1>3. ASSUME NEW n \in N PROVE F[n] = g[A[n]]
  <2> DEFINE T == A[n]
             h == [c \in T |-> f[c]]
  <2>1. T \in SUBSET S
    OBVIOUS
  <2>2. h \in [T -> Nat] /\ \A c \in T : h[c] = f[c]
    BY <2>1
  <2>3. F[n] = SumOver(f, T)
    OBVIOUS
  <2> HIDE DEF T
  <2>4. SumOver(f, T) = SumOver(h, T)
    BY <2>1, SumOnSubset
  <2> HIDE DEF h
  <2>5. SumOver(h, T) = g[T]
    BY <1>1, <2>1, <2>2, SumRestricts
  <2> QED BY <2>3, <2>4, <2>5 DEF T
<1> DEFINE All(t) == UNION {A[n] : n \in t}
           B == {t \in SUBSET N : G[t] = g[All(t)]}
<1>4. ASSUME NEW s \in SUBSET N, \A t \in SUBSET s : t # s => t \in B
      PROVE  s \in B
  <2>1. CASE s = {}
    <3>1. All(s) = {}
      BY <2>1
    <3> HIDE DEF All
    <3> QED BY <2>1, <3>1, <1>1, <1>2 DEF Sums
  <2>2. CASE s # {}
    <3> DEFINE p == Pick(s)
               t == s \ {p}
    <3>1. /\ t \in SUBSET s /\ t # s /\ p \in s /\ G[s] = F[p] + G[t]
      BY <2>2, <1>2 DEF Sums
    <3> HIDE DEF p
    <3>2. G[t] = g[All(t)]
      BY <1>4, <3>1
    <3>3. /\ All(s) = All(t) \cup A[p] /\ All(t) \in SUBSET S /\ A[p] \in SUBSET S
      BY <3>1
    <3>4. All(t) \cap A[p] = {}
      BY <3>1
    <3>5. g[All(s)] = g[All(t)] + g[A[p]]
      <4> DEFINE X == All(t)
                 Y == A[p]
      <4>1. All(s) = X \cup Y /\ X \in SUBSET S /\ Y \in SUBSET S /\ X \cap Y = {}
        BY <3>3, <3>4
      <4> HIDE DEF X, Y, All
      <4>2. X \in SUBSET S /\ Y \in SUBSET S /\ X \cap Y = {} /\ Sums(g, f, S)
        BY <4>1, <1>1
      <4>3. g[X \cup Y] = g[X] + g[Y]
        BY ONLY <4>2, SumUnion, IsFiniteSet(S), f \in [S -> Nat]
      <4>4. g[All(s)] = g[X] + g[Y]
        BY <4>1, <4>3
      <4> QED BY <4>4 DEF X, Y
    <3>6. F[p] = g[A[p]]
      BY <1>3, <3>1
    <3>7. g[All(t)] \in Nat /\ g[A[p]] \in Nat
      <4> HIDE DEF All
      <4> QED BY <3>3, <1>1 DEF Sums
    <3> HIDE DEF All, t
    <3>8. G[s] = g[All(s)]
      BY <3>1, <3>2, <3>5, <3>6, <3>7
    <3> QED BY <3>8
  <2> QED BY <2>1, <2>2
<1>5. \A s \in SUBSET N : s \in B
  <2> HIDE DEF B
  <2> QED BY <1>4, SubsetInduction
<1>6. G[N] = g[All(N)] /\ All(N) \in SUBSET S
  BY <1>5
<1> DEFINE R == S \ All(N)
<1>7. g[S] = g[All(N)] + g[R]
  <2>1. S = All(N) \cup R /\ All(N) \cap R = {} /\ R \in SUBSET S
    BY <1>6
  <2> HIDE DEF All, R
  <2> QED BY <2>1, <1>1, <1>6, SumUnion
<1>8. g[R] \in Nat /\ g[All(N)] \in Nat
  <2> HIDE DEF All
  <2> QED BY <1>1, <1>6 DEF Sums
<1> HIDE DEF R
<1> QED BY <1>1, <1>2, <1>6, <1>7, <1>8
===============================================================================
