-------------------------- MODULE ChanStatsProofs --------------------------
(***************************************************************************)
(* Proofs about ChanStats: the rows add up.  The sums and the loops of the *)
(* model are folds over finite sets; what they come to is found by         *)
(* induction over a finite set, which needs no operator as a parameter.    *)
(***************************************************************************)
EXTENDS ChanStats, FiniteSetTheorems, WellFoundedInduction, TLAPS

-----------------------------------------------------------------------------
(* Folds over finite sets *)

\* The element a fold takes out of a set first.
Pick(s) == CHOOSE x \in s : TRUE

\* One cannot go on taking smaller subsets of a finite set.
LEMMA SubsetsWellFounded ==
  ASSUME NEW S, IsFiniteSet(S)
  PROVE  IsWellFoundedOn(StrictSubsetOrdering(S), SUBSET S)
<1>1. FiniteSubsetsOf(S) = SUBSET S
  BY FS_FiniteSubsetsOfFinite
<1> QED BY <1>1, FS_StrictSubsetOrderingWellFounded

\* A property of sets, here the set P of those that have it, holds of every subset
\* of a finite set when it holds of each one whose smaller subsets all have it.
LEMMA FiniteInduction ==
  ASSUME NEW S, IsFiniteSet(S), NEW P,
         \A T \in SUBSET S : (\A U \in SUBSET T : U # T => U \in P) => T \in P
  PROVE  SUBSET S \subseteq P
<1> SUFFICES ASSUME ~(SUBSET S \subseteq P) PROVE FALSE
  OBVIOUS
<1> DEFINE Bad == {T \in SUBSET S : T \notin P}
<1>1. IsWellFoundedOn(StrictSubsetOrdering(S), SUBSET S)
  BY SubsetsWellFounded
<1>3. Bad \subseteq SUBSET S /\ Bad # {}
  OBVIOUS
<1>4. \E T \in Bad : \A U \in Bad : ~(<<U, T>> \in StrictSubsetOrdering(S))
  <2> HIDE DEF Bad
  <2> QED BY <1>1, <1>3, WFMin
<1>5. PICK T \in Bad : \A U \in Bad : ~(<<U, T>> \in StrictSubsetOrdering(S))
  BY <1>4
<1>6. PICK U \in SUBSET T : U # T /\ U \notin P
  OBVIOUS
<1>7. U \in Bad /\ <<U, T>> \in StrictSubsetOrdering(S)
  BY <1>6 DEF StrictSubsetOrdering
<1> QED BY <1>5, <1>7

\* What a fold over a finite set computes for each of its subsets, when step[s, v]
\* is what is made of v and the element that is taken out of s, exists.
Folded(S, base, step, it) ==
  it = [s \in SUBSET S |-> IF s = {} THEN base ELSE step[<<s, it[s \ {Pick(s)}]>>]]

\* A fold whose steps stay in V has a result for every subset.
LEMMA FoldExists ==
  ASSUME NEW S, IsFiniteSet(S), NEW V, NEW base \in V, NEW step \in [(SUBSET S) \X V -> V]
  PROVE  \E it \in [SUBSET S -> V] : Folded(S, base, step, it)
<1> DEFINE Body(it, s) == IF s = {} THEN base ELSE step[<<s, it[s \ {Pick(s)}]>>]
           P == {T \in SUBSET S : \E it \in [SUBSET S -> V] :
                   \A s \in SUBSET S : Cardinality(s) <= Cardinality(T) => it[s] = Body(it, s)}
<1>1. {} \in P
  <2> DEFINE it == [s \in SUBSET S |-> base]
  <2>1. it \in [SUBSET S -> V]
    OBVIOUS
  <2>2. ASSUME NEW s \in SUBSET S, Cardinality(s) <= Cardinality({}) PROVE it[s] = Body(it, s)
    <3>1. IsFiniteSet(s)
      BY FS_Subset
    <3>2. s = {}
      BY <2>2, <3>1, FS_EmptySet, FS_CardinalityType
    <3> QED BY <3>2
  <2> QED BY <2>1, <2>2
<1>2. ASSUME NEW T \in SUBSET S, \A U \in SUBSET T : U # T => U \in P PROVE T \in P
  <2>0. CASE T = {}
    BY <1>1, <2>0
  <2> SUFFICES ASSUME T # {} PROVE T \in P
    BY <2>0
  <2> PICK x \in T : TRUE
    OBVIOUS
  <2> T \ {x} \in P
    BY <1>2
  <2>1. PICK f \in [SUBSET S -> V] :
          \A s \in SUBSET S : Cardinality(s) <= Cardinality(T \ {x}) => f[s] = Body(f, s)
    OBVIOUS
  <2> DEFINE g == [s \in SUBSET S |-> Body(f, s)]
  <2>2. g \in [SUBSET S -> V]
    <3>1. ASSUME NEW s \in SUBSET S PROVE Body(f, s) \in V
      <4>1. s \ {Pick(s)} \in SUBSET S
        OBVIOUS
      <4>2. f[s \ {Pick(s)}] \in V
        BY <4>1
      <4> QED BY <4>2
    <3> QED BY <3>1
  <2>3. IsFiniteSet(T) /\ Cardinality(T) \in Nat /\ Cardinality(T \ {x}) = Cardinality(T) - 1
    BY FS_Subset, FS_RemoveElement, FS_CardinalityType
  <2>4. ASSUME NEW s \in SUBSET S, Cardinality(s) <= Cardinality(T) PROVE g[s] = Body(g, s)
    <3>1. CASE s = {}
      BY <3>1
    <3>2. CASE s # {}
      <4>1. Pick(s) \in s
        BY <3>2 DEF Pick
      <4> DEFINE r == s \ {Pick(s)}
      <4>2. IsFiniteSet(s) /\ Cardinality(s) \in Nat
        BY FS_Subset, FS_CardinalityType
      <4>3. r \in SUBSET S /\ Cardinality(r) = Cardinality(s) - 1
        BY <4>1, <4>2, FS_RemoveElement
      <4>4. f[r] = Body(f, r)
        <5>1. Cardinality(r) <= Cardinality(T \ {x})
          <6> HIDE DEF r
          <6> QED BY <2>3, <2>4, <4>2, <4>3
        <5> QED BY <2>1, <4>3, <5>1
      <4>5. g[r] = f[r]
        BY <4>3, <4>4
      <4>6. g[s] = step[<<s, f[r]>>]
        BY <3>2
      <4> QED BY <3>2, <4>5, <4>6
    <3> QED BY <3>1, <3>2
  <2> QED BY <2>2, <2>4
<1>3. S \in P
  <2> HIDE DEF P
  <2>1. SUBSET S \subseteq P
    BY <1>2, FiniteInduction
  <2> QED BY <2>1
<1>4. PICK it \in [SUBSET S -> V] :
        \A s \in SUBSET S : Cardinality(s) <= Cardinality(S) => it[s] = Body(it, s)
  BY <1>3
<1>5. ASSUME NEW s \in SUBSET S PROVE it[s] = Body(it, s)
  <2>1. Cardinality(s) <= Cardinality(S)
    BY FS_Subset
  <2> QED BY <1>4, <2>1
<1>6. it = [s \in SUBSET S |-> Body(it, s)]
  BY <1>5
<1> QED BY <1>6 DEF Folded

-----------------------------------------------------------------------------
(* Sums *)

SumStep(f, S) == [p \in (SUBSET S) \X Int |-> IF p[1] = {} THEN 0 ELSE f[Pick(p[1])] + p[2]]

\* What a sum over a finite set computes on the way.
Summed(f, S, it) ==
  it = [s \in SUBSET S |-> IF s = {} THEN 0 ELSE f[Pick(s)] + it[s \ {Pick(s)}]]

\* SumFunctionOnSet is the fold whose equation is Summed.
LEMMA SumIsFold ==
  ASSUME NEW S, NEW f
  PROVE  SumFunctionOnSet(f, S) = (CHOOSE it : Summed(f, S, it))[S]
BY DEF SumFunctionOnSet, FoldFunctionOnSet, MapThenFoldSet, Summed, Pick

\* The sums of integers over the subsets of a finite set satisfy it.
LEMMA SummedExists ==
  ASSUME NEW S, IsFiniteSet(S), NEW f, \A x \in S : f[x] \in Int
  PROVE  \E it \in [SUBSET S -> Int] : Summed(f, S, it)
<1>1. SumStep(f, S) \in [(SUBSET S) \X Int -> Int]
  <2>1. ASSUME NEW p \in (SUBSET S) \X Int, p[1] # {} PROVE Pick(p[1]) \in S
    BY <2>1 DEF Pick
  <2> QED BY <2>1 DEF SumStep
<1>2. PICK it \in [SUBSET S -> Int] : Folded(S, 0, SumStep(f, S), it)
  <2>1. PICK V : V = Int
    OBVIOUS
  <2>2. PICK step \in [(SUBSET S) \X V -> V] : step = SumStep(f, S)
    BY <1>1, <2>1
  <2>3. 0 \in V
    BY <2>1
  <2>4. \E it \in [SUBSET S -> V] : Folded(S, 0, step, it)
    BY <2>3, FoldExists
  <2> QED BY <2>1, <2>2, <2>4
<1>3. Summed(f, S, it)
  <2>1. ASSUME NEW s \in SUBSET S, s # {}
        PROVE  SumStep(f, S)[<<s, it[s \ {Pick(s)}]>>] = f[Pick(s)] + it[s \ {Pick(s)}]
    BY <2>1 DEF SumStep
  <2> QED BY <1>2, <2>1 DEF Folded, Summed
<1> QED BY <1>3

\* What satisfies the equation is determined by it, wherever the functions agree.
LEMMA SummedAgree ==
  ASSUME NEW S, IsFiniteSet(S), NEW R, NEW f, NEW g, NEW it, NEW jt,
         S \subseteq R, \A x \in S : f[x] = g[x], Summed(f, R, it), Summed(g, S, jt)
  PROVE  \A s \in SUBSET S : it[s] = jt[s]
<1> DEFINE P == {s \in SUBSET S : it[s] = jt[s]}
<1>1. ASSUME NEW T \in SUBSET S, \A U \in SUBSET T : U # T => U \in P PROVE T \in P
  <2>1. CASE T = {}
    BY <2>1 DEF Summed
  <2>2. CASE T # {}
    <3>1. Pick(T) \in T
      BY <2>2 DEF Pick
    <3>2. it[T \ {Pick(T)}] = jt[T \ {Pick(T)}]
      BY <1>1, <3>1
    <3>3. it[T] = f[Pick(T)] + it[T \ {Pick(T)}] /\ jt[T] = g[Pick(T)] + jt[T \ {Pick(T)}]
      BY <2>2 DEF Summed
    <3>4. f[Pick(T)] = g[Pick(T)]
      BY <3>1
    <3> QED BY <3>2, <3>3, <3>4
  <2> QED BY <2>1, <2>2
<1>2. SUBSET S \subseteq P
  <2> HIDE DEF P
  <2> QED BY <1>1, FiniteInduction
<1> QED BY <1>2

\* Each set the sum passes on the way has its own sum.
PartialSums(f, S, it) ==
  /\ it \in [SUBSET S -> Int]
  /\ Summed(f, S, it)
  /\ \A s \in SUBSET S : SumFunctionOnSet(f, s) = it[s]

\* One function gives the sums over all subsets.
LEMMA SumOfSubset ==
  ASSUME NEW S, IsFiniteSet(S), NEW f, \A x \in S : f[x] \in Int
  PROVE  \E it : PartialSums(f, S, it)
<1>1. PICK it \in [SUBSET S -> Int] : Summed(f, S, it)
  BY SummedExists
<1>2. ASSUME NEW s \in SUBSET S PROVE SumFunctionOnSet(f, s) = it[s]
  <2>1. IsFiniteSet(s) /\ \A x \in s : f[x] \in Int
    BY FS_Subset
  <2>2. \E jt : Summed(f, s, jt)
    BY <2>1, SummedExists
  <2> DEFINE jt == CHOOSE jt : Summed(f, s, jt)
  <2>3. Summed(f, s, jt)
    BY <2>2
  <2>4. SumFunctionOnSet(f, s) = jt[s]
    BY SumIsFold
  <2>5. it[s] = jt[s]
    <3> HIDE DEF jt
    <3>1. \A t \in SUBSET s : it[t] = jt[t]
      BY <1>1, <2>1, <2>3, SummedAgree
    <3> QED BY <3>1
  <2> QED BY <2>4, <2>5
<1> QED BY <1>1, <1>2 DEF PartialSums
\* The empty sum, integer and natural terms, and one element taken out.
LEMMA SumOfNone ==
  ASSUME NEW f
  PROVE  SumFunctionOnSet(f, {}) = 0
<1>1. IsFiniteSet({}) /\ \A x \in {} : f[x] \in Int
  BY FS_EmptySet
<1>2. PICK it : PartialSums(f, {}, it)
  BY <1>1, SumOfSubset
<1> QED BY <1>2 DEF PartialSums, Summed

\* Integers come to an integer.
LEMMA SumIsInteger ==
  ASSUME NEW S, IsFiniteSet(S), NEW f, \A x \in S : f[x] \in Int
  PROVE  SumFunctionOnSet(f, S) \in Int
<1>1. PICK it : PartialSums(f, S, it)
  BY SumOfSubset
<1> QED BY <1>1 DEF PartialSums

\* Any element may be taken out, not only the one the fold takes first.
LEMMA SumTakesOut ==
  ASSUME NEW S, IsFiniteSet(S), NEW f, \A x \in S : f[x] \in Int, NEW a \in S
  PROVE  SumFunctionOnSet(f, S) = f[a] + SumFunctionOnSet(f, S \ {a})
<1>0. PICK it : PartialSums(f, S, it)
  BY SumOfSubset
<1>1. /\ it \in [SUBSET S -> Int]
      /\ Summed(f, S, it)
      /\ \A s \in SUBSET S : SumFunctionOnSet(f, s) = it[s]
  BY <1>0 DEF PartialSums
<1> DEFINE P == {T \in SUBSET S : \A x \in T : it[T] = f[x] + it[T \ {x}]}
<1>2. ASSUME NEW T \in SUBSET S, \A U \in SUBSET T : U # T => U \in P PROVE T \in P
  <2> SUFFICES ASSUME NEW x \in T PROVE it[T] = f[x] + it[T \ {x}]
    OBVIOUS
  <2> DEFINE c == Pick(T)
             R == T \ {c, x}
  <2>1. c \in T
    BY DEF Pick
  <2>2. it[T] = f[c] + it[T \ {c}]
    BY <1>1 DEF Summed
  <2>3. CASE x = c
    BY <2>2, <2>3
  <2>4. CASE x # c
    <3>1. T \ {c} \in P /\ T \ {x} \in P
      BY <1>2, <2>1
    <3>2. (T \ {c}) \ {x} = R /\ (T \ {x}) \ {c} = R
      OBVIOUS
    <3>3. it[T \ {c}] = f[x] + it[R] /\ it[T \ {x}] = f[c] + it[R]
      <4> HIDE DEF c
      <4> QED BY <2>1, <2>4, <3>1, <3>2
    <3>4. f[x] \in Int /\ f[c] \in Int /\ it[R] \in Int
      <4>1. R \in SUBSET S
        OBVIOUS
      <4> QED BY <1>1, <2>1, <4>1
    <3> QED BY <2>2, <3>3, <3>4
  <2> QED BY <2>3, <2>4
<1>3. SUBSET S \subseteq P
  <2> HIDE DEF P
  <2> QED BY <1>2, FiniteInduction
<1> QED BY <1>1, <1>3

\* Terms that agree, and terms that are sums themselves.
LEMMA SumAgrees ==
  ASSUME NEW S, IsFiniteSet(S), NEW f, NEW g,
         \A x \in S : f[x] \in Int, \A x \in S : g[x] = f[x]
  PROVE  SumFunctionOnSet(g, S) = SumFunctionOnSet(f, S)
<1>1. \A x \in S : g[x] \in Int
  OBVIOUS
<1>2. PICK it : PartialSums(f, S, it)
  BY SumOfSubset
<1>3. PICK jt : PartialSums(g, S, jt)
  BY <1>1, SumOfSubset
<1>4. Summed(f, S, it) /\ Summed(g, S, jt)
  BY <1>2, <1>3 DEF PartialSums
<1>5. \A s \in SUBSET S : jt[s] = it[s]
  BY <1>4, SummedAgree
<1> QED BY <1>2, <1>3, <1>5 DEF PartialSums

\* Natural numbers come to a natural number.
LEMMA SumIsNatural ==
  ASSUME NEW S, IsFiniteSet(S), NEW f, \A x \in S : f[x] \in Nat
  PROVE  SumFunctionOnSet(f, S) \in Nat
<1> DEFINE P == {T \in SUBSET S : SumFunctionOnSet(f, T) \in Nat}
<1>1. ASSUME NEW T \in SUBSET S, \A U \in SUBSET T : U # T => U \in P PROVE T \in P
  <2>1. CASE T = {}
    BY <2>1, SumOfNone
  <2>2. CASE T # {}
    <3>1. PICK x \in T : TRUE
      BY <2>2
    <3>2. SumFunctionOnSet(f, T \ {x}) \in Nat
      BY <1>1
    <3>3. IsFiniteSet(T) /\ f[x] \in Nat /\ \A y \in T : f[y] \in Int
      BY FS_Subset
    <3>4. SumFunctionOnSet(f, T) = f[x] + SumFunctionOnSet(f, T \ {x})
      BY <3>3, SumTakesOut
    <3> QED BY <3>2, <3>3, <3>4
  <2> QED BY <2>1, <2>2
<1>2. SUBSET S \subseteq P
  <2> HIDE DEF P
  <2> QED BY <1>1, FiniteInduction
<1> QED BY <1>2

\* Sums of sums.
LEMMA SumOfSums ==
  ASSUME NEW S, IsFiniteSet(S), NEW f, NEW g, NEW h,
         \A x \in S : f[x] \in Int /\ g[x] \in Int /\ h[x] = f[x] + g[x]
  PROVE  SumFunctionOnSet(h, S) = SumFunctionOnSet(f, S) + SumFunctionOnSet(g, S)
<1> DEFINE P == {T \in SUBSET S :
                   SumFunctionOnSet(h, T) = SumFunctionOnSet(f, T) + SumFunctionOnSet(g, T)}
<1>1. ASSUME NEW T \in SUBSET S, \A U \in SUBSET T : U # T => U \in P PROVE T \in P
  <2>1. CASE T = {}
    BY <2>1, SumOfNone
  <2>2. CASE T # {}
    <3>1. PICK x \in T : TRUE
      BY <2>2
    <3> DEFINE U == T \ {x}
    <3>2. SumFunctionOnSet(h, U) = SumFunctionOnSet(f, U) + SumFunctionOnSet(g, U)
      BY <1>1
    <3>3. IsFiniteSet(T) /\ IsFiniteSet(U) /\ \A y \in T : f[y] \in Int /\ g[y] \in Int /\ h[y] \in Int
      BY FS_Subset
    <3>4. /\ SumFunctionOnSet(f, T) = f[x] + SumFunctionOnSet(f, U)
          /\ SumFunctionOnSet(g, T) = g[x] + SumFunctionOnSet(g, U)
          /\ SumFunctionOnSet(h, T) = h[x] + SumFunctionOnSet(h, U)
      BY <3>3, SumTakesOut
    <3>5. SumFunctionOnSet(f, U) \in Int /\ SumFunctionOnSet(g, U) \in Int
      BY <3>3, SumIsInteger
    <3>6. f[x] \in Int /\ g[x] \in Int /\ h[x] = f[x] + g[x]
      OBVIOUS
    <3> HIDE DEF U
    <3>7. SumFunctionOnSet(h, T) = SumFunctionOnSet(f, T) + SumFunctionOnSet(g, T)
      BY <3>2, <3>4, <3>5, <3>6
    <3> QED BY <3>7
  <2> QED BY <2>1, <2>2
<1>2. SUBSET S \subseteq P
  <2> HIDE DEF P
  <2> QED BY <1>1, FiniteInduction
<1> QED BY <1>2
\* Terms of zero, a single term that is not, and two sets with nothing in common.
LEMMA SumOfZeros ==
  ASSUME NEW S, IsFiniteSet(S), NEW f, \A x \in S : f[x] = 0
  PROVE  SumFunctionOnSet(f, S) = 0
<1> DEFINE P == {T \in SUBSET S : SumFunctionOnSet(f, T) = 0}
<1>1. ASSUME NEW T \in SUBSET S, \A U \in SUBSET T : U # T => U \in P PROVE T \in P
  <2>1. CASE T = {}
    BY <2>1, SumOfNone
  <2>2. CASE T # {}
    <3>1. PICK x \in T : TRUE
      BY <2>2
    <3>2. SumFunctionOnSet(f, T \ {x}) = 0
      BY <1>1
    <3>3. IsFiniteSet(T) /\ f[x] = 0 /\ \A y \in T : f[y] \in Int
      BY FS_Subset
    <3>4. SumFunctionOnSet(f, T) = f[x] + SumFunctionOnSet(f, T \ {x})
      BY <3>3, SumTakesOut
    <3> QED BY <3>2, <3>3, <3>4
  <2> QED BY <2>1, <2>2
<1>2. SUBSET S \subseteq P
  <2> HIDE DEF P
  <2> QED BY <1>1, FiniteInduction
<1> QED BY <1>2

\* A function that is 0 elsewhere comes to its one value.
LEMMA SumOfOne ==
  ASSUME NEW S, IsFiniteSet(S), NEW f, NEW a \in S, f[a] \in Int,
         \A x \in S : x # a => f[x] = 0
  PROVE  SumFunctionOnSet(f, S) = f[a]
<1>1. IsFiniteSet(S \ {a}) /\ \A x \in S : f[x] \in Int
  BY FS_Subset
<1>2. SumFunctionOnSet(f, S) = f[a] + SumFunctionOnSet(f, S \ {a})
  BY <1>1, SumTakesOut
<1>3. SumFunctionOnSet(f, S \ {a}) = 0
  BY <1>1, SumOfZeros
<1> QED BY <1>2, <1>3

\* Disjoint sets are summed apart.
LEMMA SumOfUnion ==
  ASSUME NEW S, IsFiniteSet(S), NEW R, IsFiniteSet(R), S \intersect R = {},
         NEW f, \A x \in S \union R : f[x] \in Int
  PROVE  SumFunctionOnSet(f, S \union R) = SumFunctionOnSet(f, S) + SumFunctionOnSet(f, R)
<1> DEFINE P == {T \in SUBSET R :
                   SumFunctionOnSet(f, S \union T) = SumFunctionOnSet(f, S) + SumFunctionOnSet(f, T)}
<1>0. SumFunctionOnSet(f, S) \in Int
  BY SumIsInteger
<1>1. ASSUME NEW T \in SUBSET R, \A U \in SUBSET T : U # T => U \in P PROVE T \in P
  <2>1. CASE T = {}
    <3>1. S \union T = S
      BY <2>1
    <3>2. SumFunctionOnSet(f, T) = 0
      BY <2>1, SumOfNone
    <3>3. SumFunctionOnSet(f, S \union T) = SumFunctionOnSet(f, S)
      BY <3>1, Zenon
    <3>4. SumFunctionOnSet(f, S \union T) = SumFunctionOnSet(f, S) + SumFunctionOnSet(f, T)
      BY <1>0, <3>2, <3>3
    <3> QED BY <3>4
  <2>2. CASE T # {}
    <3>1. PICK x \in T : TRUE
      BY <2>2
    <3> DEFINE U == T \ {x}
               A == S \union T
               B == S \union U
    <3>2. SumFunctionOnSet(f, B) = SumFunctionOnSet(f, S) + SumFunctionOnSet(f, U)
      BY <1>1
    <3>3. IsFiniteSet(T) /\ IsFiniteSet(U) /\ IsFiniteSet(A)
      BY FS_Subset, FS_Union
    <3>4. A \ {x} = B /\ x \in A /\ f[x] \in Int /\ (\A y \in A : f[y] \in Int) /\ \A y \in T : f[y] \in Int
      OBVIOUS
    <3>5. SumFunctionOnSet(f, A) = f[x] + SumFunctionOnSet(f, B)
      <4> HIDE DEF A, B
      <4>1. SumFunctionOnSet(f, A) = f[x] + SumFunctionOnSet(f, A \ {x})
        BY <3>3, <3>4, SumTakesOut
      <4> QED BY <3>4, <4>1
    <3>6. SumFunctionOnSet(f, T) = f[x] + SumFunctionOnSet(f, U)
      BY <3>3, <3>4, SumTakesOut
    <3>7. SumFunctionOnSet(f, U) \in Int
      BY <3>3, SumIsInteger
    <3>8. SumFunctionOnSet(f, A) = SumFunctionOnSet(f, S) + SumFunctionOnSet(f, T)
      <4> HIDE DEF A, B, U
      <4> QED BY <1>0, <3>2, <3>4, <3>5, <3>6, <3>7
    <3> QED BY <3>8
  <2> QED BY <2>1, <2>2
<1>2. SUBSET R \subseteq P
  <2> HIDE DEF P
  <2> QED BY <1>1, FiniteInduction
<1> QED BY <1>2

\* Elements at which the function is 0 do not count.
LEMMA SumOfMore ==
  ASSUME NEW S, IsFiniteSet(S), NEW T \in SUBSET S, NEW f,
         \A x \in S : f[x] \in Int, \A x \in S \ T : f[x] = 0
  PROVE  SumFunctionOnSet(f, S) = SumFunctionOnSet(f, T)
<1> DEFINE R == S \ T
<1>1. IsFiniteSet(T) /\ IsFiniteSet(R) /\ T \union R = S /\ T \intersect R = {}
  BY FS_Subset
<1>2. SumFunctionOnSet(f, T) \in Int
  BY <1>1, SumIsInteger
<1>3. SumFunctionOnSet(f, R) = 0
  BY <1>1, SumOfZeros
<1>4. SumFunctionOnSet(f, T \union R) = SumFunctionOnSet(f, T) + SumFunctionOnSet(f, R)
  <2> HIDE DEF R
  <2> QED BY <1>1, SumOfUnion
<1>5. SumFunctionOnSet(f, S) = SumFunctionOnSet(f, T) + SumFunctionOnSet(f, R)
  BY <1>1, <1>4, Zenon
<1> QED BY <1>2, <1>3, <1>5

\* The terms under other names.
LEMMA SumRenamed ==
  ASSUME NEW S, IsFiniteSet(S), NEW m, NEW f, NEW g,
         \A x, y \in S : m[x] = m[y] => x = y,
         \A x \in S : f[m[x]] \in Int /\ g[x] = f[m[x]]
  PROVE  SumFunctionOnSet(f, {m[x] : x \in S}) = SumFunctionOnSet(g, S)
<1> DEFINE Of(U) == {m[x] : x \in U}
           P == {T \in SUBSET S :
                   IsFiniteSet(Of(T)) /\ SumFunctionOnSet(f, Of(T)) = SumFunctionOnSet(g, T)}
<1>1. ASSUME NEW T \in SUBSET S, \A U \in SUBSET T : U # T => U \in P PROVE T \in P
  <2>1. CASE T = {}
    <3>1. Of(T) = {}
      BY <2>1
    <3> QED BY <2>1, <3>1, SumOfNone, FS_EmptySet
  <2>2. CASE T # {}
    <3>1. PICK x \in T : TRUE
      BY <2>2
    <3> DEFINE U == T \ {x}
               A == Of(T)
               B == Of(U)
    <3>2. IsFiniteSet(B) /\ SumFunctionOnSet(f, B) = SumFunctionOnSet(g, U)
      BY <1>1
    <3>3. A = B \union {m[x]} /\ m[x] \in A /\ A \ {m[x]} = B
      OBVIOUS
    <3>4. IsFiniteSet(A) /\ IsFiniteSet(T)
      <4> HIDE DEF A, B
      <4> QED BY <3>2, <3>3, FS_AddElement, FS_Subset
    <3>5. (\A y \in A : f[y] \in Int) /\ (\A y \in T : g[y] \in Int) /\ g[x] = f[m[x]]
      OBVIOUS
    <3>6. SumFunctionOnSet(f, A) = f[m[x]] + SumFunctionOnSet(f, B)
      <4> HIDE DEF A, B
      <4>1. SumFunctionOnSet(f, A) = f[m[x]] + SumFunctionOnSet(f, A \ {m[x]})
        BY <3>3, <3>4, <3>5, SumTakesOut
      <4> QED BY <3>3, <4>1
    <3>7. SumFunctionOnSet(g, T) = g[x] + SumFunctionOnSet(g, U)
      BY <3>4, <3>5, SumTakesOut
    <3>8. SumFunctionOnSet(f, A) = SumFunctionOnSet(g, T)
      <4> HIDE DEF A, B, U
      <4> QED BY <3>2, <3>5, <3>6, <3>7
    <3> QED BY <3>4, <3>8
  <2> QED BY <2>1, <2>2
<1>2. SUBSET S \subseteq P
  <2> HIDE DEF P
  <2> QED BY <1>1, FiniteInduction
<1> QED BY <1>2
-----------------------------------------------------------------------------
(* The rows in the order of the hash table *)

\* Each element of a set once.
Enumerates(q, S) ==
  /\ q \in Seq(S)
  /\ \A x \in S : \E j \in DOMAIN q : q[j] = x
  /\ \A j, k \in DOMAIN q : q[j] = q[k] => j = k

OrderStep(S) == [p \in (SUBSET S) \X Seq(S) |-> IF p[1] = {} THEN <<>> ELSE Append(p[2], Pick(p[1]))]

\* What InOrder computes on the way.
Ordered(S, it) ==
  it = [s \in SUBSET S |-> IF s = {} THEN <<>> ELSE Append(it[s \ {Pick(s)}], Pick(s))]

\* InOrder is the fold whose equation is Ordered.
LEMMA OrderIsFold ==
  ASSUME NEW S
  PROVE  InOrder(S) = (CHOOSE it : Ordered(S, it))[S]
BY DEF InOrder, FoldSet, MapThenFoldSet, Ordered, Pick

\* A finite set can be put in order.
LEMMA OrderedExists ==
  ASSUME NEW S, IsFiniteSet(S)
  PROVE  \E it : Ordered(S, it)
<1>1. OrderStep(S) \in [(SUBSET S) \X Seq(S) -> Seq(S)]
  <2>1. ASSUME NEW p \in (SUBSET S) \X Seq(S), p[1] # {} PROVE Append(p[2], Pick(p[1])) \in Seq(S)
    <3>1. Pick(p[1]) \in S
      BY <2>1 DEF Pick
    <3> QED BY <3>1
  <2> QED BY <2>1 DEF OrderStep
<1>2. PICK it \in [SUBSET S -> Seq(S)] : Folded(S, <<>>, OrderStep(S), it)
  <2>1. PICK V : V = Seq(S)
    OBVIOUS
  <2>2. PICK step \in [(SUBSET S) \X V -> V] : step = OrderStep(S)
    BY <1>1, <2>1
  <2>3. PICK base \in V : base = <<>>
    <3>1. <<>> \in Seq(S)
      OBVIOUS
    <3> QED BY <2>1, <3>1
  <2>4. \E it \in [SUBSET S -> V] : Folded(S, base, step, it)
    BY FoldExists
  <2> QED BY <2>1, <2>2, <2>3, <2>4
<1>3. Ordered(S, it)
  <2>1. ASSUME NEW s \in SUBSET S, s # {}
        PROVE  OrderStep(S)[<<s, it[s \ {Pick(s)}]>>] = Append(it[s \ {Pick(s)}], Pick(s))
    BY <2>1 DEF OrderStep
  <2> QED BY <1>2, <2>1 DEF Folded, Ordered
<1> QED BY <1>3

\* Appending what is missing enumerates it too.
LEMMA OneMoreElement ==
  ASSUME NEW S, NEW x \in S, NEW q, Enumerates(q, S \ {x})
  PROVE  Enumerates(Append(q, x), S)
<1>1. q \in Seq(S \ {x})
  BY DEF Enumerates
<1>2. Len(q) \in Nat /\ DOMAIN q = 1..Len(q) /\ \A j \in 1..Len(q) : q[j] \in S /\ q[j] # x
  BY <1>1
<1> DEFINE r == Append(q, x)
<1>3. /\ DOMAIN r = 1..(Len(q) + 1)
      /\ \A j \in 1..Len(q) : r[j] = q[j]
      /\ r[Len(q) + 1] = x
  BY <1>1
<1>4. r \in Seq(S)
  <2>1. q \in Seq(S)
    BY <1>1, <1>2
  <2> QED BY <2>1
<1>5. ASSUME NEW y \in S PROVE \E j \in DOMAIN r : r[j] = y
  <2>1. CASE y = x
    BY <1>2, <1>3, <2>1
  <2>2. CASE y # x
    <3>1. PICK j \in DOMAIN q : q[j] = y
      BY <2>2 DEF Enumerates
    <3> HIDE DEF r
    <3> QED BY <1>2, <1>3, <3>1
  <2> QED BY <2>1, <2>2
<1>6. ASSUME NEW j \in DOMAIN r, NEW k \in DOMAIN r, r[j] = r[k] PROVE j = k
  <2> HIDE DEF r
  <2>1. \A i \in DOMAIN r : i = Len(q) + 1 \/ i \in 1..Len(q)
    BY <1>2, <1>3
  <2>2. \A l, m \in 1..Len(q) : q[l] = q[m] => l = m
    BY <1>2 DEF Enumerates
  <2> QED BY <1>2, <1>3, <1>6, <2>1, <2>2
<1> QED BY <1>4, <1>5, <1>6 DEF Enumerates

\* The order of the rows lists each one exactly once.
LEMMA OrderEnumerates ==
  ASSUME NEW S, IsFiniteSet(S)
  PROVE  Enumerates(InOrder(S), S)
<1> DEFINE it == CHOOSE it : Ordered(S, it)
           P == {T \in SUBSET S : Enumerates(it[T], T)}
<1>1. Ordered(S, it)
  BY OrderedExists
<1>2. ASSUME NEW T \in SUBSET S, \A U \in SUBSET T : U # T => U \in P PROVE T \in P
  <2> HIDE DEF it
  <2>1. CASE T = {}
    <3>1. it[T] = <<>>
      BY <1>1, <2>1 DEF Ordered
    <3>2. Enumerates(<<>>, {})
      BY DEF Enumerates
    <3>3. Enumerates(it[T], T)
      BY <2>1, <3>1, <3>2, Zenon
    <3> QED BY <3>3
  <2>2. CASE T # {}
    <3>1. Pick(T) \in T
      BY <2>2 DEF Pick
    <3>2. Enumerates(it[T \ {Pick(T)}], T \ {Pick(T)})
      BY <1>2, <3>1
    <3>3. it[T] = Append(it[T \ {Pick(T)}], Pick(T))
      BY <1>1, <2>2 DEF Ordered
    <3>4. Enumerates(Append(it[T \ {Pick(T)}], Pick(T)), T)
      BY <3>1, <3>2, OneMoreElement
    <3> QED BY <3>3, <3>4
  <2> QED BY <2>1, <2>2
<1>3. SUBSET S \subseteq P
  <2> HIDE DEF P
  <2> QED BY <1>2, FiniteInduction
<1>4. Enumerates(it[S], S)
  BY <1>3
<1> QED BY <1>4, OrderIsFold
-----------------------------------------------------------------------------
(* Bags and queries *)

\* Bags of finitely many of the elements of S.
FiniteBags(S) == UNION {[D -> Nat \ {0}] : D \in {E \in SUBSET S : IsFiniteSet(E)}}

\* A finite bag, spelled out.
LEMMA FiniteBag ==
  ASSUME NEW S, NEW b
  PROVE  b \in FiniteBags(S) <=>
           /\ b = [x \in DOMAIN b |-> b[x]]
           /\ DOMAIN b \subseteq S /\ IsFiniteSet(DOMAIN b)
           /\ \A x \in DOMAIN b : b[x] \in Nat \ {0}
<1>1. ASSUME b \in FiniteBags(S)
      PROVE  /\ b = [x \in DOMAIN b |-> b[x]]
             /\ DOMAIN b \subseteq S /\ IsFiniteSet(DOMAIN b)
             /\ \A x \in DOMAIN b : b[x] \in Nat \ {0}
  <2>1. PICK D \in SUBSET S : IsFiniteSet(D) /\ b \in [D -> Nat \ {0}]
    BY <1>1 DEF FiniteBags
  <2> QED BY <2>1
<1>2. ASSUME /\ b = [x \in DOMAIN b |-> b[x]]
             /\ DOMAIN b \subseteq S /\ IsFiniteSet(DOMAIN b)
             /\ \A x \in DOMAIN b : b[x] \in Nat \ {0}
      PROVE  b \in FiniteBags(S)
  <2>1. PICK D : D = DOMAIN b
    OBVIOUS
  <2>2. b \in [D -> Nat \ {0}] /\ D \in SUBSET S /\ IsFiniteSet(D)
    BY <1>2, <2>1
  <2> QED BY <2>2 DEF FiniteBags
<1> QED BY <1>1, <1>2

\* What a bag holds is what has a copy in it.
LEMMA CopiesAreNatural ==
  ASSUME NEW S, NEW b \in FiniteBags(S), NEW x
  PROVE  Copies(x, b) \in Nat /\ (Copies(x, b) = 0 <=> x \notin DOMAIN b)
BY FiniteBag DEF Copies

\* The empty bag.
LEMMA NoCopies ==
  ASSUME NEW S
  PROVE  /\ EmptyBag \in FiniteBags(S) /\ DOMAIN EmptyBag = {}
         /\ \A x : Copies(x, EmptyBag) = 0
<1>1. EmptyBag = [x \in {} |-> 1]
  BY DEF EmptyBag, SetToBag
<1>2. DOMAIN EmptyBag = {} /\ EmptyBag = [x \in DOMAIN EmptyBag |-> EmptyBag[x]]
  BY <1>1
<1>3. IsFiniteSet(DOMAIN EmptyBag)
  BY <1>2, FS_EmptySet
<1> QED BY <1>2, <1>3, FiniteBag DEF Copies

\* (+) adds up the copies of each element.
LEMMA CopiesOfBoth ==
  ASSUME NEW S, NEW b \in FiniteBags(S), NEW c \in FiniteBags(S)
  PROVE  /\ b (+) c \in FiniteBags(S) /\ DOMAIN (b (+) c) = DOMAIN b \union DOMAIN c
         /\ \A x : Copies(x, b (+) c) = Copies(x, b) + Copies(x, c)
<1> DEFINE D == DOMAIN b \union DOMAIN c
           d == b (+) c
<1>1. /\ d = [x \in D |-> Copies(x, b) + Copies(x, c)]
  BY DEF (+), Copies
<1>2. IsFiniteSet(D) /\ D \subseteq S
  BY FiniteBag, FS_Union
<1>3. ASSUME NEW x PROVE /\ Copies(x, b) \in Nat /\ (Copies(x, b) = 0 <=> x \notin DOMAIN b)
                         /\ Copies(x, c) \in Nat /\ (Copies(x, c) = 0 <=> x \notin DOMAIN c)
  BY CopiesAreNatural
<1>4. DOMAIN d = D /\ \A x \in D : d[x] = Copies(x, b) + Copies(x, c)
  BY <1>1
<1>5. ASSUME NEW x PROVE Copies(x, d) = Copies(x, b) + Copies(x, c)
  <2> HIDE DEF d
  <2>1. CASE x \in D
    <3>1. Copies(x, d) = d[x]
      BY <1>4, <2>1 DEF Copies
    <3> QED BY <1>4, <2>1, <3>1
  <2>2. CASE x \notin D
    <3>1. Copies(x, d) = 0
      BY <1>4, <2>2 DEF Copies
    <3> QED BY <1>3, <2>2, <3>1
  <2> QED BY <2>1, <2>2
<1>6. \A x \in D : d[x] \in Nat \ {0}
  <2> SUFFICES ASSUME NEW x \in D PROVE d[x] \in Nat \ {0}
    OBVIOUS
  <2> HIDE DEF d
  <2>1. x \in DOMAIN b \/ x \in DOMAIN c
    OBVIOUS
  <2>2. d[x] = Copies(x, b) + Copies(x, c)
    BY <1>4
  <2> HIDE DEF D
  <2> QED BY <1>3, <2>1, <2>2
<1>7. d = [x \in DOMAIN d |-> d[x]]
  BY <1>1
<1>8. d \in FiniteBags(S)
  <2> HIDE DEF d, D
  <2> QED BY <1>2, <1>4, <1>6, <1>7, FiniteBag
<1> QED BY <1>4, <1>5, <1>8

\* Two parts of it for use one at a time.
LEMMA BothAreABag ==
  ASSUME NEW S, NEW b \in FiniteBags(S), NEW c \in FiniteBags(S)
  PROVE  b (+) c \in FiniteBags(S)
BY CopiesOfBoth

\* The copies.
LEMMA BothCount ==
  ASSUME NEW S, NEW b \in FiniteBags(S), NEW c \in FiniteBags(S), NEW x
  PROVE  Copies(x, b (+) c) = Copies(x, b) + Copies(x, c)
BY CopiesOfBoth

\* OnlyRows keeps the counters of some rows as they are.
LEMMA CopiesOfRows ==
  ASSUME NEW S, NEW p \in FiniteBags(S), NEW rows
  PROVE  /\ OnlyRows(p, rows) \in FiniteBags(S)
         /\ \A x : Copies(x, OnlyRows(p, rows)) = IF x.row \in rows THEN Copies(x, p) ELSE 0
<1> DEFINE D == {y \in DOMAIN p : y.row \in rows}
           d == OnlyRows(p, rows)
<1>1. d = [x \in D |-> p[x]]
  BY DEF OnlyRows
<1>2. DOMAIN d = D /\ (\A x \in D : d[x] = p[x]) /\ d = [x \in DOMAIN d |-> d[x]]
  BY <1>1
<1>3. IsFiniteSet(D) /\ D \subseteq S /\ \A x \in D : p[x] \in Nat \ {0}
  BY FiniteBag, FS_Subset
<1>4. d \in FiniteBags(S)
  <2>1. \A x \in D : d[x] \in Nat \ {0}
    BY <1>2, <1>3
  <2> HIDE DEF d, D
  <2> QED BY <1>2, <1>3, <2>1, FiniteBag
<1>5. ASSUME NEW x PROVE Copies(x, d) = IF x.row \in rows THEN Copies(x, p) ELSE 0
  <2> HIDE DEF d
  <2> QED BY <1>2 DEF Copies
<1> QED BY <1>4, <1>5

\* The rows that are counted in can be listed.
LEMMA RowsAreFinite ==
  ASSUME NEW S, NEW p \in FiniteBags(S)
  PROVE  IsFiniteSet(RowsOf(p))
<1> DEFINE f == [x \in DOMAIN p |-> x.row]
<1>1. f \in Surjection(DOMAIN p, RowsOf(p))
  BY DEF Surjection, RowsOf
<1>2. IsFiniteSet(DOMAIN p)
  BY FiniteBag
<1> QED BY <1>1, <1>2, FS_Surjection

\* What the batches need of integer division.
LEMMA Division ==
  \A n \in Nat, d \in Nat \ {0} :
    /\ n \div d \in Nat
    /\ (n + d) \div d = (n \div d) + 1
    /\ \A m \in Nat : m <= n => m \div d <= n \div d
OBVIOUS

\* The sum over a sequence of bags, as the queue is summed up.
LEMMA QueueTypes ==
  ASSUME NEW S, NEW q \in Seq(FiniteBags(S)), NEW x
  PROVE  /\ DOMAIN q = 1..Len(q) /\ Len(q) \in Nat /\ IsFiniteSet(1..Len(q))
         /\ \A i \in 1..Len(q) : q[i] \in FiniteBags(S) /\ Copies(x, q[i]) \in Nat
<1>1. DOMAIN q = 1..Len(q) /\ Len(q) \in Nat /\ \A i \in 1..Len(q) : q[i] \in FiniteBags(S)
  OBVIOUS
<1>2. IsFiniteSet(1..Len(q))
  BY <1>1, FS_Interval
<1> QED BY <1>1, <1>2, CopiesAreNatural

\* How often an item is counted in the bags of a sequence.
InQueries(x, q) == SumFunction([i \in DOMAIN q |-> Copies(x, q[i])])

\* The queries that wait hold a natural number of each item.
LEMMA InQueriesIsNatural ==
  ASSUME NEW S, NEW q \in Seq(FiniteBags(S)), NEW x
  PROVE  InQueries(x, q) \in Nat
<1> DEFINE f == [i \in DOMAIN q |-> Copies(x, q[i])]
<1>1. DOMAIN f = 1..Len(q) /\ IsFiniteSet(1..Len(q)) /\ \A i \in 1..Len(q) : f[i] \in Nat
  BY QueueTypes
<1>2. SumFunctionOnSet(f, 1..Len(q)) \in Nat
  <2> HIDE DEF f
  <2> QED BY <1>1, SumIsNatural
<1>3. InQueries(x, q) = SumFunctionOnSet(f, DOMAIN f)
  BY DEF InQueries, SumFunction
<1> QED BY <1>1, <1>2, <1>3

\* Each row of a bag is in one of its queries.
LEMMA RowsAreInOneQuery ==
  ASSUME NEW S, NEW p \in FiniteBags(S)
  PROVE  /\ Queries(p) \in Seq(FiniteBags(S))
         /\ \A x : \/ x \notin DOMAIN p /\ \A i \in DOMAIN Queries(p) : Copies(x, Queries(p)[i]) = 0
                  \/ \E i \in DOMAIN Queries(p) :
                       /\ Copies(x, Queries(p)[i]) = Copies(x, p)
                       /\ \A k \in DOMAIN Queries(p) : k # i => Copies(x, Queries(p)[k]) = 0
<1> DEFINE order == InOrder(RowsOf(p))
           M == MaxRowsPerQuery
           Part(i) == {order[j] : j \in {k \in DOMAIN order : (k - 1) \div M = i - 1}}
           K == (Len(order) + M - 1) \div M
           Q == Queries(p)
<1>1. Enumerates(order, RowsOf(p))
  BY RowsAreFinite, OrderEnumerates
<1>2. order \in Seq(RowsOf(p)) /\ Len(order) \in Nat /\ DOMAIN order = 1..Len(order)
  BY <1>1 DEF Enumerates
<1>3. M \in Nat \ {0}
  BY RowsAssumption
<1>4. Q = [i \in 1..K |-> OnlyRows(p, Part(i))]
  BY DEF Queries
<1>5. K \in Nat
  <2> HIDE DEF order, M
  <2>1. Len(order) + M - 1 \in Nat
    BY <1>2, <1>3
  <2> QED BY <1>3, <2>1, Division
<1>6. DOMAIN Q = 1..K /\ \A i \in 1..K : Q[i] = OnlyRows(p, Part(i))
  BY <1>4
<1>7. ASSUME NEW i \in 1..K
      PROVE  /\ Q[i] \in FiniteBags(S)
             /\ \A x : Copies(x, Q[i]) = IF x.row \in Part(i) THEN Copies(x, p) ELSE 0
  <2>1. PICK rows : rows = Part(i)
    OBVIOUS
  <2>2. Q[i] = OnlyRows(p, rows)
    BY <1>6, <2>1
  <2> HIDE DEF Q, Part
  <2> QED BY <2>1, <2>2, CopiesOfRows
<1>8. Q \in Seq(FiniteBags(S))
  <2>1. Q \in [1..K -> FiniteBags(S)]
    BY <1>4, <1>7
  <2> HIDE DEF Q, K
  <2> QED BY <1>5, <2>1
<1>9. ASSUME NEW x
      PROVE  \/ x \notin DOMAIN p /\ \A i \in DOMAIN Q : Copies(x, Q[i]) = 0
             \/ \E i \in DOMAIN Q : /\ Copies(x, Q[i]) = Copies(x, p)
                                    /\ \A k \in DOMAIN Q : k # i => Copies(x, Q[k]) = 0
  <2>1. CASE x \notin DOMAIN p
    <3>1. Copies(x, p) = 0
      BY <2>1 DEF Copies
    <3> HIDE DEF Q, K, Part
    <3> QED BY <1>6, <1>7, <2>1, <3>1
  <2>2. CASE x \in DOMAIN p
    <3>1. x.row \in RowsOf(p)
      BY <2>2 DEF RowsOf
    <3>2. PICK j \in DOMAIN order : order[j] = x.row
      BY <1>1, <3>1 DEF Enumerates
    <3>3. \A k \in DOMAIN order : order[k] = x.row => k = j
      BY <1>1, <3>2 DEF Enumerates
    <3> DEFINE i == ((j - 1) \div M) + 1
    <3>4. i \in 1..K
      <4> HIDE DEF order, M
      <4>1. j - 1 \in Nat /\ Len(order) - 1 \in Nat /\ j - 1 <= Len(order) - 1
        BY <1>2, <3>2
      <4>2. /\ (j - 1) \div M \in Nat
            /\ (j - 1) \div M <= (Len(order) - 1) \div M
            /\ (Len(order) - 1) \div M \in Nat
            /\ ((Len(order) - 1) + M) \div M = ((Len(order) - 1) \div M) + 1
        BY <1>3, <4>1, Division
      <4>3. (Len(order) - 1) + M = Len(order) + M - 1
        BY <1>2, <1>3
      <4>4. K = ((Len(order) - 1) \div M) + 1
        BY <4>2, <4>3
      <4> QED BY <4>2, <4>4
    <3>5. \A k \in 1..K : x.row \in Part(k) <=> k = i
      <4> SUFFICES ASSUME NEW k \in 1..K PROVE x.row \in Part(k) <=> k = i
        OBVIOUS
      <4>1. (j - 1) \div M \in Int
        BY <1>2, <1>3, <3>2, Division
      <4>2. x.row \in Part(k) <=> \E l \in DOMAIN order : (l - 1) \div M = k - 1 /\ order[l] = x.row
        OBVIOUS
      <4>3. x.row \in Part(k) <=> (j - 1) \div M = k - 1
        <5> HIDE DEF Part, order, M
        <5> QED BY <4>2, <3>2, <3>3
      <4>4. (j - 1) \div M = k - 1 <=> k = i
        <5>1. PICK v \in Int : v = (j - 1) \div M
          BY <4>1
        <5>2. v = k - 1 <=> k = v + 1
          BY <1>5
        <5> QED BY <5>1, <5>2
      <4> QED BY <4>3, <4>4
    <3> HIDE DEF Q, K, Part, i
    <3>6. Copies(x, Q[i]) = Copies(x, p) /\ \A k \in 1..K : k # i => Copies(x, Q[k]) = 0
      BY <1>7, <3>4, <3>5
    <3> QED BY <1>6, <3>4, <3>6
  <2> QED BY <2>1, <2>2
<1> QED BY <1>8, <1>9

\* A flush loses nothing and counts nothing twice, in however many queries.
LEMMA QueriesAddUp ==
  ASSUME NEW S, NEW p \in FiniteBags(S), NEW x
  PROVE  InQueries(x, Queries(p)) = Copies(x, p)
<1>0. PICK q \in Seq(FiniteBags(S)) : q = Queries(p)
  BY RowsAreInOneQuery
<1> DEFINE f == [i \in DOMAIN q |-> Copies(x, q[i])]
<1>1. DOMAIN q = 1..Len(q) /\ IsFiniteSet(1..Len(q)) /\ \A i \in 1..Len(q) : Copies(x, q[i]) \in Nat
  BY QueueTypes
<1>2. DOMAIN f = DOMAIN q /\ (\A i \in DOMAIN q : f[i] = Copies(x, q[i])) /\ IsFiniteSet(DOMAIN f)
  BY <1>1
<1>3. InQueries(x, q) = SumFunctionOnSet(f, DOMAIN f)
  BY DEF InQueries, SumFunction
<1>4. CASE x \notin DOMAIN p /\ \A i \in DOMAIN q : Copies(x, q[i]) = 0
  <2> HIDE DEF f
  <2>1. SumFunctionOnSet(f, DOMAIN f) = 0
    BY <1>2, <1>4, SumOfZeros
  <2> QED BY <1>0, <1>3, <1>4, <2>1 DEF Copies
<1>5. CASE \E i \in DOMAIN q : /\ Copies(x, q[i]) = Copies(x, p)
                              /\ \A k \in DOMAIN q : k # i => Copies(x, q[k]) = 0
  <2>1. PICK i \in DOMAIN q : /\ Copies(x, q[i]) = Copies(x, p)
                              /\ \A k \in DOMAIN q : k # i => Copies(x, q[k]) = 0
    BY <1>5
  <2> HIDE DEF f
  <2>2. i \in DOMAIN f /\ f[i] \in Int /\ \A k \in DOMAIN f : k # i => f[k] = 0
    BY <1>1, <1>2, <2>1
  <2>3. SumFunctionOnSet(f, DOMAIN f) = f[i]
    BY <1>2, <2>2, SumOfOne
  <2> QED BY <1>0, <1>2, <1>3, <2>1, <2>3
<1> QED BY <1>0, <1>4, <1>5, RowsAreInOneQuery

\* No queries hold nothing.
LEMMA NoQueries ==
  ASSUME NEW x
  PROVE  InQueries(x, <<>>) = 0
<1> DEFINE f == [i \in DOMAIN <<>> |-> Copies(x, <<>>[i])]
<1>1. InQueries(x, <<>>) = SumFunctionOnSet(f, DOMAIN f)
  BY DEF InQueries, SumFunction
<1>2. DOMAIN f = {}
  OBVIOUS
<1>3. SumFunctionOnSet(f, {}) = 0
  <2> HIDE DEF f
  <2> QED BY SumOfNone
<1> HIDE DEF f
<1> QED BY <1>1, <1>2, <1>3

\* One query holds what its rows do.
LEMMA OneQuery ==
  ASSUME NEW S, NEW b \in FiniteBags(S), NEW x
  PROVE  InQueries(x, <<b>>) = Copies(x, b)
<1> DEFINE q == <<b>>
           f == [i \in DOMAIN q |-> Copies(x, q[i])]
<1>1. InQueries(x, q) = SumFunctionOnSet(f, DOMAIN f)
  BY DEF InQueries, SumFunction
<1>2. DOMAIN f = {1} /\ f[1] = Copies(x, b)
  OBVIOUS
<1>3. Copies(x, b) \in Int
  BY CopiesAreNatural
<1>4. IsFiniteSet({1})
  BY FS_Singleton
<1>5. SumFunctionOnSet(f, {1}) = f[1]
  <2> HIDE DEF f
  <2>1. \A i \in {1} : i # 1 => f[i] = 0
    OBVIOUS
  <2> QED BY <1>2, <1>3, <1>4, <2>1, SumOfOne
<1> HIDE DEF f
<1> QED BY <1>1, <1>2, <1>5

\* Queries are added at the end of the queue.
LEMMA QueriesOfBoth ==
  ASSUME NEW S, NEW q \in Seq(FiniteBags(S)), NEW r \in Seq(FiniteBags(S)), NEW x
  PROVE  InQueries(x, q \o r) = InQueries(x, q) + InQueries(x, r)
<1> DEFINE n == Len(q)
           k == Len(r)
           t == q \o r
           f == [i \in DOMAIN q |-> Copies(x, q[i])]
           g == [i \in DOMAIN r |-> Copies(x, r[i])]
           h == [i \in DOMAIN t |-> Copies(x, t[i])]
           m == [i \in 1..k |-> n + i]
           L == 1..n
           R == (n + 1)..(n + k)
<1>1. n \in Nat /\ k \in Nat /\ DOMAIN q = L /\ DOMAIN r = 1..k /\ IsFiniteSet(L) /\ IsFiniteSet(1..k)
  BY QueueTypes
<1>2. DOMAIN t = 1..(n + k) /\ (\A i \in L : t[i] = q[i]) /\ \A i \in 1..k : t[n + i] = r[i]
  <2>1. Len(t) = n + k /\ DOMAIN t = 1..(n + k)
    OBVIOUS
  <2>2. \A i \in 1..(n + k) : t[i] = IF i <= n THEN q[i] ELSE r[i - n]
    OBVIOUS
  <2>3. \A i \in 1..k : n + i \in 1..(n + k) /\ ~(n + i <= n) /\ (n + i) - n = i
    BY <1>1
  <2>4. \A i \in L : i \in 1..(n + k) /\ i <= n
    BY <1>1
  <2> HIDE DEF t, n, k
  <2> QED BY <2>1, <2>2, <2>3, <2>4
<1>3. L \union R = 1..(n + k) /\ L \intersect R = {}
  BY <1>1
<1>4. IsFiniteSet(R)
  BY <1>1, FS_Interval
<1>5. \A i \in 1..k : n + i \in R
  BY <1>1
<1>6. {m[i] : i \in 1..k} = R
  <2>1. \A j \in R : j - n \in 1..k /\ j = n + (j - n)
    BY <1>1
  <2> HIDE DEF n, k, R
  <2>2. \A i \in 1..k : m[i] = n + i
    OBVIOUS
  <2>3. \A j \in R : m[j - n] = j
    BY <2>1, <2>2
  <2> HIDE DEF m
  <2> QED BY <1>5, <2>1, <2>2, <2>3
<1>7. /\ InQueries(x, q) = SumFunctionOnSet(f, DOMAIN f)
      /\ InQueries(x, r) = SumFunctionOnSet(g, DOMAIN g)
      /\ InQueries(x, t) = SumFunctionOnSet(h, DOMAIN h)
  BY DEF InQueries, SumFunction
<1>8. DOMAIN f = L /\ DOMAIN g = 1..k /\ DOMAIN h = 1..(n + k)
  BY <1>1, <1>2
<1>9. (\A i \in L : Copies(x, q[i]) \in Int) /\ \A i \in 1..k : Copies(x, r[i]) \in Int
  <2>1. \A i \in 1..Len(q) : Copies(x, q[i]) \in Nat
    BY QueueTypes
  <2>2. \A i \in 1..Len(r) : Copies(x, r[i]) \in Nat
    BY QueueTypes
  <2> QED BY <2>1, <2>2
<1>10. (\A i \in L : f[i] \in Int /\ h[i] = f[i]) /\ \A i \in 1..k : g[i] \in Int /\ g[i] = h[m[i]] /\ h[m[i]] \in Int
  <2>1. \A i \in L : f[i] = Copies(x, q[i]) /\ h[i] = Copies(x, q[i])
    <3>1. \A i \in L : i \in 1..(n + k)
      BY <1>1
    <3> HIDE DEF t, n, k, L
    <3> QED BY <1>1, <1>2, <3>1
  <2>2. \A i \in 1..k : g[i] = Copies(x, r[i]) /\ h[n + i] = Copies(x, r[i]) /\ m[i] = n + i
    <3>1. \A i \in 1..k : n + i \in 1..(n + k)
      BY <1>1
    <3> HIDE DEF t, n, k, L
    <3> QED BY <1>1, <1>2, <3>1
  <2> HIDE DEF f, g, h, m, n, k, L
  <2> QED BY <1>9, <2>1, <2>2
<1>11. \A i \in L \union R : h[i] \in Int
  <2>1. \A i \in R : \E j \in 1..k : m[j] = i
    <3> HIDE DEF R, m, k
    <3> QED BY <1>6
  <2> HIDE DEF f, g, h, m, n, k, L, R
  <2> QED BY <1>10, <2>1
<1>12. SumFunctionOnSet(h, L) = SumFunctionOnSet(f, L)
  <2> HIDE DEF f, g, h, m, n, k, L, R
  <2> QED BY <1>1, <1>10, SumAgrees
<1>13. SumFunctionOnSet(h, R) = SumFunctionOnSet(g, 1..k)
  <2>1. \A i, j \in 1..k : m[i] = m[j] => i = j
    <3>1. \A i \in 1..k : m[i] = n + i
      OBVIOUS
    <3> HIDE DEF m
    <3> QED BY <1>1, <3>1
  <2>2. PICK D : D = 1..k
    OBVIOUS
  <2> HIDE DEF f, g, h, m, n, k, L, R
  <2>3. \A i \in D : h[m[i]] \in Int /\ g[i] = h[m[i]]
    BY <1>10, <2>2
  <2>4. IsFiniteSet(D) /\ \A i, j \in D : m[i] = m[j] => i = j
    BY <1>1, <2>1, <2>2
  <2>5. SumFunctionOnSet(h, {m[i] : i \in D}) = SumFunctionOnSet(g, D)
    BY <2>3, <2>4, SumRenamed
  <2> QED BY <1>6, <2>2, <2>5
<1>14. SumFunctionOnSet(h, L \union R) = SumFunctionOnSet(h, L) + SumFunctionOnSet(h, R)
  <2> HIDE DEF f, g, h, m, n, k, L, R
  <2> QED BY <1>1, <1>3, <1>4, <1>11, SumOfUnion
<1>15. SumFunctionOnSet(h, DOMAIN h) = SumFunctionOnSet(f, DOMAIN f) + SumFunctionOnSet(g, DOMAIN g)
  <2> HIDE DEF f, g, h, m, n, k, L, R
  <2> QED BY <1>3, <1>8, <1>12, <1>13, <1>14
<1>16. InQueries(x, t) = InQueries(x, q) + InQueries(x, r)
  <2> HIDE DEF f, g, h, t
  <2> QED BY <1>7, <1>15
<1> QED BY <1>16

\* Queries are taken from the front of it.
LEMMA QueriesFromTheFirst ==
  ASSUME NEW S, NEW q \in Seq(FiniteBags(S)), q # <<>>, NEW x
  PROVE  /\ Head(q) \in FiniteBags(S) /\ Tail(q) \in Seq(FiniteBags(S))
         /\ InQueries(x, q) = Copies(x, Head(q)) + InQueries(x, Tail(q))
<1> DEFINE a == Head(q)
           t == Tail(q)
<1>1. a \in FiniteBags(S) /\ t \in Seq(FiniteBags(S)) /\ q = <<a>> \o t
  OBVIOUS
<1> HIDE DEF a, t
<1>2. <<a>> \in Seq(FiniteBags(S))
  BY <1>1
<1>3. InQueries(x, <<a>> \o t) = InQueries(x, <<a>>) + InQueries(x, t)
  BY <1>1, <1>2, QueriesOfBoth
<1>4. InQueries(x, <<a>>) = Copies(x, a)
  BY <1>1, OneQuery
<1>5. InQueries(x, q) = Copies(x, a) + InQueries(x, t)
  BY <1>1, <1>3, <1>4, Zenon
<1> QED BY <1>1, <1>5 DEF a, t
\* What After computes on the way.
Added(t, queries, ok, it) ==
  it = [s \in SUBSET ok |-> IF s = {} THEN t ELSE it[s \ {Pick(s)}] (+) queries[Pick(s)]]

AddStep(S, queries, ok, t) ==
  [p \in (SUBSET ok) \X FiniteBags(S) |-> IF p[1] = {} THEN t ELSE p[2] (+) queries[Pick(p[1])]]

\* After is the fold whose equation is Added.
LEMMA AfterIsFold ==
  ASSUME NEW t, NEW queries, NEW ok
  PROVE  After(t, queries, ok) = (CHOOSE it : Added(t, queries, ok, it))[ok]
BY DEF After, FoldSet, MapThenFoldSet, Added, Pick

\* Some queries can be run one after the other.
LEMMA AddedExists ==
  ASSUME NEW S, NEW t \in FiniteBags(S), NEW queries, NEW ok, IsFiniteSet(ok),
         \A i \in ok : queries[i] \in FiniteBags(S)
  PROVE  \E it : Added(t, queries, ok, it)
<1>1. AddStep(S, queries, ok, t) \in [(SUBSET ok) \X FiniteBags(S) -> FiniteBags(S)]
  <2>1. ASSUME NEW p \in (SUBSET ok) \X FiniteBags(S), p[1] # {}
        PROVE  p[2] (+) queries[Pick(p[1])] \in FiniteBags(S)
    <3>1. Pick(p[1]) \in ok
      BY <2>1 DEF Pick
    <3>2. p[2] \in FiniteBags(S) /\ queries[Pick(p[1])] \in FiniteBags(S)
      BY <3>1
    <3> QED BY <3>2, CopiesOfBoth
  <2> QED BY <2>1 DEF AddStep
<1>2. PICK it \in [SUBSET ok -> FiniteBags(S)] : Folded(ok, t, AddStep(S, queries, ok, t), it)
  <2>1. PICK V : V = FiniteBags(S)
    OBVIOUS
  <2>2. PICK step \in [(SUBSET ok) \X V -> V] : step = AddStep(S, queries, ok, t)
    BY <1>1, <2>1
  <2>3. t \in V
    BY <2>1
  <2>4. \E it \in [SUBSET ok -> V] : Folded(ok, t, step, it)
    BY <2>3, FoldExists
  <2> QED BY <2>1, <2>2, <2>4
<1>3. Added(t, queries, ok, it)
  <2>1. ASSUME NEW s \in SUBSET ok, s # {}
        PROVE  AddStep(S, queries, ok, t)[<<s, it[s \ {Pick(s)}]>>] = it[s \ {Pick(s)}] (+) queries[Pick(s)]
    BY <2>1 DEF AddStep
  <2> QED BY <1>2, <2>1 DEF Folded, Added
<1> QED BY <1>3

\* A table holds what it did, and what the queries that ran do, whatever their order.
LEMMA CopiesAfter ==
  ASSUME NEW S, NEW t \in FiniteBags(S), NEW queries, NEW ok, IsFiniteSet(ok),
         \A i \in ok : queries[i] \in FiniteBags(S),
         NEW x, NEW c, \A i \in ok : c[i] = Copies(x, queries[i])
  PROVE  /\ After(t, queries, ok) \in FiniteBags(S)
         /\ Copies(x, After(t, queries, ok)) = Copies(x, t) + SumFunctionOnSet(c, ok)
<1> DEFINE it == CHOOSE it : Added(t, queries, ok, it)
           P == {T \in SUBSET ok : /\ it[T] \in FiniteBags(S)
                                   /\ Copies(x, it[T]) = Copies(x, t) + SumFunctionOnSet(c, T)}
<1>1. Added(t, queries, ok, it)
  BY AddedExists
<1>2. Copies(x, t) \in Nat /\ \A i \in ok : c[i] \in Nat
  BY CopiesAreNatural
<1>3. ASSUME NEW T \in SUBSET ok, \A U \in SUBSET T : U # T => U \in P PROVE T \in P
  <2> HIDE DEF it
  <2>1. CASE T = {}
    <3>1. it[T] = t
      BY <1>1, <2>1 DEF Added
    <3>2. SumFunctionOnSet(c, T) = 0
      BY <2>1, SumOfNone
    <3> QED BY <1>2, <3>1, <3>2
  <2>2. CASE T # {}
    <3>1. PICK i \in T : i = Pick(T)
      BY <2>2 DEF Pick
    <3>2. it[T] = it[T \ {i}] (+) queries[i]
      BY <1>1, <2>2, <3>1 DEF Added
    <3>3. /\ it[T \ {i}] \in FiniteBags(S)
          /\ Copies(x, it[T \ {i}]) = Copies(x, t) + SumFunctionOnSet(c, T \ {i})
      BY <1>3
    <3>4. it[T] \in FiniteBags(S) /\ Copies(x, it[T]) = Copies(x, it[T \ {i}]) + Copies(x, queries[i])
      <4>1. PICK b \in FiniteBags(S) : b = it[T \ {i}]
        BY <3>3
      <4>2. PICK d \in FiniteBags(S) : d = queries[i]
        OBVIOUS
      <4>3. b (+) d \in FiniteBags(S)
        BY BothAreABag
      <4>4. Copies(x, b (+) d) = Copies(x, b) + Copies(x, d)
        BY BothCount
      <4> QED BY <3>2, <4>1, <4>2, <4>3, <4>4
    <3>5. IsFiniteSet(T) /\ IsFiniteSet(T \ {i}) /\ (\A j \in T : c[j] \in Int) /\ \A j \in T \ {i} : c[j] \in Int
      BY <1>2, FS_Subset
    <3>6. SumFunctionOnSet(c, T) = c[i] + SumFunctionOnSet(c, T \ {i})
      BY <3>5, SumTakesOut
    <3>7. SumFunctionOnSet(c, T \ {i}) \in Int
      <4>1. PICK U : U = T \ {i}
        OBVIOUS
      <4> QED BY <3>5, <4>1, SumIsInteger
    <3>8. c[i] \in Nat /\ c[i] = Copies(x, queries[i])
      BY <1>2
    <3>9. Copies(x, it[T]) = Copies(x, t) + SumFunctionOnSet(c, T)
      BY <1>2, <3>3, <3>4, <3>6, <3>7, <3>8
    <3> QED BY <3>4, <3>9
  <2> QED BY <2>1, <2>2
<1>4. SUBSET ok \subseteq P
  <2> HIDE DEF P
  <2> QED BY <1>3, FiniteInduction
<1>5. it[ok] \in FiniteBags(S) /\ Copies(x, it[ok]) = Copies(x, t) + SumFunctionOnSet(c, ok)
  BY <1>4
<1> QED BY <1>5, AfterIsFold
-----------------------------------------------------------------------------
(* The calendar *)

\* A finite set of natural numbers has a largest.
LEMMA LargestExists ==
  ASSUME NEW S \in SUBSET Nat, IsFiniteSet(S), S # {}
  PROVE  \E m \in S : \A x \in S : m >= x
<1> DEFINE P == {T \in SUBSET S : T = {} \/ \E m \in T : \A x \in T : m >= x}
<1>1. ASSUME NEW T \in SUBSET S, \A U \in SUBSET T : U # T => U \in P PROVE T \in P
  <2> SUFFICES ASSUME T # {} PROVE \E m \in T : \A x \in T : m >= x
    OBVIOUS
  <2>1. PICK a \in T : TRUE
    OBVIOUS
  <2>2. T \ {a} \in P
    BY <1>1
  <2>3. CASE T \ {a} = {}
    <3>1. \A x \in T : x = a /\ a \in Nat
      BY <2>3
    <3> QED BY <3>1
  <2>4. CASE T \ {a} # {}
    <3>1. PICK m \in T \ {a} : \A x \in T \ {a} : m >= x
      BY <2>2, <2>4
    <3>2. a \in Nat /\ \A x \in T : x \in Nat
      OBVIOUS
    <3>3. CASE m >= a
      BY <3>1, <3>2, <3>3
    <3>4. CASE a >= m
      BY <3>1, <3>2, <3>4
    <3> QED BY <3>1, <3>2, <3>3, <3>4
  <2> QED BY <2>3, <2>4
<1>2. SUBSET S \subseteq P
  <2> HIDE DEF P
  <2> QED BY <1>1, FiniteInduction
<1> QED BY <1>2

\* Every day has a first of its month.
LEMMA MonthsBegin ==
  ASSUME NEW d \in Nat
  PROVE  FirstOfMonth(d) \in Nat
<1> DEFINE S == {m \in MonthStarts : m <= d}
<1>1. S \in SUBSET Nat /\ 0 \in S /\ \A m \in S : m <= d
  <2>1. MonthStarts \subseteq Nat /\ 0 \in MonthStarts /\ 0 <= d
    BY TimeAssumption
  <2> QED BY <2>1
<1>2. IsFiniteSet(S)
  BY <1>1, FS_BoundedSetOfNaturals
<1>3. \E m \in S : \A x \in S : m >= x
  <2> HIDE DEF S
  <2> QED BY <1>1, <1>2, LargestExists
<1>4. Max(S) \in S
  BY <1>3 DEF Max
<1> QED BY <1>1, <1>4 DEF FirstOfMonth

\* Dates count the days since 1970.
LEMMA DatesAreNatural ==
  ASSUME NEW t \in Instants
  PROVE  DateOf(t) \in Nat /\ DaysFromMonday(DateOf(t)) \in 0..6
<1>1. t \in Nat
  BY TimeAssumption
<1>2. DateOf(t) \in Nat
  BY <1>1 DEF DateOf, localtime, Day
<1> QED BY <1>2 DEF DaysFromMonday

\* The hour and the flag of a time, and a time made of another hour and its flag.
LEMMA LocalTime ==
  ASSUME NEW t
  PROVE  /\ localtime(t).h = IF t \in Summer THEN t + 1 ELSE t
         /\ \A h : mktime([localtime(t) EXCEPT !.h = h]) = IF t \in Summer THEN h - 1 ELSE h
<1>1. PICK flag \in BOOLEAN : flag <=> t \in Summer
  <2>1. (t \in Summer) \in BOOLEAN
    OBVIOUS
  <2> QED BY <2>1, Zenon
<1>2. flag = (t \in Summer)
  BY <1>1, Zenon
<1>3. localtime(t) = [h |-> IF t \in Summer THEN t + 1 ELSE t, isdst |-> flag]
  BY <1>2, Zenon DEF localtime
<1>4. localtime(t).h = IF t \in Summer THEN t + 1 ELSE t
  BY <1>3
<1>5. ASSUME NEW h PROVE mktime([localtime(t) EXCEPT !.h = h]) = IF t \in Summer THEN h - 1 ELSE h
  <2>1. [localtime(t) EXCEPT !.h = h] = [h |-> h, isdst |-> flag]
    BY <1>3
  <2>2. mktime([h |-> h, isdst |-> flag]) = IF flag THEN h - 1 ELSE h
    BY DEF mktime
  <2> QED BY <1>1, <2>1, <2>2
<1> QED BY <1>4, <1>5

\* The same of the date.
LEMMA DateOfTime ==
  ASSUME NEW t
  PROVE  DateOf(t) = (IF t \in Summer THEN t + 1 ELSE t) \div 24
<1>1. localtime(t).h = IF t \in Summer THEN t + 1 ELSE t
  BY LocalTime
<1> QED BY <1>1 DEF DateOf, Day

\* The same of the way back.
LEMMA TimeMade ==
  ASSUME NEW t, NEW h
  PROVE  mktime([localtime(t) EXCEPT !.h = h]) = IF t \in Summer THEN h - 1 ELSE h
BY LocalTime, Zenon

\* The dates in the rows are those of the day, its week and its month.
LEMMA PeriodsBegin ==
  ASSUME SummerSettled, NEW t \in Instants
  PROVE  /\ FormatDateYMD(StartOfDay(t)) = Start("daily", DateOf(t))
         /\ FormatDateYMD(StartOfWeek(t)) = Start("weekly", DateOf(t))
         /\ FormatDateYMD(StartOfMonth(t)) = Start("monthly", DateOf(t))
<1> DEFINE d == DateOf(t)
           k == DaysFromMonday(d)
           m == FirstOfMonth(d)
           Shift == IF t \in Summer THEN 1 ELSE 0
<1>1. d \in Nat /\ k \in 0..6 /\ m \in Nat
  BY DatesAreNatural, MonthsBegin
<1>2. ASSUME NEW h \in Int PROVE mktime([localtime(t) EXCEPT !.h = h]) = h - Shift
  <2>1. mktime([localtime(t) EXCEPT !.h = h]) = IF t \in Summer THEN h - 1 ELSE h
    BY TimeMade
  <2>2. PICK v : v = mktime([localtime(t) EXCEPT !.h = h])
    OBVIOUS
  <2>3. v = h - Shift
    BY <2>1, <2>2
  <2> QED BY <2>2, <2>3, Zenon
<1>3. ASSUME NEW h \in Int, h - Shift \in Summer \/ t \notin Summer
      PROVE  DateOf(h - Shift) = h \div 24 \/ DateOf(h - Shift) = (h + 1) \div 24
  <2>1. PICK u \in Int : u = h - Shift
    OBVIOUS
  <2>2. DateOf(u) = (IF u \in Summer THEN u + 1 ELSE u) \div 24
    BY DateOfTime
  <2>3. CASE t \in Summer
    <3>1. u \in Summer /\ u + 1 = h
      BY <1>3, <2>1, <2>3
    <3>2. DateOf(u) = h \div 24
      BY <2>2, <3>1
    <3> QED BY <2>1, <3>2
  <2>4. CASE t \notin Summer
    <3>1. u = h
      BY <2>1, <2>4
    <3>2. DateOf(u) = h \div 24 \/ DateOf(u) = (h + 1) \div 24
      BY <2>2, <3>1
    <3> QED BY <2>1, <3>2
  <2> QED BY <2>3, <2>4
<1>4. \A n \in Int : (n * 24) \div 24 = n /\ (n * 24 + 1) \div 24 = n /\ n * 24 \in Int
  OBVIOUS
<1>5. ASSUME NEW n \in Int, n * 24 - Shift \in Summer \/ t \notin Summer
      PROVE  DateOf(n * 24 - Shift) = n
  <2> HIDE DEF Shift
  <2> QED BY <1>3, <1>4, <1>5
<1>6. StartOfDay(t) = d * 24 - Shift /\ StartOfMonth(t) = m * 24 - Shift
  <2>1. d * 24 \in Int /\ m * 24 \in Int
    BY <1>1
  <2> HIDE DEF d, m, Shift
  <2> QED BY <1>2, <2>1 DEF StartOfDay, StartOfMonth, Day, d, m
<1>7. StartOfWeek(t) = (d - k) * 24 - Shift
  <2> HIDE DEF d, k
  <2>1. StartOfWeek(t) = (d * 24 - Shift) - k * 24
    BY <1>6 DEF StartOfWeek, Day, d, k
  <2> QED BY <1>1, <2>1
<1>8. t \in Summer => StartOfDay(t) \in Summer /\ StartOfWeek(t) \in Summer /\ StartOfMonth(t) \in Summer
  BY DEF SummerSettled
<1>9. DateOf(StartOfDay(t)) = d /\ DateOf(StartOfWeek(t)) = d - k /\ DateOf(StartOfMonth(t)) = m
  <2>1. d \in Int /\ d - k \in Int /\ m \in Int
    BY <1>1
  <2> HIDE DEF d, k, m, Shift
  <2> QED BY <1>5, <1>6, <1>7, <1>8, <2>1
<1> QED BY <1>9 DEF FormatDateYMD, Start
-----------------------------------------------------------------------------
(* What an event adds *)

Metrics == {"lines", "actions", "words", "smileys", "topics", "modes", "kicked", "kicks"}

\* Rows of the table are of any channel, "", or of no account, "".
AnyChan == Chans \union {""}
AnyNick == Accounts \union {""}

TableRows == [chan   : AnyChan,
              nick   : AnyNick,
              period : Periods,
              start  : Int]

Items  == [row : TableRows, metric : Metrics]
Events == [chan : Chans, nick : AnyNick, day : Nat, metric : Metrics]

\* What Row makes is a row of the table, and is told by its four parts.
LEMMA RowIsIn ==
  ASSUME NEW c \in AnyChan, NEW n \in AnyNick,
         NEW period \in Periods, NEW start \in Int
  PROVE  /\ Row(c, n, period, start) \in TableRows
         /\ \A r \in TableRows : r = Row(c, n, period, start) <=>
              r.chan = c /\ r.nick = n /\ r.period = period /\ r.start = start
<1>1. \A r \in TableRows : r = [chan |-> r.chan, nick |-> r.nick, period |-> r.period, start |-> r.start]
  BY DEF TableRows
<1>2. Row(c, n, period, start) = [chan |-> c, nick |-> n, period |-> period, start |-> start]
  BY DEF Row
<1>3. Row(c, n, period, start) \in TableRows
  BY <1>2 DEF TableRows
<1>4. ASSUME NEW r \in TableRows
      PROVE  r = Row(c, n, period, start) <=>
               r.chan = c /\ r.nick = n /\ r.period = period /\ r.start = start
  BY <1>1, <1>2
<1> QED BY <1>3, <1>4

\* Every period of every day has a start.
LEMMA StartIsInteger ==
  ASSUME NEW d \in Nat, NEW period \in Periods
  PROVE  Start(period, d) \in Int
<1>1. DaysFromMonday(d) \in Int
  BY DEF DaysFromMonday
<1>2. FirstOfMonth(d) \in Nat
  BY MonthsBegin
<1>3. d - DaysFromMonday(d) \in Int
  BY <1>1
<1> QED BY <1>2, <1>3 DEF Start, Periods

\* The rows an event counts in are the ones whose period now is in.
LEMMA RowsOfNow ==
  ASSUME SummerSettled, now \in Instants, NEW c \in AnyChan, NEW n \in AnyNick
  PROVE  /\ IsFiniteSet(Rows(c, n)) /\ Rows(c, n) \subseteq TableRows
         /\ \A r \in TableRows :
              r \in Rows(c, n) <=> r.chan = c /\ r.nick = n /\ r.start = Start(r.period, DateOf(now))
<1> DEFINE d == DateOf(now)
           R(period) == Row(c, n, period, Start(period, d))
           w == R("total")
           x == R("monthly")
           y == R("weekly")
           z == R("daily")
<1>0. Start("total", d) = 0
  BY DEF Start
<1>1. Rows(c, n) = {w, x, y, z}
  BY <1>0, PeriodsBegin DEF Rows
<1>2. IsFiniteSet({w, x, y, z})
  <2> HIDE DEF w, x, y, z
  <2>1. IsFiniteSet({w}) /\ IsFiniteSet({x}) /\ IsFiniteSet({y}) /\ IsFiniteSet({z})
    BY FS_Singleton
  <2>2. IsFiniteSet({w} \union {x}) /\ IsFiniteSet({y} \union {z})
    BY <2>1, FS_Union
  <2>3. IsFiniteSet(({w} \union {x}) \union ({y} \union {z}))
    BY <2>2, FS_Union
  <2>4. {w, x, y, z} = ({w} \union {x}) \union ({y} \union {z})
    OBVIOUS
  <2> QED BY <2>3, <2>4
<1>3. d \in Nat
  BY DatesAreNatural
<1>4. ASSUME NEW period \in Periods
      PROVE  /\ R(period) \in TableRows
             /\ \A r \in TableRows : r = R(period) <=>
                  r.chan = c /\ r.nick = n /\ r.period = period /\ r.start = Start(period, d)
  <2>1. PICK start \in Int : start = Start(period, d)
    <3> HIDE DEF d
    <3> QED BY <1>3, StartIsInteger
  <2>2. /\ Row(c, n, period, start) \in TableRows
        /\ \A r \in TableRows : r = Row(c, n, period, start) <=>
             r.chan = c /\ r.nick = n /\ r.period = period /\ r.start = start
    BY RowIsIn
  <2> QED BY <2>1, <2>2
<1>5. ASSUME NEW r \in TableRows
      PROVE  r \in {w, x, y, z} <=> r.chan = c /\ r.nick = n /\ r.start = Start(r.period, d)
  <2>1. r.period \in Periods
    BY DEF TableRows
  <2> HIDE DEF R, d
  <2> QED BY <1>4, <2>1 DEF Periods
<1>6. w \in TableRows /\ x \in TableRows /\ y \in TableRows /\ z \in TableRows
  <2> HIDE DEF R
  <2> QED BY <1>4 DEF Periods
<1> HIDE DEF w, x, y, z
<1> QED BY <1>1, <1>2, <1>5, <1>6

\* What AddForPeriods adds for one name.
RowsAdded(c, n, delta) ==
  [x \in {[row |-> r, metric |-> m] : r \in Rows(c, n), m \in DOMAIN delta} |-> delta[x.metric]]

\* Each of them is counted in once.
LEMMA RowsAddedOnce ==
  ASSUME SummerSettled, now \in Instants, NEW c \in AnyChan, NEW n \in AnyNick,
         NEW delta \in FiniteBags(Metrics)
  PROVE  /\ RowsAdded(c, n, delta) \in FiniteBags(Items)
         /\ \A x \in Items : Copies(x, RowsAdded(c, n, delta)) =
              IF x.row \in Rows(c, n) THEN Copies(x.metric, delta) ELSE 0
<1> DEFINE R == Rows(c, n)
           M == DOMAIN delta
           D == {[row |-> r, metric |-> m] : r \in R, m \in M}
           b == RowsAdded(c, n, delta)
<1>1. R \subseteq TableRows /\ IsFiniteSet(R)
  BY RowsOfNow
<1>2. M \subseteq Metrics /\ IsFiniteSet(M) /\ \A m \in M : delta[m] \in Nat \ {0}
  BY FiniteBag
<1>3. b = [x \in D |-> delta[x.metric]]
  BY DEF RowsAdded
<1>4. D \subseteq Items /\ (\A x \in D : x.row \in R /\ x.metric \in M)
  <2> HIDE DEF R, M
  <2> QED BY <1>1, <1>2 DEF Items
<1>5. \A x \in Items : x.row \in R /\ x.metric \in M => x \in D
  <2> HIDE DEF R, M
  <2> QED BY DEF Items
<1>6. IsFiniteSet(D)
  <2> DEFINE f == [p \in R \X M |-> [row |-> p[1], metric |-> p[2]]]
  <2> HIDE DEF R, M
  <2>1. f \in Surjection(R \X M, D)
    <3>1. f \in [R \X M -> D]
      OBVIOUS
    <3>2. ASSUME NEW x \in D PROVE \E p \in R \X M : f[p] = x
      <4>1. PICK r \in R, m \in M : x = [row |-> r, metric |-> m]
        OBVIOUS
      <4>2. <<r, m>> \in R \X M /\ f[<<r, m>>] = x
        BY <4>1
      <4> HIDE DEF f
      <4> QED BY <4>2
    <3> QED BY <3>1, <3>2 DEF Surjection
  <2>2. IsFiniteSet(R \X M)
    BY <1>1, <1>2, FS_Product
  <2> HIDE DEF f, D
  <2> QED BY <2>1, <2>2, FS_Surjection
<1> HIDE DEF D, R, M
<1>7. DOMAIN b = D /\ (\A x \in D : b[x] = delta[x.metric]) /\ b = [x \in DOMAIN b |-> b[x]]
  BY <1>3
<1> HIDE DEF b
<1>8. b \in FiniteBags(Items)
  <2>1. \A x \in D : b[x] \in Nat \ {0}
    BY <1>2, <1>4, <1>7
  <2> QED BY <1>4, <1>6, <1>7, <2>1, FiniteBag
<1>9. ASSUME NEW x \in Items
      PROVE  Copies(x, b) = IF x.row \in R THEN Copies(x.metric, delta) ELSE 0
  <2>1. x \in D <=> x.row \in R /\ x.metric \in M
    BY <1>4, <1>5
  <2>2. CASE x \in D
    BY <1>7, <2>1, <2>2 DEF Copies, M
  <2>3. CASE x \notin D
    BY <1>7, <2>1, <2>3 DEF Copies, M
  <2> QED BY <2>2, <2>3
<1> QED BY <1>8, <1>9 DEF b, R

\* What AddForPeriods adds.
LEMMA PeriodsAdded ==
  ASSUME SummerSettled, now \in Instants, NEW p \in FiniteBags(Items), NEW c \in AnyChan, NEW n \in AnyNick,
         NEW delta \in FiniteBags(Metrics)
  PROVE  /\ AddForPeriods(p, c, n, delta) \in FiniteBags(Items)
         /\ \A x \in Items : Copies(x, AddForPeriods(p, c, n, delta)) =
              Copies(x, p) + IF x.row \in Rows(c, n) THEN Copies(x.metric, delta) ELSE 0
<1>1. AddForPeriods(p, c, n, delta) = p (+) RowsAdded(c, n, delta)
  BY DEF AddForPeriods, RowsAdded
<1>2. PICK b \in FiniteBags(Items) : b = RowsAdded(c, n, delta)
  BY RowsAddedOnce
<1>3. p (+) b \in FiniteBags(Items)
  BY BothAreABag
<1>4. ASSUME NEW x \in Items
      PROVE  Copies(x, p (+) b) = Copies(x, p) + IF x.row \in Rows(c, n) THEN Copies(x.metric, delta) ELSE 0
  <2>1. Copies(x, p (+) b) = Copies(x, p) + Copies(x, b)
    BY BothCount
  <2>2. Copies(x, b) = IF x.row \in Rows(c, n) THEN Copies(x.metric, delta) ELSE 0
    BY <1>2, RowsAddedOnce
  <2> QED BY <2>1, <2>2
<1> QED BY <1>1, <1>2, <1>3, <1>4

\* What is in memory, and how often an item is counted there.
MemTypes(s) == s \in [pending : FiniteBags(Items), queue : Seq(FiniteBags(Items))]

InMemory(x, s) == Copies(x, s.pending) + InQueries(x, s.queue)

\* What happened now, and how often it is to be counted in an item.
EventOf(c, n, metric) == [chan |-> c, nick |-> n, day |-> DateOf(now), metric |-> metric]

Gain(x, c, n, delta) ==
  IF Covers(x.row, EventOf(c, n, x.metric)) THEN Copies(x.metric, delta) ELSE 0

\* A flush moves counts to the queries and changes none.
LEMMA FlushKeeps ==
  ASSUME NEW s, MemTypes(s)
  PROVE  MemTypes(Flush(s)) /\ \A x : InMemory(x, Flush(s)) = InMemory(x, s)
<1>1. s.pending \in FiniteBags(Items) /\ s.queue \in Seq(FiniteBags(Items))
  BY DEF MemTypes
<1>2. CASE ~sql
  BY <1>2 DEF Flush
<1>3. CASE sql
  <2>1. PICK q \in Seq(FiniteBags(Items)) : q = Queries(s.pending)
    BY <1>1, RowsAreInOneQuery
  <2>2. Flush(s) = [pending |-> EmptyBag, queue |-> s.queue \o q]
    BY <1>3, <2>1 DEF Flush
  <2>3. EmptyBag \in FiniteBags(Items) /\ s.queue \o q \in Seq(FiniteBags(Items))
    BY <1>1, <2>1, NoCopies
  <2>4. MemTypes(Flush(s))
    BY <2>2, <2>3 DEF MemTypes
  <2>5. ASSUME NEW x PROVE InMemory(x, Flush(s)) = InMemory(x, s)
    <3>1. Copies(x, EmptyBag) = 0
      BY NoCopies
    <3>2. InQueries(x, s.queue \o q) = InQueries(x, s.queue) + InQueries(x, q)
      BY <1>1, <2>1, QueriesOfBoth
    <3>3. InQueries(x, q) = Copies(x, s.pending)
      BY <1>1, <2>1, QueriesAddUp
    <3>4. InQueries(x, s.queue) \in Nat /\ Copies(x, s.pending) \in Nat
      BY <1>1, InQueriesIsNatural, CopiesAreNatural
    <3>5. InMemory(x, Flush(s)) = Copies(x, EmptyBag) + InQueries(x, s.queue \o q)
      BY <2>2 DEF InMemory
    <3> QED BY <3>1, <3>2, <3>3, <3>4, <3>5 DEF InMemory
  <2> QED BY <2>4, <2>5
<1> QED BY <1>2, <1>3

\* RowsOfNow for one row.
LEMMA InRowsOfNow ==
  ASSUME SummerSettled, now \in Instants, NEW c \in AnyChan, NEW n \in AnyNick, NEW r \in TableRows
  PROVE  r \in Rows(c, n) <=> r.chan = c /\ r.nick = n /\ r.start = Start(r.period, DateOf(now))
BY RowsOfNow

\* The name of no channel and of no account.
None == ""

\* It is neither, and stands where either does.
LEMMA NoneIsAName == None \in AnyChan /\ None \in AnyNick /\ None \notin Chans
BY NamesAssumption DEF None, AnyChan, AnyNick

\* The rows of the channel alone, or of the account in it and anywhere as well.
LEMMA WhoseRows ==
  ASSUME NEW c, NEW n, NEW m
  PROVE  Whose(EventOf(c, n, m)) = IF n = None THEN {<<c, None>>} ELSE {<<c, None>>, <<c, n>>, <<None, n>>}
<1> DEFINE e == EventOf(c, n, m)
<1>1. e.chan = c /\ e.nick = n
  BY DEF EventOf
<1>2. Whose(e) = {<<e.chan, None>>} \union (IF e.nick = None THEN {} ELSE {<<e.chan, e.nick>>, <<None, e.nick>>})
  BY DEF Whose, None
<1> HIDE DEF e
<1>3. Whose(e) = {<<c, None>>} \union (IF n = None THEN {} ELSE {<<c, n>>, <<None, n>>})
  BY <1>1, <1>2
<1>4. Whose(e) = IF n = None THEN {<<c, None>>} ELSE {<<c, None>>, <<c, n>>, <<None, n>>}
  BY <1>3
<1> QED BY <1>4 DEF e

\* Which of the rows an event covers, and that no row is of two names.
LEMMA CoversNow ==
  ASSUME SummerSettled, now \in Instants, NEW c \in Chans, NEW n \in AnyNick, NEW m, NEW r \in TableRows
  PROVE  /\ n = None => (Covers(r, EventOf(c, n, m)) <=> r \in Rows(c, None))
         /\ n # None => /\ Covers(r, EventOf(c, n, m)) <=>
                           r \in Rows(c, None) \/ r \in Rows(c, n) \/ r \in Rows(None, n)
                        /\ ~(r \in Rows(c, None) /\ r \in Rows(c, n))
                        /\ ~(r \in Rows(c, None) /\ r \in Rows(None, n))
                        /\ ~(r \in Rows(c, n) /\ r \in Rows(None, n))
<1> DEFINE e == EventOf(c, n, m)
           begins == r.start = Start(r.period, DateOf(now))
<1>1. c \in AnyChan /\ None \in AnyChan /\ None \in AnyNick /\ c # None
  BY NoneIsAName DEF AnyChan
<1>2. /\ r \in Rows(c, None) <=> r.chan = c /\ r.nick = None /\ begins
      /\ r \in Rows(c, n) <=> r.chan = c /\ r.nick = n /\ begins
      /\ r \in Rows(None, n) <=> r.chan = None /\ r.nick = n /\ begins
  <2>1. r \in Rows(c, None) <=> r.chan = c /\ r.nick = None /\ begins
    BY <1>1, InRowsOfNow
  <2>2. r \in Rows(c, n) <=> r.chan = c /\ r.nick = n /\ begins
    BY <1>1, InRowsOfNow
  <2>3. r \in Rows(None, n) <=> r.chan = None /\ r.nick = n /\ begins
    BY <1>1, InRowsOfNow
  <2> QED BY <2>1, <2>2, <2>3
<1> DEFINE a == r.chan
           b == r.nick
           covered == <<a, b>> \in Whose(e)
           first == <<a, b>> = <<c, None>>
           second == <<a, b>> = <<c, n>>
           third == <<a, b>> = <<None, n>>
<1>3. Covers(r, e) <=> covered /\ begins
  <2>1. e.day = DateOf(now)
    BY DEF EventOf
  <2> HIDE DEF e
  <2> QED BY <2>1 DEF Covers
<1>4. Whose(e) = IF n = None THEN {<<c, None>>} ELSE {<<c, None>>, <<c, n>>, <<None, n>>}
  BY WhoseRows
<1> HIDE DEF e, begins, a, b
<1>5. /\ first <=> a = c /\ b = None
      /\ second <=> a = c /\ b = n
      /\ third <=> a = None /\ b = n
  OBVIOUS
<1>6. n = None => (covered <=> first)
  BY <1>4, Zenon
<1>7. n # None => (covered <=> first \/ second \/ third)
  BY <1>4, Zenon
<1> HIDE DEF covered, first, second, third
<1>8. /\ n = None => (Covers(r, e) <=> r \in Rows(c, None))
      /\ n # None => (Covers(r, e) <=> r \in Rows(c, None) \/ r \in Rows(c, n) \/ r \in Rows(None, n))
  BY <1>2, <1>3, <1>5, <1>6, <1>7 DEF a, b
<1>9. n # None => /\ ~(r \in Rows(c, None) /\ r \in Rows(c, n))
                  /\ ~(r \in Rows(c, None) /\ r \in Rows(None, n))
                  /\ ~(r \in Rows(c, n) /\ r \in Rows(None, n))
  BY <1>1, <1>2
<1> QED BY <1>8, <1>9 DEF e

\* Memory gains in each item what the event is to be counted there, flushed or not.
LEMMA EventAdds ==
  ASSUME SummerSettled, now \in Instants, NEW s, MemTypes(s), NEW c \in Chans, NEW n \in AnyNick,
         NEW delta \in FiniteBags(Metrics)
  PROVE  /\ MemTypes(AddEvent(s, c, n, delta))
         /\ \A x \in Items : InMemory(x, AddEvent(s, c, n, delta)) = InMemory(x, s) + Gain(x, c, n, delta)
<1> DEFINE p == AddForPeriods(s.pending, c, None, delta)
           p2 == AddForPeriods(p, c, n, delta)
           p3 == AddForPeriods(p2, None, n, delta)
           q == IF n = None THEN p ELSE p3
           t == [s EXCEPT !.pending = q]
<1>1. c \in AnyChan /\ None \in AnyChan /\ None \in AnyNick
  BY NoneIsAName DEF AnyChan
<1>2. s.pending \in FiniteBags(Items) /\ s.queue \in Seq(FiniteBags(Items))
      /\ s = [pending |-> s.pending, queue |-> s.queue]
  BY DEF MemTypes
<1>3. /\ p \in FiniteBags(Items)
      /\ \A x \in Items : Copies(x, p) =
           Copies(x, s.pending) + IF x.row \in Rows(c, None) THEN Copies(x.metric, delta) ELSE 0
  BY <1>1, <1>2, PeriodsAdded
<1>4. /\ p2 \in FiniteBags(Items)
      /\ \A x \in Items : Copies(x, p2) =
           Copies(x, p) + IF x.row \in Rows(c, n) THEN Copies(x.metric, delta) ELSE 0
  <2> HIDE DEF p
  <2> QED BY <1>1, <1>3, PeriodsAdded
<1>5. /\ p3 \in FiniteBags(Items)
      /\ \A x \in Items : Copies(x, p3) =
           Copies(x, p2) + IF x.row \in Rows(None, n) THEN Copies(x.metric, delta) ELSE 0
  <2> HIDE DEF p2
  <2> QED BY <1>1, <1>4, PeriodsAdded
<1> HIDE DEF p, p2, p3
<1>6. q \in FiniteBags(Items)
  BY <1>3, <1>5
<1>7. ASSUME NEW x \in Items PROVE Copies(x, q) = Copies(x, s.pending) + Gain(x, c, n, delta)
  <2>1. x.row \in TableRows
    BY DEF Items
  <2>2. Copies(x, s.pending) \in Nat /\ Copies(x.metric, delta) \in Nat
    BY <1>2, CopiesAreNatural
  <2>3. CASE n = None
    <3>1. Covers(x.row, EventOf(c, n, x.metric)) <=> x.row \in Rows(c, None)
      BY <2>1, <2>3, CoversNow
    <3> QED BY <1>3, <2>3, <3>1 DEF Gain
  <2>4. CASE n # None
    <3>1. /\ Covers(x.row, EventOf(c, n, x.metric)) <=>
                x.row \in Rows(c, None) \/ x.row \in Rows(c, n) \/ x.row \in Rows(None, n)
          /\ ~(x.row \in Rows(c, None) /\ x.row \in Rows(c, n))
          /\ ~(x.row \in Rows(c, None) /\ x.row \in Rows(None, n))
          /\ ~(x.row \in Rows(c, n) /\ x.row \in Rows(None, n))
      BY <2>1, <2>4, CoversNow
    <3>2. Copies(x, q) = Copies(x, p3)
      BY <2>4
    <3> HIDE DEF q
    <3> QED BY <1>3, <1>4, <1>5, <2>2, <3>1, <3>2 DEF Gain
  <2> QED BY <2>3, <2>4
<1>8. t.pending = q /\ t.queue = s.queue /\ MemTypes(t)
  <2> HIDE DEF q
  <2> QED BY <1>2, <1>6 DEF MemTypes
<1>9. ASSUME NEW x \in Items PROVE InMemory(x, t) = InMemory(x, s) + Gain(x, c, n, delta)
  <2>1. Copies(x, s.pending) \in Nat /\ InQueries(x, s.queue) \in Nat /\ Copies(x.metric, delta) \in Nat
    BY <1>2, CopiesAreNatural, InQueriesIsNatural
  <2>2. Gain(x, c, n, delta) \in Nat
    BY <2>1 DEF Gain
  <2> HIDE DEF t, q
  <2> QED BY <1>7, <1>8, <2>1, <2>2 DEF InMemory
<1>10. AddEvent(s, c, n, delta) \in {t, Flush(t)}
  BY DEF AddEvent, p, p2, p3, None
<1> HIDE DEF t, q
<1>11. MemTypes(Flush(t)) /\ \A x : InMemory(x, Flush(t)) = InMemory(x, t)
  BY <1>8, FlushKeeps
<1> QED BY <1>8, <1>9, <1>10, <1>11

\* What an item comes to in what was done.
Hits(x, e) == e.metric = x.metric /\ Covers(x.row, e)

Due(x, d) == SumFunction([e \in DOMAIN d |-> IF Hits(x, e) THEN d[e] ELSE 0])

\* What is due can be summed over more than what was done.
LEMMA DuePart ==
  ASSUME NEW S, NEW d \in FiniteBags(S), NEW D, IsFiniteSet(D), DOMAIN d \subseteq D, NEW x
  PROVE  /\ Due(x, d) \in Int
         /\ SumFunctionOnSet([e \in D |-> IF Hits(x, e) THEN Copies(e, d) ELSE 0], D) = Due(x, d)
<1> DEFINE f == [e \in DOMAIN d |-> IF Hits(x, e) THEN d[e] ELSE 0]
           g == [e \in D |-> IF Hits(x, e) THEN Copies(e, d) ELSE 0]
           E == DOMAIN d
<1>1. Due(x, d) = SumFunctionOnSet(f, DOMAIN f) /\ DOMAIN f = E
  BY DEF Due, SumFunction
<1>2. IsFiniteSet(E) /\ (\A e \in E : f[e] \in Int) /\ E \subseteq D
  <2>1. \A e \in E : d[e] \in Nat \ {0}
    BY FiniteBag
  <2> QED BY <2>1, FiniteBag
<1>3. (\A e \in D : g[e] \in Int) /\ (\A e \in D \ E : g[e] = 0) /\ \A e \in E : g[e] = f[e]
  <2>1. \A e \in D : Copies(e, d) \in Nat
    BY CopiesAreNatural
  <2>2. (\A e \in D \ E : Copies(e, d) = 0) /\ \A e \in E : Copies(e, d) = d[e]
    BY DEF Copies
  <2> QED BY <1>2, <2>1, <2>2
<1> HIDE DEF f, g, E
<1>4. SumFunctionOnSet(g, D) = SumFunctionOnSet(g, E)
  BY <1>2, <1>3, SumOfMore
<1>5. SumFunctionOnSet(g, E) = SumFunctionOnSet(f, E)
  BY <1>2, <1>3, SumAgrees
<1>6. SumFunctionOnSet(f, E) \in Int
  BY <1>2, SumIsInteger
<1> QED BY <1>1, <1>4, <1>5, <1>6 DEF g

\* What is due adds up as things are done.
LEMMA DueOfBoth ==
  ASSUME NEW S, NEW d \in FiniteBags(S), NEW b \in FiniteBags(S), NEW x
  PROVE  /\ Due(x, d) \in Int /\ Due(x, b) \in Int
         /\ Due(x, d (+) b) = Due(x, d) + Due(x, b)
<1>1. PICK c \in FiniteBags(S) : c = d (+) b /\ DOMAIN c = DOMAIN d \union DOMAIN b
  BY CopiesOfBoth
<1> DEFINE D == DOMAIN c
           f == [e \in D |-> IF Hits(x, e) THEN Copies(e, d) ELSE 0]
           g == [e \in D |-> IF Hits(x, e) THEN Copies(e, b) ELSE 0]
           h == [e \in D |-> IF Hits(x, e) THEN Copies(e, c) ELSE 0]
<1>2. \A e \in D : Copies(e, c) = Copies(e, d) + Copies(e, b) /\ Copies(e, d) \in Nat /\ Copies(e, b) \in Nat
  BY <1>1, BothCount, CopiesAreNatural
<1>3. IsFiniteSet(D)
  BY <1>1, FiniteBag
<1>4. \A e \in D : f[e] \in Int /\ g[e] \in Int /\ h[e] = f[e] + g[e]
  <2> HIDE DEF D
  <2> QED BY <1>2
<1>5. SumFunctionOnSet(h, D) = SumFunctionOnSet(f, D) + SumFunctionOnSet(g, D)
  <2> HIDE DEF D, f, g, h
  <2> QED BY <1>3, <1>4, SumOfSums
<1>6. Due(x, d) \in Int /\ SumFunctionOnSet(f, D) = Due(x, d)
  <2>1. DOMAIN d \subseteq D
    BY <1>1
  <2> HIDE DEF D
  <2> QED BY <1>3, <2>1, DuePart
<1>7. Due(x, b) \in Int /\ SumFunctionOnSet(g, D) = Due(x, b)
  <2>1. DOMAIN b \subseteq D
    BY <1>1
  <2> HIDE DEF D
  <2> QED BY <1>3, <2>1, DuePart
<1>8. SumFunctionOnSet(h, D) = Due(x, c)
  <2>1. DOMAIN c \subseteq D
    OBVIOUS
  <2> HIDE DEF D
  <2> QED BY <1>1, <1>3, <2>1, DuePart
<1> HIDE DEF D, f, g, h
<1> QED BY <1>1, <1>5, <1>6, <1>7, <1>8

\* What is noted is that each metric happened, now.
LEMMA NoteTypes ==
  ASSUME now \in Instants, NEW c \in Chans, NEW n \in AnyNick, NEW delta \in FiniteBags(Metrics)
  PROVE  /\ Note(c, n, delta) \in FiniteBags(Events)
         /\ \A e \in DOMAIN Note(c, n, delta) : e = EventOf(c, n, e.metric) /\ e.metric \in DOMAIN delta
         /\ \A m \in DOMAIN delta : /\ EventOf(c, n, m) \in DOMAIN Note(c, n, delta)
                                  /\ Note(c, n, delta)[EventOf(c, n, m)] = delta[m]
<1> DEFINE M == DOMAIN delta
           D == {EventOf(c, n, m) : m \in M}
           b == Note(c, n, delta)
<1>1. M \subseteq Metrics /\ IsFiniteSet(M) /\ \A m \in M : delta[m] \in Nat \ {0}
  BY FiniteBag
<1>2. b = [e \in D |-> delta[e.metric]]
  BY DEF Note, EventOf
<1>3. \A m : EventOf(c, n, m).metric = m
  BY DEF EventOf
<1>4. \A m \in M : EventOf(c, n, m) \in Events
  <2>1. DateOf(now) \in Nat
    BY DatesAreNatural
  <2> HIDE DEF M
  <2>2. Events = [chan : Chans, nick : AnyNick, day : Nat, metric : Metrics]
    BY DEF Events, AnyNick
  <2> QED BY <1>1, <2>1, <2>2 DEF EventOf
<1>5. IsFiniteSet(D)
  <2> DEFINE f == [m \in M |-> EventOf(c, n, m)]
  <2>1. f \in Surjection(M, D)
    BY DEF Surjection
  <2> HIDE DEF D, M, f
  <2> QED BY <1>1, <2>1, FS_Surjection
<1>6. DOMAIN b = D /\ (\A e \in D : b[e] = delta[e.metric]) /\ b = [e \in DOMAIN b |-> b[e]]
  BY <1>2
<1>7. D \subseteq Events /\ (\A e \in D : e.metric \in M /\ e = EventOf(c, n, e.metric))
  <2> HIDE DEF M
  <2> QED BY <1>3, <1>4
<1>8. \A m \in M : EventOf(c, n, m) \in D
  <2> HIDE DEF M
  <2> QED OBVIOUS
<1> HIDE DEF D, b, M
<1>9. b \in FiniteBags(Events)
  <2>1. \A e \in DOMAIN b : b[e] \in Nat \ {0}
    BY <1>1, <1>6, <1>7
  <2> QED BY <1>5, <1>6, <1>7, <2>1, FiniteBag
<1>10. \A m \in M : b[EventOf(c, n, m)] = delta[m]
  BY <1>3, <1>6, <1>8
<1> QED BY <1>6, <1>7, <1>8, <1>9, <1>10 DEF b, M

\* What becomes due with it is what memory gains.
LEMMA DueOfNote ==
  ASSUME now \in Instants, NEW c \in Chans, NEW n \in AnyNick, NEW delta \in FiniteBags(Metrics),
         NEW x
  PROVE  Due(x, Note(c, n, delta)) = Gain(x, c, n, delta)
<1>1. PICK b \in FiniteBags(Events) :
        /\ b = Note(c, n, delta)
        /\ \A e \in DOMAIN b : e = EventOf(c, n, e.metric) /\ e.metric \in DOMAIN delta
        /\ \A m \in DOMAIN delta : EventOf(c, n, m) \in DOMAIN b /\ b[EventOf(c, n, m)] = delta[m]
  BY NoteTypes
<1> DEFINE f == [e \in DOMAIN b |-> IF Hits(x, e) THEN b[e] ELSE 0]
           a == EventOf(c, n, x.metric)
<1>2. Due(x, b) = SumFunctionOnSet(f, DOMAIN f) /\ DOMAIN f = DOMAIN b
  BY DEF Due, SumFunction
<1>3. IsFiniteSet(DOMAIN b) /\ \A e \in DOMAIN b : b[e] \in Nat \ {0}
  BY FiniteBag
<1>4. \A e \in DOMAIN b : e # a => f[e] = 0
  <2> SUFFICES ASSUME NEW e \in DOMAIN b, e # a PROVE f[e] = 0
    OBVIOUS
  <2>1. e.metric # x.metric
    BY <1>1
  <2> QED BY <2>1 DEF Hits
<1>5. a.metric = x.metric
  BY DEF EventOf
<1>6. CASE x.metric \in DOMAIN delta
  <2>1. a \in DOMAIN b /\ b[a] = delta[x.metric]
    BY <1>1, <1>6
  <2>2. f[a] = Gain(x, c, n, delta)
    <3>1. f[a] = IF Hits(x, a) THEN b[a] ELSE 0
      BY <2>1
    <3>2. Hits(x, a) <=> Covers(x.row, a)
      BY <1>5 DEF Hits
    <3> HIDE DEF f, a
    <3> QED BY <1>6, <2>1, <3>1, <3>2 DEF Gain, Copies, a
  <2>3. f[a] \in Int
    BY <1>3, <2>1
  <2> HIDE DEF f, a
  <2>4. SumFunctionOnSet(f, DOMAIN b) = f[a]
    BY <1>3, <1>4, <2>1, <2>3, SumOfOne
  <2> QED BY <1>1, <1>2, <2>2, <2>4
<1>7. CASE x.metric \notin DOMAIN delta
  <2>1. \A e \in DOMAIN b : f[e] = 0
    <3> SUFFICES ASSUME NEW e \in DOMAIN b PROVE e # a
      BY <1>4
    <3> QED BY <1>1, <1>5, <1>7
  <2> HIDE DEF f, a
  <2>2. SumFunctionOnSet(f, DOMAIN b) = 0
    BY <1>3, <2>1, SumOfZeros
  <2> QED BY <1>1, <1>2, <1>7, <2>2 DEF Gain, Copies
<1> QED BY <1>6, <1>7
-----------------------------------------------------------------------------
(* What a table, the memory and what was done are to each other *)

\* Every item is counted as often as it is due, or less when something is lost.
AtMost(x, t, s, d) == Copies(x, t) + InMemory(x, s) <= Due(x, d)
AsOften(x, t, s, d) == Copies(x, t) + InMemory(x, s) = Due(x, d)

AddUp(t, s, d, whole) ==
  /\ t \in FiniteBags(Items) /\ MemTypes(s) /\ d \in FiniteBags(Events)
  /\ \A x \in Items : AtMost(x, t, s, d)
  /\ whole => \A x \in Items : AsOften(x, t, s, d)

\* The numbers that are compared.
LEMMA CountsAreNatural ==
  ASSUME NEW t \in FiniteBags(Items), NEW s, MemTypes(s), NEW d \in FiniteBags(Events), NEW x
  PROVE  Copies(x, t) \in Nat /\ InMemory(x, s) \in Nat /\ Due(x, d) \in Int
<1>1. Copies(x, t) \in Nat
  BY CopiesAreNatural
<1>2. s.pending \in FiniteBags(Items) /\ s.queue \in Seq(FiniteBags(Items))
  BY DEF MemTypes
<1>3. Copies(x, s.pending) \in Nat /\ InQueries(x, s.queue) \in Nat
  BY <1>2, CopiesAreNatural, InQueriesIsNatural
<1>4. Due(x, d) \in Int
  BY DueOfBoth
<1> QED BY <1>1, <1>3, <1>4 DEF InMemory

\* Something else is in the table and in memory that comes to no more, and to the
\* same when nothing is lost.
LEMMA AddUpOtherwise ==
  ASSUME NEW t, NEW s, NEW d, NEW whole, AddUp(t, s, d, whole),
         NEW u \in FiniteBags(Items), NEW r, MemTypes(r), NEW kept, kept => whole,
         \A x \in Items : Copies(x, u) + InMemory(x, r) <= Copies(x, t) + InMemory(x, s),
         kept => \A x \in Items : Copies(x, u) + InMemory(x, r) = Copies(x, t) + InMemory(x, s)
  PROVE  AddUp(u, r, d, kept)
<1>1. t \in FiniteBags(Items) /\ MemTypes(s) /\ d \in FiniteBags(Events)
  BY DEF AddUp
<1>2. ASSUME NEW x \in Items PROVE AtMost(x, u, r, d)
  <2>1. Copies(x, t) \in Nat /\ InMemory(x, s) \in Nat /\ Due(x, d) \in Int
    BY <1>1, CountsAreNatural
  <2>2. Copies(x, u) \in Nat /\ InMemory(x, r) \in Nat
    BY <1>1, CountsAreNatural
  <2>3. AtMost(x, t, s, d)
    BY DEF AddUp
  <2> QED BY <2>1, <2>2, <2>3 DEF AtMost
<1>3. ASSUME kept, NEW x \in Items PROVE AsOften(x, u, r, d)
  <2>1. AsOften(x, t, s, d)
    BY <1>3, Zenon DEF AddUp
  <2>2. Copies(x, u) + InMemory(x, r) = Copies(x, t) + InMemory(x, s)
    BY <1>3, Zenon
  <2> QED BY <2>1, <2>2, Zenon DEF AsOften
<1>4. kept => \A x \in Items : AsOften(x, u, r, d)
  BY <1>3, Zenon
<1> QED BY <1>1, <1>2, <1>4, Zenon DEF AddUp

\* Something happens.
LEMMA AddUpEvent ==
  ASSUME SummerSettled, now \in Instants,
         NEW t, NEW s, NEW d, NEW whole, AddUp(t, s, d, whole),
         NEW c \in Chans, NEW n \in AnyNick, NEW delta \in FiniteBags(Metrics)
  PROVE  AddUp(t, AddEvent(s, c, n, delta), d (+) Note(c, n, delta), whole)
<1>1. t \in FiniteBags(Items) /\ MemTypes(s) /\ d \in FiniteBags(Events)
  BY DEF AddUp
<1>2. PICK r : r = AddEvent(s, c, n, delta)
  OBVIOUS
<1>3. MemTypes(r) /\ \A x \in Items : InMemory(x, r) = InMemory(x, s) + Gain(x, c, n, delta)
  BY <1>1, <1>2, EventAdds
<1>4. PICK b \in FiniteBags(Events) : b = Note(c, n, delta)
  BY NoteTypes
<1>5. d (+) b \in FiniteBags(Events)
  BY <1>1, BothAreABag
<1>6. PICK v \in FiniteBags(Events) : v = d (+) b
  BY <1>5
<1>7. ASSUME NEW x \in Items
      PROVE  (AtMost(x, t, s, d) => AtMost(x, t, r, v)) /\ (AsOften(x, t, s, d) => AsOften(x, t, r, v))
  <2>1. Copies(x, t) \in Nat /\ InMemory(x, s) \in Nat /\ Due(x, d) \in Int
    BY <1>1, CountsAreNatural
  <2>2. Due(x, v) = Due(x, d) + Due(x, b) /\ Due(x, b) \in Int
    BY <1>1, <1>6, DueOfBoth
  <2>3. Due(x, b) = Gain(x, c, n, delta)
    BY <1>4, DueOfNote
  <2>4. InMemory(x, r) = InMemory(x, s) + Due(x, b)
    BY <1>3, <2>3
  <2> QED BY <2>1, <2>2, <2>4 DEF AtMost, AsOften
<1>8. AddUp(t, r, v, whole)
  BY <1>1, <1>3, <1>7, Zenon DEF AddUp
<1> QED BY <1>2, <1>4, <1>6, <1>8

\* Memory is flushed.
LEMMA AddUpFlush ==
  ASSUME NEW t, NEW s, NEW d, NEW whole, AddUp(t, s, d, whole)
  PROVE  AddUp(t, Flush(s), d, whole)
<1>1. t \in FiniteBags(Items) /\ MemTypes(s) /\ d \in FiniteBags(Events)
  BY DEF AddUp
<1>2. PICK r : r = Flush(s)
  OBVIOUS
<1>3. MemTypes(r) /\ \A x \in Items : InMemory(x, r) = InMemory(x, s)
  BY <1>1, <1>2, FlushKeeps
<1>4. AddUp(t, r, d, whole)
  BY <1>1, <1>3, Zenon DEF AddUp, AtMost, AsOften
<1> QED BY <1>2, <1>4

\* A query runs.
LEMMA AddUpRun ==
  ASSUME NEW t, NEW s, NEW d, NEW whole, AddUp(t, s, d, whole), s.queue # <<>>
  PROVE  AddUp(t (+) Head(s.queue), [pending |-> s.pending, queue |-> Tail(s.queue)], d, whole)
<1>1. t \in FiniteBags(Items) /\ MemTypes(s) /\ d \in FiniteBags(Events)
  BY DEF AddUp
<1>2. s.pending \in FiniteBags(Items) /\ s.queue \in Seq(FiniteBags(Items))
  BY <1>1 DEF MemTypes
<1>3. PICK b \in FiniteBags(Items) : b = Head(s.queue)
  BY <1>2, QueriesFromTheFirst
<1>4. PICK q \in Seq(FiniteBags(Items)) : q = Tail(s.queue)
  BY <1>2, QueriesFromTheFirst
<1> DEFINE r == [pending |-> s.pending, queue |-> q]
<1>5. t (+) b \in FiniteBags(Items)
  BY <1>1, BothAreABag
<1>6. MemTypes(r) /\ r.pending = s.pending /\ r.queue = q
  BY <1>2 DEF MemTypes
<1>7. ASSUME NEW x \in Items
      PROVE  Copies(x, t (+) b) + InMemory(x, r) = Copies(x, t) + InMemory(x, s)
  <2>1. Copies(x, t (+) b) = Copies(x, t) + Copies(x, b)
    BY <1>1, BothCount
  <2>2. InQueries(x, s.queue) = Copies(x, b) + InQueries(x, q)
    BY <1>2, <1>3, <1>4, QueriesFromTheFirst
  <2>3. Copies(x, t) \in Nat /\ Copies(x, b) \in Nat /\ Copies(x, s.pending) \in Nat /\ InQueries(x, q) \in Nat
    BY <1>1, <1>2, CopiesAreNatural, InQueriesIsNatural
  <2>4. InMemory(x, r) = Copies(x, s.pending) + InQueries(x, q)
    BY <1>6 DEF InMemory
  <2>5. InMemory(x, s) = Copies(x, s.pending) + InQueries(x, s.queue)
    BY DEF InMemory
  <2> HIDE DEF r
  <2> QED BY <2>1, <2>2, <2>3, <2>4, <2>5
<1> HIDE DEF r
<1>8. ASSUME NEW x \in Items
      PROVE  Copies(x, t (+) b) + InMemory(x, r) <= Copies(x, t) + InMemory(x, s)
  <2>1. Copies(x, t) \in Nat /\ InMemory(x, s) \in Nat
    BY <1>1, CountsAreNatural
  <2> QED BY <1>7, <2>1
<1>9. AddUp(t (+) b, r, d, whole)
  <2>1. PICK u \in FiniteBags(Items) : u = t (+) b
    BY <1>5
  <2>2. AddUp(u, r, d, whole)
    BY <1>6, <1>7, <1>8, <2>1, AddUpOtherwise
  <2> QED BY <2>1, <2>2
<1> QED BY <1>3, <1>4, <1>9 DEF r

\* Memory is lost, all of it or the queries that are waiting.
LEMMA AddUpLoss ==
  ASSUME NEW t, NEW s, NEW d, NEW whole, AddUp(t, s, d, whole),
         NEW p \in {s.pending, EmptyBag},
         NEW kept, kept => whole /\ p = s.pending /\ s.queue = <<>>
  PROVE  AddUp(t, [pending |-> p, queue |-> <<>>], d, kept)
<1>1. t \in FiniteBags(Items) /\ MemTypes(s) /\ d \in FiniteBags(Events)
  BY DEF AddUp
<1>2. s.pending \in FiniteBags(Items) /\ s.queue \in Seq(FiniteBags(Items))
  BY <1>1 DEF MemTypes
<1>3. p \in FiniteBags(Items) /\ <<>> \in Seq(FiniteBags(Items))
  BY <1>2, NoCopies
<1>4. PICK r : r = [pending |-> p, queue |-> <<>>]
  OBVIOUS
<1>5. MemTypes(r) /\ \A x : InMemory(x, r) = Copies(x, p) + InQueries(x, <<>>)
  <2>1. MemTypes(r)
    BY <1>3, <1>4 DEF MemTypes
  <2>2. r.pending = p /\ r.queue = <<>>
    BY <1>4
  <2> QED BY <2>1, <2>2, Zenon DEF InMemory
<1>6. ASSUME NEW x
      PROVE  /\ Copies(x, t) + InMemory(x, r) <= Copies(x, t) + InMemory(x, s)
             /\ p = s.pending /\ s.queue = <<>> =>
                  Copies(x, t) + InMemory(x, r) = Copies(x, t) + InMemory(x, s)
  <2>1. Copies(x, t) \in Nat /\ Copies(x, s.pending) \in Nat /\ InQueries(x, s.queue) \in Nat
    BY <1>1, <1>2, CopiesAreNatural, InQueriesIsNatural
  <2>2. Copies(x, EmptyBag) = 0 /\ InQueries(x, <<>>) = 0
    BY NoCopies, NoQueries
  <2>3. InMemory(x, r) = Copies(x, p) + InQueries(x, <<>>)
    BY <1>5
  <2>4. InMemory(x, s) = Copies(x, s.pending) + InQueries(x, s.queue)
    BY DEF InMemory
  <2>5. CASE p = s.pending
    BY <2>1, <2>2, <2>3, <2>4, <2>5
  <2>6. CASE p = EmptyBag
    BY <2>1, <2>2, <2>3, <2>4, <2>6
  <2> QED BY <2>5, <2>6
<1>7. kept => whole /\ \A x \in Items : Copies(x, t) + InMemory(x, r) = Copies(x, t) + InMemory(x, s)
  BY <1>6
<1>8. AddUp(t, r, d, kept)
  BY <1>1, <1>5, <1>6, <1>7, AddUpOtherwise
<1> QED BY <1>4, <1>8

\* A query fails.
LEMMA AddUpError ==
  ASSUME NEW t, NEW s, NEW d, NEW whole, AddUp(t, s, d, whole), s.queue # <<>>
  PROVE  AddUp(t, [pending |-> s.pending, queue |-> Tail(s.queue)], d, FALSE)
<1>1. t \in FiniteBags(Items) /\ MemTypes(s) /\ d \in FiniteBags(Events)
  BY DEF AddUp
<1>2. s.pending \in FiniteBags(Items) /\ s.queue \in Seq(FiniteBags(Items))
  BY <1>1 DEF MemTypes
<1>3. PICK q \in Seq(FiniteBags(Items)) : q = Tail(s.queue)
  BY <1>2, QueriesFromTheFirst
<1>4. PICK b \in FiniteBags(Items) : b = Head(s.queue)
  BY <1>2, QueriesFromTheFirst
<1>5. PICK r : r = [pending |-> s.pending, queue |-> q]
  OBVIOUS
<1>6. MemTypes(r) /\ \A x : InMemory(x, r) = Copies(x, s.pending) + InQueries(x, q)
  <2>1. MemTypes(r)
    BY <1>2, <1>5 DEF MemTypes
  <2>2. r.pending = s.pending /\ r.queue = q
    BY <1>5
  <2> QED BY <2>1, <2>2, Zenon DEF InMemory
<1>7. ASSUME NEW x
      PROVE  Copies(x, t) + InMemory(x, r) <= Copies(x, t) + InMemory(x, s)
  <2>1. InQueries(x, s.queue) = Copies(x, b) + InQueries(x, q)
    BY <1>2, <1>3, <1>4, QueriesFromTheFirst
  <2>2. Copies(x, t) \in Nat /\ Copies(x, b) \in Nat /\ Copies(x, s.pending) \in Nat /\ InQueries(x, q) \in Nat
    BY <1>1, <1>2, <1>3, CopiesAreNatural, InQueriesIsNatural
  <2>3. InMemory(x, r) = Copies(x, s.pending) + InQueries(x, q)
    BY <1>6
  <2>4. InMemory(x, s) = Copies(x, s.pending) + InQueries(x, s.queue)
    BY DEF InMemory
  <2> QED BY <2>1, <2>2, <2>3, <2>4
<1>8. AddUp(t, r, d, FALSE)
  BY <1>1, <1>6, <1>7, AddUpOtherwise
<1> QED BY <1>3, <1>5, <1>8

\* The module goes: some of the last queries run, and what is waiting may be dropped.
LEMMA AddUpUnload ==
  ASSUME NEW t, NEW s, NEW d, NEW whole, AddUp(t, s, d, whole),
         NEW ok \in SUBSET DOMAIN Queries(s.pending), NEW q \in {s.queue, <<>>},
         NEW kept, kept => whole /\ ok = DOMAIN Queries(s.pending) /\ q = s.queue
  PROVE  AddUp(After(t, Queries(s.pending), ok), [pending |-> EmptyBag, queue |-> q], d, kept)
<1>1. t \in FiniteBags(Items) /\ MemTypes(s) /\ d \in FiniteBags(Events)
  BY DEF AddUp
<1>2. s.pending \in FiniteBags(Items) /\ s.queue \in Seq(FiniteBags(Items))
  BY <1>1 DEF MemTypes
<1>3. q \in Seq(FiniteBags(Items)) /\ EmptyBag \in FiniteBags(Items)
  <2>1. <<>> \in Seq(FiniteBags(Items))
    OBVIOUS
  <2>2. EmptyBag \in FiniteBags(Items)
    BY NoCopies
  <2> QED BY <1>2, <2>1, <2>2
<1>4. PICK last \in Seq(FiniteBags(Items)) : last = Queries(s.pending)
  BY <1>2, RowsAreInOneQuery
<1> DEFINE D == DOMAIN last
<1>5. /\ IsFiniteSet(D) /\ ok \in SUBSET D /\ IsFiniteSet(ok)
      /\ \A i \in ok : last[i] \in FiniteBags(Items)
  <2>1. D = 1..Len(last) /\ IsFiniteSet(1..Len(last)) /\ \A i \in 1..Len(last) : last[i] \in FiniteBags(Items)
    BY QueueTypes
  <2>2. ok \in SUBSET D
    BY <1>4
  <2> HIDE DEF D
  <2> QED BY <2>1, <2>2, FS_Subset
<1>6. PICK u : u = After(t, last, ok)
  OBVIOUS
<1>7. u \in FiniteBags(Items)
  <2> DEFINE c == [i \in ok |-> Copies(0, last[i])]
  <2>1. \A i \in ok : c[i] = Copies(0, last[i])
    OBVIOUS
  <2> HIDE DEF c, D
  <2> QED BY <1>1, <1>5, <1>6, <2>1, CopiesAfter
<1>8. PICK r : r = [pending |-> EmptyBag, queue |-> q]
  OBVIOUS
<1>9. MemTypes(r) /\ \A x : InMemory(x, r) = Copies(x, EmptyBag) + InQueries(x, q)
  <2>1. r.pending = EmptyBag /\ r.queue = q
    BY <1>8
  <2>2. MemTypes(r)
    BY <1>3, <1>8 DEF MemTypes
  <2> QED BY <2>1, <2>2, Zenon DEF InMemory
<1>10. ASSUME NEW x
       PROVE  /\ Copies(x, u) + InMemory(x, r) <= Copies(x, t) + InMemory(x, s)
              /\ ok = D /\ q = s.queue => Copies(x, u) + InMemory(x, r) = Copies(x, t) + InMemory(x, s)
  <2> DEFINE c == [i \in D |-> Copies(x, last[i])]
             rest == D \ ok
  <2>1. D = 1..Len(last) /\ \A i \in 1..Len(last) : Copies(x, last[i]) \in Nat
    BY QueueTypes
  <2>2. (\A i \in D : c[i] \in Nat /\ c[i] = Copies(x, last[i])) /\ DOMAIN c = D
    BY <2>1
  <2>3. InQueries(x, last) = SumFunctionOnSet(c, D)
    BY DEF InQueries, SumFunction
  <2> HIDE DEF c, D
  <2>4. InQueries(x, last) = Copies(x, s.pending)
    BY <1>2, <1>4, QueriesAddUp
  <2>5. Copies(x, u) = Copies(x, t) + SumFunctionOnSet(c, ok)
    BY <1>1, <1>5, <1>6, <2>2, CopiesAfter
  <2>6. IsFiniteSet(rest) /\ ok \intersect rest = {} /\ ok \union rest = D
    BY <1>5, FS_Subset
  <2>7. (\A i \in ok : c[i] \in Nat) /\ (\A i \in rest : c[i] \in Nat) /\ \A i \in D : c[i] \in Int
    BY <1>5, <2>2
  <2> HIDE DEF rest
  <2>8. SumFunctionOnSet(c, ok) \in Nat /\ SumFunctionOnSet(c, rest) \in Nat
    BY <1>5, <2>6, <2>7, SumIsNatural
  <2>9. SumFunctionOnSet(c, D) = SumFunctionOnSet(c, ok) + SumFunctionOnSet(c, rest)
    <3>1. SumFunctionOnSet(c, ok \union rest) = SumFunctionOnSet(c, ok) + SumFunctionOnSet(c, rest)
      BY <1>5, <2>6, <2>7, SumOfUnion
    <3> QED BY <2>6, <3>1
  <2>10. Copies(x, t) \in Nat /\ InQueries(x, s.queue) \in Nat
    BY <1>1, <1>2, CopiesAreNatural, InQueriesIsNatural
  <2>11. Copies(x, EmptyBag) = 0 /\ InQueries(x, <<>>) = 0
    BY NoCopies, NoQueries
  <2>12. InMemory(x, r) = InQueries(x, q)
    <3>1. InQueries(x, q) \in Nat
      BY <1>3, InQueriesIsNatural
    <3> QED BY <1>9, <2>11, <3>1
  <2>13. InMemory(x, s) = Copies(x, s.pending) + InQueries(x, s.queue)
    BY DEF InMemory
  <2>14. InQueries(x, q) \in {0, InQueries(x, s.queue)} /\ (q = s.queue => InQueries(x, q) = InQueries(x, s.queue))
    BY <2>11
  <2>15. ok = D => SumFunctionOnSet(c, ok) = SumFunctionOnSet(c, D)
    OBVIOUS
  <2> DEFINE a == Copies(x, t)
             ran == SumFunctionOnSet(c, ok)
             failed == SumFunctionOnSet(c, rest)
             waits == InQueries(x, s.queue)
             stays == InQueries(x, q)
  <2>16. a \in Nat /\ ran \in Nat /\ failed \in Nat /\ waits \in Nat /\ stays \in {0, waits}
    BY <2>8, <2>10, <2>14
  <2>17. Copies(x, u) + InMemory(x, r) = (a + ran) + stays
    BY <2>5, <2>12
  <2>18. Copies(x, t) + InMemory(x, s) = a + ((ran + failed) + waits)
    BY <2>3, <2>4, <2>9, <2>13
  <2>19. (q = s.queue => stays = waits) /\ (ok = D => ran = ran + failed)
    BY <2>9, <2>14, <2>15
  <2> HIDE DEF a, ran, failed, waits, stays
  <2>20. (a + ran) + stays <= a + ((ran + failed) + waits)
    BY <2>16
  <2>21. ok = D /\ q = s.queue => (a + ran) + stays = a + ((ran + failed) + waits)
    BY <2>16, <2>19
  <2> QED BY <2>17, <2>18, <2>20, <2>21, Zenon
<1>11. kept => whole /\ \A x \in Items : Copies(x, u) + InMemory(x, r) = Copies(x, t) + InMemory(x, s)
  BY <1>4, <1>10
<1>12. AddUp(u, r, d, kept)
  BY <1>1, <1>7, <1>9, <1>10, <1>11, AddUpOtherwise
<1> QED BY <1>4, <1>6, <1>8, <1>12
-----------------------------------------------------------------------------
(* What is counted *)

\* An account, or none.
LEMMA DisplaysAreNicks ==
  ASSUME NEW u \in AnyNick
  PROVE  GetDisplay(u) \in AnyNick
BY NoneIsAName DEF GetDisplay, None

\* One of one metric.
LEMMA OnceIsABag ==
  ASSUME NEW m \in Metrics
  PROVE  Once(m) \in FiniteBags(Metrics)
<1> DEFINE b == [k \in {m} |-> 1]
<1>1. Once(m) = b
  BY DEF Once, SetToBag
<1>2. IsFiniteSet({m})
  BY FS_Singleton
<1>3. b = [k \in DOMAIN b |-> b[k]] /\ DOMAIN b = {m} /\ \A k \in DOMAIN b : b[k] \in Nat \ {0}
  OBVIOUS
<1> HIDE DEF b
<1> QED BY <1>1, <1>2, <1>3, FiniteBag

\* Metrics that are not 0.
LEMMA PositiveIsABag ==
  ASSUME NEW delta, DOMAIN delta \subseteq Metrics, \A m \in DOMAIN delta : delta[m] \in Nat
  PROVE  Positive(delta) \in FiniteBags(Metrics)
<1> DEFINE D == {k \in DOMAIN delta : delta[k] > 0}
           b == [m \in D |-> delta[m]]
<1>1. IsFiniteSet(Metrics)
  <2>1. IsFiniteSet({"lines", "actions", "words", "smileys"} \union {"topics", "modes", "kicked", "kicks"})
    <3>1. IsFiniteSet({"lines"}) /\ IsFiniteSet({"actions"}) /\ IsFiniteSet({"words"}) /\ IsFiniteSet({"smileys"})
      BY FS_Singleton
    <3>2. IsFiniteSet({"topics"}) /\ IsFiniteSet({"modes"}) /\ IsFiniteSet({"kicked"}) /\ IsFiniteSet({"kicks"})
      BY FS_Singleton
    <3>3. IsFiniteSet({"lines"} \union {"actions"}) /\ IsFiniteSet({"words"} \union {"smileys"})
      BY <3>1, FS_Union
    <3>4. IsFiniteSet({"topics"} \union {"modes"}) /\ IsFiniteSet({"kicked"} \union {"kicks"})
      BY <3>2, FS_Union
    <3>5. IsFiniteSet(({"lines"} \union {"actions"}) \union ({"words"} \union {"smileys"}))
      BY <3>3, FS_Union
    <3>6. IsFiniteSet(({"topics"} \union {"modes"}) \union ({"kicked"} \union {"kicks"}))
      BY <3>4, FS_Union
    <3>7. IsFiniteSet((({"lines"} \union {"actions"}) \union ({"words"} \union {"smileys"}))
                      \union (({"topics"} \union {"modes"}) \union ({"kicked"} \union {"kicks"})))
      BY <3>5, <3>6, FS_Union
    <3>8. (({"lines"} \union {"actions"}) \union ({"words"} \union {"smileys"}))
            \union (({"topics"} \union {"modes"}) \union ({"kicked"} \union {"kicks"}))
          = {"lines", "actions", "words", "smileys"} \union {"topics", "modes", "kicked", "kicks"}
      OBVIOUS
    <3> QED BY <3>7, <3>8
  <2>2. Metrics = {"lines", "actions", "words", "smileys"} \union {"topics", "modes", "kicked", "kicks"}
    BY DEF Metrics
  <2> QED BY <2>1, <2>2
<1>2. D \subseteq Metrics /\ \A m \in D : delta[m] \in Nat \ {0}
  OBVIOUS
<1>3. IsFiniteSet(D)
  BY <1>1, <1>2, FS_Subset
<1>4. Positive(delta) = b
  BY DEF Positive
<1> HIDE DEF D
<1>5. b = [k \in DOMAIN b |-> b[k]] /\ DOMAIN b = D /\ \A k \in DOMAIN b : b[k] \in Nat \ {0}
  BY <1>2
<1> HIDE DEF b
<1> QED BY <1>2, <1>3, <1>4, <1>5, FiniteBag

\* What a line is counted as.
LineOf(msg) ==
  [lines   |-> 1,
   actions |-> IF msg.action THEN 1 ELSE 0,
   words   |-> IF msg.smileys >= msg.words THEN 0 ELSE msg.words - msg.smileys,
   smileys |-> msg.smileys]

\* A line counts as something whatever its words and smileys.
LEMMA LinesAreBags ==
  ASSUME NEW msg \in Messages
  PROVE  Positive(LineOf(msg)) \in FiniteBags(Metrics)
<1> DEFINE words == IF msg.smileys >= msg.words THEN 0 ELSE msg.words - msg.smileys
           acts == IF msg.action THEN 1 ELSE 0
<1>1. words \in Nat /\ acts \in Nat /\ msg.smileys \in Nat
  BY MessagesAssumption
<1> HIDE DEF words, acts
<1>2. DOMAIN LineOf(msg) = {"lines", "actions", "words", "smileys"}
  BY DEF LineOf
<1>3. LineOf(msg).lines = 1 /\ LineOf(msg).actions = acts /\ LineOf(msg).words = words
      /\ LineOf(msg).smileys = msg.smileys
  BY DEF LineOf, words, acts
<1>4. PICK delta : delta = LineOf(msg)
  OBVIOUS
<1>5. DOMAIN delta \subseteq Metrics /\ \A m \in DOMAIN delta : delta[m] \in Nat
  BY <1>1, <1>2, <1>3, <1>4 DEF Metrics
<1> QED BY <1>4, <1>5, PositiveIsABag
-----------------------------------------------------------------------------
(* The invariant *)

\* Everything is counted that is due, and nothing else; also in rows nobody has yet.
IInv == /\ now \in Instants /\ intact \in BOOLEAN
        /\ AddUp(table, Memory, done, intact)

\* Nothing is counted and nothing is due.
LEMMA InitIInv ==
  ASSUME Init
  PROVE  IInv
<1>1. /\ pending = EmptyBag /\ queue = <<>> /\ table = EmptyBag /\ done = EmptyBag
      /\ now \in Instants /\ intact = TRUE
  BY DEF Init
<1>2. PICK s : s = Memory
  OBVIOUS
<1>3. s = [pending |-> EmptyBag, queue |-> <<>>]
  BY <1>1, <1>2 DEF Memory
<1>4. EmptyBag \in FiniteBags(Items) /\ <<>> \in Seq(FiniteBags(Items)) /\ EmptyBag \in FiniteBags(Events)
  BY NoCopies
<1>5. MemTypes(s) /\ \A x : InMemory(x, s) = Copies(x, EmptyBag) + InQueries(x, <<>>)
  <2>1. s.pending = EmptyBag /\ s.queue = <<>>
    BY <1>3
  <2>2. MemTypes(s)
    BY <1>3, <1>4 DEF MemTypes
  <2> QED BY <2>1, <2>2, Zenon DEF InMemory
<1>6. \A x : Copies(x, EmptyBag) = 0 /\ InQueries(x, <<>>) = 0
  BY NoCopies, NoQueries
<1>7. ASSUME NEW x PROVE Due(x, EmptyBag) = 0
  <2> DEFINE f == [e \in {} |-> IF Hits(x, e) THEN EmptyBag[e] ELSE 0]
  <2>1. DOMAIN EmptyBag = {}
    BY NoCopies
  <2>2. Due(x, EmptyBag) = SumFunction([e \in DOMAIN EmptyBag |-> IF Hits(x, e) THEN EmptyBag[e] ELSE 0])
    BY DEF Due
  <2>3. Due(x, EmptyBag) = SumFunction(f)
    BY <2>1, <2>2, Zenon
  <2>4. DOMAIN f = {}
    OBVIOUS
  <2> HIDE DEF f
  <2> QED BY <2>3, <2>4, SumOfNone DEF SumFunction
<1>8. ASSUME NEW x PROVE AtMost(x, EmptyBag, s, EmptyBag) /\ AsOften(x, EmptyBag, s, EmptyBag)
  <2>1. InMemory(x, s) = 0
    BY <1>5, <1>6
  <2> QED BY <1>6, <1>7, <2>1 DEF AtMost, AsOften
<1>9. AddUp(EmptyBag, s, EmptyBag, TRUE)
  BY <1>4, <1>5, <1>8 DEF AddUp
<1> QED BY <1>1, <1>2, <1>9 DEF IInv

\* The step leads to what is in r, t, d and w.
LEMMA Afterwards ==
  ASSUME NEW t, NEW r, MemTypes(r), NEW d, NEW w \in BOOLEAN, AddUp(t, r, d, w),
         table' = t, Remember(r), done' = d, intact' = w, now' \in Instants
  PROVE  IInv'
<1>1. Memory' = r
  BY DEF Remember, MemTypes, Memory
<1> QED BY <1>1 DEF IInv

\* An event of one user.
LEMMA CountKeeps ==
  ASSUME SummerSettled, IInv, NEW c \in Chans, NEW u \in AnyNick,
         NEW delta \in FiniteBags(Metrics), Count(c, u, delta)
  PROVE  IInv'
<1>1. PICK n \in AnyNick : n = GetDisplay(u)
  BY DisplaysAreNicks
<1>2. PICK r : r = AddEvent(Memory, c, n, delta)
  OBVIOUS
<1>3. /\ Remember(r) /\ done' = done (+) Note(c, n, delta)
      /\ table' = table /\ intact' = intact /\ now' = now
  BY <1>1, <1>2 DEF Count
<1>4. now \in Instants /\ intact \in BOOLEAN /\ AddUp(table, Memory, done, intact)
  BY DEF IInv
<1>5. AddUp(table, r, done (+) Note(c, n, delta), intact)
  BY <1>2, <1>4, AddUpEvent
<1>6. MemTypes(r)
  BY <1>5 DEF AddUp
<1> QED BY <1>3, <1>4, <1>5, <1>6, Afterwards

\* A kick counts for both, the target first.
LEMMA KickKeeps ==
  ASSUME SummerSettled, IInv, NEW c \in Chans, NEW u \in AnyNick, NEW v \in AnyNick,
         OnPreUserKicked(c, u, v)
  PROVE  IInv'
<1>1. PICK n \in AnyNick : n = GetDisplay(u)
  BY DisplaysAreNicks
<1>2. PICK k \in AnyNick : k = GetDisplay(v)
  BY DisplaysAreNicks
<1>3. PICK kicked \in FiniteBags(Metrics) : kicked = Once("kicked")
  BY OnceIsABag DEF Metrics
<1>4. PICK kicks \in FiniteBags(Metrics) : kicks = Once("kicks")
  BY OnceIsABag DEF Metrics
<1>5. PICK s : s = AddEvent(Memory, c, k, kicked)
  OBVIOUS
<1>6. PICK r : r = AddEvent(s, c, n, kicks)
  OBVIOUS
<1>7. /\ Remember(r) /\ done' = done (+) Note(c, k, kicked) (+) Note(c, n, kicks)
      /\ table' = table /\ intact' = intact /\ now' = now
  BY <1>1, <1>2, <1>3, <1>4, <1>5, <1>6 DEF OnPreUserKicked
<1>8. now \in Instants /\ intact \in BOOLEAN /\ AddUp(table, Memory, done, intact)
  BY DEF IInv
<1>9. PICK d : d = done (+) Note(c, k, kicked)
  OBVIOUS
<1>10. AddUp(table, s, d, intact)
  BY <1>5, <1>8, <1>9, AddUpEvent
<1>11. AddUp(table, r, d (+) Note(c, n, kicks), intact)
  BY <1>6, <1>8, <1>10, AddUpEvent
<1>12. MemTypes(r)
  BY <1>11 DEF AddUp
<1> QED BY <1>7, <1>8, <1>9, <1>11, <1>12, Afterwards

\* Every event in a channel.
LEMMA EventKeeps ==
  ASSUME SummerSettled, IInv, NEW c \in Chans, Event(c)
  PROVE  IInv'
<1> DEFINE Names == Accounts \union {""}
<1>1. Names = AnyNick
  BY DEF AnyNick
<1>2. ASSUME NEW u \in AnyNick, OnTopicUpdated(c, u) PROVE IInv'
  <2>1. PICK b \in FiniteBags(Metrics) : b = Once("topics")
    BY OnceIsABag DEF Metrics
  <2>2. Count(c, u, b)
    BY <1>2, <2>1 DEF OnTopicUpdated
  <2> QED BY <2>2, CountKeeps
<1>3. ASSUME NEW u \in AnyNick, OnModeChange(c, u) PROVE IInv'
  <2>1. PICK b \in FiniteBags(Metrics) : b = Once("modes")
    BY OnceIsABag DEF Metrics
  <2>2. Count(c, u, b)
    BY <1>3, <2>1 DEF OnModeChange
  <2> QED BY <2>2, CountKeeps
<1>4. ASSUME NEW u \in AnyNick, OnPrivmsg(c, u) PROVE IInv'
  <2>1. PICK msg \in Messages : Count(c, u, Positive(LineOf(msg)))
    BY <1>4, Zenon DEF OnPrivmsg, LineOf
  <2>2. PICK b \in FiniteBags(Metrics) : b = Positive(LineOf(msg))
    BY LinesAreBags
  <2> QED BY <2>1, <2>2, CountKeeps
<1>5. ASSUME NEW u \in AnyNick, NEW v \in AnyNick, OnPreUserKicked(c, u, v) PROVE IInv'
  BY <1>5, KickKeeps
<1>6. \/ \E u \in Names : OnTopicUpdated(c, u) \/ OnModeChange(c, u) \/ OnPrivmsg(c, u)
      \/ \E u, v \in Names : OnPreUserKicked(c, u, v)
  BY Zenon DEF Event
<1> HIDE DEF Names
<1> QED BY <1>1, <1>2, <1>3, <1>4, <1>5, <1>6, Zenon

\* The timer flushes.
LEMMA FlushTimerKeeps ==
  ASSUME IInv, FlushTimer
  PROVE  IInv'
<1>1. PICK r : r = Flush(Memory)
  OBVIOUS
<1>2. Remember(r) /\ done' = done /\ table' = table /\ intact' = intact /\ now' = now
  BY <1>1 DEF FlushTimer
<1>3. now \in Instants /\ intact \in BOOLEAN /\ AddUp(table, Memory, done, intact)
  BY DEF IInv
<1>4. AddUp(table, r, done, intact)
  BY <1>1, <1>3, AddUpFlush
<1>5. MemTypes(r)
  BY <1>4 DEF AddUp
<1> QED BY <1>2, <1>3, <1>4, <1>5, Afterwards

\* The memory is the counters and the queries.
LEMMA MemoryParts == Memory.pending = pending /\ Memory.queue = queue
BY DEF Memory

\* The destructor flushes and waits.
LEMMA UnloadKeeps ==
  ASSUME IInv, Unload
  PROVE  IInv'
<1>1. PICK ok \in SUBSET DOMAIN Queries(pending) :
        /\ table' = After(table, Queries(pending), ok)
        /\ queue' \in {queue, <<>>}
        /\ intact' = (intact /\ ok = DOMAIN Queries(pending) /\ queue' = queue)
  BY DEF Unload
<1>2. pending' = EmptyBag /\ now' = now /\ done' = done
  BY DEF Unload
<1>3. now \in Instants /\ intact \in BOOLEAN /\ AddUp(table, Memory, done, intact)
  BY DEF IInv
<1>4. PICK s : s = Memory /\ s.pending = pending /\ s.queue = queue
  BY MemoryParts
<1>5. PICK q \in {s.queue, <<>>} : q = queue'
  BY <1>1, <1>4
<1>6. PICK r : r = [pending |-> EmptyBag, queue |-> q]
  OBVIOUS
<1>7. PICK w \in BOOLEAN : w = (intact /\ ok = DOMAIN Queries(pending) /\ q = queue)
  OBVIOUS
<1>8. AddUp(After(table, Queries(pending), ok), r, done, w)
  <2>1. ok \in SUBSET DOMAIN Queries(s.pending)
    BY <1>1, <1>4
  <2>2. AddUp(table, s, done, intact)
    BY <1>3, <1>4
  <2>3. w => intact /\ ok = DOMAIN Queries(s.pending) /\ q = s.queue
    BY <1>4, <1>7
  <2>4. AddUp(After(table, Queries(s.pending), ok), [pending |-> EmptyBag, queue |-> q], done, w)
    BY <1>5, <2>1, <2>2, <2>3, AddUpUnload
  <2> QED BY <1>4, <1>6, <2>4
<1>9. MemTypes(r)
  BY <1>8 DEF AddUp
<1>10. Remember(r)
  BY <1>2, <1>5, <1>6 DEF Remember
<1>11. intact' = w
  BY <1>1, <1>5, <1>7
<1> QED BY <1>1, <1>2, <1>3, <1>8, <1>9, <1>10, <1>11, Afterwards

\* What a crash and the loss of the engine have in common.
LEMMA LossKeeps ==
  ASSUME IInv, NEW p \in {pending, EmptyBag}, pending' = p, queue' = <<>>,
         intact' = (intact /\ p = pending /\ queue = <<>>),
         table' = table, done' = done, now' = now
  PROVE  IInv'
<1>1. now \in Instants /\ intact \in BOOLEAN /\ AddUp(table, Memory, done, intact)
  BY DEF IInv
<1>2. PICK s : s = Memory /\ s.pending = pending /\ s.queue = queue
  BY MemoryParts
<1>3. PICK r : r = [pending |-> p, queue |-> <<>>]
  OBVIOUS
<1>4. PICK w \in BOOLEAN : w = (intact /\ p = pending /\ queue = <<>>)
  OBVIOUS
<1>5. AddUp(table, r, done, w)
  <2>1. AddUp(table, s, done, intact) /\ p \in {s.pending, EmptyBag}
    BY <1>1, <1>2
  <2>2. w => intact /\ p = s.pending /\ s.queue = <<>>
    BY <1>2, <1>4
  <2>3. AddUp(table, [pending |-> p, queue |-> <<>>], done, w)
    BY <2>1, <2>2, AddUpLoss
  <2> QED BY <1>3, <2>3
<1>6. MemTypes(r)
  BY <1>5 DEF AddUp
<1>7. Remember(r)
  BY <1>3 DEF Remember
<1>8. intact' = w
  BY <1>4
<1> QED BY <1>1, <1>5, <1>6, <1>7, <1>8, Afterwards

\* A crash loses the counters and the queries.
LEMMA CrashKeeps ==
  ASSUME IInv, Crash
  PROVE  IInv'
<1>1. /\ pending' = EmptyBag /\ queue' = <<>>
      /\ intact' = (intact /\ pending = EmptyBag /\ queue = <<>>)
      /\ table' = table /\ done' = done /\ now' = now
  BY DEF Crash
<1>2. PICK p \in {pending, EmptyBag} : p = EmptyBag
  OBVIOUS
<1>3. intact' = (intact /\ p = pending /\ queue = <<>>)
  BY <1>1, <1>2
<1> QED BY <1>1, <1>2, <1>3, LossKeeps

\* The queries go with the engine, the counters stay.
LEMMA SqlGoesKeeps ==
  ASSUME IInv, SqlGoes
  PROVE  IInv'
<1>1. /\ pending' = pending /\ queue' = <<>> /\ intact' = (intact /\ queue = <<>>)
      /\ table' = table /\ done' = done /\ now' = now
  BY DEF SqlGoes
<1>2. PICK p \in {pending, EmptyBag} : p = pending
  OBVIOUS
<1>3. intact' = (intact /\ p = pending /\ queue = <<>>)
  BY <1>1, <1>2
<1> QED BY <1>1, <1>2, <1>3, LossKeeps

\* A query that runs moves its rows to the table.
LEMMA RunQueryKeeps ==
  ASSUME IInv, RunQuery
  PROVE  IInv'
<1>1. /\ queue # <<>> /\ table' = table (+) Head(queue) /\ queue' = Tail(queue)
      /\ pending' = pending /\ intact' = intact /\ done' = done /\ now' = now
  BY DEF RunQuery
<1>2. now \in Instants /\ intact \in BOOLEAN /\ AddUp(table, Memory, done, intact)
  BY DEF IInv
<1>3. PICK s : s = Memory /\ s.pending = pending /\ s.queue = queue
  BY MemoryParts
<1>4. PICK r : r = [pending |-> pending, queue |-> Tail(queue)]
  OBVIOUS
<1>5. AddUp(table (+) Head(queue), r, done, intact)
  <2>1. AddUp(table, s, done, intact) /\ s.queue # <<>>
    BY <1>1, <1>2, <1>3
  <2>2. AddUp(table (+) Head(s.queue), [pending |-> s.pending, queue |-> Tail(s.queue)], done, intact)
    BY <2>1, AddUpRun
  <2> QED BY <1>3, <1>4, <2>2
<1>6. MemTypes(r)
  BY <1>5 DEF AddUp
<1>7. Remember(r)
  BY <1>1, <1>4 DEF Remember
<1> QED BY <1>1, <1>2, <1>5, <1>6, <1>7, Afterwards

\* A query that fails is gone, and nothing is intact any more.
LEMMA OnErrorKeeps ==
  ASSUME IInv, OnError
  PROVE  IInv'
<1>1. /\ queue # <<>> /\ table' = table /\ queue' = Tail(queue)
      /\ pending' = pending /\ intact' = FALSE /\ done' = done /\ now' = now
  BY DEF OnError
<1>2. now \in Instants /\ intact \in BOOLEAN /\ AddUp(table, Memory, done, intact)
  BY DEF IInv
<1>3. PICK s : s = Memory /\ s.pending = pending /\ s.queue = queue
  BY MemoryParts
<1>4. PICK r : r = [pending |-> pending, queue |-> Tail(queue)]
  OBVIOUS
<1>5. AddUp(table, r, done, FALSE)
  <2>1. AddUp(table, s, done, intact) /\ s.queue # <<>>
    BY <1>1, <1>2, <1>3
  <2>2. AddUp(table, [pending |-> s.pending, queue |-> Tail(s.queue)], done, FALSE)
    BY <2>1, AddUpError
  <2> QED BY <1>3, <1>4, <2>2
<1>6. MemTypes(r)
  BY <1>5 DEF AddUp
<1>7. Remember(r)
  BY <1>1, <1>4 DEF Remember
<1> QED BY <1>1, <1>2, <1>5, <1>6, <1>7, Afterwards

\* The rest leaves what is counted alone.
LEMMA OthersKeep ==
  ASSUME IInv, UNCHANGED <<pending, queue, table, done, intact>>, now' \in Instants
  PROVE  IInv'
BY DEF IInv, Memory

\* Every step of the system.
LEMMA NextIInv ==
  ASSUME SummerSettled, IInv, [Next]_vars
  PROVE  IInv'
<1>1. now \in Instants
  BY DEF IInv
<1>2. ASSUME NEW c \in Chans, Event(c) PROVE IInv'
  BY <1>2, EventKeeps
<1>3. ASSUME NEW c \in Chans, SetChannel(c) PROVE IInv'
  BY <1>1, <1>3, OthersKeep DEF SetChannel
<1>4. ASSUME NEW a \in Accounts, SetNick(a) PROVE IInv'
  BY <1>1, <1>4, OthersKeep DEF SetNick
<1>5. CASE OnReload
  BY <1>1, <1>5, OthersKeep DEF OnReload
<1>6. CASE Load
  BY <1>1, <1>6, OthersKeep DEF Load
<1>7. CASE SqlComes
  BY <1>1, <1>7, OthersKeep DEF SqlComes
<1>8. CASE Tick
  BY <1>8, OthersKeep DEF Tick
<1>9. CASE UNCHANGED vars
  BY <1>1, <1>9, OthersKeep DEF vars
<1> QED BY <1>2, <1>3, <1>4, <1>5, <1>6, <1>7, <1>8, <1>9, FlushTimerKeeps, UnloadKeeps, CrashKeeps,
           RunQueryKeeps, OnErrorKeeps, SqlGoesKeeps, Zenon DEF Next
-----------------------------------------------------------------------------
(* The rows add up *)

\* What was done is due in the items it hits.
LEMMA DueIsPositive ==
  ASSUME NEW S, NEW d \in FiniteBags(S), NEW x, NEW e \in DOMAIN d, Hits(x, e)
  PROVE  Due(x, d) \in Nat \ {0}
<1> DEFINE f == [a \in DOMAIN d |-> IF Hits(x, a) THEN d[a] ELSE 0]
           D == DOMAIN d
<1>1. Due(x, d) = SumFunctionOnSet(f, DOMAIN f) /\ DOMAIN f = D
  BY DEF Due, SumFunction
<1>2. IsFiniteSet(D) /\ \A a \in D : d[a] \in Nat \ {0}
  BY FiniteBag
<1>3. (\A a \in D : f[a] \in Nat /\ f[a] \in Int) /\ f[e] \in Nat \ {0} /\ e \in D
  BY <1>2
<1> HIDE DEF f, D
<1>4. SumFunctionOnSet(f, D) = f[e] + SumFunctionOnSet(f, D \ {e})
  BY <1>2, <1>3, SumTakesOut
<1>5. SumFunctionOnSet(f, D \ {e}) \in Nat
  <2>1. IsFiniteSet(D \ {e}) /\ \A a \in D \ {e} : f[a] \in Nat
    BY <1>2, <1>3, FS_Subset
  <2> QED BY <2>1, SumIsNatural
<1> QED BY <1>1, <1>3, <1>4, <1>5

\* What is in no bag is counted nowhere.
LEMMA CountedIsKept ==
  ASSUME NEW S, table \in FiniteBags(S), pending \in FiniteBags(S), queue \in Seq(FiniteBags(S)),
         NEW x, x \notin Kept
  PROVE  Copies(x, table) = 0 /\ Copies(x, pending) = 0 /\ InQueries(x, queue) = 0
<1>1. x \notin DOMAIN table /\ x \notin DOMAIN pending /\ \A i \in DOMAIN queue : x \notin DOMAIN queue[i]
  BY DEF Kept
<1> DEFINE f == [i \in DOMAIN queue |-> Copies(x, queue[i])]
<1>2. DOMAIN f = 1..Len(queue) /\ IsFiniteSet(1..Len(queue))
  BY QueueTypes
<1>3. \A i \in 1..Len(queue) : f[i] = 0
  BY <1>1, <1>2 DEF Copies
<1>4. InQueries(x, queue) = SumFunctionOnSet(f, DOMAIN f)
  BY DEF InQueries, SumFunction
<1> HIDE DEF f
<1>5. InQueries(x, queue) = 0
  BY <1>2, <1>3, <1>4, SumOfZeros
<1> QED BY <1>1, <1>5 DEF Copies

\* Whatever is kept is an item.
LEMMA KeptAreItems ==
  ASSUME table \in FiniteBags(Items), pending \in FiniteBags(Items), queue \in Seq(FiniteBags(Items))
  PROVE  Kept \subseteq Items
<1>1. DOMAIN table \subseteq Items /\ DOMAIN pending \subseteq Items
  BY FiniteBag
<1>2. \A i \in DOMAIN queue : queue[i] \in FiniteBags(Items)
  OBVIOUS
<1>3. \A i \in DOMAIN queue : DOMAIN queue[i] \subseteq Items
  BY <1>2, FiniteBag
<1> QED BY <1>1, <1>3 DEF Kept

\* The rows that are to hold what was done are rows of the table that cover it.
LEMMA RowsForCover ==
  ASSUME NEW e \in Events, NEW r \in RowsFor(e)
  PROVE  r \in TableRows /\ Covers(r, e)
<1>1. PICK w \in Whose(e), period \in Periods : r = Row(w[1], w[2], period, Start(period, e.day))
  BY DEF RowsFor
<1>2. e.chan \in Chans /\ e.nick \in AnyNick /\ e.day \in Nat
  BY DEF Events
<1>3. w = <<w[1], w[2]>> /\ w[1] \in AnyChan /\ w[2] \in AnyNick
  <2>1. e.chan \in AnyChan /\ None \in AnyChan /\ None \in AnyNick
    BY <1>2, NoneIsAName DEF AnyChan
  <2>2. w \in {<<e.chan, None>>, <<e.chan, e.nick>>, <<None, e.nick>>}
    <3>1. Whose(e) = {<<e.chan, None>>} \union (IF e.nick = None THEN {} ELSE {<<e.chan, e.nick>>, <<None, e.nick>>})
      BY DEF Whose, None
    <3> QED BY <3>1
  <2> QED BY <1>2, <2>1, <2>2
<1>4. Start(period, e.day) \in Int
  BY <1>2, StartIsInteger
<1>5. r \in TableRows
  BY <1>1, <1>3, <1>4, RowIsIn
<1>6. r.chan = w[1] /\ r.nick = w[2] /\ r.period = period /\ r.start = Start(period, e.day)
  BY <1>1 DEF Row
<1>7. <<r.chan, r.nick>> = w
  BY <1>3, <1>6
<1> QED BY <1>1, <1>5, <1>6, <1>7 DEF Covers

\* The rows that are kept are as they should be, and those that should be are kept.
LEMMA AddedUp ==
  ASSUME IInv
  PROVE  RowsAddUp
<1>1. AddUp(table, Memory, done, intact) /\ MemTypes(Memory)
  BY DEF IInv, AddUp
<1>2. /\ table \in FiniteBags(Items) /\ done \in FiniteBags(Events)
      /\ pending \in FiniteBags(Items) /\ queue \in Seq(FiniteBags(Items))
  BY <1>1, MemoryParts DEF AddUp, MemTypes
<1>3. ASSUME NEW x
      PROVE  /\ Counted(x) = Copies(x, table) + InMemory(x, Memory) /\ Counted(x) \in Nat
             /\ Expected(x) = Due(x, done) /\ Due(x, done) \in Int
  <2>1. Waiting(x) = InQueries(x, queue)
    BY DEF Waiting, InQueries
  <2>2. InMemory(x, Memory) = Copies(x, pending) + InQueries(x, queue)
    BY MemoryParts DEF InMemory
  <2>3. /\ Copies(x, table) \in Nat /\ Copies(x, pending) \in Nat /\ InQueries(x, queue) \in Nat
        /\ Due(x, done) \in Int
    BY <1>2, CopiesAreNatural, InQueriesIsNatural, DueOfBoth
  <2>4. Expected(x) = Due(x, done)
    BY DEF Expected, Due, Hits
  <2> QED BY <2>1, <2>2, <2>3, <2>4 DEF Counted
<1>4. \A x \in Items : AtMost(x, table, Memory, done)
  BY <1>1, Zenon DEF AddUp
<1>5. ASSUME intact, NEW x \in Items PROVE Counted(x) = Expected(x)
  <2>1. AsOften(x, table, Memory, done)
    BY <1>1, <1>5, Zenon DEF AddUp
  <2> QED BY <1>3, <2>1, Zenon DEF AsOften
<1>6. ASSUME NEW x \in Kept PROVE Counted(x) <= Expected(x)
  <2>1. x \in Items
    BY <1>2, KeptAreItems
  <2> QED BY <1>3, <1>4, <2>1 DEF AtMost
<1>7. ASSUME intact, NEW x \in Kept PROVE Counted(x) >= Expected(x)
  <2>1. x \in Items
    BY <1>2, KeptAreItems
  <2>2. Counted(x) = Expected(x) /\ Counted(x) \in Nat
    BY <1>3, <1>5, <1>7, <2>1
  <2> QED BY <2>2
<1>8. ASSUME intact, NEW e \in DOMAIN done, NEW r \in RowsFor(e)
      PROVE  [row |-> r, metric |-> e.metric] \in Kept
  <2> DEFINE x == [row |-> r, metric |-> e.metric]
  <2>1. e \in Events
    BY <1>2, FiniteBag
  <2>2. r \in TableRows /\ Covers(r, e)
    BY <2>1, RowsForCover
  <2>3. x \in Items /\ x.row = r /\ x.metric = e.metric
    BY <2>1, <2>2 DEF Items, Events
  <2> HIDE DEF x
  <2>4. Hits(x, e)
    BY <2>2, <2>3 DEF Hits
  <2>5. Due(x, done) \in Nat \ {0}
    BY <1>2, <2>4, DueIsPositive
  <2>6. Counted(x) = Expected(x) /\ Expected(x) = Due(x, done)
    BY <1>3, <1>5, <1>8, <2>3
  <2>7. x \in Kept
    <3> SUFFICES ASSUME x \notin Kept PROVE FALSE
      OBVIOUS
    <3>1. Copies(x, table) = 0 /\ Copies(x, pending) = 0 /\ InQueries(x, queue) = 0
      BY <1>2, CountedIsKept
    <3>2. Waiting(x) = InQueries(x, queue)
      BY DEF Waiting, InQueries
    <3>3. Counted(x) = 0
      BY <3>1, <3>2 DEF Counted
    <3> QED BY <2>5, <2>6, <3>3
  <2> QED BY <2>7 DEF x
<1>9. \A x \in Kept : Counted(x) <= Expected(x) /\ (intact => Counted(x) >= Expected(x))
  BY <1>6, <1>7
<1>10. intact => \A e \in DOMAIN done : \A r \in RowsFor(e) : [row |-> r, metric |-> e.metric] \in Kept
  BY <1>8
<1> QED BY <1>9, <1>10 DEF RowsAddUp

\* What an item is counted, in the table, in memory and in the queries that wait,
\* is what it is due, or less when something was lost: a line, a kick or a mode goes
\* to exactly its rows, and flushing, running and losing queries move or drop what
\* was counted and never count it again (AddEvent, Flush, the destructor).
THEOREM CountsAddUp ==
  ASSUME SummerSettled
  PROVE  Spec => []IInv
<1>1. Init => IInv
  BY InitIInv
<1>2. IInv /\ [Next]_vars => IInv'
  BY NextIInv
<1> QED BY <1>1, <1>2, PTL DEF Spec

\* Each row of the statistics comes to what was done in its time, whatever is
\* flushed when, in however many queries of however many rows (Flush, AddEvent).
THEOREM RowsAreRight ==
  ASSUME SummerSettled
  PROVE  Spec => []RowsAddUp
<1>1. IInv => RowsAddUp
  BY AddedUp
<1> QED BY <1>1, CountsAddUp, PTL
=============================================================================
