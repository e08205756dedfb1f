------------------------- MODULE CpSatEncodingProofs -------------------------
(***************************************************************************)
(* CP-SAT's Boolean model against the validator and the scorer, for every  *)
(* problem: no bound on events, candidates, atoms or resources.            *)
(***************************************************************************)
EXTENDS CpSatEncoding, FiniteSetTheorems, WellFoundedInduction, TLAPS

(***************************************************************************)
(* Induction over data, by the least counterexample: a set takes the place *)
(* of the predicate, so every prover can instantiate these.                *)
(***************************************************************************)
\* Every non-empty set of natural numbers has a least element.
LEMMA LeastNumber ==
  ASSUME NEW T, T \subseteq Nat, T # {}
  PROVE  \E n \in T : \A m \in T : n <= m
<1> DEFINE R == OpToRel(<, Nat)
<1>1. IsWellFoundedOn(R, Nat)
  BY NatLessThanWellFounded
<1>2. \A x, y \in Nat : x < y => <<x, y>> \in R
  BY DEF OpToRel
<1> HIDE DEF R
<1>3. PICK n \in T : \A y \in T : ~(<<y, n>> \in R)
  BY <1>1, WFMin
<1>4. ASSUME NEW m \in T PROVE n <= m
  <2>1. ~(m < n)
    BY <1>2, <1>3
  <2> QED BY <2>1
<1> QED BY <1>4

\* Induction over a finite set, with a set of subsets in place of a predicate.
LEMMA SubsetInduction ==
  ASSUME NEW S, IsFiniteSet(S), NEW G,
         \A s \in SUBSET S : (\A x \in s : s \ {x} \in G) => s \in G
  PROVE  S \in G
<1> DEFINE Bad == { s \in SUBSET S : s \notin G }
           Sizes == { Cardinality(s) : s \in Bad }
<1> SUFFICES ASSUME Bad # {} PROVE FALSE
  OBVIOUS
<1>1. \A s \in SUBSET S : IsFiniteSet(s) /\ Cardinality(s) \in Nat
  BY FS_Subset, FS_CardinalityType
<1>2. Sizes \subseteq Nat /\ Sizes # {}
  BY <1>1
<1>3. PICK n \in Sizes : \A m \in Sizes : n <= m
  BY <1>2, LeastNumber
<1>4. PICK s \in Bad : Cardinality(s) = n
  OBVIOUS
<1>5. ASSUME NEW x \in s PROVE s \ {x} \in G
  <2>1. IsFiniteSet(s) /\ s \ {x} \in SUBSET S
    BY <1>1
  <2>2. Cardinality(s \ {x}) = n - 1
    BY <1>4, <2>1, FS_RemoveElement
  <2>3. n \in Nat
    BY <1>2
  <2>4. ~(Cardinality(s \ {x}) \in Sizes)
    BY <1>3, <2>2, <2>3
  <2> QED BY <2>1, <2>4
<1> QED BY <1>4, <1>5

(***************************************************************************)
(* Sums.                                                                   *)
(***************************************************************************)
Pick(s) == CHOOSE x \in s : TRUE
SumStep(f, g, s) == IF s = {} THEN 0 ELSE f[Pick(s)] + g[s \ {Pick(s)}]
IsSum(f, g, S) == g = [s \in SUBSET S |-> SumStep(f, g, s)]

LEMMA SumIsChosen ==
  ASSUME NEW f, NEW S
  PROVE  SumFunctionOnSet(f, S) = (CHOOSE g : IsSum(f, g, S))[S]
BY DEF SumFunctionOnSet, FoldFunctionOnSet, MapThenFoldSet, IsSum, SumStep, Pick

LEMMA SumExists ==
  ASSUME NEW f, NEW S, IsFiniteSet(S)
  PROVE  \E g : IsSum(f, g, S)
<1> DEFINE Upto(g, n) == \A s \in SUBSET S : Cardinality(s) <= n => g[s] = SumStep(f, g, s)
           Bad == { n \in Nat : ~ \E g : Upto(g, n) }
<1>1. \A s \in SUBSET S : IsFiniteSet(s) /\ Cardinality(s) \in Nat
  BY FS_Subset, FS_CardinalityType
<1>3. ASSUME NEW n \in Nat, n = 0 PROVE \E g : Upto(g, n)
  <2> DEFINE g == [s \in SUBSET S |-> 0]
  <2>1. ASSUME NEW s \in SUBSET S, Cardinality(s) <= n PROVE g[s] = SumStep(f, g, s)
    <3>1. s = {}
      BY <1>1, <1>3, <2>1, FS_EmptySet
    <3> QED BY <3>1 DEF SumStep
  <2>2. Upto(g, n)
    BY <2>1
  <2> HIDE DEF Upto, g
  <2> QED BY <2>2
<1>4. ASSUME NEW n \in Nat, NEW g, Upto(g, n) PROVE \E h : Upto(h, n + 1)
  <2> DEFINE h == [s \in SUBSET S |-> SumStep(f, g, s)]
  <2>1. ASSUME NEW s \in SUBSET S, Cardinality(s) <= n + 1 PROVE h[s] = SumStep(f, h, s)
    <3>1. CASE s = {}
      BY <3>1 DEF SumStep
    <3>2. CASE s # {}
      <4> DEFINE x == Pick(s)
                 r == s \ {x}
      <4>1. x \in s
        BY <3>2 DEF Pick
      <4>2. r \in SUBSET S /\ Cardinality(r) = Cardinality(s) - 1
        BY <1>1, <4>1, FS_RemoveElement
      <4>3. Cardinality(r) <= n
        BY <1>1, <2>1, <4>2
      <4>4. g[r] = SumStep(f, g, r)
        BY <1>4, <4>2, <4>3
      <4>5. h[r] = g[r]
        BY <4>2, <4>4
      <4>6. h[s] = SumStep(f, g, s)
        OBVIOUS
      <4>7. SumStep(f, g, s) = f[x] + g[r] /\ SumStep(f, h, s) = f[x] + h[r]
        BY <3>2 DEF SumStep
      <4> QED BY <4>5, <4>6, <4>7
    <3> QED BY <3>1, <3>2
  <2>2. Upto(h, n + 1)
    BY <2>1
  <2> HIDE DEF Upto, h
  <2> QED BY <2>2
<1>5. ASSUME NEW n \in Nat PROVE \E g : Upto(g, n)
  <2> HIDE DEF Upto
  <2> SUFFICES ASSUME Bad # {} PROVE FALSE
    OBVIOUS
  <2>1. PICK m \in Bad : \A k \in Bad : m <= k
    BY LeastNumber
  <2>2. m # 0
    BY <1>3
  <2>3. m - 1 \in Nat /\ ~(m - 1 \in Bad)
    BY <2>1, <2>2
  <2>4. PICK g : Upto(g, m - 1)
    BY <2>3
  <2>5. \E h : Upto(h, (m - 1) + 1)
    BY <1>4, <2>3, <2>4
  <2>6. (m - 1) + 1 = m
    BY <2>3
  <2> QED BY <2>5, <2>6
<1>6. PICK g : Upto(g, Cardinality(S))
  BY <1>1, <1>5
<1> DEFINE h == [s \in SUBSET S |-> g[s]]
<1>7. ASSUME NEW s \in SUBSET S PROVE h[s] = SumStep(f, h, s)
  <2>1. Cardinality(s) <= Cardinality(S)
    BY FS_Subset
  <2>2. g[s] = SumStep(f, g, s)
    BY <1>6, <2>1
  <2>3. SumStep(f, g, s) = SumStep(f, h, s)
    <3>1. CASE s = {}
      BY <3>1 DEF SumStep
    <3>2. CASE s # {}
      <4>1. s \ {Pick(s)} \in SUBSET S
        OBVIOUS
      <4> QED BY <3>2, <4>1 DEF SumStep
    <3> QED BY <3>1, <3>2
  <2> QED BY <2>2, <2>3
<1>8. h = [s \in SUBSET S |-> SumStep(f, h, s)]
  BY <1>7
<1> HIDE DEF h
<1> QED BY <1>8 DEF IsSum

\* Two sums over different sets agree on every set that is part of both.
LEMMA SumsAgree ==
  ASSUME NEW f, NEW g, NEW S, IsFiniteSet(S), NEW T, NEW u, NEW v,
         IsSum(f, u, S), IsSum(g, v, T), S \subseteq T, \A x \in S : f[x] = g[x]
  PROVE  u[S] = v[S]
<1> DEFINE G == { s \in SUBSET S : u[s] = v[s] }
<1>1. ASSUME NEW s \in SUBSET S, \A x \in s : s \ {x} \in G PROVE s \in G
  <2>1. u[s] = SumStep(f, u, s) /\ v[s] = SumStep(g, v, s)
    BY DEF IsSum
  <2>2. CASE s = {}
    BY <2>1, <2>2 DEF SumStep
  <2>3. CASE s # {}
    <3>1. Pick(s) \in s
      BY <2>3 DEF Pick
    <3>2. u[s \ {Pick(s)}] = v[s \ {Pick(s)}] /\ f[Pick(s)] = g[Pick(s)]
      BY <1>1, <3>1
    <3> QED BY <2>1, <2>3, <3>2 DEF SumStep
  <2> QED BY <2>2, <2>3
<1> HIDE DEF G
<1>2. S \in G
  BY <1>1, SubsetInduction
<1> QED BY <1>2 DEF G

\* What the fold computes, one element at a time.
LEMMA SumUnfolds ==
  ASSUME NEW f, NEW S, IsFiniteSet(S)
  PROVE  /\ S = {} => SumFunctionOnSet(f, S) = 0
         /\ S # {} => SumFunctionOnSet(f, S) = f[Pick(S)] + SumFunctionOnSet(f, S \ {Pick(S)})
<1> DEFINE u == CHOOSE g : IsSum(f, g, S)
           R == S \ {Pick(S)}
           v == CHOOSE g : IsSum(f, g, R)
<1>1. IsSum(f, u, S)
  BY SumExists
<1>2. IsFiniteSet(R) /\ R \subseteq S
  BY FS_Subset
<1>3. IsSum(f, v, R)
  BY <1>2, SumExists
<1>4. SumFunctionOnSet(f, S) = u[S] /\ SumFunctionOnSet(f, R) = v[R]
  BY SumIsChosen
<1> HIDE DEF u, v, R
<1>5. v[R] = u[R]
  BY <1>1, <1>2, <1>3, SumsAgree
<1>6. u[S] = SumStep(f, u, S)
  BY <1>1 DEF IsSum
<1> QED BY <1>4, <1>5, <1>6 DEF SumStep, R

LEMMA SumEqual ==
  ASSUME NEW f, NEW g, NEW S, IsFiniteSet(S), \A x \in S : f[x] = g[x]
  PROVE  SumFunctionOnSet(f, S) = SumFunctionOnSet(g, S)
<1> DEFINE u == CHOOSE h : IsSum(f, h, S)
           v == CHOOSE h : IsSum(g, h, S)
<1>1. IsSum(f, u, S) /\ IsSum(g, v, S)
  BY SumExists
<1>2. SumFunctionOnSet(f, S) = u[S] /\ SumFunctionOnSet(g, S) = v[S]
  BY SumIsChosen
<1> HIDE DEF u, v
<1> QED BY <1>1, <1>2, SumsAgree

\* The image of a finite set is finite.
LEMMA FiniteImage ==
  ASSUME NEW f, NEW S, IsFiniteSet(S)
  PROVE  IsFiniteSet({ f[x] : x \in S })
<1> DEFINE T == { f[x] : x \in S }
           h == [x \in S |-> f[x]]
<1>1. h \in Surjection(S, T)
  BY DEF Surjection
<1> QED BY <1>1, FS_Surjection

LEMMA SumEmpty ==
  ASSUME NEW f PROVE SumFunctionOnSet(f, {}) = 0
BY SumUnfolds, FS_EmptySet

LEMMA SumType ==
  ASSUME NEW f, NEW S, IsFiniteSet(S), \A x \in S : f[x] \in Int
  PROVE  SumFunctionOnSet(f, S) \in Int
<1> DEFINE G == { s \in SUBSET S : SumFunctionOnSet(f, s) \in Int }
<1>1. ASSUME NEW s \in SUBSET S, \A x \in s : s \ {x} \in G PROVE s \in G
  <2>1. IsFiniteSet(s)
    BY FS_Subset
  <2>2. CASE s = {}
    BY <2>2, SumEmpty
  <2>3. CASE s # {}
    <3>1. Pick(s) \in s
      BY <2>3 DEF Pick
    <3>2. SumFunctionOnSet(f, s \ {Pick(s)}) \in Int /\ f[Pick(s)] \in Int
      BY <1>1, <3>1
    <3>3. SumFunctionOnSet(f, s) = f[Pick(s)] + SumFunctionOnSet(f, s \ {Pick(s)})
      BY <2>1, <2>3, SumUnfolds
    <3> QED BY <3>2, <3>3
  <2> QED BY <2>2, <2>3
<1> HIDE DEF G
<1>2. S \in G
  BY <1>1, SubsetInduction
<1> QED BY <1>2 DEF G

\* The order in which the elements are added does not matter.
LEMMA SumRemove ==
  ASSUME NEW f, NEW S, IsFiniteSet(S), \A x \in S : f[x] \in Int, NEW y \in S
  PROVE  SumFunctionOnSet(f, S) = f[y] + SumFunctionOnSet(f, S \ {y})
<1> DEFINE Sum(s) == SumFunctionOnSet(f, s)
           G == { s \in SUBSET S : \A x \in s : Sum(s) = f[x] + Sum(s \ {x}) }
<1>0. \A s \in SUBSET S : IsFiniteSet(s) /\ Sum(s) \in Int
  <2> SUFFICES ASSUME NEW s \in SUBSET S PROVE IsFiniteSet(s) /\ Sum(s) \in Int
    OBVIOUS
  <2>1. IsFiniteSet(s)
    BY FS_Subset
  <2> QED BY <2>1, SumType
<1>1. ASSUME NEW s \in SUBSET S, \A x \in s : s \ {x} \in G PROVE s \in G
  <2> SUFFICES ASSUME NEW x \in s PROVE Sum(s) = f[x] + Sum(s \ {x})
    OBVIOUS
  <2> DEFINE p == Pick(s)
             r == (s \ {x}) \ {p}
  <2>1. p \in s
    BY DEF Pick
  <2>2. Sum(s) = f[p] + Sum(s \ {p})
    BY <1>0, SumUnfolds
  <2>3. CASE x = p
    BY <2>2, <2>3
  <2>4. CASE x # p
    <3>1. Sum(s \ {p}) = f[x] + Sum((s \ {p}) \ {x})
      BY <1>1, <2>1, <2>4
    <3>2. Sum(s \ {x}) = f[p] + Sum(r)
      BY <1>1, <2>1, <2>4
    <3>3. (s \ {p}) \ {x} = r
      OBVIOUS
    <3>4. Sum(r) \in Int /\ f[x] \in Int /\ f[p] \in Int
      BY <1>0, <2>1
    <3> HIDE DEF p, r
    <3>5. Sum(s \ {p}) = f[x] + Sum(r)
      BY <3>1, <3>3
    <3> HIDE DEF Sum
    <3> QED BY <2>2, <3>2, <3>4, <3>5
  <2> QED BY <2>3, <2>4
<1> HIDE DEF G
<1>2. S \in G
  BY <1>1, SubsetInduction
<1> QED BY <1>2 DEF G

LEMMA SumNonNegative ==
  ASSUME NEW f, NEW S, IsFiniteSet(S), \A x \in S : f[x] \in Int /\ f[x] >= 0
  PROVE  SumFunctionOnSet(f, S) >= 0
<1> DEFINE G == { s \in SUBSET S : SumFunctionOnSet(f, s) >= 0 }
<1>1. ASSUME NEW s \in SUBSET S, \A x \in s : s \ {x} \in G PROVE s \in G
  <2>1. IsFiniteSet(s)
    BY FS_Subset
  <2>2. CASE s = {}
    BY <2>1, <2>2, SumEmpty
  <2>3. CASE s # {}
    <3>1. PICK x : x \in s
      BY <2>3
    <3>2. SumFunctionOnSet(f, s \ {x}) >= 0 /\ f[x] \in Int /\ f[x] >= 0
      BY <1>1, <3>1
    <3>3. SumFunctionOnSet(f, s) = f[x] + SumFunctionOnSet(f, s \ {x})
      BY <2>1, <3>1, SumRemove
    <3>4. IsFiniteSet(s \ {x})
      BY <2>1, FS_Subset
    <3>5. SumFunctionOnSet(f, s \ {x}) \in Int
      BY <3>4, SumType
    <3> QED BY <3>2, <3>3, <3>5
  <2> QED BY <2>2, <2>3
<1> HIDE DEF G
<1>2. S \in G
  BY <1>1, SubsetInduction
<1> QED BY <1>2 DEF G

\* Summing over a set, or over the set it is renamed to.
LEMMA SumRenamed ==
  ASSUME NEW f, NEW g, NEW S, IsFiniteSet(S), NEW T, NEW b \in Bijection(S, T),
         \A x \in S : f[x] \in Int /\ f[x] = g[b[x]]
  PROVE  SumFunctionOnSet(f, S) = SumFunctionOnSet(g, T)
<1> DEFINE Image(s) == { b[x] : x \in s }
           G == { s \in SUBSET S : SumFunctionOnSet(f, s) = SumFunctionOnSet(g, Image(s)) }
<1>0. /\ \A x, y \in S : b[x] = b[y] => x = y
      /\ Image(S) = T
  BY DEF Bijection, Injection, Surjection, IsInjective
<1>1. ASSUME NEW s \in SUBSET S, \A x \in s : s \ {x} \in G PROVE s \in G
  <2>1. IsFiniteSet(s)
    BY FS_Subset
  <2>2. CASE s = {}
    <3>1. Image(s) = {}
      BY <2>2
    <3> QED BY <2>2, <3>1, SumEmpty
  <2>3. CASE s # {}
    <3>1. PICK x : x \in s
      BY <2>3
    <3>2. Image(s \ {x}) = Image(s) \ {b[x]} /\ b[x] \in Image(s)
      BY <1>0, <3>1
    <3>3. SumFunctionOnSet(f, s \ {x}) = SumFunctionOnSet(g, Image(s) \ {b[x]})
      BY <1>1, <3>1, <3>2
    <3>4. SumFunctionOnSet(f, s) = f[x] + SumFunctionOnSet(f, s \ {x})
      BY <2>1, <3>1, SumRemove
    <3>5. IsFiniteSet(Image(s))
      BY <2>1, FiniteImage
    <3>6. \A y \in Image(s) : g[y] \in Int
      OBVIOUS
    <3>7. SumFunctionOnSet(g, Image(s)) = g[b[x]] + SumFunctionOnSet(g, Image(s) \ {b[x]})
      BY <3>2, <3>5, <3>6, SumRemove
    <3> QED BY <3>1, <3>3, <3>4, <3>7
  <2> QED BY <2>2, <2>3
<1> HIDE DEF G
<1>2. S \in G
  BY <1>1, SubsetInduction
<1> QED BY <1>0, <1>2 DEF G

\* A sum of zeros and ones counts the ones.
LEMMA SumOfBits ==
  ASSUME NEW f, NEW S, IsFiniteSet(S), \A x \in S : f[x] \in {0, 1}
  PROVE  SumFunctionOnSet(f, S) = Cardinality({ x \in S : f[x] = 1 })
<1> DEFINE Ones(s) == { x \in s : f[x] = 1 }
           G == { s \in SUBSET S : SumFunctionOnSet(f, s) = Cardinality(Ones(s)) }
<1>1. ASSUME NEW s \in SUBSET S, \A x \in s : s \ {x} \in G PROVE s \in G
  <2>1. IsFiniteSet(s)
    BY FS_Subset
  <2>2. CASE s = {}
    <3>1. Ones(s) = {}
      BY <2>2
    <3> QED BY <2>2, <3>1, SumEmpty, FS_EmptySet
  <2>3. CASE s # {}
    <3>1. PICK x : x \in s
      BY <2>3
    <3>2. SumFunctionOnSet(f, s \ {x}) = Cardinality(Ones(s \ {x}))
      BY <1>1, <3>1
    <3>3. \A y \in s : f[y] \in Int
      OBVIOUS
    <3>4. SumFunctionOnSet(f, s) = f[x] + SumFunctionOnSet(f, s \ {x})
      BY <2>1, <3>1, <3>3, SumRemove
    <3>5. IsFiniteSet(Ones(s)) /\ Ones(s \ {x}) = Ones(s) \ {x}
      BY <2>1, FS_Subset
    <3>6. Cardinality(Ones(s)) \in Nat
      BY <3>5, FS_CardinalityType
    <3>7. Cardinality(Ones(s) \ {x}) = IF x \in Ones(s) THEN Cardinality(Ones(s)) - 1
                                                       ELSE Cardinality(Ones(s))
      BY <3>5, FS_RemoveElement
    <3>8. f[x] = IF x \in Ones(s) THEN 1 ELSE 0
      BY <3>1
    <3>9. Cardinality(Ones(s \ {x})) = IF x \in Ones(s) THEN Cardinality(Ones(s)) - 1
                                                       ELSE Cardinality(Ones(s))
      BY <3>5, <3>7
    <3> HIDE DEF Ones
    <3>10. SumFunctionOnSet(f, s) = Cardinality(Ones(s))
      BY <3>2, <3>4, <3>6, <3>8, <3>9
    <3> QED BY <3>10
  <2> QED BY <2>2, <2>3
<1> HIDE DEF G
<1>2. S \in G
  BY <1>1, SubsetInduction
<1> QED BY <1>2 DEF G

\* Adding block by block.
LEMMA SumByBlocks ==
  ASSUME NEW f, NEW S, IsFiniteSet(S), \A x \in S : f[x] \in Int,
         NEW D, IsFiniteSet(D), NEW key, \A x \in S : key[x] \in D
  PROVE  SumFunctionOnSet(f, S)
           = SumFunctionOnSet([d \in D |-> SumFunctionOnSet(f, { x \in S : key[x] = d })], D)
<1> DEFINE Block(s, d) == { x \in s : key[x] = d }
           By(s) == [d \in D |-> SumFunctionOnSet(f, Block(s, d))]
           G == { s \in SUBSET S : SumFunctionOnSet(f, s) = SumFunctionOnSet(By(s), D) }
<1>0. ASSUME NEW s \in SUBSET S
      PROVE  /\ IsFiniteSet(s)
             /\ \A x \in s : f[x] \in Int
             /\ \A d \in D : IsFiniteSet(Block(s, d)) /\ By(s)[d] \in Int
  <2>1. IsFiniteSet(s)
    BY FS_Subset
  <2>2. ASSUME NEW d \in D PROVE IsFiniteSet(Block(s, d)) /\ By(s)[d] \in Int
    <3>1. IsFiniteSet(Block(s, d))
      BY <2>1, FS_Subset
    <3>2. \A x \in Block(s, d) : f[x] \in Int
      OBVIOUS
    <3> HIDE DEF Block
    <3>3. SumFunctionOnSet(f, Block(s, d)) \in Int
      BY <3>1, <3>2, SumType
    <3> QED BY <3>1, <3>3
  <2> QED BY <2>1, <2>2
<1>1. ASSUME NEW s \in SUBSET S, \A x \in s : s \ {x} \in G PROVE s \in G
  <2>1. IsFiniteSet(s)
    BY <1>0
  <2>2. CASE s = {}
    <3>1. ASSUME NEW d \in D PROVE By(s)[d] = 0
      <4>1. Block(s, d) = {}
        BY <2>2
      <4> QED BY <4>1, SumEmpty
    <3> DEFINE zero == [d \in D |-> 0]
    <3>2. SumFunctionOnSet(By(s), D) = SumFunctionOnSet(zero, D)
      <4>1. \A d \in D : By(s)[d] = zero[d]
        BY <3>1
      <4> HIDE DEF By, zero
      <4> QED BY <4>1, SumEqual
    <3>3. SumFunctionOnSet(zero, D) = 0
      <4>1. \A d \in D : zero[d] \in {0, 1}
        OBVIOUS
      <4>2. { d \in D : zero[d] = 1 } = {}
        OBVIOUS
      <4> HIDE DEF zero
      <4>3. SumFunctionOnSet(zero, D) = Cardinality({ d \in D : zero[d] = 1 })
        BY <4>1, SumOfBits
      <4> QED BY <4>2, <4>3, FS_EmptySet
    <3> HIDE DEF zero, By
    <3> QED BY <2>2, <3>2, <3>3, SumEmpty
  <2>3. CASE s # {}
    <3>1. PICK x : x \in s
      BY <2>3
    <3> DEFINE r == s \ {x}
               k == key[x]
    <3>2. SumFunctionOnSet(f, r) = SumFunctionOnSet(By(r), D)
      BY <1>1, <3>1
    <3>3. r \in SUBSET S /\ k \in D
      BY <3>1
    <3>4. SumFunctionOnSet(f, s) = f[x] + SumFunctionOnSet(f, r)
      BY <1>0, <2>1, <3>1, SumRemove
    <3>5. ASSUME NEW d \in D \ {k} PROVE By(s)[d] = By(r)[d]
      <4>1. Block(s, d) = Block(r, d)
        OBVIOUS
      <4> QED BY <4>1
    <3>6. By(s)[k] = f[x] + By(r)[k]
      <4>1. Block(r, k) = Block(s, k) \ {x} /\ x \in Block(s, k)
        BY <3>1
      <4>2. IsFiniteSet(Block(s, k)) /\ \A y \in Block(s, k) : f[y] \in Int
        BY <1>0, <3>3
      <4> HIDE DEF Block
      <4>3. SumFunctionOnSet(f, Block(s, k)) = f[x] + SumFunctionOnSet(f, Block(s, k) \ {x})
        BY <4>1, <4>2, SumRemove
      <4> QED BY <3>3, <4>1, <4>3
    <3>7. /\ \A d \in D : By(s)[d] \in Int
          /\ \A d \in D : By(r)[d] \in Int
      BY <1>0, <3>3
    <3>8. f[x] \in Int
      BY <3>1
    <3> HIDE DEF By, r, k
    <3>9. /\ SumFunctionOnSet(By(s), D) = By(s)[k] + SumFunctionOnSet(By(s), D \ {k})
          /\ SumFunctionOnSet(By(r), D) = By(r)[k] + SumFunctionOnSet(By(r), D \ {k})
      BY <3>3, <3>7, SumRemove
    <3>10. IsFiniteSet(D \ {k})
      BY FS_Subset
    <3>11. SumFunctionOnSet(By(s), D \ {k}) = SumFunctionOnSet(By(r), D \ {k})
      BY <3>5, <3>10, SumEqual
    <3>12. SumFunctionOnSet(By(r), D \ {k}) \in Int
      BY <3>7, <3>10, SumType
    <3>13. By(r)[k] \in Int
      BY <3>3, <3>7
    <3>14. SumFunctionOnSet(f, s) = SumFunctionOnSet(By(s), D)
      BY <3>2, <3>4, <3>6, <3>8, <3>9, <3>11, <3>12, <3>13
    <3> QED BY <3>14
  <2> QED BY <2>2, <2>3
<1> HIDE DEF G, By
<1>2. S \in G
  BY <1>1, SubsetInduction
<1>3. SumFunctionOnSet(f, S) = SumFunctionOnSet(By(S), D)
  BY <1>2 DEF G
<1> QED BY <1>3 DEF By

(***************************************************************************)
(* The hard constraints.                                                   *)
(***************************************************************************)
\* What the proofs use of a problem (its Contract says more) and of an assignment
\* of its variables.
Instance(p, X) ==
  /\ \A e \in Events(p) : \A c \in p.event[e].cands : c.atoms \subseteq p.atoms
  /\ DOMAIN p.lock \subseteq Events(p)
  /\ Events(p) \subseteq Int
  /\ X \subseteq Choice(p)

\* The rules the encoding states, as the validator checks them.
Accepted(p, X) ==
  /\ SelectionViolations(p, X) = {}
  /\ LockViolations(p, Resolved(p, X)) = {}
  /\ Conflicts(p, Resolved(p, X)) = {}

LEMMA ChoiceMember ==
  ASSUME NEW p, NEW x \in Choice(p)
  PROVE  /\ x[1] \in Events(p)
         /\ x[2] \in p.event[x[1]].cands
         /\ x = <<x[1], x[2]>>
BY DEF Choice

\* ExactlyOne makes Resolved a total function, and X its graph.
LEMMA ResolvedGraph ==
  ASSUME NEW p, NEW X, Instance(p, X), ExactlyOne(p, X)
  PROVE  /\ DOMAIN Resolved(p, X) = Events(p)
         /\ \A e \in Events(p) : /\ Chosen(X, e) = {<<e, Resolved(p, X)[e]>>}
                                 /\ Resolved(p, X)[e] \in p.event[e].cands
                                 /\ <<e, Resolved(p, X)[e]>> \in X
         /\ \A x \in X : x[1] \in Events(p) /\ x[2] = Resolved(p, X)[x[1]]
<1> DEFINE D == { f \in Events(p) : \E c \in p.event[f].cands : Chosen(X, f) = {<<f, c>>} }
<1>1. D = Events(p)
  BY DEF ExactlyOne, Chosen
<1>2. DOMAIN Resolved(p, X) = Events(p)
  BY <1>1 DEF Resolved
<1>3. ASSUME NEW e \in Events(p)
      PROVE  /\ Chosen(X, e) = {<<e, Resolved(p, X)[e]>>}
             /\ Resolved(p, X)[e] \in p.event[e].cands
  <2>1. \E c \in p.event[e].cands : Chosen(X, e) = {<<e, c>>}
    BY DEF ExactlyOne, Chosen
  <2>2. Resolved(p, X)[e] = CHOOSE c \in p.event[e].cands : Chosen(X, e) = {<<e, c>>}
    BY <1>1 DEF Resolved
  <2> QED BY <2>1, <2>2
<1>4. ASSUME NEW e \in Events(p) PROVE <<e, Resolved(p, X)[e]>> \in X
  BY <1>3 DEF Chosen
<1>5. ASSUME NEW x \in X PROVE x[1] \in Events(p) /\ x[2] = Resolved(p, X)[x[1]]
  <2>1. x \in Choice(p)
    BY DEF Instance
  <2>2. x[1] \in Events(p) /\ x = <<x[1], x[2]>>
    BY <2>1, ChoiceMember
  <2>3. x \in Chosen(X, x[1])
    BY DEF Chosen
  <2>4. x = <<x[1], Resolved(p, X)[x[1]]>>
    BY <1>3, <2>2, <2>3
  <2> QED BY <2>2, <2>4
<1> QED BY <1>2, <1>3, <1>4, <1>5

\* One candidate for every event is what the validator asks of a selection.
LEMMA ExactlyOneIsSelection ==
  ASSUME NEW p, NEW X, Instance(p, X)
  PROVE  /\ ExactlyOne(p, X) => SelectionViolations(p, X) = {}
         /\ IsFiniteSet(X) /\ SelectionViolations(p, X) = {} => ExactlyOne(p, X)
<1>1. ASSUME ExactlyOne(p, X) PROVE SelectionViolations(p, X) = {}
  <2>1. ASSUME NEW x \in X PROVE x[1] \in Events(p)
    BY <1>1, ResolvedGraph
  <2>2. ASSUME NEW e \in Events(p)
        PROVE  \E c \in p.event[e].cands : Chosen(X, e) = {<<e, c>>}
    BY <1>1 DEF ExactlyOne, Chosen
  <2>3. ASSUME NEW e \in Events(p) PROVE ~(Cardinality(Chosen(X, e)) > 1)
    <3>1. PICK c \in p.event[e].cands : Chosen(X, e) = {<<e, c>>}
      BY <2>2
    <3>2. Cardinality(Chosen(X, e)) = 1
      BY <3>1, FS_Singleton
    <3> QED BY <3>2
  <2>4. ASSUME NEW e \in Events(p),
               \E c \in { x[2] : x \in Chosen(X, e) } :
                 Chosen(X, e) = {<<e, c>>} /\ c \notin p.event[e].cands
        PROVE FALSE
    BY <2>2, <2>4
  <2>5. ASSUME NEW e \in Events(p) PROVE Chosen(X, e) # {}
    BY <2>2
  <2> QED BY <2>1, <2>3, <2>4, <2>5 DEF SelectionViolations
<1>2. ASSUME IsFiniteSet(X), SelectionViolations(p, X) = {} PROVE ExactlyOne(p, X)
  <2> SUFFICES ASSUME NEW e \in Events(p)
               PROVE  \E c \in p.event[e].cands : { x \in X : x[1] = e } = {<<e, c>>}
    BY DEF ExactlyOne
  <2>1. Chosen(X, e) # {}
    <3>1. SUFFICES ASSUME Chosen(X, e) = {} PROVE FALSE
      OBVIOUS
    <3>2. <<"missing", None, <<e>>>> \in
             { <<"missing", None, <<g>>>> : g \in { f \in Events(p) : Chosen(X, f) = {} } }
      BY <3>1
    <3> QED BY <1>2, <3>2 DEF SelectionViolations
  <2>2. ~(Cardinality(Chosen(X, e)) > 1)
    <3>1. SUFFICES ASSUME Cardinality(Chosen(X, e)) > 1 PROVE FALSE
      OBVIOUS
    <3>2. <<"duplicate", None, <<e>>>> \in
             { <<"duplicate", None, <<g>>>> :
                 g \in { f \in Events(p) : Cardinality(Chosen(X, f)) > 1 } }
      BY <3>1
    <3> QED BY <1>2, <3>2 DEF SelectionViolations
  <2>3. IsFiniteSet(Chosen(X, e))
    BY <1>2, FS_Subset DEF Chosen
  <2>4. Cardinality(Chosen(X, e)) = 1
    <3>1. Cardinality(Chosen(X, e)) \in Nat
      BY <2>3, FS_CardinalityType
    <3>2. Cardinality(Chosen(X, e)) # 0
      BY <2>1, <2>3, FS_EmptySet
    <3> QED BY <2>2, <3>1, <3>2
  <2>5. PICK x : Chosen(X, e) = {x}
    BY <2>3, <2>4, FS_Singleton
  <2>6. x \in Choice(p) /\ x[1] = e
    BY <2>5 DEF Chosen, Instance
  <2>7. x[2] \in p.event[e].cands /\ x = <<e, x[2]>>
    BY <2>6, ChoiceMember
  <2> QED BY <2>5, <2>7 DEF Chosen
<1> QED BY <1>1, <1>2

LEMMA LocksSetIsLocks ==
  ASSUME NEW p, NEW X, Instance(p, X), ExactlyOne(p, X)
  PROVE  LocksSet(p, X) <=> LockViolations(p, Resolved(p, X)) = {}
<1> DEFINE s == Resolved(p, X)
<1>1. DOMAIN s = Events(p) /\ DOMAIN p.lock \subseteq Events(p)
  BY ResolvedGraph DEF Instance
<1>2. ASSUME NEW e \in DOMAIN p.lock
      PROVE  <<e, p.lock[e]>> \in X <=> s[e] = p.lock[e]
  <2>1. e \in Events(p)
    BY <1>1
  <2>2. <<e, s[e]>> \in X
    BY <2>1, ResolvedGraph
  <2>3. ASSUME <<e, p.lock[e]>> \in X PROVE s[e] = p.lock[e]
    <3>1. <<e, p.lock[e]>>[2] = s[<<e, p.lock[e]>>[1]]
      BY <2>3, ResolvedGraph
    <3> QED BY <3>1
  <2> QED BY <2>2, <2>3
<1> HIDE DEF s
<1>3. LocksSet(p, X) <=> \A e \in DOMAIN p.lock : s[e] = p.lock[e]
  BY <1>2 DEF LocksSet
<1>4. LockViolations(p, s) = {} <=> \A e \in DOMAIN p.lock : s[e] = p.lock[e]
  BY <1>1 DEF LockViolations
<1> QED BY <1>3, <1>4 DEF s

\* Two members of one bucket that are both chosen are two events that use the
\* bucket's resource at its atom.
LEMMA BucketUsers ==
  ASSUME NEW p, NEW X, Instance(p, X), ExactlyOne(p, X), NEW r, NEW a, NEW e
  PROVE  e \in Users(p, Resolved(p, X), r, a) <=>
           /\ e \in Events(p)
           /\ <<e, Resolved(p, X)[e]>> \in X \cap ResourceBucket(p, r, a)
<1>1. DOMAIN Resolved(p, X) = Events(p)
  BY ResolvedGraph
<1>2. ASSUME e \in Events(p)
      PROVE  <<e, Resolved(p, X)[e]>> \in X /\ <<e, Resolved(p, X)[e]>> \in Choice(p)
  BY <1>2, ResolvedGraph DEF Instance
<1> QED BY <1>1, <1>2 DEF Users, ResourceBucket

\* At most one of each resource bucket is no conflict on any resource.
LEMMA ResourcesFreeIsNoConflict ==
  ASSUME NEW p, NEW X, Instance(p, X), ExactlyOne(p, X)
  PROVE  ResourcesFree(p, X) <=> ResourceConflicts(p, Resolved(p, X)) = {}
<1> DEFINE s == Resolved(p, X)
           Known == UNION { Resources(p, e, s[e]) : e \in DOMAIN s }
           Modelled == UNION { Resources(p, x[1], x[2]) : x \in Choice(p) }
<1>0. DOMAIN s = Events(p)
  BY ResolvedGraph
<1>1. ASSUME ResourcesFree(p, X), NEW r \in Known, NEW a \in p.atoms
      PROVE  OrderedPairs(Users(p, s, r, a)) = {}
  <2> SUFFICES ASSUME NEW y \in OrderedPairs(Users(p, s, r, a)) PROVE FALSE
    OBVIOUS
  <2>1. y[1] \in Users(p, s, r, a) /\ y[2] \in Users(p, s, r, a) /\ y[1] < y[2]
    BY DEF OrderedPairs
  <2>2. /\ y[1] \in Events(p) /\ <<y[1], s[y[1]]>> \in X \cap ResourceBucket(p, r, a)
        /\ y[2] \in Events(p) /\ <<y[2], s[y[2]]>> \in X \cap ResourceBucket(p, r, a)
    BY <2>1, BucketUsers
  <2>3. r \in Modelled
    <3>1. <<y[1], s[y[1]]>> \in Choice(p) /\ r \in Resources(p, y[1], s[y[1]])
      BY <2>2 DEF ResourceBucket
    <3>2. r \in Resources(p, <<y[1], s[y[1]]>>[1], <<y[1], s[y[1]]>>[2])
      BY <3>1
    <3> QED BY <3>1, <3>2
  <2>4. AtMostOne(X, ResourceBucket(p, r, a))
    BY <1>1, <2>3 DEF ResourcesFree
  <2>5. <<y[1], s[y[1]]>> = <<y[2], s[y[2]]>>
    BY <2>2, <2>4 DEF AtMostOne
  <2>6. y[1] \in Int /\ y[2] \in Int
    BY <2>2 DEF Instance
  <2> QED BY <2>1, <2>5, <2>6
<1>2. ASSUME \A r \in Known, a \in p.atoms : OrderedPairs(Users(p, s, r, a)) = {},
             NEW r \in Modelled, NEW a \in p.atoms,
             NEW x \in X \cap ResourceBucket(p, r, a), NEW y \in X \cap ResourceBucket(p, r, a)
      PROVE  x = y
  <2>1. /\ x[1] \in Events(p) /\ x = <<x[1], s[x[1]]>>
        /\ y[1] \in Events(p) /\ y = <<y[1], s[y[1]]>>
    <3>1. x \in Choice(p) /\ y \in Choice(p)
      BY DEF ResourceBucket
    <3>2. x[2] = s[x[1]] /\ y[2] = s[y[1]]
      BY ResolvedGraph
    <3> QED BY <3>1, <3>2, ChoiceMember
  <2>2. x[1] \in Users(p, s, r, a) /\ y[1] \in Users(p, s, r, a)
    BY <2>1, BucketUsers
  <2>3. r \in Known
    BY <2>2 DEF Users
  <2>4. ASSUME NEW e \in Users(p, s, r, a), NEW f \in Users(p, s, r, a) PROVE ~(e < f)
    <3>1. ASSUME e < f PROVE <<e, f>> \in OrderedPairs(Users(p, s, r, a))
      BY <3>1 DEF OrderedPairs
    <3> QED BY <1>2, <2>3, <3>1
  <2>5. x[1] \in Int /\ y[1] \in Int
    BY <2>1 DEF Instance
  <2>6. x[1] = y[1]
    BY <2>2, <2>4, <2>5
  <2> QED BY <2>1, <2>6
<1>3. ResourceConflicts(p, s) = {} <=>
        \A r \in Known, a \in p.atoms : OrderedPairs(Users(p, s, r, a)) = {}
  <2>1. ASSUME ResourceConflicts(p, s) = {}, NEW r \in Known, NEW a \in p.atoms,
               NEW y \in OrderedPairs(Users(p, s, r, a))
        PROVE  FALSE
    <3>1. <<"conflict", r, y>> \in
            { <<"conflict", r, pair>> : pair \in OrderedPairs(Users(p, s, r, a)) }
      OBVIOUS
    <3> DEFINE V(q, b) == { <<"conflict", q, pair>> : pair \in OrderedPairs(Users(p, s, q, b)) }
    <3>2. ResourceConflicts(p, s) = UNION { V(q, b) : q \in Known, b \in p.atoms }
      BY DEF ResourceConflicts
    <3>3. <<"conflict", r, y>> \in V(r, a)
      BY <3>1
    <3> HIDE DEF V, Known, s
    <3>4. V(r, a) \in { V(q, b) : q \in Known, b \in p.atoms }
      OBVIOUS
    <3>5. <<"conflict", r, y>> \in UNION { V(q, b) : q \in Known, b \in p.atoms }
      BY <3>3, <3>4
    <3> QED BY <2>1, <3>2, <3>5
  <2>2. ASSUME \A r \in Known, a \in p.atoms : OrderedPairs(Users(p, s, r, a)) = {}
        PROVE  ResourceConflicts(p, s) = {}
    BY <2>2 DEF ResourceConflicts
  <2> QED BY <2>1, <2>2
<1> HIDE DEF s, Known
<1>4. ResourcesFree(p, X) <=> \A r \in Modelled, a \in p.atoms :
        \A x, y \in X \cap ResourceBucket(p, r, a) : x = y
  BY DEF ResourcesFree, AtMostOne
<1> HIDE DEF Modelled
<1>5. ASSUME ResourcesFree(p, X) PROVE ResourceConflicts(p, s) = {}
  BY <1>1, <1>3, <1>5
<1>6. ASSUME ResourceConflicts(p, s) = {} PROVE ResourcesFree(p, X)
  BY <1>2, <1>3, <1>4, <1>6
<1> QED BY <1>5, <1>6 DEF s

\* At most one of each group and day is no distinct-day conflict.  The day of a
\* candidate is one of the problem's days by the contract.
LEMMA DaysDistinctIsNoConflict ==
  ASSUME NEW p, NEW X, Instance(p, X), ExactlyOne(p, X)
  PROVE  DaysDistinct(p, X) <=> DistinctDayConflicts(p, Resolved(p, X)) = {}
<1> DEFINE s == Resolved(p, X)
           V(g, d) == { <<"distinct_day", g, pair>> : pair \in OrderedPairs(GroupMates(p, s, g, d)) }
<1>0. DOMAIN s = Events(p)
  BY ResolvedGraph
<1>1. ASSUME NEW g, NEW d, NEW e
      PROVE  e \in GroupMates(p, s, g, d) <=>
               e \in Events(p) /\ <<e, s[e]>> \in X \cap DistinctDayBucket(p, g, d)
  <2>1. ASSUME e \in Events(p)
        PROVE  <<e, s[e]>> \in X /\ <<e, s[e]>> \in Choice(p)
    BY <2>1, ResolvedGraph DEF Instance
  <2> QED BY <1>0, <2>1 DEF GroupMates, DistinctDayBucket
<1>2. ASSUME NEW g, NEW d, AtMostOne(X, DistinctDayBucket(p, g, d)),
             NEW y \in OrderedPairs(GroupMates(p, s, g, d))
      PROVE  FALSE
  <2>1. y[1] \in GroupMates(p, s, g, d) /\ y[2] \in GroupMates(p, s, g, d) /\ y[1] < y[2]
    BY DEF OrderedPairs
  <2>2. <<y[1], s[y[1]]>> = <<y[2], s[y[2]]>>
    BY <1>1, <1>2, <2>1 DEF AtMostOne
  <2>3. y[1] \in Int /\ y[2] \in Int
    BY <1>1, <2>1 DEF Instance
  <2> QED BY <2>1, <2>2, <2>3
<1>3. ASSUME NEW g, NEW d, OrderedPairs(GroupMates(p, s, g, d)) = {}
      PROVE  AtMostOne(X, DistinctDayBucket(p, g, d))
  <2> SUFFICES ASSUME NEW x \in X \cap DistinctDayBucket(p, g, d),
                      NEW y \in X \cap DistinctDayBucket(p, g, d)
               PROVE  x = y
    BY DEF AtMostOne
  <2>1. /\ x[1] \in Events(p) /\ x = <<x[1], s[x[1]]>>
        /\ y[1] \in Events(p) /\ y = <<y[1], s[y[1]]>>
    <3>1. x \in Choice(p) /\ y \in Choice(p)
      BY DEF DistinctDayBucket
    <3>2. x[2] = s[x[1]] /\ y[2] = s[y[1]]
      BY ResolvedGraph
    <3> QED BY <3>1, <3>2, ChoiceMember
  <2>2. x[1] \in GroupMates(p, s, g, d) /\ y[1] \in GroupMates(p, s, g, d)
    BY <1>1, <2>1
  <2>3. ASSUME NEW e \in GroupMates(p, s, g, d), NEW f \in GroupMates(p, s, g, d)
        PROVE  ~(e < f)
    <3>1. ASSUME e < f PROVE <<e, f>> \in OrderedPairs(GroupMates(p, s, g, d))
      BY <3>1 DEF OrderedPairs
    <3> QED BY <1>3, <3>1
  <2>4. x[1] \in Int /\ y[1] \in Int
    BY <2>1 DEF Instance
  <2>5. x[1] = y[1]
    BY <2>2, <2>3, <2>4
  <2> QED BY <2>1, <2>5
<1>4. DistinctDayConflicts(p, s) = UNION { V(g, d) : g \in Groups(p), d \in Days(p) }
  BY DEF DistinctDayConflicts
<1>5. ASSUME DaysDistinct(p, X) PROVE DistinctDayConflicts(p, s) = {}
  <2>1. ASSUME NEW g \in Groups(p), NEW d \in Days(p) PROVE V(g, d) = {}
    BY <1>2, <1>5 DEF DaysDistinct
  <2> HIDE DEF V, s
  <2> QED BY <1>4, <2>1
<1>6. ASSUME DistinctDayConflicts(p, s) = {} PROVE DaysDistinct(p, X)
  <2> SUFFICES ASSUME NEW g \in Groups(p), NEW d \in Days(p)
               PROVE  AtMostOne(X, DistinctDayBucket(p, g, d))
    BY DEF DaysDistinct
  <2>1. V(g, d) = {}
    <3> HIDE DEF V, s
    <3>1. V(g, d) \in { V(h, b) : h \in Groups(p), b \in Days(p) }
      OBVIOUS
    <3> QED BY <1>4, <1>6, <3>1
  <2>2. OrderedPairs(GroupMates(p, s, g, d)) = {}
    BY <2>1
  <2> QED BY <1>3, <2>2
<1> QED BY <1>5, <1>6

LEMMA ConstraintsAreAccepted ==
  ASSUME NEW p, NEW X, Instance(p, X)
  PROVE  /\ HardConstraints(p, X) => Accepted(p, X)
         /\ IsFiniteSet(X) /\ Accepted(p, X) => HardConstraints(p, X)
<1>1. ASSUME ExactlyOne(p, X)
      PROVE  /\ LocksSet(p, X) <=> LockViolations(p, Resolved(p, X)) = {}
             /\ ResourcesFree(p, X) <=> ResourceConflicts(p, Resolved(p, X)) = {}
             /\ DaysDistinct(p, X) <=> DistinctDayConflicts(p, Resolved(p, X)) = {}
  BY <1>1, LocksSetIsLocks, ResourcesFreeIsNoConflict, DaysDistinctIsNoConflict
<1>2. Conflicts(p, Resolved(p, X)) = {} <=>
        /\ ResourceConflicts(p, Resolved(p, X)) = {}
        /\ DistinctDayConflicts(p, Resolved(p, X)) = {}
  BY DEF Conflicts
<1> QED BY <1>1, <1>2, ExactlyOneIsSelection DEF HardConstraints, Accepted

\* The hard part of the Boolean model admits exactly the selections in which the
\* validator finds no missing, duplicate or foreign choice, no broken lock and no
\* conflict of rooms, instructors, sections or days.  (That each candidate is
\* legal on its own is the builder's business: CandidatesAreExact.)
THEOREM EncodingIsExact ==
  ASSUME NEW p, NEW X, Instance(p, X), IsFiniteSet(X)
  PROVE  HardConstraints(p, X) <=> Accepted(p, X)
BY ConstraintsAreAccepted

\* When the candidates are legal on their own, the validator accepts every
\* solution of the model, so CpSatSolver.solve has no cause to reject one, and
\* every selection it accepts satisfies the hard constraints.
THEOREM SolutionsAreFeasible ==
  ASSUME NEW p, NEW X, Instance(p, X),
         \A e \in Events(p) : \A c \in p.event[e].cands : LocalFaults(p, e, c) = {}
  PROVE  /\ HardConstraints(p, X) => Feasible(p, X)
         /\ IsFiniteSet(X) /\ Feasible(p, X) => HardConstraints(p, X)
<1> DEFINE s == Resolved(p, X)
<1>1. ASSUME ExactlyOne(p, X) PROVE LocalViolations(p, s) = {}
  <2>1. ASSUME NEW e \in DOMAIN s PROVE LocalFaults(p, e, s[e]) = {}
    BY <1>1, ResolvedGraph
  <2> HIDE DEF s
  <2> QED BY <2>1 DEF LocalViolations
<1>2. Feasible(p, X) <=> Accepted(p, X) /\ LocalViolations(p, s) = {}
  BY DEF Feasible, Violations, Accepted
<1>3. ASSUME HardConstraints(p, X) PROVE ExactlyOne(p, X)
  BY <1>3 DEF HardConstraints
<1> QED BY <1>1, <1>2, <1>3, ConstraintsAreAccepted

\* The occupancy variables of the gap objective never cut off a schedule that the
\* hard constraints admit: the sum each is set equal to is 0 or 1.
THEOREM OccupancyAlwaysFits ==
  ASSUME NEW p, NEW X, Instance(p, X), HardConstraints(p, X),
         NEW kind \in {"section", "instructor"}
  PROVE  OccupancyFits(p, X, kind)
<1> SUFFICES ASSUME NEW r \in HeldBy(p, kind), NEW a \in p.atoms
             PROVE  Cardinality(Covering(p, X, kind, r, a[1], a[2])) <= 1
  BY DEF OccupancyFits
<1> DEFINE C == Covering(p, X, kind, r, a[1], a[2])
           b == <<a[1], a[2]>>
<1>1. ASSUME NEW x \in C, NEW y \in C PROVE x = y
  <2>1. /\ x \in X /\ r \in Held(p, kind, x[1]) /\ b \in x[2].atoms
        /\ y \in X /\ r \in Held(p, kind, y[1]) /\ b \in y[2].atoms
    BY DEF Covering
  <2>2. x \in Choice(p) /\ y \in Choice(p)
    BY <2>1 DEF Instance
  <2>3. <<kind, r>> \in Resources(p, x[1], x[2]) /\ <<kind, r>> \in Resources(p, y[1], y[2])
    BY <2>1 DEF Resources, Held
  <2>4. b \in p.atoms
    <3>1. x[1] \in Events(p) /\ x[2] \in p.event[x[1]].cands
      BY <2>2, ChoiceMember
    <3>2. x[2].atoms \subseteq p.atoms
      BY <3>1 DEF Instance
    <3> QED BY <2>1, <3>2
  <2>5. AtMostOne(X, ResourceBucket(p, <<kind, r>>, b))
    BY <2>2, <2>3, <2>4 DEF HardConstraints, ResourcesFree
  <2>6. x \in ResourceBucket(p, <<kind, r>>, b) /\ y \in ResourceBucket(p, <<kind, r>>, b)
    BY <2>1, <2>2, <2>3 DEF ResourceBucket
  <2> QED BY <2>1, <2>5, <2>6 DEF AtMostOne
<1>2. Cardinality(C) <= 1
  <2> HIDE DEF C
  <2>1. CASE C = {}
    <3>1. Cardinality(C) = 0
      BY <2>1, FS_EmptySet
    <3> QED BY <3>1
  <2>2. CASE C # {}
    <3>1. PICK x : x \in C
      BY <2>2
    <3>2. C = {x}
      BY <1>1, <3>1
    <3>3. Cardinality(C) = 1
      BY <3>2, FS_Singleton
    <3> QED BY <3>3
  <2> QED BY <2>1, <2>2
<1> QED BY <1>2

(***************************************************************************)
(* The objective.                                                          *)
(***************************************************************************)

\* A problem whose parts are finite and whose numbers are numbers, with every
\* candidate as long as its meeting: what the builder makes.
WellFormed(p) ==
  /\ Contract(p)
  /\ IsFiniteSet(p.atoms) /\ \A a \in p.atoms : a = <<a[1], a[2]>> /\ a[2] \in Int
  /\ IsFiniteSet(Events(p)) /\ Events(p) \subseteq Int
  /\ \A e \in Events(p) :
       /\ IsFiniteSet(p.event[e].sections) /\ IsFiniteSet(p.event[e].instructors)
       /\ IsFiniteSet(p.event[e].cands) /\ p.event[e].duration \in Nat
       /\ \A c \in p.event[e].cands : c.penalty \in Int /\ Cardinality(c.atoms) = p.event[e].duration
  /\ p.weight.preference \in Nat /\ p.weight.section \in Nat
  /\ p.weight.instructor \in Nat /\ p.weight.load \in Nat

\* One candidate per event.
Total(p, s) == DOMAIN s = Events(p) /\ \A e \in Events(p) : s[e] \in p.event[e].cands

LEMMA LeastInteger ==
  ASSUME NEW S, IsFiniteSet(S), S \subseteq Int, S # {}
  PROVE  Min(S) \in S /\ \A y \in S : Min(S) <= y
<1> DEFINE Has(s) == s = {} \/ \E x \in s : \A y \in s : x <= y
           G == { s \in SUBSET S : Has(s) }
<1>1. ASSUME NEW s \in SUBSET S, \A x \in s : s \ {x} \in G PROVE s \in G
  <2>1. CASE s = {}
    BY <2>1
  <2>2. CASE s # {}
    <3>1. PICK x : x \in s
      BY <2>2
    <3>2. Has(s \ {x})
      BY <1>1, <3>1
    <3>3. CASE s \ {x} = {}
      BY <3>1, <3>3
    <3>4. CASE s \ {x} # {}
      <4>1. PICK z \in s \ {x} : \A y \in s \ {x} : z <= y
        BY <3>2, <3>4
      <4>2. CASE x <= z
        <5>1. \A y \in s : x <= y
          BY <4>1, <4>2, <3>1
        <5> QED BY <3>1, <5>1
      <4>3. CASE ~(x <= z)
        <5>1. \A y \in s : z <= y
          BY <4>1, <4>3, <3>1
        <5> QED BY <4>1, <5>1
      <4> QED BY <4>2, <4>3
    <3> QED BY <3>3, <3>4
  <2> QED BY <2>1, <2>2
<1> HIDE DEF G
<1>2. S \in G
  BY <1>1, SubsetInduction
<1>3. \E x \in S : \A y \in S : x <= y
  BY <1>2 DEF G
<1> QED BY <1>3 DEF Min

LEMMA GreatestInteger ==
  ASSUME NEW S, IsFiniteSet(S), S \subseteq Int, S # {}
  PROVE  Max(S) \in S /\ \A y \in S : Max(S) >= y
<1> DEFINE Neg == [x \in S |-> -x]
           T == { Neg[x] : x \in S }
<1>1. IsFiniteSet(T)
  BY FiniteImage
<1>2. T \subseteq Int /\ T # {}
  <2>1. PICK x : x \in S
    OBVIOUS
  <2>2. Neg[x] \in T
    BY <2>1
  <2>3. \A y \in S : Neg[y] \in Int
    OBVIOUS
  <2> HIDE DEF Neg
  <2> QED BY <2>2, <2>3
<1>3. Min(T) \in T /\ \A y \in T : Min(T) <= y
  BY <1>1, <1>2, LeastInteger
<1>4. PICK x \in S : Min(T) = -x
  BY <1>3
<1>5. ASSUME NEW y \in S PROVE x >= y
  <2>1. -y \in T
    OBVIOUS
  <2>2. -x <= -y
    BY <1>3, <1>4, <2>1
  <2> QED BY <2>2
<1>6. \E z \in S : \A y \in S : z >= y
  BY <1>5
<1> QED BY <1>6 DEF Max

\* The days and times a candidate covers are those of the problem.
LEMMA CandidateTimes ==
  ASSUME NEW p, WellFormed(p), NEW e \in Events(p), NEW c \in p.event[e].cands
  PROVE  /\ c.atoms \subseteq p.atoms /\ c.atoms # {} /\ IsFiniteSet(c.atoms)
         /\ Day(c) \in Days(p)
         /\ \A a \in c.atoms : a[1] = Day(c) /\ a = <<Day(c), a[2]>> /\ a[2] \in Orders(p, Day(c))
         /\ Cardinality(c.atoms) = p.event[e].duration /\ p.event[e].duration \in Nat \ {0}
<1>1. SameDayRun(p, c) /\ p.event[e].duration > 0
  BY DEF WellFormed, Contract
<1>2. c.atoms \subseteq p.atoms /\ \A a \in c.atoms : a[1] = Day(c)
  BY <1>1 DEF SameDayRun
<1>3. IsFiniteSet(c.atoms)
  BY <1>2, FS_Subset DEF WellFormed
<1>4. Cardinality(c.atoms) = p.event[e].duration /\ p.event[e].duration \in Nat \ {0}
  BY <1>1 DEF WellFormed
<1>5. c.atoms # {}
  BY <1>4, FS_EmptySet
<1>6. PICK a0 : a0 \in c.atoms
  BY <1>5
<1>7. Day(c) \in Days(p)
  <2>1. a0 \in p.atoms /\ Day(c) = a0[1]
    BY <1>2, <1>6
  <2> QED BY <2>1 DEF Days
<1>8. ASSUME NEW a \in c.atoms
      PROVE  a[1] = Day(c) /\ a = <<Day(c), a[2]>> /\ a[2] \in Orders(p, Day(c))
  <2>1. a \in p.atoms /\ a[1] = Day(c)
    BY <1>2
  <2>2. a = <<a[1], a[2]>>
    BY <2>1 DEF WellFormed
  <2> QED BY <2>1, <2>2 DEF Orders
<1> QED BY <1>2, <1>3, <1>4, <1>5, <1>7, <1>8

LEMMA FiniteParts ==
  ASSUME NEW p, WellFormed(p)
  PROVE  /\ IsFiniteSet(Days(p))
         /\ \A d : IsFiniteSet(Orders(p, d)) /\ Orders(p, d) \subseteq Int
         /\ \A kind \in {"section", "instructor"} : IsFiniteSet(HeldBy(p, kind))
<1>1. IsFiniteSet(Days(p))
  <2> DEFINE f == [a \in p.atoms |-> a[1]]
  <2>1. IsFiniteSet({ f[a] : a \in p.atoms })
    BY FiniteImage DEF WellFormed
  <2>2. { f[a] : a \in p.atoms } = Days(p)
    BY DEF Days
  <2> QED BY <2>1, <2>2
<1>2. ASSUME NEW d PROVE IsFiniteSet(Orders(p, d)) /\ Orders(p, d) \subseteq Int
  <2> DEFINE B == { b \in p.atoms : b[1] = d }
             f == [a \in B |-> a[2]]
  <2>1. IsFiniteSet(B)
    BY FS_Subset DEF WellFormed
  <2>2. { f[a] : a \in B } = Orders(p, d)
    BY DEF Orders
  <2>3. IsFiniteSet({ f[a] : a \in B })
    BY <2>1, FiniteImage
  <2>4. Orders(p, d) \subseteq Int
    BY DEF Orders, WellFormed
  <2> HIDE DEF f, B
  <2> QED BY <2>2, <2>3, <2>4
<1>3. ASSUME NEW kind \in {"section", "instructor"} PROVE IsFiniteSet(HeldBy(p, kind))
  <2> DEFINE H == [e \in Events(p) |-> Held(p, kind, e)]
             Q == { H[e] : e \in Events(p) }
  <2>1. IsFiniteSet(Q)
    BY FiniteImage DEF WellFormed
  <2>2. \A q \in Q : IsFiniteSet(q)
    BY DEF Held, WellFormed
  <2>3. IsFiniteSet(UNION Q)
    BY <2>1, <2>2, FS_UNION
  <2>4. UNION Q = HeldBy(p, kind)
    BY DEF HeldBy
  <2> QED BY <2>3, <2>4
<1> QED BY <1>1, <1>2, <1>3

(***************************************************************************)
(* Gaps.                                                                   *)
(***************************************************************************)

\* An occupied time of the scorer is a time that some chosen variable covers.
LEMMA CoveringIsOccupied ==
  ASSUME NEW p, NEW X, WellFormed(p), X \subseteq Choice(p), ExactlyOne(p, X),
         NEW kind \in {"section", "instructor"}, NEW r, NEW d, NEW o
  PROVE  Covering(p, X, kind, r, d, o) # {} <=> o \in Occupied(p, Resolved(p, X), kind, r, d)
<1> DEFINE s == Resolved(p, X)
<1>0. Instance(p, X)
  <2>1. \A e \in Events(p) : \A c \in p.event[e].cands : c.atoms \subseteq p.atoms
    BY CandidateTimes
  <2> QED BY <2>1 DEF Instance, WellFormed, Contract
<1>1. /\ DOMAIN s = Events(p)
      /\ \A e \in Events(p) : s[e] \in p.event[e].cands /\ <<e, s[e]>> \in X
      /\ \A x \in X : x[1] \in Events(p) /\ x[2] = s[x[1]]
  BY <1>0, ResolvedGraph
<1> HIDE DEF s
<1>2. ASSUME NEW x \in X, r \in Held(p, kind, x[1]), <<d, o>> \in x[2].atoms
      PROVE  o \in Occupied(p, s, kind, r, d)
  <2>1. x[1] \in DOMAIN s /\ x[1] \in Events(p) /\ <<d, o>> \in s[x[1]].atoms /\ s[x[1]] \in p.event[x[1]].cands
    BY <1>1, <1>2
  <2>2. <<d, o>>[1] = Day(s[x[1]])
    BY <2>1, CandidateTimes
  <2>3. x[1] \in OnDay(p, s, kind, r, d)
    BY <1>2, <2>1, <2>2 DEF OnDay
  <2>4. o \in { a[2] : a \in s[x[1]].atoms }
    BY <2>1
  <2> QED BY <2>3, <2>4 DEF Occupied
<1>3. ASSUME o \in Occupied(p, s, kind, r, d)
      PROVE  \E x \in X : r \in Held(p, kind, x[1]) /\ <<d, o>> \in x[2].atoms
  <2>1. PICK e \in OnDay(p, s, kind, r, d) : o \in { a[2] : a \in s[e].atoms }
    BY <1>3 DEF Occupied
  <2>2. e \in Events(p) /\ r \in Held(p, kind, e) /\ Day(s[e]) = d /\ s[e] \in p.event[e].cands
    BY <1>1 DEF OnDay
  <2>3. PICK a \in s[e].atoms : o = a[2]
    BY <2>1
  <2>4. a = <<d, o>>
    BY <2>2, <2>3, CandidateTimes
  <2>5. <<e, s[e]>> \in X
    BY <1>1, <2>2
  <2> QED BY <2>2, <2>3, <2>4, <2>5
<1> QED BY <1>2, <1>3 DEF Covering, s

LEMMA OccupiedTimes ==
  ASSUME NEW p, NEW s, WellFormed(p), Total(p, s),
         NEW kind \in {"section", "instructor"}, NEW r, NEW d
  PROVE  /\ Occupied(p, s, kind, r, d) \subseteq Orders(p, d)
         /\ IsFiniteSet(Occupied(p, s, kind, r, d))
<1>1. ASSUME NEW o \in Occupied(p, s, kind, r, d) PROVE o \in Orders(p, d)
  <2>1. PICK e \in OnDay(p, s, kind, r, d) : o \in { a[2] : a \in s[e].atoms }
    BY DEF Occupied
  <2>2. PICK a \in s[e].atoms : o = a[2]
    BY <2>1
  <2>3. e \in Events(p) /\ s[e] \in p.event[e].cands /\ Day(s[e]) = d
    BY DEF OnDay, Total
  <2> QED BY <2>2, <2>3, CandidateTimes
<1>2. IsFiniteSet(Orders(p, d))
  BY FiniteParts
<1> QED BY <1>1, <1>2, FS_Subset

\* A free time is in a gap exactly if there is an occupied one on either side.
LEMMA GapHasTwoSides ==
  ASSUME NEW p, NEW occ, NEW d, IsFiniteSet(Orders(p, d)), Orders(p, d) \subseteq Int,
         occ \subseteq Orders(p, d), NEW o \in Orders(p, d)
  PROVE  o \in InternalGaps(p, occ, d) <=>
           o \notin occ /\ (\E q \in occ : q < o) /\ (\E q \in occ : q > o)
<1>1. IsFiniteSet(occ) /\ occ \subseteq Int /\ o \in Int
  BY FS_Subset
<1>2. ASSUME o \in InternalGaps(p, occ, d)
      PROVE  o \notin occ /\ (\E q \in occ : q < o) /\ (\E q \in occ : q > o)
  <2>1. ~(Cardinality(occ) < 2) /\ o \notin occ /\ Min(occ) <= o /\ o <= Max(occ)
    BY <1>2 DEF InternalGaps
  <2>2. occ # {}
    BY <2>1, FS_EmptySet
  <2>3. Min(occ) \in occ /\ Max(occ) \in occ
    BY <1>1, <2>2, LeastInteger, GreatestInteger
  <2>4. Min(occ) < o /\ Max(occ) > o
    <3>1. Min(occ) \in Int /\ Max(occ) \in Int /\ Min(occ) # o /\ Max(occ) # o
      BY <1>1, <2>1, <2>3
    <3> QED BY <1>1, <2>1, <3>1
  <2> QED BY <2>1, <2>3, <2>4
<1>3. ASSUME o \notin occ, NEW q \in occ, q < o, NEW u \in occ, u > o
      PROVE  o \in InternalGaps(p, occ, d)
  <2>1. ~(Cardinality(occ) < 2)
    <3>1. Cardinality(occ) \in Nat
      BY <1>1, FS_CardinalityType
    <3>2. Cardinality(occ) # 0
      BY <1>1, FS_EmptySet
    <3>3. ASSUME Cardinality(occ) = 1 PROVE FALSE
      <4>1. PICK x : occ = {x}
        BY <1>1, <3>3, FS_Singleton
      <4>2. q = u
        BY <4>1
      <4> QED BY <1>1, <1>3, <4>2
    <3> QED BY <3>1, <3>2, <3>3
  <2>2. /\ Min(occ) \in occ /\ \A y \in occ : Min(occ) <= y
        /\ Max(occ) \in occ /\ \A y \in occ : Max(occ) >= y
    BY <1>1, LeastInteger, GreatestInteger
  <2>3. Min(occ) <= o /\ o <= Max(occ)
    <3>1. Min(occ) \in Int /\ Max(occ) \in Int /\ Min(occ) <= q /\ Max(occ) >= u
      BY <1>1, <2>2
    <3> QED BY <1>1, <1>3, <3>1
  <2> QED BY <1>3, <2>1, <2>3 DEF InternalGaps
<1> QED BY <1>2, <1>3

\* The least admitted value of a gap variable is 1 exactly in a gap.
LEMMA LeastGapBit ==
  ASSUME NEW b \in {0, 1}, NEW f \in {0, 1}, NEW c \in {0, 1}
  PROVE  Min(GapBits(b, f, c)) = IF b = 1 /\ f = 1 /\ c = 0 THEN 1 ELSE 0
<1> DEFINE v == IF b = 1 /\ f = 1 /\ c = 0 THEN 1 ELSE 0
<1>1. \A g \in 0..1 : g \in GapBits(b, f, c) <=> g = v
  <2> SUFFICES ASSUME NEW g \in 0..1 PROVE g \in GapBits(b, f, c) <=> g = v
    OBVIOUS
  <2>1. g \in {0, 1}
    OBVIOUS
  <2> QED BY <2>1 DEF GapBits
<1>2. GapBits(b, f, c) = {v}
  <2>1. v \in 0..1
    OBVIOUS
  <2>2. GapBits(b, f, c) \subseteq 0..1
    BY DEF GapBits
  <2> HIDE DEF v
  <2> QED BY <1>1, <2>1, <2>2
<1>3. Min({v}) = v
  <2> HIDE DEF v
  <2>1. \E x \in {v} : \A y \in {v} : x <= y
    <3>1. v \in Int
      BY DEF v
    <3> QED BY <3>1
  <2> QED BY <2>1 DEF Min
<1> QED BY <1>2, <1>3

LEMMA GapVariableIsGap ==
  ASSUME NEW p, NEW X, WellFormed(p), X \subseteq Choice(p), ExactlyOne(p, X), Total(p, Resolved(p, X)),
         NEW kind \in {"section", "instructor"}, NEW r, NEW a \in p.atoms
  PROVE  Min(GapAt(p, X, kind, r, a[1], a[2]))
           = IF a[2] \in InternalGaps(p, Occupied(p, Resolved(p, X), kind, r, a[1]), a[1]) THEN 1 ELSE 0
<1> DEFINE d == a[1]
           o == a[2]
           occ == Occupied(p, Resolved(p, X), kind, r, d)
           Occ(q) == Covering(p, X, kind, r, d, q) # {}
           before == Bit(\E q \in Orders(p, d) : q < o /\ Occ(q))
           after == Bit(\E q \in Orders(p, d) : q > o /\ Occ(q))
           here == Bit(Occ(o))
<1>1. o \in Orders(p, d)
  BY DEF Orders
<1>2. occ \subseteq Orders(p, d) /\ IsFiniteSet(Orders(p, d)) /\ Orders(p, d) \subseteq Int
  BY OccupiedTimes, FiniteParts
<1>3. \A q : Occ(q) <=> q \in occ
  BY CoveringIsOccupied
<1>4. GapAt(p, X, kind, r, d, o) = GapBits(before, after, here)
  BY DEF GapAt
<1>5. before \in {0, 1} /\ after \in {0, 1} /\ here \in {0, 1}
  BY DEF Bit
<1>6. /\ before = 1 <=> \E q \in occ : q < o
      /\ after = 1 <=> \E q \in occ : q > o
      /\ here = 0 <=> o \notin occ
  <2> HIDE DEF Occ, occ, d, o
  <2>1. (\E q \in Orders(p, d) : q < o /\ Occ(q)) <=> \E q \in occ : q < o
    BY <1>2, <1>3
  <2>2. (\E q \in Orders(p, d) : q > o /\ Occ(q)) <=> \E q \in occ : q > o
    BY <1>2, <1>3
  <2>3. Occ(o) <=> o \in occ
    BY <1>3
  <2> QED BY <2>1, <2>2, <2>3 DEF Bit
<1>7. o \in InternalGaps(p, occ, d) <=>
        o \notin occ /\ (\E q \in occ : q < o) /\ (\E q \in occ : q > o)
  BY <1>1, <1>2, GapHasTwoSides
<1> HIDE DEF before, after, here, occ, d, o
<1>8. Min(GapBits(before, after, here)) = IF before = 1 /\ after = 1 /\ here = 0 THEN 1 ELSE 0
  BY <1>5, LeastGapBit
<1>9. Min(GapAt(p, X, kind, r, d, o)) = IF o \in InternalGaps(p, occ, d) THEN 1 ELSE 0
  BY <1>4, <1>6, <1>7, <1>8
<1> QED BY <1>9 DEF occ, d, o

\* The gap variables of one resource and day count that day's gaps.
LEMMA GapsOfOneDay ==
  ASSUME NEW p, NEW X, WellFormed(p), X \subseteq Choice(p), ExactlyOne(p, X), Total(p, Resolved(p, X)),
         NEW kind \in {"section", "instructor"}, NEW r \in HeldBy(p, kind), NEW d,
         NEW f, f = [x \in GapCells(p, kind) |-> Min(GapAt(p, X, kind, x[1], x[2][1], x[2][2]))],
         NEW B, B = { x \in GapCells(p, kind) : <<x[1], x[2][1]>> = <<r, d>> }, IsFiniteSet(B)
  PROVE  SumFunctionOnSet(f, B)
           = Cardinality(InternalGaps(p, Occupied(p, Resolved(p, X), kind, r, d), d))
<1> DEFINE occ == Occupied(p, Resolved(p, X), kind, r, d)
           gaps == InternalGaps(p, occ, d)
           Ones == { x \in B : f[x] = 1 }
           h == [x \in Ones |-> x[2][2]]
<1>1. ASSUME NEW x \in B
      PROVE  /\ x[2] \in p.atoms /\ x[2] = <<d, x[2][2]>> /\ x = <<r, x[2]>>
             /\ f[x] = IF x[2][2] \in gaps THEN 1 ELSE 0
  <2>1. PICK rr \in HeldBy(p, kind), a \in p.atoms : x = <<rr, a>>
    BY DEF GapCells
  <2>2. x \in GapCells(p, kind) /\ rr = r /\ a[1] = d
    BY <2>1
  <2>3. f[x] = Min(GapAt(p, X, kind, r, a[1], a[2]))
    BY <2>1, <2>2
  <2>4. Min(GapAt(p, X, kind, r, a[1], a[2]))
          = IF a[2] \in InternalGaps(p, Occupied(p, Resolved(p, X), kind, r, a[1]), a[1]) THEN 1 ELSE 0
    BY GapVariableIsGap
  <2>5. a = <<a[1], a[2]>>
    BY DEF WellFormed
  <2>6. f[x] = IF a[2] \in gaps THEN 1 ELSE 0
    BY <2>2, <2>3, <2>4
  <2> HIDE DEF gaps
  <2> QED BY <2>1, <2>2, <2>5, <2>6
<1>2. SumFunctionOnSet(f, B) = Cardinality(Ones)
  <2>1. \A x \in B : f[x] \in {0, 1}
    BY <1>1
  <2> QED BY <2>1, SumOfBits
<1>3. h \in Bijection(Ones, gaps)
  <2>1. \A x \in Ones : h[x] \in gaps
    BY <1>1
  <2>2. \A x, y \in Ones : h[x] = h[y] => x = y
    <3> SUFFICES ASSUME NEW x \in Ones, NEW y \in Ones, h[x] = h[y] PROVE x = y
      OBVIOUS
    <3>1. x[2][2] = y[2][2]
      OBVIOUS
    <3>2. x = <<r, x[2]>> /\ y = <<r, y[2]>> /\ x[2] = <<d, x[2][2]>> /\ y[2] = <<d, y[2][2]>>
      BY <1>1
    <3> QED BY <3>1, <3>2
  <2>3. ASSUME NEW o \in gaps PROVE \E x \in Ones : h[x] = o
    <3>1. o \in Orders(p, d)
      BY DEF InternalGaps
    <3>2. PICK a \in p.atoms : a[1] = d /\ a[2] = o
      BY <3>1 DEF Orders
    <3> DEFINE x == <<r, a>>
    <3>3. x \in GapCells(p, kind)
      BY DEF GapCells
    <3>4. x \in B /\ x[2][2] = o
      BY <3>2, <3>3
    <3>5. f[x] = 1
      BY <1>1, <3>4
    <3>6. x \in Ones /\ h[x] = o
      BY <3>4, <3>5
    <3> QED BY <3>6
  <2> HIDE DEF gaps, Ones
  <2>4. h \in [Ones -> gaps]
    BY <2>1
  <2> QED BY <2>2, <2>3, <2>4 DEF Bijection, Injection, Surjection, IsInjective
<1>4. IsFiniteSet(Ones)
  BY FS_Subset
<1>5. Cardinality(gaps) = Cardinality(Ones)
  <2> HIDE DEF gaps, Ones, h
  <2>1. ExistsBijection(Ones, gaps)
    BY <1>3 DEF ExistsBijection
  <2> QED BY <1>4, <2>1, FS_Bijection
<1> QED BY <1>2, <1>5

\* The encoding's gap term is the scorer's.
LEMMA GapsAgree ==
  ASSUME NEW p, NEW X, WellFormed(p), X \subseteq Choice(p), ExactlyOne(p, X), Total(p, Resolved(p, X)),
         NEW kind \in {"section", "instructor"}
  PROVE  /\ GapExpression(p, X, kind) = GapAtoms(p, Resolved(p, X), kind)
         /\ GapAtoms(p, Resolved(p, X), kind) \in Int
<1> DEFINE s == Resolved(p, X)
           S == GapCells(p, kind)
           D == HeldBy(p, kind) \X Days(p)
           f == [x \in S |-> Min(GapAt(p, X, kind, x[1], x[2][1], x[2][2]))]
           key == [x \in S |-> <<x[1], x[2][1]>>]
           B(k) == { x \in S : key[x] = k }
           By == [k \in D |-> SumFunctionOnSet(f, B(k))]
           gap == [x \in D |-> Cardinality(InternalGaps(p, Occupied(p, s, kind, x[1], x[2]), x[2]))]
<1>1. IsFiniteSet(HeldBy(p, kind)) /\ IsFiniteSet(Days(p)) /\ IsFiniteSet(p.atoms)
  BY FiniteParts DEF WellFormed
<1>2. IsFiniteSet(S) /\ IsFiniteSet(D)
  <2>1. S = HeldBy(p, kind) \X p.atoms
    BY DEF GapCells
  <2> QED BY <1>1, <2>1, FS_Product
<1>3. ASSUME NEW x \in S PROVE f[x] \in Int /\ key[x] \in D
  <2>1. PICK r \in HeldBy(p, kind), a \in p.atoms : x = <<r, a>>
    BY DEF GapCells
  <2>2. f[x] = Min(GapAt(p, X, kind, r, a[1], a[2]))
    BY <2>1
  <2>3. f[x] \in Int
    BY <2>2, GapVariableIsGap
  <2>4. a[1] \in Days(p)
    BY DEF Days
  <2> QED BY <2>1, <2>3, <2>4
<1>4. SumFunctionOnSet(f, S) = SumFunctionOnSet(By, D)
  <2> HIDE DEF S, D, f, key
  <2> QED BY <1>2, <1>3, SumByBlocks
<1>5. ASSUME NEW k \in D PROVE By[k] = gap[k]
  <2>1. PICK r \in HeldBy(p, kind), d \in Days(p) : k = <<r, d>>
    OBVIOUS
  <2>2. B(k) = { x \in S : <<x[1], x[2][1]>> = <<r, d>> }
    BY <2>1
  <2>3. IsFiniteSet(B(k))
    BY <1>2, FS_Subset
  <2>4. SumFunctionOnSet(f, B(k)) = Cardinality(InternalGaps(p, Occupied(p, s, kind, r, d), d))
    <3>1. f = [x \in GapCells(p, kind) |-> Min(GapAt(p, X, kind, x[1], x[2][1], x[2][2]))]
      OBVIOUS
    <3>2. B(k) = { x \in GapCells(p, kind) : <<x[1], x[2][1]>> = <<r, d>> }
      BY <2>2
    <3> HIDE DEF f, B
    <3> QED BY <2>3, <3>1, <3>2, GapsOfOneDay
  <2>5. gap[k] = Cardinality(InternalGaps(p, Occupied(p, s, kind, r, d), d))
    BY <2>1
  <2> QED BY <2>4, <2>5
<1>6. ASSUME NEW k \in D PROVE gap[k] \in Int
  <2> DEFINE g == InternalGaps(p, Occupied(p, s, kind, k[1], k[2]), k[2])
  <2>1. g \subseteq Orders(p, k[2])
    BY DEF InternalGaps
  <2>2. IsFiniteSet(g)
    BY <2>1, FiniteParts, FS_Subset
  <2>3. Cardinality(g) \in Nat
    BY <2>2, FS_CardinalityType
  <2> QED BY <2>3
<1>7. GapExpression(p, X, kind) = SumFunctionOnSet(f, S)
  BY DEF GapExpression, SumFunction
<1>8. GapAtoms(p, s, kind) = SumFunctionOnSet(gap, D)
  BY DEF GapAtoms, SumFunction
<1>9. SumFunctionOnSet(By, D) = SumFunctionOnSet(gap, D)
  <2> HIDE DEF D, By, gap
  <2> QED BY <1>2, <1>5, SumEqual
<1>10. SumFunctionOnSet(gap, D) \in Int
  <2> HIDE DEF D, gap
  <2> QED BY <1>2, <1>6, SumType
<1> HIDE DEF S, D, f, gap, By
<1> QED BY <1>4, <1>7, <1>8, <1>9, <1>10 DEF s

(***************************************************************************)
(* Preferences and loads.                                                  *)
(***************************************************************************)

\* What the lemmas below assume of an assignment of the variables.
Selects(p, X) ==
  WellFormed(p) /\ X \subseteq Choice(p) /\ ExactlyOne(p, X)

LEMMA SelectionIsTotal ==
  ASSUME NEW p, NEW X, Selects(p, X)
  PROVE  /\ Instance(p, X) /\ Total(p, Resolved(p, X))
         /\ \A e \in Events(p) : <<e, Resolved(p, X)[e]>> \in X
         /\ \A x \in X : x[1] \in Events(p) /\ x[2] = Resolved(p, X)[x[1]] /\ x = <<x[1], x[2]>>
<1>1. Instance(p, X)
  <2>1. \A e \in Events(p) : \A c \in p.event[e].cands : c.atoms \subseteq p.atoms
    BY CandidateTimes DEF Selects
  <2> QED BY <2>1 DEF Instance, Selects, WellFormed, Contract
<1>2. \A x \in X : x = <<x[1], x[2]>>
  BY ChoiceMember DEF Selects
<1>3. /\ DOMAIN Resolved(p, X) = Events(p)
      /\ \A e \in Events(p) : Resolved(p, X)[e] \in p.event[e].cands /\ <<e, Resolved(p, X)[e]>> \in X
      /\ \A x \in X : x[1] \in Events(p) /\ x[2] = Resolved(p, X)[x[1]]
  BY <1>1, ResolvedGraph DEF Selects
<1> QED BY <1>1, <1>2, <1>3 DEF Total

\* The events and the variables chosen for them correspond.
LEMMA VariablesOfEvents ==
  ASSUME NEW p, NEW X, Selects(p, X), NEW E, E \subseteq Events(p)
  PROVE  [e \in E |-> <<e, Resolved(p, X)[e]>>] \in Bijection(E, { x \in X : x[1] \in E })
<1> DEFINE s == Resolved(p, X)
           T == { x \in X : x[1] \in E }
           b == [e \in E |-> <<e, s[e]>>]
<1>1. /\ \A e \in Events(p) : <<e, s[e]>> \in X
      /\ \A x \in X : x[1] \in Events(p) /\ x[2] = s[x[1]] /\ x = <<x[1], x[2]>>
  BY SelectionIsTotal
<1> HIDE DEF s
<1>2. \A e \in E : b[e] \in T
  BY <1>1
<1>3. \A e, f \in E : b[e] = b[f] => e = f
  OBVIOUS
<1>4. \A x \in T : x[1] \in E /\ b[x[1]] = x
  BY <1>1
<1>5. b \in [E -> T]
  BY <1>2
<1> HIDE DEF b, T
<1>6. b \in Bijection(E, T)
  BY <1>3, <1>4, <1>5 DEF Bijection, Injection, Surjection, IsInjective
<1> QED BY <1>6 DEF b, T, s

LEMMA PreferencesAgree ==
  ASSUME NEW p, NEW X, Selects(p, X)
  PROVE  /\ SumFunction([x \in X |-> x[2].penalty])
              = SumFunction([e \in DOMAIN Resolved(p, X) |-> Resolved(p, X)[e].penalty])
         /\ SumFunction([x \in X |-> x[2].penalty]) \in Int
<1> DEFINE s == Resolved(p, X)
           f == [e \in DOMAIN s |-> s[e].penalty]
           g == [x \in X |-> x[2].penalty]
           b == [e \in Events(p) |-> <<e, s[e]>>]
           T == { x \in X : x[1] \in Events(p) }
<1>1. DOMAIN s = Events(p) /\ \A e \in Events(p) : s[e] \in p.event[e].cands
  BY SelectionIsTotal DEF Total
<1>2. T = X
  BY SelectionIsTotal
<1>3. b \in Bijection(Events(p), T)
  BY VariablesOfEvents
<1>4. ASSUME NEW e \in Events(p) PROVE f[e] \in Int /\ f[e] = g[b[e]]
  <2>1. f[e] = s[e].penalty /\ f[e] \in Int
    BY <1>1 DEF Selects, WellFormed
  <2>2. b[e] \in X /\ b[e][2] = s[e]
    BY SelectionIsTotal
  <2> QED BY <2>1, <2>2
<1>5. IsFiniteSet(Events(p))
  BY DEF Selects, WellFormed
<1>6. SumFunction(f) = SumFunctionOnSet(f, Events(p)) /\ SumFunction(g) = SumFunctionOnSet(g, X)
  BY <1>1 DEF SumFunction
<1> HIDE DEF f, g, b, T
<1>7. SumFunctionOnSet(f, Events(p)) = SumFunctionOnSet(g, X)
  BY <1>2, <1>3, <1>4, <1>5, SumRenamed
<1>8. SumFunctionOnSet(f, Events(p)) \in Int
  BY <1>4, <1>5, SumType
<1>9. SumFunction(g) = SumFunction(f) /\ SumFunction(g) \in Int
  BY <1>6, <1>7, <1>8
<1> QED BY <1>9 DEF f, g, s

\* One day's load, over the chosen variables and over the events of the day.
Durations(p) == [e \in Events(p) |-> p.event[e].duration]
ChosenLoad(p, X, kind, r, d) ==
  SumFunction([x \in { y \in X : r \in Held(p, kind, y[1]) /\ Day(y[2]) = d } |->
                 p.event[x[1]].duration])

LEMMA DayLoadsAgree ==
  ASSUME NEW p, NEW X, Selects(p, X), NEW kind \in {"section", "instructor"}, NEW r, NEW d
  PROVE  /\ ChosenLoad(p, X, kind, r, d) = DayLoad(p, Resolved(p, X), kind, r, d)
         /\ DayLoad(p, Resolved(p, X), kind, r, d)
              = SumFunctionOnSet(Durations(p), OnDay(p, Resolved(p, X), kind, r, d))
         /\ DayLoad(p, Resolved(p, X), kind, r, d) \in Nat
<1> DEFINE s == Resolved(p, X)
           E == OnDay(p, s, kind, r, d)
           T == { y \in X : r \in Held(p, kind, y[1]) /\ Day(y[2]) = d }
           f == [e \in E |-> Cardinality(s[e].atoms)]
           g == [x \in T |-> p.event[x[1]].duration]
           h == Durations(p)
           b == [e \in E |-> <<e, s[e]>>]
<1>1. /\ DOMAIN s = Events(p)
      /\ \A e \in Events(p) : s[e] \in p.event[e].cands /\ <<e, s[e]>> \in X
      /\ \A x \in X : x[1] \in Events(p) /\ x[2] = s[x[1]] /\ x = <<x[1], x[2]>>
  BY SelectionIsTotal DEF Total
<1>2. E \subseteq Events(p)
  BY <1>1 DEF OnDay
<1>3. T = { x \in X : x[1] \in E }
  BY <1>1 DEF OnDay
<1>4. b \in Bijection(E, T)
  BY <1>2, <1>3, VariablesOfEvents
<1>5. IsFiniteSet(E)
  BY <1>2, FS_Subset DEF Selects, WellFormed
<1>6. ASSUME NEW e \in E
      PROVE  f[e] \in Int /\ f[e] >= 0 /\ f[e] = h[e] /\ f[e] = g[b[e]]
  <2>1. e \in Events(p) /\ s[e] \in p.event[e].cands
    BY <1>1, <1>2
  <2>2. Cardinality(s[e].atoms) = p.event[e].duration /\ p.event[e].duration \in Nat
    BY <2>1 DEF Selects, WellFormed
  <2>3. b[e] \in T /\ b[e][1] = e
    BY <1>1, <1>3, <2>1
  <2> QED BY <2>1, <2>2, <2>3 DEF Durations
<1>7. SumFunction(g) = SumFunctionOnSet(g, T) /\ DayLoad(p, s, kind, r, d) = SumFunctionOnSet(f, E)
  BY DEF SumFunction, DayLoad
<1> HIDE DEF f, g, h, b, E, T
<1>8. SumFunctionOnSet(f, E) = SumFunctionOnSet(g, T)
  BY <1>4, <1>5, <1>6, SumRenamed
<1>9. SumFunctionOnSet(f, E) = SumFunctionOnSet(h, E)
  BY <1>5, <1>6, SumEqual
<1>10. SumFunctionOnSet(f, E) \in Int /\ SumFunctionOnSet(f, E) >= 0
  BY <1>5, <1>6, SumType, SumNonNegative
<1>11. /\ SumFunction(g) = DayLoad(p, s, kind, r, d)
       /\ DayLoad(p, s, kind, r, d) = SumFunctionOnSet(h, E)
       /\ DayLoad(p, s, kind, r, d) \in Nat
  BY <1>7, <1>8, <1>9, <1>10
<1>12. ChosenLoad(p, X, kind, r, d) = SumFunction(g)
  BY DEF ChosenLoad, g, T
<1> QED BY <1>11, <1>12 DEF h, E, s

LEMMA DeviationOfDay ==
  ASSUME NEW p, NEW X, Selects(p, X), NEW kind \in {"section", "instructor"}, NEW r, NEW d
  PROVE  Deviation(p, X, kind, r, d)
           = Abs(Cardinality(Days(p)) * DayLoad(p, Resolved(p, X), kind, r, d) - WeeklyLoad(p, kind, r))
<1>1. Deviation(p, X, kind, r, d)
        = Abs(Cardinality(Days(p)) * ChosenLoad(p, X, kind, r, d) - WeeklyLoad(p, kind, r))
  BY DEF Deviation, ChosenLoad
<1> QED BY <1>1, DayLoadsAgree

\* The weekly load is the same whatever the schedule.
LEMMA WeeklyLoadsAgree ==
  ASSUME NEW p, NEW X, Selects(p, X), NEW kind \in {"section", "instructor"}, NEW r
  PROVE  /\ SumFunction([d \in Days(p) |-> DayLoad(p, Resolved(p, X), kind, r, d)])
              = WeeklyLoad(p, kind, r)
         /\ WeeklyLoad(p, kind, r) \in Nat
         /\ \A d \in Days(p) : DayLoad(p, Resolved(p, X), kind, r, d) <= WeeklyLoad(p, kind, r)
<1> DEFINE s == Resolved(p, X)
           H == { f \in Events(p) : r \in Held(p, kind, f) }
           D == Days(p)
           w == [e \in H |-> p.event[e].duration]
           h == Durations(p)
           key == [e \in H |-> Day(s[e])]
           By == [d \in D |-> SumFunctionOnSet(w, { e \in H : key[e] = d })]
           load == [d \in D |-> DayLoad(p, s, kind, r, d)]
<1>1. DOMAIN s = Events(p) /\ \A e \in Events(p) : s[e] \in p.event[e].cands
  BY SelectionIsTotal DEF Total
<1>2. IsFiniteSet(H) /\ IsFiniteSet(D)
  BY FiniteParts, FS_Subset DEF Selects, WellFormed
<1>3. ASSUME NEW e \in H PROVE w[e] \in Int /\ w[e] >= 0 /\ w[e] = h[e] /\ key[e] \in D
  <2>1. p.event[e].duration \in Nat /\ s[e] \in p.event[e].cands /\ WellFormed(p)
    BY <1>1 DEF Selects, WellFormed
  <2>2. Day(s[e]) \in D
    BY <2>1, CandidateTimes
  <2> QED BY <2>1, <2>2 DEF Durations
<1>4. SumFunctionOnSet(w, H) = SumFunctionOnSet(By, D)
  <2>1. (\A e \in H : w[e] \in Int) /\ (\A e \in H : key[e] \in D)
    BY <1>3
  <2> HIDE DEF H, D, w, key
  <2>2. SumFunctionOnSet(w, H)
          = SumFunctionOnSet([d \in D |-> SumFunctionOnSet(w, { e \in H : key[e] = d })], D)
    BY <1>2, <2>1, SumByBlocks
  <2> QED BY <2>2
<1>5. ASSUME NEW d \in D PROVE By[d] = load[d] /\ load[d] \in Nat
  <2> DEFINE B == { e \in H : key[e] = d }
  <2>1. B = OnDay(p, s, kind, r, d)
    BY <1>1 DEF OnDay
  <2>2. load[d] = SumFunctionOnSet(h, OnDay(p, s, kind, r, d)) /\ load[d] \in Nat
    <3>1. load[d] = DayLoad(p, s, kind, r, d)
      OBVIOUS
    <3>2. DayLoad(p, s, kind, r, d) = SumFunctionOnSet(h, OnDay(p, s, kind, r, d))
      BY DayLoadsAgree
    <3>3. DayLoad(p, s, kind, r, d) \in Nat
      BY DayLoadsAgree
    <3> HIDE DEF load
    <3> QED BY <3>1, <3>2, <3>3
  <2>3. IsFiniteSet(B) /\ \A e \in B : w[e] = h[e]
    BY <1>2, <1>3, FS_Subset
  <2>4. By[d] = SumFunctionOnSet(w, B)
    OBVIOUS
  <2> HIDE DEF B, w, h, By, load
  <2>5. SumFunctionOnSet(w, B) = SumFunctionOnSet(h, B)
    BY <2>3, SumEqual
  <2> QED BY <2>1, <2>2, <2>4, <2>5
<1>6. WeeklyLoad(p, kind, r) = SumFunctionOnSet(w, H) /\ SumFunction(load) = SumFunctionOnSet(load, D)
  BY DEF WeeklyLoad, SumFunction
<1> HIDE DEF D, w, h, key, By, load, H
<1>7. SumFunctionOnSet(By, D) = SumFunctionOnSet(load, D)
  BY <1>2, <1>5, SumEqual
<1>8. SumFunctionOnSet(w, H) \in Nat
  BY <1>2, <1>3, SumType, SumNonNegative
<1>9. ASSUME NEW d \in D PROVE load[d] <= SumFunctionOnSet(load, D)
  <2>1. \A x \in D : load[x] \in Int /\ load[x] >= 0
    BY <1>5
  <2>2. SumFunctionOnSet(load, D) = load[d] + SumFunctionOnSet(load, D \ {d})
    BY <1>2, <2>1, SumRemove
  <2>3. IsFiniteSet(D \ {d}) /\ \A x \in D \ {d} : load[x] \in Int /\ load[x] >= 0
    BY <1>2, <2>1, FS_Subset
  <2>4. SumFunctionOnSet(load, D \ {d}) \in Int /\ SumFunctionOnSet(load, D \ {d}) >= 0
    BY <2>3, SumType, SumNonNegative
  <2> QED BY <2>1, <2>2, <2>4
<1>10. ASSUME NEW d \in Days(p) PROVE DayLoad(p, s, kind, r, d) <= WeeklyLoad(p, kind, r)
  <2>1. d \in D /\ load[d] = DayLoad(p, s, kind, r, d)
    BY DEF D, load
  <2> QED BY <1>4, <1>6, <1>7, <1>9, <2>1
<1>11. SumFunction(load) = WeeklyLoad(p, kind, r)
  BY <1>4, <1>6, <1>7
<1>12. WeeklyLoad(p, kind, r) \in Nat
  BY <1>6, <1>8
<1> QED BY <1>10, <1>11, <1>12 DEF load, s, D

LEMMA LoadsAgree ==
  ASSUME NEW p, NEW X, Selects(p, X), NEW kind \in {"section", "instructor"}
  PROVE  /\ ImbalanceExpression(p, X, kind) = LoadImbalance(p, Resolved(p, X), kind)
         /\ LoadImbalance(p, Resolved(p, X), kind) \in Int
<1> DEFINE s == Resolved(p, X)
           S == HeldBy(p, kind) \X Days(p)
           Weekly(r) == SumFunction([d \in Days(p) |-> DayLoad(p, s, kind, r, d)])
           f == [x \in S |-> Deviation(p, X, kind, x[1], x[2])]
           g == [x \in S |-> Abs(DayLoad(p, s, kind, x[1], x[2]) * Cardinality(Days(p)) - Weekly(x[1]))]
<1>1. IsFiniteSet(S)
  BY FiniteParts, FS_Product DEF Selects
<1>2. Cardinality(Days(p)) \in Nat
  BY FiniteParts, FS_CardinalityType DEF Selects
<1>3. ASSUME NEW x \in S PROVE f[x] = g[x] /\ g[x] \in Int
  <2> DEFINE n == Cardinality(Days(p))
             l == DayLoad(p, s, kind, x[1], x[2])
             w == WeeklyLoad(p, kind, x[1])
  <2>1. l \in Nat /\ w \in Nat /\ n \in Nat
    BY <1>2, DayLoadsAgree, WeeklyLoadsAgree
  <2>2. Weekly(x[1]) = w
    BY WeeklyLoadsAgree
  <2>3. g[x] = Abs(l * n - w)
    BY <2>2
  <2>4. f[x] = Abs(n * l - w)
    BY DeviationOfDay
  <2> HIDE DEF n, l, w, f, g
  <2>5. n * l = l * n /\ n * l \in Nat
    BY <2>1
  <2> QED BY <2>1, <2>3, <2>4, <2>5 DEF Abs
<1>4. /\ ImbalanceExpression(p, X, kind) = SumFunctionOnSet(f, S)
      /\ LoadImbalance(p, s, kind) = SumFunctionOnSet(g, S)
  BY DEF ImbalanceExpression, LoadImbalance, SumFunction
<1> HIDE DEF f, g, S
<1>5. SumFunctionOnSet(f, S) = SumFunctionOnSet(g, S)
  BY <1>1, <1>3, SumEqual
<1>6. SumFunctionOnSet(g, S) \in Int
  BY <1>1, <1>3, SumType
<1> QED BY <1>4, <1>5, <1>6 DEF s

\* The bounds the encoding gives its deviation variables exclude no schedule.
LEMMA DeviationsAlwaysFit ==
  ASSUME NEW p, NEW X, Selects(p, X), NEW kind \in {"section", "instructor"}
  PROVE  DeviationsFit(p, X, kind)
<1> SUFFICES ASSUME NEW r \in HeldBy(p, kind), NEW d \in Days(p)
             PROVE  Deviation(p, X, kind, r, d) <= WeeklyLoad(p, kind, r) * Cardinality(Days(p))
  BY DEF DeviationsFit
<1> DEFINE n == Cardinality(Days(p))
           l == DayLoad(p, Resolved(p, X), kind, r, d)
           w == WeeklyLoad(p, kind, r)
<1>1. n \in Nat /\ n # 0
  <2>1. IsFiniteSet(Days(p))
    BY FiniteParts DEF Selects
  <2> QED BY <2>1, FS_CardinalityType, FS_EmptySet
<1>2. l \in Nat /\ w \in Nat /\ l <= w
  BY DayLoadsAgree, WeeklyLoadsAgree
<1>3. Deviation(p, X, kind, r, d) = Abs(n * l - w)
  BY DeviationOfDay
<1> HIDE DEF n, l, w
<1>4. n * l <= n * w /\ w <= n * w /\ n * l \in Nat /\ n * w \in Nat
  BY <1>1, <1>2
<1>5. n * w = w * n
  BY <1>1, <1>2
<1>6. Abs(n * l - w) <= w * n
  BY <1>2, <1>4, <1>5 DEF Abs
<1> QED BY <1>3, <1>6 DEF n, w

\* Minimising the encoding's objective minimises the score that the scorer of the
\* domain, which was written apart from it, computes from the decoded schedule:
\* for every choice of one candidate per event, with conflicts or without, the two
\* are the same number, whatever parts of the model a weight of 0 leaves out.
THEOREM ObjectiveIsScore ==
  ASSUME NEW p, NEW X, WellFormed(p), X \subseteq Choice(p), ExactlyOne(p, X)
  PROVE  Objective(p, X) = Score(p, X) /\ Objective(p, X) \in Int
<1> DEFINE s == Resolved(p, X)
<1>1. Selects(p, X)
  BY DEF Selects
<1>2. Total(p, s)
  BY <1>1, SelectionIsTotal
<1>3. /\ GapExpression(p, X, "section") = GapAtoms(p, s, "section")
      /\ GapExpression(p, X, "instructor") = GapAtoms(p, s, "instructor")
      /\ GapAtoms(p, s, "section") \in Int /\ GapAtoms(p, s, "instructor") \in Int
  BY <1>1, <1>2, GapsAgree DEF Selects
<1>4. /\ ImbalanceExpression(p, X, "section") = LoadImbalance(p, s, "section")
      /\ ImbalanceExpression(p, X, "instructor") = LoadImbalance(p, s, "instructor")
      /\ LoadImbalance(p, s, "section") \in Int /\ LoadImbalance(p, s, "instructor") \in Int
  BY <1>1, LoadsAgree
<1> DEFINE pref == SumFunction([x \in X |-> x[2].penalty])
<1>5. pref = SumFunction([e \in DOMAIN s |-> s[e].penalty]) /\ pref \in Int
  BY <1>1, PreferencesAgree
<1>6. /\ p.weight.preference \in Nat /\ p.weight.section \in Nat
      /\ p.weight.instructor \in Nat /\ p.weight.load \in Nat
  BY DEF WellFormed
<1>7. Score(p, X) = p.weight.preference * pref
                      + p.weight.section * GapAtoms(p, s, "section")
                      + p.weight.instructor * GapAtoms(p, s, "instructor")
                      + p.weight.load * (LoadImbalance(p, s, "section") + LoadImbalance(p, s, "instructor"))
  BY <1>5 DEF Score
<1>8. Objective(p, X) =
        p.weight.preference * pref
          + (IF p.weight.section = 0 THEN 0 ELSE p.weight.section * GapAtoms(p, s, "section"))
          + (IF p.weight.instructor = 0 THEN 0 ELSE p.weight.instructor * GapAtoms(p, s, "instructor"))
          + (IF p.weight.load = 0 THEN 0
             ELSE p.weight.load * (LoadImbalance(p, s, "section") + LoadImbalance(p, s, "instructor")))
  BY <1>3, <1>4 DEF Objective
<1> HIDE DEF s, pref
<1>9. ASSUME NEW w \in Nat, NEW v \in Int
      PROVE  (IF w = 0 THEN 0 ELSE w * v) = w * v /\ w * v \in Int
  OBVIOUS
<1> DEFINE ps == p.weight.preference * pref
           gs == p.weight.section * GapAtoms(p, s, "section")
           gi == p.weight.instructor * GapAtoms(p, s, "instructor")
           im == LoadImbalance(p, s, "section") + LoadImbalance(p, s, "instructor")
           ld == p.weight.load * im
<1>10. im \in Int
  BY <1>4
<1>11. /\ ps \in Int /\ gs \in Int /\ gi \in Int /\ ld \in Int
       /\ (IF p.weight.section = 0 THEN 0 ELSE gs) = gs
       /\ (IF p.weight.instructor = 0 THEN 0 ELSE gi) = gi
       /\ (IF p.weight.load = 0 THEN 0 ELSE ld) = ld
  <2> HIDE DEF im
  <2> QED BY <1>3, <1>5, <1>6, <1>9, <1>10
<1>12. Score(p, X) = ps + gs + gi + ld
  BY <1>7
<1>13. Objective(p, X) = ps + gs + gi + ld
  <2>1. Objective(p, X) = ps + (IF p.weight.section = 0 THEN 0 ELSE gs)
                             + (IF p.weight.instructor = 0 THEN 0 ELSE gi)
                             + (IF p.weight.load = 0 THEN 0 ELSE ld)
    BY <1>8
  <2> HIDE DEF ps, gs, gi, ld
  <2> QED BY <1>11, <2>1
<1> HIDE DEF ps, gs, gi, ld
<1> QED BY <1>11, <1>12, <1>13

\* The constraints that only serve the objective exclude no schedule: the model
\* CP-SAT receives has exactly the solutions of its hard constraints, whatever
\* the weights.
THEOREM SolutionsAreExactlyTheHardOnes ==
  ASSUME NEW p, NEW X, WellFormed(p), X \subseteq Choice(p)
  PROVE  Satisfies(p, X) <=> HardConstraints(p, X)
<1>1. ASSUME HardConstraints(p, X) PROVE Satisfies(p, X)
  <2>1. Selects(p, X)
    BY <1>1 DEF Selects, HardConstraints
  <2>2. Instance(p, X)
    BY <2>1, SelectionIsTotal
  <2>3. OccupancyFits(p, X, "section") /\ OccupancyFits(p, X, "instructor")
    BY <1>1, <2>2, OccupancyAlwaysFits
  <2>4. DeviationsFit(p, X, "section") /\ DeviationsFit(p, X, "instructor")
    BY <2>1, DeviationsAlwaysFit
  <2> QED BY <1>1, <2>3, <2>4 DEF Satisfies
<1> QED BY <1>1 DEF Satisfies
==============================================================================
