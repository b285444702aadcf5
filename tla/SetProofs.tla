----------------------------- MODULE SetProofs -----------------------------
(***************************************************************************)
(* Sums, minima and maxima of finite sets.  The sums of the community      *)
(* modules are folds that take the elements of a set in the order CHOOSE   *)
(* happens to give them; these lemmas say that the order does not matter.  *)
(* The inductions look at the sets a claim fails for: some finite set      *)
(* among them has the fewest elements.                                     *)
(***************************************************************************)
EXTENDS Integers, FiniteSets, FiniteSetsExt, Functions, FiniteSetTheorems,
        WellFoundedInduction, TLAPS

-----------------------------------------------------------------------------
(* Least elements *)

\* A non-empty set of naturals has a least element.
LEMMA LeastNatural ==
    ASSUME NEW I \in SUBSET Nat, I # {}
    PROVE  \E n \in I : \A m \in I : n <= m
<1> DEFINE Less == {ss \in Nat \X Nat : ss[1] < ss[2]}
<1>1. IsWellFoundedOn(Less, Nat)
  <2>1. Less = OpToRel(<, Nat)
    BY Zenon DEF OpToRel
  <2> QED BY <2>1, NatLessThanWellFounded
<1>2. PICK n \in I : \A m \in I : ~ (<<m, n>> \in Less)
  BY <1>1, WFMin
<1>3. ASSUME NEW m \in I PROVE n <= m
  <2>1. n \in Nat /\ m \in Nat
    OBVIOUS
  <2>2. m < n => <<m, n>> \in Less
    BY <2>1
  <2> QED BY <1>2, <2>1, <2>2
<1> QED BY <1>3

\* A non-empty set of naturals has the minimum that Min chooses.
LEMMA MinIsMember ==
    ASSUME NEW I \in SUBSET Nat, I # {}
    PROVE  Min(I) \in I /\ \A j \in I : Min(I) <= j
  BY LeastNatural DEF Min

\* A non-empty set of subsets of a finite set has one with the fewest elements.
LEMMA SmallestSet ==
    ASSUME NEW S, IsFiniteSet(S), NEW B \in SUBSET (SUBSET S), B # {}
    PROVE  \E s \in B : \A t \in B : Cardinality(s) <= Cardinality(t)
<1> DEFINE I == {Cardinality(t) : t \in B}
<1>1. \A t \in B : Cardinality(t) \in Nat
  BY FS_Subset, FS_CardinalityType
<1>2. I \in SUBSET Nat /\ I # {}
  BY <1>1
<1>3. PICK n \in I : \A m \in I : n <= m
  BY <1>2, LeastNatural
<1> QED BY <1>3

-----------------------------------------------------------------------------
(* Sums *)

\* The element that the fold takes first.
First(s) == CHOOSE x \in s : TRUE

\* g is the sum of f over every set of D, taken in the order of First.
Folds(f, D, g) ==
    g = [s \in D |-> IF s = {} THEN 0 ELSE f[First(s)] + g[s \ {First(s)}]]

LEMMA FirstIsMember == \A s : s # {} => First(s) \in s
  BY DEF First

\* Removing an element makes a set smaller.
LEMMA Smaller ==
    ASSUME NEW s, IsFiniteSet(s), NEW x \in s
    PROVE  /\ IsFiniteSet(s \ {x})
           /\ Cardinality(s) \in Nat /\ Cardinality(s \ {x}) \in Nat
           /\ Cardinality(s \ {x}) = Cardinality(s) - 1
  BY FS_RemoveElement, FS_CardinalityType

\* A fold over the sets of at most n elements exists for every n.
LEMMA FoldsUpTo ==
    ASSUME NEW S, IsFiniteSet(S), NEW f, \A x \in S : f[x] \in Int, NEW n \in Nat
    PROVE  LET D == {s \in SUBSET S : Cardinality(s) <= n}
           IN  \E g \in [D -> Int] : Folds(f, D, g)
<1> DEFINE D(k) == {s \in SUBSET S : Cardinality(s) <= k}
           Bad == {k \in Nat : ~ \E g \in [D(k) -> Int] : Folds(f, D(k), g)}
<1> SUFFICES ASSUME Bad # {} PROVE FALSE
  OBVIOUS
<1>1. PICK m \in Bad : \A k \in Bad : m <= k
  <2> HIDE DEF Bad
  <2>1. Bad \in SUBSET Nat
    BY DEF Bad
  <2> QED BY <2>1, LeastNatural
<1>2. \A s \in SUBSET S : IsFiniteSet(s) /\ Cardinality(s) \in Nat
  BY FS_Subset, FS_CardinalityType
<1>3. ASSUME NEW E, NEW h, E \subseteq D(m),
             \A s \in D(m) : s # {} => s \ {First(s)} \in E,
             \A s \in E : h[s] = IF s = {} THEN 0 ELSE f[First(s)] + h[s \ {First(s)}],
             \A s \in E : h[s] \in Int
      PROVE  FALSE
  <2> DEFINE g == [s \in D(m) |-> IF s = {} THEN 0 ELSE f[First(s)] + h[s \ {First(s)}]]
  <2>1. \A s \in E : g[s] = h[s]
    BY <1>3
  <2>2. \A s \in D(m) : s # {} => First(s) \in S /\ g[s \ {First(s)}] = h[s \ {First(s)}]
    BY <1>3, <2>1, FirstIsMember
  <2>3. g \in [D(m) -> Int]
    <3>1. ASSUME NEW s \in D(m), s # {}
          PROVE  f[First(s)] + h[s \ {First(s)}] \in Int
      <4>1. f[First(s)] \in Int
        BY <2>2, <3>1
      <4>2. h[s \ {First(s)}] \in Int
        BY <1>3, <3>1
      <4> QED BY <4>1, <4>2
    <3> HIDE DEF D
    <3> QED BY <3>1
  <2>4. Folds(f, D(m), g)
    BY <2>2 DEF Folds
  <2> QED BY <1>1, <2>3, <2>4
<1>4. CASE m = 0
  <2>1. ASSUME NEW s \in D(m) PROVE s = {}
    BY <1>2, <1>4, FS_EmptySet
  <2>2. {} \in D(m)
    BY <1>4, FS_EmptySet
  <2> DEFINE h == [s \in {{}} |-> 0]
  <2>3. \A s \in {{}} : h[s] = 0
    OBVIOUS
  <2> HIDE DEF h, D
  <2> QED BY <1>3, <2>1, <2>2, <2>3
<1>5. CASE m # 0
  <2>1. m - 1 \in Nat /\ m - 1 \notin Bad
    BY <1>1, <1>5
  <2>2. PICK h \in [D(m - 1) -> Int] : Folds(f, D(m - 1), h)
    BY <2>1
  <2>3. D(m - 1) \subseteq D(m)
    BY <1>1, <1>2
  <2>4. ASSUME NEW s \in D(m), s # {} PROVE s \ {First(s)} \in D(m - 1)
    <3>1. First(s) \in s
      BY <2>4, FirstIsMember
    <3>2. Cardinality(s \ {First(s)}) = Cardinality(s) - 1
      BY <1>2, <3>1, Smaller
    <3> QED BY <1>1, <1>2, <3>2
  <2>5. \A s \in D(m - 1) :
           h[s] = IF s = {} THEN 0 ELSE f[First(s)] + h[s \ {First(s)}]
    BY <2>2 DEF Folds
  <2> HIDE DEF D
  <2>6. \A s \in D(m - 1) : h[s] \in Int
    BY <2>2
  <2> QED BY <1>3, <2>3, <2>4, <2>5, <2>6
<1> QED BY <1>4, <1>5

\* Two folds agree.
LEMMA FoldsAgree ==
    ASSUME NEW S, IsFiniteSet(S), NEW f, NEW g, NEW h,
           Folds(f, SUBSET S, g), Folds(f, SUBSET S, h)
    PROVE  g = h
<1> DEFINE Bad == {s \in SUBSET S : g[s] # h[s]}
<1>1. ASSUME Bad # {} PROVE FALSE
  <2>1. PICK s \in Bad : \A t \in Bad : Cardinality(s) <= Cardinality(t)
    <3>1. Bad \in SUBSET (SUBSET S)
      OBVIOUS
    <3> HIDE DEF Bad
    <3> QED BY <1>1, <3>1, SmallestSet
  <2>2. s # {}
    BY DEF Folds
  <2>3. First(s) \in s /\ IsFiniteSet(s)
    BY <2>2, FirstIsMember, FS_Subset
  <2>4. s \ {First(s)} \notin Bad
    <3>1. /\ Cardinality(s) \in Nat /\ Cardinality(s \ {First(s)}) \in Nat
          /\ Cardinality(s \ {First(s)}) = Cardinality(s) - 1
      BY <2>3, Smaller
    <3> HIDE DEF Bad
    <3> QED BY <2>1, <3>1
  <2>5. g[s \ {First(s)}] = h[s \ {First(s)}]
    BY <2>4
  <2> QED BY <2>2, <2>5 DEF Folds
<1>2. \A s \in SUBSET S : g[s] = h[s]
  BY <1>1
<1>3. g = [s \in SUBSET S |-> g[s]] /\ h = [s \in SUBSET S |-> h[s]]
  BY DEF Folds
<1> QED BY <1>2, <1>3

\* The sum is a fold, with integer values.
LEMMA SumIsFold ==
    ASSUME NEW S, IsFiniteSet(S), NEW f, \A x \in S : f[x] \in Int
    PROVE  \E g \in [SUBSET S -> Int] :
               Folds(f, SUBSET S, g) /\ SumFunctionOnSet(f, S) = g[S]
<1>1. PICK g \in [SUBSET S -> Int] : Folds(f, SUBSET S, g)
  <2>1. Cardinality(S) \in Nat
    BY FS_CardinalityType
  <2>2. {s \in SUBSET S : Cardinality(s) <= Cardinality(S)} = SUBSET S
    BY FS_Subset
  <2>3. \E g \in [{s \in SUBSET S : Cardinality(s) <= Cardinality(S)} -> Int] :
           Folds(f, {s \in SUBSET S : Cardinality(s) <= Cardinality(S)}, g)
    BY <2>1, FoldsUpTo
  <2> QED BY <2>2, <2>3
<1> DEFINE iter == CHOOSE h : h = [s \in SUBSET S |->
                       IF s = {} THEN 0
                       ELSE f[CHOOSE x \in s : TRUE] + h[s \ {CHOOSE x \in s : TRUE}]]
<1>2. Folds(f, SUBSET S, iter)
  BY <1>1 DEF Folds, First
<1>3. iter = g
  <2> HIDE DEF iter
  <2> QED BY <1>1, <1>2, FoldsAgree
<1>4. SumFunctionOnSet(f, S) = iter[S]
  BY DEF SumFunctionOnSet, FoldFunctionOnSet, MapThenFoldSet
<1> QED BY <1>1, <1>3, <1>4

\* A fold of a larger set, seen on a smaller one, is the fold of the smaller one.
LEMMA SumOfSubset ==
    ASSUME NEW S, IsFiniteSet(S), NEW f, \A x \in S : f[x] \in Int,
           NEW g, Folds(f, SUBSET S, g), NEW T \in SUBSET S
    PROVE  SumFunctionOnSet(f, T) = g[T]
<1>1. IsFiniteSet(T)
  BY FS_Subset
<1>2. PICK h : Folds(f, SUBSET T, h) /\ SumFunctionOnSet(f, T) = h[T]
  BY <1>1, SumIsFold
<1> DEFINE k == [s \in SUBSET T |-> g[s]]
<1>3. Folds(f, SUBSET T, k)
  <2>1. ASSUME NEW s \in SUBSET T
        PROVE  k[s] = IF s = {} THEN 0 ELSE f[First(s)] + k[s \ {First(s)}]
    BY DEF Folds
  <2> QED BY <2>1 DEF Folds
<1>4. k = h
  <2> HIDE DEF k
  <2> QED BY <1>1, <1>2, <1>3, FoldsAgree
<1> QED BY <1>2, <1>4

\* The empty sum.
LEMMA SumEmpty == ASSUME NEW f PROVE SumFunctionOnSet(f, {}) = 0
<1>1. PICK g : Folds(f, SUBSET {}, g) /\ SumFunctionOnSet(f, {}) = g[{}]
  BY FS_EmptySet, SumIsFold
<1> QED BY <1>1 DEF Folds

\* An integer is what a sum of integers is.
LEMMA SumType ==
    ASSUME NEW S, IsFiniteSet(S), NEW f, \A x \in S : f[x] \in Int
    PROVE  SumFunctionOnSet(f, S) \in Int
<1>1. PICK g \in [SUBSET S -> Int] : SumFunctionOnSet(f, S) = g[S]
  BY SumIsFold
<1>2. S \in SUBSET S
  OBVIOUS
<1> QED BY <1>1, <1>2

\* Any element may be taken out first.
LEMMA SumRemove ==
    ASSUME NEW S, IsFiniteSet(S), NEW f, \A x \in S : f[x] \in Int, NEW x \in S
    PROVE  SumFunctionOnSet(f, S) = f[x] + SumFunctionOnSet(f, S \ {x})
<1>1. PICK g \in [SUBSET S -> Int] : Folds(f, SUBSET S, g)
  BY SumIsFold
<1>2. \A T \in SUBSET S : SumFunctionOnSet(f, T) = g[T]
  BY <1>1, SumOfSubset
<1>3. \A s \in SUBSET S : s # {} => g[s] = f[First(s)] + g[s \ {First(s)}]
  BY <1>1 DEF Folds
<1>4. \A y \in S : f[y] \in Int
  OBVIOUS
<1>5. \A s \in SUBSET S : g[s] \in Int
  BY <1>1
<1> DEFINE Bad == {s \in SUBSET S : \E y \in s : g[s] # f[y] + g[s \ {y}]}
<1>6. ASSUME Bad # {} PROVE FALSE
  <2>1. PICK s \in Bad : \A t \in Bad : Cardinality(s) <= Cardinality(t)
    <3>1. Bad \in SUBSET (SUBSET S)
      OBVIOUS
    <3> HIDE DEF Bad
    <3> QED BY <1>6, <3>1, SmallestSet
  <2>2. PICK y \in s : g[s] # f[y] + g[s \ {y}]
    OBVIOUS
  <2> DEFINE z == First(s)
             t == s \ {z}
  <2>3. z \in s /\ IsFiniteSet(s) /\ s \in SUBSET S /\ z \in S /\ y \in S
    BY <2>2, FirstIsMember, FS_Subset
  <2>4. g[s] = f[z] + g[t]
    BY <1>3, <2>2
  <2> HIDE DEF z
  <2>5. y # z
    BY <2>2, <2>4
  <2>6. t \notin Bad /\ t \in SUBSET S
    <3>1. /\ Cardinality(s) \in Nat /\ Cardinality(t) \in Nat
          /\ Cardinality(t) = Cardinality(s) - 1
      BY <2>3, Smaller
    <3> HIDE DEF Bad, t
    <3>2. t \notin Bad
      BY <2>1, <3>1
    <3> QED BY <2>3, <3>2 DEF t
  <2>7. g[t] = f[y] + g[t \ {y}]
    BY <2>3, <2>5, <2>6
  <2>8. s \ {y} \notin Bad
    <3>1. /\ Cardinality(s) \in Nat /\ Cardinality(s \ {y}) \in Nat
          /\ Cardinality(s \ {y}) = Cardinality(s) - 1
      BY <2>2, <2>3, Smaller
    <3> HIDE DEF Bad
    <3> QED BY <2>1, <3>1
  <2>9. g[s \ {y}] = f[z] + g[(s \ {y}) \ {z}]
    BY <2>3, <2>5, <2>8
  <2>10. (s \ {y}) \ {z} = t \ {y}
    OBVIOUS
  <2>11. /\ f[y] \in Int /\ f[z] \in Int
         /\ g[t \ {y}] \in Int
    BY <1>4, <1>5, <2>3
  <2>12. g[s \ {y}] = f[z] + g[t \ {y}]
    BY <2>9, <2>10
  <2> DEFINE u == s \ {y}
             v == t \ {y}
  <2>13. g[s] = f[z] + g[t] /\ g[t] = f[y] + g[v] /\ g[u] = f[z] + g[v]
         /\ f[y] \in Int /\ f[z] \in Int /\ g[v] \in Int
    BY <2>4, <2>7, <2>11, <2>12
  <2>14. g[s] = f[y] + g[u]
    <3> HIDE DEF t, u, v
    <3> QED BY <2>13
  <2> QED BY <2>2, <2>14
<1>7. g[S] = f[x] + g[S \ {x}]
  BY <1>6
<1> QED BY <1>2, <1>7

\* The sum over a set with one element more.
LEMMA SumAdd ==
    ASSUME NEW S, IsFiniteSet(S), NEW x, x \notin S, NEW f,
           \A y \in S \cup {x} : f[y] \in Int
    PROVE  SumFunctionOnSet(f, S \cup {x}) = SumFunctionOnSet(f, S) + f[x]
<1>1. IsFiniteSet(S \cup {x}) /\ (S \cup {x}) \ {x} = S /\ x \in S \cup {x}
  BY FS_AddElement
<1>2. SumFunctionOnSet(f, S \cup {x}) = f[x] + SumFunctionOnSet(f, S)
  BY <1>1, SumRemove
<1>3. SumFunctionOnSet(f, S) \in Int /\ f[x] \in Int
  BY SumType
<1> QED BY <1>2, <1>3

\* Functions that agree on a set have the same sum over it.
LEMMA SumSame ==
    ASSUME NEW S, IsFiniteSet(S), NEW f, NEW h, \A x \in S : f[x] \in Int,
           \A x \in S : f[x] = h[x]
    PROVE  SumFunctionOnSet(f, S) = SumFunctionOnSet(h, S)
<1>1. PICK g : Folds(f, SUBSET S, g) /\ SumFunctionOnSet(f, S) = g[S]
  BY SumIsFold
<1>2. PICK k : Folds(h, SUBSET S, k) /\ SumFunctionOnSet(h, S) = k[S]
  BY SumIsFold
<1>3. \A s \in SUBSET S : s # {} => f[First(s)] = h[First(s)]
  BY FirstIsMember
<1>4. [s \in SUBSET S |-> IF s = {} THEN 0 ELSE h[First(s)] + k[s \ {First(s)}]]
        = [s \in SUBSET S |-> IF s = {} THEN 0 ELSE f[First(s)] + k[s \ {First(s)}]]
  BY <1>3
<1>5. Folds(f, SUBSET S, k)
  BY <1>2, <1>4 DEF Folds
<1>6. g = k
  BY <1>1, <1>5, FoldsAgree
<1> QED BY <1>1, <1>2, <1>6

\* A function that differs at one element has a sum that differs by as much.
LEMMA SumChange ==
    ASSUME NEW S, IsFiniteSet(S), NEW f, NEW h, NEW x \in S,
           \A y \in S : f[y] \in Int /\ h[y] \in Int,
           \A y \in S \ {x} : f[y] = h[y]
    PROVE  SumFunctionOnSet(h, S) = SumFunctionOnSet(f, S) - f[x] + h[x]
<1>1. IsFiniteSet(S \ {x})
  BY FS_RemoveElement
<1>2. SumFunctionOnSet(f, S \ {x}) = SumFunctionOnSet(h, S \ {x})
  BY <1>1, SumSame
<1>3. /\ SumFunctionOnSet(f, S) = f[x] + SumFunctionOnSet(f, S \ {x})
      /\ SumFunctionOnSet(h, S) = h[x] + SumFunctionOnSet(h, S \ {x})
  BY SumRemove
<1>4. SumFunctionOnSet(f, S \ {x}) \in Int /\ f[x] \in Int /\ h[x] \in Int
  BY <1>1, SumType
<1> QED BY <1>2, <1>3, <1>4

\* A sum of naturals is a natural, no less than any of them.
LEMMA SumOfNaturals ==
    ASSUME NEW S, IsFiniteSet(S), NEW f, \A x \in S : f[x] \in Nat
    PROVE  /\ SumFunctionOnSet(f, S) \in Nat
           /\ \A x \in S : f[x] <= SumFunctionOnSet(f, S)
<1> DEFINE Bad == {s \in SUBSET S : SumFunctionOnSet(f, s) \notin Nat}
<1>1. ASSUME Bad # {} PROVE FALSE
  <2>1. PICK s \in Bad : \A t \in Bad : Cardinality(s) <= Cardinality(t)
    <3>1. Bad \in SUBSET (SUBSET S)
      OBVIOUS
    <3> HIDE DEF Bad
    <3> QED BY <1>1, <3>1, SmallestSet
  <2>2. s # {}
    BY SumEmpty
  <2>3. PICK x \in s : TRUE
    BY <2>2
  <2>4. IsFiniteSet(s) /\ x \in S
    BY FS_Subset
  <2>5. s \ {x} \notin Bad
    <3>1. /\ Cardinality(s) \in Nat /\ Cardinality(s \ {x}) \in Nat
          /\ Cardinality(s \ {x}) = Cardinality(s) - 1
      BY <2>3, <2>4, Smaller
    <3> HIDE DEF Bad
    <3> QED BY <2>1, <3>1
  <2>6. SumFunctionOnSet(f, s) = f[x] + SumFunctionOnSet(f, s \ {x})
    <3>1. \A y \in s : f[y] \in Int
      OBVIOUS
    <3> QED BY <2>3, <2>4, <3>1, SumRemove
  <2>7. f[x] \in Nat /\ SumFunctionOnSet(f, s \ {x}) \in Nat
    BY <2>4, <2>5
  <2>8. SumFunctionOnSet(f, s) \notin Nat
    BY <2>1
  <2> HIDE DEF Bad
  <2> QED BY <2>6, <2>7, <2>8
<1>2. \A s \in SUBSET S : SumFunctionOnSet(f, s) \in Nat
  BY <1>1
<1>3. ASSUME NEW x \in S PROVE f[x] <= SumFunctionOnSet(f, S)
  <2>1. SumFunctionOnSet(f, S) = f[x] + SumFunctionOnSet(f, S \ {x})
    BY SumRemove
  <2>2. SumFunctionOnSet(f, S \ {x}) \in Nat /\ f[x] \in Nat
    BY <1>2
  <2> QED BY <2>1, <2>2
<1> QED BY <1>2, <1>3

\* A sum is no more than another one, possibly over another set, if no element
\* makes it so: where only one of them has the element, it counts as zero there.
LEMMA SumLeq ==
    ASSUME NEW S, IsFiniteSet(S), NEW T \in SUBSET S, NEW U \in SUBSET S, NEW f, NEW h,
           \A x \in T : h[x] \in Int, \A x \in U : f[x] \in Int,
           \A x \in T \cap U : h[x] <= f[x],
           \A x \in T \ U : h[x] <= 0, \A x \in U \ T : f[x] >= 0
    PROVE  SumFunctionOnSet(h, T) <= SumFunctionOnSet(f, U)
<1> DEFINE P(s) == SumFunctionOnSet(h, s \cap T) <= SumFunctionOnSet(f, s \cap U)
           Bad == {s \in SUBSET S : ~P(s)}
<1>1. ASSUME Bad # {} PROVE FALSE
  <2>1. PICK s \in Bad : \A t \in Bad : Cardinality(s) <= Cardinality(t)
    <3>1. Bad \in SUBSET (SUBSET S)
      OBVIOUS
    <3> HIDE DEF Bad
    <3> QED BY <1>1, <3>1, SmallestSet
  <2>2. s # {}
    <3>1. {} \cap T = {} /\ {} \cap U = {}
      OBVIOUS
    <3> QED BY <2>1, <3>1, SumEmpty
  <2>3. PICK x \in s : TRUE
    BY <2>2
  <2>4. IsFiniteSet(s) /\ x \in S /\ s \in SUBSET S
    BY FS_Subset
  <2> DEFINE r == s \ {x}
  <2>5. P(r)
    <3>1. /\ Cardinality(s) \in Nat /\ Cardinality(r) \in Nat
          /\ Cardinality(r) = Cardinality(s) - 1
      BY <2>3, <2>4, Smaller
    <3>2. r \notin Bad
      <4> HIDE DEF Bad, r
      <4> QED BY <2>1, <3>1
    <3> QED BY <2>4, <3>2
  <2>6. /\ IsFiniteSet(s \cap T) /\ IsFiniteSet(s \cap U)
        /\ IsFiniteSet(r \cap T) /\ IsFiniteSet(r \cap U)
    BY <2>4, FS_Subset
  <2> DEFINE a == SumFunctionOnSet(h, s \cap T)
             b == SumFunctionOnSet(f, s \cap U)
             c == SumFunctionOnSet(h, r \cap T)
             d == SumFunctionOnSet(f, r \cap U)
  <2>7. a \in Int /\ b \in Int /\ c \in Int /\ d \in Int
    <3>1. /\ \A y \in s \cap T : h[y] \in Int
          /\ \A y \in s \cap U : f[y] \in Int
          /\ \A y \in r \cap T : h[y] \in Int
          /\ \A y \in r \cap U : f[y] \in Int
      OBVIOUS
    <3> HIDE DEF r
    <3> QED BY <2>6, <3>1, SumType
  <2>8. a = IF x \in T THEN h[x] + c ELSE c
    <3>1. CASE x \in T
      <4>1. (s \cap T) \ {x} = r \cap T /\ x \in s \cap T
        BY <2>3, <3>1
      <4>2. \A y \in s \cap T : h[y] \in Int
        OBVIOUS
      <4> QED BY <2>6, <3>1, <4>1, <4>2, SumRemove
    <3>2. CASE x \notin T
      <4>1. s \cap T = r \cap T
        BY <3>2
      <4> QED BY <3>2, <4>1
    <3> QED BY <3>1, <3>2
  <2>9. b = IF x \in U THEN f[x] + d ELSE d
    <3>1. CASE x \in U
      <4>1. (s \cap U) \ {x} = r \cap U /\ x \in s \cap U
        BY <2>3, <3>1
      <4>2. \A y \in s \cap U : f[y] \in Int
        OBVIOUS
      <4> QED BY <2>6, <3>1, <4>1, <4>2, SumRemove
    <3>2. CASE x \notin U
      <4>1. s \cap U = r \cap U
        BY <3>2
      <4> QED BY <3>2, <4>1
    <3> QED BY <3>1, <3>2
  <2>10. c <= d /\ ~(a <= b)
    BY <2>1, <2>5
  <2> HIDE DEF a, b, c, d, Bad, P
  <2>11. /\ x \in T => h[x] \in Int
         /\ x \in U => f[x] \in Int
         /\ x \in T /\ x \in U => h[x] <= f[x]
         /\ x \in T /\ x \notin U => h[x] <= 0
         /\ x \notin T /\ x \in U => f[x] >= 0
    OBVIOUS
  <2> QED BY <2>7, <2>8, <2>9, <2>10, <2>11
<1>2. P(S)
  BY <1>1
<1>3. S \cap T = T /\ S \cap U = U
  OBVIOUS
<1> QED BY <1>2, <1>3

-----------------------------------------------------------------------------
(* Minima and maxima *)

IsMin(K, a) == a \in K /\ \A b \in K : a <= b
IsMax(K, a) == a \in K /\ \A b \in K : b <= a

\* A finite set of integers that is not empty has both.
LEMMA FiniteBounds ==
    ASSUME NEW K \in SUBSET Int, IsFiniteSet(K), K # {}
    PROVE  /\ \E a \in K : IsMin(K, a)
           /\ \E a \in K : IsMax(K, a)
<1> DEFINE Bounded(s) == (\E a \in s : IsMin(s, a)) /\ (\E a \in s : IsMax(s, a))
           Bad == {s \in SUBSET K : s # {} /\ ~Bounded(s)}
<1>1. ASSUME Bad # {} PROVE FALSE
  <2>1. PICK s \in Bad : \A t \in Bad : Cardinality(s) <= Cardinality(t)
    <3>1. Bad \in SUBSET (SUBSET K)
      OBVIOUS
    <3> HIDE DEF Bad
    <3> QED BY <1>1, <3>1, SmallestSet
  <2>2. s # {} /\ s \in SUBSET K /\ ~Bounded(s)
    BY <2>1
  <2>3. PICK x \in s : TRUE
    BY <2>2
  <2>4. IsFiniteSet(s) /\ x \in Int
    BY <2>2, FS_Subset
  <2> DEFINE t == s \ {x}
  <2>5. t \notin Bad /\ t \in SUBSET K
    <3>1. /\ Cardinality(s) \in Nat /\ Cardinality(t) \in Nat
          /\ Cardinality(t) = Cardinality(s) - 1
      BY <2>3, <2>4, Smaller
    <3> HIDE DEF Bad, t
    <3>2. t \notin Bad
      BY <2>1, <3>1
    <3> QED BY <2>2, <3>2 DEF t
  <2>6. CASE t = {}
    <3>1. s = {x}
      BY <2>3, <2>6
    <3> QED BY <2>2, <2>4, <3>1 DEF IsMin, IsMax
  <2>7. CASE t # {}
    <3>1. PICK a \in t, b \in t : IsMin(t, a) /\ IsMax(t, b)
      BY <2>5, <2>7
    <3>2. \A y \in s : y = x \/ y \in t
      OBVIOUS
    <3>3. s \subseteq Int /\ a \in s /\ b \in s
      BY <2>2
    <3> HIDE DEF t
    <3>4. IsMin(s, IF x < a THEN x ELSE a)
      BY <2>3, <3>1, <3>2, <3>3 DEF IsMin
    <3>5. IsMax(s, IF x > b THEN x ELSE b)
      BY <2>3, <3>1, <3>2, <3>3 DEF IsMax
    <3> QED BY <2>2, <2>3, <3>3, <3>4, <3>5
  <2> QED BY <2>6, <2>7
<1>2. K \notin Bad
  BY <1>1
<1> QED BY <1>2

\* What Min and Max choose.
LEMMA MinValue ==
    ASSUME NEW K \in SUBSET Int, NEW a, IsMin(K, a) PROVE Min(K) = a
<1>1. \A b \in K : (\A y \in K : b <= y) => b = a
  BY DEF IsMin
<1> QED BY <1>1 DEF Min, IsMin

LEMMA MaxValue ==
    ASSUME NEW K \in SUBSET Int, NEW a, IsMax(K, a) PROVE Max(K) = a
<1>1. \A b \in K : (\A y \in K : b >= y) => b = a
  BY DEF IsMax
<1>2. a \in K /\ \A y \in K : a >= y
  BY DEF IsMax
<1> QED BY <1>1, <1>2 DEF Max

\* The minimum and the maximum of a set with one element more.
LEMMA BoundsAdd ==
    ASSUME NEW K \in SUBSET Int, IsFiniteSet(K), K # {}, NEW x \in Int
    PROVE  /\ Min(K) \in K /\ Max(K) \in K
           /\ Min(K \cup {x}) = IF x < Min(K) THEN x ELSE Min(K)
           /\ Max(K \cup {x}) = IF x > Max(K) THEN x ELSE Max(K)
<1>1. PICK a \in K, b \in K : IsMin(K, a) /\ IsMax(K, b)
  BY FiniteBounds
<1>2. Min(K) = a /\ Max(K) = b
  BY <1>1, MinValue, MaxValue
<1>3. IsMin(K \cup {x}, IF x < a THEN x ELSE a)
  BY <1>1 DEF IsMin
<1>4. IsMax(K \cup {x}, IF x > b THEN x ELSE b)
  BY <1>1 DEF IsMax
<1>5. K \cup {x} \in SUBSET Int
  OBVIOUS
<1>6. /\ Min(K \cup {x}) = IF x < a THEN x ELSE a
      /\ Max(K \cup {x}) = IF x > b THEN x ELSE b
  BY <1>3, <1>4, <1>5, MinValue, MaxValue
<1> QED BY <1>1, <1>2, <1>6

LEMMA BoundsSingle ==
    ASSUME NEW x \in Int PROVE Min({x}) = x /\ Max({x}) = x
<1>1. IsMin({x}, x) /\ IsMax({x}, x) /\ {x} \in SUBSET Int
  BY DEF IsMin, IsMax
<1> QED BY <1>1, MinValue, MaxValue

\* The values a function takes on a finite set are finitely many.
LEMMA FiniteImage ==
    ASSUME NEW S, IsFiniteSet(S), NEW f
    PROVE  IsFiniteSet({f[x] : x \in S})
<1> DEFINE T == {f[x] : x \in S}
           g == [x \in S |-> f[x]]
<1>1. g \in Surjection(S, T)
  BY DEF Surjection
<1> HIDE DEF T, g
<1>2. IsFiniteSet(T)
  BY <1>1, FS_Surjection
<1> QED BY <1>2 DEF T
=============================================================================
