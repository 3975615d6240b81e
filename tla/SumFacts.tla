-------------------------------- MODULE SumFacts --------------------------------
(***************************************************************************)
(* Sums over finite sets, as SumFunctionOnSet of the community modules     *)
(* defines them: by a recursive function on the subsets, that takes away   *)
(* an arbitrary element at each step.                                      *)
(***************************************************************************)
EXTENDS Functions, FiniteSets, FiniteSetTheorems, TLAPS

\* The element that the definition takes away from a set.
Pick(S) == CHOOSE x \in S : TRUE

\* A function on the subsets of S does what the definition asks for.
Sums(f, w, S) ==
    f = [T \in SUBSET S |-> IF T = {} THEN 0 ELSE w[Pick(T)] + f[T \ {Pick(T)}]]

\* Any element of a set may be the one that is taken away.
InAnyOrder(f, w, S) == \A T \in SUBSET S : \A x \in T : f[T] = w[x] + f[T \ {x}]

\* Induction, as the existence of a least set: of the subsets of a finite set that have
\* a property, one has no proper subset with the property.
LEMMA LeastSubset ==
    ASSUME NEW S, IsFiniteSet(S), NEW B \in SUBSET (SUBSET S), B # {}
    PROVE  \E T \in B : \A U \in B : U \subseteq T => U = T
<1>1. IsWellFoundedOn(StrictSubsetOrdering(S), FiniteSubsetsOf(S))
    BY FS_StrictSubsetOrderingWellFounded
<1>2. B \subseteq FiniteSubsetsOf(S)
    BY FS_FiniteSubsetsOfFinite
<1>3. PICK T \in B : \A U \in B : ~(<<U, T>> \in StrictSubsetOrdering(S))
    BY <1>1, <1>2, WFMin, Zenon
<1>4. \A U \in B : U \subseteq T => U = T
    BY <1>3 DEF StrictSubsetOrdering
<1> QED
    BY <1>4

\* A sum is the value of such a function, if there is one.
LEMMA SumIsValue ==
    ASSUME NEW w, NEW S, \E f : Sums(f, w, S)
    PROVE  \E f : Sums(f, w, S) /\ SumFunctionOnSet(w, S) = f[S]
<1> DEFINE sum == CHOOSE f : Sums(f, w, S)
<1>1. Sums(sum, w, S)
    BY Zenon
<1>2. SumFunctionOnSet(w, S) = sum[S]
    BY Zenon DEF SumFunctionOnSet, FoldFunctionOnSet, MapThenFoldSet, sum, Sums, Pick
<1> QED
    BY <1>1, <1>2, Zenon

\* The element taken away is one of the set.
LEMMA PickIsElement ==
    ASSUME NEW S, S # {}
    PROVE  Pick(S) \in S
BY Zenon DEF Pick

\* The recursion, set by set.
LEMMA SumsAt ==
    ASSUME NEW w, NEW S, NEW f, Sums(f, w, S)
    PROVE  /\ f[{}] = 0
           /\ \A T \in SUBSET S : T # {} =>
                 Pick(T) \in T /\ f[T] = w[Pick(T)] + f[T \ {Pick(T)}]
<1> DEFINE g == [T \in SUBSET S |-> IF T = {} THEN 0 ELSE w[Pick(T)] + f[T \ {Pick(T)}]]
<1>1. f = g
    BY Zenon DEF Sums
<1>2. g[{}] = 0
    OBVIOUS
<1>3. ASSUME NEW T \in SUBSET S, T # {}
      PROVE  Pick(T) \in T /\ g[T] = w[Pick(T)] + f[T \ {Pick(T)}]
    BY <1>3, PickIsElement, Zenon
<1> HIDE DEF g
<1> QED
    BY <1>1, <1>2, <1>3, Zenon

\* The values are integers.
LEMMA SumsType ==
    ASSUME NEW S, IsFiniteSet(S), NEW w, \A x \in S : w[x] \in Int, NEW f, Sums(f, w, S)
    PROVE  \A T \in SUBSET S : f[T] \in Int
<1>0. /\ f[{}] = 0
      /\ \A T \in SUBSET S : T # {} =>
            Pick(T) \in T /\ f[T] = w[Pick(T)] + f[T \ {Pick(T)}]
    BY SumsAt
<1> DEFINE B == {T \in SUBSET S : f[T] \notin Int}
<1> SUFFICES ASSUME B # {}
             PROVE  FALSE
    OBVIOUS
<1>1. B \in SUBSET (SUBSET S)
    OBVIOUS
<1>2. PICK T \in B : \A U \in B : U \subseteq T => U = T
  <2> HIDE DEF B
  <2> QED
      BY <1>1, LeastSubset
<1>3. T \in SUBSET S /\ f[T] \notin Int
    OBVIOUS
<1>4. T # {}
  <2>1. f[{}] \in Int
      BY <1>0
  <2> QED
      BY <1>3, <2>1, Zenon
<1>5. PICK p \in T : f[T] = w[p] + f[T \ {p}]
    BY <1>0, <1>3, <1>4
<1>6. T \ {p} \in SUBSET S /\ T \ {p} \notin B
  <2>1. T \ {p} \subseteq T /\ T \ {p} # T
      OBVIOUS
  <2> QED
      BY <1>2, <1>3, <2>1, Zenon
<1>7. f[T \ {p}] \in Int /\ w[p] \in Int
    BY <1>3, <1>6
<1> QED
    BY <1>3, <1>5, <1>7

\* A function on the subsets of a larger set has the same values.
LEMMA SumsUnique ==
    ASSUME NEW S, IsFiniteSet(S), NEW R \in SUBSET S, NEW w, NEW v, \A x \in R : w[x] = v[x],
           NEW f, Sums(f, w, S), NEW g, Sums(g, v, R)
    PROVE  \A T \in SUBSET R : f[T] = g[T]
<1>0. /\ f[{}] = 0
      /\ \A T \in SUBSET S : T # {} =>
            Pick(T) \in T /\ f[T] = w[Pick(T)] + f[T \ {Pick(T)}]
    BY SumsAt
<1>9. /\ g[{}] = 0
      /\ \A T \in SUBSET R : T # {} =>
            Pick(T) \in T /\ g[T] = v[Pick(T)] + g[T \ {Pick(T)}]
    BY SumsAt
<1> DEFINE B == {T \in SUBSET R : f[T] # g[T]}
<1> SUFFICES ASSUME B # {}
             PROVE  FALSE
    OBVIOUS
<1>1. B \in SUBSET (SUBSET R) /\ IsFiniteSet(R)
    BY FS_Subset
<1>2. PICK T \in B : \A U \in B : U \subseteq T => U = T
  <2> HIDE DEF B
  <2> QED
      BY <1>1, LeastSubset
<1>3. T \in SUBSET R /\ T \in SUBSET S /\ f[T] # g[T]
    OBVIOUS
<1>4. T # {}
    BY <1>0, <1>3, <1>9
<1> DEFINE p == Pick(T)
<1>5. p \in T /\ f[T] = w[p] + f[T \ {p}] /\ g[T] = v[p] + g[T \ {p}]
    BY <1>0, <1>3, <1>4, <1>9
<1> HIDE DEF p
<1>6. T \ {p} \in SUBSET R /\ T \ {p} \notin B
  <2>1. T \ {p} \subseteq T /\ T \ {p} # T
      BY <1>5
  <2> QED
      BY <1>2, <1>3, <2>1, Zenon
<1>7. f[T \ {p}] = g[T \ {p}] /\ w[p] = v[p]
    BY <1>3, <1>5, <1>6
<1> QED
    BY <1>3, <1>5, <1>7, Zenon

\* Any element may be taken away instead.
LEMMA SumsAny ==
    ASSUME NEW S, IsFiniteSet(S), NEW w, \A x \in S : w[x] \in Int, NEW f, Sums(f, w, S)
    PROVE  InAnyOrder(f, w, S)
<1>0. /\ f[{}] = 0
      /\ \A T \in SUBSET S : T # {} =>
            Pick(T) \in T /\ f[T] = w[Pick(T)] + f[T \ {Pick(T)}]
    BY SumsAt
<1> DEFINE B == {T \in SUBSET S : \E x \in T : f[T] # w[x] + f[T \ {x}]}
<1> SUFFICES ASSUME B # {}
             PROVE  FALSE
    BY DEF InAnyOrder
<1>1. B \in SUBSET (SUBSET S)
    OBVIOUS
<1>2. PICK T \in B : \A U \in B : U \subseteq T => U = T
  <2> HIDE DEF B
  <2> QED
      BY <1>1, LeastSubset
<1>3. T \in SUBSET S
    OBVIOUS
<1>4. PICK x \in T : f[T] # w[x] + f[T \ {x}]
    OBVIOUS
<1> DEFINE p == Pick(T)
           both == T \ {x, p}
<1>5. p \in T /\ f[T] = w[p] + f[T \ {p}]
  <2>1. T # {}
      OBVIOUS
  <2> QED
      BY <1>0, <1>3, <2>1
<1> HIDE DEF p
<1>6. x # p
    BY <1>4, <1>5
<1>7. \A y \in T : \A z \in T \ {y} : f[T \ {y}] = w[z] + f[(T \ {y}) \ {z}]
  <2> SUFFICES ASSUME NEW y \in T, NEW z \in T \ {y}
               PROVE  f[T \ {y}] = w[z] + f[(T \ {y}) \ {z}]
      OBVIOUS
  <2>1. T \ {y} \subseteq T /\ T \ {y} # T /\ T \ {y} \in SUBSET S
      BY <1>3
  <2>2. T \ {y} \notin B
      BY <1>2, <2>1, Zenon
  <2> QED
      BY <2>1, <2>2, Zenon
<1>8. (T \ {p}) \ {x} = both /\ (T \ {x}) \ {p} = both
    OBVIOUS
<1>9. f[T \ {p}] = w[x] + f[both] /\ f[T \ {x}] = w[p] + f[both]
  <2>1. x \in T \ {p} /\ p \in T \ {x}
      BY <1>5, <1>6
  <2> QED
      BY <1>5, <1>7, <1>8, <2>1, Zenon
<1>10. both \in SUBSET S /\ x \in S /\ p \in S
    BY <1>3, <1>5
<1>11. f[both] \in Int /\ w[x] \in Int /\ w[p] \in Int
    BY <1>10, SumsType
<1> HIDE DEF both, B
<1> QED
    BY <1>4, <1>5, <1>9, <1>11

\* There is such a function: by induction on the size of the subsets.
LEMMA SumsExists ==
    ASSUME NEW S, IsFiniteSet(S), NEW w
    PROVE  \E f : Sums(f, w, S)
<1> DEFINE N == Cardinality(S)
           Small(n) == {T \in SUBSET S : Cardinality(T) <= n}
           Value(f, T) == IF T = {} THEN 0 ELSE w[Pick(T)] + f[T \ {Pick(T)}]
           Done(n) == \E f : f = [T \in Small(n) |-> Value(f, T)]
           B == {0..n : n \in {m \in 0..N : ~Done(m)}}
<1>1. N \in Nat /\ \A T \in SUBSET S : IsFiniteSet(T) /\ Cardinality(T) \in 0..N
    BY FS_CardinalityType, FS_Subset
<1>2. Small(N) = SUBSET S
    BY <1>1
<1>3. Done(0)
  <2>1. \A T \in Small(0) : T = {}
    <3> SUFFICES ASSUME NEW T \in Small(0) PROVE T = {}
        OBVIOUS
    <3>1. IsFiniteSet(T) /\ Cardinality(T) = 0
        BY <1>1
    <3> QED
        BY <3>1, FS_EmptySet
  <2> DEFINE f == [T \in Small(0) |-> 0]
  <2>2. f = [T \in Small(0) |-> Value(f, T)]
      BY <2>1
  <2> QED
      BY <2>2
<1>4. ASSUME NEW n \in Nat, Done(n)
      PROVE  Done(n + 1)
  <2>1. PICK f : f = [T \in Small(n) |-> Value(f, T)]
      BY <1>4
  <2> DEFINE g == [T \in Small(n + 1) |-> Value(f, T)]
  <2>2. \A T \in Small(n) : T \in Small(n + 1) /\ g[T] = f[T]
    <3> SUFFICES ASSUME NEW T \in Small(n)
                 PROVE  T \in Small(n + 1) /\ g[T] = f[T]
        OBVIOUS
    <3>1. T \in Small(n + 1)
        BY <1>1
    <3>2. f[T] = Value(f, T)
      <4> HIDE DEF Small, Value
      <4> QED
          BY <2>1, Zenon
    <3>3. g[T] = Value(f, T)
      <4> HIDE DEF Small, Value
      <4> QED
          BY <3>1, Zenon
    <3> QED
        BY <3>1, <3>2, <3>3
  <2>3. ASSUME NEW T \in Small(n + 1)
        PROVE  Value(g, T) = Value(f, T)
    <3>1. CASE T = {}
        BY <3>1
    <3>2. CASE T # {}
      <4>1. Pick(T) \in T /\ IsFiniteSet(T)
          BY <1>1, <3>2, PickIsElement
      <4>2. T \ {Pick(T)} \in Small(n)
        <5>1. Cardinality(T \ {Pick(T)}) = Cardinality(T) - 1
            BY <4>1, FS_RemoveElement
        <5> QED
            BY <1>1, <5>1
      <4>3. g[T \ {Pick(T)}] = f[T \ {Pick(T)}]
          BY <2>2, <4>2
      <4> HIDE DEF g
      <4> QED
          BY <3>2, <4>3
    <3> QED
        BY <3>1, <3>2
  <2>4. g = [T \in Small(n + 1) |-> Value(g, T)]
    <3>1. [T \in Small(n + 1) |-> Value(g, T)] = [T \in Small(n + 1) |-> Value(f, T)]
      <4> HIDE DEF Small, Value, g
      <4> QED
          BY <2>3
    <3> QED
        BY <3>1
  <2> HIDE DEF g, Small, Value
  <2> QED
      BY <2>4
<1>5. Done(N)
  <2> HIDE DEF Done
  <2> SUFFICES ASSUME ~Done(N)
               PROVE  FALSE
      OBVIOUS
  <2> HIDE DEF N
  <2>1. B \in SUBSET (SUBSET (0..N)) /\ B # {}
    <3>1. 0..N \in B
        BY <1>1
    <3>2. \A n \in 0..N : 0..n \subseteq 0..N
        BY <1>1
    <3> QED
        BY <3>1, <3>2
  <2>2. IsFiniteSet(0..N)
      BY <1>1, FS_Interval
  <2>3. PICK T \in B : \A U \in B : U \subseteq T => U = T
    <3> DEFINE R == 0..N
    <3>1. B \in SUBSET (SUBSET R) /\ B # {} /\ IsFiniteSet(R)
        BY <2>1, <2>2
    <3> HIDE DEF B, R
    <3> QED
        BY <3>1, LeastSubset
  <2>4. PICK n \in 0..N : T = 0..n /\ ~Done(n)
      BY <2>3
  <2>5. n # 0
      BY <1>3, <2>4
  <2>6. n - 1 \in 0..N /\ n - 1 \in Nat /\ (n - 1) + 1 = n
      BY <1>1, <2>5
  <2>7. ~Done(n - 1)
      BY <1>4, <2>4, <2>6
  <2>8. 0..(n - 1) \in B
      BY <2>6, <2>7
  <2>9. 0..(n - 1) \subseteq 0..n /\ 0..(n - 1) # 0..n
      BY <1>1, <2>5
  <2> QED
      BY <2>3, <2>4, <2>8, <2>9
<1> QED
  <2>1. PICK f : f = [T \in SUBSET S |-> Value(f, T)]
      BY <1>2, <1>5
  <2> QED
      BY <2>1 DEF Sums

--------------------------------------------------------------------------------
(***************************************************************************)
(* What the rest of the project uses.                                      *)
(***************************************************************************)

\* The empty sum is 0.
LEMMA SumOfNone ==
    ASSUME NEW w
    PROVE  SumFunctionOnSet(w, {}) = 0
<1>1. IsFiniteSet({})
    BY FS_EmptySet
<1>2. PICK f : Sums(f, w, {}) /\ SumFunctionOnSet(w, {}) = f[{}]
    BY <1>1, SumsExists, SumIsValue
<1>3. f[{}] = 0
    BY <1>2, SumsAt
<1> QED
    BY <1>2, <1>3

\* A sum is an integer, and any element may be taken out of it.
LEMMA SumWithout ==
    ASSUME NEW S, IsFiniteSet(S), NEW w, \A x \in S : w[x] \in Int
    PROVE  /\ SumFunctionOnSet(w, S) \in Int
           /\ \A x \in S :
                 SumFunctionOnSet(w, S) = w[x] + SumFunctionOnSet(w, S \ {x})
<1>1. PICK f : Sums(f, w, S) /\ SumFunctionOnSet(w, S) = f[S]
    BY SumsExists, SumIsValue
<1>2. f[S] \in Int
    BY <1>1, SumsType
<1>4. InAnyOrder(f, w, S)
    BY <1>1, SumsAny
<1>3. ASSUME NEW x \in S
      PROVE  SumFunctionOnSet(w, S) = w[x] + SumFunctionOnSet(w, S \ {x})
  <2> DEFINE R == S \ {x}
  <2>1. R \in SUBSET S /\ IsFiniteSet(R)
      BY FS_Subset
  <2> HIDE DEF R
  <2>2. PICK g : Sums(g, w, R) /\ SumFunctionOnSet(w, R) = g[R]
      BY <2>1, SumsExists, SumIsValue
  <2>3. \A T \in SUBSET R : f[T] = g[T]
      BY <1>1, <2>1, <2>2, SumsUnique
  <2>4. f[R] = g[R]
      BY <2>3
  <2>5. f[S] = w[x] + f[R]
      BY <1>4 DEF R, InAnyOrder
  <2> QED
      BY <1>1, <2>2, <2>4, <2>5 DEF R
<1> QED
    BY <1>1, <1>2, <1>3

\* Larger terms, larger sum.
LEMMA SumMonotone ==
    ASSUME NEW S, IsFiniteSet(S),
           NEW w, NEW v, \A x \in S : w[x] \in Int /\ v[x] \in Int /\ w[x] <= v[x]
    PROVE  SumFunctionOnSet(w, S) <= SumFunctionOnSet(v, S)
<1> DEFINE B == {T \in SUBSET S : ~(SumFunctionOnSet(w, T) <= SumFunctionOnSet(v, T))}
<1> SUFFICES ASSUME B # {}
             PROVE  FALSE
    OBVIOUS
<1>1. B \in SUBSET (SUBSET S)
    OBVIOUS
<1>2. PICK T \in B : \A U \in B : U \subseteq T => U = T
  <2> HIDE DEF B
  <2> QED
      BY <1>1, LeastSubset
<1>3. T \in SUBSET S /\ ~(SumFunctionOnSet(w, T) <= SumFunctionOnSet(v, T))
    OBVIOUS
<1>4. T # {}
  <2>1. SumFunctionOnSet(w, {}) = 0 /\ SumFunctionOnSet(v, {}) = 0
      BY SumOfNone
  <2>2. SumFunctionOnSet(w, {}) <= SumFunctionOnSet(v, {})
      BY <2>1
  <2> QED
      BY <1>3, <2>2, Zenon
<1>5. PICK p \in T : p \in S
    BY <1>3, <1>4
<1> DEFINE R == T \ {p}
<1>6. R \in SUBSET S /\ IsFiniteSet(R) /\ IsFiniteSet(T)
    BY <1>3, FS_Subset
<1>7. SumFunctionOnSet(w, R) <= SumFunctionOnSet(v, R)
  <2>1. R \notin B
      BY <1>2, <1>5
  <2> QED
      BY <1>6, <2>1
<1>8. /\ SumFunctionOnSet(w, T) = w[p] + SumFunctionOnSet(w, R)
      /\ SumFunctionOnSet(v, T) = v[p] + SumFunctionOnSet(v, R)
    BY <1>3, <1>6, SumWithout
<1> HIDE DEF R
<1>9. SumFunctionOnSet(w, R) \in Int /\ SumFunctionOnSet(v, R) \in Int
    BY <1>6, SumWithout
<1> QED
    BY <1>3, <1>5, <1>7, <1>8, <1>9

\* The same terms, the same sum.
LEMMA SumSame ==
    ASSUME NEW S, IsFiniteSet(S),
           NEW w, NEW v, \A x \in S : w[x] \in Int /\ v[x] = w[x]
    PROVE  SumFunctionOnSet(v, S) = SumFunctionOnSet(w, S)
<1>1. SumFunctionOnSet(w, S) <= SumFunctionOnSet(v, S)
    BY SumMonotone
<1>2. SumFunctionOnSet(v, S) <= SumFunctionOnSet(w, S)
    BY SumMonotone
<1>3. SumFunctionOnSet(v, S) \in Int /\ SumFunctionOnSet(w, S) \in Int
    BY SumWithout
<1> QED
    BY <1>1, <1>2, <1>3

\* Two functions that differ in one term: the sums differ by as much.
LEMMA SumOfChange ==
    ASSUME NEW S, IsFiniteSet(S), NEW x \in S,
           NEW w, NEW v, \A y \in S : w[y] \in Int /\ v[y] \in Int,
           \A y \in S \ {x} : v[y] = w[y]
    PROVE  SumFunctionOnSet(v, S) - v[x] = SumFunctionOnSet(w, S) - w[x]
<1> DEFINE R == S \ {x}
<1>1. IsFiniteSet(R) /\ R \subseteq S
    BY FS_Subset
<1>2. /\ SumFunctionOnSet(v, S) = v[x] + SumFunctionOnSet(v, R)
      /\ SumFunctionOnSet(w, S) = w[x] + SumFunctionOnSet(w, R)
    BY SumWithout
<1>3. SumFunctionOnSet(v, R) = SumFunctionOnSet(w, R)
  <2>1. \A y \in R : w[y] \in Int /\ v[y] = w[y]
      OBVIOUS
  <2> HIDE DEF R
  <2> QED
      BY <1>1, <2>1, SumSame
<1>4. SumFunctionOnSet(w, R) \in Int
    BY <1>1, SumWithout
<1> HIDE DEF R
<1> QED
    BY <1>2, <1>3, <1>4

\* Without negative terms: no term is more than the sum, nor are two.
LEMMA SumOfNaturals ==
    ASSUME NEW S, IsFiniteSet(S), NEW w, \A x \in S : w[x] \in Nat
    PROVE  /\ SumFunctionOnSet(w, S) \in Nat
           /\ \A x \in S : w[x] <= SumFunctionOnSet(w, S)
           /\ \A x, y \in S : x # y => w[x] + w[y] <= SumFunctionOnSet(w, S)
<1> DEFINE zero == [x \in S |-> 0]
           B == {T \in SUBSET S : SumFunctionOnSet(w, T) \notin Nat}
<1>1. \A T \in SUBSET S : SumFunctionOnSet(w, T) \in Nat
  <2> SUFFICES ASSUME B # {}
               PROVE  FALSE
      OBVIOUS
  <2>1. B \in SUBSET (SUBSET S)
      OBVIOUS
  <2>2. PICK T \in B : \A U \in B : U \subseteq T => U = T
    <3> HIDE DEF B
    <3> QED
        BY <2>1, LeastSubset
  <2>3. T \in SUBSET S /\ SumFunctionOnSet(w, T) \notin Nat
      OBVIOUS
  <2>4. T # {}
    <3>1. SumFunctionOnSet(w, {}) \in Nat
        BY SumOfNone
    <3> QED
        BY <2>3, <3>1, Zenon
  <2>5. PICK p \in T : p \in S
      BY <2>3, <2>4
  <2>6. T \ {p} \in SUBSET S /\ IsFiniteSet(T)
      BY <2>3, FS_Subset
  <2>7. SumFunctionOnSet(w, T \ {p}) \in Nat
    <3>1. T \ {p} \notin B
        BY <2>2, <2>5
    <3> QED
        BY <2>6, <3>1
  <2>8. SumFunctionOnSet(w, T) = w[p] + SumFunctionOnSet(w, T \ {p})
      BY <2>3, <2>6, SumWithout
  <2> QED
      BY <2>3, <2>5, <2>7, <2>8
<1>2. ASSUME NEW x \in S
      PROVE  /\ w[x] <= SumFunctionOnSet(w, S)
             /\ \A y \in S : x # y => w[x] + w[y] <= SumFunctionOnSet(w, S)
  <2> DEFINE R == S \ {x}
  <2>1. SumFunctionOnSet(w, S) = w[x] + SumFunctionOnSet(w, R)
      BY SumWithout
  <2>2. SumFunctionOnSet(w, R) \in Nat /\ IsFiniteSet(R)
      BY <1>1, FS_Subset
  <2>3. ASSUME NEW y \in S, x # y
        PROVE  w[y] <= SumFunctionOnSet(w, R)
    <3>1. SumFunctionOnSet(w, R) = w[y] + SumFunctionOnSet(w, R \ {y})
        BY <2>2, <2>3, SumWithout
    <3>2. SumFunctionOnSet(w, R \ {y}) \in Nat
        BY <1>1
    <3> QED
        BY <3>1, <3>2
  <2> HIDE DEF R
  <2> QED
      BY <2>1, <2>2, <2>3
<1> QED
    BY <1>1, <1>2

\* All terms but one are 0: the sum is that term.
LEMMA SumOfOne ==
    ASSUME NEW S, IsFiniteSet(S), NEW x \in S, NEW w, w[x] \in Int,
           \A y \in S \ {x} : w[y] = 0
    PROVE  SumFunctionOnSet(w, S) = w[x]
<1> DEFINE R == S \ {x}
           B == {T \in SUBSET R : SumFunctionOnSet(w, T) # 0}
<1>1. IsFiniteSet(R) /\ R \subseteq S
    BY FS_Subset
<1>2. \A T \in SUBSET R : SumFunctionOnSet(w, T) = 0
  <2> SUFFICES ASSUME B # {}
               PROVE  FALSE
      OBVIOUS
  <2>1. B \in SUBSET (SUBSET R)
      OBVIOUS
  <2>2. PICK T \in B : \A U \in B : U \subseteq T => U = T
    <3> HIDE DEF B, R
    <3> QED
        BY <1>1, <2>1, LeastSubset
  <2>3. T \in SUBSET R /\ SumFunctionOnSet(w, T) # 0
      OBVIOUS
  <2>4. PICK p \in T : p \in R
      BY <2>3, SumOfNone
  <2>5. T \ {p} \in SUBSET R /\ IsFiniteSet(T)
      BY <1>1, <2>3, FS_Subset
  <2>6. SumFunctionOnSet(w, T \ {p}) = 0
    <3>1. T \ {p} \notin B
        BY <2>2, <2>4
    <3> QED
        BY <2>5, <3>1
  <2>7. SumFunctionOnSet(w, T) = w[p] + SumFunctionOnSet(w, T \ {p})
      BY <2>3, <2>5, SumWithout
  <2>8. w[p] = 0
      BY <2>4
  <2> QED
      BY <2>3, <2>6, <2>7, <2>8
<1>3. \A y \in S : w[y] \in Int
    OBVIOUS
<1>4. SumFunctionOnSet(w, S) = w[x] + SumFunctionOnSet(w, R)
    BY <1>3, SumWithout
<1>5. SumFunctionOnSet(w, R) = 0
    BY <1>2
<1> HIDE DEF R
<1> QED
    BY <1>4, <1>5

\* No terms but 0: the sum is 0.
LEMMA SumOfZeros ==
    ASSUME NEW S, IsFiniteSet(S), NEW w, \A x \in S : w[x] = 0
    PROVE  SumFunctionOnSet(w, S) = 0
<1>1. CASE S = {}
    BY <1>1, SumOfNone
<1>2. CASE S # {}
  <2>1. PICK x \in S : TRUE
      BY <1>2
  <2>2. SumFunctionOnSet(w, S) = w[x]
      BY SumOfOne
  <2> QED
      BY <2>2
<1> QED
    BY <1>1, <1>2
=================================================================================
