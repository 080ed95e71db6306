---------------------------- MODULE NumberProofs ---------------------------
(***************************************************************************)
(* Facts about numbers that other proofs rest on: sets of natural numbers  *)
(* have a least element and, below a bound, a greatest one, which is how   *)
(* those proofs go by induction; what the sum over a finite set is; how    *)
(* sums and remainders go together; and that timestamps are ordered and    *)
(* clocks go forward (hlc.rs).                                             *)
(***************************************************************************)
EXTENDS Hlc, FiniteSetsExt, FiniteSetTheorems, NaturalsInduction, WellFoundedInduction, TLAPS

LEMMA Least ==
  ASSUME NEW T \in SUBSET Nat, T # {}
  PROVE  \E x \in T : \A y \in T : x <= y
<1>1. PICK x \in T : \A y \in T : ~ (<<y, x>> \in OpToRel(<, Nat))
  BY WFMin, NatLessThanWellFounded
<1>2. \A y \in T : ~ (y < x)
  BY <1>1 DEF OpToRel
<1> QED
  BY <1>2

LEMMA Greatest ==
  ASSUME NEW n \in Nat, NEW T \in SUBSET (0..n), T # {}
  PROVE  \E x \in T : \A y \in T : y <= x
<1> DEFINE D == {n - x : x \in T}
<1>1. D \in SUBSET Nat /\ D # {}
  <2>1. \A x \in T : x \in Nat /\ n - x \in Nat
    OBVIOUS
  <2> QED
    BY <2>1
<1>2. PICK d \in D : \A e \in D : d <= e
  <2> HIDE DEF D
  <2> QED
    BY <1>1, Least
<1>3. PICK x \in T : d = n - x
  OBVIOUS
<1>4. \A y \in T : n - x <= n - y
  BY <1>2, <1>3
<1> QED
  BY <1>4

\* The maximum and the minimum are the elements that they should be.
LEMMA MaxIs ==
  ASSUME NEW T \in SUBSET Nat, NEW m \in T, \A y \in T : y <= m
  PROVE  Max(T) = m
<1>1. \E x \in T : \A y \in T : x >= y
  OBVIOUS
<1>2. Max(T) \in T /\ \A y \in T : Max(T) >= y
  BY <1>1, Zenon DEF Max
<1> HIDE DEF Max
<1>3. Max(T) \in Nat /\ m \in Nat
  BY <1>2
<1> QED
  BY <1>2, <1>3

LEMMA MinIs ==
  ASSUME NEW T \in SUBSET Nat, NEW m \in T, \A y \in T : m <= y
  PROVE  Min(T) = m
<1>1. \E x \in T : \A y \in T : x =< y
  OBVIOUS
<1>2. Min(T) \in T /\ \A y \in T : Min(T) =< y
  BY <1>1, Zenon DEF Min
<1> HIDE DEF Min
<1>3. Min(T) \in Nat /\ m \in Nat
  BY <1>2
<1> QED
  BY <1>2, <1>3

LEMMA MaxExists ==
  ASSUME NEW n \in Nat, NEW T \in SUBSET (0..n), T # {}
  PROVE  Max(T) \in T /\ \A y \in T : y <= Max(T)
<1>1. PICK m \in T : \A y \in T : y <= m
  BY Greatest
<1>2. Max(T) = m
  BY <1>1, MaxIs
<1> QED
  BY <1>1, <1>2

LEMMA MinExists ==
  ASSUME NEW T \in SUBSET Nat, T # {}
  PROVE  Min(T) \in T /\ \A y \in T : Min(T) <= y
<1>1. PICK m \in T : \A y \in T : m <= y
  BY Least
<1>2. Min(T) = m
  BY <1>1, MinIs
<1> QED
  BY <1>1, <1>2

-----------------------------------------------------------------------------
\* Induction on natural numbers, for a set of them ...
LEMMA AllNumbers ==
  ASSUME NEW P, 0 \in P, \A n \in Nat : n \in P => n + 1 \in P
  PROVE  \A n \in Nat : n \in P
<1> DEFINE Bad == {n \in Nat : n \notin P}
<1> SUFFICES ASSUME Bad # {} PROVE FALSE
  OBVIOUS
<1>1. PICK n \in Bad : \A m \in Bad : n <= m
  <2>1. Bad \in SUBSET Nat
    OBVIOUS
  <2> HIDE DEF Bad
  <2> QED
    BY <2>1, Least
<1>2. n \in Nat /\ n # 0 /\ n - 1 \in Nat
  OBVIOUS
<1>3. n - 1 \in P
  BY <1>1, <1>2
<1>4. (n - 1) + 1 = n
  BY <1>2
<1> QED
  BY <1>2, <1>3, <1>4

\* ... and on the subsets of a finite set, for a set of those.
LEMMA AllSubsets ==
  ASSUME NEW S, IsFiniteSet(S), NEW P, {} \in P,
         \A T \in SUBSET S : T # {} /\ (\A x \in T : T \ {x} \in P) => T \in P
  PROVE  \A T \in SUBSET S : T \in P
<1> DEFINE Q == {n \in Nat : \A T \in SUBSET S : Cardinality(T) = n => T \in P}
<1>1. \A T \in SUBSET S : IsFiniteSet(T) /\ Cardinality(T) \in Nat
  BY FS_Subset, FS_CardinalityType
<1>2. 0 \in Q
  <2> SUFFICES ASSUME NEW T \in SUBSET S, Cardinality(T) = 0 PROVE T \in P
    OBVIOUS
  <2>1. T = {}
    BY <1>1, FS_EmptySet
  <2> QED
    BY <2>1
<1>3. ASSUME NEW n \in Nat, n \in Q PROVE n + 1 \in Q
  <2> SUFFICES ASSUME NEW T \in SUBSET S, Cardinality(T) = n + 1 PROVE T \in P
    OBVIOUS
  <2>1. T # {}
    <3>1. Cardinality({}) = 0 /\ n + 1 # 0
      BY FS_EmptySet
    <3> QED
      BY <3>1, Zenon
  <2>2. ASSUME NEW x \in T PROVE T \ {x} \in P
    <3>1. Cardinality(T \ {x}) = (n + 1) - 1
      BY <1>1, FS_RemoveElement
    <3>2. Cardinality(T \ {x}) = n
      BY <3>1
    <3> QED
      BY <1>3, <3>2
  <2> QED
    BY <2>1, <2>2
<1>4. \A n \in Nat : n \in Q
  <2> HIDE DEF Q
  <2> QED
    BY <1>2, <1>3, AllNumbers
<1> QED
  BY <1>1, <1>4

-----------------------------------------------------------------------------
\* A sum over a finite set is a fold, which is taken apart here.  (What a fold
\* computes is proved for this one, since a proof cannot take an operator as a
\* parameter.)

\* The element that the fold takes next.
Pick(T) == CHOOSE x \in T : TRUE

\* g has the sums of f over the sets in U, each from that of a smaller set.
Partial(f, U, g) == g = [T \in U |-> IF T = {} THEN 0 ELSE f[Pick(T)] + g[T \ {Pick(T)}]]

\* The subsets of S with at most n elements.
Below(S, n) == {T \in SUBSET S : Cardinality(T) <= n}

\* SumFunctionOnSet is such a sum.
LEMMA SumIs ==
  ASSUME NEW f, NEW S
  PROVE  SumFunctionOnSet(f, S) = (CHOOSE g : Partial(f, SUBSET S, g))[S]
BY DEF SumFunctionOnSet, FoldFunctionOnSet, MapThenFoldSet, Partial, Pick

LEMMA PickIs == \A T : T # {} => Pick(T) \in T
BY DEF Pick

\* A sum can be computed, whatever set it is over.
LEMMA PartialSums ==
  ASSUME NEW S, IsFiniteSet(S), NEW f
  PROVE  \E g : Partial(f, SUBSET S, g)
<1> DEFINE P == {n \in Nat : \E g : Partial(f, Below(S, n), g)}
<1>0. \A T \in SUBSET S : IsFiniteSet(T) /\ Cardinality(T) \in Nat /\ Cardinality(T) <= Cardinality(S)
  BY FS_Subset, FS_CardinalityType
<1>1. 0 \in P
  <2>1. Below(S, 0) = {{}}
    BY <1>0, FS_EmptySet DEF Below
  <2>2. Partial(f, Below(S, 0), [T \in Below(S, 0) |-> 0])
    BY <2>1 DEF Partial
  <2> QED
    BY <2>2
<1>2. ASSUME NEW n \in Nat, n \in P PROVE n + 1 \in P
  <2>1. PICK g : Partial(f, Below(S, n), g)
    BY <1>2
  <2> DEFINE h == [T \in Below(S, n + 1) |-> IF T = {} THEN 0 ELSE f[Pick(T)] + g[T \ {Pick(T)}]]
  <2>2. ASSUME NEW T \in Below(S, n + 1), T # {}
        PROVE  T \ {Pick(T)} \in Below(S, n) /\ T \ {Pick(T)} \in Below(S, n + 1)
    <3>1. T \in SUBSET S /\ Cardinality(T) <= n + 1 /\ Pick(T) \in T
      BY <2>2, PickIs DEF Below
    <3>2. IsFiniteSet(T) /\ Cardinality(T) \in Nat
      BY <1>0, <3>1
    <3>3. Cardinality(T \ {Pick(T)}) = Cardinality(T) - 1
      BY <3>1, <3>2, FS_RemoveElement
    <3>4. Cardinality(T \ {Pick(T)}) <= n /\ Cardinality(T \ {Pick(T)}) <= n + 1
      BY <3>1, <3>2, <3>3
    <3> QED
      BY <3>1, <3>4 DEF Below
  <2>3. \A T \in Below(S, n) : g[T] = IF T = {} THEN 0 ELSE f[Pick(T)] + g[T \ {Pick(T)}]
    BY <2>1, Zenon DEF Partial
  <2>4. \A T \in Below(S, n) : T \in Below(S, n + 1)
    BY <1>0 DEF Below
  <2>5. \A T \in Below(S, n) : h[T] = g[T]
    BY <2>3, <2>4
  <2>6. \A T \in Below(S, n + 1) : T # {} => h[T \ {Pick(T)}] = g[T \ {Pick(T)}]
    BY <2>2, <2>5
  <2>7. Partial(f, Below(S, n + 1), h)
    BY <2>6 DEF Partial
  <2> QED
    BY <2>7
<1>3. Cardinality(S) \in P
  <2> HIDE DEF P
  <2>1. Cardinality(S) \in Nat
    BY FS_CardinalityType
  <2> QED
    BY <1>1, <1>2, <2>1, AllNumbers
<1>4. Below(S, Cardinality(S)) = SUBSET S
  BY <1>0 DEF Below
<1> QED
  BY <1>3, <1>4

\* g and h agree on T; f and e agree on the elements of T.
SameAt(g, h, T) == g[T] = h[T]
Alike(f, e, T) == \A x \in T : f[x] = e[x]

\* What a sum is does not depend on what else there is to sum.
LEMMA PartialSame ==
  ASSUME NEW S, NEW f, NEW g, Partial(f, SUBSET S, g),
         NEW R, NEW e, NEW h, Partial(e, SUBSET R, h),
         NEW T, T \in SUBSET S, T \in SUBSET R, IsFiniteSet(T), Alike(f, e, T)
  PROVE  SameAt(g, h, T)
<1> DEFINE P == {U \in SUBSET T : g[U] = h[U]}
<1>1. \A U \in SUBSET T : g[U] = IF U = {} THEN 0 ELSE f[Pick(U)] + g[U \ {Pick(U)}]
  BY Zenon DEF Partial
<1>2. \A U \in SUBSET T : h[U] = IF U = {} THEN 0 ELSE e[Pick(U)] + h[U \ {Pick(U)}]
  BY Zenon DEF Partial
<1>3. {} \in P
  BY <1>1, <1>2
<1>4. ASSUME NEW U \in SUBSET T, U # {}, \A x \in U : U \ {x} \in P PROVE U \in P
  <2>1. Pick(U) \in U
    BY <1>4, PickIs
  <2>2. g[U \ {Pick(U)}] = h[U \ {Pick(U)}] /\ f[Pick(U)] = e[Pick(U)]
    BY <1>4, <2>1 DEF Alike
  <2> QED
    BY <1>1, <1>2, <1>4, <2>2
<1> HIDE DEF P
<1>5. T \in P
  BY <1>3, <1>4, AllSubsets
<1> QED
  BY <1>5 DEF P, SameAt

\* Pick element can be the first.
\* Sums of integers are integers.
LEMMA PartialType ==
  ASSUME NEW S, IsFiniteSet(S), NEW f, \A x \in S : f[x] \in Int,
         NEW g, Partial(f, SUBSET S, g)
  PROVE  \A U \in SUBSET S : g[U] \in Int
<1> DEFINE P == {U \in SUBSET S : g[U] \in Int}
<1>1. \A U \in SUBSET S : g[U] = IF U = {} THEN 0 ELSE f[Pick(U)] + g[U \ {Pick(U)}]
  BY Zenon DEF Partial
<1>e. g[{}] = 0
  BY <1>1
<1>p. \A U \in SUBSET S : U \in P <=> g[U] \in Int
  OBVIOUS
<1> HIDE DEF P
<1>2. {} \in P
  BY <1>e, <1>p
<1>3. ASSUME NEW U \in SUBSET S, U # {}, \A x \in U : U \ {x} \in P PROVE U \in P
  <2>1. Pick(U) \in U
    BY <1>3, PickIs
  <2>2. g[U] = f[Pick(U)] + g[U \ {Pick(U)}]
    BY <1>1, <1>3, Zenon
  <2>3. U \ {Pick(U)} \in P /\ U \ {Pick(U)} \in SUBSET S
    BY <1>3, <2>1
  <2>4. g[U \ {Pick(U)}] \in Int /\ f[Pick(U)] \in Int
    BY <1>p, <2>1, <2>3
  <2> QED
    BY <1>p, <2>2, <2>4
<1>4. \A U \in SUBSET S : U \in P
  BY <1>2, <1>3, AllSubsets
<1> QED
  BY <1>p, <1>4

\* Any element can be the first.
LEMMA PartialStep ==
  ASSUME NEW S, IsFiniteSet(S), NEW f, \A x \in S : f[x] \in Int,
         NEW g, Partial(f, SUBSET S, g)
  PROVE  \A y \in S : g[S] = f[y] + g[S \ {y}]
<1> DEFINE P == {U \in SUBSET S : \A y \in U : g[U] = f[y] + g[U \ {y}]}
<1>1. \A U \in SUBSET S : U # {} => g[U] = f[Pick(U)] + g[U \ {Pick(U)}]
  BY Zenon DEF Partial
<1>t. \A U \in SUBSET S : g[U] \in Int
  BY PartialType
<1>p. \A U \in SUBSET S : U \in P <=> \A y \in U : g[U] = f[y] + g[U \ {y}]
  OBVIOUS
<1> HIDE DEF P
<1>2. {} \in P
  BY <1>p
<1>3. ASSUME NEW U \in SUBSET S, U # {}, \A x \in U : U \ {x} \in P PROVE U \in P
  <2> DEFINE a == Pick(U)
  <2>1. a \in U
    BY <1>3, PickIs
  <2>2. g[U] = f[a] + g[U \ {a}]
    BY <1>1, <1>3
  <2> HIDE DEF a
  <2>3. ASSUME NEW y \in U, y # a PROVE g[U] = f[y] + g[U \ {y}]
    <3>1. y \in U \ {a} /\ a \in U \ {y} /\ (U \ {a}) \ {y} = (U \ {y}) \ {a}
      BY <2>1, <2>3
    <3>2. U \ {a} \in SUBSET S /\ U \ {y} \in SUBSET S
      OBVIOUS
    <3>3. U \ {a} \in P /\ U \ {y} \in P
      BY <1>3, <2>1
    <3>4. g[U \ {a}] = f[y] + g[(U \ {a}) \ {y}]
      BY <1>p, <3>1, <3>2, <3>3
    <3>5. g[U \ {y}] = f[a] + g[(U \ {y}) \ {a}]
      BY <1>p, <3>1, <3>2, <3>3
    <3>6. g[(U \ {a}) \ {y}] \in Int /\ f[y] \in Int /\ f[a] \in Int
      BY <1>t, <2>1
    <3> DEFINE z == g[(U \ {a}) \ {y}]
               m == g[U \ {a}]
               n == g[U \ {y}]
    <3>7. z \in Int /\ m = f[y] + z /\ n = f[a] + z /\ g[U] = f[a] + m
      BY <2>2, <3>1, <3>4, <3>5, <3>6, Zenon
    <3> HIDE DEF z, m, n
    <3>8. g[U] = f[y] + n
      BY <3>6, <3>7
    <3> QED
      BY <3>8 DEF n
  <2>4. \A y \in U : g[U] = f[y] + g[U \ {y}]
    BY <2>2, <2>3
  <2> QED
    BY <1>p, <2>4
<1>4. \A U \in SUBSET S : U \in P
  BY <1>2, <1>3, AllSubsets
<1> QED
  BY <1>p, <1>4

-----------------------------------------------------------------------------
\* Sums: nothing sums up to 0.
LEMMA SumEmpty == \A f : SumFunctionOnSet(f, {}) = 0
<1> SUFFICES ASSUME NEW f PROVE SumFunctionOnSet(f, {}) = 0
  OBVIOUS
<1>1. \E g : Partial(f, SUBSET {}, g)
  BY PartialSums, FS_EmptySet
<1>2. ASSUME NEW g, Partial(f, SUBSET {}, g) PROVE g[{}] = 0
  BY <1>2 DEF Partial
<1>3. Partial(f, SUBSET {}, CHOOSE g : Partial(f, SUBSET {}, g))
  BY <1>1, Zenon
<1> QED
  BY <1>2, <1>3, SumIs

\* The sum of integers is one ...
LEMMA SumType ==
  ASSUME NEW S, IsFiniteSet(S), NEW f, \A x \in S : f[x] \in Int
  PROVE  SumFunctionOnSet(f, S) \in Int
<1>1. \E g : Partial(f, SUBSET S, g)
  BY PartialSums
<1>2. ASSUME NEW g, Partial(f, SUBSET S, g) PROVE g[S] \in Int
  BY <1>2, PartialType
<1>3. Partial(f, SUBSET S, CHOOSE g : Partial(f, SUBSET S, g))
  BY <1>1, Zenon
<1> QED
  BY <1>2, <1>3, SumIs

\* ... and depends on the terms alone.
LEMMA SumSame ==
  ASSUME NEW S, IsFiniteSet(S), NEW f, NEW e, Alike(f, e, S)
  PROVE  SumFunctionOnSet(f, S) = SumFunctionOnSet(e, S)
<1> DEFINE g == CHOOSE g : Partial(f, SUBSET S, g)
           h == CHOOSE h : Partial(e, SUBSET S, h)
<1>1. Partial(f, SUBSET S, g) /\ Partial(e, SUBSET S, h)
  BY PartialSums
<1>2. SumFunctionOnSet(f, S) = g[S] /\ SumFunctionOnSet(e, S) = h[S]
  BY SumIs, Zenon
<1> HIDE DEF g, h
<1>3. S \in SUBSET S
  OBVIOUS
<1>4. SameAt(g, h, S)
  BY <1>1, <1>3, PartialSame, Zenon
<1> QED
  BY <1>2, <1>4 DEF SameAt

\* One element set apart.
LEMMA SumApart ==
  ASSUME NEW S, IsFiniteSet(S), NEW f, \A x \in S : f[x] \in Int, NEW y \in S
  PROVE  SumFunctionOnSet(f, S) = f[y] + SumFunctionOnSet(f, S \ {y})
<1> DEFINE g == CHOOSE g : Partial(f, SUBSET S, g)
           R == S \ {y}
           h == CHOOSE h : Partial(f, SUBSET R, h)
<1>0. IsFiniteSet(R) /\ R \in SUBSET S /\ R \in SUBSET R
  BY FS_RemoveElement
<1>2. SumFunctionOnSet(f, S) = g[S] /\ SumFunctionOnSet(f, R) = h[R]
  BY SumIs, Zenon
<1> HIDE DEF R
<1>1. Partial(f, SUBSET S, g) /\ Partial(f, SUBSET R, h)
  BY <1>0, PartialSums
<1> HIDE DEF g, h
<1>3. SameAt(g, h, R)
  <2>1. Alike(f, f, R)
    BY DEF Alike
  <2> QED
    BY <1>0, <1>1, <2>1, PartialSame, Zenon
<1>4. g[S] = f[y] + g[R]
  BY <1>1, PartialStep DEF R
<1> QED
  BY <1>2, <1>3, <1>4 DEF R, SameAt

\* One element more.
LEMMA SumMore ==
  ASSUME NEW S, IsFiniteSet(S), NEW x, x \notin S, NEW f, \A y \in S \cup {x} : f[y] \in Int
  PROVE  SumFunctionOnSet(f, S \cup {x}) = SumFunctionOnSet(f, S) + f[x]
<1> DEFINE R == S \cup {x}
<1>1. IsFiniteSet(R) /\ x \in R /\ R \ {x} = S /\ \A y \in R : f[y] \in Int
  BY FS_AddElement
<1> HIDE DEF R
<1>2. SumFunctionOnSet(f, R) = f[x] + SumFunctionOnSet(f, R \ {x})
  BY <1>1, SumApart
<1>3. SumFunctionOnSet(f, S) \in Int /\ f[x] \in Int
  <2>1. \A y \in S : f[y] \in Int
    OBVIOUS
  <2> QED
    BY <1>1, <2>1, SumType
<1> DEFINE t == SumFunctionOnSet(f, S)
<1>4. SumFunctionOnSet(f, R) = f[x] + t /\ t \in Int /\ f[x] \in Int
  BY <1>1, <1>2, <1>3, Zenon
<1> HIDE DEF t
<1>5. SumFunctionOnSet(f, R) = t + f[x]
  BY <1>4
<1> QED
  BY <1>5, Zenon DEF R, t

\* One term changed.
LEMMA SumChange ==
  ASSUME NEW S, IsFiniteSet(S), NEW f, NEW e, \A x \in S : f[x] \in Int /\ e[x] \in Int,
         NEW y \in S, \A x \in S : x # y => f[x] = e[x]
  PROVE  SumFunctionOnSet(e, S) = SumFunctionOnSet(f, S) + (e[y] - f[y])
<1> DEFINE R == S \ {y}
<1>1. IsFiniteSet(R) /\ Alike(f, e, R) /\ \A x \in R : f[x] \in Int
  BY FS_RemoveElement DEF Alike
<1>2. SumFunctionOnSet(f, S) = f[y] + SumFunctionOnSet(f, R)
  BY SumApart
<1>3. SumFunctionOnSet(e, S) = e[y] + SumFunctionOnSet(e, R)
  BY SumApart
<1> HIDE DEF R
<1>4. SumFunctionOnSet(f, R) = SumFunctionOnSet(e, R)
  BY <1>1, SumSame
<1>5. SumFunctionOnSet(f, R) \in Int
  BY <1>1, SumType
<1> QED
  BY <1>2, <1>3, <1>4, <1>5

\* Sums compare as their terms do.
LEMMA SumOrder ==
  ASSUME NEW S, IsFiniteSet(S), NEW f, NEW e,
         \A x \in S : f[x] \in Int /\ e[x] \in Int /\ f[x] <= e[x]
  PROVE  SumFunctionOnSet(f, S) <= SumFunctionOnSet(e, S)
<1> DEFINE P == {T \in SUBSET S : SumFunctionOnSet(f, T) <= SumFunctionOnSet(e, T)}
<1>p. \A T \in SUBSET S : T \in P <=> SumFunctionOnSet(f, T) <= SumFunctionOnSet(e, T)
  OBVIOUS
<1> HIDE DEF P
<1>1. {} \in P
  BY <1>p, SumEmpty
<1>2. ASSUME NEW T \in SUBSET S, T # {}, \A x \in T : T \ {x} \in P PROVE T \in P
  <2>1. PICK y \in T : TRUE
    BY <1>2
  <2> DEFINE R == T \ {y}
  <2>2. IsFiniteSet(T) /\ IsFiniteSet(R) /\ R \in SUBSET S /\ R \in P
    BY <1>2, FS_Subset
  <2>3. SumFunctionOnSet(f, T) = f[y] + SumFunctionOnSet(f, R)
    BY <2>2, SumApart
  <2>4. SumFunctionOnSet(e, T) = e[y] + SumFunctionOnSet(e, R)
    BY <2>2, SumApart
  <2> HIDE DEF R
  <2>5. SumFunctionOnSet(f, R) \in Int /\ SumFunctionOnSet(e, R) \in Int
    <3>1. \A x \in R : f[x] \in Int /\ e[x] \in Int
      BY <2>2
    <3> QED
      BY <2>2, <3>1, SumType
  <2>6. SumFunctionOnSet(f, R) <= SumFunctionOnSet(e, R)
    BY <1>p, <2>2
  <2>7. f[y] \in Int /\ e[y] \in Int /\ f[y] <= e[y]
    OBVIOUS
  <2> QED
    BY <1>p, <2>3, <2>4, <2>5, <2>6, <2>7
<1>3. \A T \in SUBSET S : T \in P
  BY <1>1, <1>2, AllSubsets
<1> QED
  BY <1>p, <1>3

\* Less is summed up over a part.
LEMMA SumPart ==
  ASSUME NEW S, IsFiniteSet(S), NEW T \in SUBSET S, NEW f, \A x \in S : f[x] \in Nat
  PROVE  SumFunctionOnSet(f, T) <= SumFunctionOnSet(f, S) /\ SumFunctionOnSet(f, T) \in Nat
<1> DEFINE P == {U \in SUBSET S : /\ SumFunctionOnSet(f, U) \in Nat
                                   /\ SumFunctionOnSet(f, U \cap T) \in Nat
                                   /\ SumFunctionOnSet(f, U \cap T) <= SumFunctionOnSet(f, U)}
<1>p. \A U \in SUBSET S : U \in P <=> /\ SumFunctionOnSet(f, U) \in Nat
                                         /\ SumFunctionOnSet(f, U \cap T) \in Nat
                                         /\ SumFunctionOnSet(f, U \cap T) <= SumFunctionOnSet(f, U)
  OBVIOUS
<1> HIDE DEF P
<1>1. {} \in P
  <2>1. {} \cap T = {}
    OBVIOUS
  <2> QED
    BY <1>p, <2>1, SumEmpty
<1>2. ASSUME NEW U \in SUBSET S, U # {}, \A x \in U : U \ {x} \in P PROVE U \in P
  <2>1. PICK y \in U : TRUE
    BY <1>2
  <2> DEFINE R == U \ {y}
             m == SumFunctionOnSet(f, R)
             n == SumFunctionOnSet(f, R \cap T)
  <2>2. IsFiniteSet(U) /\ IsFiniteSet(R) /\ R \in SUBSET S /\ R \in P /\ IsFiniteSet(U \cap T)
    BY <1>2, FS_Subset
  <2>3. \A x \in U : f[x] \in Int /\ f[x] \in Nat
    OBVIOUS
  <2>4. SumFunctionOnSet(f, U) = f[y] + m
    BY <2>2, <2>3, SumApart
  <2>5. m \in Nat /\ n \in Nat /\ n <= m
    BY <1>p, <2>2
  <2>6. SumFunctionOnSet(f, U \cap T) = IF y \in T THEN f[y] + n ELSE n
    <3>1. CASE y \in T
      <4>1. y \in U \cap T /\ (U \cap T) \ {y} = R \cap T /\ \A x \in U \cap T : f[x] \in Int
        BY <2>3, <3>1
      <4>2. SumFunctionOnSet(f, U \cap T) = f[y] + SumFunctionOnSet(f, (U \cap T) \ {y})
        BY <2>2, <4>1, SumApart
      <4> QED
        BY <3>1, <4>1, <4>2
    <3>2. CASE y \notin T
      <4>1. U \cap T = R \cap T
        BY <3>2
      <4> QED
        BY <3>2, <4>1
    <3> QED
      BY <3>1, <3>2
  <2> HIDE DEF m, n, R
  <2> QED
    BY <1>p, <2>3, <2>4, <2>5, <2>6
<1>3. \A U \in SUBSET S : U \in P
  BY <1>1, <1>2, AllSubsets
<1>4. S \cap T = T /\ S \in P
  BY <1>3
<1> QED
  BY <1>p, <1>4

\* Terms that are 0 can be left out.
LEMMA SumZeros ==
  ASSUME NEW S, IsFiniteSet(S), NEW T \in SUBSET S, NEW f, \A x \in S : f[x] \in Int,
         \A x \in S : x \notin T => f[x] = 0
  PROVE  SumFunctionOnSet(f, S) = SumFunctionOnSet(f, T)
<1> DEFINE P == {U \in SUBSET S : SumFunctionOnSet(f, U) = SumFunctionOnSet(f, U \cap T)}
<1>p. \A U \in SUBSET S : U \in P <=> SumFunctionOnSet(f, U) = SumFunctionOnSet(f, U \cap T)
  OBVIOUS
<1> HIDE DEF P
<1>1. {} \in P
  <2>1. {} \cap T = {}
    OBVIOUS
  <2> QED
    BY <1>p, <2>1
<1>2. ASSUME NEW U \in SUBSET S, U # {}, \A x \in U : U \ {x} \in P PROVE U \in P
  <2>1. PICK y \in U : TRUE
    BY <1>2
  <2> DEFINE R == U \ {y}
             m == SumFunctionOnSet(f, R)
             n == SumFunctionOnSet(f, R \cap T)
  <2>2. IsFiniteSet(U) /\ IsFiniteSet(R) /\ R \in SUBSET S /\ R \in P /\ IsFiniteSet(U \cap T)
    BY <1>2, FS_Subset
  <2>3. \A x \in U : f[x] \in Int
    OBVIOUS
  <2>4. SumFunctionOnSet(f, U) = f[y] + m /\ m \in Int
    <3>1. \A x \in R : f[x] \in Int
      OBVIOUS
    <3> QED
      BY <2>2, <2>3, <3>1, SumApart, SumType
  <2>5. m = n
    BY <1>p, <2>2
  <2>6. CASE y \in T
    <3>1. y \in U \cap T /\ (U \cap T) \ {y} = R \cap T /\ \A x \in U \cap T : f[x] \in Int
      BY <2>3, <2>6
    <3>2. SumFunctionOnSet(f, U \cap T) = f[y] + SumFunctionOnSet(f, (U \cap T) \ {y})
      BY <2>2, <3>1, SumApart
    <3>3. SumFunctionOnSet(f, U \cap T) = f[y] + n
      BY <3>1, <3>2
    <3> HIDE DEF m, n
    <3> QED
      BY <1>p, <2>4, <2>5, <3>3
  <2>7. CASE y \notin T
    <3>1. U \cap T = R \cap T /\ f[y] = 0
      BY <2>7
    <3>2. SumFunctionOnSet(f, U \cap T) = n
      BY <3>1
    <3> HIDE DEF m, n
    <3> QED
      BY <1>p, <2>4, <2>5, <3>1, <3>2
  <2> QED
    BY <2>6, <2>7
<1>3. \A U \in SUBSET S : U \in P
  BY <1>1, <1>2, AllSubsets
<1>4. S \cap T = T /\ S \in P
  BY <1>3
<1> QED
  BY <1>p, <1>4

\* The difference of two sums.
LEMMA SumDifference ==
  ASSUME NEW S, IsFiniteSet(S), NEW f, NEW e, NEW d,
         \A x \in S : f[x] \in Int /\ e[x] \in Int /\ d[x] = f[x] - e[x]
  PROVE  SumFunctionOnSet(d, S) = SumFunctionOnSet(f, S) - SumFunctionOnSet(e, S)
<1> DEFINE P == {U \in SUBSET S : SumFunctionOnSet(d, U) = SumFunctionOnSet(f, U) - SumFunctionOnSet(e, U)}
<1>p. \A U \in SUBSET S :
        U \in P <=> SumFunctionOnSet(d, U) = SumFunctionOnSet(f, U) - SumFunctionOnSet(e, U)
  OBVIOUS
<1> HIDE DEF P
<1>1. {} \in P
  BY <1>p, SumEmpty
<1>2. ASSUME NEW U \in SUBSET S, U # {}, \A x \in U : U \ {x} \in P PROVE U \in P
  <2>1. PICK y \in U : TRUE
    BY <1>2
  <2> DEFINE R == U \ {y}
  <2>2. IsFiniteSet(U) /\ IsFiniteSet(R) /\ R \in SUBSET S /\ R \in P
    BY <1>2, FS_Subset
  <2>3. /\ \A x \in U : f[x] \in Int /\ e[x] \in Int /\ d[x] \in Int
        /\ \A x \in R : f[x] \in Int /\ e[x] \in Int /\ d[x] \in Int
        /\ d[y] = f[y] - e[y]
    OBVIOUS
  <2>4. /\ SumFunctionOnSet(f, U) = f[y] + SumFunctionOnSet(f, R)
        /\ SumFunctionOnSet(e, U) = e[y] + SumFunctionOnSet(e, R)
        /\ SumFunctionOnSet(d, U) = d[y] + SumFunctionOnSet(d, R)
    BY <2>2, <2>3, SumApart
  <2> HIDE DEF R
  <2>5. SumFunctionOnSet(f, R) \in Int /\ SumFunctionOnSet(e, R) \in Int /\ SumFunctionOnSet(d, R) \in Int
    BY <2>2, <2>3, SumType
  <2>6. SumFunctionOnSet(d, R) = SumFunctionOnSet(f, R) - SumFunctionOnSet(e, R)
    BY <1>p, <2>2
  <2>7. f[y] \in Int /\ e[y] \in Int
    OBVIOUS
  <2> QED
    BY <1>p, <2>3, <2>4, <2>5, <2>6, <2>7
<1>3. \A U \in SUBSET S : U \in P
  BY <1>1, <1>2, AllSubsets
<1> QED
  BY <1>p, <1>3

\* A sum over what the elements of a set are mapped to, one by one.
LEMMA SumMoved ==
  ASSUME NEW S, IsFiniteSet(S), NEW f, \A x \in S : f[x] \in Int,
         NEW m, \A x, y \in S : m[x] = m[y] => x = y,
         NEW e, \A x \in S : e[m[x]] = f[x]
  PROVE  SumFunctionOnSet(e, {m[x] : x \in S}) = SumFunctionOnSet(f, S)
<1> DEFINE image(U) == {m[x] : x \in U}
           P == {U \in SUBSET S : SumFunctionOnSet(e, image(U)) = SumFunctionOnSet(f, U)}
<1>p. \A U \in SUBSET S : U \in P <=> SumFunctionOnSet(e, image(U)) = SumFunctionOnSet(f, U)
  OBVIOUS
<1> HIDE DEF P
<1>1. {} \in P
  <2>1. image({}) = {}
    OBVIOUS
  <2> HIDE DEF image
  <2> QED
    BY <1>p, <2>1, SumEmpty
<1>2. ASSUME NEW U \in SUBSET S, U # {}, \A x \in U : U \ {x} \in P PROVE U \in P
  <2>1. PICK y \in U : TRUE
    BY <1>2
  <2> DEFINE R == U \ {y}
  <2>2. IsFiniteSet(U) /\ IsFiniteSet(R) /\ R \in SUBSET S /\ R \in P
    BY <1>2, FS_Subset
  <2>3. m[y] \notin image(R) /\ image(U) = image(R) \cup {m[y]}
    OBVIOUS
  <2>4. IsFiniteSet(image(R))
    <3> DEFINE g == [x \in R |-> m[x]]
    <3>1. g \in Surjection(R, image(R))
      BY DEF Surjection
    <3> HIDE DEF g, image, R
    <3> QED
      BY <2>2, <3>1, FS_Surjection
  <2>5. \A z \in image(R) \cup {m[y]} : e[z] \in Int
    OBVIOUS
  <2>6. /\ \A x \in U : f[x] \in Int
        /\ e[m[y]] = f[y] /\ f[y] \in Int
    OBVIOUS
  <2>7. SumFunctionOnSet(f, U) = f[y] + SumFunctionOnSet(f, R)
    BY <2>2, <2>6, SumApart
  <2>8. SumFunctionOnSet(f, R) \in Int
    BY <2>2, <2>6, SumType
  <2> HIDE DEF R, image
  <2>9. SumFunctionOnSet(e, image(U)) = SumFunctionOnSet(e, image(R)) + e[m[y]]
    <3> DEFINE z == m[y]
               I == image(R)
    <3> HIDE DEF z, I
    <3>1. z \notin I /\ image(U) = I \cup {z} /\ IsFiniteSet(I) /\ \A x \in I \cup {z} : e[x] \in Int
      BY <2>3, <2>4, <2>5 DEF z, I
    <3>2. SumFunctionOnSet(e, I \cup {z}) = SumFunctionOnSet(e, I) + e[z]
      BY <3>1, SumMore
    <3> QED
      BY <3>1, <3>2 DEF z, I
  <2>10. SumFunctionOnSet(e, image(R)) = SumFunctionOnSet(f, R)
    BY <1>p, <2>2
  <2> QED
    BY <1>p, <2>6, <2>7, <2>8, <2>9, <2>10
<1>3. \A U \in SUBSET S : U \in P
  BY <1>1, <1>2, AllSubsets
<1> QED
  BY <1>p, <1>3

\* It makes no difference whether terms are summed up per owner first.
LEMMA SumByOwner ==
  ASSUME NEW S, IsFiniteSet(S), NEW R, IsFiniteSet(R), NEW f, \A x \in S : f[x] \in Int,
         NEW own, \A x \in S : own[x] \in R,
         NEW g, \A p \in R : \A x \in S : g[p][x] = IF own[x] = p THEN f[x] ELSE 0
  PROVE  SumFunctionOnSet([p \in R |-> SumFunctionOnSet(g[p], S)], R) = SumFunctionOnSet(f, S)
<1> DEFINE h(U) == [p \in R |-> SumFunctionOnSet(g[p], U)]
           P == {U \in SUBSET S : SumFunctionOnSet(h(U), R) = SumFunctionOnSet(f, U)}
<1>p. \A U \in SUBSET S : U \in P <=> SumFunctionOnSet(h(U), R) = SumFunctionOnSet(f, U)
  OBVIOUS
<1>h. \A U : \A p \in R : h(U)[p] = SumFunctionOnSet(g[p], U)
  OBVIOUS
<1>g. \A p \in R : \A x \in S : g[p][x] \in Int
  OBVIOUS
<1>t. \A U \in SUBSET S : \A p \in R : h(U)[p] \in Int
  <2> SUFFICES ASSUME NEW U \in SUBSET S, NEW p \in R PROVE SumFunctionOnSet(g[p], U) \in Int
    BY <1>h
  <2>1. IsFiniteSet(U) /\ \A x \in U : g[p][x] \in Int
    BY <1>g, FS_Subset
  <2> QED
    BY <2>1, SumType
<1> HIDE DEF P, h
<1>1. {} \in P
  <2> DEFINE z == [p \in R |-> 0]
  <2>1. \A p \in R : h({})[p] \in Int /\ h({})[p] = 0
    BY <1>h, SumEmpty
  <2>2. SumFunctionOnSet(h({}), R) = SumFunctionOnSet(h({}), {})
    BY <2>1, SumZeros
  <2> QED
    BY <1>p, <2>2, SumEmpty
<1>2. ASSUME NEW U \in SUBSET S, U # {}, \A x \in U : U \ {x} \in P PROVE U \in P
  <2>1. PICK y \in U : TRUE
    BY <1>2
  <2> DEFINE V == U \ {y}
             q == own[y]
  <2>2. IsFiniteSet(U) /\ IsFiniteSet(V) /\ V \in SUBSET S /\ V \in P /\ y \notin V /\ V \cup {y} = U
    BY <1>2, FS_Subset
  <2>3. /\ \A x \in U : f[x] \in Int
        /\ \A x \in V : f[x] \in Int
        /\ q \in R /\ f[y] \in Int
    OBVIOUS
  <2>4. SumFunctionOnSet(f, U) = f[y] + SumFunctionOnSet(f, V)
    BY <2>2, <2>3, SumApart
  <2> HIDE DEF V
  <2>5. SumFunctionOnSet(f, V) \in Int
    BY <2>2, <2>3, SumType
  <2>6. ASSUME NEW p \in R
        PROVE  h(U)[p] = h(V)[p] + (IF p = q THEN f[y] ELSE 0)
    <3>1. \A x \in V \cup {y} : g[p][x] \in Int
      BY <1>g, <2>2
    <3>2. SumFunctionOnSet(g[p], V \cup {y}) = SumFunctionOnSet(g[p], V) + g[p][y]
      BY <2>2, <3>1, SumMore
    <3>3. g[p][y] = IF p = q THEN f[y] ELSE 0
      OBVIOUS
    <3>4. SumFunctionOnSet(g[p], U) = SumFunctionOnSet(g[p], V) + g[p][y]
      BY <2>2, <3>2
    <3> QED
      BY <1>h, <3>3, <3>4
  <2>7. /\ \A p \in R : h(V)[p] \in Int /\ h(U)[p] \in Int
        /\ \A p \in R : q # p => h(V)[p] = h(U)[p]
        /\ h(U)[q] = h(V)[q] + f[y]
    BY <1>t, <2>2, <2>3, <2>6
  <2>8. SumFunctionOnSet(h(U), R) = SumFunctionOnSet(h(V), R) + (h(U)[q] - h(V)[q])
    <3> DEFINE e == h(U)
               d == h(V)
    <3>1. /\ \A p \in R : d[p] \in Int /\ e[p] \in Int
          /\ \A p \in R : q # p => d[p] = e[p]
      BY <2>7
    <3> HIDE DEF d, e, q
    <3>2. q \in R
      BY <2>3
    <3>3. SumFunctionOnSet(e, R) = SumFunctionOnSet(d, R) + (e[q] - d[q])
      BY <3>1, <3>2, SumChange
    <3> QED
      BY <3>3 DEF d, e
  <2>9. h(U)[q] - h(V)[q] = f[y]
    BY <2>3, <2>7
  <2>10. SumFunctionOnSet(h(V), R) = SumFunctionOnSet(f, V)
    BY <1>p, <2>2
  <2>11. SumFunctionOnSet(h(U), R) = SumFunctionOnSet(f, V) + f[y]
    BY <2>8, <2>9, <2>10
  <2> QED
    BY <1>p, <2>3, <2>4, <2>5, <2>11
<1>3. \A U \in SUBSET S : U \in P
  BY <1>1, <1>2, AllSubsets
<1>4. SumFunctionOnSet(h(S), R) = SumFunctionOnSet(f, S)
  BY <1>p, <1>3
<1> QED
  BY <1>4 DEF h

-----------------------------------------------------------------------------
\* Remainders: what they are ...
LEMMA Division ==
  ASSUME NEW m \in Nat \ {0}, NEW n \in Int
  PROVE  n % m \in 0..(m - 1) /\ n \div m \in Int /\ n = (n % m) + m * (n \div m)
OBVIOUS

\* ... and that there is one.
LEMMA RemainderUnique ==
  ASSUME NEW m \in Nat \ {0}, NEW x \in 0..(m - 1), NEW y \in 0..(m - 1),
         NEW q \in Int, x = y + m * q
  PROVE  x = y
<1>1. q >= 1 => m * q >= m
  OBVIOUS
<1>2. q <= -1 => m * q <= -m
  OBVIOUS
<1>3. m * q \in Int
  OBVIOUS
<1>4. q = 0 \/ q >= 1 \/ q <= -1
  OBVIOUS
<1> QED
  BY <1>1, <1>2, <1>3, <1>4

\* Numbers that are a multiple apart leave the same remainder ...
LEMMA SameRemainder ==
  ASSUME NEW m \in Nat \ {0}, NEW a \in Int, NEW b \in Int, NEW q \in Int, b = a + m * q
  PROVE  b % m = a % m
<1> DEFINE x == b % m
           y == a % m
           u == a \div m
           v == b \div m
<1>1. /\ x \in 0..(m - 1) /\ y \in 0..(m - 1) /\ u \in Int /\ v \in Int
      /\ a = y + m * u /\ b = x + m * v
  BY Division
<1> HIDE DEF x, y, u, v
<1>2. x = y + m * (q + u - v)
  <2>1. m * (q + u - v) = m * q + m * u - m * v
    BY <1>1
  <2>2. m * q \in Int /\ m * u \in Int /\ m * v \in Int
    BY <1>1
  <2> QED
    BY <1>1, <2>1, <2>2
<1>3. q + u - v \in Int
  BY <1>1
<1>4. x = y
  BY <1>1, <1>2, <1>3, RemainderUnique
<1> QED
  BY <1>4 DEF x, y

\* ... and the same remainder when the same is added.
Congruent(a, b, m) == a % m = b % m

LEMMA RemainderSum ==
  ASSUME NEW m \in Nat \ {0}, NEW a \in Int, NEW b \in Int, NEW c \in Int, NEW d \in Int,
         Congruent(a, b, m), Congruent(c, d, m)
  PROVE  Congruent(a + c, b + d, m) /\ Congruent(a - c, b - d, m)
<1> DEFINE x == a % m
           y == c % m
           ua == a \div m
           ub == b \div m
           uc == c \div m
           ud == d \div m
<1>1. /\ x \in Int /\ y \in Int /\ ua \in Int /\ ub \in Int /\ uc \in Int /\ ud \in Int
      /\ a = x + m * ua /\ b = x + m * ub /\ c = y + m * uc /\ d = y + m * ud
  BY Division DEF Congruent
<1> HIDE DEF x, y, ua, ub, uc, ud
<1>2. /\ m * ua \in Int /\ m * ub \in Int /\ m * uc \in Int /\ m * ud \in Int
      /\ m * ((ub - ua) + (ud - uc)) = (m * ub - m * ua) + (m * ud - m * uc)
      /\ m * ((ub - ua) - (ud - uc)) = (m * ub - m * ua) - (m * ud - m * uc)
  BY <1>1
<1>3. /\ b + d = (a + c) + m * ((ub - ua) + (ud - uc))
      /\ b - d = (a - c) + m * ((ub - ua) - (ud - uc))
  BY <1>1, <1>2
<1> DEFINE q == (ub - ua) + (ud - uc)
           r == (ub - ua) - (ud - uc)
<1>4. q \in Int /\ r \in Int
  BY <1>1
<1>5. a + c \in Int /\ b + d \in Int /\ a - c \in Int /\ b - d \in Int
  OBVIOUS
<1>6. b + d = (a + c) + m * q /\ b - d = (a - c) + m * r
  BY <1>3
<1> DEFINE j == a + c
           k == b + d
           l == a - c
           n == b - d
<1> HIDE DEF q, r, j, k, l, n
<1>7. /\ j \in Int /\ k \in Int /\ k = j + m * q
      /\ l \in Int /\ n \in Int /\ n = l + m * r
  BY <1>5, <1>6 DEF j, k, l, n
<1>8. k % m = j % m
  BY <1>4, <1>7, SameRemainder
<1>9. n % m = l % m
  BY <1>4, <1>7, SameRemainder
<1> QED
  BY <1>8, <1>9 DEF j, k, l, n, Congruent

\* A remainder is its own.
LEMMA RemainderOf ==
  ASSUME NEW m \in Nat \ {0}, NEW n \in Int
  PROVE  (n % m) % m = n % m /\ (n \in 0..(m - 1) => n % m = n)
OBVIOUS

\* Sums of numbers that leave the same remainders leave the same remainder.
LEMMA RemainderOfSum ==
  ASSUME NEW S, IsFiniteSet(S), NEW m \in Nat \ {0}, NEW f, NEW e,
         \A x \in S : f[x] \in Int /\ e[x] \in Int /\ Congruent(f[x], e[x], m)
  PROVE  Congruent(SumFunctionOnSet(f, S), SumFunctionOnSet(e, S), m)
<1> DEFINE P == {U \in SUBSET S : Congruent(SumFunctionOnSet(f, U), SumFunctionOnSet(e, U), m)}
<1>p. \A U \in SUBSET S : U \in P <=> Congruent(SumFunctionOnSet(f, U), SumFunctionOnSet(e, U), m)
  OBVIOUS
<1> HIDE DEF P
<1>1. {} \in P
  BY <1>p, SumEmpty DEF Congruent
<1>2. ASSUME NEW U \in SUBSET S, U # {}, \A x \in U : U \ {x} \in P PROVE U \in P
  <2>1. PICK y \in U : TRUE
    BY <1>2
  <2> DEFINE R == U \ {y}
             a == SumFunctionOnSet(f, R)
             b == SumFunctionOnSet(e, R)
             c == f[y]
             d == e[y]
  <2>2. IsFiniteSet(U) /\ IsFiniteSet(R) /\ R \in SUBSET S /\ R \in P
    BY <1>2, FS_Subset
  <2>3. /\ \A x \in U : f[x] \in Int /\ e[x] \in Int
        /\ \A x \in R : f[x] \in Int /\ e[x] \in Int
        /\ c \in Int /\ d \in Int /\ Congruent(c, d, m)
    OBVIOUS
  <2>4. SumFunctionOnSet(f, U) = c + a /\ SumFunctionOnSet(e, U) = d + b
    BY <2>2, <2>3, SumApart
  <2>5. a \in Int /\ b \in Int
    <3> HIDE DEF R
    <3> QED
      BY <2>2, <2>3, SumType
  <2>6. Congruent(a, b, m)
    BY <1>p, <2>2
  <2> HIDE DEF a, b, c, d
  <2>7. Congruent(c + a, d + b, m)
    <3>1. c \in Int /\ d \in Int /\ Congruent(c, d, m)
      BY <2>3
    <3> QED
      BY <2>5, <2>6, <3>1, RemainderSum, Zenon
  <2> QED
    BY <1>p, <2>4, <2>7
<1>3. \A U \in SUBSET S : U \in P
  BY <1>1, <1>2, AllSubsets
<1> QED
  BY <1>p, <1>3

-----------------------------------------------------------------------------
\* The order of timestamps is transitive and irreflexive (derived Ord of Hlc).
LEMMA HlcOrder ==
  /\ \A a \in Hlc : ~ HlcLT(a, a)
  /\ \A a, b, c \in Hlc : HlcLT(a, b) /\ HlcLT(b, c) => HlcLT(a, c)
BY DEF Hlc, HlcLT

\* HlcClock::tick returns a timestamp beyond the previous one, whatever the
\* wall clock says.
LEMMA TickAdvances ==
  ASSUME NEW last \in Hlc, NEW now \in Nat
  PROVE  Tick(last, now) \in Hlc /\ HlcLT(last, Tick(last, now))
BY DEF Hlc, HlcLT, Tick

\* HlcClock::observe moves the clock beyond both its last and the observed
\* timestamp.
LEMMA ObserveAdvances ==
  ASSUME NEW last \in Hlc, NEW remote \in Hlc, NEW now \in Nat
  PROVE  /\ Observe(last, remote, now) \in Hlc
         /\ HlcLT(last, Observe(last, remote, now))
         /\ HlcLT(remote, Observe(last, remote, now))
<1> DEFINE p == Larger(now, Larger(last.physical, remote.physical))
<1>1. p \in Nat /\ p >= last.physical /\ p >= remote.physical
  BY DEF Hlc, Larger
<1>2. CASE p = last.physical /\ p = remote.physical
  BY <1>1, <1>2 DEF Hlc, HlcLT, Observe, Larger
<1>3. CASE p = last.physical /\ p # remote.physical
  BY <1>1, <1>3 DEF Hlc, HlcLT, Observe, Larger
<1>4. CASE p # last.physical /\ p = remote.physical
  BY <1>1, <1>4 DEF Hlc, HlcLT, Observe, Larger
<1>5. CASE p # last.physical /\ p # remote.physical
  BY <1>1, <1>5 DEF Hlc, HlcLT, Observe, Larger
<1> QED
  BY <1>2, <1>3, <1>4, <1>5
=============================================================================
