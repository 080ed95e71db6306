---------------------------- MODULE EngineProofs ---------------------------
(***************************************************************************)
(* Engines at work, however many, on whatever files, with whatever scores, *)
(* and for any number of requests: what they know determines what they     *)
(* show.  On the way, that ids and edge keys survive being written and     *)
(* read, and what the folds of a request amount to.                        *)
(***************************************************************************)
EXTENDS Engine, ForestProofs

-----------------------------------------------------------------------------
\* Ids and edge keys as strings.

\* A separator is found behind a text that does not contain it.
LEMMA SplitAtFirst ==
  ASSUME NEW T, NEW sep \in T, NEW a \in Seq(T), NEW b \in Seq(T),
         \A i \in 1..Len(a) : a[i] # sep
  PROVE  Split(a \o (<<sep>> \o b), sep) = <<a, b>>
<1> DEFINE s == a \o (<<sep>> \o b)
           n == Len(a) + 1
           at == {j \in 1..Len(s) : s[j] = sep}
<1>1. /\ s \in Seq(T)
      /\ Len(s) = Len(a) + 1 + Len(b)
      /\ \A i \in 1..Len(a) : s[i] = a[i]
      /\ s[n] = sep
      /\ \A i \in 1..Len(b) : s[n + i] = b[i]
  OBVIOUS
<1>2. n \in at /\ \A j \in at : n <= j
  BY <1>1
<1>3. Min(at) = n
  <2>1. \A x \in at : (\A y \in at : x <= y) => x = n
    BY <1>2
  <2> QED BY <1>2, <2>1 DEF Min
<1>4. SubSeq(s, 1, n - 1) = a
  BY <1>1
<1>5. SubSeq(s, n + 1, Len(s)) = b
  BY <1>1
<1> QED BY <1>3, <1>4, <1>5 DEF Split

\* Display and FromStr of a node id agree (id.rs).
THEOREM NodeIdsRoundTrip ==
  ASSUME NEW id \in Nat \X Nat
  PROVE  NodeIdOf(NodeIdString(id)) = id
<1> DEFINE T == Nat \cup {Dot}
<1>1. /\ <<id[1]>> \in Seq(T) /\ <<id[2]>> \in Seq(T)
      /\ \A i \in 1..Len(<<id[1]>>) : <<id[1]>>[i] # Dot
  BY SeparatorAssumption
<1>2. Split(<<id[1]>> \o (<<Dot>> \o <<id[2]>>), Dot) = << <<id[1]>>, <<id[2]>> >>
  <2> HIDE DEF T
  <2>1. Dot \in T
    BY DEF T
  <2> QED BY <1>1, <2>1, SplitAtFirst
<1>3. NodeIdString(id) = <<id[1]>> \o (<<Dot>> \o <<id[2]>>)
  BY DEF NodeIdString
<1> QED BY <1>2, <1>3 DEF NodeIdOf

\* The serialized form of an edge key is read back as the same key (model.rs),
\* although the kind may be any text: "it may itself contain the separator".
THEOREM EdgeKeysRoundTrip ==
  ASSUME NEW Word, NEW src \in Nat \X Nat, NEW dst \in Nat \X Nat,
         NEW kind \in Seq(Nat \cup Word \cup {Dot, Tilde})
  PROVE  LET key == [src |-> src, dst |-> dst, kind |-> kind]
         IN  EdgeKeyOf(EdgeKeyString(key)) = key
<1> DEFINE T == Nat \cup Word \cup {Dot, Tilde}
           key == [src |-> src, dst |-> dst, kind |-> kind]
           rest == NodeIdString(dst) \o (<<Tilde>> \o kind)
<1>1. \A id \in Nat \X Nat : /\ NodeIdString(id) \in Seq(T)
                             /\ \A i \in 1..Len(NodeIdString(id)) : NodeIdString(id)[i] # Tilde
  BY SeparatorAssumption DEF NodeIdString
<1>2. Tilde \in T /\ kind \in Seq(T)
  OBVIOUS
<1> HIDE DEF T
<1>3. rest \in Seq(T)
  BY <1>1, <1>2
<1>4. Split(NodeIdString(src) \o (<<Tilde>> \o rest), Tilde) = <<NodeIdString(src), rest>>
  <2> HIDE DEF rest
  <2> QED BY <1>1, <1>2, <1>3, SplitAtFirst
<1>5. Split(rest, Tilde) = <<NodeIdString(dst), kind>>
  BY <1>1, <1>2, SplitAtFirst
<1>6. EdgeKeyString(key) = NodeIdString(src) \o (<<Tilde>> \o rest)
  BY DEF EdgeKeyString
<1>7. EdgeKeyOf(EdgeKeyString(key)) = [src  |-> NodeIdOf(NodeIdString(src)),
                                       dst  |-> NodeIdOf(NodeIdString(dst)), kind |-> kind]
  <2> DEFINE text == EdgeKeyString(key)
  <2>1. Split(text, Tilde) = <<NodeIdString(src), rest>>
    BY <1>4, <1>6
  <2> HIDE DEF text, rest
  <2>2. Split(Split(text, Tilde)[2], Tilde) = <<NodeIdString(dst), kind>>
    BY <2>1, <1>5
  <2>3. EdgeKeyOf(text) = [src  |-> NodeIdOf(NodeIdString(src)),
                           dst  |-> NodeIdOf(NodeIdString(dst)), kind |-> kind]
    BY <2>1, <2>2 DEF EdgeKeyOf
  <2> QED BY <2>3 DEF text
<1> QED BY <1>7, NodeIdsRoundTrip

-----------------------------------------------------------------------------
\* A request makes its changes one by one.

\* g[s] is what the operations with the numbers in s make of f, those in U.
Calls(e, f, ops, U, g) ==
  g = [s \in U |-> IF s = {} THEN f ELSE Do(e, g[s \ {S!Max(s)}], ops[S!Max(s)])]

\* DoAll is such a fold.
LEMMA DoAllIs ==
  ASSUME NEW e, NEW f, NEW ops
  PROVE  DoAll(e, f, ops) = (CHOOSE g : Calls(e, f, ops, SUBSET DOMAIN ops, g))[DOMAIN ops]
BY DEF DoAll, S!FoldLeft, S!MapThenFoldSet, Calls

\* The largest number of a set, and of all numbers up to one.
LEMMA LargestIs ==
  ASSUME NEW n \in Nat
  PROVE  /\ \A s \in SUBSET (1..n) : s # {} => S!Max(s) \in s /\ \A x \in s : x <= S!Max(s)
         /\ n # 0 => S!Max(1..n) = n
<1>1. \A s : S!Max(s) = Max(s)
  BY DEF S!Max, Max
<1>2. \A s \in SUBSET (1..n) : s # {} => Max(s) \in s /\ \A x \in s : x <= Max(s)
  <2>1. \A s \in SUBSET (1..n) : s \in SUBSET (0..n)
    OBVIOUS
  <2> QED
    BY <2>1, MaxExists
<1>3. n # 0 => Max(1..n) = n
  <2> SUFFICES ASSUME n # 0 PROVE Max(1..n) = n
    OBVIOUS
  <2>1. n \in 1..n /\ (\A y \in 1..n : y <= n) /\ 1..n \in SUBSET Nat
    OBVIOUS
  <2> QED
    BY <2>1, MaxIs
<1> QED
  BY <1>1, <1>2, <1>3

\* It can be computed ...
LEMMA CallsExist ==
  ASSUME NEW e, NEW f, NEW ops
  PROVE  \A n \in Nat : \E g : Calls(e, f, ops, SUBSET (1..n), g)
<1> DEFINE P == {n \in Nat : \E g : Calls(e, f, ops, SUBSET (1..n), g)}
<1>1. 0 \in P
  <2>1. \A s \in SUBSET (1..0) : s = {}
    OBVIOUS
  <2>2. Calls(e, f, ops, SUBSET (1..0), [s \in SUBSET (1..0) |-> f])
    BY <2>1 DEF Calls
  <2> QED
    BY <2>2
<1>2. ASSUME NEW n \in Nat, n \in P
      PROVE  n + 1 \in P
  <2>1. PICK g : Calls(e, f, ops, SUBSET (1..n), g)
    BY <1>2
  <2> DEFINE to(s) == S!Max(s)
             h == [s \in SUBSET (1..(n + 1)) |-> IF s = {} THEN f ELSE Do(e, g[s \ {to(s)}], ops[to(s)])]
  <2>2. \A s \in SUBSET (1..n) : g[s] = IF s = {} THEN f ELSE Do(e, g[s \ {to(s)}], ops[to(s)])
    BY <2>1, Zenon DEF Calls
  <2>3. \A s \in SUBSET (1..(n + 1)) : s # {} => s \ {to(s)} \in SUBSET (1..n)
    <3> SUFFICES ASSUME NEW s \in SUBSET (1..(n + 1)), s # {} PROVE s \ {to(s)} \in SUBSET (1..n)
      OBVIOUS
    <3> HIDE DEF to
    <3>1. to(s) \in s /\ \A x \in s : x <= to(s)
      BY LargestIs DEF to
    <3> DEFINE m == to(s)
    <3>2. m \in 1..(n + 1) /\ \A x \in s : x \in 1..(n + 1) /\ x <= m
      BY <3>1
    <3> HIDE DEF m
    <3>3. \A x \in s : x # m => x \in 1..n
      BY <3>2
    <3> QED
      BY <3>3 DEF m
  <2>4. \A s \in SUBSET (1..n) : h[s] = g[s]
    <3>1. \A s \in SUBSET (1..n) : s \in SUBSET (1..(n + 1))
      OBVIOUS
    <3> HIDE DEF to
    <3> QED
      BY <2>2, <3>1, Zenon
  <2>5. \A s \in SUBSET (1..(n + 1)) : s # {} => h[s \ {to(s)}] = g[s \ {to(s)}]
    <3> HIDE DEF to, h
    <3> QED
      BY <2>3, <2>4
  <2>6. h = [s \in SUBSET (1..(n + 1)) |-> IF s = {} THEN f ELSE Do(e, h[s \ {to(s)}], ops[to(s)])]
    <3> HIDE DEF to
    <3> QED
      BY <2>5, Zenon
  <2>7. Calls(e, f, ops, SUBSET (1..(n + 1)), h)
    <3> HIDE DEF h
    <3> QED
      BY <2>6, Zenon DEF Calls
  <2> QED
    BY <2>7
<1> HIDE DEF P
<1>3. \A n \in Nat : n \in P
  BY <1>1, <1>2, AllNumbers
<1> QED
  BY <1>3 DEF P

\* ... and goes from one operation to the next.
CallsRun(e, f, ops, n, h) == h[0] = f /\ \A i \in 1..n : h[i] = Do(e, h[i - 1], ops[i])

CallsRan(e, f, ops, n) == \E h : CallsRun(e, f, ops, n, h) /\ DoAll(e, f, ops) = h[n]

LEMMA DoAllRuns ==
  ASSUME NEW e, NEW f, NEW ops, NEW n \in Nat, DOMAIN ops = 1..n
  PROVE  CallsRan(e, f, ops, n)
<1> DEFINE g == CHOOSE g : Calls(e, f, ops, SUBSET (1..n), g)
           h == [i \in 0..n |-> g[1..i]]
<1>1. Calls(e, f, ops, SUBSET (1..n), g)
  BY CallsExist, Zenon
<1>2. DoAll(e, f, ops) = g[1..n]
  BY DoAllIs, Zenon
<1> HIDE DEF g
<1>3. \A s \in SUBSET (1..n) : g[s] = IF s = {} THEN f ELSE Do(e, g[s \ {S!Max(s)}], ops[S!Max(s)])
  BY <1>1, Zenon DEF Calls
<1>4. g[1..0] = f
  <2>1. 1..0 = {} /\ 1..0 \in SUBSET (1..n)
    OBVIOUS
  <2> QED
    BY <1>3, <2>1
<1>5. ASSUME NEW i \in 1..n
      PROVE  g[1..i] = Do(e, g[1..(i - 1)], ops[i])
  <2>1. 1..i # {} /\ 1..i \in SUBSET (1..n) /\ S!Max(1..i) = i
    <3>1. i \in Nat /\ i # 0
      OBVIOUS
    <3>2. S!Max(1..i) = i
      BY <3>1, LargestIs
    <3> QED
      BY <3>2
  <2>2. (1..i) \ {i} = 1..(i - 1)
    OBVIOUS
  <2>3. g[1..i] = Do(e, g[(1..i) \ {S!Max(1..i)}], ops[S!Max(1..i)])
    BY <1>3, <2>1, Zenon
  <2> QED
    BY <2>1, <2>2, <2>3, Zenon
<1>6. CallsRun(e, f, ops, n, h)
  <2>1. 0 \in 0..n /\ \A i \in 1..n : i \in 0..n /\ i - 1 \in 0..n
    OBVIOUS
  <2>2. \A i \in 0..n : h[i] = g[1..i]
    OBVIOUS
  <2> HIDE DEF h
  <2> QED
    BY <1>4, <1>5, <2>1, <2>2, Zenon DEF CallsRun
<1>7. n \in 0..n
  OBVIOUS
<1>8. h[n] = g[1..n]
  BY <1>7
<1> QED
  BY <1>2, <1>6, <1>8, Zenon DEF CallsRan

\* An import applies what it reads one by one.
Reads(f, bytes, U, g) ==
  g = [s \in U |-> IF s = {} THEN f ELSE Apply(g[s \ {S!Max(s)}], ReadBack(bytes[S!Max(s)]))]

Imported(f, bytes) == S!FoldLeft(LAMBDA x, s : Apply(x, ReadBack(s)), f, bytes)

LEMMA ImportedIs ==
  ASSUME NEW f, NEW bytes
  PROVE  Imported(f, bytes) = (CHOOSE g : Reads(f, bytes, SUBSET DOMAIN bytes, g))[DOMAIN bytes]
BY DEF Imported, S!FoldLeft, S!MapThenFoldSet, Reads

LEMMA ReadsExist ==
  ASSUME NEW f, NEW bytes
  PROVE  \A n \in Nat : \E g : Reads(f, bytes, SUBSET (1..n), g)
<1> DEFINE P == {n \in Nat : \E g : Reads(f, bytes, SUBSET (1..n), g)}
<1>1. 0 \in P
  <2>1. \A s \in SUBSET (1..0) : s = {}
    OBVIOUS
  <2>2. Reads(f, bytes, SUBSET (1..0), [s \in SUBSET (1..0) |-> f])
    BY <2>1 DEF Reads
  <2> QED
    BY <2>2
<1>2. ASSUME NEW n \in Nat, n \in P
      PROVE  n + 1 \in P
  <2>1. PICK g : Reads(f, bytes, SUBSET (1..n), g)
    BY <1>2
  <2> DEFINE to(s) == S!Max(s)
             h == [s \in SUBSET (1..(n + 1)) |-> IF s = {} THEN f ELSE Apply(g[s \ {to(s)}], ReadBack(bytes[to(s)]))]
  <2>2. \A s \in SUBSET (1..n) : g[s] = IF s = {} THEN f ELSE Apply(g[s \ {to(s)}], ReadBack(bytes[to(s)]))
    BY <2>1, Zenon DEF Reads
  <2>3. \A s \in SUBSET (1..(n + 1)) : s # {} => s \ {to(s)} \in SUBSET (1..n)
    <3> SUFFICES ASSUME NEW s \in SUBSET (1..(n + 1)), s # {} PROVE s \ {to(s)} \in SUBSET (1..n)
      OBVIOUS
    <3> HIDE DEF to
    <3>1. to(s) \in s /\ \A x \in s : x <= to(s)
      BY LargestIs DEF to
    <3> DEFINE m == to(s)
    <3>2. m \in 1..(n + 1) /\ \A x \in s : x \in 1..(n + 1) /\ x <= m
      BY <3>1
    <3> HIDE DEF m
    <3>3. \A x \in s : x # m => x \in 1..n
      BY <3>2
    <3> QED
      BY <3>3 DEF m
  <2>4. \A s \in SUBSET (1..n) : h[s] = g[s]
    <3>1. \A s \in SUBSET (1..n) : s \in SUBSET (1..(n + 1))
      OBVIOUS
    <3> HIDE DEF to
    <3> QED
      BY <2>2, <3>1, Zenon
  <2>5. \A s \in SUBSET (1..(n + 1)) : s # {} => h[s \ {to(s)}] = g[s \ {to(s)}]
    <3> HIDE DEF to, h
    <3> QED
      BY <2>3, <2>4
  <2>6. h = [s \in SUBSET (1..(n + 1)) |-> IF s = {} THEN f ELSE Apply(h[s \ {to(s)}], ReadBack(bytes[to(s)]))]
    <3> HIDE DEF to
    <3> QED
      BY <2>5, Zenon
  <2>7. Reads(f, bytes, SUBSET (1..(n + 1)), h)
    <3> HIDE DEF h
    <3> QED
      BY <2>6, Zenon DEF Reads
  <2> QED
    BY <2>7
<1> HIDE DEF P
<1>3. \A n \in Nat : n \in P
  BY <1>1, <1>2, AllNumbers
<1> QED
  BY <1>3 DEF P

ReadsRun(f, bytes, n, h) == h[0] = f /\ \A i \in 1..n : h[i] = Apply(h[i - 1], ReadBack(bytes[i]))

ReadsRan(f, bytes, n) == \E h : ReadsRun(f, bytes, n, h) /\ Imported(f, bytes) = h[n]

LEMMA ImportedRuns ==
  ASSUME NEW f, NEW bytes, NEW n \in Nat, DOMAIN bytes = 1..n
  PROVE  ReadsRan(f, bytes, n)
<1> DEFINE g == CHOOSE g : Reads(f, bytes, SUBSET (1..n), g)
           h == [i \in 0..n |-> g[1..i]]
<1>1. Reads(f, bytes, SUBSET (1..n), g)
  BY ReadsExist, Zenon
<1>2. Imported(f, bytes) = g[1..n]
  BY ImportedIs, Zenon
<1> HIDE DEF g
<1>3. \A s \in SUBSET (1..n) : g[s] = IF s = {} THEN f ELSE Apply(g[s \ {S!Max(s)}], ReadBack(bytes[S!Max(s)]))
  BY <1>1, Zenon DEF Reads
<1>4. g[1..0] = f
  <2>1. 1..0 = {} /\ 1..0 \in SUBSET (1..n)
    OBVIOUS
  <2> QED
    BY <1>3, <2>1
<1>5. ASSUME NEW i \in 1..n
      PROVE  g[1..i] = Apply(g[1..(i - 1)], ReadBack(bytes[i]))
  <2>1. 1..i # {} /\ 1..i \in SUBSET (1..n) /\ S!Max(1..i) = i
    <3>1. i \in Nat /\ i # 0
      OBVIOUS
    <3>2. S!Max(1..i) = i
      BY <3>1, LargestIs
    <3> QED
      BY <3>2
  <2>2. (1..i) \ {i} = 1..(i - 1)
    OBVIOUS
  <2>3. g[1..i] = Apply(g[(1..i) \ {S!Max(1..i)}], ReadBack(bytes[S!Max(1..i)]))
    BY <1>3, <2>1, Zenon
  <2> QED
    BY <2>1, <2>2, <2>3, Zenon
<1>6. ReadsRun(f, bytes, n, h)
  <2>1. 0 \in 0..n /\ \A i \in 1..n : i \in 0..n /\ i - 1 \in 0..n
    OBVIOUS
  <2>2. \A i \in 0..n : h[i] = g[1..i]
    OBVIOUS
  <2> HIDE DEF h
  <2> QED
    BY <1>4, <1>5, <2>1, <2>2, Zenon DEF ReadsRun
<1>7. n \in 0..n
  OBVIOUS
<1>8. h[n] = g[1..n]
  BY <1>7
<1> QED
  BY <1>2, <1>6, <1>8, Zenon DEF ReadsRan

-----------------------------------------------------------------------------
\* Sorting by rank lists a finite set.

LEMMA InOrderIs ==
  ASSUME NEW P \in SUBSET (Nat \X Nat), IsFiniteSet(P)
  PROVE  /\ InOrder(P) \in Seq(P)
         /\ Len(InOrder(P)) = Cardinality(P)
         /\ \A i, j \in 1..Len(InOrder(P)) : i < j => Before(InOrder(P)[i], InOrder(P)[j])
         /\ \A p \in P : \E i \in 1..Len(InOrder(P)) : InOrder(P)[i] = p
<1> DEFINE under(p) == {q \in P : Before(q, p)}
           rank(p) == Cardinality(under(p))
           n == Cardinality(P)
           f == [p \in P |-> rank(p)]
<1>1. n \in Nat
  BY FS_CardinalityType
<1>2. \A p, q, r \in P : /\ ~ Before(p, p)
                          /\ (p = q \/ Before(p, q) \/ Before(q, p))
                          /\ (Before(p, q) /\ Before(q, r) => Before(p, r))
  BY DEF Before
<1>3. ASSUME NEW p \in P
      PROVE  /\ IsFiniteSet(under(p)) /\ rank(p) \in Nat
             /\ rank(p) \in 0..(n - 1)
  <2>1. IsFiniteSet(under(p)) /\ rank(p) \in Nat
    <3>1. under(p) \in SUBSET P
      OBVIOUS
    <3> QED
      BY <3>1, FS_Subset, FS_CardinalityType
  <2>2. under(p) \in SUBSET (P \ {p}) /\ IsFiniteSet(P \ {p})
    BY <1>2, FS_RemoveElement
  <2>3. rank(p) <= Cardinality(P \ {p})
    BY <2>2, FS_Subset
  <2>4. Cardinality(P \ {p}) = n - 1
    BY FS_RemoveElement
  <2> HIDE DEF rank, n
  <2> QED
    BY <1>1, <2>1, <2>3, <2>4
<1>4. ASSUME NEW p \in P, NEW q \in P, Before(p, q)
      PROVE  rank(p) < rank(q)
  <2>1. under(p) \cup {p} \in SUBSET under(q)
    BY <1>2, <1>4
  <2>2. p \notin under(p)
    BY <1>2
  <2> HIDE DEF under
  <2>3. Cardinality(under(p) \cup {p}) = rank(p) + 1
    BY <1>3, <2>2, FS_AddElement
  <2>4. Cardinality(under(p) \cup {p}) <= rank(q)
    BY <1>3, <2>1, FS_Subset
  <2> HIDE DEF rank
  <2> QED
    BY <1>3, <2>3, <2>4
<1>5. f \in Injection(P, 0..(n - 1))
  <2> HIDE DEF rank, n
  <2>1. f \in [P -> 0..(n - 1)]
    BY <1>3
  <2>2. ASSUME NEW p \in P, NEW q \in P, f[p] = f[q]
        PROVE  p = q
    <3>1. rank(p) = rank(q)
      BY <2>2
    <3>2. rank(p) \in Nat /\ rank(q) \in Nat
      BY <1>3
    <3>4. /\ Before(p, q) => rank(p) < rank(q)
          /\ Before(q, p) => rank(q) < rank(p)
      BY <1>4
    <3>3. ~ Before(p, q) /\ ~ Before(q, p)
      BY <3>1, <3>2, <3>4
    <3> QED
      BY <1>2, <3>3
  <2> HIDE DEF f
  <2> QED
    BY <2>1, <2>2 DEF Injection, IsInjective
<1>6. f \in Surjection(P, 0..(n - 1))
  <2>1. IsFiniteSet(0..(n - 1)) /\ Cardinality(0..(n - 1)) = n
    <3> HIDE DEF n
    <3>1. n - 1 \in Int /\ (0 > n - 1 <=> n = 0) /\ (n - 1) - 0 + 1 = n
      BY <1>1
    <3> QED
      BY <3>1, FS_Interval
  <2> HIDE DEF f
  <2> QED
    BY <1>5, <2>1, FS_Injection DEF n
<1>7. ASSUME NEW i \in 1..n
      PROVE  \E p \in P : rank(p) = i - 1
  <2> HIDE DEF rank, n
  <2>1. i - 1 \in 0..(n - 1)
    BY <1>1
  <2>2. PICK p \in P : f[p] = i - 1
    <3> HIDE DEF f
    <3> QED
      BY <1>6, <2>1 DEF Surjection
  <2> QED
    BY <2>2
<1>8. InOrder(P) = [i \in 1..n |-> CHOOSE p \in P : rank(p) = i - 1]
  BY DEF InOrder
<1> HIDE DEF rank, n
<1>9. \A i \in 1..n : InOrder(P)[i] \in P /\ rank(InOrder(P)[i]) = i - 1
  BY <1>7, <1>8
<1>10. InOrder(P) \in [1..n -> P]
  BY <1>8, <1>9
<1>11. InOrder(P) \in Seq(P) /\ Len(InOrder(P)) = n
  <2> DEFINE s == InOrder(P)
  <2>1. s \in [1..n -> P]
    BY <1>10
  <2> HIDE DEF s
  <2>2. s \in Seq(P) /\ Len(s) = n
    BY <1>1, <2>1
  <2> QED
    BY <2>2 DEF s
<1>12. ASSUME NEW i \in 1..n, NEW j \in 1..n, i < j
       PROVE  Before(InOrder(P)[i], InOrder(P)[j])
  <2> DEFINE p == InOrder(P)[i]
             q == InOrder(P)[j]
  <2>1. p \in P /\ q \in P /\ rank(p) = i - 1 /\ rank(q) = j - 1
    BY <1>9
  <2> HIDE DEF p, q
  <2>2. p # q
    BY <1>1, <1>12, <2>1
  <2>3. ~ Before(q, p)
    <3>1. Before(q, p) => rank(q) < rank(p)
      BY <1>4, <2>1
    <3> QED
      BY <1>1, <1>12, <2>1, <3>1
  <2>4. Before(p, q)
    BY <1>2, <2>1, <2>2, <2>3
  <2> QED
    BY <2>4 DEF p, q
<1>13. ASSUME NEW p \in P
       PROVE  \E i \in 1..n : InOrder(P)[i] = p
  <2> DEFINE x == rank(p)
             i == x + 1
             q == InOrder(P)[i]
  <2>0. x \in Nat /\ x \in 0..(n - 1)
    BY <1>3
  <2> HIDE DEF x
  <2>1. i \in 1..n /\ i - 1 = x
    BY <1>1, <2>0
  <2> HIDE DEF i
  <2>2. q \in P /\ rank(q) = rank(p)
    BY <1>9, <2>1 DEF x
  <2> HIDE DEF q
  <2>3. /\ Before(p, q) => rank(p) < rank(q)
        /\ Before(q, p) => rank(q) < rank(p)
    BY <1>4, <2>2
  <2>4. rank(p) \in Nat
    BY <1>3
  <2>5. ~ Before(p, q) /\ ~ Before(q, p)
    BY <2>2, <2>3, <2>4
  <2>6. q = p
    BY <1>2, <2>2, <2>5
  <2> QED
    BY <2>1, <2>6 DEF q
<1> QED
  BY <1>11, <1>12, <1>13 DEF n

-----------------------------------------------------------------------------
\* What one operation does to an engine.

EngineState == [view : View, log : Seq(StampedOp), last : Hlc, next_local_id : Nat]

KnownIn(f) == {f.log[i] : i \in 1..Len(f.log)}

\* Hosts never remove anything, and count usage for themselves.
Made(s) ==
  /\ s \in StampedOp
  /\ s.op.type \in {"AddNode", "SetEmbedding", "AddEdge", "Reinforce", "Decay"}
  /\ OwnBucket(s)

Adds(s, id) == s.op.type = "AddNode" /\ s.op.id = id

\* An edge has the tags of its additions and no tombstones.
EdgeFollows(v, ops, k) ==
  /\ v.edges.adds[k] = {s.tag : s \in {x \in ops : x.op.type = "AddEdge" /\ x.op.key = k}}
  /\ v.edges.removes[k] = {}

\* Everything in the view v follows from the operations known.
ViewFollows(v, ops) ==
  /\ v \in View
  /\ MapsOK(v, {s.tag : s \in ops})
  /\ \A id \in NodeId : NodeFollows(v, ops, id)
  /\ \A k \in EdgeKey : EdgeFollows(v, ops, k)
  /\ BucketsFollow(v, ops)

\* What makes s a new operation for who knows ops.
IsNew(s, ops) ==
  /\ Made(s)
  /\ \A t \in ops : t.tag # s.tag
  /\ s.op.type = "AddNode" => \A t \in ops : ~ Adds(t, s.op.id)
  /\ s.op.type = "SetEmbedding" => \E t \in ops : Adds(t, s.op.id)

NodesKnown(ops) == \A s \in ops : s.op.type = "SetEmbedding" => \E t \in ops : Adds(t, s.op.id)

LEMMA EdgeStep ==
  ASSUME NEW v \in View, NEW s, Made(s), NEW ops, NEW k \in EdgeKey, EdgeFollows(v, ops, k)
  PROVE  EdgeFollows(Materialize(v, s), ops \cup {s}, k)
<1> DEFINE w == Materialize(v, s)
           of(os) == {x \in os : x.op.type = "AddEdge" /\ x.op.key = k}
<1>1. s \in StampedOp /\ s.tag \in Tag
  BY DEF Made, StampedOp
<1>2. v.edges \in TaggedSet(EdgeKey)
  BY DEF View
<1>3. CASE s.op.type = "AddEdge"
  <2>1. s.op.key \in EdgeKey
    BY <1>1, <1>3 DEF StampedOp, Operation
  <2>2. w.edges = Add(v.edges, s.op.key, s.tag)
    BY <1>1, <1>3, EdgeEffect
  <2> HIDE DEF w
  <2>3. /\ w.edges.adds = [v.edges.adds EXCEPT ![s.op.key] = @ \cup {s.tag}]
        /\ w.edges.removes = v.edges.removes
    BY <1>2, <2>1, <2>2 DEF Add, TaggedSet
  <2>4. CASE s.op.key = k
    <3>1. of(ops \cup {s}) = of(ops) \cup {s}
      BY <1>3, <2>4
    <3>2. w.edges.adds[k] = v.edges.adds[k] \cup {s.tag}
      BY <1>2, <2>3, <2>4 DEF TaggedSet
    <3>3. {x.tag : x \in of(ops) \cup {s}} = {x.tag : x \in of(ops)} \cup {s.tag}
      OBVIOUS
    <3> QED
      BY <2>3, <3>1, <3>2, <3>3 DEF EdgeFollows, w
  <2>5. CASE s.op.key # k
    <3>1. of(ops \cup {s}) = of(ops)
      BY <2>5
    <3>2. w.edges.adds[k] = v.edges.adds[k]
      BY <1>2, <2>3, <2>5 DEF TaggedSet
    <3> QED
      BY <2>3, <3>1, <3>2 DEF EdgeFollows, w
  <2> QED
    BY <2>4, <2>5
<1>4. CASE s.op.type # "AddEdge"
  <2>1. of(ops \cup {s}) = of(ops)
    BY <1>4
  <2>2. w.edges = v.edges
    <3>1. CASE s.op.type = "AddNode"
      BY <1>1, <3>1, AddNodeEffect
    <3>2. CASE s.op.type = "SetEmbedding"
      BY <1>1, <3>2, SetEmbeddingEffect
    <3>3. CASE s.op.type \in {"Reinforce", "Decay"}
      BY <1>1, <3>3, EdgeEffect
    <3> QED
      BY <1>4, <3>1, <3>2, <3>3 DEF Made
  <2> QED
    BY <2>1, <2>2 DEF EdgeFollows
<1> QED
  BY <1>3, <1>4

\* A new operation carries the view on.
LEMMA ViewStep ==
  ASSUME NEW v, NEW ops \in SUBSET StampedOp, IsFiniteSet(ops), \A t \in ops : Made(t),
         ViewFollows(v, ops), NodesKnown(ops), NEW s, IsNew(s, ops)
  PROVE  ViewFollows(Materialize(v, s), ops \cup {s})
<1> DEFINE w == Materialize(v, s)
           T == {t.tag : t \in ops}
<1>1. v \in View /\ s \in StampedOp /\ Made(s) /\ OwnBucket(s) /\ s \notin ops /\ MapsOK(v, T)
  BY DEF ViewFollows, IsNew, Made
<1>2. w \in View
  BY <1>1, MaterializeType
<1>3. MapsOK(w, {t.tag : t \in ops \cup {s}})
  <2>1. {t.tag : t \in ops \cup {s}} = T \cup {s.tag}
    OBVIOUS
  <2> HIDE DEF T, w
  <2> QED
    BY <1>1, <2>1, MaterializeOK DEF w
<1>4. ASSUME NEW id \in NodeId
      PROVE  NodeFollows(w, ops \cup {s}, id)
  <2>1. NodeFollows(v, ops, id) /\ NodeOK(v, T, id)
    BY <1>1 DEF ViewFollows, MapsOK
  <2>2. CASE s.op.type \notin {"AddNode", "RemoveNode", "SetEmbedding"} \/ s.op.id # id
    BY <1>1, <2>1, <2>2, OtherFollows
  <2>3. CASE s.op.type = "AddNode" /\ s.op.id = id
    <3>1. \A t \in ops : ~ Adds(t, id)
      BY <2>3 DEF IsNew
    <3>2. \A t \in ops : t.op.type = "SetEmbedding" => t.op.id # id
      BY <3>1 DEF NodesKnown
    <3>3. \A t \in ops : t.op.type # "RemoveNode"
      BY DEF Made
    <3>4. \A type \in {"AddNode", "RemoveNode", "SetEmbedding"} : OpsOn(ops, type, id) = {}
      BY <3>1, <3>2, <3>3 DEF OpsOn, Adds
    <3> HIDE DEF T
    <3> QED
      BY <1>1, <2>1, <2>3, <3>4, AdditionFollows
  <2>4. CASE s.op.type = "SetEmbedding" /\ s.op.id = id
    <3>1. OpsOn(ops, "AddNode", id) # {}
      BY <2>4 DEF IsNew, Adds, OpsOn
    <3>2. \A t \in ops : t.tag # s.tag
      BY DEF IsNew
    <3> HIDE DEF T
    <3> QED
      BY <1>1, <2>1, <2>4, <3>1, <3>2, EmbeddingFollows
  <2> QED
    BY <1>1, <2>2, <2>3, <2>4 DEF Made
<1>5. \A k \in EdgeKey : EdgeFollows(w, ops \cup {s}, k)
  BY <1>1, EdgeStep DEF ViewFollows
<1>6. BucketsFollow(w, ops \cup {s})
  BY <1>1, BucketsStep DEF ViewFollows
<1> HIDE DEF w
<1> QED
  BY <1>2, <1>3, <1>4, <1>5, <1>6 DEF ViewFollows, w

\* What an engine shows follows from what it knows, and its clock is ahead.
EngineOK(f) ==
  /\ f \in EngineState
  /\ \A s \in KnownIn(f) : Made(s) /\ ~ HlcLT(f.last, s.tag.hlc)
  /\ ViewFollows(f.view, KnownIn(f))
  /\ \A i \in 1..Len(f.log) :
       f.log[i].op.type = "SetEmbedding" => \E j \in 1..(i - 1) : Adds(f.log[j], f.log[i].op.id)

\* An engine knows finitely many operations, all made by hosts.
LEMMA KnownType ==
  ASSUME NEW f, EngineOK(f)
  PROVE  /\ f.log \in Seq(StampedOp) /\ Len(f.log) \in Nat /\ f.last \in Hlc
         /\ KnownIn(f) \in SUBSET StampedOp /\ IsFiniteSet(KnownIn(f))
         /\ NodesKnown(KnownIn(f))
<1>1. f.log \in Seq(StampedOp) /\ Len(f.log) \in Nat /\ f.last \in Hlc
  BY DEF EngineOK, EngineState
<1>2. KnownIn(f) \in SUBSET StampedOp
  BY <1>1 DEF KnownIn
<1>3. IsFiniteSet(KnownIn(f))
  <2>1. f.log \in Surjection(1..Len(f.log), KnownIn(f))
    BY <1>1 DEF Surjection, KnownIn
  <2>2. IsFiniteSet(1..Len(f.log))
    BY <1>1, FS_Interval
  <2> QED
    BY <2>1, <2>2, FS_Surjection
<1>4. NodesKnown(KnownIn(f))
  <2> SUFFICES ASSUME NEW i \in 1..Len(f.log), f.log[i].op.type = "SetEmbedding"
               PROVE  \E t \in KnownIn(f) : Adds(t, f.log[i].op.id)
    BY DEF NodesKnown, KnownIn
  <2>1. PICK j \in 1..(i - 1) : Adds(f.log[j], f.log[i].op.id)
    BY DEF EngineOK
  <2>2. j \in 1..Len(f.log)
    BY <1>1
  <2> QED
    BY <2>1, <2>2 DEF KnownIn
<1> QED
  BY <1>1, <1>2, <1>3, <1>4

\* An operation whose tag is known changes nothing.
LEMMA ApplyAgain ==
  ASSUME NEW f, NEW s, \E t \in KnownIn(f) : t.tag = s.tag
  PROVE  Apply(f, s) = f
BY DEF Apply, KnownIn

\* Forest::apply of a new operation.
LEMMA ApplyStep ==
  ASSUME NEW f, EngineOK(f), NEW s, IsNew(s, KnownIn(f))
  PROVE  /\ EngineOK(Apply(f, s))
         /\ KnownIn(Apply(f, s)) = KnownIn(f) \cup {s}
         /\ Apply(f, s).log = Append(f.log, s)
         /\ Apply(f, s).last = Observe(f.last, s.tag.hlc, 0)
         /\ Apply(f, s).next_local_id = f.next_local_id
<1> DEFINE g == Apply(f, s)
           n == Len(f.log)
           ops == KnownIn(f)
<1>1. f \in EngineState /\ s \in StampedOp /\ Made(s) /\ s.tag.hlc \in Hlc
  <2>1. s \in StampedOp
    BY DEF IsNew, Made
  <2>2. s.tag \in Tag
    BY <2>1 DEF StampedOp
  <2> QED
    BY <2>1, <2>2 DEF EngineOK, IsNew, Tag
<1>2. /\ f.log \in Seq(StampedOp) /\ n \in Nat /\ f.last \in Hlc
      /\ ops \in SUBSET StampedOp /\ IsFiniteSet(ops) /\ NodesKnown(ops)
  BY KnownType
<1>3. ~ \E i \in 1..n : f.log[i].tag = s.tag
  BY DEF IsNew, KnownIn
<1>4. g = [f EXCEPT !.view = Materialize(f.view, s), !.last = Observe(f.last, s.tag.hlc, 0),
                    !.log = Append(f.log, s)]
  <2> HIDE DEF n
  <2> QED
    BY <1>3 DEF Apply, n
<1> HIDE DEF g
<1>5. /\ g.view = Materialize(f.view, s) /\ g.last = Observe(f.last, s.tag.hlc, 0)
      /\ g.log = Append(f.log, s) /\ g.next_local_id = f.next_local_id
  BY <1>1, <1>4 DEF EngineState
<1>6. ViewFollows(g.view, ops \cup {s})
  <2>1. ViewFollows(f.view, ops) /\ \A t \in ops : Made(t)
    BY DEF EngineOK
  <2> HIDE DEF ops
  <2>2. IsNew(s, ops)
    BY DEF ops
  <2> QED
    BY <1>2, <1>5, <2>1, <2>2, ViewStep
<1>7. g.view \in View
  BY <1>6 DEF ViewFollows
<1>8. /\ g.last \in Hlc /\ HlcLT(f.last, g.last) /\ HlcLT(s.tag.hlc, g.last)
  BY <1>1, <1>2, <1>5, ObserveAdvances
<1>9. /\ g.log \in Seq(StampedOp) /\ Len(g.log) = n + 1
      /\ \A i \in 1..n : g.log[i] = f.log[i]
      /\ g.log[n + 1] = s
  BY <1>1, <1>2, <1>5
<1>10. g \in EngineState
  BY <1>1, <1>4, <1>5, <1>7, <1>8, <1>9 DEF EngineState
<1>11. KnownIn(g) = ops \cup {s}
  <2>1. 1..(n + 1) = (1..n) \cup {n + 1}
    BY <1>2
  <2> HIDE DEF n
  <2>2. KnownIn(g) = {g.log[i] : i \in (1..n) \cup {n + 1}}
    BY <1>9, <2>1 DEF KnownIn
  <2>3. ops = {f.log[i] : i \in 1..n}
    BY DEF KnownIn, n
  <2> HIDE DEF ops
  <2> QED
    BY <1>9, <2>2, <2>3
<1>12. ASSUME NEW t \in KnownIn(g)
       PROVE  Made(t) /\ ~ HlcLT(g.last, t.tag.hlc)
  <2>1. t.tag.hlc \in Hlc /\ Made(t)
    <3>1. Made(t)
      BY <1>1, <1>11, <1>12 DEF EngineOK
    <3>2. t \in StampedOp
      BY <3>1 DEF Made
    <3>3. t.tag \in Tag
      BY <3>2 DEF StampedOp
    <3> QED
      BY <3>1, <3>3 DEF Tag
  <2>2. CASE t = s
    BY <1>8, <2>1, <2>2, HlcOrder
  <2>3. CASE t \in ops
    <3>1. ~ HlcLT(f.last, t.tag.hlc)
      BY <2>3 DEF EngineOK
    <3> QED
      BY <1>2, <1>8, <2>1, <3>1, HlcOrder
  <2> QED
    BY <1>11, <1>12, <2>1, <2>2, <2>3
<1>13. ASSUME NEW i \in 1..Len(g.log), g.log[i].op.type = "SetEmbedding"
       PROVE  \E j \in 1..(i - 1) : Adds(g.log[j], g.log[i].op.id)
  <2>1. CASE i = n + 1
    <3>1. PICK t \in ops : Adds(t, s.op.id)
      BY <1>9, <1>13, <2>1 DEF IsNew
    <3>2. PICK j \in 1..n : f.log[j] = t
      BY DEF KnownIn
    <3>3. j \in 1..(i - 1)
      BY <1>2, <2>1
    <3> QED
      BY <1>9, <2>1, <3>1, <3>2, <3>3
  <2>2. CASE i # n + 1
    <3>1. i \in 1..n
      BY <1>2, <1>9, <2>2
    <3>2. PICK j \in 1..(i - 1) : Adds(f.log[j], f.log[i].op.id)
      BY <1>9, <1>13, <3>1 DEF EngineOK
    <3>3. j \in 1..n
      BY <1>2, <3>1
    <3> QED
      BY <1>9, <3>1, <3>2, <3>3
  <2> QED
    BY <2>1, <2>2
<1>14. EngineOK(g)
  BY <1>6, <1>10, <1>11, <1>12, <1>13 DEF EngineOK
<1> QED
  BY <1>5, <1>11, <1>14 DEF g

\* What a host may ask of the engine e, which knows ops.
Callable(e, op, ops) ==
  /\ op \in Operation
  /\ op.type \in {"AddNode", "SetEmbedding", "AddEdge", "Reinforce", "Decay"}
  /\ op.type \in {"Reinforce", "Decay"} => op.replica = e
  /\ op.type = "AddNode" => \A t \in ops : ~ Adds(t, op.id)
  /\ op.type = "SetEmbedding" => \E t \in ops : Adds(t, op.id)

\* While the wall clock stands still, the i-th of the operations that e makes
\* after the time last is stamped so, and n of them take its clock so far: an
\* operation ticks the clock when it is made and when it is applied.
StampOf(e, last, i, op) ==
  [tag |-> [replica |-> e,
            hlc |-> [physical |-> last.physical, logical |-> last.logical + 2 * i - 1]],
   op |-> op]
Later(last, n) == [physical |-> last.physical, logical |-> last.logical + 2 * n]

\* The local mutation API stamps an operation with a tag of its own.
LEMMA DoStep ==
  ASSUME NEW f, EngineOK(f), NEW e \in Replica, NEW op, Callable(e, op, KnownIn(f))
  PROVE  LET g == Do(e, f, op)
             s == StampOf(e, f.last, 1, op)
         IN  /\ EngineOK(g) /\ g.next_local_id = f.next_local_id
             /\ IsNew(s, KnownIn(f)) /\ KnownIn(g) = KnownIn(f) \cup {s}
             /\ g.last = Later(f.last, 1)
<1> DEFINE hlc == Tick(f.last, 0)
           m == [f EXCEPT !.last = hlc]
           s == [tag |-> [replica |-> e, hlc |-> hlc], op |-> op]
<1>1. f \in EngineState /\ f.last \in Hlc
  BY DEF EngineOK, EngineState
<1>2. hlc \in Hlc /\ HlcLT(f.last, hlc)
  BY <1>1, TickAdvances
<1>3. Do(e, f, op) = Apply(m, s)
  BY DEF Do
<1>4. s.op = op /\ s.tag.replica = e /\ s.tag.hlc = hlc /\ s.tag = [replica |-> e, hlc |-> hlc]
  OBVIOUS
<1>5. s \in StampedOp
  BY <1>2 DEF StampedOp, Tag, Callable
<1>6. m \in EngineState /\ m.last = hlc /\ m.log = f.log /\ m.view = f.view
      /\ m.next_local_id = f.next_local_id
  BY <1>1, <1>2 DEF EngineState
<1> HIDE DEF hlc, m, s
<1>7. KnownIn(m) = KnownIn(f)
  BY <1>6 DEF KnownIn
<1>8. ASSUME NEW t \in KnownIn(f)
      PROVE  t.tag.hlc \in Hlc /\ (HlcLT(t.tag.hlc, hlc) \/ t.tag.hlc = f.last)
  <2>1. t \in StampedOp /\ ~ HlcLT(f.last, t.tag.hlc)
    BY KnownType DEF EngineOK
  <2>2. t.tag.hlc \in Hlc
    <3>1. t.tag \in Tag
      BY <2>1 DEF StampedOp
    <3> QED
      BY <3>1 DEF Tag
  <2>3. f.last = t.tag.hlc \/ HlcLT(t.tag.hlc, f.last)
    BY <1>1, <2>1, <2>2 DEF Hlc, HlcLT
  <2> QED
    BY <1>1, <1>2, <2>2, <2>3, HlcOrder
<1>9. ASSUME NEW t \in KnownIn(f)
      PROVE  t.tag # s.tag /\ ~ HlcLT(hlc, t.tag.hlc)
  <2>1. CASE t.tag.hlc = f.last
    BY <1>1, <1>2, <1>4, <2>1, HlcOrder
  <2>2. CASE t.tag.hlc # f.last
    <3>1. t.tag.hlc \in Hlc /\ HlcLT(t.tag.hlc, hlc)
      BY <1>8, <2>2
    <3> QED
      BY <1>2, <1>4, <3>1, HlcOrder
  <2> QED
    BY <2>1, <2>2
<1>10. EngineOK(m)
  BY <1>6, <1>7, <1>9 DEF EngineOK
<1>11. IsNew(s, KnownIn(f))
  <2>1. Made(s)
    BY <1>4, <1>5 DEF Made, Callable, OwnBucket
  <2> QED
    BY <1>4, <1>9, <2>1 DEF IsNew, Callable
<1>12. /\ EngineOK(Apply(m, s)) /\ KnownIn(Apply(m, s)) = KnownIn(f) \cup {s}
       /\ Apply(m, s).next_local_id = f.next_local_id
       /\ Apply(m, s).last = Observe(hlc, hlc, 0)
  BY <1>4, <1>6, <1>7, <1>10, <1>11, ApplyStep
<1>13. s = StampOf(e, f.last, 1, op) /\ Observe(hlc, hlc, 0) = Later(f.last, 1)
  <2>1. f.last.physical \in Nat /\ f.last.logical \in Nat
    BY <1>1 DEF Hlc
  <2>2. hlc = [physical |-> f.last.physical, logical |-> f.last.logical + 1]
    BY <2>1 DEF hlc, Tick
  <2>3. s = StampOf(e, f.last, 1, op)
    BY <2>1, <2>2 DEF s, StampOf
  <2>4. Observe(hlc, hlc, 0) = [physical |-> f.last.physical, logical |-> f.last.logical + 2]
    BY <2>1, <2>2 DEF Observe, Larger
  <2> QED
    BY <2>1, <2>3, <2>4 DEF Later
<1> QED
  BY <1>3, <1>11, <1>12, <1>13, Zenon

-----------------------------------------------------------------------------
\* What one operation does to a group of engines.

\* k has what each engine knows, nx the number of the next node of each: an
\* engine knows its own operations before others do, a tag is that of one
\* operation, and a node id is the id of one addition, by the engine in it.
SharedOK(k, nx) ==
  /\ nx \in [Replica -> Nat]
  /\ \A a \in Replica : \A s \in k[a] : s \in k[s.tag.replica]
  /\ \A a, b \in Replica : \A s \in k[a], t \in k[b] :
       /\ s.tag = t.tag => s = t
       /\ s.op.type = "AddNode" /\ t.op.type = "AddNode" /\ s.op.id = t.op.id => s = t
  /\ \A a \in Replica : \A s \in k[a] :
       s.op.type = "AddNode" =>
         s.op.id[1] = s.tag.replica /\ s.op.id[2] < nx[s.tag.replica]

\* An operation of e that e does not know is new to all.
LEMMA LocalShared ==
  ASSUME NEW k \in [Replica -> SUBSET StampedOp], NEW nx, SharedOK(k, nx),
         NEW e \in Replica, NEW s \in StampedOp, s.tag.replica = e, \A t \in k[e] : t.tag # s.tag,
         NEW m \in Nat, m >= nx[e],
         s.op.type = "AddNode" => s.op.id = <<e, nx[e]>> /\ m = nx[e] + 1
  PROVE  SharedOK([k EXCEPT ![e] = @ \cup {s}], [nx EXCEPT ![e] = m])
<1> DEFINE k2 == [k EXCEPT ![e] = @ \cup {s}]
           n2 == [nx EXCEPT ![e] = m]
<1>1. /\ \A a \in Replica : k2[a] = IF a = e THEN k[a] \cup {s} ELSE k[a]
      /\ \A a \in Replica : n2[a] = IF a = e THEN m ELSE nx[a]
      /\ n2 \in [Replica -> Nat] /\ nx \in [Replica -> Nat]
  BY DEF SharedOK
<1>2. \A a \in Replica : \A t \in k[a] : t \in StampedOp /\ t.tag.replica \in Replica
  <2> SUFFICES ASSUME NEW a \in Replica, NEW t \in k[a]
               PROVE  t \in StampedOp /\ t.tag.replica \in Replica
    OBVIOUS
  <2>1. t \in StampedOp
    OBVIOUS
  <2>2. t.tag \in Tag
    BY <2>1 DEF StampedOp
  <2> QED
    BY <2>1, <2>2 DEF Tag
<1> HIDE DEF k2, n2
<1>3. \A a \in Replica : \A t \in k2[a] : t = s \/ t \in k[a]
  BY <1>1, Zenon
<1>4. ASSUME NEW a \in Replica, NEW t \in k2[a]
      PROVE  t \in k2[t.tag.replica]
  <2>1. \A b \in Replica : k[b] \subseteq k2[b]
    BY <1>1
  <2>2. CASE t = s
    BY <1>1, <2>2
  <2>3. CASE t \in k[a]
    <3>1. t.tag.replica \in Replica /\ t \in k[t.tag.replica]
      BY <1>2, <2>3 DEF SharedOK
    <3> QED
      BY <2>1, <3>1
  <2> QED
    BY <1>3, <1>4, <2>2, <2>3
<1>5. ASSUME NEW a \in Replica, NEW t \in k[a]
      PROVE  /\ t.tag # s.tag
             /\ ~ (t.op.type = "AddNode" /\ s.op.type = "AddNode" /\ t.op.id = s.op.id)
  <2>1. t.tag # s.tag
    <3> SUFFICES ASSUME t.tag = s.tag PROVE FALSE
      OBVIOUS
    <3>1. t \in k[e]
      BY <1>5 DEF SharedOK
    <3> QED
      BY <3>1
  <2>2. ASSUME t.op.type = "AddNode", s.op.type = "AddNode", t.op.id = s.op.id
        PROVE  FALSE
    <3>1. t.op.id[1] = t.tag.replica /\ t.op.id[2] < nx[t.tag.replica]
      BY <1>5, <2>2 DEF SharedOK
    <3>2. t.tag.replica = e /\ t.op.id[2] = nx[e]
      BY <2>2, <3>1
    <3>3. nx[e] \in Nat
      BY <1>1
    <3> QED
      BY <3>1, <3>2, <3>3
  <2> QED
    BY <2>1, <2>2
<1>6. ASSUME NEW a \in Replica, NEW b \in Replica, NEW t \in k2[a], NEW u \in k2[b]
      PROVE  /\ t.tag = u.tag => t = u
             /\ t.op.type = "AddNode" /\ u.op.type = "AddNode" /\ t.op.id = u.op.id => t = u
  <2>1. CASE t = s /\ u = s
    BY <2>1
  <2>2. CASE t = s /\ u \in k[b]
    BY <1>5, <2>2
  <2>3. CASE t \in k[a] /\ u = s
    BY <1>5, <2>3
  <2>4. CASE t \in k[a] /\ u \in k[b]
    BY <2>4 DEF SharedOK
  <2> QED
    BY <1>3, <1>6, <2>1, <2>2, <2>3, <2>4
<1>7. ASSUME NEW a \in Replica, NEW t \in k2[a], t.op.type = "AddNode"
      PROVE  t.op.id[1] = t.tag.replica /\ t.op.id[2] < n2[t.tag.replica]
  <2>1. CASE t = s
    BY <1>1, <1>7, <2>1
  <2>2. CASE t \in k[a]
    <3>1. t.op.id[1] = t.tag.replica /\ t.op.id[2] < nx[t.tag.replica] /\ t.tag.replica \in Replica
      BY <1>2, <1>7, <2>2 DEF SharedOK
    <3>2. t.op.id[2] \in Nat
      <4>1. t \in StampedOp
        BY <1>2, <2>2
      <4>2. t.op.id \in NodeId
        BY <1>7, <4>1 DEF StampedOp, Operation
      <4> QED
        BY <4>2, LocalIdAssumption DEF NodeId
    <3> QED
      BY <1>1, <3>1, <3>2
  <2> QED
    BY <1>3, <1>7, <2>1, <2>2
<1>8. SharedOK(k2, n2)
  BY <1>1, <1>4, <1>6, <1>7 DEF SharedOK
<1> QED
  BY <1>8 DEF k2, n2

\* What another engine knows is new to b at most.
LEMMA ImportShared ==
  ASSUME NEW k \in [Replica -> SUBSET StampedOp], NEW nx, SharedOK(k, nx),
         NEW a \in Replica, NEW b \in Replica, NEW s \in k[a]
  PROVE  SharedOK([k EXCEPT ![b] = @ \cup {s}], nx)
<1> DEFINE k2 == [k EXCEPT ![b] = @ \cup {s}]
<1>1. \A e \in Replica : k2[e] = IF e = b THEN k[e] \cup {s} ELSE k[e]
  OBVIOUS
<1>2. \A e \in Replica : \A t \in k2[e] : \E c \in Replica : t \in k[c]
  BY <1>1
<1>3. \A e \in Replica : \A t \in k[e] : t.tag.replica \in Replica
  <2> SUFFICES ASSUME NEW e \in Replica, NEW t \in k[e] PROVE t.tag.replica \in Replica
    OBVIOUS
  <2>1. t.tag \in Tag
    BY DEF StampedOp
  <2> QED
    BY <2>1 DEF Tag
<1> HIDE DEF k2
<1>4. \A e \in Replica : k[e] \subseteq k2[e]
  BY <1>1
<1>5. \A e \in Replica : \A t \in k2[e] : t \in k2[t.tag.replica]
  BY <1>2, <1>3, <1>4 DEF SharedOK
<1>6. ASSUME NEW c \in Replica, NEW d \in Replica, NEW t \in k2[c], NEW u \in k2[d]
      PROVE  /\ t.tag = u.tag => t = u
             /\ t.op.type = "AddNode" /\ u.op.type = "AddNode" /\ t.op.id = u.op.id => t = u
  <2>1. PICK x \in Replica : t \in k[x]
    BY <1>2, <1>6
  <2>2. PICK y \in Replica : u \in k[y]
    BY <1>2, <1>6
  <2> QED
    BY <2>1, <2>2 DEF SharedOK
<1>7. \A e \in Replica : \A t \in k2[e] :
        t.op.type = "AddNode" => t.op.id[1] = t.tag.replica /\ t.op.id[2] < nx[t.tag.replica]
  BY <1>2 DEF SharedOK
<1>8. SharedOK(k2, nx)
  BY <1>5, <1>6, <1>7 DEF SharedOK
<1> QED
  BY <1>8 DEF k2

\* The inductive invariant: every engine is in order, and they fit together.
Group(g, nx) ==
  /\ DOMAIN g = Replica
  /\ \A e \in Replica : EngineOK(g[e])
  /\ SharedOK([e \in Replica |-> KnownIn(g[e])], nx)

\* The one operation and the first n operations that e makes, in what it knows
\* before and after.
Learns1(e, op, k, k2) == \E s : s.op = op /\ s.tag.replica = e /\ k2 = k \cup {s}
Learns(e, ops, n, k, k2) ==
  /\ k \subseteq k2
  /\ \A s \in k2 \ k : s.tag.replica = e /\ \E i \in 1..n : s.op = ops[i]
  /\ \A i \in 1..n : \E s \in k2 : s.op = ops[i]

\* The same with the times.
Makes(e, ops, n, f, f2) ==
  /\ KnownIn(f2) = KnownIn(f) \cup {StampOf(e, f.last, i, ops[i]) : i \in 1..n}
  /\ f2.last = Later(f.last, n)

Makes1(e, op, f, f2) ==
  /\ KnownIn(f2) = KnownIn(f) \cup {StampOf(e, f.last, 1, op)}
  /\ f2.last = Later(f.last, 1)

\* One operation more.
LEMMA MakesMore ==
  ASSUME NEW e, NEW ops, NEW n \in Nat, NEW f, f.last \in Hlc, NEW f1, NEW f2,
         Makes(e, ops, n, f, f1), Makes1(e, ops[n + 1], f1, f2)
  PROVE  Makes(e, ops, n + 1, f, f2)
<1> DEFINE st(i) == StampOf(e, f.last, i, ops[i])
<1>1. f.last.physical \in Nat /\ f.last.logical \in Nat
  BY DEF Hlc
<1>2. StampOf(e, f1.last, 1, ops[n + 1]) = st(n + 1)
  BY <1>1 DEF Makes, Later, StampOf
<1>3. f2.last = Later(f.last, n + 1)
  BY <1>1 DEF Makes, Makes1, Later
<1>4. 1..(n + 1) = (1..n) \cup {n + 1}
  OBVIOUS
<1>5. KnownIn(f2) = (KnownIn(f) \cup {st(i) : i \in 1..n}) \cup {st(n + 1)}
  BY <1>2 DEF Makes, Makes1
<1> HIDE DEF st
<1>6. KnownIn(f2) = KnownIn(f) \cup {st(i) : i \in 1..(n + 1)}
  BY <1>4, <1>5
<1> QED
  BY <1>3, <1>6 DEF Makes, st

LEMMA MakesLearns ==
  ASSUME NEW e, NEW ops, NEW n, NEW f, NEW f2
  PROVE  /\ Makes(e, ops, n, f, f2) => Learns(e, ops, n, KnownIn(f), KnownIn(f2))
         /\ \A op : Makes1(e, op, f, f2) => Learns1(e, op, KnownIn(f), KnownIn(f2))
<1>1. \A i, op : /\ StampOf(e, f.last, i, op).op = op
                 /\ StampOf(e, f.last, i, op).tag.replica = e
  BY DEF StampOf
<1>2. ASSUME NEW op, Makes1(e, op, f, f2)
      PROVE  Learns1(e, op, KnownIn(f), KnownIn(f2))
  BY <1>1, <1>2 DEF Makes1, Learns1
<1>3. ASSUME Makes(e, ops, n, f, f2)
      PROVE  Learns(e, ops, n, KnownIn(f), KnownIn(f2))
  <2> DEFINE st(i) == StampOf(e, f.last, i, ops[i])
  <2>1. KnownIn(f2) = KnownIn(f) \cup {st(i) : i \in 1..n}
    BY <1>3 DEF Makes
  <2>2. \A i : st(i).op = ops[i] /\ st(i).tag.replica = e
    BY <1>1
  <2> HIDE DEF st
  <2> QED
    BY <2>1, <2>2 DEF Learns
<1> QED
  BY <1>2, <1>3

\* A call by the host of e.
LEMMA GroupCall ==
  ASSUME NEW g, NEW nx, Group(g, nx), NEW e \in Replica, NEW op, Callable(e, op, KnownIn(g[e])),
         op.type = "AddNode" => op.id = <<e, nx[e]>>
  PROVE  LET f == Do(e, g[e], op)
             m == IF op.type = "AddNode" THEN nx[e] + 1 ELSE nx[e]
         IN  /\ Group([g EXCEPT ![e] = f], [nx EXCEPT ![e] = m])
             /\ Learns1(e, op, KnownIn(g[e]), KnownIn(f)) /\ Makes1(e, op, g[e], f)
             /\ f.next_local_id = g[e].next_local_id
<1> DEFINE f == Do(e, g[e], op)
           s == StampOf(e, g[e].last, 1, op)
           m == IF op.type = "AddNode" THEN nx[e] + 1 ELSE nx[e]
           k == [a \in Replica |-> KnownIn(g[a])]
           g2 == [g EXCEPT ![e] = f]
<1>1. EngineOK(g[e]) /\ SharedOK(k, nx) /\ DOMAIN g = Replica
  BY DEF Group
<1>2. EngineOK(f) /\ f.next_local_id = g[e].next_local_id
  BY <1>1, DoStep
<1>3. /\ s.op = op /\ s.tag.replica = e /\ IsNew(s, KnownIn(g[e]))
      /\ KnownIn(f) = KnownIn(g[e]) \cup {s} /\ f.last = Later(g[e].last, 1)
  <2>1. s.op = op /\ s.tag.replica = e
    BY DEF StampOf
  <2> QED
    BY <1>1, <2>1, DoStep
<1>14. Makes1(e, op, g[e], f)
  BY <1>3 DEF Makes1
<1> HIDE DEF f, s
<1>4. \A a \in Replica : g2[a] = IF a = e THEN f ELSE g[a]
  BY <1>1
<1>5. k \in [Replica -> SUBSET StampedOp]
  BY KnownType DEF Group
<1>6. [a \in Replica |-> KnownIn(g2[a])] = [k EXCEPT ![e] = @ \cup {s}]
  <2> HIDE DEF g2
  <2> QED
    BY <1>3, <1>4
<1>7. nx[e] \in Nat /\ m \in Nat /\ m >= nx[e]
  BY <1>1 DEF SharedOK
<1>8. /\ s \in StampedOp /\ \A t \in k[e] : t.tag # s.tag
  BY <1>3 DEF IsNew, Made
<1> HIDE DEF k, m
<1>9. s.op.type = "AddNode" => s.op.id = <<e, nx[e]>> /\ m = nx[e] + 1
  BY <1>3 DEF m
<1>10. SharedOK([k EXCEPT ![e] = @ \cup {s}], [nx EXCEPT ![e] = m])
  BY <1>1, <1>3, <1>5, <1>7, <1>8, <1>9, LocalShared
<1>11. \A a \in Replica : EngineOK(g2[a])
  BY <1>2, <1>4 DEF Group
<1>12. DOMAIN g2 = Replica
  BY <1>1
<1> HIDE DEF g2
<1>13. Group(g2, [nx EXCEPT ![e] = m])
  BY <1>6, <1>10, <1>11, <1>12 DEF Group
<1>15. Learns1(e, op, KnownIn(g[e]), KnownIn(f))
  BY <1>14, MakesLearns
<1> QED
  BY <1>2, <1>13, <1>14, <1>15 DEF f, m, g2

\* An operation that a knows reaches b.
LEMMA GroupImport ==
  ASSUME NEW g, NEW nx, Group(g, nx), NEW a \in Replica, NEW b \in Replica,
         NEW s \in KnownIn(g[a]),
         s.op.type = "SetEmbedding" => \E t \in KnownIn(g[b]) : Adds(t, s.op.id)
  PROVE  LET f == Apply(g[b], s)
         IN  /\ Group([g EXCEPT ![b] = f], nx)
             /\ KnownIn(f) = KnownIn(g[b]) \cup {s}
             /\ f.next_local_id = g[b].next_local_id
<1> DEFINE f == Apply(g[b], s)
           k == [e \in Replica |-> KnownIn(g[e])]
           g2 == [g EXCEPT ![b] = f]
<1>1. EngineOK(g[a]) /\ EngineOK(g[b]) /\ SharedOK(k, nx) /\ DOMAIN g = Replica
  BY DEF Group
<1>2. k \in [Replica -> SUBSET StampedOp] /\ s \in k[a]
  BY KnownType DEF Group
<1>3. Made(s)
  BY <1>1 DEF EngineOK
<1>4. \A t \in KnownIn(g[b]) : t.tag = s.tag => t = s
  BY <1>1, <1>2 DEF SharedOK
<1>5. EngineOK(f) /\ KnownIn(f) = KnownIn(g[b]) \cup {s} /\ f.next_local_id = g[b].next_local_id
  <2>1. CASE \E t \in KnownIn(g[b]) : t.tag = s.tag
    <3>1. f = g[b] /\ s \in KnownIn(g[b])
      BY <1>4, <2>1, ApplyAgain
    <3> QED
      BY <1>1, <3>1
  <2>2. CASE ~ \E t \in KnownIn(g[b]) : t.tag = s.tag
    <3>1. s.op.type = "AddNode" => \A t \in KnownIn(g[b]) : ~ Adds(t, s.op.id)
      <4> SUFFICES ASSUME s.op.type = "AddNode", NEW t \in KnownIn(g[b]), Adds(t, s.op.id)
                   PROVE  FALSE
        OBVIOUS
      <4>1. t \in k[b]
        OBVIOUS
      <4>2. t = s
        BY <1>1, <1>2, <4>1, ZenonT(60) DEF SharedOK, Adds
      <4> QED
        BY <2>2, <4>2
    <3>2. IsNew(s, KnownIn(g[b]))
      BY <1>3, <2>2, <3>1 DEF IsNew
    <3> QED
      BY <1>1, <3>2, ApplyStep
  <2> QED
    BY <2>1, <2>2
<1> HIDE DEF f
<1>6. \A e \in Replica : g2[e] = IF e = b THEN f ELSE g[e]
  BY <1>1
<1>7. [e \in Replica |-> KnownIn(g2[e])] = [k EXCEPT ![b] = @ \cup {s}]
  <2> HIDE DEF g2
  <2> QED
    BY <1>5, <1>6
<1> HIDE DEF k
<1>8. SharedOK([k EXCEPT ![b] = @ \cup {s}], nx)
  BY <1>1, <1>2, ImportShared
<1>9. \A e \in Replica : EngineOK(g2[e])
  BY <1>5, <1>6 DEF Group
<1>10. DOMAIN g2 = Replica
  BY <1>1
<1> HIDE DEF g2
<1>11. Group(g2, nx)
  BY <1>7, <1>8, <1>9, <1>10 DEF Group
<1> QED
  BY <1>5, <1>11 DEF f, g2

-----------------------------------------------------------------------------
\* What a request does to a group of engines.

\* num[i] is the number that the engine e gives to its next node after i calls.
Numbering(e, ops, num) ==
  \A i \in 1..Len(ops) : /\ num[i - 1] \in Nat
                         /\ num[i] = IF ops[i].type = "AddNode" THEN num[i - 1] + 1 ELSE num[i - 1]
                         /\ ops[i].type = "AddNode" => ops[i].id = <<e, num[i - 1]>>

\* What a host may ask of e in a row, all of it after it has learnt of ops.
Scripted(e, calls, ops) ==
  /\ calls \in Seq(Operation)
  /\ \A i \in 1..Len(calls) :
       /\ calls[i].type \in {"AddNode", "SetEmbedding", "AddEdge", "Reinforce", "Decay"}
       /\ calls[i].type \in {"Reinforce", "Decay"} => calls[i].replica = e
       /\ calls[i].type = "SetEmbedding" => \E t \in ops : Adds(t, calls[i].id)

\* A node with the next number is not there yet.
LEMMA NextIsFree ==
  ASSUME NEW g, NEW nx, Group(g, nx), NEW e \in Replica
  PROVE  \A t \in KnownIn(g[e]) : ~ Adds(t, <<e, nx[e]>>)
<1> SUFFICES ASSUME NEW t \in KnownIn(g[e]), Adds(t, <<e, nx[e]>>) PROVE FALSE
  OBVIOUS
<1> DEFINE k == [a \in Replica |-> KnownIn(g[a])]
<1>1. SharedOK(k, nx) /\ t \in k[e]
  BY DEF Group
<1> HIDE DEF k
<1>2. t.op.type = "AddNode" /\ t.op.id = <<e, nx[e]>>
  BY DEF Adds
<1>3. t.op.id[1] = t.tag.replica /\ t.op.id[2] < nx[t.tag.replica]
  BY <1>1, <1>2 DEF SharedOK
<1>4. nx[e] < nx[e]
  BY <1>2, <1>3
<1>5. nx[e] \in Nat
  BY <1>1 DEF SharedOK
<1> QED
  BY <1>4, <1>5

\* A request of several calls.
LEMMA GroupCalls ==
  ASSUME NEW g, NEW nx, Group(g, nx), NEW e \in Replica, NEW ops,
         Scripted(e, ops, KnownIn(g[e])), NEW num, Numbering(e, ops, num), num[0] = nx[e]
  PROVE  LET f == DoAll(e, g[e], ops)
         IN  /\ Group([g EXCEPT ![e] = f], [nx EXCEPT ![e] = num[Len(ops)]])
             /\ f.next_local_id = g[e].next_local_id
             /\ Learns(e, ops, Len(ops), KnownIn(g[e]), KnownIn(f))
             /\ Makes(e, ops, Len(ops), g[e], f)
<1> DEFINE n == Len(ops)
<1>1. n \in Nat /\ DOMAIN ops = 1..n
  BY DEF Scripted
<1> HIDE DEF n
<1>2. PICK h : CallsRun(e, g[e], ops, n, h) /\ DoAll(e, g[e], ops) = h[n]
  <2>1. CallsRan(e, g[e], ops, n)
    BY <1>1, DoAllRuns
  <2> QED
    BY <2>1, Zenon DEF CallsRan
<1> DEFINE at(i) == /\ Group([g EXCEPT ![e] = h[i]], [nx EXCEPT ![e] = num[i]])
                    /\ Makes(e, ops, i, g[e], h[i])
                    /\ h[i].next_local_id = g[e].next_local_id
           P == {i \in Nat : i <= n => at(i)}
<1>3. DOMAIN g = Replica /\ nx \in [Replica -> Nat] /\ g[e].last \in Hlc
  BY KnownType DEF Group, SharedOK
<1>4. 0 \in P
  <2>1. h[0] = g[e]
    BY <1>2 DEF CallsRun
  <2>2. /\ DOMAIN [g EXCEPT ![e] = h[0]] = Replica
        /\ \A a \in Replica : [g EXCEPT ![e] = h[0]][a] = g[a]
    BY <1>3, <2>1
  <2>3. [nx EXCEPT ![e] = num[0]] = nx
    BY <1>3
  <2>4. Makes(e, ops, 0, g[e], h[0])
    <3>1. g[e].last = Later(g[e].last, 0)
      BY <1>3 DEF Later, Hlc
    <3>2. {StampOf(e, g[e].last, i, ops[i]) : i \in 1..0} = {}
      OBVIOUS
    <3> QED
      BY <2>1, <3>1, <3>2 DEF Makes
  <2> QED
    BY <2>1, <2>2, <2>3, <2>4 DEF Group
<1>5. ASSUME NEW i \in Nat, i \in P
      PROVE  i + 1 \in P
  <2> SUFFICES ASSUME i + 1 <= n PROVE at(i + 1)
    OBVIOUS
  <2> DEFINE g1 == [g EXCEPT ![e] = h[i]]
             n1 == [nx EXCEPT ![e] = num[i]]
             op == ops[i + 1]
             f1 == Do(e, h[i], op)
  <2>0. i + 1 \in 1..n /\ (i + 1) - 1 = i
    BY <1>1
  <2>1. at(i)
    BY <1>1, <1>5
  <2> HIDE DEF P
  <2>2. g1[e] = h[i] /\ n1[e] = num[i] /\ DOMAIN g1 = Replica
    BY <1>3
  <2>3. h[i + 1] = f1
    BY <1>2, <2>0, Zenon DEF CallsRun
  <2>4. /\ num[i + 1] = IF op.type = "AddNode" THEN num[i] + 1 ELSE num[i]
        /\ op.type = "AddNode" => op.id = <<e, n1[e]>>
    BY <2>0, <2>2 DEF Numbering, n
  <2>5. Group(g1, n1) /\ KnownIn(g[e]) \subseteq KnownIn(g1[e])
    BY <2>1, <2>2 DEF Makes
  <2>6. Callable(e, op, KnownIn(g1[e]))
    <3>1. /\ op \in Operation
          /\ op.type \in {"AddNode", "SetEmbedding", "AddEdge", "Reinforce", "Decay"}
          /\ op.type \in {"Reinforce", "Decay"} => op.replica = e
          /\ op.type = "SetEmbedding" => \E t \in KnownIn(g[e]) : Adds(t, op.id)
      BY <2>0 DEF Scripted, n
    <3>2. \A t \in KnownIn(g1[e]) : ~ Adds(t, <<e, n1[e]>>)
      <4> HIDE DEF g1, n1
      <4> QED
        BY <2>5, NextIsFree
    <3> HIDE DEF g1, n1, op
    <3> QED
      BY <2>4, <2>5, <3>1, <3>2 DEF Callable
  <2> DEFINE m == IF op.type = "AddNode" THEN n1[e] + 1 ELSE n1[e]
  <2>7. /\ Group([g1 EXCEPT ![e] = f1], [n1 EXCEPT ![e] = m])
        /\ Makes1(e, op, g1[e], f1)
        /\ f1.next_local_id = g1[e].next_local_id
    <3>1. f1 = Do(e, g1[e], op)
      BY <2>2
    <3> HIDE DEF g1, n1, op, f1
    <3> QED
      BY <2>4, <2>5, <2>6, <3>1, GroupCall
  <2>8. m = num[i + 1]
    BY <2>2, <2>4
  <2> HIDE DEF f1, m
  <2>9. [g1 EXCEPT ![e] = f1] = [g EXCEPT ![e] = f1] /\ [n1 EXCEPT ![e] = m] = [nx EXCEPT ![e] = m]
    BY <1>3
  <2>10. Group([g EXCEPT ![e] = h[i + 1]], [nx EXCEPT ![e] = num[i + 1]])
    BY <2>3, <2>7, <2>8, <2>9, Zenon
  <2>11. h[i + 1].next_local_id = g[e].next_local_id
    BY <2>1, <2>2, <2>3, <2>7
  <2>12. Makes(e, ops, i + 1, g[e], h[i + 1])
    <3>1. Makes1(e, ops[i + 1], h[i], h[i + 1])
      BY <2>2, <2>3, <2>7
    <3> QED
      BY <1>3, <2>1, <3>1, MakesMore
  <2> QED
    BY <2>10, <2>11, <2>12
<1> HIDE DEF P
<1>6. \A i \in Nat : i \in P
  BY <1>4, <1>5, AllNumbers
<1>7. at(n)
  <2>1. n \in P /\ n <= n
    BY <1>1, <1>6
  <2> HIDE DEF at
  <2> QED
    BY <2>1 DEF P
<1>8. Learns(e, ops, n, KnownIn(g[e]), KnownIn(h[n]))
  BY <1>7, MakesLearns
<1> QED
  BY <1>2, <1>7, <1>8, Zenon DEF n

\* An operation that leaves trees alone.
LeavesTrees(op) ==
  op.type # "AddNode" /\ (op.type = "AddEdge" => op.key.kind = <<"SimilarTo">>)

\* What e learns beyond k leaves trees alone or comes from others, who know o.
Quiet(e, k, k2, o) ==
  /\ k \subseteq k2
  /\ \A s \in k2 \ k : IF s.tag.replica = e THEN LeavesTrees(s.op) ELSE s \in o

\* A request that makes no nodes.
LEMMA GroupQuietCalls ==
  ASSUME NEW g, NEW nx, Group(g, nx), NEW e \in Replica, NEW ops,
         Scripted(e, ops, KnownIn(g[e])), \A i \in 1..Len(ops) : LeavesTrees(ops[i])
  PROVE  LET f == DoAll(e, g[e], ops)
         IN  /\ Group([g EXCEPT ![e] = f], nx)
             /\ f.next_local_id = g[e].next_local_id
             /\ Quiet(e, KnownIn(g[e]), KnownIn(f), {})
             /\ Makes(e, ops, Len(ops), g[e], f)
<1> DEFINE num == [i \in Nat |-> nx[e]]
<1>1. nx \in [Replica -> Nat]
  BY DEF Group, SharedOK
<1>2. Len(ops) \in Nat
  BY DEF Scripted
<1>3. Numbering(e, ops, num) /\ num[0] = nx[e] /\ num[Len(ops)] = nx[e]
  <2>1. \A i \in 1..Len(ops) : i \in Nat /\ i - 1 \in Nat
    BY <1>2
  <2> QED
    BY <1>1, <1>2, <2>1 DEF Numbering, LeavesTrees
<1> HIDE DEF num
<1>4. /\ Group([g EXCEPT ![e] = DoAll(e, g[e], ops)], [nx EXCEPT ![e] = num[Len(ops)]])
      /\ DoAll(e, g[e], ops).next_local_id = g[e].next_local_id
      /\ Learns(e, ops, Len(ops), KnownIn(g[e]), KnownIn(DoAll(e, g[e], ops)))
      /\ Makes(e, ops, Len(ops), g[e], DoAll(e, g[e], ops))
  BY <1>3, GroupCalls
<1>5. [nx EXCEPT ![e] = num[Len(ops)]] = nx
  BY <1>1, <1>3
<1>6. Quiet(e, KnownIn(g[e]), KnownIn(DoAll(e, g[e], ops)), {})
  BY <1>4 DEF Learns, Quiet
<1> QED
  BY <1>4, <1>5, <1>6

\* The nodes that an engine shows are finitely many, it knows their additions,
\* and they have payloads.
LEMMA ShownNodes ==
  ASSUME NEW f, EngineOK(f)
  PROVE  LET shown == DOMAIN NodesOf(f.view)
         IN  /\ shown \in SUBSET NodeId /\ shown \in SUBSET (Nat \X Nat) /\ IsFiniteSet(shown)
             /\ \A id \in shown : /\ NodesOf(f.view)[id] \in Payload
                                  /\ \E t \in KnownIn(f) : Adds(t, id)
<1> DEFINE v == f.view
           shown == DOMAIN NodesOf(v)
           added == {t \in KnownIn(f) : t.op.type = "AddNode"}
           ids == {t.op.id : t \in added}
<1>1. v \in View /\ ViewFollows(v, KnownIn(f))
  BY DEF EngineOK, ViewFollows
<1>2. shown \in SUBSET NodeId
  <2>1. shown \in SUBSET Present(v.nodes)
    BY DEF NodesOf
  <2>2. Present(v.nodes) \in SUBSET NodeId
    BY <1>1 DEF Present, View, TaggedSet
  <2> QED
    BY <2>1, <2>2
<1>3. NodeId \in SUBSET (Nat \X Nat)
  BY ReplicaAssumption, LocalIdAssumption DEF NodeId
<1>4. ASSUME NEW id \in shown
      PROVE  NodesOf(v)[id] \in Payload /\ \E t \in KnownIn(f) : Adds(t, id)
  <2>1. id \in Present(v.nodes) /\ v.node_payload[id] # None /\ NodesOf(v)[id] = v.node_payload[id]
    BY <1>4 DEF NodesOf
  <2>2. v.node_payload[id] \in Payload
    BY <1>1, <1>2, <1>4, <2>1 DEF View
  <2>3. v.nodes.adds[id] # {}
    BY <2>1 DEF Present, Contains
  <2>4. v.nodes.adds[id] = {t.tag : t \in OpsOn(KnownIn(f), "AddNode", id)}
    BY <1>1, <1>2, <1>4, FollowsIs DEF ViewFollows
  <2> QED
    BY <2>1, <2>2, <2>3, <2>4 DEF OpsOn, Adds
<1>5. IsFiniteSet(ids)
  <2>1. IsFiniteSet(added)
    BY KnownType, FS_Subset
  <2> DEFINE m == [t \in added |-> t.op.id]
  <2>2. m \in Surjection(added, ids)
    BY DEF Surjection
  <2> HIDE DEF m, ids, added
  <2> QED
    BY <2>1, <2>2, FS_Surjection
<1>6. shown \in SUBSET ids
  BY <1>4 DEF Adds
<1>7. IsFiniteSet(shown)
  <2> HIDE DEF shown, ids
  <2> QED
    BY <1>5, <1>6, FS_Subset
<1> QED
  BY <1>2, <1>3, <1>4, <1>7

\* What a scan of f does first.
EmbedOps(f, dims) ==
  LET ids == InOrder(Targets(f))
  IN  [i \in 1..Len(ids) |->
         [type |-> "SetEmbedding", id |-> ids[i],
          embedding |-> Embed(NodesOf(f.view)[ids[i]].label.text, dims)]]

\* Embedding what there is to embed.
LEMMA GroupEmbeds ==
  ASSUME NEW g, NEW nx, Group(g, nx), NEW e \in Replica, NEW dims \in Dims
  PROVE  LET f == EmbedAll(e, g[e], dims)
         IN  /\ Group([g EXCEPT ![e] = f], nx)
             /\ f.next_local_id = g[e].next_local_id
             /\ Quiet(e, KnownIn(g[e]), KnownIn(f), {})
             /\ Len(EmbedOps(g[e], dims)) \in Nat
             /\ Makes(e, EmbedOps(g[e], dims), Len(EmbedOps(g[e], dims)), g[e], f)
<1> DEFINE v == g[e].view
           T == Targets(g[e])
           ids == InOrder(T)
           ops == [i \in 1..Len(ids) |->
                     [type |-> "SetEmbedding", id |-> ids[i],
                      embedding |-> Embed(NodesOf(v)[ids[i]].label.text, dims)]]
<1>1. EngineOK(g[e])
  BY DEF Group
<1>2. EmbedAll(e, g[e], dims) = DoAll(e, g[e], ops)
  BY DEF EmbedAll
<1>8. ops = EmbedOps(g[e], dims)
  BY DEF EmbedOps
<1>3. T \in SUBSET (DOMAIN NodesOf(v))
  BY DEF Targets
<1> HIDE DEF T
<1>4. ids \in Seq(T)
  <2>1. /\ DOMAIN NodesOf(v) \in SUBSET (Nat \X Nat)
        /\ IsFiniteSet(DOMAIN NodesOf(v))
    BY <1>1, ShownNodes
  <2>2. T \in SUBSET (Nat \X Nat) /\ IsFiniteSet(T)
    BY <1>3, <2>1, FS_Subset
  <2> QED
    BY <2>2, InOrderIs
<1> HIDE DEF ids, v
<1>5. ASSUME NEW i \in 1..Len(ids)
      PROVE  /\ ops[i] \in Operation /\ ops[i].type = "SetEmbedding"
             /\ \E t \in KnownIn(g[e]) : Adds(t, ops[i].id)
  <2>1. ids[i] \in DOMAIN NodesOf(v)
    BY <1>3, <1>4
  <2>2. /\ ids[i] \in NodeId /\ NodesOf(v)[ids[i]] \in Payload
        /\ \E t \in KnownIn(g[e]) : Adds(t, ids[i])
    BY <1>1, <2>1, ShownNodes DEF v
  <2>3. NodesOf(v)[ids[i]].label \in Label
    BY <2>2 DEF Payload
  <2>4. Embed(NodesOf(v)[ids[i]].label.text, dims) \in Embedding
    BY <2>3, EmbeddingAssumption
  <2>5. ops[i] = [type |-> "SetEmbedding", id |-> ids[i],
                  embedding |-> Embed(NodesOf(v)[ids[i]].label.text, dims)]
    OBVIOUS
  <2> HIDE DEF ops
  <2> QED
    BY <2>2, <2>4, <2>5 DEF Operation
<1>6. Len(ids) \in Nat /\ Len(ops) = Len(ids) /\ ops \in Seq(Operation)
  <2>1. Len(ids) \in Nat
    BY <1>4
  <2>2. ops \in [1..Len(ids) -> Operation]
    BY <1>5
  <2> HIDE DEF ops
  <2> QED
    BY <2>1, <2>2
<1> HIDE DEF ops
<1>7. Scripted(e, ops, KnownIn(g[e])) /\ \A i \in 1..Len(ops) : LeavesTrees(ops[i])
  BY <1>5, <1>6 DEF Scripted, LeavesTrees
<1>9. LET f == DoAll(e, g[e], ops)
      IN  /\ Group([g EXCEPT ![e] = f], nx) /\ f.next_local_id = g[e].next_local_id
          /\ Quiet(e, KnownIn(g[e]), KnownIn(f), {}) /\ Makes(e, ops, Len(ops), g[e], f)
  BY <1>7, GroupQuietCalls
<1> QED
  BY <1>2, <1>6, <1>8, <1>9

\* The links of a scan join nodes and have scores for weights.
LEMMA LinksType ==
  ASSUME NEW f, EngineOK(f), NEW threshold
  PROVE  LET links == ProximityLinks(f, threshold)
             embedded == {id \in DOMAIN NodesOf(f.view) : NodesOf(f.view)[id].embedding # None}
         IN  /\ Len(links) \in Nat
             /\ \A i \in 1..Len(links) : /\ links[i].a \in NodeId /\ links[i].b \in NodeId
                                         /\ links[i].score \in Weight
                                         /\ links[i].a \in embedded /\ links[i].b \in embedded
                                         /\ Before(links[i].a, links[i].b)
<1> DEFINE v == f.view
           T == {id \in DOMAIN NodesOf(v) : NodesOf(v)[id].embedding # None}
           ids == InOrder(T)
           scoring == {p \in (1..Len(ids)) \X (1..Len(ids)) :
                         p[1] < p[2] /\ ScoreOf(f, ids[p[1]], ids[p[2]]) >= threshold}
           pairs == InOrder(scoring)
           links == [i \in 1..Len(pairs) |->
                       [a |-> ids[pairs[i][1]], b |-> ids[pairs[i][2]],
                        score |-> ScoreOf(f, ids[pairs[i][1]], ids[pairs[i][2]])]]
<1>1. ProximityLinks(f, threshold) = links
  BY DEF ProximityLinks
<1>10. T = {id \in DOMAIN NodesOf(f.view) : NodesOf(f.view)[id].embedding # None}
  OBVIOUS
<1>2. T \in SUBSET (DOMAIN NodesOf(v)) /\ \A id \in T : NodesOf(v)[id].embedding # None
  OBVIOUS
<1> HIDE DEF T
<1>3. /\ ids \in Seq(T) /\ Len(ids) \in Nat
      /\ \A i, j \in 1..Len(ids) : i < j => Before(ids[i], ids[j])
  <2>1. /\ DOMAIN NodesOf(v) \in SUBSET (Nat \X Nat)
        /\ IsFiniteSet(DOMAIN NodesOf(v))
    BY ShownNodes
  <2>2. T \in SUBSET (Nat \X Nat) /\ IsFiniteSet(T)
    BY <1>2, <2>1, FS_Subset
  <2>3. ids \in Seq(T) /\ \A i, j \in 1..Len(ids) : i < j => Before(ids[i], ids[j])
    BY <2>2, InOrderIs
  <2> HIDE DEF ids
  <2> QED
    BY <2>3
<1> HIDE DEF ids
<1>4. /\ scoring \in SUBSET ((1..Len(ids)) \X (1..Len(ids)))
      /\ \A p \in scoring : p[1] < p[2]
  OBVIOUS
<1> HIDE DEF scoring
<1>5. pairs \in Seq(scoring) /\ Len(pairs) \in Nat
  <2>1. IsFiniteSet(1..Len(ids))
    BY <1>3, FS_Interval
  <2>2. IsFiniteSet((1..Len(ids)) \X (1..Len(ids)))
    BY <2>1, FS_Product
  <2>3. IsFiniteSet(scoring)
    BY <1>4, <2>2, FS_Subset
  <2>4. scoring \in SUBSET (Nat \X Nat)
    BY <1>3, <1>4
  <2>5. pairs \in Seq(scoring)
    BY <2>3, <2>4, InOrderIs
  <2> HIDE DEF pairs
  <2> QED
    BY <2>5
<1> HIDE DEF pairs
<1>6. ASSUME NEW x \in T, NEW y \in T
      PROVE  x \in NodeId /\ y \in NodeId /\ ScoreOf(f, x, y) \in Weight
  <2>1. /\ x \in NodeId /\ NodesOf(v)[x] \in Payload /\ NodesOf(v)[x].embedding # None
        /\ y \in NodeId /\ NodesOf(v)[y] \in Payload /\ NodesOf(v)[y].embedding # None
    BY <1>2, ShownNodes
  <2>2. NodesOf(v)[x].embedding \in Embedding /\ NodesOf(v)[y].embedding \in Embedding
    BY <2>1 DEF Payload
  <2> QED
    BY <2>1, <2>2, ScoreAssumption, Zenon DEF ScoreOf
<1>7. ASSUME NEW i \in 1..Len(pairs)
      PROVE  /\ ids[pairs[i][1]] \in T /\ ids[pairs[i][2]] \in T
             /\ Before(ids[pairs[i][1]], ids[pairs[i][2]])
  <2>1. /\ pairs[i] \in (1..Len(ids)) \X (1..Len(ids))
        /\ pairs[i][1] < pairs[i][2]
    BY <1>4, <1>5
  <2> QED
    BY <1>3, <2>1
<1> HIDE DEF v
<1>8. Len(links) = Len(pairs)
  BY <1>5
<1>9. ASSUME NEW i \in 1..Len(pairs)
      PROVE  /\ links[i].a \in NodeId /\ links[i].b \in NodeId /\ links[i].score \in Weight
             /\ links[i].a \in T /\ links[i].b \in T /\ Before(links[i].a, links[i].b)
  BY <1>6, <1>7
<1> HIDE DEF links
<1> QED
  BY <1>1, <1>5, <1>8, <1>9, <1>10

\* What a scan does then.
LinkOps(links) ==
  [i \in 1..(2 * Len(links)) |->
     LET l == links[(i + 1) \div 2]
     IN  AddEdge(IF i % 2 = 1 THEN SimilarTo(l.a, l.b) ELSE SimilarTo(l.b, l.a), l.score)]

\* Adding the links of a scan.
LEMMA GroupLinks ==
  ASSUME NEW g, NEW nx, Group(g, nx), NEW e \in Replica, NEW links, Len(links) \in Nat,
         \A i \in 1..Len(links) : /\ links[i].a \in NodeId /\ links[i].b \in NodeId
                                  /\ links[i].score \in Weight
  PROVE  LET f == ApplyProximityLinks(e, g[e], links)
         IN  /\ Group([g EXCEPT ![e] = f], nx)
             /\ f.next_local_id = g[e].next_local_id
             /\ Quiet(e, KnownIn(g[e]), KnownIn(f), {})
             /\ Makes(e, LinkOps(links), 2 * Len(links), g[e], f)
<1> DEFINE n == 2 * Len(links)
           l(i) == links[(i + 1) \div 2]
           key(i) == IF i % 2 = 1 THEN SimilarTo(l(i).a, l(i).b) ELSE SimilarTo(l(i).b, l(i).a)
           ops == [i \in 1..n |-> AddEdge(key(i), l(i).score)]
<1>1. ApplyProximityLinks(e, g[e], links) = DoAll(e, g[e], ops)
  BY DEF ApplyProximityLinks
<1>6. ops = LinkOps(links)
  BY DEF LinkOps
<1>2. n \in Nat
  OBVIOUS
<1>3. ASSUME NEW i \in 1..n
      PROVE  ops[i] \in Operation /\ ops[i].type = "AddEdge" /\ LeavesTrees(ops[i])
  <2>1. (i + 1) \div 2 \in 1..Len(links)
    OBVIOUS
  <2>2. l(i).a \in NodeId /\ l(i).b \in NodeId /\ l(i).score \in Weight
    BY <2>1
  <2>3. key(i) \in EdgeKey /\ key(i).kind = <<"SimilarTo">>
    BY <2>2, KeyAssumption DEF SimilarTo
  <2> HIDE DEF key, l
  <2>4. ops[i] = [type |-> "AddEdge", key |-> key(i), initial_weight |-> l(i).score]
    BY DEF AddEdge
  <2> HIDE DEF ops
  <2> QED
    BY <2>2, <2>3, <2>4 DEF Operation, LeavesTrees
<1> HIDE DEF n, key, l
<1>4. Len(ops) = n /\ ops \in Seq(Operation)
  <2>1. ops \in [1..n -> Operation]
    BY <1>3
  <2> HIDE DEF ops
  <2> QED
    BY <1>2, <2>1
<1> HIDE DEF ops
<1>5. Scripted(e, ops, KnownIn(g[e])) /\ \A i \in 1..Len(ops) : LeavesTrees(ops[i])
  BY <1>3, <1>4 DEF Scripted
<1>7. LET f == DoAll(e, g[e], ops)
      IN  /\ Group([g EXCEPT ![e] = f], nx) /\ f.next_local_id = g[e].next_local_id
          /\ Quiet(e, KnownIn(g[e]), KnownIn(f), {}) /\ Makes(e, ops, Len(ops), g[e], f)
  BY <1>5, GroupQuietCalls
<1> QED
  BY <1>1, <1>4, <1>6, <1>7 DEF n

\* What is written comes back as it was.
LEMMA BackAsWritten ==
  ASSUME NEW s, Made(s)
  PROVE  ReadBack(Written(s)) = s
<1> DEFINE op == s.op
           tag == s.tag
<1>1. s = [tag |-> tag, op |-> op] /\ op \in Operation
  BY DEF Made, StampedOp
<1>2. CASE op.type \in {"AddEdge", "Reinforce", "Decay"}
  <2>1. "key" \in DOMAIN op /\ op.key \in EdgeKey
    BY <1>1, <1>2 DEF Operation
  <2>2. EdgeKeyOf(EdgeKeyString(op.key)) = op.key
    <3> DEFINE k == op.key
    <3>1. k \in [src : Nat \X Nat, dst : Nat \X Nat, kind : Seq(Range(k.kind))]
      BY <2>1, KeyAssumption
    <3> HIDE DEF k
    <3> DEFINE src == k.src  dst == k.dst  kind == k.kind  Word == Range(k.kind)
    <3>2. src \in Nat \X Nat /\ dst \in Nat \X Nat /\ kind \in Seq(Nat \cup Word \cup {Dot, Tilde})
      <4>1. kind \in Seq(Word)
        BY <3>1
      <4> HIDE DEF Word
      <4> QED
        BY <3>1, <4>1
    <3>3. k = [src |-> src, dst |-> dst, kind |-> kind]
      BY <3>1
    <3> HIDE DEF src, dst, kind, Word
    <3>4. EdgeKeyOf(EdgeKeyString([src |-> src, dst |-> dst, kind |-> kind])) =
            [src |-> src, dst |-> dst, kind |-> kind]
      BY <3>2, EdgeKeysRoundTrip, ZenonT(60)
    <3> QED
      BY <3>3, <3>4 DEF k
  <2> DEFINE text == EdgeKeyString(op.key)
             o2 == [op EXCEPT !.key = text]
  <2> HIDE DEF op, tag, text
  <2>3. "key" \in DOMAIN o2 /\ o2.key = text /\ [o2 EXCEPT !.key = op.key] = op
    <3>1. op = [x \in DOMAIN op |-> op[x]]
      BY <1>1 DEF Operation
    <3>2. DOMAIN o2 = DOMAIN op
      OBVIOUS
    <3> QED
      BY <2>1, <3>1, <3>2
  <2> HIDE DEF o2
  <2>4. Written(s) = [tag |-> tag, op |-> o2]
    <3>1. s.op = op
      BY DEF op
    <3> QED
      BY <1>1, <2>1, <3>1 DEF Written, o2, text
  <2>5. ReadBack([tag |-> tag, op |-> o2]) = [tag |-> tag, op |-> [o2 EXCEPT !.key = EdgeKeyOf(o2.key)]]
    BY <2>3 DEF ReadBack
  <2>6. EdgeKeyOf(o2.key) = op.key
    BY <2>2, <2>3 DEF text
  <2> QED
    BY <1>1, <2>3, <2>4, <2>5, <2>6, Zenon
<1>3. CASE op.type \in {"AddNode", "SetEmbedding"}
  <2>1. "key" \notin DOMAIN op /\ "id" \in DOMAIN op /\ op.id \in NodeId
    BY <1>1, <1>3 DEF Operation
  <2>2. NodeIdOf(NodeIdString(op.id)) = op.id
    <3>1. op.id \in Nat \X Nat
      BY <2>1, ReplicaAssumption, LocalIdAssumption DEF NodeId
    <3> HIDE DEF op
    <3> QED
      BY <3>1, NodeIdsRoundTrip
  <2> DEFINE text == NodeIdString(op.id)
             o2 == [op EXCEPT !.id = text]
  <2> HIDE DEF op, tag, text
  <2>3. "key" \notin DOMAIN o2 /\ o2.id = text /\ [o2 EXCEPT !.id = op.id] = op
    <3>1. op = [x \in DOMAIN op |-> op[x]]
      BY <1>1 DEF Operation
    <3>2. DOMAIN o2 = DOMAIN op
      OBVIOUS
    <3> QED
      BY <2>1, <3>1, <3>2
  <2> HIDE DEF o2
  <2>4. Written(s) = [tag |-> tag, op |-> o2]
    <3>1. s.op = op
      BY DEF op
    <3> QED
      BY <1>1, <2>1, <3>1 DEF Written, o2, text
  <2>5. ReadBack([tag |-> tag, op |-> o2]) = [tag |-> tag, op |-> [o2 EXCEPT !.id = NodeIdOf(o2.id)]]
    BY <2>3 DEF ReadBack
  <2>6. NodeIdOf(o2.id) = op.id
    BY <2>2, <2>3 DEF text
  <2> QED
    BY <1>1, <2>3, <2>4, <2>5, <2>6, Zenon
<1> QED
  BY <1>2, <1>3 DEF Made

\* A log whose operations are among those, and in which an embedding finds its node.
Ops(log) == {log[i] : i \in 1..Len(log)}
Deliverable(log, ops) ==
  /\ log \in Seq(StampedOp)
  /\ Ops(log) \subseteq ops
  /\ \A i \in 1..Len(log) :
       log[i].op.type = "SetEmbedding" => \E j \in 1..(i - 1) : Adds(log[j], log[i].op.id)

\* The log of an engine is one.
LEMMA OwnLogDeliverable ==
  ASSUME NEW f, EngineOK(f)
  PROVE  Deliverable(f.log, KnownIn(f)) /\ Ops(f.log) = KnownIn(f)
<1>1. f.log \in Seq(StampedOp)
  BY KnownType
<1>2. Ops(f.log) = KnownIn(f)
  BY DEF Ops, KnownIn
<1> QED
  BY <1>1, <1>2 DEF Deliverable, EngineOK

\* What an engine makes of it.
Taken(f, log) == Imported(f, [i \in 1..Len(log) |-> Written(log[i])])

\* The import of what another engine once had in its log.
LEMMA GroupExchange ==
  ASSUME NEW g, NEW nx, Group(g, nx), NEW a \in Replica, NEW b \in Replica, a # b,
         NEW log, Deliverable(log, KnownIn(g[a]))
  PROVE  LET f == Taken(g[b], log)
         IN  /\ Group([g EXCEPT ![b] = f], nx)
             /\ f.next_local_id = g[b].next_local_id
             /\ Quiet(b, KnownIn(g[b]), KnownIn(f), KnownIn(g[a]))
             /\ KnownIn(f) = KnownIn(g[b]) \cup Ops(log)
<1> DEFINE n == Len(log)
           bytes == [i \in 1..n |-> Written(log[i])]
<1>1. EngineOK(g[a]) /\ DOMAIN g = Replica
  BY DEF Group
<1>2. n \in Nat /\ \A i \in 1..n : log[i] \in KnownIn(g[a]) /\ log[i] \in Ops(log)
  <2>1. n \in Nat
    BY DEF Deliverable
  <2> QED
    BY <2>1 DEF Deliverable, Ops
<1>3. \A i \in 1..n : ReadBack(bytes[i]) = log[i]
  <2>1. \A i \in 1..n : Made(log[i])
    BY <1>1, <1>2 DEF EngineOK
  <2> HIDE DEF n
  <2> QED
    BY <2>1, BackAsWritten
<1>4. \A i \in 1..n : log[i].op.type = "SetEmbedding" => \E j \in 1..(i - 1) : Adds(log[j], log[i].op.id)
  BY DEF Deliverable
<1>5. PICK h : ReadsRun(g[b], bytes, n, h) /\ Imported(g[b], bytes) = h[n]
  <2>1. DOMAIN bytes = 1..n
    OBVIOUS
  <2> HIDE DEF n, bytes
  <2>2. ReadsRan(g[b], bytes, n)
    BY <1>2, <2>1, ImportedRuns
  <2> QED
    BY <2>2, Zenon DEF ReadsRan
<1> HIDE DEF n, bytes
<1>6. h[0] = g[b] /\ \A i \in 1..n : h[i] = Apply(h[i - 1], log[i])
  BY <1>3, <1>5, Zenon DEF ReadsRun
<1> DEFINE at(i) == /\ Group([g EXCEPT ![b] = h[i]], nx)
                    /\ \A j \in 1..i : log[j] \in KnownIn(h[i])
                    /\ h[i].next_local_id = g[b].next_local_id
                    /\ KnownIn(g[b]) \subseteq KnownIn(h[i])
                    /\ KnownIn(h[i]) \subseteq KnownIn(g[b]) \cup Ops(log)
           P == {i \in Nat : i <= n => at(i)}
<1>7. 0 \in P
  <2>1. /\ DOMAIN [g EXCEPT ![b] = h[0]] = Replica
        /\ \A e \in Replica : [g EXCEPT ![b] = h[0]][e] = g[e]
    BY <1>1, <1>6
  <2> QED
    BY <1>6, <2>1 DEF Group
<1>8. ASSUME NEW i \in Nat, i \in P
      PROVE  i + 1 \in P
  <2> SUFFICES ASSUME i + 1 <= n PROVE at(i + 1)
    OBVIOUS
  <2> DEFINE g1 == [g EXCEPT ![b] = h[i]]
             s == log[i + 1]
             f1 == Apply(h[i], s)
  <2>0. i + 1 \in 1..n /\ (i + 1) - 1 = i
    BY <1>2
  <2>1. at(i)
    BY <1>2, <1>8
  <2> HIDE DEF P
  <2>2. g1[a] = g[a] /\ g1[b] = h[i] /\ DOMAIN g1 = Replica
    BY <1>1
  <2>3. h[i + 1] = f1
    BY <1>6, <2>0, Zenon
  <2>4. s.op.type = "SetEmbedding" => \E t \in KnownIn(h[i]) : Adds(t, s.op.id)
    <3> SUFFICES ASSUME s.op.type = "SetEmbedding" PROVE \E t \in KnownIn(h[i]) : Adds(t, s.op.id)
      OBVIOUS
    <3>1. PICK j \in 1..((i + 1) - 1) : Adds(log[j], s.op.id)
      BY <1>4, <2>0
    <3> QED
      BY <2>0, <2>1, <3>1
  <2>5. s \in KnownIn(g1[a])
    BY <1>2, <2>0, <2>2
  <2>6. Group(g1, nx)
    BY <2>1
  <2>7. /\ Group([g1 EXCEPT ![b] = f1], nx)
        /\ KnownIn(f1) = KnownIn(h[i]) \cup {s}
        /\ f1.next_local_id = h[i].next_local_id
    <3> DEFINE x == h[i]
    <3>1. g1[b] = x /\ f1 = Apply(x, s)
      BY <2>2
    <3>2. s.op.type = "SetEmbedding" => \E t \in KnownIn(x) : Adds(t, s.op.id)
      BY <2>4
    <3> HIDE DEF g1, s, f1, x
    <3>3. s.op.type = "SetEmbedding" => \E t \in KnownIn(g1[b]) : Adds(t, s.op.id)
      BY <3>1, <3>2
    <3>4. /\ Group([g1 EXCEPT ![b] = Apply(g1[b], s)], nx)
          /\ KnownIn(Apply(g1[b], s)) = KnownIn(g1[b]) \cup {s}
          /\ Apply(g1[b], s).next_local_id = g1[b].next_local_id
      BY <2>5, <2>6, <3>3, GroupImport
    <3> QED
      BY <3>1, <3>4 DEF x
  <2> HIDE DEF f1
  <2>8. [g1 EXCEPT ![b] = f1] = [g EXCEPT ![b] = f1]
    BY <1>1
  <2>9. Group([g EXCEPT ![b] = h[i + 1]], nx)
    BY <2>3, <2>7, <2>8, Zenon
  <2>10. \A j \in 1..(i + 1) : log[j] \in KnownIn(h[i + 1])
    <3>1. \A j \in 1..(i + 1) : j \in 1..i \/ j = i + 1
      OBVIOUS
    <3> QED
      BY <2>1, <2>3, <2>7, <3>1
  <2>11. h[i + 1].next_local_id = g[b].next_local_id
    BY <2>1, <2>3, <2>7
  <2>12. /\ KnownIn(g[b]) \subseteq KnownIn(h[i + 1])
         /\ KnownIn(h[i + 1]) \subseteq KnownIn(g[b]) \cup Ops(log)
    BY <1>2, <2>0, <2>1, <2>3, <2>7
  <2> QED
    BY <2>9, <2>10, <2>11, <2>12
<1> HIDE DEF P
<1>9. \A i \in Nat : i \in P
  BY <1>7, <1>8, AllNumbers
<1>10. at(n)
  <2>1. n \in P /\ n <= n
    BY <1>2, <1>9
  <2> HIDE DEF at
  <2> QED
    BY <2>1 DEF P
<1>11. Quiet(b, KnownIn(g[b]), KnownIn(h[n]), KnownIn(g[a]))
  <2>1. /\ KnownIn(g[b]) \subseteq KnownIn(h[n])
        /\ KnownIn(h[n]) \subseteq KnownIn(g[b]) \cup KnownIn(g[a])
    BY <1>10 DEF Deliverable
  <2> DEFINE k == [e \in Replica |-> KnownIn(g[e])]
  <2>2. SharedOK(k, nx) /\ k[a] = KnownIn(g[a]) /\ k[b] = KnownIn(g[b])
    BY DEF Group
  <2> HIDE DEF k
  <2>3. \A s \in KnownIn(g[a]) : s.tag.replica = b => s \in KnownIn(g[b])
    BY <2>2 DEF SharedOK
  <2> QED
    BY <2>1, <2>3 DEF Quiet
<1>12. KnownIn(h[n]) = KnownIn(g[b]) \cup Ops(log)
  <2>1. Ops(log) = {log[i] : i \in 1..n}
    BY DEF Ops, n
  <2>2. /\ \A j \in 1..n : log[j] \in KnownIn(h[n])
        /\ KnownIn(g[b]) \subseteq KnownIn(h[n])
        /\ KnownIn(h[n]) \subseteq KnownIn(g[b]) \cup Ops(log)
    BY <1>10
  <2> QED
    BY <2>1, <2>2
<1> QED
  BY <1>5, <1>10, <1>11, <1>12, Zenon DEF bytes, n, Taken

\* Two sequences, one after the other.
LEMMA JoinedIs ==
  ASSUME NEW T, NEW p \in Seq(T), NEW q \in Seq(T)
  PROVE  /\ p \o q \in Seq(T) /\ Len(p \o q) = Len(p) + Len(q)
         /\ \A i \in 1..(Len(p) + Len(q)) :
              (p \o q)[i] = IF i <= Len(p) THEN p[i] ELSE q[i - Len(p)]
  OBVIOUS

\* Making the nodes of a file, and then its edges.
LEMMA GroupIngests ==
  ASSUME NEW g, NEW nx, Group(g, nx), NEW e \in Replica, NEW file \in File, HasAdapter(file),
         nx[e] + Len(file.nodes) - 1 \in LocalId
  PROVE  LET f == DoAll(e, g[e], Ingested(e, file, nx[e]))
         IN  /\ Group([g EXCEPT ![e] = f], [nx EXCEPT ![e] = nx[e] + Len(file.nodes)])
             /\ Len(file.nodes) \in Nat
             /\ Learns(e, Ingested(e, file, nx[e]), Len(file.nodes) + Len(file.edges),
                       KnownIn(g[e]), KnownIn(f))
<1> DEFINE n == nx[e]
           m == Len(file.nodes)
           k == Len(file.edges)
           id(i) == <<e, n + i - 1>>
           made == [i \in 1..m |->
                      [type |-> "AddNode", id |-> id(i),
                       payload |-> [label |-> [tree |-> file.tree, kind |-> file.nodes[i].kind,
                                               text |-> file.nodes[i].text],
                                    embedding |-> None]]]
           key(i) == [src |-> id(file.edges[i].src), dst |-> id(file.edges[i].dst),
                      kind |-> file.edges[i].kind]
           joined == [i \in 1..k |-> AddEdge(key(i), 1)]
           ops == Ingested(e, file, n)
<1>1. ops = made \o joined
  BY DEF Ingested
<1>2. /\ file.nodes \in Seq(Range(file.nodes)) \ {<<>>}
      /\ \A x \in Range(file.nodes) : [tree |-> file.tree, kind |-> x.kind, text |-> x.text] \in Label
      /\ file.edges \in Seq(Range(file.edges))
      /\ \A x \in Range(file.edges) :
           /\ {x.src, x.dst} \subseteq 1..m
           /\ \A a \in Replica, l \in LocalId :
                l + m - 1 \in LocalId =>
                  [src |-> <<a, l + x.src - 1>>, dst |-> <<a, l + x.dst - 1>>,
                   kind |-> x.kind] \in EdgeKey
  BY FileAssumption
<1>3. m \in Nat /\ m # 0 /\ k \in Nat /\ n \in Nat
  <2>1. n \in Nat
    BY DEF Group, SharedOK
  <2> QED
    BY <1>2, <2>1
<1>4. \A i \in 0..(m - 1) : n + i \in LocalId
  <2>1. 0..(n + m - 1) \subseteq LocalId
    BY IdsAssumption
  <2> HIDE DEF n, m
  <2> QED
    BY <1>3, <2>1
<1>5. ASSUME NEW i \in 1..m
      PROVE  made[i] \in Operation /\ made[i].type = "AddNode" /\ made[i].id = id(i)
  <2>1. id(i) \in NodeId
    <3>1. i - 1 \in 0..(m - 1) /\ n + (i - 1) = n + i - 1
      BY <1>3
    <3> HIDE DEF m, n
    <3> QED
      BY <1>4, <3>1 DEF NodeId
  <2>2. file.nodes[i] \in Range(file.nodes)
    BY DEF Range
  <2> DEFINE payload == [label |-> [tree |-> file.tree, kind |-> file.nodes[i].kind,
                                    text |-> file.nodes[i].text],
                         embedding |-> None]
  <2>3. payload \in Payload
    BY <1>2, <2>2 DEF Payload
  <2>4. made[i] = [type |-> "AddNode", id |-> id(i), payload |-> payload]
    OBVIOUS
  <2> HIDE DEF payload, made, id
  <2> QED
    BY <2>1, <2>3, <2>4 DEF Operation
<1>6. ASSUME NEW i \in 1..k
      PROVE  joined[i] \in Operation /\ joined[i].type = "AddEdge"
  <2>1. file.edges[i] \in Range(file.edges)
    BY <1>2 DEF Range
  <2>2. n \in LocalId
    <3>1. 0 \in 0..(m - 1) /\ n + 0 = n
      BY <1>3
    <3> HIDE DEF m, n
    <3> QED
      BY <1>4, <3>1
  <2>3. key(i) \in EdgeKey
    <3> HIDE DEF n, m
    <3> QED
      BY <1>2, <2>1, <2>2 DEF n, m
  <2>4. joined[i] = [type |-> "AddEdge", key |-> key(i), initial_weight |-> 1]
    BY DEF AddEdge
  <2> HIDE DEF joined, key
  <2> QED
    BY <2>3, <2>4, HostAssumption DEF Operation
<1> HIDE DEF ops
<1>7. /\ made \in Seq(Operation) /\ Len(made) = m
      /\ joined \in Seq(Operation) /\ Len(joined) = k
  <2> HIDE DEF m, k
  <2>1. made \in [1..m -> Operation]
    BY <1>5
  <2>2. joined \in [1..k -> Operation]
    BY <1>6
  <2> HIDE DEF made, joined
  <2> QED
    BY <1>3, <2>1, <2>2
<1> HIDE DEF made, joined
<1>8. /\ ops \in Seq(Operation) /\ Len(ops) = m + k
      /\ \A i \in 1..(m + k) : ops[i] = IF i <= m THEN made[i] ELSE joined[i - m]
  <2> HIDE DEF m, k
  <2> QED
    BY <1>1, <1>7, JoinedIs
<1> DEFINE num == [i \in Nat |-> n + (IF i <= m THEN i ELSE m)]
<1>9. \A i \in 1..(m + k) : /\ i <= m => i \in 1..m
                            /\ ~ (i <= m) => i - m \in 1..k
                            /\ i \in Nat /\ i - 1 \in Nat
  <2> HIDE DEF m, k
  <2> QED
    BY <1>3
<1>10. Scripted(e, ops, KnownIn(g[e]))
  <2>1. \A i \in 1..(m + k) : ops[i].type \in {"AddNode", "AddEdge"}
    <3> HIDE DEF m, k
    <3> QED
      BY <1>5, <1>6, <1>8, <1>9
  <2> HIDE DEF m, k
  <2> QED
    BY <1>8, <2>1 DEF Scripted
<1>11. Numbering(e, ops, num)
  <2> SUFFICES ASSUME NEW i \in 1..(m + k)
               PROVE  /\ num[i - 1] \in Nat
                      /\ num[i] = IF ops[i].type = "AddNode" THEN num[i - 1] + 1 ELSE num[i - 1]
                      /\ ops[i].type = "AddNode" => ops[i].id = <<e, num[i - 1]>>
    BY <1>8 DEF Numbering
  <2> HIDE DEF m, k
  <2>1. num[i] = n + (IF i <= m THEN i ELSE m) /\ num[i - 1] = n + (IF i - 1 <= m THEN i - 1 ELSE m)
    BY <1>9
  <2> HIDE DEF num
  <2>2. CASE i <= m
    <3>1. ops[i].type = "AddNode" /\ ops[i].id = <<e, n + i - 1>>
      BY <1>5, <1>8, <1>9, <2>2
    <3>2. num[i] = n + i /\ num[i - 1] = n + i - 1 /\ n + i - 1 \in Nat /\ (n + i - 1) + 1 = n + i
      BY <1>3, <2>1, <2>2
    <3> QED
      BY <3>1, <3>2
  <2>3. CASE ~ (i <= m)
    <3>1. ops[i].type = "AddEdge"
      BY <1>6, <1>8, <1>9, <2>3
    <3>2. num[i] = n + m /\ num[i - 1] = n + m /\ n + m \in Nat
      BY <1>3, <2>1, <2>3
    <3> QED
      BY <3>1, <3>2
  <2> QED
    BY <2>2, <2>3
<1>12. num[0] = nx[e] /\ num[Len(ops)] = n + m
  <2>1. num[0] = n + 0
    <3> HIDE DEF m, n
    <3> QED
      BY <1>3
  <2>2. m + k \in Nat /\ (m + k <= m => m + k = m) /\ n + 0 = n
    <3> HIDE DEF m, k, n
    <3> QED
      BY <1>3
  <2> QED
    BY <1>8, <2>1, <2>2
<1> HIDE DEF num
<1>13. /\ Group([g EXCEPT ![e] = DoAll(e, g[e], ops)], [nx EXCEPT ![e] = num[Len(ops)]])
       /\ Learns(e, ops, m + k, KnownIn(g[e]), KnownIn(DoAll(e, g[e], ops)))
  BY <1>8, <1>10, <1>11, <1>12, GroupCalls
<1> HIDE DEF m, k, n
<1>14. Group([g EXCEPT ![e] = DoAll(e, g[e], ops)], [nx EXCEPT ![e] = n + m])
  BY <1>12, <1>13
<1> QED
  BY <1>3, <1>13, <1>14 DEF m, n, ops, k

-----------------------------------------------------------------------------
\* The invariant of the specification.

DeltasOK ==
  /\ DOMAIN deltas = Replica
  /\ \A e \in Replica : \A delta \in deltas[e] : Deliverable(delta, KnownIn(forest[e]))

Inv == /\ requests \in [Replica -> 0..MaxRequests]
       /\ Group(forest, [e \in Replica |-> forest[e].next_local_id])
       /\ DeltasOK

\* Where the numbers of the nodes are kept does not matter.
LEMMA Renumbered ==
  ASSUME NEW f, EngineOK(f), NEW m \in Nat
  PROVE  LET g == [f EXCEPT !.next_local_id = m]
         IN  EngineOK(g) /\ KnownIn(g) = KnownIn(f) /\ g.next_local_id = m
<1> DEFINE g == [f EXCEPT !.next_local_id = m]
<1>1. f \in EngineState
  BY DEF EngineOK
<1>2. /\ g \in EngineState /\ g.view = f.view /\ g.log = f.log /\ g.last = f.last
      /\ g.next_local_id = m
  BY <1>1 DEF EngineState
<1> HIDE DEF g
<1>3. KnownIn(g) = KnownIn(f)
  BY <1>2 DEF KnownIn
<1>4. EngineOK(g)
  BY <1>2, <1>3 DEF EngineOK
<1> QED
  BY <1>2, <1>3, <1>4 DEF g

\* What a group does with a number for every engine, its forests do.
LEMMA GroupSettled ==
  ASSUME NEW g, NEW nx, Group(g, nx), \A e \in Replica : g[e].next_local_id = nx[e]
  PROVE  Group(g, [e \in Replica |-> g[e].next_local_id])
<1>1. nx = [e \in Replica |-> g[e].next_local_id]
  BY DEF Group, SharedOK
<1> QED
  BY <1>1

\* What a request to e does to what e knows: it ingests a file, or it leaves the
\* trees of e alone.
Planting(e, file) ==
  LET n == forest[e].next_local_id
  IN  /\ HasAdapter(file)
      /\ n + Len(file.nodes) - 1 \in LocalId /\ Len(file.nodes) \in Nat
      /\ forest'[e].next_local_id = n + Len(file.nodes)
      /\ Learns(e, Ingested(e, file, n), Len(file.nodes) + Len(file.edges),
                KnownIn(forest[e]), KnownIn(forest'[e]))

Resting(e) ==
  /\ forest'[e].next_local_id = forest[e].next_local_id
  /\ \E a \in Replica : Quiet(e, KnownIn(forest[e]), KnownIn(forest'[e]), KnownIn(forest[a]))

\* What it learns in detail.
Scanning(e, dims, threshold) ==
  LET d     == EmbedAll(e, forest[e], dims)
      ops   == EmbedOps(forest[e], dims)
      links == ProximityLinks(d, threshold)
  IN  /\ EngineOK(d) /\ Len(ops) \in Nat /\ Makes(e, ops, Len(ops), forest[e], d)
      /\ Makes(e, LinkOps(links), 2 * Len(links), d, forest'[e])

Learning(e) == \E op : /\ op.type \in {"Reinforce", "Decay"}
                      /\ Learns1(e, op, KnownIn(forest[e]), KnownIn(forest'[e]))

Taking(to, delta) == KnownIn(forest'[to]) = KnownIn(forest[to]) \cup Ops(delta)

\* A request served.
LEMMA RequestServed ==
  ASSUME Inv, NEW e \in Replica, NEW f, Request(e, f), KnownIn(forest[e]) \subseteq KnownIn(f),
         LET nx == [a \in Replica |-> forest[a].next_local_id]
         IN  Group([forest EXCEPT ![e] = f], [nx EXCEPT ![e] = f.next_local_id])
  PROVE  Inv' /\ forest'[e] = f /\ \A a \in Replica : a # e => forest'[a] = forest[a]
<1> DEFINE nx == [a \in Replica |-> forest[a].next_local_id]
           g == [forest EXCEPT ![e] = f]
<1>1. requests' \in [Replica -> 0..MaxRequests]
  BY HostAssumption DEF Inv, Request
<1>2. forest' = g /\ DOMAIN forest = Replica
  BY DEF Inv, Request, Group
<1>3. \A a \in Replica : g[a].next_local_id = [nx EXCEPT ![e] = f.next_local_id][a]
  BY <1>2
<1> HIDE DEF g
<1>4. Group(g, [a \in Replica |-> g[a].next_local_id])
  BY <1>3, GroupSettled DEF g
<1>5. Group(forest', [a \in Replica |-> forest'[a].next_local_id])
  BY <1>2, <1>4
<1>6. forest'[e] = f /\ \A a \in Replica : a # e => forest'[a] = forest[a]
  BY <1>2 DEF g
<1>7. /\ DOMAIN deltas' = Replica
      /\ \A a \in Replica : deltas'[a] = IF a = e THEN deltas[a] \cup {f.log} ELSE deltas[a]
  BY DEF Inv, DeltasOK, Request
<1>8. ASSUME NEW a \in Replica, NEW delta \in deltas'[a]
      PROVE  Deliverable(delta, KnownIn(forest'[a]))
  <2>1. CASE delta \in deltas[a]
    <3>1. Deliverable(delta, KnownIn(forest[a]))
      BY <2>1 DEF Inv, DeltasOK
    <3>2. KnownIn(forest[a]) \subseteq KnownIn(forest'[a])
      BY <1>6
    <3> QED
      BY <3>1, <3>2 DEF Deliverable
  <2>2. CASE a = e /\ delta = f.log
    <3>1. EngineOK(f)
      BY <1>5, <1>6 DEF Group
    <3> QED
      BY <1>6, <2>2, <3>1, OwnLogDeliverable
  <2> QED
    BY <1>7, <1>8, <2>1, <2>2
<1>9. DeltasOK'
  BY <1>7, <1>8 DEF DeltasOK, Deliverable, Ops, KnownIn
<1> QED
  BY <1>1, <1>5, <1>6, <1>9 DEF Inv, Group, SharedOK, EngineOK

\* Engines start in order.
LEMMA InitInv == Init => Inv
<1> SUFFICES ASSUME Init PROVE Inv
  OBVIOUS
<1> DEFINE v == NewView
<1>1. requests \in [Replica -> 0..MaxRequests]
  <2>1. 0 \in 0..MaxRequests
    BY HostAssumption
  <2> QED
    BY <2>1 DEF Init
<1>2. /\ NewForest \in EngineState /\ NewForest.log = <<>> /\ NewForest.view = NewView
      /\ NewForest.next_local_id = 0
  <2>1. <<>> \in Seq(StampedOp) /\ HlcZero \in Hlc
    BY DEF HlcZero, Hlc
  <2> QED
    BY <2>1, NewViewType DEF NewForest, EngineState
<1>3. KnownIn(NewForest) = {}
  BY <1>2 DEF KnownIn
<1>4. ViewFollows(NewView, {})
  <2>1. \A T : MapsOK(NewView, T)
    BY DEF MapsOK, NodeOK, EdgeOK, NewView, NewSet
  <2>2. ASSUME NEW id \in NodeId
        PROVE  NodeFollows(NewView, {}, id)
    <3>1. \A type : OpsOn({}, type, id) = {}
      BY DEF OpsOn
    <3>2. /\ NewView.nodes.adds[id] = {} /\ NewView.nodes.removes[id] = {}
          /\ NewView.node_embedding_tag[id] = None
      BY DEF NewView, NewSet
    <3> QED
      BY <3>1, <3>2, FollowsIs
  <2>3. \A k \in EdgeKey : EdgeFollows(NewView, {}, k)
    BY DEF EdgeFollows, NewView, NewSet
  <2>4. \A f, p : Bucketed(f, {}, p) = 0
    BY SumEmpty, RemainderOf, WidthAssumption DEF Bucketed, Wrap
  <2>5. BucketsFollow(NewView, {})
    BY <2>4 DEF BucketsFollow, NewView, NewCounter
  <2> QED
    BY <2>1, <2>2, <2>3, <2>5, NewViewType DEF ViewFollows
<1>5. EngineOK(NewForest)
  BY <1>2, <1>3, <1>4 DEF EngineOK
<1>6. DOMAIN forest = Replica /\ \A e \in Replica : forest[e] = NewForest
  BY DEF Init
<1>7. SharedOK([e \in Replica |-> KnownIn(forest[e])],
               [e \in Replica |-> forest[e].next_local_id])
  <2>1. \A e \in Replica : KnownIn(forest[e]) = {} /\ forest[e].next_local_id = 0
    BY <1>2, <1>3, <1>6
  <2> DEFINE k == [e \in Replica |-> {}]
             nx == [e \in Replica |-> 0]
  <2>2. /\ [e \in Replica |-> KnownIn(forest[e])] = k
        /\ [e \in Replica |-> forest[e].next_local_id] = nx
    BY <2>1
  <2>3. nx \in [Replica -> Nat] /\ \A a \in Replica : k[a] = {}
    OBVIOUS
  <2> HIDE DEF k, nx
  <2>4. SharedOK(k, nx)
    BY <2>3 DEF SharedOK
  <2> QED
    BY <2>2, <2>4
<1>8. DOMAIN deltas = Replica /\ \A e \in Replica : deltas[e] = {}
  BY DEF Init
<1> QED
  BY <1>1, <1>5, <1>6, <1>7, <1>8 DEF Inv, DeltasOK, Group

\* Ingesting a file.
LEMMA IngestInv ==
  ASSUME Inv, NEW e \in Replica, NEW file, Ingest(e, file), file \in File
  PROVE  Inv' /\ Planting(e, file) /\ \A a \in Replica : a # e => forest'[a] = forest[a]
<1> DEFINE nx == [a \in Replica |-> forest[a].next_local_id]
           m == nx[e] + Len(file.nodes)
           d == DoAll(e, forest[e], Ingested(e, file, nx[e]))
           f == [d EXCEPT !.next_local_id = m]
           g == [forest EXCEPT ![e] = d]
           h == [forest EXCEPT ![e] = f]
           nx2 == [nx EXCEPT ![e] = m]
<1>1. Group(forest, nx) /\ nx[e] = forest[e].next_local_id
  BY DEF Inv
<1>2. HasAdapter(file) /\ nx[e] + Len(file.nodes) - 1 \in LocalId /\ Request(e, f)
  BY DEF Ingest
<1>3. DOMAIN forest = Replica
  BY <1>1 DEF Group
<1> HIDE DEF nx
<1>4. /\ Group(g, nx2) /\ Len(file.nodes) \in Nat
      /\ Learns(e, Ingested(e, file, nx[e]), Len(file.nodes) + Len(file.edges),
                KnownIn(forest[e]), KnownIn(d))
  BY <1>1, <1>2, GroupIngests
<1>5. m \in Nat
  <2>1. nx[e] \in Nat
    BY <1>1 DEF Group, SharedOK
  <2> QED
    BY <1>4, <2>1
<1> HIDE DEF d, m
<1>6. g[e] = d /\ \A a \in Replica : a # e => g[a] = forest[a] /\ h[a] = forest[a]
  BY <1>3
<1>7. h[e] = f /\ DOMAIN h = Replica
  BY <1>3
<1>8. EngineOK(d)
  BY <1>4, <1>6 DEF Group
<1>9. EngineOK(f) /\ KnownIn(f) = KnownIn(d) /\ f.next_local_id = m
  BY <1>5, <1>8, Renumbered
<1> HIDE DEF f
<1>10. /\ \A a \in Replica : EngineOK(h[a])
       /\ [a \in Replica |-> KnownIn(h[a])] = [a \in Replica |-> KnownIn(g[a])]
  <2> HIDE DEF g, h
  <2>1. \A a \in Replica : EngineOK(g[a])
    BY <1>4 DEF Group
  <2>2. \A a \in Replica : EngineOK(h[a]) /\ KnownIn(h[a]) = KnownIn(g[a])
    BY <1>6, <1>7, <1>9, <2>1
  <2> QED
    BY <2>2
<1> HIDE DEF g
<1>11. Group(h, nx2)
  BY <1>4, <1>7, <1>10 DEF Group
<1>12. Group([forest EXCEPT ![e] = f],
             [[a \in Replica |-> forest[a].next_local_id] EXCEPT ![e] = f.next_local_id])
  BY <1>9, <1>11 DEF nx
<1>13. Inv' /\ forest'[e] = f /\ \A a \in Replica : a # e => forest'[a] = forest[a]
  BY <1>2, <1>4, <1>9, <1>12, RequestServed DEF Learns
<1>14. Planting(e, file)
  BY <1>1, <1>2, <1>4, <1>9, <1>13 DEF Planting, m
<1> QED
  BY <1>13, <1>14

\* A request that makes no nodes.
LEMMA QuietInv ==
  ASSUME Inv, NEW e \in Replica, NEW f, Request(e, f),
         Group([forest EXCEPT ![e] = f], [b \in Replica |-> forest[b].next_local_id]),
         f.next_local_id = forest[e].next_local_id, NEW a \in Replica,
         Quiet(e, KnownIn(forest[e]), KnownIn(f), KnownIn(forest[a]))
  PROVE  Inv' /\ Resting(e) /\ forest'[e] = f /\ \A b \in Replica : b # e => forest'[b] = forest[b]
<1> DEFINE nx == [b \in Replica |-> forest[b].next_local_id]
<1>1. [nx EXCEPT ![e] = f.next_local_id] = nx
  OBVIOUS
<1>2. Group([forest EXCEPT ![e] = f], [nx EXCEPT ![e] = f.next_local_id])
  BY <1>1
<1>3. Inv' /\ forest'[e] = f /\ \A b \in Replica : b # e => forest'[b] = forest[b]
  BY <1>2, RequestServed DEF Quiet
<1>4. Resting(e)
  BY <1>3 DEF Resting
<1> QED
  BY <1>3, <1>4

\* A scan.
LEMMA ScanInv ==
  ASSUME Inv, NEW e \in Replica, NEW dims \in Dims, NEW threshold, Scan(e, dims, threshold)
  PROVE  Inv' /\ Resting(e) /\ Scanning(e, dims, threshold) /\ \A a \in Replica : a # e => forest'[a] = forest[a]
<1> DEFINE nx == [a \in Replica |-> forest[a].next_local_id]
           d == EmbedAll(e, forest[e], dims)
           links == ProximityLinks(d, threshold)
           f == ApplyProximityLinks(e, d, links)
           g == [forest EXCEPT ![e] = d]
<1>1. Group(forest, nx) /\ Request(e, f)
  BY DEF Inv, Scan
<1>2. DOMAIN forest = Replica
  BY <1>1 DEF Group
<1> HIDE DEF nx
<1>3. /\ Group(g, nx) /\ d.next_local_id = forest[e].next_local_id
      /\ Quiet(e, KnownIn(forest[e]), KnownIn(d), {})
      /\ Len(EmbedOps(forest[e], dims)) \in Nat
      /\ Makes(e, EmbedOps(forest[e], dims), Len(EmbedOps(forest[e], dims)), forest[e], d)
  BY <1>1, GroupEmbeds
<1> HIDE DEF d
<1>4. g[e] = d
  BY <1>2
<1>5. EngineOK(d)
  BY <1>3, <1>4 DEF Group
<1>6. /\ Len(links) \in Nat
      /\ \A i \in 1..Len(links) : /\ links[i].a \in NodeId /\ links[i].b \in NodeId
                                  /\ links[i].score \in Weight
  BY <1>5, LinksType
<1> HIDE DEF links
<1>7. [g EXCEPT ![e] = f] = [forest EXCEPT ![e] = f]
  BY <1>2
<1>8. /\ Group([g EXCEPT ![e] = ApplyProximityLinks(e, g[e], links)], nx)
      /\ ApplyProximityLinks(e, g[e], links).next_local_id = g[e].next_local_id
      /\ Quiet(e, KnownIn(g[e]), KnownIn(ApplyProximityLinks(e, g[e], links)), {})
      /\ Makes(e, LinkOps(links), 2 * Len(links), g[e], ApplyProximityLinks(e, g[e], links))
  <2> HIDE DEF g
  <2> QED
    BY <1>3, <1>6, GroupLinks
<1>9. /\ Group([forest EXCEPT ![e] = f], nx) /\ f.next_local_id = forest[e].next_local_id
      /\ Quiet(e, KnownIn(d), KnownIn(f), {}) /\ Makes(e, LinkOps(links), 2 * Len(links), d, f)
  <2>1. f = ApplyProximityLinks(e, g[e], links)
    BY <1>4
  <2> HIDE DEF f, g
  <2> QED
    BY <1>3, <1>4, <1>7, <1>8, <2>1
<1> HIDE DEF f
<1>10. Group([forest EXCEPT ![e] = f], [a \in Replica |-> forest[a].next_local_id])
  BY <1>9 DEF nx
<1>11. Quiet(e, KnownIn(forest[e]), KnownIn(f), KnownIn(forest[e]))
  BY <1>3, <1>9 DEF Quiet
<1>12. Inv' /\ Resting(e) /\ forest'[e] = f /\ \A a \in Replica : a # e => forest'[a] = forest[a]
  BY <1>1, <1>9, <1>10, <1>11, QuietInv
<1>13. Scanning(e, dims, threshold)
  BY <1>3, <1>5, <1>9, <1>12 DEF Scanning, d, links
<1> QED
  BY <1>12, <1>13

\* An event reported.
LEMMA ReportInv ==
  ASSUME Inv, NEW e \in Replica, NEW key \in ReportKey[e], NEW event \in Event,
         Report(e, key, event)
  PROVE  Inv' /\ Resting(e) /\ Learning(e) /\ \A a \in Replica : a # e => forest'[a] = forest[a]
<1> DEFINE nx == [a \in Replica |-> forest[a].next_local_id]
           n == Magnitude[event]
           op == [type |-> IF n > 0 THEN "Reinforce" ELSE "Decay", key |-> key, replica |-> e,
                  amount |-> IF n > 0 THEN n ELSE -n]
           f == Do(e, forest[e], op)
<1>1. Group(forest, nx) /\ Request(e, f)
  BY DEF Inv, Report
<1>2. n \in Int
  <2>1. event \in DOMAIN Magnitude
    BY HostAssumption
  <2> QED
    BY <2>1 DEF Magnitude
<1>3. op \in Operation /\ op.type \in {"Reinforce", "Decay"} /\ op.replica = e
  <2>1. key \in EdgeKey
    BY HostAssumption
  <2> DEFINE amount == IF n > 0 THEN n ELSE -n
             type == IF n > 0 THEN "Reinforce" ELSE "Decay"
  <2>2. amount \in Nat
    <3> HIDE DEF n
    <3> QED
      BY <1>2
  <2>3. type \in {"Reinforce", "Decay"}
    OBVIOUS
  <2>4. op = [type |-> type, key |-> key, replica |-> e, amount |-> amount]
    OBVIOUS
  <2> HIDE DEF amount, type, op, n
  <2> QED
    BY <2>1, <2>2, <2>3, <2>4 DEF Operation
<1> HIDE DEF op, n
<1>4. Callable(e, op, KnownIn(forest[e])) /\ op.type # "AddNode"
  BY <1>3 DEF Callable
<1> HIDE DEF nx
<1>5. /\ Group([forest EXCEPT ![e] = f], [nx EXCEPT ![e] = nx[e]])
      /\ f.next_local_id = forest[e].next_local_id
      /\ Learns1(e, op, KnownIn(forest[e]), KnownIn(f))
  BY <1>1, <1>4, GroupCall
<1>6. [nx EXCEPT ![e] = nx[e]] = nx
  BY <1>1 DEF Group, SharedOK
<1> HIDE DEF f
<1>7. Group([forest EXCEPT ![e] = f], [a \in Replica |-> forest[a].next_local_id])
  BY <1>5, <1>6 DEF nx
<1>8. Quiet(e, KnownIn(forest[e]), KnownIn(f), KnownIn(forest[e]))
  BY <1>3, <1>5 DEF Learns1, Quiet, LeavesTrees
<1>9. Inv' /\ Resting(e) /\ forest'[e] = f /\ \A a \in Replica : a # e => forest'[a] = forest[a]
  BY <1>1, <1>5, <1>7, <1>8, QuietInv
<1>10. Learning(e)
  BY <1>3, <1>5, <1>9 DEF Learning
<1> QED
  BY <1>9, <1>10

\* A log handed over, whenever it was written.
LEMMA ExchangeInv ==
  ASSUME Inv, NEW from \in Replica, NEW to \in Replica, from # to, NEW delta,
         Exchange(from, to, delta)
  PROVE  Inv' /\ Resting(to) /\ Taking(to, delta) /\ \A a \in Replica : a # to => forest'[a] = forest[a]
<1> DEFINE nx == [a \in Replica |-> forest[a].next_local_id]
           f == Taken(forest[to], delta)
<1>1. Group(forest, nx) /\ Request(to, f) /\ Deliverable(delta, KnownIn(forest[from]))
  BY DEF Inv, DeltasOK, Exchange, Imported, Taken
<1> HIDE DEF nx
<1>2. /\ Group([forest EXCEPT ![to] = f], nx) /\ f.next_local_id = forest[to].next_local_id
      /\ Quiet(to, KnownIn(forest[to]), KnownIn(f), KnownIn(forest[from]))
      /\ KnownIn(f) = KnownIn(forest[to]) \cup Ops(delta)
  <2>1. Group(forest, nx)
    BY <1>1
  <2>2. Deliverable(delta, KnownIn(forest[from]))
    BY <1>1
  <2> QED
    BY <2>1, <2>2, GroupExchange
<1> HIDE DEF f
<1>3. Group([forest EXCEPT ![to] = f], [a \in Replica |-> forest[a].next_local_id])
  BY <1>2 DEF nx
<1>4. Inv' /\ Resting(to) /\ forest'[to] = f /\ \A a \in Replica : a # to => forest'[a] = forest[a]
  BY <1>1, <1>2, <1>3, QuietInv
<1> QED
  BY <1>2, <1>4 DEF Taking

\* Every request keeps the engines in order.
LEMMA NextInv == Inv /\ [Next]_vars => Inv'
<1> SUFFICES ASSUME Inv, [Next]_vars PROVE Inv'
  OBVIOUS
<1>1. ASSUME NEW e \in Replica, NEW file \in File, Ingest(e, file) PROVE Inv'
  BY <1>1, IngestInv
<1>2. ASSUME NEW e \in Replica, NEW dims \in Dims, NEW threshold \in Threshold,
             Scan(e, dims, threshold)
      PROVE  Inv'
  BY <1>2, ScanInv
<1>3. ASSUME NEW e \in Replica, NEW key \in ReportKey[e], NEW event \in Event,
             Report(e, key, event)
      PROVE  Inv'
  BY <1>3, ReportInv
<1>4. ASSUME NEW e \in Replica, NEW to \in Replica \ {e}, NEW delta, Exchange(e, to, delta)
      PROVE  Inv'
  BY <1>4, ExchangeInv
<1>5. CASE UNCHANGED vars
  <2>0. requests' = requests /\ forest' = forest /\ deltas' = deltas
    BY <1>5 DEF vars
  <2>1. (requests \in [Replica -> 0..MaxRequests])'
    BY <2>0 DEF Inv
  <2>2. Group(forest, [e \in Replica |-> forest[e].next_local_id])'
    BY <2>0 DEF Inv, Group, SharedOK, EngineOK
  <2>3. DeltasOK'
    <3>1. DOMAIN deltas' = Replica
      BY <2>0 DEF Inv, DeltasOK
    <3>2. ASSUME NEW e \in Replica, NEW delta \in deltas'[e]
          PROVE  Deliverable(delta, KnownIn(forest'[e]))
      BY <2>0 DEF Inv, DeltasOK
    <3> QED
      BY <3>1, <3>2 DEF DeltasOK, Deliverable, Ops, KnownIn
  <2> QED
    BY <2>1, <2>2, <2>3 DEF Inv
<1> QED
  BY <1>1, <1>2, <1>3, <1>4, <1>5 DEF Next

-----------------------------------------------------------------------------
\* The theorems.

LEMMA AlwaysInv == Spec => []Inv
<1> QED
  BY InitInv, NextInv, PTL DEF Spec

LEMMA InvTypes == Inv => TypeOK
<1> SUFFICES ASSUME Inv PROVE TypeOK
  OBVIOUS
<1>1. ASSUME NEW e \in Replica
      PROVE  /\ Known(e) \subseteq [tag : [replica : Replica, hlc : Hlc], op : Operation]
             /\ forest[e].last \in Hlc
             /\ forest[e].next_local_id \in Nat
             /\ DOMAIN NodesOf(forest[e].view) \subseteq Replica \X LocalId
             /\ \A delta \in deltas[e] : Range(delta) \subseteq Known(e)
  <2>1. EngineOK(forest[e])
    BY DEF Inv, Group
  <2>2. Known(e) \subseteq StampedOp /\ forest[e].last \in Hlc
    BY <2>1, KnownType DEF Known, KnownIn
  <2>3. forest[e].next_local_id \in Nat
    BY <2>1 DEF EngineOK, EngineState
  <2>4. DOMAIN NodesOf(forest[e].view) \subseteq NodeId
    BY <2>1, ShownNodes
  <2>5. ASSUME NEW delta \in deltas[e]
        PROVE  Range(delta) \subseteq Known(e)
    <3>1. Deliverable(delta, KnownIn(forest[e]))
      BY DEF Inv, DeltasOK
    <3>2. DOMAIN delta = 1..Len(delta)
      BY <3>1 DEF Deliverable
    <3>3. Range(delta) = Ops(delta)
      BY <3>2 DEF Range, Ops
    <3> QED
      BY <3>1, <3>3 DEF Deliverable, Known, KnownIn
  <2> QED
    BY <2>2, <2>3, <2>4, <2>5 DEF StampedOp, Tag, NodeId
<1>2. requests \in [Replica -> 0..MaxRequests]
  BY DEF Inv
<1> QED
  BY <1>1, <1>2 DEF TypeOK

\* Requests are counted, and engines know well-formed operations and show nodes
\* with ids in use, whatever their hosts ask for (ingest_file, scan_proximity,
\* report_event, export_delta and import_delta).
THEOREM EngineTypes == Spec => []TypeOK
<1> QED
  BY AlwaysInv, InvTypes, PTL

\* Views that follow the same operations show the same.
LEMMA ViewsAgree ==
  ASSUME NEW ops \in SUBSET StampedOp, NEW v, ViewFollows(v, ops), NEW w, ViewFollows(w, ops)
  PROVE  /\ NodesOf(v) = NodesOf(w)
         /\ Present(v.edges) = Present(w.edges)
         /\ \A k \in EdgeKey : Value(v.edge_weight[k]) = Value(w.edge_weight[k])
<1>1. /\ v \in View /\ w \in View
      /\ DOMAIN v.nodes.adds = NodeId /\ DOMAIN w.nodes.adds = NodeId
      /\ DOMAIN v.edges.adds = EdgeKey /\ DOMAIN w.edges.adds = EdgeKey
  BY DEF ViewFollows, View, TaggedSet
<1>2. ASSUME NEW id \in NodeId
      PROVE  /\ v.nodes.adds[id] = w.nodes.adds[id] /\ v.nodes.removes[id] = w.nodes.removes[id]
             /\ v.nodes.adds[id] # {} => v.node_payload[id] = w.node_payload[id]
  BY FollowersAgree DEF ViewFollows
<1>3. NodesOf(v) = NodesOf(w)
  <2> DEFINE shown(u) == {i \in Present(u.nodes) : u.node_payload[i] # None}
  <2>1. \A id \in NodeId : id \in Present(v.nodes) <=> id \in Present(w.nodes)
    BY <1>1, <1>2 DEF Present, Contains
  <2>2. Present(v.nodes) \in SUBSET NodeId /\ Present(w.nodes) \in SUBSET NodeId
    BY <1>1 DEF Present
  <2>3. \A id \in Present(v.nodes) : v.node_payload[id] = w.node_payload[id]
    <3> SUFFICES ASSUME NEW id \in Present(v.nodes)
                 PROVE  v.node_payload[id] = w.node_payload[id]
      OBVIOUS
    <3>1. v.nodes.adds[id] # {}
      BY DEF Present, Contains
    <3> QED
      BY <1>2, <2>2, <3>1
  <2>4. Present(v.nodes) = Present(w.nodes)
    BY <2>1, <2>2
  <2>5. shown(v) = shown(w)
    BY <2>3, <2>4
  <2>6. \A id \in shown(v) : v.node_payload[id] = w.node_payload[id]
    BY <2>3
  <2>7. NodesOf(v) = [id \in shown(v) |-> v.node_payload[id]]
    BY DEF NodesOf
  <2>8. NodesOf(w) = [id \in shown(w) |-> w.node_payload[id]]
    BY DEF NodesOf
  <2> HIDE DEF shown
  <2> QED
    BY <2>5, <2>6, <2>7, <2>8
<1>4. Present(v.edges) = Present(w.edges)
  <2>1. \A k \in EdgeKey : /\ v.edges.adds[k] = w.edges.adds[k]
                           /\ v.edges.removes[k] = w.edges.removes[k]
    BY DEF ViewFollows, EdgeFollows
  <2> QED
    BY <1>1, <2>1 DEF Present, Contains
<1>5. ASSUME NEW k \in EdgeKey
      PROVE  v.edge_weight[k] = w.edge_weight[k]
  <2> DEFINE c == v.edge_weight[k]
             d == w.edge_weight[k]
  <2>1. c \in Counter /\ d \in Counter
    BY <1>1 DEF View
  <2>2. \A p \in Replica : c.pos[p] = d.pos[p] /\ c.neg[p] = d.neg[p]
    BY DEF ViewFollows, BucketsFollow
  <2> HIDE DEF c, d
  <2>3. c.pos = d.pos /\ c.neg = d.neg
    BY <2>1, <2>2 DEF Counter
  <2>4. c = d
    BY <2>1, <2>3 DEF Counter
  <2> QED
    BY <2>4 DEF c, d
<1> QED
  BY <1>3, <1>4, <1>5

LEMMA InvConverges == Inv => EnginesConverge
<1> SUFFICES ASSUME Inv, NEW a \in Replica, NEW b \in Replica,
                    {s.tag : s \in Known(a)} = {s.tag : s \in Known(b)}
             PROVE  /\ NodesOf(forest[a].view) = NodesOf(forest[b].view)
                    /\ Present(forest[a].view.edges) = Present(forest[b].view.edges)
                    /\ \A k \in EdgeKey : Value(forest[a].view.edge_weight[k])
                                          = Value(forest[b].view.edge_weight[k])
  BY DEF EnginesConverge
<1> DEFINE known == [e \in Replica |-> KnownIn(forest[e])]
           nx == [e \in Replica |-> forest[e].next_local_id]
<1>1. EngineOK(forest[a]) /\ EngineOK(forest[b]) /\ SharedOK(known, nx)
  BY DEF Inv, Group
<1>2. Known(a) = known[a] /\ Known(b) = known[b]
  BY DEF Known, KnownIn
<1> HIDE DEF known
<1>3. \A s \in known[a], t \in known[b] : s.tag = t.tag => s = t
  BY <1>1 DEF SharedOK
<1>4. Known(a) = Known(b)
  <2> DEFINE p == Known(a)
             q == Known(b)
  <2>1. {s.tag : s \in p} = {s.tag : s \in q} /\ \A s \in p, t \in q : s.tag = t.tag => s = t
    BY <1>2, <1>3
  <2> HIDE DEF p, q
  <2>2. ASSUME NEW s \in p
        PROVE  s \in q
    <3>1. PICK t \in q : t.tag = s.tag
      BY <2>1
    <3> QED
      BY <2>1, <3>1
  <2>3. ASSUME NEW t \in q
        PROVE  t \in p
    <3>1. PICK s \in p : s.tag = t.tag
      BY <2>1
    <3> QED
      BY <2>1, <3>1
  <2>4. p = q
    BY <2>2, <2>3
  <2> QED
    BY <2>4 DEF p, q
<1>5. Known(a) \in SUBSET StampedOp
  BY <1>1, KnownType DEF Known, KnownIn
<1>6. ViewFollows(forest[a].view, Known(a)) /\ ViewFollows(forest[b].view, Known(b))
  BY <1>1 DEF EngineOK, Known, KnownIn
<1> QED
  BY <1>4, <1>5, <1>6, ViewsAgree

\* Engines that know the same operations show the same nodes with the same
\* embeddings and the same edges and have learnt the same weights, however many
\* hosts ingest, scan, report events and hand each other their logs as bytes, in
\* whatever order: Forest::apply behind the whole API of the Python binding.
THEOREM EnginesAlwaysConverge == Spec => []EnginesConverge
<1> QED
  BY AlwaysInv, InvConverges, PTL

-----------------------------------------------------------------------------
\* The trees of an engine.

\* Its nodes and edges as Adapter has them.
TreeNodes(e, f) == [i \in 1..f.next_local_id |-> f.view.node_payload[<<e, i - 1>>].label.tree]

OwnKeys(e, f) == {k \in DOMAIN EdgesOf(f.view) : k.src[1] = e /\ k.kind # <<"SimilarTo">>}
TreeEdge(k) == [src |-> k.src[2] + 1, dst |-> k.dst[2] + 1, kind |-> k.kind[1]]
TreeEdges(e, f) == {TreeEdge(k) : k \in OwnKeys(e, f)}

\* An edge that is no link joins two nodes that its maker has made.
Inside(s, nx) ==
  LET key == s.op.key
      p == s.tag.replica
  IN  s.op.type = "AddEdge" /\ key.kind # <<"SimilarTo">> =>
        key.src[1] = p /\ key.dst[1] = p /\ key.src[2] < nx[p] /\ key.dst[2] < nx[p]

\* The engine e with the forest f knows an addition for each number it has given.
Numbered(e, f) == \A i \in 1..f.next_local_id : \E s \in KnownIn(f) : Adds(s, <<e, i - 1>>)

\* A node has the contents that it was added with.
LEMMA LabelIs ==
  ASSUME NEW f, EngineOK(f), NEW s \in KnownIn(f), NEW id, Adds(s, id)
  PROVE  f.view.node_payload[id].label = s.op.payload.label
<1> DEFINE v == f.view
           ops == KnownIn(f)
           embeddings == OpsOn(ops, "SetEmbedding", id)
<1>1. s \in StampedOp /\ s.op.type = "AddNode" /\ s.op.id = id
  BY KnownType DEF Adds
<1>2. s.op.payload \in Payload /\ id \in NodeId
  BY <1>1 DEF StampedOp, Operation
<1>3. NodeFollows(v, ops, id)
  BY <1>2 DEF EngineOK, ViewFollows
<1>4. s \in OpsOn(ops, "AddNode", id)
  BY <1>1 DEF OpsOn
<1> HIDE DEF v, ops
<1>5. CASE embeddings = {}
  BY <1>3, <1>4, <1>5, FollowsIs DEF v
<1>6. CASE embeddings # {}
  <2>1. PICK d \in embeddings : v.node_payload[id] = [s.op.payload EXCEPT !.embedding = d.op.embedding]
    BY <1>3, <1>4, <1>6, FollowsIs
  <2> QED
    BY <1>2, <2>1 DEF Payload, v
<1> QED
  BY <1>5, <1>6

\* The edges shown are those that were added.
LEMMA EdgesAre ==
  ASSUME NEW f, EngineOK(f)
  PROVE  DOMAIN EdgesOf(f.view) = {s.op.key : s \in {x \in KnownIn(f) : x.op.type = "AddEdge"}}
<1> DEFINE v == f.view
           ops == KnownIn(f)
<1>1. v \in View /\ \A k \in EdgeKey : EdgeFollows(v, ops, k)
  BY DEF EngineOK, ViewFollows
<1>2. ops \in SUBSET StampedOp
  BY KnownType
<1>3. DOMAIN EdgesOf(v) = {k \in EdgeKey : v.edges.adds[k] # {}}
  <2>1. DOMAIN v.edges.adds = EdgeKey
    BY <1>1 DEF View, TaggedSet
  <2>2. \A k \in EdgeKey : v.edges.removes[k] = {}
    BY <1>1 DEF EdgeFollows
  <2> HIDE DEF v
  <2> QED
    BY <2>1, <2>2 DEF EdgesOf, Present, Contains
<1>4. \A s \in ops : s.op.type = "AddEdge" => s.op.key \in EdgeKey
  <2> SUFFICES ASSUME NEW s \in ops, s.op.type = "AddEdge" PROVE s.op.key \in EdgeKey
    OBVIOUS
  <2>1. s.op \in Operation
    BY <1>2 DEF StampedOp
  <2> QED
    BY <2>1 DEF Operation
<1>5. \A k \in EdgeKey :
        v.edges.adds[k] # {} <=> \E s \in ops : s.op.type = "AddEdge" /\ s.op.key = k
  BY <1>1 DEF EdgeFollows
<1> HIDE DEF v, ops
<1>6. DOMAIN EdgesOf(v) = {s.op.key : s \in {x \in ops : x.op.type = "AddEdge"}}
  BY <1>3, <1>4, <1>5
<1> QED
  BY <1>6 DEF v, ops

\* Of what e learns but does not make itself nothing belongs to its trees.
LEMMA TreesStay ==
  ASSUME NEW e \in Replica, NEW f, EngineOK(f), NEW g, EngineOK(g),
         NEW o, NEW nx, \A s \in o : Inside(s, nx), Quiet(e, KnownIn(f), KnownIn(g), o),
         g.next_local_id = f.next_local_id, Numbered(e, f)
  PROVE  TreeNodes(e, g) = TreeNodes(e, f) /\ TreeEdges(e, g) = TreeEdges(e, f)
<1>1. KnownIn(f) \subseteq KnownIn(g)
  BY DEF Quiet
<1>2. ASSUME NEW i \in 1..f.next_local_id
      PROVE  g.view.node_payload[<<e, i - 1>>].label = f.view.node_payload[<<e, i - 1>>].label
  <2> DEFINE id == <<e, i - 1>>
  <2>1. PICK s \in KnownIn(f) : Adds(s, id)
    BY DEF Numbered
  <2> HIDE DEF id
  <2>2. f.view.node_payload[id].label = s.op.payload.label
    BY <2>1, LabelIs
  <2>3. g.view.node_payload[id].label = s.op.payload.label
    BY <1>1, <2>1, LabelIs
  <2> QED
    BY <2>2, <2>3 DEF id
<1>3. TreeNodes(e, g) = TreeNodes(e, f)
  BY <1>2 DEF TreeNodes
<1>4. /\ DOMAIN EdgesOf(f.view) = {s.op.key : s \in {x \in KnownIn(f) : x.op.type = "AddEdge"}}
      /\ DOMAIN EdgesOf(g.view) = {s.op.key : s \in {x \in KnownIn(g) : x.op.type = "AddEdge"}}
  BY EdgesAre
<1>5. ASSUME NEW s \in KnownIn(g) \ KnownIn(f), s.op.type = "AddEdge"
      PROVE  s.op.key.src[1] # e \/ s.op.key.kind = <<"SimilarTo">>
  <2>1. CASE s.tag.replica = e
    BY <1>5, <2>1 DEF Quiet, LeavesTrees
  <2>2. CASE s.tag.replica # e
    <3>1. Inside(s, nx)
      BY <2>2 DEF Quiet
    <3> QED
      BY <1>5, <2>2, <3>1 DEF Inside
  <2> QED
    BY <2>1, <2>2
<1>6. OwnKeys(e, g) = OwnKeys(e, f)
  <2>1. ASSUME NEW k \in OwnKeys(e, g)
        PROVE  k \in OwnKeys(e, f)
    <3>1. PICK s \in KnownIn(g) : s.op.type = "AddEdge" /\ s.op.key = k
      BY <1>4 DEF OwnKeys
    <3>2. s \in KnownIn(f)
      BY <1>5, <3>1 DEF OwnKeys
    <3> QED
      BY <1>4, <3>1, <3>2 DEF OwnKeys
  <2>2. ASSUME NEW k \in OwnKeys(e, f)
        PROVE  k \in OwnKeys(e, g)
    BY <1>1, <1>4 DEF OwnKeys
  <2> QED
    BY <2>1, <2>2
<1> QED
  BY <1>3, <1>6 DEF TreeEdges

\* The operations of an ingest, one by one.
NodeOf(e, file, n, i) ==
  [type |-> "AddNode", id |-> <<e, n + i - 1>>,
   payload |-> [label |-> [tree |-> file.tree, kind |-> file.nodes[i].kind,
                           text |-> file.nodes[i].text],
                embedding |-> None]]
KeyOf(e, file, n, i) ==
  [src |-> <<e, n + file.edges[i].src - 1>>, dst |-> <<e, n + file.edges[i].dst - 1>>,
   kind |-> file.edges[i].kind]

LEMMA IngestedIs ==
  ASSUME NEW e \in Replica, NEW file \in File, HasAdapter(file), NEW n \in Nat
  PROVE  LET m == Len(file.nodes)
             k == Len(file.edges)
             ops == Ingested(e, file, n)
         IN  /\ m \in Nat \ {0} /\ k \in Nat
             /\ \A i \in 1..m : ops[i] = NodeOf(e, file, n, i)
             /\ \A i \in 1..k : ops[m + i] = AddEdge(KeyOf(e, file, n, i), 1)
             /\ \A i \in 1..(m + k) : i \in 1..m \/ \E j \in 1..k : i = m + j
<1> DEFINE m == Len(file.nodes)
           k == Len(file.edges)
           made == [i \in 1..m |-> NodeOf(e, file, n, i)]
           joined == [i \in 1..k |-> AddEdge(KeyOf(e, file, n, i), 1)]
           T == {made[i] : i \in 1..m} \cup {joined[i] : i \in 1..k}
           ops == Ingested(e, file, n)
<1>1. file.nodes \in Seq(Range(file.nodes)) \ {<<>>} /\ file.edges \in Seq(Range(file.edges))
  BY FileAssumption
<1>2. m \in Nat \ {0} /\ k \in Nat
  BY <1>1
<1>3. ops = made \o joined
  BY DEF Ingested, NodeOf, KeyOf
<1>4. /\ \A i \in 1..m : made[i] = NodeOf(e, file, n, i)
      /\ \A i \in 1..k : joined[i] = AddEdge(KeyOf(e, file, n, i), 1)
  OBVIOUS
<1>5. made \in [1..m -> T] /\ joined \in [1..k -> T]
  OBVIOUS
<1> HIDE DEF made, joined, T, ops, m, k
<1>6. made \in Seq(T) /\ joined \in Seq(T) /\ Len(made) = m /\ Len(joined) = k
  BY <1>2, <1>5
<1>7. \A i \in 1..(m + k) : ops[i] = IF i <= m THEN made[i] ELSE joined[i - m]
  BY <1>3, <1>6, JoinedIs
<1>8. /\ \A i \in 1..m : i \in 1..(m + k) /\ i <= m
      /\ \A i \in 1..k : m + i \in 1..(m + k) /\ ~ (m + i <= m) /\ (m + i) - m = i
      /\ \A i \in 1..(m + k) : ~ (i <= m) => i - m \in 1..k /\ i = m + (i - m)
      /\ \A i \in 1..(m + k) : i <= m => i \in 1..m
  BY <1>2
<1>9. \A i \in 1..m : ops[i] = NodeOf(e, file, n, i)
  BY <1>4, <1>7, <1>8
<1>10. \A i \in 1..k : ops[m + i] = AddEdge(KeyOf(e, file, n, i), 1)
  BY <1>4, <1>7, <1>8
<1> QED
  BY <1>2, <1>8, <1>9, <1>10 DEF m, k, ops

\* The edges of a file join its nodes.
LEMMA FileEdges ==
  ASSUME NEW file \in File, HasAdapter(file)
  PROVE  /\ IsTree(file) /\ Len(file.edges) \in Nat
         /\ Range(file.edges) = {file.edges[j] : j \in 1..Len(file.edges)}
         /\ \A j \in 1..Len(file.edges) :
              /\ file.edges[j].src \in 1..Len(file.nodes)
              /\ file.edges[j].dst \in 1..Len(file.nodes)
              /\ file.edges[j].kind # <<"SimilarTo">>
<1>1. /\ file.edges \in Seq(Range(file.edges))
      /\ \A x \in Range(file.edges) : {x.src, x.dst} \subseteq 1..Len(file.nodes)
      /\ IsTree(file)
  BY FileAssumption
<1>2. Len(file.edges) \in Nat /\ DOMAIN file.edges = 1..Len(file.edges)
  BY <1>1
<1>3. Range(file.edges) = {file.edges[j] : j \in 1..Len(file.edges)}
  BY <1>2 DEF Range
<1>4. \A x \in Range(file.edges) : x.kind # <<"SimilarTo">>
  BY <1>1 DEF IsTree
<1> QED
  BY <1>1, <1>2, <1>3, <1>4

\* Counters that have gone on are ahead of what was behind them.
LEMMA InsideMore ==
  ASSUME NEW s \in StampedOp, NEW nx \in [Replica -> Nat], NEW ny \in [Replica -> Nat],
         \A a \in Replica : nx[a] <= ny[a], Inside(s, nx)
  PROVE  Inside(s, ny)
<1> SUFFICES ASSUME s.op.type = "AddEdge", s.op.key.kind # <<"SimilarTo">>
             PROVE  Inside(s, ny)
  BY DEF Inside
<1> DEFINE key == s.op.key
           p == s.tag.replica
<1>1. key \in EdgeKey /\ p \in Replica
  BY DEF StampedOp, Tag, Operation
<1>2. key.src[2] \in Nat /\ key.dst[2] \in Nat
  BY <1>1, KeyAssumption
<1>3. key.src[1] = p /\ key.dst[1] = p /\ key.src[2] < nx[p] /\ key.dst[2] < nx[p]
  BY DEF Inside
<1>4. nx[p] \in Nat /\ ny[p] \in Nat /\ nx[p] <= ny[p]
  BY <1>1
<1> HIDE DEF key, p
<1>5. key.src[2] < ny[p] /\ key.dst[2] < ny[p]
  BY <1>2, <1>3, <1>4
<1> QED
  BY <1>3, <1>5 DEF Inside, key, p

\* What ingesting a file makes of what e knows and of its trees.
LEMMA NumbersGoOn ==
  ASSUME NEW e \in Replica, NEW f, NEW g, NEW file \in File, HasAdapter(file),
         f.next_local_id \in Nat, g.next_local_id = f.next_local_id + Len(file.nodes),
         Learns(e, Ingested(e, file, f.next_local_id), Len(file.nodes) + Len(file.edges),
                KnownIn(f), KnownIn(g)),
         Numbered(e, f)
  PROVE  /\ Numbered(e, g)
         /\ \A i \in 1..Len(file.nodes) : \E s \in KnownIn(g) :
              s.op = NodeOf(e, file, f.next_local_id, i)
<1> DEFINE n == f.next_local_id
           m == Len(file.nodes)
           k == Len(file.edges)
           ops == Ingested(e, file, n)
<1>1. m \in Nat \ {0} /\ k \in Nat /\ \A i \in 1..m : ops[i] = NodeOf(e, file, n, i)
  BY IngestedIs
<1>2. KnownIn(f) \subseteq KnownIn(g) /\ \A i \in 1..(m + k) : \E s \in KnownIn(g) : s.op = ops[i]
  BY DEF Learns
<1> HIDE DEF ops, m, k, n
<1>3. \A i \in 1..m : \E s \in KnownIn(g) : s.op = NodeOf(e, file, n, i)
  <2>1. \A i \in 1..m : i \in 1..(m + k)
    BY <1>1
  <2> QED
    BY <1>1, <1>2, <2>1
<1>4. ASSUME NEW i \in 1..(n + m)
      PROVE  \E s \in KnownIn(g) : Adds(s, <<e, i - 1>>)
  <2>1. CASE i <= n
    <3>1. i \in 1..n
      BY <1>1, <2>1 DEF n
    <3> QED
      BY <1>2, <3>1 DEF Numbered, n
  <2>2. CASE ~ (i <= n)
    <3>1. i - n \in 1..m /\ n + (i - n) - 1 = i - 1
      BY <1>1, <2>2 DEF n
    <3>2. PICK s \in KnownIn(g) : s.op = NodeOf(e, file, n, i - n)
      BY <1>3, <3>1
    <3>3. s.op.type = "AddNode" /\ s.op.id = <<e, n + (i - n) - 1>>
      BY <3>2 DEF NodeOf
    <3> QED
      BY <3>1, <3>3 DEF Adds
  <2> QED
    BY <2>1, <2>2
<1>5. Numbered(e, g)
  BY <1>4 DEF Numbered, n, m
<1> QED
  BY <1>3, <1>5 DEF m, n

FileKeys(e, file, n) == {KeyOf(e, file, n, j) : j \in 1..Len(file.edges)}

\* The edges that e gets are those of the file.
GrownBy(e, f, g, keys) ==
  /\ OwnKeys(e, g) = OwnKeys(e, f) \cup keys
  /\ \A s \in KnownIn(g) \ KnownIn(f) : s.op.type = "AddEdge" => s.op.key \in keys

LEMMA KeysGrow ==
  ASSUME NEW e \in Replica, NEW f, EngineOK(f), NEW g, EngineOK(g),
         NEW file \in File, HasAdapter(file), NEW n \in Nat,
         Learns(e, Ingested(e, file, n), Len(file.nodes) + Len(file.edges),
                KnownIn(f), KnownIn(g))
  PROVE  GrownBy(e, f, g, FileKeys(e, file, n))
<1> DEFINE m == Len(file.nodes)
           k == Len(file.edges)
           ops == Ingested(e, file, n)
<1>1. /\ m \in Nat \ {0} /\ k \in Nat
      /\ \A i \in 1..m : ops[i] = NodeOf(e, file, n, i)
      /\ \A i \in 1..k : ops[m + i] = AddEdge(KeyOf(e, file, n, i), 1)
      /\ \A i \in 1..(m + k) : i \in 1..m \/ \E j \in 1..k : i = m + j
  BY IngestedIs
<1>2. /\ KnownIn(f) \subseteq KnownIn(g)
      /\ \A s \in KnownIn(g) \ KnownIn(f) : \E i \in 1..(m + k) : s.op = ops[i]
      /\ \A i \in 1..(m + k) : \E s \in KnownIn(g) : s.op = ops[i]
  BY DEF Learns
<1>3. \A j \in 1..k : KeyOf(e, file, n, j).src[1] = e /\ KeyOf(e, file, n, j).kind # <<"SimilarTo">>
  BY FileEdges DEF KeyOf
<1> HIDE DEF m, k, ops
<1>n. \A i \in 1..m : ops[i].type = "AddNode"
  <2>1. \A i : NodeOf(e, file, n, i).type = "AddNode"
    BY DEF NodeOf
  <2>2. \A i \in 1..m : ops[i] = NodeOf(e, file, n, i)
    BY <1>1
  <2> QED
    BY <2>1, <2>2
<1>a. \A i \in 1..k : ops[m + i].type = "AddEdge" /\ ops[m + i].key = KeyOf(e, file, n, i)
  <2>1. \A key : AddEdge(key, 1).type = "AddEdge" /\ AddEdge(key, 1).key = key
    BY DEF AddEdge
  <2>2. \A i \in 1..k : ops[m + i] = AddEdge(KeyOf(e, file, n, i), 1)
    BY <1>1
  <2> QED
    BY <2>1, <2>2
<1>i. \A i \in 1..(m + k) : i \in 1..m \/ \E j \in 1..k : i = m + j
  BY <1>1
<1>4. ASSUME NEW s \in KnownIn(g) \ KnownIn(f), s.op.type = "AddEdge"
      PROVE  \E j \in 1..k : s.op.key = KeyOf(e, file, n, j)
  <2>1. PICK i \in 1..(m + k) : s.op = ops[i]
    BY <1>2
  <2>2. i \notin 1..m
    BY <1>n, <1>4, <2>1, Zenon
  <2>3. PICK j \in 1..k : i = m + j
    BY <1>i, <2>2, Zenon
  <2> QED
    BY <1>a, <2>1, <2>3, Zenon
<1>5. ASSUME NEW j \in 1..k
      PROVE  \E s \in KnownIn(g) : s.op.type = "AddEdge" /\ s.op.key = KeyOf(e, file, n, j)
  <2>1. m + j \in 1..(m + k)
    BY <1>1
  <2> QED
    BY <1>2, <1>a, <2>1, Zenon
<1>6. /\ DOMAIN EdgesOf(f.view) = {s.op.key : s \in {x \in KnownIn(f) : x.op.type = "AddEdge"}}
      /\ DOMAIN EdgesOf(g.view) = {s.op.key : s \in {x \in KnownIn(g) : x.op.type = "AddEdge"}}
  BY EdgesAre
<1>7. ASSUME NEW x \in OwnKeys(e, g)
      PROVE  x \in OwnKeys(e, f) \/ \E j \in 1..k : x = KeyOf(e, file, n, j)
  <2>1. PICK s \in KnownIn(g) : s.op.type = "AddEdge" /\ s.op.key = x
    BY <1>6 DEF OwnKeys
  <2>2. CASE s \in KnownIn(f)
    BY <1>6, <2>1, <2>2 DEF OwnKeys
  <2>3. CASE s \notin KnownIn(f)
    BY <1>4, <2>1, <2>3
  <2> QED
    BY <2>2, <2>3
<1>8. ASSUME NEW x \in OwnKeys(e, f)
      PROVE  x \in OwnKeys(e, g)
  BY <1>2, <1>6 DEF OwnKeys
<1>9. ASSUME NEW j \in 1..k
      PROVE  KeyOf(e, file, n, j) \in OwnKeys(e, g)
  BY <1>3, <1>5, <1>6 DEF OwnKeys
<1>10. FileKeys(e, file, n) = {KeyOf(e, file, n, j) : j \in 1..k}
  BY DEF FileKeys, k
<1>11. OwnKeys(e, g) = OwnKeys(e, f) \cup FileKeys(e, file, n)
  BY <1>7, <1>8, <1>9, <1>10
<1> QED
  BY <1>4, <1>10, <1>11 DEF GrownBy

\* The edges of a tree where the next node would get the number n.
LEMMA OwnEdgesBehind ==
  ASSUME NEW e \in Replica, NEW f, EngineOK(f), NEW nx,
         \A s \in KnownIn(f) : Inside(s, nx), nx[e] \in Nat
  PROVE  \A x \in TreeEdges(e, f) : x.src \in 1..nx[e] /\ x.dst \in 1..nx[e]
<1> SUFFICES ASSUME NEW k \in OwnKeys(e, f)
             PROVE  TreeEdge(k).src \in 1..nx[e] /\ TreeEdge(k).dst \in 1..nx[e]
  BY DEF TreeEdges
<1>1. PICK s \in KnownIn(f) : s.op.type = "AddEdge" /\ s.op.key = k
  <2>1. k \in DOMAIN EdgesOf(f.view)
    BY DEF OwnKeys
  <2>2. DOMAIN EdgesOf(f.view) = {s.op.key : s \in {x \in KnownIn(f) : x.op.type = "AddEdge"}}
    BY EdgesAre
  <2> QED
    BY <2>1, <2>2
<1>2. k.src[1] = e /\ k.kind # <<"SimilarTo">>
  BY DEF OwnKeys
<1>3. k.src[2] < nx[e] /\ k.dst[2] < nx[e]
  BY <1>1, <1>2 DEF Inside
<1>4. k.src[2] \in Nat /\ k.dst[2] \in Nat
  <2>1. s \in StampedOp
    BY KnownType
  <2>2. k \in EdgeKey
    BY <1>1, <2>1 DEF StampedOp, Operation
  <2> QED
    BY <2>2, KeyAssumption
<1>5. k.src[2] + 1 \in 1..nx[e] /\ k.dst[2] + 1 \in 1..nx[e]
  BY <1>3, <1>4
<1> QED
  BY <1>5 DEF TreeEdge

\* What a file makes of nodes and edges is moved behind what is there.
Moved(n, x) == [src |-> n + x.src, dst |-> n + x.dst, kind |-> x.kind[1]]
MovedAll(n, D) == {Moved(n, x) : x \in D}
Shift(n, P) == {n + p : p \in P}

\* The edges in D join nodes up to m.
Joins(D, m) == \A x \in D : x.src \in 1..m /\ x.dst \in 1..m

LEMMA Moves ==
  ASSUME NEW n \in Nat, NEW m \in Nat
  PROVE  /\ \A x \in 1..m : n + x \in (n + 1)..(n + m)
         /\ \A i \in (n + 1)..(n + m) : i - n \in 1..m /\ n + (i - n) = i
         /\ \A x \in 1..m, y \in 1..m : n + x = n + y => x = y
         /\ \A x \in 1..n, y \in 1..m : x # n + y
OBVIOUS

\* The parents in a set of edges of the forest, and in one of a file.
ParentIn(E, i) == {x.src : x \in {y \in E : y.dst = i /\ y.kind = "Contains"}}
ParentsOf(D, i) == {x.src : x \in {y \in D : y.dst = i /\ y.kind[1] = "Contains"}}

AllMoved(n, m, D, E) == \A i \in 1..m : ParentIn(E, n + i) = Shift(n, ParentsOf(D, i))

LEMMA ParentsMoved ==
  ASSUME NEW n \in Nat, NEW m \in Nat, NEW D, NEW E, NEW E2,
         Joins(D, m), Joins(E, n), E2 = E \cup MovedAll(n, D)
  PROVE  AllMoved(n, m, D, E2)
<1> SUFFICES ASSUME NEW i \in 1..m PROVE ParentIn(E2, n + i) = Shift(n, ParentsOf(D, i))
  BY DEF AllMoved
<1>0. /\ E2 = E \cup {Moved(n, x) : x \in D}
      /\ \A x \in D : x.src \in 1..m /\ x.dst \in 1..m
      /\ \A x \in E : x.dst \in 1..n
  BY DEF MovedAll, Joins
<1>1. \A x \in D : /\ Moved(n, x).src = n + x.src /\ Moved(n, x).dst = n + x.dst
                   /\ Moved(n, x).kind = x.kind[1]
  BY DEF Moved
<1>2. \A x \in D : Moved(n, x).dst = n + i <=> x.dst = i
  BY <1>0, <1>1, Moves
<1>3. \A x \in E : x.dst # n + i
  BY <1>0, Moves
<1>4. ASSUME NEW v \in ParentIn(E2, n + i)
      PROVE  v \in {n + p : p \in ParentsOf(D, i)}
  <2>1. PICK y \in E \cup {Moved(n, x) : x \in D} : y.dst = n + i /\ y.kind = "Contains" /\ v = y.src
    BY <1>0 DEF ParentIn
  <2>2. PICK x \in D : y = Moved(n, x)
    BY <1>3, <2>1
  <2>3. x.dst = i /\ x.kind[1] = "Contains" /\ v = n + x.src
    BY <1>1, <1>2, <2>1, <2>2
  <2> QED
    BY <2>3 DEF ParentsOf
<1>5. ASSUME NEW p \in ParentsOf(D, i)
      PROVE  n + p \in ParentIn(E2, n + i)
  <2>1. PICK x \in D : x.dst = i /\ x.kind[1] = "Contains" /\ p = x.src
    BY DEF ParentsOf
  <2>2. /\ Moved(n, x).dst = n + i /\ Moved(n, x).kind = "Contains"
        /\ Moved(n, x).src = n + p
    BY <1>1, <2>1
  <2> HIDE DEF Moved
  <2>3. Moved(n, x) \in E \cup {Moved(n, z) : z \in D}
    OBVIOUS
  <2> QED
    BY <1>0, <2>2, <2>3 DEF ParentIn
<1>6. ParentIn(E2, n + i) = {n + p : p \in ParentsOf(D, i)}
  BY <1>0, <1>4, <1>5
<1> QED
  BY <1>6 DEF Shift

\* Ingest of Adapter, as a relation.
OneMore(nodes, edges, nodes2, edges2, tree) ==
  LET root == Len(nodes) + 1
      new  == root..Len(nodes2)
  IN  /\ Len(nodes2) > Len(nodes)
      /\ SubSeq(nodes2, 1, Len(nodes)) = nodes
      /\ \A i \in new : nodes2[i] = tree
      /\ edges \subseteq edges2
      /\ \A x \in edges2 \ edges : x.src \in new /\ x.dst \in new
      /\ ParentIn(edges2, root) = {}
      /\ \A i \in new \ {root} : \E p \in root..(i - 1) : ParentIn(edges2, i) = {p}

LEMMA OneMoreTree ==
  ASSUME NEW file \in File, HasAdapter(file), NEW n \in Nat, NEW m, m = Len(file.nodes),
         NEW T, NEW nodes \in [1..n -> T], NEW nodes2 \in [1..(n + m) -> T],
         NEW edges, NEW edges2,
         \A i \in 1..n : nodes2[i] = nodes[i],
         \A i \in 1..m : nodes2[n + i] = file.tree,
         Joins(edges, n), edges2 = edges \cup MovedAll(n, Range(file.edges))
  PROVE  OneMore(nodes, edges, nodes2, edges2, file.tree)
<1> DEFINE D == Range(file.edges)
<1>1. /\ Joins(D, m)
      /\ ParentsOf(D, 1) = {}
      /\ \A i \in 2..m : \E p \in 1..(i - 1) : ParentsOf(D, i) = {p}
  <2>1. /\ \A x \in D : {x.src, x.dst} \subseteq 1..m
        /\ IsTree(file)
    BY FileAssumption
  <2> QED
    BY <2>1 DEF IsTree, ParentsOf, Joins
<1>2. m \in Nat \ {0}
  <2>1. file.nodes \in Seq(Range(file.nodes)) \ {<<>>}
    BY FileAssumption
  <2> QED
    BY <2>1
<1>3. edges2 = edges \cup MovedAll(n, D)
  OBVIOUS
<1> HIDE DEF D
<1>4. \A i \in 1..m : ParentIn(edges2, n + i) = Shift(n, ParentsOf(D, i))
  <2>1. m \in Nat /\ Joins(D, m) /\ Joins(edges, n)
    BY <1>1, <1>2
  <2>2. AllMoved(n, m, D, edges2)
    BY <1>3, <2>1, ParentsMoved
  <2> QED
    BY <2>2 DEF AllMoved
<1>5. ParentIn(edges2, n + 1) = {}
  <2>1. 1 \in 1..m
    BY <1>2
  <2> QED
    BY <1>1, <1>4, <2>1 DEF Shift
<1>6. ASSUME NEW i \in ((n + 1)..(n + m)) \ {n + 1}
      PROVE  \E p \in (n + 1)..(i - 1) : ParentIn(edges2, i) = {p}
  <2> DEFINE j == i - n
  <2>1. j \in 2..m /\ j \in 1..m /\ n + j = i
    BY <1>2
  <2> HIDE DEF j
  <2>2. PICK p \in 1..(j - 1) : ParentsOf(D, j) = {p}
    BY <1>1, <2>1
  <2>3. n + p \in (n + 1)..(i - 1)
    BY <1>2, <2>1
  <2>4. ParentIn(edges2, i) = {n + p}
    BY <1>4, <2>1, <2>2 DEF Shift
  <2> QED
    BY <2>3, <2>4
<1>7. Len(nodes) = n /\ Len(nodes2) = n + m /\ nodes \in Seq(T) /\ nodes2 \in Seq(T)
  BY <1>2
<1>8. SubSeq(nodes2, 1, n) = nodes
  BY <1>2, <1>7
<1>9. \A i \in (n + 1)..(n + m) : nodes2[i] = file.tree
  <2> SUFFICES ASSUME NEW i \in (n + 1)..(n + m) PROVE nodes2[i] = file.tree
    OBVIOUS
  <2>1. i - n \in 1..m /\ n + (i - n) = i
    BY <1>2
  <2>2. nodes2[n + (i - n)] = file.tree
    BY <2>1
  <2> QED
    BY <2>1, <2>2
<1>10. \A x \in edges2 \ edges : x.src \in (n + 1)..(n + m) /\ x.dst \in (n + 1)..(n + m)
  <2> SUFFICES ASSUME NEW x \in D
               PROVE  /\ Moved(n, x).src \in (n + 1)..(n + m)
                      /\ Moved(n, x).dst \in (n + 1)..(n + m)
    BY <1>3 DEF MovedAll
  <2> QED
    BY <1>1, <1>2, Moves DEF Moved, Joins
<1>11. edges \subseteq edges2 /\ n + m > n
  BY <1>2, <1>3
<1>12. \A i \in (n + 1)..(n + m) : i # n + 1 => \E p \in (n + 1)..(i - 1) : ParentIn(edges2, i) = {p}
  BY <1>6
<1> QED
  BY <1>5, <1>7, <1>8, <1>9, <1>10, <1>11, <1>12 DEF OneMore

\* Ingesting a file adds its tree to those of e.
LEMMA TreeGrows ==
  ASSUME NEW e \in Replica, NEW f, EngineOK(f), NEW g, EngineOK(g),
         NEW file \in File, HasAdapter(file),
         f.next_local_id \in Nat, g.next_local_id = f.next_local_id + Len(file.nodes),
         Learns(e, Ingested(e, file, f.next_local_id), Len(file.nodes) + Len(file.edges),
                KnownIn(f), KnownIn(g)),
         Numbered(e, f),
         NEW nx, \A s \in KnownIn(f) : Inside(s, nx), nx[e] = f.next_local_id
  PROVE  OneMore(TreeNodes(e, f), TreeEdges(e, f), TreeNodes(e, g), TreeEdges(e, g), file.tree)
<1> DEFINE n == f.next_local_id
           m == Len(file.nodes)
           nodes == TreeNodes(e, f)
           nodes2 == TreeNodes(e, g)
           edges == TreeEdges(e, f)
           edges2 == TreeEdges(e, g)
           T == {nodes[i] : i \in 1..n} \cup {nodes2[i] : i \in 1..(n + m)}
<1>1. n \in Nat /\ m \in Nat \ {0}
  BY IngestedIs
<1>2. /\ nodes = [i \in 1..n |-> f.view.node_payload[<<e, i - 1>>].label.tree]
      /\ nodes2 = [i \in 1..(n + m) |-> g.view.node_payload[<<e, i - 1>>].label.tree]
  BY DEF TreeNodes
<1>3. KnownIn(f) \subseteq KnownIn(g)
  BY DEF Learns
<1>4. ASSUME NEW i \in 1..n
      PROVE  nodes2[i] = nodes[i]
  <2> DEFINE id == <<e, i - 1>>
  <2>1. PICK s \in KnownIn(f) : Adds(s, id)
    BY DEF Numbered
  <2>2. nodes[i] = f.view.node_payload[id].label.tree /\ nodes2[i] = g.view.node_payload[id].label.tree
    <3>1. i \in 1..(n + m)
      BY <1>1
    <3> HIDE DEF nodes, nodes2, n, m
    <3> QED
      BY <1>2, <3>1
  <2> HIDE DEF id
  <2>3. f.view.node_payload[id].label = s.op.payload.label
    BY <2>1, LabelIs
  <2>4. g.view.node_payload[id].label = s.op.payload.label
    BY <1>3, <2>1, LabelIs
  <2> HIDE DEF nodes, nodes2, n, m
  <2> QED
    BY <2>2, <2>3, <2>4
<1>5. ASSUME NEW i \in 1..m
      PROVE  nodes2[n + i] = file.tree
  <2> DEFINE id == <<e, n + i - 1>>
  <2>1. PICK s \in KnownIn(g) : s.op = NodeOf(e, file, n, i)
    BY NumbersGoOn
  <2>2. nodes2[n + i] = g.view.node_payload[id].label.tree
    <3>1. n + i \in 1..(n + m)
      BY <1>1
    <3> DEFINE j == n + i
    <3> HIDE DEF nodes, nodes2, n, m, j
    <3>2. nodes2[j] = g.view.node_payload[<<e, j - 1>>].label.tree
      BY <1>2, <3>1 DEF j
    <3>3. j - 1 = n + i - 1
      BY <1>1 DEF j
    <3> QED
      BY <3>2, <3>3 DEF j
  <2>3. s.op.payload.label.tree = file.tree /\ s.op.type = "AddNode" /\ s.op.id = id
    BY <2>1 DEF NodeOf
  <2> HIDE DEF id, n
  <2>4. g.view.node_payload[id].label = s.op.payload.label
    BY <2>3, LabelIs DEF Adds
  <2> HIDE DEF nodes2, m
  <2> QED
    BY <2>2, <2>3, <2>4
<1>6. Joins(edges, n)
  BY OwnEdgesBehind DEF Joins
<1>7. edges2 = edges \cup MovedAll(n, Range(file.edges))
  <2> DEFINE k == Len(file.edges)
             keys == FileKeys(e, file, n)
  <2>1. OwnKeys(e, g) = OwnKeys(e, f) \cup keys
    <3>1. /\ n \in Nat
          /\ Learns(e, Ingested(e, file, n), Len(file.nodes) + Len(file.edges),
                    KnownIn(f), KnownIn(g))
      OBVIOUS
    <3> HIDE DEF n
    <3>2. GrownBy(e, f, g, FileKeys(e, file, n))
      BY <3>1, KeysGrow
    <3> QED
      BY <3>2 DEF GrownBy
  <2>2. edges2 = edges \cup {TreeEdge(x) : x \in keys}
    <3> HIDE DEF keys
    <3> QED
      BY <2>1 DEF TreeEdges
  <2>3. ASSUME NEW j \in 1..k
        PROVE  TreeEdge(KeyOf(e, file, n, j)) = Moved(n, file.edges[j])
    <3> DEFINE x == file.edges[j]
    <3>1. x.src \in Nat /\ x.dst \in Nat
      BY FileEdges
    <3> HIDE DEF x
    <3>2. n + x.src - 1 + 1 = n + x.src /\ n + x.dst - 1 + 1 = n + x.dst
      BY <1>1, <3>1
    <3> HIDE DEF n
    <3> QED
      BY <3>2 DEF TreeEdge, KeyOf, Moved, x
  <2>4. MovedAll(n, Range(file.edges)) = {Moved(n, file.edges[j]) : j \in 1..k}
    <3>1. Range(file.edges) = {file.edges[j] : j \in 1..k}
      BY FileEdges
    <3> HIDE DEF n
    <3> QED
      BY <3>1 DEF MovedAll
  <2> HIDE DEF n, edges, edges2
  <2>5. {TreeEdge(x) : x \in keys} = {Moved(n, file.edges[j]) : j \in 1..k}
    BY <2>3 DEF FileKeys
  <2> QED
    BY <2>2, <2>4, <2>5
<1>8. nodes \in [1..n -> T] /\ nodes2 \in [1..(n + m) -> T]
  BY <1>2
<1> HIDE DEF n, m, nodes, nodes2, edges, edges2, T
<1>9. m = Len(file.nodes)
  BY DEF m
<1>10. OneMore(nodes, edges, nodes2, edges2, file.tree)
  BY <1>1, <1>4, <1>5, <1>6, <1>7, <1>8, <1>9, OneMoreTree
<1> QED
  BY <1>10 DEF nodes, nodes2, edges, edges2

\* What e comes to know leaves all edges inside, when it makes no tree ...
AllInside(k, nx) == \A s \in k : Inside(s, nx)

LEMMA RestInside ==
  ASSUME NEW e \in Replica, NEW f, EngineOK(f), NEW g, NEW nx, NEW ny, NEW o,
         AllInside(KnownIn(f), ny), AllInside(o, ny), Quiet(e, KnownIn(f), KnownIn(g), o)
  PROVE  AllInside(KnownIn(g), ny)
<1> SUFFICES ASSUME NEW s \in KnownIn(g) \ KnownIn(f) PROVE Inside(s, ny)
  BY DEF AllInside
<1>1. CASE s.tag.replica = e
  BY <1>1 DEF Quiet, LeavesTrees, Inside
<1>2. CASE s.tag.replica # e
  BY <1>2 DEF Quiet, AllInside
<1> QED
  BY <1>1, <1>2

\* ... and when it ingests a file.
LEMMA PlantInside ==
  ASSUME NEW e \in Replica, NEW f, EngineOK(f), NEW g, EngineOK(g),
         NEW file \in File, HasAdapter(file), NEW n \in Nat,
         Learns(e, Ingested(e, file, n), Len(file.nodes) + Len(file.edges),
                KnownIn(f), KnownIn(g)),
         NEW ny, AllInside(KnownIn(f), ny), ny[e] = n + Len(file.nodes)
  PROVE  AllInside(KnownIn(g), ny)
<1> SUFFICES ASSUME NEW s \in KnownIn(g) \ KnownIn(f), s.op.type = "AddEdge"
             PROVE  Inside(s, ny)
  BY DEF AllInside, Inside
<1>1. s.tag.replica = e
  BY DEF Learns
<1>2. GrownBy(e, f, g, FileKeys(e, file, n))
  BY KeysGrow
<1>3. PICK j \in 1..Len(file.edges) : s.op.key = KeyOf(e, file, n, j)
  BY <1>2 DEF GrownBy, FileKeys
<1> DEFINE x == file.edges[j]
           m == Len(file.nodes)
<1>4. x.src \in 1..m /\ x.dst \in 1..m
  BY FileEdges
<1>5. m \in Nat
  BY IngestedIs
<1> HIDE DEF x, m
<1>6. n + x.src - 1 < n + m /\ n + x.dst - 1 < n + m
  BY <1>4, <1>5
<1>7. /\ s.op.key.src[1] = e /\ s.op.key.dst[1] = e
      /\ s.op.key.src[2] = n + x.src - 1 /\ s.op.key.dst[2] = n + x.dst - 1
  BY <1>3 DEF KeyOf, x
<1>8. ny[e] = n + m
  BY DEF m
<1> QED
  BY <1>1, <1>6, <1>7, <1>8 DEF Inside

\* Each engine knows a node for each number it has given, and the edges of its
\* trees join those nodes: what Ingest builds on.
Counters == [a \in Replica |-> forest[a].next_local_id]
Planted ==
  \A a \in Replica : Numbered(a, forest[a]) /\ AllInside(KnownIn(forest[a]), Counters)

LEMMA PlantedInit == Init => Planted
<1> SUFFICES ASSUME Init, NEW a \in Replica
             PROVE  Numbered(a, forest[a]) /\ AllInside(KnownIn(forest[a]), Counters)
  BY DEF Planted
<1>1. forest[a].next_local_id = 0 /\ forest[a].log = <<>>
  BY DEF Init, NewForest
<1>2. KnownIn(forest[a]) = {}
  BY <1>1 DEF KnownIn
<1> QED
  BY <1>1, <1>2 DEF Numbered, AllInside

\* A request makes a tree or leaves the trees alone.
Serves(e) ==
  /\ Resting(e) \/ \E file \in File : Planting(e, file)
  /\ \A a \in Replica : a # e => forest'[a] = forest[a]

LEMMA NextServes ==
  ASSUME Inv, Next
  PROVE  \E e \in Replica : Serves(e)
<1>1. ASSUME NEW e \in Replica, NEW file \in File, Ingest(e, file) PROVE Serves(e)
  BY <1>1, IngestInv DEF Serves
<1>2. ASSUME NEW e \in Replica, NEW dims \in Dims, NEW threshold \in Threshold,
             Scan(e, dims, threshold)
      PROVE  Serves(e)
  BY <1>2, ScanInv DEF Serves
<1>3. ASSUME NEW e \in Replica, NEW key \in ReportKey[e], NEW event \in Event,
             Report(e, key, event)
      PROVE  Serves(e)
  BY <1>3, ReportInv DEF Serves
<1>4. ASSUME NEW e \in Replica, NEW to \in Replica \ {e}, NEW delta, Exchange(e, to, delta)
      PROVE  Serves(to)
  BY <1>4, ExchangeInv DEF Serves
<1> QED
  BY <1>1, <1>2, <1>3, <1>4 DEF Next

\* What the engines have counted before and after a request.
LEMMA CountersGrow ==
  ASSUME Inv, Inv', NEW e \in Replica, Serves(e)
  PROVE  /\ Counters \in [Replica -> Nat] /\ Counters' \in [Replica -> Nat]
         /\ \A a \in Replica : Counters[a] <= Counters'[a]
         /\ \A a \in Replica : Counters[a] = forest[a].next_local_id
         /\ \A a \in Replica : Counters'[a] = forest'[a].next_local_id
         /\ \A a \in Replica : EngineOK(forest[a]) /\ EngineOK(forest'[a])
         /\ \A a \in Replica : forest[a].next_local_id \in Nat
<1>1. \A a \in Replica : EngineOK(forest[a]) /\ EngineOK(forest'[a])
  BY DEF Inv, Group
<1>2. \A a \in Replica : forest[a].next_local_id \in Nat /\ forest'[a].next_local_id \in Nat
  BY <1>1 DEF EngineOK, EngineState
<1>3. \A a \in Replica : forest[a].next_local_id <= forest'[a].next_local_id
  <2>1. forest[e].next_local_id <= forest'[e].next_local_id
    <3>1. CASE Resting(e)
      BY <1>2, <3>1 DEF Resting
    <3>2. ASSUME NEW file \in File, Planting(e, file)
          PROVE  forest[e].next_local_id <= forest'[e].next_local_id
      <4>1. /\ forest'[e].next_local_id = forest[e].next_local_id + Len(file.nodes)
            /\ Len(file.nodes) \in Nat
        BY <3>2 DEF Planting
      <4> QED
        BY <1>2, <4>1
    <3> QED
      BY <3>1, <3>2 DEF Serves
  <2>2. \A a \in Replica : a # e => forest'[a] = forest[a]
    BY DEF Serves
  <2> QED
    BY <1>2, <2>1, <2>2
<1> QED
  BY <1>1, <1>2, <1>3 DEF Counters

LEMMA PlantedStep ==
  ASSUME Inv, Inv', Planted, NEW e \in Replica, Serves(e)
  PROVE  Planted'
<1> DEFINE ny == Counters'
<1>1. /\ Counters \in [Replica -> Nat] /\ ny \in [Replica -> Nat]
      /\ \A a \in Replica : Counters[a] <= ny[a]
      /\ \A a \in Replica : ny[a] = forest'[a].next_local_id
      /\ \A a \in Replica : EngineOK(forest[a]) /\ EngineOK(forest'[a])
      /\ \A a \in Replica : forest[a].next_local_id \in Nat
  BY CountersGrow
<1>2. \A a \in Replica : a # e => forest'[a] = forest[a]
  BY DEF Serves
<1> HIDE DEF ny
<1>3. \A a \in Replica : AllInside(KnownIn(forest[a]), ny)
  <2> SUFFICES ASSUME NEW a \in Replica, NEW s \in KnownIn(forest[a]) PROVE Inside(s, ny)
    BY DEF AllInside
  <2>1. s \in StampedOp
    BY <1>1, KnownType
  <2>2. Inside(s, Counters)
    BY DEF Planted, AllInside
  <2> QED
    BY <1>1, <2>1, <2>2, InsideMore
<1>4. AllInside(KnownIn(forest'[e]), ny) /\ Numbered(e, forest'[e])
  <2> DEFINE f == forest[e]
             g == forest'[e]
  <2>1. EngineOK(f) /\ EngineOK(g) /\ AllInside(KnownIn(f), ny) /\ Numbered(e, f)
    BY <1>1, <1>3 DEF Planted
  <2>2. CASE Resting(e)
    <3>1. PICK a \in Replica : Quiet(e, KnownIn(f), KnownIn(g), KnownIn(forest[a]))
      BY <2>2 DEF Resting
    <3>2. g.next_local_id = f.next_local_id
      BY <2>2 DEF Resting
    <3>3. AllInside(KnownIn(forest[a]), ny)
      BY <1>3
    <3> HIDE DEF f, g
    <3>4. AllInside(KnownIn(g), ny)
      BY <2>1, <3>1, <3>3, RestInside
    <3>5. Numbered(e, g)
      BY <2>1, <3>1, <3>2 DEF Numbered, Quiet
    <3> QED
      BY <3>4, <3>5 DEF g
  <2>3. ASSUME NEW file \in File, Planting(e, file)
        PROVE  AllInside(KnownIn(g), ny) /\ Numbered(e, g)
    <3> DEFINE n == f.next_local_id
    <3>1. /\ HasAdapter(file) /\ g.next_local_id = n + Len(file.nodes)
          /\ Learns(e, Ingested(e, file, n), Len(file.nodes) + Len(file.edges),
                    KnownIn(f), KnownIn(g))
      BY <2>3 DEF Planting
    <3>2. n \in Nat /\ ny[e] = n + Len(file.nodes)
      BY <1>1, <3>1
    <3>3. Numbered(e, g)
      BY <2>1, <3>1, <3>2, NumbersGoOn
    <3> HIDE DEF f, g, n
    <3>4. AllInside(KnownIn(g), ny)
      BY <2>1, <3>1, <3>2, PlantInside
    <3> QED
      BY <3>3, <3>4
  <2> HIDE DEF f, g
  <2> QED
    BY <2>2, <2>3 DEF Serves, g
<1>5. \A a \in Replica : Numbered(a, forest'[a]) /\ AllInside(KnownIn(forest'[a]), ny)
  <2> SUFFICES ASSUME NEW a \in Replica
               PROVE  Numbered(a, forest'[a]) /\ AllInside(KnownIn(forest'[a]), ny)
    OBVIOUS
  <2>1. CASE a = e
    BY <1>4, <2>1
  <2>2. CASE a # e
    BY <1>2, <1>3, <2>2 DEF Planted
  <2> QED
    BY <2>1, <2>2
<1>6. Planted' = \A a \in Replica : Numbered(a, forest'[a]) /\ AllInside(KnownIn(forest'[a]), ny)
  BY DEF Planted, ny, Numbered, AllInside, KnownIn
<1> QED
  BY <1>5, <1>6

\* A step of the engines is a step of the trees of each.
LEMMA TreesStep ==
  ASSUME Inv, Inv', Planted, [Next]_vars
  PROVE  \A e \in Replica : [A(e)!Next]_(A(e)!vars)
<1>1. ASSUME NEW e \in Replica,
             TreeNodes(e, forest'[e]) = TreeNodes(e, forest[e]),
             TreeEdges(e, forest'[e]) = TreeEdges(e, forest[e])
      PROVE  UNCHANGED A(e)!vars
  BY <1>1, SMTT(30) DEF A!vars, TreeNodes, TreeEdges, TreeEdge, OwnKeys
<1>2. ASSUME NEW e \in Replica, NEW file \in File,
             OneMore(TreeNodes(e, forest[e]), TreeEdges(e, forest[e]),
                     TreeNodes(e, forest'[e]), TreeEdges(e, forest'[e]), file.tree)
      PROVE  A(e)!Next
  <2>1. A(e)!Ingest(file.tree)
    BY <1>2 DEF A!Ingest, TreeNodes, TreeEdges, TreeEdge, OwnKeys, OneMore, ParentIn
  <2> QED
    BY <2>1 DEF A!Next
<1>3. ASSUME NEW e \in Replica, Serves(e)
      PROVE  [A(e)!Next]_(A(e)!vars)
  <2> DEFINE f == forest[e]
             g == forest'[e]
             nx == Counters
  <2>1. /\ EngineOK(f) /\ EngineOK(g) /\ Numbered(e, f)
        /\ f.next_local_id \in Nat /\ nx[e] = f.next_local_id
    BY <1>3, CountersGrow DEF Planted
  <2>2. \A a \in Replica : \A s \in KnownIn(forest[a]) : Inside(s, nx)
    BY DEF Planted, AllInside
  <2>3. CASE Resting(e)
    <3>1. PICK a \in Replica : Quiet(e, KnownIn(f), KnownIn(g), KnownIn(forest[a]))
      BY <2>3 DEF Resting
    <3>2. g.next_local_id = f.next_local_id
      BY <2>3 DEF Resting
    <3>3. \A s \in KnownIn(forest[a]) : Inside(s, nx)
      BY <2>2
    <3> HIDE DEF f, g, nx
    <3>4. TreeNodes(e, g) = TreeNodes(e, f) /\ TreeEdges(e, g) = TreeEdges(e, f)
      BY <2>1, <3>1, <3>2, <3>3, TreesStay
    <3> QED
      BY <1>1, <3>4 DEF f, g
  <2>4. ASSUME NEW file \in File, Planting(e, file)
        PROVE  A(e)!Next
    <3>1. /\ HasAdapter(file) /\ g.next_local_id = f.next_local_id + Len(file.nodes)
          /\ Learns(e, Ingested(e, file, f.next_local_id), Len(file.nodes) + Len(file.edges),
                    KnownIn(f), KnownIn(g))
      BY <2>4 DEF Planting
    <3>2. \A s \in KnownIn(f) : Inside(s, nx)
      BY <2>2
    <3> HIDE DEF f, g, nx
    <3>3. OneMore(TreeNodes(e, f), TreeEdges(e, f), TreeNodes(e, g), TreeEdges(e, g), file.tree)
      BY <2>1, <3>1, <3>2, TreeGrows
    <3> QED
      BY <1>2, <3>3 DEF f, g
  <2> QED
    BY <1>3, <2>3, <2>4 DEF Serves
<1>4. ASSUME NEW e \in Replica, forest'[e] = forest[e]
      PROVE  UNCHANGED A(e)!vars
  BY <1>1, <1>4
<1>5. CASE Next
  <2>1. PICK e \in Replica : Serves(e)
    BY <1>5, NextServes
  <2>2. [A(e)!Next]_(A(e)!vars)
    BY <1>3, <2>1
  <2>3. ASSUME NEW a \in Replica, a # e
        PROVE  [A(a)!Next]_(A(a)!vars)
    <3>1. forest'[a] = forest[a]
      BY <2>1, <2>3 DEF Serves
    <3>2. UNCHANGED A(a)!vars
      BY <1>4, <3>1
    <3> QED
      BY <3>2
  <2>4. ASSUME NEW a \in Replica
        PROVE  [A(a)!Next]_(A(a)!vars)
    <3>1. CASE a = e
      BY <2>2, <3>1
    <3>2. CASE a # e
      BY <2>3, <3>2
    <3> QED
      BY <3>1, <3>2
  <2> QED
    BY <2>4
<1>6. CASE UNCHANGED vars
  <2> SUFFICES ASSUME NEW e \in Replica PROVE [A(e)!Next]_(A(e)!vars)
    OBVIOUS
  <2>1. forest'[e] = forest[e]
    BY <1>6 DEF vars
  <2>2. UNCHANGED A(e)!vars
    BY <1>4, <2>1
  <2> QED
    BY <2>2
<1> QED
  BY <1>5, <1>6

LEMMA TreesInit == Init => \A e \in Replica : A(e)!Init
<1> SUFFICES ASSUME Init, NEW e \in Replica PROVE A(e)!Init
  OBVIOUS
<1>1. forest[e] = NewForest
  BY DEF Init
<1>2. EngineOK(NewForest) /\ KnownIn(NewForest) = {} /\ NewForest.next_local_id = 0
  <2>1. Inv
    BY InitInv
  <2>2. NewForest.log = <<>> /\ NewForest.next_local_id = 0
    BY DEF NewForest
  <2> QED
    BY <1>1, <2>1, <2>2 DEF Inv, Group, KnownIn
<1>3. DOMAIN EdgesOf(NewForest.view) = {}
  BY <1>2, EdgesAre
<1>4. TreeNodes(e, forest[e]) = <<>>
  BY <1>1, <1>2 DEF TreeNodes
<1>5. TreeEdges(e, forest[e]) = {}
  BY <1>1, <1>3 DEF TreeEdges, OwnKeys
<1> QED
  BY <1>4, <1>5 DEF A!Init, TreeNodes, TreeEdges, TreeEdge, OwnKeys

\* Whatever else an engine is asked for and whatever comes from other hosts, its
\* own operations included, the trees it shows as its own are those of the files
\* it has ingested, each behind the earlier ones and whole from the first step
\* on: every engine implements what trait Adapter promises of ingest.
THEOREM EnginesKeepTrees == Spec => TreesAreKept
<1>1. Init => Inv /\ Planted
  BY InitInv, PlantedInit
<1>2. Inv /\ Planted /\ [Next]_vars => (Inv /\ Planted)'
  <2> SUFFICES ASSUME Inv, Planted, [Next]_vars PROVE (Inv /\ Planted)'
    OBVIOUS
  <2>1. Inv'
    BY NextInv
  <2>2. CASE Next
    <3>1. PICK e \in Replica : Serves(e)
      BY <2>2, NextServes
    <3>2. Planted'
      BY <2>1, <3>1, PlantedStep
    <3> QED
      BY <2>1, <3>2
  <2>3. CASE UNCHANGED vars
    BY <2>1, <2>3 DEF Planted, vars, Counters, Numbered, AllInside
  <2> QED
    BY <2>2, <2>3
<1>3. Inv /\ Inv' /\ Planted /\ [Next]_vars => \A e \in Replica : [A(e)!Next]_(A(e)!vars)
  BY TreesStep
<1> QED
  BY <1>1, <1>2, <1>3, TreesInit, PTL DEF Spec, TreesAreKept

-----------------------------------------------------------------------------
\* What is behind the links.

\* A node that carries text is known, and s is about a link.
HasText(id, ops) ==
  \E t \in ops : Adds(t, id) /\ t.op.payload.label.kind \notin {"Module", "Document"}
IsLink(s) == s.op.type = "AddEdge" /\ s.op.key.kind = <<"SimilarTo">>

\* The way there is added next before the way back, with the same score.
Twins(s, t) ==
  /\ t.op = AddEdge(SimilarTo(s.op.key.dst, s.op.key.src), s.op.initial_weight)
  /\ t.tag.replica = s.tag.replica
  /\ IF Before(s.op.key.src, s.op.key.dst) THEN t.tag.hlc = Later(s.tag.hlc, 1)
     ELSE s.tag.hlc = Later(t.tag.hlc, 1)

\* Nodes come without embeddings, which only nodes with text get, and links are
\* between such nodes and have twins.
Linked1(s, ops) ==
  /\ s.op.type = "AddNode" => s.op.payload.embedding = None
  /\ s.op.type = "SetEmbedding" => HasText(s.op.id, ops)
  /\ IsLink(s) => /\ s.op.key.src # s.op.key.dst
                  /\ HasText(s.op.key.src, ops) /\ HasText(s.op.key.dst, ops)
                  /\ \E t \in ops : Twins(s, t)
Linked(ops) == \A s \in ops : Linked1(s, ops)

\* Who learns more does not lose that.
LEMMA LinkedMore ==
  ASSUME NEW ops, NEW more, ops \subseteq more
  PROVE  /\ \A id : HasText(id, ops) => HasText(id, more)
         /\ \A s : Linked1(s, ops) => Linked1(s, more)
<1>1. \A id : HasText(id, ops) => HasText(id, more)
  BY DEF HasText
<1> QED
  BY <1>1 DEF Linked1

LEMMA LinkedBoth ==
  ASSUME NEW ops, Linked(ops), NEW more, Linked(more)
  PROVE  Linked(ops \cup more)
<1> DEFINE both == ops \cup more
<1>1. ops \subseteq both /\ more \subseteq both /\ \A s \in both : s \in ops \/ s \in more
  OBVIOUS
<1> HIDE DEF both
<1>2. ASSUME NEW s \in both
      PROVE  Linked1(s, both)
  BY <1>1, LinkedMore DEF Linked
<1> QED
  BY <1>2 DEF Linked, both

\* A file has no links, and its nodes no embeddings.
LEMMA PlantLinked ==
  ASSUME Inv, NEW e \in Replica, NEW file \in File, Planting(e, file),
         Linked(KnownIn(forest[e]))
  PROVE  Linked(KnownIn(forest'[e]))
<1> DEFINE k == KnownIn(forest[e])
           k2 == KnownIn(forest'[e])
           n == forest[e].next_local_id
           m == Len(file.nodes)
           j == Len(file.edges)
           ops == Ingested(e, file, n)
<1>1. HasAdapter(file) /\ Learns(e, ops, m + j, k, k2)
  BY DEF Planting
<1>2. n \in Nat
  BY DEF Inv, Group, EngineOK, EngineState
<1>3. \A x \in Range(file.edges) : x.kind # <<"SimilarTo">>
  BY <1>1, FileAssumption DEF IsTree
<1>4. ASSUME NEW i \in 1..(m + j)
      PROVE  \/ ops[i].type = "AddNode" /\ ops[i].payload.embedding = None
             \/ ops[i].type = "AddEdge" /\ ops[i].key.kind # <<"SimilarTo">>
  <2>1. CASE i \in 1..m
    <3>1. ops[i] = NodeOf(e, file, n, i)
      BY <1>1, <1>2, <2>1, IngestedIs
    <3> QED
      BY <3>1 DEF NodeOf
  <2>2. ASSUME NEW x \in 1..j, i = m + x
        PROVE  ops[i].type = "AddEdge" /\ ops[i].key.kind # <<"SimilarTo">>
    <3>1. ops[i] = AddEdge(KeyOf(e, file, n, x), 1)
      BY <1>1, <1>2, <2>2, IngestedIs
    <3>2. file.edges[x] \in Range(file.edges)
      <4>1. file.edges \in Seq(Range(file.edges))
        BY <1>1, FileAssumption
      <4> QED
        BY <4>1 DEF Range
    <3> QED
      BY <1>3, <3>1, <3>2 DEF AddEdge, KeyOf
  <2>3. i \in 1..m \/ \E x \in 1..j : i = m + x
    BY <1>1, <1>2, IngestedIs
  <2> HIDE DEF ops, m, j
  <2> QED
    BY <2>1, <2>2, <2>3
<1> HIDE DEF k, k2, ops, m, j
<1>5. ASSUME NEW s \in k2
      PROVE  Linked1(s, k2)
  <2>1. CASE s \in k
    BY <1>1, <2>1, LinkedMore DEF Linked, Learns, k
  <2>2. CASE s \notin k
    <3>1. PICK i \in 1..(m + j) : s.op = ops[i]
      BY <1>1, <2>2 DEF Learns
    <3> QED
      BY <1>4, <3>1 DEF Linked1, IsLink
  <2> QED
    BY <2>1, <2>2
<1> QED
  BY <1>5 DEF Linked, k2

\* Nodes that a scan embeds carry text, ...
LEMMA TargetsHaveText ==
  ASSUME NEW f, EngineOK(f), NEW id \in Targets(f)
  PROVE  HasText(id, KnownIn(f))
<1>1. id \in DOMAIN NodesOf(f.view) /\ IsEmbeddable(NodesOf(f.view)[id])
  BY DEF Targets
<1>2. PICK t \in KnownIn(f) : Adds(t, id)
  BY <1>1, ShownNodes
<1>3. NodesOf(f.view)[id] = f.view.node_payload[id]
  BY <1>1 DEF NodesOf
<1>4. f.view.node_payload[id].label = t.op.payload.label
  BY <1>2, LabelIs
<1> QED
  BY <1>1, <1>2, <1>3, <1>4 DEF IsEmbeddable, HasText

\* ... and so do those that have an embedding.
LEMMA EmbeddedHaveText ==
  ASSUME NEW f, EngineOK(f), Linked(KnownIn(f)), NEW id \in DOMAIN NodesOf(f.view),
         NodesOf(f.view)[id].embedding # None
  PROVE  HasText(id, KnownIn(f))
<1> DEFINE ops == KnownIn(f)
           v == f.view
<1>1. id \in NodeId
  BY ShownNodes
<1>2. PICK t \in ops : Adds(t, id)
  BY ShownNodes
<1>3. NodesOf(v)[id] = v.node_payload[id]
  BY DEF NodesOf
<1>4. NodeFollows(v, ops, id)
  BY <1>1 DEF EngineOK, ViewFollows
<1>5. t \in OpsOn(ops, "AddNode", id) /\ t.op.payload.embedding = None
  BY <1>2 DEF Adds, OpsOn, Linked, Linked1
<1> HIDE DEF ops, v
<1>6. OpsOn(ops, "SetEmbedding", id) # {}
  <2> SUFFICES ASSUME OpsOn(ops, "SetEmbedding", id) = {} PROVE FALSE
    OBVIOUS
  <2>1. v.node_payload[id] = t.op.payload
    BY <1>4, <1>5, FollowsIs
  <2> QED
    BY <1>3, <1>5, <2>1 DEF v
<1>7. PICK s \in ops : s.op.type = "SetEmbedding" /\ s.op.id = id
  BY <1>6 DEF OpsOn
<1> QED
  BY <1>7 DEF Linked, Linked1, ops

\* The operations of a scan.
LEMMA EmbedOpsAre ==
  ASSUME NEW f, EngineOK(f), NEW dims
  PROVE  \A i \in 1..Len(EmbedOps(f, dims)) :
           /\ EmbedOps(f, dims)[i].type = "SetEmbedding"
           /\ EmbedOps(f, dims)[i].id \in Targets(f)
<1> DEFINE T == Targets(f)
           ids == InOrder(T)
           ops == EmbedOps(f, dims)
<1>1. T \in SUBSET (Nat \X Nat) /\ IsFiniteSet(T)
  <2>1. T \in SUBSET (DOMAIN NodesOf(f.view))
    BY DEF Targets
  <2> HIDE DEF T
  <2> QED
    BY <2>1, ShownNodes, FS_Subset
<1> HIDE DEF T
<1>2. ids \in Seq(T)
  BY <1>1, InOrderIs
<1> HIDE DEF ids
<1>3. Len(ops) = Len(ids) /\ \A i \in 1..Len(ids) : ops[i].type = "SetEmbedding" /\ ops[i].id = ids[i]
  BY <1>2 DEF EmbedOps, ids, T
<1>4. \A i \in 1..Len(ids) : ids[i] \in T
  BY <1>2
<1> HIDE DEF ops
<1> QED
  BY <1>3, <1>4 DEF ops, T

LEMMA LinkOpsAre ==
  ASSUME NEW links, Len(links) \in Nat
  PROVE  /\ \A j \in 1..Len(links) :
              LET l == links[j]
              IN  /\ LinkOps(links)[2 * j - 1] = AddEdge(SimilarTo(l.a, l.b), l.score)
                  /\ LinkOps(links)[2 * j] = AddEdge(SimilarTo(l.b, l.a), l.score)
         /\ \A i \in 1..(2 * Len(links)) : \E j \in 1..Len(links) : i = 2 * j - 1 \/ i = 2 * j
         /\ \A j \in 1..Len(links) : 2 * j - 1 \in 1..(2 * Len(links)) /\ 2 * j \in 1..(2 * Len(links))
<1> DEFINE n == Len(links)
<1>1. n \in Nat
  OBVIOUS
<1>2. \A i \in 1..(2 * n) :
        LinkOps(links)[i] =
          LET l == links[(i + 1) \div 2]
          IN  AddEdge(IF i % 2 = 1 THEN SimilarTo(l.a, l.b) ELSE SimilarTo(l.b, l.a), l.score)
  BY DEF LinkOps
<1> HIDE DEF n
<1>3. ASSUME NEW j \in 1..n
      PROVE  /\ 2 * j - 1 \in 1..(2 * n) /\ 2 * j \in 1..(2 * n)
             /\ ((2 * j - 1) + 1) \div 2 = j /\ (2 * j + 1) \div 2 = j
             /\ (2 * j - 1) % 2 = 1 /\ (2 * j) % 2 = 0
  BY <1>1
<1>4. ASSUME NEW i \in 1..(2 * n)
      PROVE  \E j \in 1..n : i = 2 * j - 1 \/ i = 2 * j
  <2>1. (i + 1) \div 2 \in 1..n /\ (i = 2 * ((i + 1) \div 2) - 1 \/ i = 2 * ((i + 1) \div 2))
    BY <1>1
  <2> QED
    BY <2>1
<1>5. ASSUME NEW j \in 1..n
      PROVE  /\ LinkOps(links)[2 * j - 1] = AddEdge(SimilarTo(links[j].a, links[j].b), links[j].score)
             /\ LinkOps(links)[2 * j] = AddEdge(SimilarTo(links[j].b, links[j].a), links[j].score)
  <2> DEFINE x == 2 * j - 1
             y == 2 * j
  <2>1. /\ x \in 1..(2 * n) /\ (x + 1) \div 2 = j /\ x % 2 = 1
        /\ y \in 1..(2 * n) /\ (y + 1) \div 2 = j /\ y % 2 = 0
    BY <1>3
  <2> HIDE DEF x, y
  <2>2. /\ LinkOps(links)[x] = AddEdge(SimilarTo(links[j].a, links[j].b), links[j].score)
        /\ LinkOps(links)[y] = AddEdge(SimilarTo(links[j].b, links[j].a), links[j].score)
    BY <1>2, <2>1
  <2> QED
    BY <2>2 DEF x, y
<1> QED
  BY <1>3, <1>4, <1>5 DEF n

\* The two operations that one link takes, in what they become.
LEMMA TwinsMade ==
  ASSUME NEW e, NEW last \in Hlc, NEW j \in Nat, NEW a \in NodeId, NEW b \in NodeId, Before(a, b),
         NEW score
  PROVE  LET s == StampOf(e, last, 2 * j - 1, AddEdge(SimilarTo(a, b), score))
             t == StampOf(e, last, 2 * j, AddEdge(SimilarTo(b, a), score))
         IN  Twins(s, t) /\ Twins(t, s)
<1> DEFINE s == StampOf(e, last, 2 * j - 1, AddEdge(SimilarTo(a, b), score))
           t == StampOf(e, last, 2 * j, AddEdge(SimilarTo(b, a), score))
<1>1. /\ s.op = AddEdge(SimilarTo(a, b), score) /\ t.op = AddEdge(SimilarTo(b, a), score)
      /\ s.tag.replica = e /\ t.tag.replica = e
  BY DEF StampOf
<1>2. t.tag.hlc = Later(s.tag.hlc, 1)
  BY DEF StampOf, Later, Hlc
<1>3. ~ Before(b, a)
  <2>1. a[1] \in Nat /\ a[2] \in Nat /\ b[1] \in Nat /\ b[2] \in Nat
    BY ReplicaAssumption, LocalIdAssumption DEF NodeId
  <2> QED
    BY <2>1 DEF Before
<1>4. /\ s.op.key.src = a /\ s.op.key.dst = b /\ s.op.initial_weight = score
      /\ t.op.key.src = b /\ t.op.key.dst = a /\ t.op.initial_weight = score
  BY <1>1 DEF AddEdge, SimilarTo
<1> HIDE DEF s, t
<1>5. Twins(s, t) /\ Twins(t, s)
  BY <1>1, <1>2, <1>3, <1>4 DEF Twins
<1> QED
  BY <1>5 DEF s, t

\* A scan embeds nodes with text and links them in pairs.
LEMMA ScanLinked ==
  ASSUME Inv, NEW e \in Replica, NEW dims, NEW threshold, Scanning(e, dims, threshold),
         Linked(KnownIn(forest[e]))
  PROVE  Linked(KnownIn(forest'[e]))
<1> DEFINE f == forest[e]
           d == EmbedAll(e, f, dims)
           ops == EmbedOps(f, dims)
           n == Len(ops)
           links == ProximityLinks(d, threshold)
           m == Len(links)
           k == KnownIn(f)
           kd == KnownIn(d)
           k2 == KnownIn(forest'[e])
<1>1. /\ EngineOK(d) /\ n \in Nat /\ Makes(e, ops, n, f, d)
      /\ Makes(e, LinkOps(links), 2 * m, d, forest'[e])
  BY DEF Scanning
<1>2. EngineOK(f)
  BY DEF Inv, Group
<1>3. \A i \in 1..n : ops[i].type = "SetEmbedding" /\ ops[i].id \in Targets(f)
  BY <1>2, EmbedOpsAre
<1> HIDE DEF f, d, ops, n
<1>4. Linked(kd)
  <2>1. kd = k \cup {StampOf(e, f.last, i, ops[i]) : i \in 1..n}
    BY <1>1 DEF Makes
  <2>2. k \subseteq kd /\ \A s \in k : Linked1(s, k)
    BY <2>1 DEF Linked, f
  <2>3. ASSUME NEW i \in 1..n
        PROVE  Linked1(StampOf(e, f.last, i, ops[i]), kd)
    <3> DEFINE s == StampOf(e, f.last, i, ops[i])
    <3>1. s.op = ops[i]
      BY DEF StampOf
    <3>2. HasText(ops[i].id, k)
      BY <1>2, <1>3, TargetsHaveText
    <3> HIDE DEF s, k, kd
    <3>3. HasText(ops[i].id, kd)
      BY <2>2, <3>2, LinkedMore
    <3> QED
      BY <1>3, <3>1, <3>3 DEF Linked1, IsLink, s
  <2> HIDE DEF k, kd
  <2>4. ASSUME NEW s \in kd
        PROVE  Linked1(s, kd)
    BY <2>1, <2>2, <2>3, LinkedMore
  <2> QED
    BY <2>4 DEF Linked
<1>5. m \in Nat /\ \A j \in 1..m : /\ links[j].a \in NodeId /\ links[j].b \in NodeId
                                  /\ HasText(links[j].a, kd) /\ HasText(links[j].b, kd)
                                  /\ Before(links[j].a, links[j].b)
  <2>1. m \in Nat
    BY <1>1, LinksType
  <2>2. ASSUME NEW j \in 1..m
        PROVE  /\ links[j].a \in NodeId /\ links[j].b \in NodeId
               /\ links[j].a \in DOMAIN NodesOf(d.view) /\ NodesOf(d.view)[links[j].a].embedding # None
               /\ links[j].b \in DOMAIN NodesOf(d.view) /\ NodesOf(d.view)[links[j].b].embedding # None
               /\ Before(links[j].a, links[j].b)
    BY <1>1, LinksType
  <2> HIDE DEF links, m
  <2> QED
    BY <1>1, <1>4, <2>1, <2>2, EmbeddedHaveText
<1> HIDE DEF links, m
<1>6. k2 = kd \cup {StampOf(e, d.last, i, LinkOps(links)[i]) : i \in 1..(2 * m)}
  BY <1>1 DEF Makes
<1> DEFINE s(j) == StampOf(e, d.last, 2 * j - 1, AddEdge(SimilarTo(links[j].a, links[j].b), links[j].score))
           t(j) == StampOf(e, d.last, 2 * j, AddEdge(SimilarTo(links[j].b, links[j].a), links[j].score))
<1>7. /\ \A x \in k2 : x \in kd \/ \E j \in 1..m : x = s(j) \/ x = t(j)
      /\ \A j \in 1..m : s(j) \in k2 /\ t(j) \in k2
      /\ kd \subseteq k2
  <2>1. /\ \A j \in 1..m : /\ LinkOps(links)[2 * j - 1] = AddEdge(SimilarTo(links[j].a, links[j].b), links[j].score)
                           /\ LinkOps(links)[2 * j] = AddEdge(SimilarTo(links[j].b, links[j].a), links[j].score)
        /\ \A i \in 1..(2 * m) : \E j \in 1..m : i = 2 * j - 1 \/ i = 2 * j
        /\ \A j \in 1..m : 2 * j - 1 \in 1..(2 * m) /\ 2 * j \in 1..(2 * m)
    BY <1>5, LinkOpsAre DEF m
  <2> HIDE DEF k2, kd
  <2> QED
    BY <1>6, <2>1
<1>8. ASSUME NEW j \in 1..m
      PROVE  Linked1(s(j), k2) /\ Linked1(t(j), k2)
  <2> DEFINE a == links[j].a
             b == links[j].b
             x == s(j)
             y == t(j)
  <2>1. d.last \in Hlc /\ j \in Nat /\ a \in NodeId /\ b \in NodeId /\ Before(a, b)
    BY <1>1, <1>5, KnownType
  <2>2. Twins(x, y) /\ Twins(y, x)
    BY <2>1, TwinsMade
  <2>3. /\ x.op.type = "AddEdge" /\ y.op.type = "AddEdge"
        /\ x.op.key.src = a /\ x.op.key.dst = b /\ y.op.key.src = b /\ y.op.key.dst = a
    BY DEF StampOf, AddEdge, SimilarTo
  <2>4. x \in k2 /\ y \in k2
    BY <1>7
  <2> HIDE DEF s, t, x, y, k2, kd
  <2>5. HasText(a, k2) /\ HasText(b, k2)
    BY <1>5, <1>7, LinkedMore
  <2>6. a # b
    <3>1. a[1] \in Nat /\ a[2] \in Nat /\ b[1] \in Nat /\ b[2] \in Nat
      BY <2>1, ReplicaAssumption, LocalIdAssumption DEF NodeId
    <3> QED
      BY <2>1, <3>1 DEF Before
  <2>7. Linked1(x, k2) /\ Linked1(y, k2)
    BY <2>2, <2>3, <2>4, <2>5, <2>6 DEF Linked1
  <2> QED
    BY <2>7 DEF x, y
<1> HIDE DEF s, t, k2, kd
<1>9. ASSUME NEW x \in k2
      PROVE  Linked1(x, k2)
  BY <1>4, <1>7, <1>8, LinkedMore DEF Linked
<1> QED
  BY <1>9 DEF Linked, k2

\* What a request leaves to be handed out is what was there and the new log.
LEMMA DeltasRecorded ==
  ASSUME Inv, Next
  PROVE  \A a \in Replica : deltas'[a] \subseteq deltas[a] \cup {forest'[a].log}
<1>1. ASSUME NEW e \in Replica, NEW f, Request(e, f)
      PROVE  \A a \in Replica : deltas'[a] \subseteq deltas[a] \cup {forest'[a].log}
  <2>1. DOMAIN forest = Replica /\ DOMAIN deltas = Replica
    BY DEF Inv, DeltasOK, Group
  <2>2. forest'[e] = f /\ deltas' = [deltas EXCEPT ![e] = @ \cup {f.log}]
    BY <1>1, <2>1 DEF Request
  <2> QED
    BY <2>1, <2>2
<1>2. ASSUME NEW e \in Replica, NEW file \in File, Ingest(e, file)
      PROVE  \E f : Request(e, f)
  BY <1>2 DEF Ingest
<1>3. ASSUME NEW e \in Replica, NEW dims \in Dims, NEW threshold \in Threshold,
             Scan(e, dims, threshold)
      PROVE  \E f : Request(e, f)
  BY <1>3 DEF Scan
<1>4. ASSUME NEW e \in Replica, NEW key \in ReportKey[e], NEW event \in Event,
             Report(e, key, event)
      PROVE  \E f : Request(e, f)
  BY <1>4 DEF Report
<1>5. ASSUME NEW e \in Replica, NEW to \in Replica \ {e}, NEW delta, Exchange(e, to, delta)
      PROVE  \E f : Request(to, f)
  BY <1>5 DEF Exchange
<1>6. \E e \in Replica : \E f : Request(e, f)
  BY <1>2, <1>3, <1>4, <1>5 DEF Next
<1> QED
  BY <1>1, <1>6

\* Linked engines stay linked, whatever is requested, and so is what they hand out,
\* since no log is handed out in the middle of a scan.
AllLinked ==
  \A e \in Replica : /\ Linked(KnownIn(forest[e]))
                      /\ \A delta \in deltas[e] : Linked(Ops(delta))

LEMMA LinkedInit == Init => AllLinked
<1> SUFFICES ASSUME Init, NEW e \in Replica
             PROVE  Linked(KnownIn(forest[e])) /\ deltas[e] = {}
  BY DEF AllLinked
<1>1. KnownIn(forest[e]) = {} /\ deltas[e] = {}
  BY DEF Init, NewForest, KnownIn
<1> QED
  BY <1>1 DEF Linked

Linking(e) ==
  Linked(KnownIn(forest'[e])) /\ \A a \in Replica : a # e => forest'[a] = forest[a]

LEMMA LinkedStep ==
  ASSUME Inv, AllLinked, [Next]_vars
  PROVE  AllLinked'
<1>1. ASSUME Next, NEW e \in Replica, Linking(e)
      PROVE  AllLinked'
  <2>1. ASSUME NEW a \in Replica
        PROVE  Linked(KnownIn(forest'[a]))
    BY <1>1 DEF AllLinked, Linking
  <2>2. ASSUME NEW a \in Replica, NEW delta \in deltas'[a]
        PROVE  Linked(Ops(delta))
    <3>1. CASE delta \in deltas[a]
      BY <3>1 DEF AllLinked
    <3>2. CASE delta = forest'[a].log
      BY <2>1, <3>2 DEF Ops, KnownIn
    <3> QED
      BY <1>1, <2>2, <3>1, <3>2, DeltasRecorded
  <2> QED
    BY <2>1, <2>2 DEF AllLinked, Linked, Linked1, HasText, KnownIn, Ops
<1>2. \A e \in Replica : Linked(KnownIn(forest[e]))
  BY DEF AllLinked
<1>3. ASSUME NEW e \in Replica, NEW file \in File, Ingest(e, file) PROVE Linking(e)
  <2>1. Planting(e, file) /\ \A a \in Replica : a # e => forest'[a] = forest[a]
    BY <1>3, IngestInv
  <2>2. Linked(KnownIn(forest'[e]))
    BY <1>2, <2>1, PlantLinked
  <2> QED
    BY <2>1, <2>2 DEF Linking
<1>4. ASSUME NEW e \in Replica, NEW dims \in Dims, NEW threshold \in Threshold,
             Scan(e, dims, threshold)
      PROVE  Linking(e)
  <2>1. Scanning(e, dims, threshold) /\ \A a \in Replica : a # e => forest'[a] = forest[a]
    BY <1>4, ScanInv
  <2>2. Linked(KnownIn(forest'[e]))
    BY <1>2, <2>1, ScanLinked
  <2> QED
    BY <2>1, <2>2 DEF Linking
<1>5. ASSUME NEW e \in Replica, NEW key \in ReportKey[e], NEW event \in Event,
             Report(e, key, event)
      PROVE  Linking(e)
  <2>1. Learning(e) /\ \A a \in Replica : a # e => forest'[a] = forest[a]
    BY <1>5, ReportInv
  <2>2. PICK op, s : /\ op.type \in {"Reinforce", "Decay"} /\ s.op = op
                     /\ KnownIn(forest'[e]) = KnownIn(forest[e]) \cup {s}
    BY <2>1 DEF Learning, Learns1
  <2> DEFINE k == KnownIn(forest[e])
             k2 == KnownIn(forest'[e])
  <2>3. k2 = k \cup {s} /\ k \subseteq k2 /\ Linked(k)
    BY <1>2, <2>2
  <2>4. Linked1(s, k2)
    BY <2>2 DEF Linked1, IsLink
  <2> HIDE DEF k, k2
  <2>5. Linked(k2)
    BY <2>3, <2>4, LinkedMore DEF Linked
  <2> QED
    BY <2>1, <2>5 DEF k2, Linking
<1>6. ASSUME NEW e \in Replica, NEW to \in Replica \ {e}, NEW delta, Exchange(e, to, delta)
      PROVE  Linking(to)
  <2>1. Taking(to, delta) /\ \A a \in Replica : a # to => forest'[a] = forest[a]
    BY <1>6, ExchangeInv
  <2>2. Linked(KnownIn(forest'[to]))
    <3>1. Linked(Ops(delta))
      BY <1>6 DEF Exchange, AllLinked
    <3> QED
      BY <1>2, <2>1, <3>1, LinkedBoth DEF Taking
  <2> QED
    BY <2>1, <2>2 DEF Linking
<1>7. CASE UNCHANGED vars
  <2>1. forest' = forest /\ deltas' = deltas
    BY <1>7 DEF vars
  <2> QED
    BY <2>1 DEF AllLinked, Linked, Linked1, HasText, KnownIn, Ops
<1>8. CASE Next
  <2>1. \E e \in Replica : Linking(e)
    BY <1>3, <1>4, <1>5, <1>6, <1>8 DEF Next
  <2> QED
    BY <1>1, <1>8, <2>1
<1> QED
  BY <1>7, <1>8

-----------------------------------------------------------------------------
\* What links weigh.

Added(key, ops) == {s \in ops : s.op.type = "AddEdge" /\ s.op.key = key}
Scores(ops) == [s \in ops |-> s.op.initial_weight]

\* The scores added one way are those added the other way.
LEMMA PairsSum ==
  ASSUME NEW ops \in SUBSET StampedOp, IsFiniteSet(ops), Linked(ops),
         \A s, t \in ops : s.tag = t.tag => s = t,
         NEW a \in NodeId, NEW b \in NodeId, a # b
  PROVE  SumFunctionOnSet(Scores(ops), Added(SimilarTo(b, a), ops))
           = SumFunctionOnSet(Scores(ops), Added(SimilarTo(a, b), ops))
<1> DEFINE P == Added(SimilarTo(a, b), ops)
           Q == Added(SimilarTo(b, a), ops)
           f == Scores(ops)
           m == [s \in P |-> CHOOSE t \in ops : Twins(s, t)]
<1>1. /\ \A s \in P : s \in ops /\ IsLink(s) /\ s.op.key.src = a /\ s.op.key.dst = b
      /\ \A s \in Q : s \in ops /\ IsLink(s) /\ s.op.key.src = b /\ s.op.key.dst = a
  BY DEF Added, SimilarTo, IsLink
<1>2. \A s \in ops : /\ s.tag.hlc \in Hlc /\ s.tag = [replica |-> s.tag.replica, hlc |-> s.tag.hlc]
                     /\ IsLink(s) => s.op.initial_weight \in Int
  <2> SUFFICES ASSUME NEW s \in ops
               PROVE  /\ s.tag.hlc \in Hlc /\ s.tag = [replica |-> s.tag.replica, hlc |-> s.tag.hlc]
                      /\ IsLink(s) => s.op.initial_weight \in Int
    OBVIOUS
  <2>1. s.tag \in Tag /\ s.op \in Operation
    BY DEF StampedOp
  <2>2. IsLink(s) => s.op.initial_weight \in Int
    BY <2>1, WeightAssumption DEF Operation, IsLink
  <2> QED
    BY <2>1, <2>2 DEF Tag
<1>3. \A x, y \in Hlc : Later(x, 1) = Later(y, 1) => x = y
  <2> SUFFICES ASSUME NEW x \in Hlc, NEW y \in Hlc, Later(x, 1) = Later(y, 1) PROVE x = y
    OBVIOUS
  <2>1. x.physical = y.physical /\ x.logical + 2 = y.logical + 2
    BY DEF Later
  <2> QED
    BY <2>1 DEF Hlc
<1>4. Before(a, b) <=> ~ Before(b, a)
  <2>1. NodeId \subseteq Nat \X Nat
    BY ReplicaAssumption, LocalIdAssumption, Zenon DEF NodeId
  <2>2. a \in Nat \X Nat /\ b \in Nat \X Nat
    BY <2>1
  <2> QED
    BY <2>2 DEF Before
<1>5. ASSUME NEW s \in ops, NEW t \in ops, Twins(s, t), IsLink(s),
             (s.op.key.src = a /\ s.op.key.dst = b) \/ (s.op.key.src = b /\ s.op.key.dst = a)
      PROVE  /\ IsLink(t) /\ t.op.key = SimilarTo(s.op.key.dst, s.op.key.src)
             /\ t.op.initial_weight = s.op.initial_weight /\ Twins(t, s)
  <2>1. t.op = AddEdge(SimilarTo(s.op.key.dst, s.op.key.src), s.op.initial_weight)
    BY <1>5 DEF Twins
  <2>2. /\ IsLink(t) /\ t.op.key = SimilarTo(s.op.key.dst, s.op.key.src)
        /\ t.op.initial_weight = s.op.initial_weight
        /\ t.op.key.src = s.op.key.dst /\ t.op.key.dst = s.op.key.src
    BY <2>1 DEF AddEdge, SimilarTo, IsLink
  <2>3. s.op = AddEdge(SimilarTo(t.op.key.dst, t.op.key.src), t.op.initial_weight)
    <3>1. s.op \in Operation
      BY DEF StampedOp
    <3>2. s.op.key \in EdgeKey /\ s.op = [type |-> "AddEdge", key |-> s.op.key, initial_weight |-> s.op.initial_weight]
      BY <1>5, <3>1 DEF Operation, IsLink
    <3> DEFINE k == s.op.key
    <3>3. k \in [src : Nat \X Nat, dst : Nat \X Nat, kind : Seq(Range(k.kind))] /\ k.kind = <<"SimilarTo">>
      BY <1>5, <3>2, KeyAssumption DEF IsLink
    <3> HIDE DEF k
    <3>4. k = SimilarTo(k.src, k.dst)
      BY <3>3 DEF SimilarTo
    <3> QED
      BY <2>2, <3>2, <3>4 DEF k, AddEdge
  <2>4. Before(t.op.key.src, t.op.key.dst) <=> ~ Before(s.op.key.src, s.op.key.dst)
    BY <1>4, <1>5, <2>2
  <2> QED
    BY <1>5, <2>2, <2>3, <2>4, Zenon DEF Twins
<1>6. ASSUME NEW r \in ops, NEW s \in ops, NEW t \in ops, Twins(s, r), Twins(t, r),
             s.op.key = t.op.key
      PROVE  s = t
  <2>1. s.tag.hlc = t.tag.hlc /\ s.tag.replica = t.tag.replica
    BY <1>2, <1>3, <1>6 DEF Twins
  <2> QED
    BY <1>2, <2>1
<1>7. \A s \in ops : IsLink(s) => \E t \in ops : Twins(s, t)
  BY DEF Linked, Linked1
<1> HIDE DEF P, Q, f
<1>8. \A s \in P : m[s] \in ops /\ Twins(s, m[s])
  BY <1>1, <1>7
<1> HIDE DEF m
<1>9. \A s \in P : m[s] \in Q /\ f[m[s]] = f[s]
  <2> SUFFICES ASSUME NEW s \in P PROVE m[s] \in Q /\ f[m[s]] = f[s]
    OBVIOUS
  <2>1. /\ s \in ops /\ m[s] \in ops /\ IsLink(m[s]) /\ m[s].op.key = SimilarTo(b, a)
        /\ m[s].op.initial_weight = s.op.initial_weight
    BY <1>1, <1>5, <1>8
  <2> QED
    BY <2>1 DEF Q, Added, f, Scores, IsLink
<1>10. \A s, t \in P : m[s] = m[t] => s = t
  <2> SUFFICES ASSUME NEW s \in P, NEW t \in P, m[s] = m[t] PROVE s = t
    OBVIOUS
  <2>1. s \in ops /\ t \in ops /\ m[s] \in ops /\ Twins(s, m[s]) /\ Twins(t, m[s])
    BY <1>1, <1>8
  <2>2. s.op.key = t.op.key
    BY DEF P, Added
  <2> QED
    BY <1>6, <2>1, <2>2
<1>11. Q = {m[s] : s \in P}
  <2> SUFFICES ASSUME NEW t \in Q PROVE \E s \in P : m[s] = t
    BY <1>9
  <2>1. t \in ops /\ IsLink(t) /\ t.op.key.src = b /\ t.op.key.dst = a /\ t.op.key = SimilarTo(b, a)
    BY <1>1 DEF Q, Added
  <2>2. PICK s \in ops : Twins(t, s)
    BY <1>7, <2>1
  <2>3. IsLink(s) /\ s.op.key = SimilarTo(a, b) /\ Twins(s, t)
    BY <1>5, <2>1, <2>2
  <2>4. s \in P
    BY <2>3 DEF P, Added, IsLink
  <2>5. m[s] \in ops /\ Twins(s, m[s]) /\ m[s].op.key = SimilarTo(b, a)
    BY <1>8, <1>9, <2>4 DEF Q, Added
  <2>6. Twins(m[s], s) /\ Twins(t, s)
    BY <1>1, <1>5, <2>2, <2>4, <2>5
  <2>7. m[s] = t
    BY <1>6, <2>1, <2>5, <2>6
  <2> QED
    BY <2>4, <2>7
<1>12. IsFiniteSet(P) /\ \A s \in P : f[s] \in Int
  <2>1. P \subseteq ops
    BY <1>1
  <2> QED
    BY <1>1, <1>2, <2>1, FS_Subset DEF f, Scores
<1>13. SumFunctionOnSet(f, {m[s] : s \in P}) = SumFunctionOnSet(f, P)
  BY <1>9, <1>10, <1>12, SumMoved
<1> QED
  BY <1>11, <1>13 DEF P, Q, f

Reported(key, ops) == {s \in ops : s.op.type \in {"Reinforce", "Decay"} /\ s.op.key = key}
Reports(T) == [s \in T |-> IF s.op.type = "Reinforce" THEN s.op.amount ELSE -s.op.amount]

\* Reading a number as signed does not change its remainder.
LEMMA SignedIs ==
  ASSUME NEW x \in Int
  PROVE  Signed(x) \in Int /\ Congruent(Signed(x), x, 2^Width)
<1> DEFINE m == 2^Width
           y == x % m
<1>1. m \in Nat \ {0}
  BY WidthAssumption
<1>2. Signed(x) = y \/ Signed(x) = y - m
  BY DEF Signed, Wrap
<1> HIDE DEF m
<1>3. y \in Int /\ y % m = y
  <2>1. y \in 0..(m - 1)
    BY <1>1, Division
  <2>2. y % m = y
    BY <1>1, RemainderOf
  <2> QED
    BY <1>1, <2>1, <2>2
<1>4. (y - m) % m = y % m
  <2> DEFINE z == y - m
             one == -1
  <2>1. z \in Int /\ one \in Int /\ z = y + m * one
    BY <1>1, <1>3
  <2> HIDE DEF y, z, one
  <2>2. z % m = y % m
    BY <1>1, <1>3, <2>1, SameRemainder
  <2> QED
    BY <2>2 DEF z
<1> QED
  BY <1>1, <1>2, <1>3, <1>4 DEF Congruent, m

\* Without what was reported, a weight is what was added.
LEMMA WeightIs ==
  ASSUME NEW f, EngineOK(f), NEW key \in EdgeKey
  PROVE  LET ops == KnownIn(f)
             T == Reported(key, ops)
         IN  Wrap(Value(f.view.edge_weight[key]) - SumFunction(Reports(T)))
               = Wrap(SumFunctionOnSet(Scores(ops), Added(key, ops)))
<1> DEFINE ops == KnownIn(f)
           v == f.view
           c == v.edge_weight[key]
           m == 2^Width
           T == Reported(key, ops)
           P == Added(key, ops)
           d == [s \in ops |-> Rise(key)[s] - Fall(key)[s]]
           p == [s \in ops |-> IF s \in P THEN s.op.initial_weight ELSE 0]
           q == [s \in ops |-> IF s \in T THEN Reports(T)[s] ELSE 0]
           x == SumFunctionOnSet(c.pos, Replica) - SumFunctionOnSet(c.neg, Replica)
           y == SumFunctionOnSet(Rise(key), ops) - SumFunctionOnSet(Fall(key), ops)
           r == SumFunctionOnSet(Reports(T), T)
           w == SumFunctionOnSet(Scores(ops), P)
<1>1. ops \in SUBSET StampedOp /\ IsFiniteSet(ops)
  BY KnownType
<1>2. v \in View /\ BucketsFollow(v, ops)
  BY DEF EngineOK, ViewFollows
<1>3. m \in Nat \ {0}
  BY WidthAssumption
<1>4. Congruent(x, y, m) /\ x \in Int /\ y \in Int
  BY <1>1, <1>2, BucketsSum
<1>5. Value(c) = Signed(x)
  <2>1. DOMAIN c.pos = Replica /\ DOMAIN c.neg = Replica
    BY <1>2 DEF View, Counter
  <2>2. \A g : SumFunction(g) = SumFunctionOnSet(g, DOMAIN g)
    BY DEF SumFunction
  <2>3. Value(c) = Signed(SumFunction(c.pos) - SumFunction(c.neg))
    BY DEF Value
  <2>4. SumFunction(c.pos) = SumFunctionOnSet(c.pos, Replica)
    BY <2>1, <2>2
  <2>5. SumFunction(c.neg) = SumFunctionOnSet(c.neg, Replica)
    BY <2>1, <2>2
  <2> HIDE DEF c
  <2> QED
    BY <2>3, <2>4, <2>5
<1>6. P \in SUBSET ops /\ T \in SUBSET ops /\ IsFiniteSet(P) /\ IsFiniteSet(T)
  <2>1. P \in SUBSET ops /\ T \in SUBSET ops
    BY DEF Added, Reported
  <2> QED
    BY <1>1, <2>1, FS_Subset
<1>7. \A s \in ops : /\ Rise(key)[s] \in Int /\ Fall(key)[s] \in Int
                     /\ s \in P => s.op.initial_weight \in Int
                     /\ s \in T => Reports(T)[s] \in Int
                     /\ p[s] = d[s] - q[s]
  <2> SUFFICES ASSUME NEW s \in ops
               PROVE  /\ Rise(key)[s] \in Int /\ Fall(key)[s] \in Int
                      /\ s \in P => s.op.initial_weight \in Int
                      /\ s \in T => Reports(T)[s] \in Int
                      /\ p[s] = d[s] - q[s]
    OBVIOUS
  <2>1. s \in StampedOp /\ s.op \in Operation
    BY <1>1 DEF StampedOp
  <2>2. Rise(key)[s] \in Int /\ Fall(key)[s] \in Int
    BY <2>1, AmountType
  <2>3. /\ Rise(key)[s] = IF Raises(s, key) THEN Amount(s) ELSE 0
        /\ Fall(key)[s] = IF Lowers(s, key) THEN Amount(s) ELSE 0
    BY <2>1 DEF Rise, Fall
  <2>4. d[s] = Rise(key)[s] - Fall(key)[s]
    OBVIOUS
  <2>5. CASE s \in P
    <3>1. s.op.type = "AddEdge" /\ s.op.key = key
      BY <2>5 DEF Added
    <3>2. s.op.initial_weight \in Int
      BY <2>1, <3>1, WeightAssumption DEF Operation
    <3>3. s \notin T
      BY <3>1 DEF Reported
    <3>4. d[s] = s.op.initial_weight
      <4> HIDE DEF d
      <4> QED
        BY <2>3, <2>4, <3>1, <3>2 DEF Raises, Lowers, Amount
    <3>5. p[s] = s.op.initial_weight /\ q[s] = 0
      BY <2>5, <3>3
    <3> HIDE DEF d, p, q
    <3> QED
      BY <2>2, <2>5, <3>2, <3>3, <3>4, <3>5
  <2>6. CASE s \in T
    <3>1. s.op.type \in {"Reinforce", "Decay"} /\ s.op.key = key
      BY <2>6 DEF Reported
    <3>2. s.op.amount \in Nat
      BY <2>1, <3>1 DEF Operation
    <3>3. s \notin P
      BY <3>1 DEF Added
    <3>4. Reports(T)[s] = IF s.op.type = "Reinforce" THEN s.op.amount ELSE -s.op.amount
      BY <2>6 DEF Reports
    <3>5. p[s] = 0 /\ q[s] = Reports(T)[s]
      BY <2>6, <3>3
    <3> HIDE DEF d, p, q, T, P
    <3>6. d[s] = Reports(T)[s]
      BY <2>3, <2>4, <3>1, <3>2, <3>4 DEF Raises, Lowers, Amount
    <3> QED
      BY <2>2, <3>2, <3>3, <3>4, <3>5, <3>6
  <2>7. CASE s \notin P /\ s \notin T
    <3>1. ~ Raises(s, key) /\ ~ Lowers(s, key)
      BY <2>7 DEF Added, Reported, Raises, Lowers
    <3>2. p[s] = 0 /\ q[s] = 0
      BY <2>7
    <3> HIDE DEF d, p, q, T, P
    <3> QED
      BY <2>2, <2>3, <2>4, <2>7, <3>1, <3>2
  <2> QED
    BY <2>5, <2>6, <2>7
<1>8. \A s \in ops : /\ d[s] = Rise(key)[s] - Fall(key)[s]
                     /\ p[s] = IF s \in P THEN s.op.initial_weight ELSE 0
                     /\ q[s] = IF s \in T THEN Reports(T)[s] ELSE 0
  OBVIOUS
<1>9. \A s \in P : Scores(ops)[s] = s.op.initial_weight
  BY <1>6 DEF Scores
<1>10. SumFunction(Reports(T)) = r
  <2>1. DOMAIN Reports(T) = T
    BY DEF Reports
  <2> HIDE DEF T
  <2> QED
    BY <2>1 DEF SumFunction
<1>11. f.view.edge_weight[key] = c
  OBVIOUS
<1> HIDE DEF ops, v, c, m, T, P, d, p, q, x, y
<1>12. SumFunctionOnSet(d, ops) = y
  BY <1>1, <1>7, <1>8, SumDifference DEF y
<1>13. \A s \in ops : d[s] \in Int /\ p[s] \in Int /\ q[s] \in Int
  BY <1>7, <1>8
<1>14. SumFunctionOnSet(p, ops) = SumFunctionOnSet(d, ops) - SumFunctionOnSet(q, ops)
  BY <1>1, <1>7, <1>13, SumDifference
<1>15. SumFunctionOnSet(p, ops) = w
  <2>1. SumFunctionOnSet(p, ops) = SumFunctionOnSet(p, P)
    BY <1>1, <1>6, <1>8, <1>13, SumZeros
  <2>2. Alike(p, Scores(ops), P)
    BY <1>6, <1>8, <1>9 DEF Alike
  <2> QED
    BY <1>6, <2>1, <2>2, SumSame
<1>16. SumFunctionOnSet(q, ops) = r
  <2>1. SumFunctionOnSet(q, ops) = SumFunctionOnSet(q, T)
    BY <1>1, <1>6, <1>8, <1>13, SumZeros
  <2>2. Alike(q, Reports(T), T)
    BY <1>6, <1>8 DEF Alike
  <2> QED
    BY <1>6, <2>1, <2>2, SumSame
<1>17. r \in Int /\ w \in Int
  <2>1. r \in Int
    BY <1>6, <1>7, SumType
  <2>2. w \in Int
    BY <1>6, <1>7, <1>9, SumType
  <2> QED
    BY <2>1, <2>2
<1>18. Wrap(Value(c) - r) = Wrap(w)
  <2> HIDE DEF r, w
  <2> DEFINE z == Signed(x)
  <2>1. z \in Int /\ Congruent(z, x, m)
    BY <1>4, SignedIs DEF m
  <2> HIDE DEF z
  <2>2. Congruent(z, y, m) /\ Congruent(r, r, m)
    BY <1>4, <2>1 DEF Congruent
  <2>3. Congruent(z - r, y - r, m)
    BY <1>3, <1>4, <1>17, <2>1, <2>2, RemainderSum
  <2>4. y - r = w
    BY <1>12, <1>14, <1>15, <1>16
  <2> QED
    BY <1>5, <2>3, <2>4 DEF Congruent, Wrap, m, z
<1> QED
  BY <1>10, <1>11, <1>18 DEF T, P, ops

\* A node that carries text is shown.
LEMMA TextIsShown ==
  ASSUME NEW f, EngineOK(f), NEW id, HasText(id, KnownIn(f))
  PROVE  id \in NodeId /\ id \in Contents(f)
<1> DEFINE ops == KnownIn(f)
           v == f.view
<1>1. PICK t \in ops : Adds(t, id) /\ t.op.payload.label.kind \notin {"Module", "Document"}
  BY DEF HasText
<1>2. t \in StampedOp /\ t.op.type = "AddNode" /\ t.op.id = id
  BY <1>1, KnownType DEF Adds
<1>3. id \in NodeId /\ t.op.payload \in Payload
  BY <1>2 DEF StampedOp, Operation
<1>4. v \in View /\ NodeFollows(v, ops, id) /\ \A s \in ops : s.op.type # "RemoveNode"
  BY <1>3 DEF EngineOK, ViewFollows, Made
<1>5. t \in OpsOn(ops, "AddNode", id) /\ OpsOn(ops, "RemoveNode", id) = {}
  BY <1>2, <1>4 DEF OpsOn
<1>6. v.node_payload[id].label = t.op.payload.label
  BY <1>1, LabelIs
<1> HIDE DEF ops, v
<1>7. t.tag \in v.nodes.adds[id] /\ v.nodes.removes[id] = {}
  BY <1>4, <1>5, FollowsIs
<1>8. id \in Present(v.nodes)
  BY <1>3, <1>4, <1>7 DEF Present, Contains, View, TaggedSet
<1>9. v.node_payload[id] # None
  <2>1. None \notin Payload
    BY NoneAssumption
  <2>2. CASE OpsOn(ops, "SetEmbedding", id) = {}
    <3>1. v.node_payload[id] = t.op.payload
      BY <1>4, <1>5, <2>2, FollowsIs
    <3> QED
      BY <1>3, <2>1, <3>1
  <2>3. CASE OpsOn(ops, "SetEmbedding", id) # {}
    <3>1. PICK d \in OpsOn(ops, "SetEmbedding", id) :
            v.node_payload[id] = [t.op.payload EXCEPT !.embedding = d.op.embedding]
      BY <1>4, <1>5, <2>3, FollowsIs
    <3>2. d.op.embedding \in Embedding
      <4>1. d \in StampedOp /\ d.op.type = "SetEmbedding"
        BY KnownType DEF OpsOn, ops
      <4> QED
        BY <4>1 DEF StampedOp, Operation
    <3>3. v.node_payload[id] \in Payload
      BY <1>3, <3>1, <3>2 DEF Payload
    <3> QED
      BY <2>1, <3>3
  <2> QED
    BY <2>2, <2>3
<1>10. id \in DOMAIN NodesOf(v) /\ NodesOf(v)[id] = v.node_payload[id]
  BY <1>8, <1>9 DEF NodesOf
<1>11. id \in Contents(f)
  BY <1>1, <1>6, <1>10 DEF Contents, v
<1> QED
  BY <1>3, <1>11

\* A link of an engine and the way back.
LEMMA LinkIs ==
  ASSUME NEW f, EngineOK(f), Linked(KnownIn(f)), NEW k \in DOMAIN EdgesOf(f.view),
         k.kind = <<"SimilarTo">>
  PROVE  /\ k = SimilarTo(k.src, k.dst) /\ k.src # k.dst
         /\ k.src \in NodeId /\ k.dst \in NodeId
         /\ k.src \in Contents(f) /\ k.dst \in Contents(f)
         /\ SimilarTo(k.dst, k.src) \in DOMAIN EdgesOf(f.view)
<1> DEFINE ops == KnownIn(f)
<1>1. PICK s \in ops : s.op.type = "AddEdge" /\ s.op.key = k
  <2>1. DOMAIN EdgesOf(f.view) = {s.op.key : s \in {x \in ops : x.op.type = "AddEdge"}}
    BY EdgesAre
  <2> HIDE DEF ops
  <2> QED
    BY <2>1
<1>2. IsLink(s)
  BY <1>1 DEF IsLink
<1>3. /\ k.src # k.dst /\ HasText(k.src, ops) /\ HasText(k.dst, ops)
      /\ \E t \in ops : Twins(s, t)
  BY <1>1, <1>2 DEF Linked, Linked1
<1>4. k = SimilarTo(k.src, k.dst)
  <2>1. s.op \in Operation
    BY KnownType DEF StampedOp
  <2>2. k \in EdgeKey
    BY <1>1, <2>1 DEF Operation
  <2>3. k \in [src : Nat \X Nat, dst : Nat \X Nat, kind : Seq(Range(k.kind))]
    BY <2>2, KeyAssumption
  <2> QED
    BY <2>3 DEF SimilarTo
<1>5. PICK t \in ops : Twins(s, t)
  BY <1>3
<1>6. t.op.type = "AddEdge" /\ t.op.key = SimilarTo(k.dst, k.src)
  BY <1>1, <1>5 DEF Twins, AddEdge
<1>7. SimilarTo(k.dst, k.src) \in DOMAIN EdgesOf(f.view)
  BY <1>6, EdgesAre
<1> QED
  BY <1>3, <1>4, <1>7, TextIsShown

LEMMA InvPairs ==
  ASSUME Inv, AllLinked
  PROVE  LinksComeInPairs
<1> SUFFICES ASSUME NEW e \in Replica, NEW k \in DOMAIN EdgesOf(forest[e].view), k.kind = <<"SimilarTo">>
             PROVE  LET edges == EdgesOf(forest[e].view)
                        link(a, b) == Wrap(edges[SimilarTo(a, b)] - Feedback(e, SimilarTo(a, b)))
                    IN  /\ k.src # k.dst /\ {k.src, k.dst} \subseteq Contents(forest[e])
                        /\ SimilarTo(k.dst, k.src) \in DOMAIN edges
                        /\ link(k.src, k.dst) = link(k.dst, k.src)
  BY DEF LinksComeInPairs
<1> DEFINE f == forest[e]
           ops == KnownIn(f)
           a == k.src
           b == k.dst
           edges == EdgesOf(f.view)
<1>1. EngineOK(f) /\ Linked(ops)
  BY DEF Inv, Group, AllLinked
<1>2. /\ k = SimilarTo(a, b) /\ a # b /\ a \in NodeId /\ b \in NodeId
      /\ a \in Contents(f) /\ b \in Contents(f) /\ SimilarTo(b, a) \in DOMAIN edges
  BY <1>1, LinkIs
<1>3. SimilarTo(a, b) \in EdgeKey /\ SimilarTo(b, a) \in EdgeKey
  BY <1>2, KeyAssumption
<1>4. \A s, t \in ops : s.tag = t.tag => s = t
  <2> DEFINE g == [x \in Replica |-> KnownIn(forest[x])]
             nx == [x \in Replica |-> forest[x].next_local_id]
  <2>1. SharedOK(g, nx)
    BY DEF Inv, Group
  <2>2. g[e] = ops
    OBVIOUS
  <2> HIDE DEF g, nx, ops
  <2> SUFFICES ASSUME NEW s \in g[e], NEW t \in g[e], s.tag = t.tag PROVE s = t
    BY <2>2
  <2> QED
    BY <2>1 DEF SharedOK
<1>5. SumFunctionOnSet(Scores(ops), Added(SimilarTo(b, a), ops))
        = SumFunctionOnSet(Scores(ops), Added(SimilarTo(a, b), ops))
  <2>1. ops \in SUBSET StampedOp /\ IsFiniteSet(ops)
    BY <1>1, KnownType
  <2> HIDE DEF ops, a, b
  <2> QED
    BY <1>1, <1>2, <1>4, <2>1, PairsSum
<1>6. ASSUME NEW key \in EdgeKey, key \in DOMAIN edges
      PROVE  Wrap(edges[key] - Feedback(e, key)) = Wrap(SumFunctionOnSet(Scores(ops), Added(key, ops)))
  <2>1. edges[key] = Value(f.view.edge_weight[key])
    BY <1>6 DEF EdgesOf
  <2>2. Feedback(e, key) = SumFunction(Reports(Reported(key, ops)))
    BY DEF Feedback, Reports, Reported, Known, KnownIn
  <2>3. Wrap(Value(f.view.edge_weight[key]) - SumFunction(Reports(Reported(key, ops))))
          = Wrap(SumFunctionOnSet(Scores(ops), Added(key, ops)))
    BY <1>1, WeightIs
  <2> HIDE DEF ops, f, edges
  <2> QED
    BY <2>1, <2>2, <2>3
<1> HIDE DEF edges, ops, a, b
<1>7. Wrap(edges[SimilarTo(a, b)] - Feedback(e, SimilarTo(a, b)))
        = Wrap(edges[SimilarTo(b, a)] - Feedback(e, SimilarTo(b, a)))
  <2>1. SimilarTo(a, b) \in DOMAIN edges
    BY <1>2 DEF edges
  <2> QED
    BY <1>2, <1>3, <1>5, <1>6, <2>1
<1> QED
  BY <1>2, <1>7 DEF edges, a, b, f

\* However often whichever hosts have scanned, whatever events they have reported
\* and whoever has learnt of it: links between similar nodes join two different
\* nodes that carry text, go both ways, and their weights differ by what was
\* reported on them and nothing else (scan_proximity, apply_proximity_links and
\* report_event), up to the width of the counters.
THEOREM LinksAlwaysPair == Spec => []LinksComeInPairs
<1>1. Inv /\ AllLinked /\ [Next]_vars => (Inv /\ AllLinked)'
  BY NextInv, LinkedStep
<1>2. Inv /\ AllLinked => LinksComeInPairs
  BY InvPairs
<1> QED
  BY <1>1, <1>2, InitInv, LinkedInit, PTL DEF Spec

-----------------------------------------------------------------------------
\* What a scan leaves behind.

\* Every target is embedded, and once.
LEMMA EmbedOpsCover ==
  ASSUME NEW f, EngineOK(f), NEW dims
  PROVE  LET ops == EmbedOps(f, dims)
         IN  /\ \A id \in Targets(f) : \E i \in 1..Len(ops) :
                  ops[i] = [type |-> "SetEmbedding", id |-> id,
                            embedding |-> Embed(NodesOf(f.view)[id].label.text, dims)]
             /\ \A i, j \in 1..Len(ops) : ops[i].id = ops[j].id => i = j
<1> DEFINE T == Targets(f)
           ids == InOrder(T)
           ops == EmbedOps(f, dims)
           op(id) == [type |-> "SetEmbedding", id |-> id,
                      embedding |-> Embed(NodesOf(f.view)[id].label.text, dims)]
<1>1. T \in SUBSET (Nat \X Nat) /\ IsFiniteSet(T)
  <2>1. T \in SUBSET (DOMAIN NodesOf(f.view))
    BY DEF Targets
  <2> HIDE DEF T
  <2> QED
    BY <2>1, ShownNodes, FS_Subset
<1> HIDE DEF T
<1>2. /\ ids \in Seq(T)
      /\ \A i, j \in 1..Len(ids) : i < j => Before(ids[i], ids[j])
      /\ \A id \in T : \E i \in 1..Len(ids) : ids[i] = id
  BY <1>1, InOrderIs
<1> HIDE DEF ids
<1>3. Len(ops) = Len(ids) /\ Len(ids) \in Nat /\ \A i \in 1..Len(ids) : ops[i] = op(ids[i])
  BY <1>2 DEF EmbedOps, ids, T
<1>4. ASSUME NEW i \in 1..Len(ids), NEW j \in 1..Len(ids), ids[i] = ids[j]
      PROVE  i = j
  <2>1. ids[i] \in Nat \X Nat
    BY <1>1, <1>2
  <2>2. ~ Before(ids[i], ids[i])
    BY <2>1 DEF Before
  <2>3. ~ (i < j) /\ ~ (j < i)
    BY <1>2, <1>4, <2>2
  <2> QED
    BY <1>3, <2>3
<1>5. \A id : op(id).id = id
  OBVIOUS
<1> HIDE DEF ops, op
<1>6. \A i, j \in 1..Len(ops) : ops[i].id = ops[j].id => i = j
  BY <1>3, <1>4, <1>5
<1>7. \A id \in T : \E i \in 1..Len(ops) : ops[i] = op(id)
  BY <1>2, <1>3
<1> QED
  BY <1>6, <1>7 DEF T, ops, op

\* The operations that embed, as they become known.
Embedded(e, f, dims) ==
  {StampOf(e, f.last, i, EmbedOps(f, dims)[i]) : i \in 1..Len(EmbedOps(f, dims))}

\* No engine with a larger number has embedded the node; only edges are added.
Spared(e, id, ops) ==
  \A s \in ops : s.op.type = "SetEmbedding" /\ s.op.id = id => ~ (s.tag.replica > e)
OnlyEdges(ops) == \A s \in ops : s.op.type = "AddEdge"

\* What an engine embeds keeps that embedding, unless an engine with a larger
\* number has embedded it before.
LEMMA FreshEmbedding ==
  ASSUME NEW f, EngineOK(f), NEW e \in Replica, NEW dims, NEW h, EngineOK(h), NEW more,
         KnownIn(h) = KnownIn(f) \cup Embedded(e, f, dims) \cup more,
         OnlyEdges(more), NEW id \in Targets(f), Spared(e, id, KnownIn(f))
  PROVE  /\ id \in DOMAIN NodesOf(h.view)
         /\ NodesOf(h.view)[id].label = NodesOf(f.view)[id].label
         /\ NodesOf(h.view)[id].embedding = Embed(NodesOf(f.view)[id].label.text, dims)
<1> DEFINE ops == EmbedOps(f, dims)
           k == KnownIn(f)
           st(i) == StampOf(e, f.last, i, ops[i])
           all == KnownIn(h)
           text == NodesOf(f.view)[id].label.text
           about == OpsOn(all, "SetEmbedding", id)
<1>1. all = k \cup {st(i) : i \in 1..Len(ops)} \cup more
  BY DEF Embedded
<1>2. PICK i \in 1..Len(ops) : ops[i] = [type |-> "SetEmbedding", id |-> id, embedding |-> Embed(text, dims)]
  BY EmbedOpsCover
<1>3. \A j \in 1..Len(ops) : ops[j].id = id => j = i
  BY <1>2, EmbedOpsCover
<1>4. Len(ops) \in Nat
  <2>1. InOrder(Targets(f)) \in Seq(Targets(f))
    <3>1. Targets(f) \in SUBSET (DOMAIN NodesOf(f.view))
      BY DEF Targets
    <3>2. Targets(f) \in SUBSET (Nat \X Nat) /\ IsFiniteSet(Targets(f))
      BY <3>1, ShownNodes, FS_Subset
    <3> QED
      BY <3>2, InOrderIs
  <2> QED
    BY <2>1 DEF EmbedOps
<1> HIDE DEF ops, text
<1>5. \A j : st(j).op = ops[j] /\ st(j).tag.replica = e
  BY DEF StampOf
<1>6. HlcLT(f.last, st(i).tag.hlc) /\ st(i).tag.hlc \in Hlc /\ f.last \in Hlc
  <2>1. f.last \in Hlc
    BY KnownType
  <2>2. i \in Nat /\ i >= 1
    BY <1>4
  <2> QED
    BY <2>1, <2>2 DEF StampOf, Hlc, HlcLT
<1>7. PICK t \in k : Adds(t, id) /\ NodesOf(f.view)[id].label = t.op.payload.label
  <2>1. id \in DOMAIN NodesOf(f.view)
    BY DEF Targets
  <2>2. PICK t \in k : Adds(t, id)
    BY <2>1, ShownNodes
  <2>3. NodesOf(f.view)[id] = f.view.node_payload[id]
    BY <2>1 DEF NodesOf
  <2> QED
    BY <2>2, <2>3, LabelIs
<1>8. HasText(id, all)
  <2>1. HasText(id, k)
    BY TargetsHaveText
  <2>2. k \subseteq all
    BY <1>1
  <2> QED
    BY <2>1, <2>2, LinkedMore
<1>9. /\ id \in NodeId /\ id \in DOMAIN NodesOf(h.view)
      /\ NodesOf(h.view)[id] = h.view.node_payload[id]
  <2>1. id \in NodeId /\ id \in Contents(h)
    BY <1>8, TextIsShown
  <2>2. id \in DOMAIN NodesOf(h.view)
    BY <2>1 DEF Contents
  <2> QED
    BY <2>1, <2>2 DEF NodesOf
<1>10. NodeFollows(h.view, all, id)
  BY <1>9 DEF EngineOK, ViewFollows
<1>11. t \in all /\ t \in OpsOn(all, "AddNode", id) /\ t.op.payload \in Payload
  <2>1. t \in all /\ t.op.type = "AddNode" /\ t.op.id = id
    BY <1>1, <1>7 DEF Adds
  <2>2. t.op \in Operation
    BY <2>1, KnownType DEF StampedOp
  <2> QED
    BY <2>1, <2>2 DEF OpsOn, Operation
<1>12. st(i) \in about
  BY <1>1, <1>2, <1>5 DEF OpsOn
<1>13. ASSUME NEW x \in about, x # st(i)
       PROVE  ~ TagLT(st(i).tag, x.tag)
  <2>1. x \in all /\ x.op.type = "SetEmbedding" /\ x.op.id = id
    BY DEF OpsOn
  <2>2. x \notin more
    BY <2>1 DEF OnlyEdges
  <2>3. ASSUME NEW j \in 1..Len(ops), x = st(j) PROVE FALSE
    BY <1>3, <1>5, <1>13, <2>1, <2>3
  <2> HIDE DEF st, all, k
  <2>4. x \in k
    BY <1>1, <2>1, <2>2, <2>3
  <2>5. x.tag \in Tag /\ ~ HlcLT(f.last, x.tag.hlc)
    <3>1. x \in StampedOp
      BY <2>4, KnownType DEF k
    <3> QED
      BY <2>4, <3>1 DEF EngineOK, StampedOp, k
  <2>6. x.tag.hlc \in Hlc /\ x.tag.replica \in Nat /\ ~ (x.tag.replica > e) /\ e \in Nat
    BY <2>1, <2>4, <2>5, ReplicaAssumption DEF Tag, k, Spared
  <2>7. ~ HlcLT(st(i).tag.hlc, x.tag.hlc)
    BY <1>6, <2>5, <2>6, HlcOrder
  <2> QED
    BY <1>5, <2>6, <2>7 DEF TagLT
<1> HIDE DEF st, all, k, about
<1>14. PICK x \in about : /\ \A y \in about : y = x \/ TagLT(y.tag, x.tag)
                          /\ h.view.node_payload[id] = [t.op.payload EXCEPT !.embedding = x.op.embedding]
  BY <1>10, <1>11, <1>12, FollowsIs DEF about
<1>15. x = st(i)
  BY <1>12, <1>13, <1>14
<1>16. x.op.embedding = Embed(text, dims)
  BY <1>2, <1>5, <1>15
<1>17. /\ NodesOf(h.view)[id].label = t.op.payload.label
       /\ NodesOf(h.view)[id].embedding = Embed(text, dims)
  BY <1>9, <1>11, <1>14, <1>16 DEF Payload
<1> QED
  BY <1>7, <1>9, <1>17 DEF text

\* Every pair of embedded nodes that scores is a link, and once.
LEMMA LinksCover ==
  ASSUME NEW f, EngineOK(f), NEW threshold
  PROVE  LET links == ProximityLinks(f, threshold)
             T == {id \in DOMAIN NodesOf(f.view) : NodesOf(f.view)[id].embedding # None}
         IN  /\ \A j \in 1..Len(links) : /\ links[j].score = ScoreOf(f, links[j].a, links[j].b)
                                         /\ links[j].score >= threshold
             /\ \A a, b \in T : Before(a, b) /\ ScoreOf(f, a, b) >= threshold =>
                  \E j \in 1..Len(links) : links[j].a = a /\ links[j].b = b
             /\ \A i, j \in 1..Len(links) :
                  links[i].a = links[j].a /\ links[i].b = links[j].b => i = j
<1> DEFINE T == {id \in DOMAIN NodesOf(f.view) : NodesOf(f.view)[id].embedding # None}
           ids == InOrder(T)
           n == Len(ids)
           scores(p) == ScoreOf(f, ids[p[1]], ids[p[2]])
           scoring == {p \in (1..n) \X (1..n) : p[1] < p[2] /\ scores(p) >= threshold}
           pairs == InOrder(scoring)
           m == Len(pairs)
           links == [i \in 1..m |-> [a |-> ids[pairs[i][1]], b |-> ids[pairs[i][2]],
                                     score |-> scores(pairs[i])]]
<1>1. ProximityLinks(f, threshold) = links
  BY DEF ProximityLinks
<1>2. T \in SUBSET (Nat \X Nat) /\ IsFiniteSet(T)
  <2>1. T \in SUBSET (DOMAIN NodesOf(f.view))
    OBVIOUS
  <2> HIDE DEF T
  <2> QED
    BY <2>1, ShownNodes, FS_Subset
<1> HIDE DEF T
<1>3. /\ ids \in Seq(T) /\ n \in Nat
      /\ \A i, j \in 1..n : i < j => Before(ids[i], ids[j])
      /\ \A id \in T : \E i \in 1..n : ids[i] = id
  <2>1. /\ ids \in Seq(T)
        /\ \A i, j \in 1..Len(ids) : i < j => Before(ids[i], ids[j])
        /\ \A id \in T : \E i \in 1..Len(ids) : ids[i] = id
    BY <1>2, InOrderIs
  <2> HIDE DEF ids
  <2> QED
    BY <2>1
<1> HIDE DEF ids, n
<1>4. \A p, q \in Nat \X Nat : Before(p, q) => ~ Before(q, p) /\ p # q
  BY DEF Before
<1>5. \A i \in 1..n : ids[i] \in T /\ ids[i] \in Nat \X Nat /\ i \in Nat
  <2>1. n = Len(ids)
    BY DEF n
  <2> QED
    BY <1>2, <1>3, <2>1
<1>6. \A i, j \in 1..n : (i < j <=> Before(ids[i], ids[j])) /\ (ids[i] = ids[j] => i = j)
  <2> SUFFICES ASSUME NEW i \in 1..n, NEW j \in 1..n
               PROVE  (i < j <=> Before(ids[i], ids[j])) /\ (ids[i] = ids[j] => i = j)
    OBVIOUS
  <2>1. i < j \/ i = j \/ j < i
    BY <1>5
  <2>2. i < j => ~ (i = j) /\ ~ (j < i)
    BY <1>5
  <2> QED
    BY <1>3, <1>4, <1>5, <2>1, <2>2
<1>7. /\ \A p \in scoring : p \in (1..n) \X (1..n) /\ p[1] < p[2] /\ scores(p) >= threshold
      /\ \A i, j \in 1..n : i < j /\ scores(<<i, j>>) >= threshold => <<i, j>> \in scoring
  OBVIOUS
<1> HIDE DEF scoring
<1>8. /\ pairs \in Seq(scoring) /\ m \in Nat
      /\ \A i, j \in 1..m : i < j => Before(pairs[i], pairs[j])
      /\ \A p \in scoring : \E i \in 1..m : pairs[i] = p
  <2>1. IsFiniteSet(1..n)
    BY <1>3, FS_Interval
  <2>2. IsFiniteSet((1..n) \X (1..n))
    BY <2>1, FS_Product
  <2>3. scoring \in SUBSET ((1..n) \X (1..n))
    BY <1>7
  <2>4. IsFiniteSet(scoring)
    BY <2>2, <2>3, FS_Subset
  <2>5. scoring \in SUBSET (Nat \X Nat)
    BY <1>3, <2>3
  <2>6. /\ pairs \in Seq(scoring)
        /\ \A i, j \in 1..Len(pairs) : i < j => Before(pairs[i], pairs[j])
        /\ \A p \in scoring : \E i \in 1..Len(pairs) : pairs[i] = p
    BY <2>4, <2>5, InOrderIs
  <2> HIDE DEF pairs
  <2> QED
    BY <2>6
<1>9. \A i \in 1..m : /\ pairs[i] \in scoring /\ i \in Nat
                      /\ pairs[i][1] \in 1..n /\ pairs[i][2] \in 1..n
                      /\ pairs[i] = <<pairs[i][1], pairs[i][2]>> /\ pairs[i] \in Nat \X Nat
  <2> SUFFICES ASSUME NEW i \in 1..m
               PROVE  /\ pairs[i] \in scoring /\ i \in Nat
                      /\ pairs[i][1] \in 1..n /\ pairs[i][2] \in 1..n
                      /\ pairs[i] = <<pairs[i][1], pairs[i][2]>> /\ pairs[i] \in Nat \X Nat
    OBVIOUS
  <2>1. pairs[i] \in scoring /\ i \in Nat
    BY <1>8
  <2>2. pairs[i] \in (1..n) \X (1..n)
    BY <1>7, <2>1
  <2> QED
    BY <1>3, <2>1, <2>2
<1> HIDE DEF pairs, m
<1>10. /\ Len(links) = m
       /\ \A i \in 1..m : /\ links[i].a = ids[pairs[i][1]] /\ links[i].b = ids[pairs[i][2]]
                          /\ links[i].score = scores(pairs[i])
  BY <1>8
<1> HIDE DEF links
<1>11. ASSUME NEW j \in 1..m
       PROVE  links[j].score = ScoreOf(f, links[j].a, links[j].b) /\ links[j].score >= threshold
  BY <1>7, <1>9, <1>10
<1>12. ASSUME NEW a \in T, NEW b \in T, Before(a, b), ScoreOf(f, a, b) >= threshold
       PROVE  \E j \in 1..m : links[j].a = a /\ links[j].b = b
  <2>1. PICK i \in 1..n : ids[i] = a
    BY <1>3
  <2>2. PICK j \in 1..n : ids[j] = b
    BY <1>3
  <2>3. i < j /\ scores(<<i, j>>) >= threshold
    BY <1>6, <1>12, <2>1, <2>2
  <2> HIDE DEF scores
  <2>4. <<i, j>> \in scoring
    BY <1>7, <2>3
  <2>5. PICK x \in 1..m : pairs[x] = <<i, j>>
    BY <1>8, <2>4
  <2> QED
    BY <1>10, <2>1, <2>2, <2>5
<1>13. ASSUME NEW i \in 1..m, NEW j \in 1..m, links[i].a = links[j].a, links[i].b = links[j].b
       PROVE  i = j
  <2>1. pairs[i][1] = pairs[j][1] /\ pairs[i][2] = pairs[j][2]
    BY <1>6, <1>9, <1>10, <1>13
  <2>2. pairs[i] = pairs[j]
    BY <1>9, <2>1
  <2>3. ~ Before(pairs[i], pairs[j]) /\ ~ Before(pairs[j], pairs[i])
    BY <1>4, <1>9, <2>2
  <2>4. ~ (i < j) /\ ~ (j < i)
    BY <1>8, <2>3
  <2> QED
    BY <1>9, <2>4
<1>14. /\ \A j \in 1..Len(links) : /\ links[j].score = ScoreOf(f, links[j].a, links[j].b)
                                   /\ links[j].score >= threshold
       /\ \A a, b \in T : Before(a, b) /\ ScoreOf(f, a, b) >= threshold =>
            \E j \in 1..Len(links) : links[j].a = a /\ links[j].b = b
       /\ \A i, j \in 1..Len(links) :
            links[i].a = links[j].a /\ links[i].b = links[j].b => i = j
  BY <1>10, <1>11, <1>12, <1>13
<1> QED
  BY <1>1, <1>14 DEF T

\* What an engine that has learnt of a single new operation on an edge shows as
\* its weight, and when it has learnt of none.
Net(key, ops) == SumFunctionOnSet(Rise(key), ops) - SumFunctionOnSet(Fall(key), ops)

LEMMA SignedSame ==
  ASSUME NEW x, NEW y, Congruent(x, y, 2^Width)
  PROVE  Signed(x) = Signed(y)
BY DEF Congruent, Signed, Wrap

LEMMA ValueIs ==
  ASSUME NEW f, EngineOK(f), NEW key \in EdgeKey
  PROVE  /\ Net(key, KnownIn(f)) \in Int
         /\ Value(f.view.edge_weight[key]) = Signed(Net(key, KnownIn(f)))
<1> DEFINE ops == KnownIn(f)
           v == f.view
           c == v.edge_weight[key]
           x == SumFunctionOnSet(c.pos, Replica) - SumFunctionOnSet(c.neg, Replica)
<1>1. ops \in SUBSET StampedOp /\ IsFiniteSet(ops)
  BY KnownType
<1>2. v \in View /\ BucketsFollow(v, ops)
  BY DEF EngineOK, ViewFollows
<1>3. Congruent(x, Net(key, ops), 2^Width) /\ Net(key, ops) \in Int
  BY <1>1, <1>2, BucketsSum DEF Net
<1>4. Value(c) = Signed(x)
  <2>1. DOMAIN c.pos = Replica /\ DOMAIN c.neg = Replica
    BY <1>2 DEF View, Counter
  <2>2. \A g : SumFunction(g) = SumFunctionOnSet(g, DOMAIN g)
    BY DEF SumFunction
  <2>3. Value(c) = Signed(SumFunction(c.pos) - SumFunction(c.neg))
    BY DEF Value
  <2>4. SumFunction(c.pos) = SumFunctionOnSet(c.pos, Replica)
    BY <2>1, <2>2
  <2>5. SumFunction(c.neg) = SumFunctionOnSet(c.neg, Replica)
    BY <2>1, <2>2
  <2> HIDE DEF c
  <2> QED
    BY <2>3, <2>4, <2>5
<1> HIDE DEF x, ops
<1>5. Signed(x) = Signed(Net(key, ops))
  BY <1>3, SignedSame
<1> QED
  BY <1>3, <1>4, <1>5 DEF ops

Touches(s, key) == s.op.type \in {"AddEdge", "Reinforce", "Decay"} /\ s.op.key = key

LEMMA ValueStays ==
  ASSUME NEW f, EngineOK(f), NEW h, EngineOK(h), NEW key \in EdgeKey,
         KnownIn(f) \subseteq KnownIn(h), \A s \in KnownIn(h) \ KnownIn(f) : ~ Touches(s, key)
  PROVE  Value(h.view.edge_weight[key]) = Value(f.view.edge_weight[key])
<1> DEFINE k == KnownIn(f)
           k2 == KnownIn(h)
<1>1. k2 \in SUBSET StampedOp /\ IsFiniteSet(k2) /\ k \in SUBSET k2
  BY KnownType
<1>2. \A s \in k2 : Rise(key)[s] \in Int /\ Fall(key)[s] \in Int
  BY <1>1, AmountType
<1>3. \A s \in k2 : s \notin k => Rise(key)[s] = 0 /\ Fall(key)[s] = 0
  BY <1>1 DEF Rise, Fall, Raises, Lowers, Touches
<1> HIDE DEF k, k2
<1>4. Net(key, k2) = Net(key, k)
  BY <1>1, <1>2, <1>3, SumZeros DEF Net
<1> QED
  BY <1>4, ValueIs DEF k, k2

LEMMA ValueGrows ==
  ASSUME NEW f, EngineOK(f), NEW h, EngineOK(h), NEW key \in EdgeKey,
         KnownIn(f) \subseteq KnownIn(h), NEW x \in KnownIn(h) \ KnownIn(f),
         NEW w, x.op = AddEdge(key, w),
         \A s \in KnownIn(h) \ KnownIn(f) : s = x \/ ~ Touches(s, key)
  PROVE  Value(h.view.edge_weight[key]) = Signed(Value(f.view.edge_weight[key]) + w)
<1> DEFINE k == KnownIn(f)
           k2 == KnownIn(h)
           kx == k \cup {x}
           y == Net(key, k)
<1>1. /\ k2 \in SUBSET StampedOp /\ IsFiniteSet(k2) /\ kx \in SUBSET k2 /\ IsFiniteSet(k)
      /\ k \in SUBSET k2 /\ x \notin k /\ x \in StampedOp
  BY KnownType
<1>2. \A s \in k2 : Rise(key)[s] \in Int /\ Fall(key)[s] \in Int
  BY <1>1, AmountType
<1>3. \A s \in k2 : s \notin kx => Rise(key)[s] = 0 /\ Fall(key)[s] = 0
  BY <1>1 DEF Rise, Fall, Raises, Lowers, Touches
<1>4. w \in Int /\ Rise(key)[x] - Fall(key)[x] = w
  <2>1. x.op.type = "AddEdge" /\ x.op.key = key /\ x.op.initial_weight = w
    BY DEF AddEdge
  <2>2. w \in Int
    <3>1. x.op \in Operation
      BY <1>1 DEF StampedOp
    <3> QED
      BY <2>1, <3>1, WeightAssumption DEF Operation
  <2>3. /\ Rise(key)[x] = IF Raises(x, key) THEN Amount(x) ELSE 0
        /\ Fall(key)[x] = IF Lowers(x, key) THEN Amount(x) ELSE 0
    BY <1>1 DEF Rise, Fall
  <2> QED
    BY <2>1, <2>2, <2>3 DEF Raises, Lowers, Amount
<1> HIDE DEF k, k2
<1>5. Net(key, k2) = Net(key, kx)
  <2> HIDE DEF kx
  <2> QED
    BY <1>1, <1>2, <1>3, SumZeros DEF Net
<1>6. Net(key, kx) = y + w
  <2>1. /\ SumFunctionOnSet(Rise(key), k) \in Int /\ SumFunctionOnSet(Fall(key), k) \in Int
        /\ SumFunctionOnSet(Rise(key), kx) = SumFunctionOnSet(Rise(key), k) + Rise(key)[x]
        /\ SumFunctionOnSet(Fall(key), kx) = SumFunctionOnSet(Fall(key), k) + Fall(key)[x]
    <3>1. \A s \in k : Rise(key)[s] \in Int /\ Fall(key)[s] \in Int
      BY <1>1, <1>2
    <3>2. \A s \in k \cup {x} : Rise(key)[s] \in Int /\ Fall(key)[s] \in Int
      BY <1>1, <1>2
    <3> QED
      BY <1>1, <3>1, <3>2, SumType, SumMore
  <2>2. Rise(key)[x] \in Int /\ Fall(key)[x] \in Int
    BY <1>1, <1>2
  <2> HIDE DEF kx
  <2> QED
    BY <1>4, <2>1, <2>2 DEF Net
<1>7. y \in Int /\ Value(f.view.edge_weight[key]) = Signed(y)
  BY ValueIs DEF k
<1>8. Value(h.view.edge_weight[key]) = Signed(y + w)
  BY <1>5, <1>6, ValueIs DEF k2
<1> HIDE DEF y
<1>9. Signed(y) \in Int /\ Congruent(Signed(y), y, 2^Width) /\ Congruent(w, w, 2^Width)
  BY <1>7, SignedIs DEF Congruent
<1>10. Congruent(Signed(y) + w, y + w, 2^Width)
  BY <1>4, <1>7, <1>9, WidthAssumption, RemainderSum
<1>11. Signed(Signed(y) + w) = Signed(y + w)
  BY <1>10, SignedSame
<1> QED
  BY <1>7, <1>8, <1>11

\* The two operations that link j of a scan makes.
Way(e, d, l, j) == StampOf(e, d.last, 2 * j - 1, AddEdge(SimilarTo(l.a, l.b), l.score))
Back(e, d, l, j) == StampOf(e, d.last, 2 * j, AddEdge(SimilarTo(l.b, l.a), l.score))

\* The operations that the links of a scan make.
AreWays(e, d, links, ops) ==
  /\ \A x \in ops : \E j \in 1..Len(links) : x = Way(e, d, links[j], j) \/ x = Back(e, d, links[j], j)
  /\ \A j \in 1..Len(links) : Way(e, d, links[j], j) \in ops /\ Back(e, d, links[j], j) \in ops

\* What a scan adds to what is known.
LEMMA ScanAdds ==
  ASSUME Inv, NEW e \in Replica, NEW dims, NEW threshold, Scanning(e, dims, threshold)
  PROVE  LET d     == EmbedAll(e, forest[e], dims)
             links == ProximityLinks(d, threshold)
             k     == KnownIn(forest[e])
             kd    == KnownIn(d)
             k2    == KnownIn(forest'[e])
             more  == k2 \ kd
         IN  /\ kd = k \cup Embedded(e, forest[e], dims)
             /\ k2 = kd \cup more
             /\ \A x \in kd \ k : x.op.type = "SetEmbedding"
             /\ AreWays(e, d, links, more)
             /\ OnlyEdges(more)
<1> DEFINE f == forest[e]
           d == EmbedAll(e, f, dims)
           ops == EmbedOps(f, dims)
           n == Len(ops)
           links == ProximityLinks(d, threshold)
           m == Len(links)
           k == KnownIn(f)
           kd == KnownIn(d)
           k2 == KnownIn(forest'[e])
           more == k2 \ kd
           s(j) == Way(e, d, links[j], j)
           t(j) == Back(e, d, links[j], j)
<1>1. /\ EngineOK(d) /\ n \in Nat /\ Makes(e, ops, n, f, d)
      /\ Makes(e, LinkOps(links), 2 * m, d, forest'[e])
  BY DEF Scanning
<1>2. EngineOK(f)
  BY DEF Inv, Group
<1>3. \A i \in 1..n : ops[i].type = "SetEmbedding"
  BY <1>2, EmbedOpsAre
<1>4. m \in Nat
  BY <1>1, LinksType
<1> HIDE DEF f, d, ops, n, links, m
<1>5. kd = k \cup {StampOf(e, f.last, i, ops[i]) : i \in 1..n}
  BY <1>1 DEF Makes
<1>6. \A x \in kd \ k : x.op.type = "SetEmbedding"
  <2>1. \A i : StampOf(e, f.last, i, ops[i]).op = ops[i]
    BY DEF StampOf
  <2> HIDE DEF k, kd
  <2> QED
    BY <1>3, <1>5, <2>1
<1>7. k2 = kd \cup {StampOf(e, d.last, i, LinkOps(links)[i]) : i \in 1..(2 * m)}
  BY <1>1 DEF Makes
<1>8. /\ \A x \in more : \E j \in 1..m : x = s(j) \/ x = t(j)
      /\ \A j \in 1..m : s(j) \in k2 /\ t(j) \in k2
      /\ kd \subseteq k2
  <2>1. /\ \A j \in 1..m : /\ LinkOps(links)[2 * j - 1] = AddEdge(SimilarTo(links[j].a, links[j].b), links[j].score)
                           /\ LinkOps(links)[2 * j] = AddEdge(SimilarTo(links[j].b, links[j].a), links[j].score)
        /\ \A i \in 1..(2 * m) : \E j \in 1..m : i = 2 * j - 1 \/ i = 2 * j
        /\ \A j \in 1..m : 2 * j - 1 \in 1..(2 * m) /\ 2 * j \in 1..(2 * m)
    BY <1>4, LinkOpsAre DEF m
  <2> HIDE DEF k2, kd
  <2> QED
    BY <1>7, <2>1 DEF Way, Back
<1>9. ASSUME NEW j \in 1..m
      PROVE  s(j) \notin kd /\ t(j) \notin kd
  <2>1. d.last \in Hlc /\ j \in Nat /\ j >= 1
    BY <1>1, <1>4, KnownType
  <2>2. HlcLT(d.last, s(j).tag.hlc) /\ HlcLT(d.last, t(j).tag.hlc)
    BY <2>1 DEF Way, Back, StampOf, Hlc, HlcLT
  <2> HIDE DEF s, t
  <2> QED
    BY <1>1, <2>2 DEF EngineOK
<1>10. \A j : s(j).op.type = "AddEdge" /\ t(j).op.type = "AddEdge"
  BY DEF Way, Back, StampOf, AddEdge
<1> HIDE DEF s, t, k, kd, k2
<1>11. OnlyEdges(more)
  BY <1>8, <1>10 DEF OnlyEdges
<1>12. \A j \in 1..m : s(j) \in more /\ t(j) \in more
  BY <1>8, <1>9
<1>13. k2 = kd \cup more
  BY <1>8
<1>14. kd = k \cup Embedded(e, f, dims)
  BY <1>5 DEF Embedded, ops, n
<1>15. AreWays(e, d, links, more)
  BY <1>8, <1>12 DEF AreWays, m, s, t
<1> QED
  BY <1>6, <1>11, <1>13, <1>14, <1>15 DEF f, d, links, k, kd, k2

\* What is an engine's own to embed.
Ours(e, id) == id \in Contents(forest[e]) /\ Spared(e, id, KnownIn(forest[e]))

\* It has its new embedding when the scan looks for links, and keeps it.
LEMMA ScanEmbeds ==
  ASSUME Inv, Inv', NEW e \in Replica, NEW dims \in Dims, NEW threshold,
         Scanning(e, dims, threshold), NEW id, Ours(e, id)
  PROVE  LET d     == EmbedAll(e, forest[e], dims)
             label == NodesOf(forest[e].view)[id].label
         IN  /\ id \in NodeId /\ Embed(label.text, dims) \in Embedding \ {None}
             /\ id \in DOMAIN NodesOf(d.view)
             /\ NodesOf(d.view)[id].label = label
             /\ NodesOf(d.view)[id].embedding = Embed(label.text, dims)
             /\ NodesOf(forest'[e].view)[id].label = label
             /\ NodesOf(forest'[e].view)[id].embedding = Embed(label.text, dims)
<1> DEFINE f == forest[e]
           d == EmbedAll(e, f, dims)
           g == forest'[e]
           label == NodesOf(f.view)[id].label
           stamps == Embedded(e, f, dims)
           more == KnownIn(g) \ KnownIn(d)
<1>1. EngineOK(f) /\ EngineOK(g) /\ EngineOK(d)
  BY DEF Inv, Group, Scanning
<1>2. id \in Targets(f)
  BY DEF Ours, Contents, Targets, IsEmbeddable
<1>3. id \in NodeId /\ label \in Label
  <2>1. id \in DOMAIN NodesOf(f.view)
    BY DEF Ours, Contents
  <2>2. id \in NodeId /\ NodesOf(f.view)[id] \in Payload
    BY <1>1, <2>1, ShownNodes
  <2> QED
    BY <2>2 DEF Payload
<1>4. Embed(label.text, dims) \in Embedding \ {None}
  BY <1>3, EmbeddingAssumption
<1>5. /\ KnownIn(d) = KnownIn(f) \cup stamps
      /\ KnownIn(g) = KnownIn(d) \cup more
      /\ OnlyEdges(more)
  BY ScanAdds
<1>6. Spared(e, id, KnownIn(f))
  BY DEF Ours
<1> HIDE DEF f, d, g, label, more, stamps
<1>7. /\ id \in DOMAIN NodesOf(d.view)
      /\ NodesOf(d.view)[id].label = label
      /\ NodesOf(d.view)[id].embedding = Embed(label.text, dims)
  <2>1. KnownIn(d) = KnownIn(f) \cup stamps \cup {}
    BY <1>5
  <2>2. OnlyEdges({})
    BY DEF OnlyEdges
  <2> QED
    BY <1>1, <1>2, <1>6, <2>1, <2>2, FreshEmbedding DEF label, stamps
<1>8. /\ NodesOf(g.view)[id].label = label
      /\ NodesOf(g.view)[id].embedding = Embed(label.text, dims)
  <2>1. KnownIn(g) = KnownIn(f) \cup stamps \cup more
    BY <1>5
  <2> QED
    BY <1>1, <1>2, <1>5, <1>6, <2>1, FreshEmbedding DEF label, stamps
<1> QED
  BY <1>3, <1>4, <1>7, <1>8 DEF f, d, g, label

\* What belongs to the edge between two nodes, of what links make.
LEMMA WaysTouch ==
  ASSUME NEW e, NEW d, NEW l, NEW j, NEW a, NEW b
  PROVE  /\ Touches(Way(e, d, l, j), SimilarTo(a, b)) <=> l.a = a /\ l.b = b
         /\ Touches(Back(e, d, l, j), SimilarTo(a, b)) <=> l.b = a /\ l.a = b
         /\ Way(e, d, l, j).op = AddEdge(SimilarTo(l.a, l.b), l.score)
         /\ Back(e, d, l, j).op = AddEdge(SimilarTo(l.b, l.a), l.score)
<1>1. /\ Way(e, d, l, j).op = AddEdge(SimilarTo(l.a, l.b), l.score)
      /\ Back(e, d, l, j).op = AddEdge(SimilarTo(l.b, l.a), l.score)
  BY DEF Way, Back, StampOf
<1>2. \A c, w : /\ AddEdge(c, w).type = "AddEdge" /\ AddEdge(c, w).key = c
  BY DEF AddEdge
<1>3. \A u, v, x, y : SimilarTo(u, v) = SimilarTo(x, y) <=> u = x /\ v = y
  <2> SUFFICES ASSUME NEW u, NEW v, NEW x, NEW y
               PROVE  SimilarTo(u, v) = SimilarTo(x, y) <=> u = x /\ v = y
    OBVIOUS
  <2>1. /\ SimilarTo(u, v).src = u /\ SimilarTo(u, v).dst = v
        /\ SimilarTo(x, y).src = x /\ SimilarTo(x, y).dst = y
    BY DEF SimilarTo
  <2> QED
    BY <2>1
<1> QED
  BY <1>1, <1>2, <1>3 DEF Touches

\* A pair of nodes of which one comes before the other has two edges when it
\* scores, each with a single new operation, and nothing new otherwise.
LEMMA ScanScores ==
  ASSUME Inv, NEW e \in Replica, NEW dims, NEW threshold, Scanning(e, dims, threshold),
         NEW a \in NodeId, NEW b \in NodeId, Before(a, b),
         LET d == EmbedAll(e, forest[e], dims)
         IN  /\ {a, b} \subseteq DOMAIN NodesOf(d.view)
             /\ NodesOf(d.view)[a].embedding # None /\ NodesOf(d.view)[b].embedding # None
  PROVE  LET score == ScoreOf(EmbedAll(e, forest[e], dims), a, b)
             new   == KnownIn(forest'[e]) \ KnownIn(forest[e])
             once(key) == \E x \in new : /\ x.op = AddEdge(key, score)
                                         /\ \A y \in new : y = x \/ ~ Touches(y, key)
             never(key) == \A y \in new : ~ Touches(y, key)
         IN  /\ KnownIn(forest[e]) \subseteq KnownIn(forest'[e])
             /\ score >= threshold => once(SimilarTo(a, b)) /\ once(SimilarTo(b, a))
             /\ ~ (score >= threshold) => never(SimilarTo(a, b)) /\ never(SimilarTo(b, a))
<1> DEFINE d == EmbedAll(e, forest[e], dims)
           links == ProximityLinks(d, threshold)
           m == Len(links)
           k == KnownIn(forest[e])
           kd == KnownIn(d)
           k2 == KnownIn(forest'[e])
           more == k2 \ kd
           new == k2 \ k
           s(j) == Way(e, d, links[j], j)
           t(j) == Back(e, d, links[j], j)
           score == ScoreOf(d, a, b)
           once(key) == \E x \in new : /\ x.op = AddEdge(key, score)
                                       /\ \A y \in new : y = x \/ ~ Touches(y, key)
           never(key) == \A y \in new : ~ Touches(y, key)
<1>1. EngineOK(d)
  BY DEF Scanning
<1>2. /\ k \subseteq kd /\ k2 = kd \cup more
      /\ \A x \in kd \ k : x.op.type = "SetEmbedding"
      /\ \A x \in more : \E j \in 1..m : x = s(j) \/ x = t(j)
      /\ \A j \in 1..m : s(j) \in more /\ t(j) \in more
  <2>1. AreWays(e, d, links, more)
    BY ScanAdds
  <2>2. k2 = kd \cup more /\ kd = k \cup Embedded(e, forest[e], dims)
    BY ScanAdds
  <2>3. \A x \in kd \ k : x.op.type = "SetEmbedding"
    BY ScanAdds
  <2>4. /\ \A x \in more : \E j \in 1..m : x = s(j) \/ x = t(j)
        /\ \A j \in 1..m : s(j) \in more /\ t(j) \in more
    BY <2>1 DEF AreWays
  <2> HIDE DEF s, t, k, kd, k2, m
  <2> QED
    BY <2>2, <2>3, <2>4
<1>3. /\ \A j \in 1..m : /\ links[j].score = ScoreOf(d, links[j].a, links[j].b)
                         /\ links[j].score >= threshold
      /\ score >= threshold => \E j \in 1..m : links[j].a = a /\ links[j].b = b
      /\ \A i, j \in 1..m : links[i].a = links[j].a /\ links[i].b = links[j].b => i = j
  BY <1>1, LinksCover
<1>4. \A j \in 1..m : Before(links[j].a, links[j].b)
  BY <1>1, LinksType
<1>5. ~ Before(b, a)
  <2>1. a[1] \in Nat /\ a[2] \in Nat /\ b[1] \in Nat /\ b[2] \in Nat
    BY ReplicaAssumption, LocalIdAssumption DEF NodeId
  <2> QED
    BY <2>1 DEF Before
<1>6. \A j : /\ Touches(s(j), SimilarTo(a, b)) <=> links[j].a = a /\ links[j].b = b
             /\ Touches(t(j), SimilarTo(a, b)) <=> links[j].b = a /\ links[j].a = b
             /\ Touches(s(j), SimilarTo(b, a)) <=> links[j].a = b /\ links[j].b = a
             /\ Touches(t(j), SimilarTo(b, a)) <=> links[j].b = b /\ links[j].a = a
             /\ s(j).op = AddEdge(SimilarTo(links[j].a, links[j].b), links[j].score)
             /\ t(j).op = AddEdge(SimilarTo(links[j].b, links[j].a), links[j].score)
  BY WaysTouch
<1>7. \A y, key : y.op.type = "SetEmbedding" => ~ Touches(y, key)
  BY DEF Touches
<1>8. k \subseteq k2 /\ \A y \in new : y.op.type = "SetEmbedding" \/ \E j \in 1..m : y = s(j) \/ y = t(j)
  <2> HIDE DEF s, t, k, kd, k2, m
  <2> QED
    BY <1>2
<1>9. \A j \in 1..m : s(j) \in new /\ t(j) \in new
  <2> HIDE DEF s, t, k, kd, k2, m
  <2> QED
    BY <1>2
<1> HIDE DEF d, links, m, k, kd, k2, new, s, t
<1>10. ASSUME score >= threshold
       PROVE  once(SimilarTo(a, b)) /\ once(SimilarTo(b, a))
  <2>1. PICK j \in 1..m : links[j].a = a /\ links[j].b = b
    BY <1>3, <1>10
  <2>2. links[j].score = score
    BY <1>3, <2>1
  <2>3. s(j).op = AddEdge(SimilarTo(a, b), score) /\ t(j).op = AddEdge(SimilarTo(b, a), score)
    BY <1>6, <2>1, <2>2
  <2> HIDE DEF score
  <2>4. ASSUME NEW y \in new
        PROVE  /\ y = s(j) \/ ~ Touches(y, SimilarTo(a, b))
               /\ y = t(j) \/ ~ Touches(y, SimilarTo(b, a))
    <3>1. CASE y.op.type = "SetEmbedding"
      BY <1>7, <3>1
    <3>2. ASSUME NEW i \in 1..m, y = s(i)
          PROVE  /\ y = s(j) \/ ~ Touches(y, SimilarTo(a, b))
                 /\ ~ Touches(y, SimilarTo(b, a))
      BY <1>3, <1>4, <1>5, <1>6, <2>1, <3>2
    <3>3. ASSUME NEW i \in 1..m, y = t(i)
          PROVE  /\ ~ Touches(y, SimilarTo(a, b))
                 /\ y = t(j) \/ ~ Touches(y, SimilarTo(b, a))
      BY <1>3, <1>4, <1>5, <1>6, <2>1, <3>3
    <3> QED
      BY <1>8, <3>1, <3>2, <3>3
  <2> QED
    BY <1>9, <2>3, <2>4
<1>11. ASSUME ~ (score >= threshold)
       PROVE  never(SimilarTo(a, b)) /\ never(SimilarTo(b, a))
  <2>1. ASSUME NEW j \in 1..m
        PROVE  ~ (links[j].a = a /\ links[j].b = b) /\ ~ (links[j].a = b /\ links[j].b = a)
    BY <1>3, <1>4, <1>5, <1>11, <2>1
  <2>2. ASSUME NEW y \in new
        PROVE  ~ Touches(y, SimilarTo(a, b)) /\ ~ Touches(y, SimilarTo(b, a))
    BY <1>6, <1>7, <1>8, <2>1
  <2> QED
    BY <2>2
<1> QED
  BY <1>8, <1>10, <1>11 DEF d, k, k2, new

\* What a scan does to an edge of two nodes with that score.
Covered(e, key, score, threshold) ==
  LET before == Value(forest[e].view.edge_weight[key])
      after  == Value(forest'[e].view.edge_weight[key])
  IN  IF score >= threshold
      THEN after = Signed(before + score) /\ key \in DOMAIN EdgesOf(forest'[e].view)
      ELSE after = before

TextScore(e, dims, a, b) ==
  Score[Embed(NodesOf(forest[e].view)[a].label.text, dims),
        Embed(NodesOf(forest[e].view)[b].label.text, dims)]

LEMMA EdgeCovered ==
  ASSUME Inv, Inv', NEW e \in Replica, NEW key \in EdgeKey, NEW score, NEW threshold,
         LET new == KnownIn(forest'[e]) \ KnownIn(forest[e])
         IN  /\ KnownIn(forest[e]) \subseteq KnownIn(forest'[e])
             /\ score >= threshold => \E x \in new : /\ x.op = AddEdge(key, score)
                                                     /\ \A y \in new : y = x \/ ~ Touches(y, key)
             /\ ~ (score >= threshold) => \A y \in new : ~ Touches(y, key)
  PROVE  Covered(e, key, score, threshold)
<1> DEFINE f == forest[e]
           g == forest'[e]
           new == KnownIn(g) \ KnownIn(f)
<1>1. EngineOK(f) /\ EngineOK(g) /\ KnownIn(f) \subseteq KnownIn(g)
  BY DEF Inv, Group
<1>2. CASE score >= threshold
  <2>1. PICK x \in new : x.op = AddEdge(key, score) /\ \A y \in new : y = x \/ ~ Touches(y, key)
    BY <1>2
  <2>2. x \in KnownIn(g) /\ x.op.type = "AddEdge" /\ x.op.key = key
    BY <2>1 DEF AddEdge
  <2> HIDE DEF f, g
  <2>3. Value(g.view.edge_weight[key]) = Signed(Value(f.view.edge_weight[key]) + score)
    BY <1>1, <2>1, ValueGrows
  <2>4. key \in DOMAIN EdgesOf(g.view)
    BY <1>1, <2>2, EdgesAre
  <2> QED
    BY <1>2, <2>3, <2>4 DEF Covered, f, g
<1>3. CASE ~ (score >= threshold)
  <2>1. \A y \in new : ~ Touches(y, key)
    BY <1>3
  <2> HIDE DEF f, g
  <2>2. Value(g.view.edge_weight[key]) = Value(f.view.edge_weight[key])
    BY <1>1, <2>1, ValueStays
  <2> QED
    BY <1>3, <2>2 DEF Covered, f, g
<1> QED
  BY <1>2, <1>3

LEMMA PairCovered ==
  ASSUME Inv, Inv', NEW e \in Replica, NEW dims \in Dims, NEW threshold,
         Scanning(e, dims, threshold), NEW a, Ours(e, a), NEW b, Ours(e, b), Before(a, b)
  PROVE  /\ Covered(e, SimilarTo(a, b), TextScore(e, dims, a, b), threshold)
         /\ Covered(e, SimilarTo(b, a), TextScore(e, dims, b, a), threshold)
<1> DEFINE d == EmbedAll(e, forest[e], dims)
           ea == Embed(NodesOf(forest[e].view)[a].label.text, dims)
           eb == Embed(NodesOf(forest[e].view)[b].label.text, dims)
           score == ScoreOf(d, a, b)
           new == KnownIn(forest'[e]) \ KnownIn(forest[e])
           once(key) == \E x \in new : /\ x.op = AddEdge(key, score)
                                       /\ \A y \in new : y = x \/ ~ Touches(y, key)
           never(key) == \A y \in new : ~ Touches(y, key)
<1>1. /\ a \in NodeId /\ ea \in Embedding \ {None} /\ a \in DOMAIN NodesOf(d.view)
      /\ NodesOf(d.view)[a].embedding = ea
  BY ScanEmbeds
<1>2. /\ b \in NodeId /\ eb \in Embedding \ {None} /\ b \in DOMAIN NodesOf(d.view)
      /\ NodesOf(d.view)[b].embedding = eb
  BY ScanEmbeds
<1>3. TextScore(e, dims, a, b) = score /\ TextScore(e, dims, b, a) = score
  <2>1. TextScore(e, dims, a, b) = Score[ea, eb] /\ TextScore(e, dims, b, a) = Score[eb, ea]
    BY Zenon DEF TextScore
  <2>2. score = Score[ea, eb]
    BY <1>1, <1>2, Zenon DEF ScoreOf
  <2> HIDE DEF ea, eb, score
  <2> QED
    BY <1>1, <1>2, <2>1, <2>2, ScoreAssumption, Zenon
<1>4. /\ {a, b} \subseteq DOMAIN NodesOf(d.view)
      /\ NodesOf(d.view)[a].embedding # None /\ NodesOf(d.view)[b].embedding # None
  BY <1>1, <1>2
<1>5. /\ KnownIn(forest[e]) \subseteq KnownIn(forest'[e])
      /\ score >= threshold => once(SimilarTo(a, b)) /\ once(SimilarTo(b, a))
      /\ ~ (score >= threshold) => never(SimilarTo(a, b)) /\ never(SimilarTo(b, a))
  BY <1>1, <1>2, <1>4, ScanScores
<1>6. SimilarTo(a, b) \in EdgeKey /\ SimilarTo(b, a) \in EdgeKey
  BY <1>1, <1>2, KeyAssumption
<1> HIDE DEF score
<1>7. Covered(e, SimilarTo(a, b), score, threshold) /\ Covered(e, SimilarTo(b, a), score, threshold)
  BY <1>5, <1>6, EdgeCovered
<1> QED
  BY <1>3, <1>7

\* What of this does not depend on what a scan does to pairs that are linked.
NewlyCovered(e, key, score, threshold) ==
  LET before == Value(forest[e].view.edge_weight[key])
      after  == Value(forest'[e].view.edge_weight[key])
  IN  IF score >= threshold
      THEN /\ key \in DOMAIN EdgesOf(forest'[e].view)
           /\ key \notin DOMAIN EdgesOf(forest[e].view) => after = Signed(before + score)
      ELSE after = before

\* What an engine's own nodes get out of a scan.
LEMMA ScanCovers ==
  ASSUME Inv, NEW e \in Replica, NEW dims \in Dims, NEW threshold \in Threshold,
         Scan(e, dims, threshold)
  PROVE  LET taken == {s.op.id : s \in {x \in Known(e) : /\ x.op.type = "SetEmbedding"
                                                         /\ x.tag.replica > e}}
             ours  == Contents(forest[e]) \ taken
             nodes == NodesOf(forest'[e].view)
             score(a, b) == Score[Embed(nodes[a].label.text, dims), Embed(nodes[b].label.text, dims)]
         IN  /\ \A a \in ours : nodes[a].embedding = Embed(nodes[a].label.text, dims)
             /\ \A a, b \in ours : a # b => NewlyCovered(e, SimilarTo(a, b), score(a, b), threshold)
<1> DEFINE taken == {s.op.id : s \in {x \in Known(e) : /\ x.op.type = "SetEmbedding"
                                                       /\ x.tag.replica > e}}
           ours  == Contents(forest[e]) \ taken
           nodes == NodesOf(forest'[e].view)
           score(a, b) == Score[Embed(nodes[a].label.text, dims), Embed(nodes[b].label.text, dims)]
<1>1. Inv' /\ Scanning(e, dims, threshold)
  BY ScanInv
<1>2. \A a \in ours : Ours(e, a)
  <2>1. Known(e) = KnownIn(forest[e])
    BY DEF Known, KnownIn
  <2> QED
    BY <2>1 DEF Ours, Spared
<1> HIDE DEF ours
<1>3. ASSUME NEW a \in ours
      PROVE  /\ nodes[a].label = NodesOf(forest[e].view)[a].label /\ a \in NodeId
             /\ nodes[a].embedding = Embed(nodes[a].label.text, dims)
  BY <1>1, <1>2, <1>3, ScanEmbeds
<1>4. ASSUME NEW a \in ours, NEW b \in ours, a # b
      PROVE  NewlyCovered(e, SimilarTo(a, b), score(a, b), threshold)
  <2>1. Before(a, b) \/ Before(b, a)
    <3>1. a \in NodeId /\ b \in NodeId
      BY <1>3
    <3>2. /\ a = <<a[1], a[2]>> /\ b = <<b[1], b[2]>>
          /\ a[1] \in Nat /\ a[2] \in Nat /\ b[1] \in Nat /\ b[2] \in Nat
      <4>1. a \in Nat \X Nat /\ b \in Nat \X Nat
        BY <3>1, ReplicaAssumption, LocalIdAssumption DEF NodeId
      <4> QED
        BY <4>1
    <3>3. a[1] # b[1] \/ a[2] # b[2]
      BY <1>4, <3>2
    <3> QED
      BY <3>2, <3>3 DEF Before
  <2>2. score(a, b) = TextScore(e, dims, a, b)
    BY <1>3, Zenon DEF TextScore
  <2>3. Ours(e, a) /\ Ours(e, b)
    BY <1>2
  <2> HIDE DEF score
  <2>4. Covered(e, SimilarTo(a, b), score(a, b), threshold)
    BY <1>1, <2>1, <2>2, <2>3, PairCovered
  <2> QED
    BY <2>4 DEF Covered, NewlyCovered
<1> QED
  BY <1>3, <1>4, Zenon DEF ours

\* A scan leaves every node with a text that is the engine's own to embed with
\* its new embedding and each pair of them that reaches the threshold with edges
\* both ways, with its score in them once where there was none, and nothing else
\* in any of them (Engine::scan_proximity).
THEOREM ScansAlwaysCover == Spec => ScansCover
<1>1. Inv => \A e \in Replica, dims \in Dims, threshold \in Threshold :
               Scan(e, dims, threshold) =>
                 LET taken == {s.op.id : s \in {x \in Known(e) : /\ x.op.type = "SetEmbedding"
                                                                 /\ x.tag.replica > e}}
                     ours  == Contents(forest[e]) \ taken
                     nodes == NodesOf(forest'[e].view)
                     score(a, b) == Score[Embed(nodes[a].label.text, dims), Embed(nodes[b].label.text, dims)]
                     before(a, b) == Value(forest[e].view.edge_weight[SimilarTo(a, b)])
                     after(a, b)  == Value(forest'[e].view.edge_weight[SimilarTo(a, b)])
                 IN  /\ \A a \in ours : nodes[a].embedding = Embed(nodes[a].label.text, dims)
                     /\ \A a, b \in ours : a # b =>
                          IF score(a, b) >= threshold
                          THEN /\ SimilarTo(a, b) \in DOMAIN EdgesOf(forest'[e].view)
                               /\ SimilarTo(a, b) \notin DOMAIN EdgesOf(forest[e].view) =>
                                    after(a, b) = Signed(before(a, b) + score(a, b))
                          ELSE after(a, b) = before(a, b)
  BY ScanCovers, Zenon DEF NewlyCovered
<1> QED
  BY <1>1, AlwaysInv, PTL DEF ScansCover
=============================================================================
