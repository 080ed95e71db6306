--------------------------- MODULE SnapshotsProofs -------------------------
(***************************************************************************)
(* Theorems about snapshots and restarts, for any number of replicas,      *)
(* crashes and nodes, and any clocks: hosts that save before they export   *)
(* never see a name used twice.                                            *)
(***************************************************************************)
EXTENDS Snapshots, NumberProofs

-----------------------------------------------------------------------------
\* An import goes through its log entry by entry.

\* The forests on the way are well defined.
Way(f, n, f0, l, reading) ==
  f = [i \in 0..n |-> IF i = 0 THEN f0 ELSE ApplyTo(f[i - 1], l[i], reading)]

ChosenWay(f0, l, reading) ==
  CHOOSE f :
    f = [i \in 0..Len(l) |-> IF i = 0 THEN f0 ELSE ApplyTo(f[i - 1], l[i], reading)]

LEMMA WayExists ==
  ASSUME NEW f0, NEW l, NEW reading, NEW n \in Nat
  PROVE  \E f : Way(f, n, f0, l, reading)
<1> DEFINE T == {m \in Nat : ~ \E f : Way(f, m, f0, l, reading)}
<1> SUFFICES ASSUME T # {}
             PROVE  FALSE
  OBVIOUS
<1>1. PICK m \in T : \A k \in T : m <= k
  BY Least
<1>2. CASE m = 0
  <2>1. Way([i \in 0..0 |-> f0], 0, f0, l, reading)
    BY DEF Way
  <2> QED
    BY <1>1, <1>2, <2>1
<1>3. CASE m # 0
  <2>1. m - 1 \in Nat /\ m - 1 \notin T
    BY <1>1, <1>3
  <2>2. PICK f : Way(f, m - 1, f0, l, reading)
    BY <2>1
  <2> DEFINE g == [i \in 0..m |-> IF i = m THEN ApplyTo(f[m - 1], l[m], reading) ELSE f[i]]
  <2>3. \A i \in 0..(m - 1) : f[i] = IF i = 0 THEN f0 ELSE ApplyTo(f[i - 1], l[i], reading)
    BY <2>2 DEF Way
  <2>4. \A i \in 0..m : g[i] = IF i = 0 THEN f0 ELSE ApplyTo(g[i - 1], l[i], reading)
    <3> SUFFICES ASSUME NEW i \in 0..m
                 PROVE  g[i] = IF i = 0 THEN f0 ELSE ApplyTo(g[i - 1], l[i], reading)
      OBVIOUS
    <3>1. CASE i = m
      BY <1>1, <1>3, <3>1
    <3>2. CASE i # m
      <4>1. i \in 0..(m - 1)
        BY <1>1, <3>2
      <4>2. g[i] = f[i]
        BY <3>2
      <4>3. i # 0 => i - 1 \in 0..m /\ i - 1 # m /\ g[i - 1] = f[i - 1]
        BY <1>1, <4>1
      <4> HIDE DEF g
      <4> QED
        BY <2>3, <4>1, <4>2, <4>3
    <3> QED
      BY <3>1, <3>2
  <2>5. g = [i \in 0..m |-> IF i = 0 THEN f0 ELSE ApplyTo(g[i - 1], l[i], reading)]
    <3>1. g = [i \in 0..m |-> g[i]]
      OBVIOUS
    <3> HIDE DEF g
    <3> QED
      BY <2>4, <3>1
  <2> QED
    BY <1>1, <2>5 DEF Way
<1> QED
  BY <1>2, <1>3

\* What an import makes of a forest has every property that the entries of the
\* log preserve one by one.
LEMMA ApplyAllKeeps ==
  ASSUME NEW G, NEW f0 \in G, NEW l, Len(l) \in Nat, NEW reading,
         \A f \in G, i \in 1..Len(l) : ApplyTo(f, l[i], reading) \in G
  PROVE  ApplyAll(f0, l, reading) \in G
<1> DEFINE f == ChosenWay(f0, l, reading)
<1>1. Way(f, Len(l), f0, l, reading)
  <2>1. \E g : Way(g, Len(l), f0, l, reading)
    BY WayExists
  <2> QED
    BY <2>1, Zenon DEF Way, ChosenWay
<1>2. ApplyAll(f0, l, reading) = f[Len(l)]
  BY DEF ApplyAll, ChosenWay
<1> HIDE DEF f
<1>3. /\ f[0] = f0
      /\ \A i \in 1..Len(l) : f[i] = ApplyTo(f[i - 1], l[i], reading)
  BY <1>1 DEF Way
<1> DEFINE T == {i \in 0..Len(l) : f[i] \notin G}
<1>4. T = {}
  <2> SUFFICES ASSUME T # {}
               PROVE  FALSE
    OBVIOUS
  <2>0. T \in SUBSET Nat
    OBVIOUS
  <2>1. PICK m \in T : \A k \in T : m <= k
    <3> HIDE DEF T
    <3> QED
      BY <2>0, Least
  <2>2. m # 0
    BY <1>3
  <2>3. m \in 1..Len(l) /\ m - 1 \in 0..Len(l) /\ ~ (m <= m - 1)
    BY <2>2
  <2>4. f[m - 1] \in G
    BY <2>1, <2>3
  <2>5. f[m] \in G
    BY <1>3, <2>3, <2>4
  <2> QED
    BY <2>5
<1>5. Len(l) \in 0..Len(l)
  OBVIOUS
<1> QED
  BY <1>2, <1>4, <1>5

-----------------------------------------------------------------------------
\* One entry.

LEMMA RangeIn ==
  ASSUME NEW S, NEW l \in Seq(S)
  PROVE  Range(l) \subseteq S
<1>1. DOMAIN l = 1..Len(l) /\ \A i \in 1..Len(l) : l[i] \in S
  OBVIOUS
<1> QED
  BY <1>1 DEF Range

LEMMA RangeOfAppend ==
  ASSUME NEW S, NEW l \in Seq(S), NEW s \in S
  PROVE  Append(l, s) \in Seq(S) /\ Range(Append(l, s)) = Range(l) \cup {s}
<1>1. /\ Append(l, s) \in Seq(S) /\ Len(Append(l, s)) = Len(l) + 1 /\ Len(l) \in Nat
      /\ \A i \in 1..Len(l) : Append(l, s)[i] = l[i]
      /\ Append(l, s)[Len(l) + 1] = s
      /\ DOMAIN l = 1..Len(l) /\ DOMAIN Append(l, s) = 1..(Len(l) + 1)
  OBVIOUS
<1>2. Range(l) \subseteq Range(Append(l, s)) /\ s \in Range(Append(l, s))
  BY <1>1 DEF Range
<1>3. ASSUME NEW x \in Range(Append(l, s))
      PROVE  x \in Range(l) \cup {s}
  <2>1. PICK i \in 1..(Len(l) + 1) : x = Append(l, s)[i]
    BY <1>1 DEF Range
  <2>2. CASE i = Len(l) + 1
    BY <1>1, <2>1, <2>2
  <2>3. CASE i # Len(l) + 1
    <3>1. i \in 1..Len(l)
      BY <1>1, <2>3
    <3> QED
      BY <1>1, <2>1, <3>1 DEF Range
  <2> QED
    BY <2>2, <2>3
<1> QED
  BY <1>1, <1>2, <1>3

\* A forest of r has counted the node of an entry, if it is one of r's own.
Counted(r, f, s) == s.id[1] = r => s.id[2] < f.next_local_id

\* g is the consistent forest f of r with s taken in, if it was not in it.
Takes(r, f, s, g) ==
  /\ g \in ForestType /\ Whole(r, g)
  /\ g.next_local_id = f.next_local_id
  /\ s.tag \in f.applied_tags => g = f
  /\ s.tag \notin f.applied_tags => Range(g.log) = Range(f.log) \cup {s}

\* Forest::apply of one entry: it is in the log afterwards if its tag was not
\* yet seen, and the forest stays consistent if an entry with a node of its
\* own is one that it has counted.
LEMMA ApplyToEffect ==
  ASSUME NEW r, NEW f \in ForestType, Whole(r, f), NEW s \in Entry, NEW reading \in Nat,
         Counted(r, f, s)
  PROVE  Takes(r, f, s, ApplyTo(f, s, reading))
<1> DEFINE g == ApplyTo(f, s, reading)
<1>1. CASE s.tag \in f.applied_tags
  <2>1. g = f
    BY <1>1 DEF ApplyTo
  <2> QED
    BY <1>1, <2>1 DEF Takes
<1>2. CASE s.tag \notin f.applied_tags
  <2>1. /\ f.clock \in Hlc /\ f.next_local_id \in Nat /\ f.log \in Seq(Entry)
        /\ f.applied_tags \subseteq [replica : Replica, hlc : Hlc]
        /\ s.tag \in [replica : Replica, hlc : Hlc] /\ s.tag.hlc \in Hlc
    BY DEF ForestType, Entry
  <2>2. g = [clock |-> Observe(f.clock, s.tag.hlc, reading),
             next_local_id |-> f.next_local_id,
             applied_tags |-> f.applied_tags \cup {s.tag}, log |-> Append(f.log, s)]
    BY <1>2 DEF ApplyTo, ForestType
  <2> HIDE DEF g
  <2>3. /\ g.clock = Observe(f.clock, s.tag.hlc, reading)
        /\ g.next_local_id = f.next_local_id
        /\ g.applied_tags = f.applied_tags \cup {s.tag} /\ g.log = Append(f.log, s)
    BY <2>2
  <2>4. /\ g.clock \in Hlc /\ HlcLT(f.clock, g.clock) /\ HlcLT(s.tag.hlc, g.clock)
    <3>1. /\ Observe(f.clock, s.tag.hlc, reading) \in Hlc
          /\ HlcLT(f.clock, Observe(f.clock, s.tag.hlc, reading))
          /\ HlcLT(s.tag.hlc, Observe(f.clock, s.tag.hlc, reading))
      BY <2>1, ObserveAdvances
    <3> QED
      BY <2>3, <3>1
  <2>5. g.log \in Seq(Entry) /\ Range(g.log) = Range(f.log) \cup {s}
    BY <2>1, <2>3, RangeOfAppend
  <2>6. g \in ForestType
    BY <2>1, <2>2, <2>3, <2>4, <2>5 DEF ForestType
  <2>7. \A x \in Range(f.log) : x.tag.hlc \in Hlc
    <3>1. Range(f.log) \subseteq Entry
      BY <2>1, RangeIn
    <3> QED
      BY <3>1 DEF Entry
  <2>8. \A x \in Range(f.log) : HlcLT(x.tag.hlc, f.clock)
    BY DEF Whole
  <2>9. \A x \in Range(g.log) : HlcLT(x.tag.hlc, g.clock)
    BY <2>1, <2>4, <2>5, <2>7, <2>8, HlcOrder
  <2>10. Whole(r, g)
    BY <2>3, <2>5, <2>9 DEF Whole, Counted
  <2> QED
    BY <1>2, <2>3, <2>5, <2>6, <2>10 DEF g, Takes
<1> QED
  BY <1>1, <1>2

-----------------------------------------------------------------------------
\* Who holds what.

LEMMA WallClockRuns ==
  ASSUME TypeOK, NEW r \in Replica
  PROVE  WallClock(r) \in Nat
<1>1. now \in Nat
  BY DEF TypeOK
<1>2. Skew[r] \in Nat
  BY SkewAssumption
<1> QED
  BY <1>1, <1>2 DEF WallClock

LEMMA HeldByIs ==
  ASSUME NEW R, NEW s
  PROVE  s \in HeldBy(R) <=> \/ \E q \in R : s \in Held(forest[q]) \/ s \in Held(disk[q])
                            \/ \E l \in wire : s \in Range(l)
BY DEF HeldBy

LEMMA HeldByIsNext ==
  ASSUME NEW R, NEW s
  PROVE  s \in HeldBy(R)' <=> \/ \E q \in R : s \in Held(forest'[q]) \/ s \in Held(disk'[q])
                             \/ \E l \in wire' : s \in Range(l)
BY DEF HeldBy, Held

\* What anybody holds that r has made, r holds too, while it runs.
LEMMA OwnIsHeld ==
  ASSUME SnapshotInv, NEW r \in Replica, Up(r), NEW s \in HeldBy(Replica), s.tag.replica = r
  PROVE  s \in Range(forest[r].log)
<1>1. Held(disk[r]) \subseteq Held(forest[r]) /\ Held(forest[r]) = Range(forest[r].log)
  BY DEF SnapshotInv, FilesBehind, Up, Held
<1>2. s \in HeldBy(Replica \ {r}) => s \in Held(disk[r])
  BY DEF SnapshotInv, OnFile
<1>3. s \in HeldBy(Replica \ {r}) \/ s \in Held(forest[r]) \/ s \in Held(disk[r])
  BY HeldByIs
<1> QED
  BY <1>1, <1>2, <1>3

\* A step after which nobody holds anything new keeps names unique and what is
\* on file.
LEMMA NothingNew ==
  ASSUME OnFile, NamesAreUnique,
         \A R \in SUBSET Replica : HeldBy(R)' \subseteq HeldBy(R),
         \A q \in Replica : Up(q)' => Up(q) /\ Held(disk[q]) \subseteq Held(disk'[q])
  PROVE  OnFile' /\ NamesAreUnique'
<1>1. NamesAreUnique'
  <2>1. HeldBy(Replica)' \subseteq HeldBy(Replica)
    OBVIOUS
  <2> QED
    BY <2>1 DEF NamesAreUnique
<1>2. OnFile'
  <2> SUFFICES ASSUME NEW q \in Replica, Up(q)', NEW s \in HeldBy(Replica \ {q})',
                      s.tag.replica = q
               PROVE  s \in Held(disk'[q])
    BY DEF OnFile, Held
  <2>1. s \in HeldBy(Replica \ {q}) /\ Up(q) /\ Held(disk[q]) \subseteq Held(disk'[q])
    OBVIOUS
  <2> QED
    BY <2>1 DEF OnFile
<1> QED
  BY <1>1, <1>2

LEMMA InitHolds ==
  ASSUME Init
  PROVE  SnapshotInv
<1>1. <<>> \in Seq(Entry) /\ Range(<<>>) = {}
  BY DEF Range
<1>2. NewForest \in ForestType
  BY <1>1 DEF NewForest, ForestType, HlcZero, Hlc
<1>3. Held(NewForest) = {} /\ \A r : Whole(r, NewForest)
  BY <1>1 DEF Held, NewForest, Whole
<1>4. TypeOK
  BY <1>2, <1>3 DEF Init, TypeOK
<1>5. HeldBy(Replica) = {} /\ \A q \in Replica : HeldBy(Replica \ {q}) = {}
  BY <1>3, HeldByIs DEF Init
<1>6. FilesBehind
  BY <1>2, TornAssumption DEF FilesBehind, Init
<1> QED
  BY <1>4, <1>5, <1>6 DEF SnapshotInv, OnFile, NamesAreUnique

-----------------------------------------------------------------------------
\* One lemma for each operation.

\* Forest::add_node: the id and the tag are new to everybody.
LEMMA AddNodeKeeps ==
  ASSUME SnapshotInv, NEW r \in Replica, AddNode(r)
  PROVE  SnapshotInv'
<1> DEFINE f == forest[r]
           t == Tick(f.clock, WallClock(r))
           e == [f EXCEPT !.clock = t, !.next_local_id = @ + 1]
<1>1. PICK label \in Label :
        forest' = [forest EXCEPT
          ![r] = ApplyTo(e, [tag |-> [replica |-> r, hlc |-> t],
                             id |-> <<r, f.next_local_id>>, label |-> label], WallClock(r))]
  BY DEF AddNode
<1> DEFINE s == [tag |-> [replica |-> r, hlc |-> t], id |-> <<r, f.next_local_id>>,
                 label |-> label]
           g == ApplyTo(e, s, WallClock(r))
<1>2. /\ TypeOK /\ Up(r) /\ FilesBehind /\ OnFile /\ NamesAreUnique
      /\ saved' = [saved EXCEPT ![r] = FALSE] /\ UNCHANGED <<disk, wire, now, crashes>>
  BY DEF AddNode, SnapshotInv
<1>3. /\ f \in ForestType /\ Whole(r, f) /\ WallClock(r) \in Nat
      /\ f.clock \in Hlc /\ f.next_local_id \in Nat
      /\ Range(f.log) \subseteq Entry
  <2>1. f \in ForestType /\ Whole(r, f)
    BY <1>2 DEF TypeOK, Up
  <2>2. WallClock(r) \in Nat
    BY <1>2, WallClockRuns
  <2>3. f.clock \in Hlc /\ f.next_local_id \in Nat /\ f.log \in Seq(Entry)
    BY <2>1 DEF ForestType
  <2>4. Range(f.log) \subseteq Entry
    BY <2>3, RangeIn
  <2> QED
    BY <2>1, <2>2, <2>3, <2>4
<1>4. t \in Hlc /\ HlcLT(f.clock, t)
  BY <1>3, TickAdvances
<1> HIDE DEF t
<1>5. s \in Entry
  BY <1>3, <1>4 DEF Entry
<1>6. \A x \in Range(f.log) : /\ x.tag.hlc \in Hlc /\ HlcLT(x.tag.hlc, t)
                              /\ x.id[1] = r => x.id[2] < f.next_local_id /\ x.id[2] \in Nat
  <2> TAKE x \in Range(f.log)
  <2>1. x.tag.hlc \in Hlc /\ x.id[2] \in Nat
    BY <1>3 DEF Entry
  <2>2. HlcLT(x.tag.hlc, f.clock) /\ (x.id[1] = r => x.id[2] < f.next_local_id)
    BY <1>3 DEF Whole
  <2> QED
    BY <1>3, <1>4, <2>1, <2>2, HlcOrder
<1>7. /\ e \in ForestType /\ e.log = f.log /\ e.applied_tags = f.applied_tags
      /\ e.clock = t /\ e.next_local_id = f.next_local_id + 1
  <2>1. f.next_local_id + 1 \in Nat
    BY <1>3
  <2> QED
    BY <1>3, <1>4, <2>1 DEF ForestType
<1>8. Whole(r, e)
  <2>1. e.applied_tags = {x.tag : x \in Range(e.log)}
    BY <1>3, <1>7 DEF Whole
  <2>2. \A x \in Range(e.log) : /\ HlcLT(x.tag.hlc, e.clock)
                                /\ x.id[1] = r => x.id[2] < e.next_local_id
    BY <1>3, <1>6, <1>7
  <2> QED
    BY <2>1, <2>2 DEF Whole
<1>9. s.tag \notin e.applied_tags
  <2>1. \A x \in Range(f.log) : x.tag # s.tag
    BY <1>4, <1>6, HlcOrder
  <2> QED
    BY <1>7, <1>8, <2>1 DEF Whole
<1> HIDE DEF e
<1>10. /\ g \in ForestType /\ Whole(r, g)
       /\ Range(g.log) = Range(f.log) \cup {s}
  <2>1. s.id[1] = r /\ s.id[2] = f.next_local_id
    OBVIOUS
  <2>2. Counted(r, e, s)
    BY <1>3, <1>7, <2>1 DEF Counted
  <2> HIDE DEF s
  <2>3. e \in ForestType /\ Whole(r, e) /\ s \in Entry /\ WallClock(r) \in Nat
    BY <1>3, <1>5, <1>7, <1>8
  <2>4. g \in ForestType /\ Whole(r, g) /\ Range(g.log) = Range(e.log) \cup {s}
    <3>1. Takes(r, e, s, g)
      BY <2>2, <2>3, ApplyToEffect
    <3> QED
      BY <1>9, <3>1 DEF Takes
  <2> QED
    BY <1>7, <2>4
<1>11. s.tag.replica = r /\ s.tag.hlc = t /\ s.id[1] = r /\ s.id[2] = f.next_local_id
  OBVIOUS
<1> HIDE DEF s, g
<1>12. forest' = [forest EXCEPT ![r] = g]
  BY <1>1 DEF g, s
<1>13. forest \in [Replica -> ForestType \cup {Torn}]
  BY <1>2 DEF TypeOK
<1>14. forest'[r] = g /\ \A q \in Replica \ {r} : forest'[q] = forest[q]
  BY <1>12, <1>13
<1>15. TypeOK'
  <2>1. forest' \in [Replica -> ForestType \cup {Torn}]
    BY <1>10, <1>12, <1>13
  <2>2. \A q \in Replica : forest'[q] # Torn => Whole(q, forest'[q])
    BY <1>2, <1>10, <1>14 DEF TypeOK
  <2> QED
    BY <1>2, <2>1, <2>2 DEF TypeOK
<1>16. Held(g) = Held(f) \cup {s} /\ Held(f) = Range(f.log)
  BY <1>2, <1>10, TornAssumption DEF Held, Up
<1>17. FilesBehind'
  <2> SUFFICES ASSUME NEW q \in Replica, Up(q)'
               PROVE  /\ disk'[q] # Torn /\ Held(disk'[q]) \subseteq Held(forest'[q])
                      /\ saved'[q] => disk'[q] = forest'[q]
    BY DEF FilesBehind, Held
  <2>1. CASE q = r
    <3>1. disk[r] # Torn /\ Held(disk[r]) \subseteq Held(f) /\ ~ saved'[r]
      BY <1>2 DEF FilesBehind, TypeOK
    <3> QED
      BY <1>2, <1>14, <1>16, <2>1, <3>1
  <2>2. CASE q # r
    <3>1. Up(q) /\ saved'[q] = saved[q]
      BY <1>2, <1>14, <2>2 DEF Up, TypeOK
    <3> QED
      BY <1>2, <1>14, <2>2, <3>1 DEF FilesBehind
  <2> QED
    BY <2>1, <2>2
<1>18. \A R \in SUBSET Replica : \A x \in HeldBy(R)' : x \in HeldBy(R) \/ (x = s /\ r \in R)
  <2> SUFFICES ASSUME NEW R \in SUBSET Replica, NEW x \in HeldBy(R)', x # s \/ r \notin R
               PROVE  x \in HeldBy(R)
    OBVIOUS
  <2>1. \/ \E q \in R : x \in Held(forest'[q]) \/ x \in Held(disk[q])
        \/ \E l \in wire : x \in Range(l)
    BY <1>2, HeldByIsNext
  <2>2. \A q \in R : x \in Held(forest'[q]) => x \in Held(forest[q])
    BY <1>14, <1>16
  <2> QED
    BY <2>1, <2>2, HeldByIs
<1>19. OnFile'
  <2> SUFFICES ASSUME NEW q \in Replica, Up(q)', NEW x \in HeldBy(Replica \ {q})',
                      x.tag.replica = q
               PROVE  x \in Held(disk'[q])
    BY DEF OnFile, Held
  <2>1. x \in HeldBy(Replica \ {q})
    <3>1. x \in HeldBy(Replica \ {q}) \/ (x = s /\ r \in Replica \ {q})
      BY <1>18
    <3> QED
      BY <1>11, <3>1
  <2>2. Up(q)
    BY <1>2, <1>14 DEF Up
  <2> QED
    BY <1>2, <2>1, <2>2 DEF OnFile
<1>20. \A x \in HeldBy(Replica) : x.id # s.id /\ x.tag # s.tag
  <2> SUFFICES ASSUME NEW x \in HeldBy(Replica), x.id = s.id \/ x.tag = s.tag
               PROVE  FALSE
    OBVIOUS
  <2>1. x.id[1] = x.tag.replica
    BY <1>2 DEF NamesAreUnique
  <2>2. x.tag.replica = r /\ x.id[1] = r
    BY <1>11, <2>1
  <2>3. x \in Range(f.log)
    BY <1>2, <2>2, OwnIsHeld
  <2>4. HlcLT(x.tag.hlc, t) /\ x.id[2] < f.next_local_id /\ x.id[2] \in Nat
    BY <1>6, <2>2, <2>3
  <2> QED
    BY <1>3, <1>4, <1>11, <2>4, HlcOrder
<1>21. NamesAreUnique'
  <2> SUFFICES ASSUME NEW x \in HeldBy(Replica)', NEW y \in HeldBy(Replica)'
               PROVE  x.id[1] = x.tag.replica /\ (x.id = y.id \/ x.tag = y.tag => x = y)
    BY DEF NamesAreUnique
  <2>1. (x \in HeldBy(Replica) \/ x = s) /\ (y \in HeldBy(Replica) \/ y = s)
    BY <1>18
  <2> QED
    BY <1>2, <1>11, <1>20, <2>1 DEF NamesAreUnique
<1> QED
  BY <1>15, <1>17, <1>19, <1>21 DEF SnapshotInv

\* Engine::export_delta, of a forest that is on file: what goes out is there.
LEMMA ExportDeltaKeeps ==
  ASSUME SnapshotInv, SaveFirst, NEW r \in Replica, ExportDelta(r)
  PROVE  SnapshotInv'
<1>1. /\ TypeOK /\ FilesBehind /\ OnFile /\ NamesAreUnique /\ Up(r) /\ saved[r]
      /\ wire' = wire \cup {forest[r].log} /\ UNCHANGED <<forest, disk, saved, now, crashes>>
  BY DEF ExportDelta, SnapshotInv
<1>2. forest[r].log \in Seq(Entry)
  <2>1. forest[r] \in ForestType
    BY <1>1 DEF TypeOK, Up
  <2> QED
    BY <2>1 DEF ForestType
<1>3. TypeOK'
  BY <1>1, <1>2 DEF TypeOK
<1>4. FilesBehind'
  BY <1>1 DEF FilesBehind, Up, Held
<1>5. /\ disk[r] = forest[r] /\ Held(forest[r]) = Range(forest[r].log)
  BY <1>1 DEF FilesBehind, Up, Held
<1>6. \A R \in SUBSET Replica : \A x \in HeldBy(R)' : x \in HeldBy(R) \/ x \in Held(forest[r])
  <2> SUFFICES ASSUME NEW R \in SUBSET Replica, NEW x \in HeldBy(R)', x \notin Held(forest[r])
               PROVE  x \in HeldBy(R)
    OBVIOUS
  <2>1. \/ \E q \in R : x \in Held(forest[q]) \/ x \in Held(disk[q])
        \/ \E l \in wire' : x \in Range(l)
    BY <1>1, HeldByIsNext
  <2> QED
    BY <1>1, <1>5, <2>1, HeldByIs
<1>7. \A R \in SUBSET Replica : r \in R => Held(forest[r]) \subseteq HeldBy(R)
  BY HeldByIs
<1>8. NamesAreUnique'
  <2>1. HeldBy(Replica)' \subseteq HeldBy(Replica)
    BY <1>6, <1>7
  <2> QED
    BY <1>1, <2>1 DEF NamesAreUnique
<1>9. OnFile'
  <2> SUFFICES ASSUME NEW q \in Replica, Up(q)', NEW x \in HeldBy(Replica \ {q})',
                      x.tag.replica = q
               PROVE  x \in Held(disk'[q])
    BY DEF OnFile, Held
  <2>1. disk' = disk /\ Up(q)
    BY <1>1 DEF Up
  <2>2. CASE x \in HeldBy(Replica \ {q})
    BY <1>1, <2>1, <2>2 DEF OnFile
  <2>3. CASE x \notin HeldBy(Replica \ {q})
    <3>1. x \in Held(forest[r]) /\ r = q
      BY <1>6, <1>7, <2>3
    <3> QED
      BY <1>5, <2>1, <3>1
  <2> QED
    BY <2>2, <2>3
<1> QED
  BY <1>3, <1>4, <1>8, <1>9 DEF SnapshotInv

\* What apply_all makes of a consistent forest of r, from entries of which it
\* has counted its own.
LEMMA ImportEffect ==
  ASSUME NEW r \in Replica, NEW f \in ForestType, Whole(r, f), NEW l \in Seq(Entry),
         \A s \in Range(l) : Counted(r, f, s), NEW reading \in Nat
  PROVE  LET g == ApplyAll(f, l, reading) IN
         /\ g \in ForestType /\ Whole(r, g)
         /\ Range(f.log) \subseteq Range(g.log)
         /\ Range(g.log) \subseteq Range(f.log) \cup Range(l)
<1> DEFINE G == {g \in ForestType : /\ Whole(r, g) /\ g.next_local_id = f.next_local_id
                                  /\ Range(f.log) \subseteq Range(g.log)
                                  /\ Range(g.log) \subseteq Range(f.log) \cup Range(l)}
<1>1. f \in G /\ Len(l) \in Nat
  OBVIOUS
<1>2. ASSUME NEW g \in G, NEW i \in 1..Len(l)
      PROVE  ApplyTo(g, l[i], reading) \in G
  <2>1. l[i] \in Entry /\ l[i] \in Range(l)
    BY DEF Range
  <2>2. Counted(r, g, l[i])
    BY <2>1 DEF Counted
  <2>3. g \in ForestType /\ Whole(r, g)
    OBVIOUS
  <2> DEFINE h == ApplyTo(g, l[i], reading)
  <2>4. /\ h \in ForestType /\ Whole(r, h) /\ h.next_local_id = g.next_local_id
        /\ h = g \/ Range(h.log) = Range(g.log) \cup {l[i]}
    <3>1. Takes(r, g, l[i], h)
      <4> HIDE DEF G
      <4> QED
        BY <2>1, <2>2, <2>3, ApplyToEffect
    <3> HIDE DEF h
    <3> QED
      BY <3>1 DEF Takes
  <2> HIDE DEF h
  <2>5. /\ Range(f.log) \subseteq Range(h.log)
        /\ Range(h.log) \subseteq Range(f.log) \cup Range(l)
    BY <2>1, <2>4
  <2>6. h.next_local_id = f.next_local_id
    BY <2>4
  <2>7. h \in G
    BY <2>4, <2>5, <2>6
  <2> QED
    BY <2>7 DEF h
<1> HIDE DEF G
<1>3. ApplyAll(f, l, reading) \in G
  BY <1>1, <1>2, ApplyAllKeeps
<1> QED
  BY <1>3 DEF G

\* Engine::import_delta: nothing that was not there already, and the entries of
\* r's own making r has still counted.
LEMMA ImportDeltaKeeps ==
  ASSUME SnapshotInv, NEW r \in Replica, ImportDelta(r)
  PROVE  SnapshotInv'
<1>1. PICK l \in wire : forest' = [forest EXCEPT ![r] = ApplyAll(forest[r], l, WallClock(r))]
  BY DEF ImportDelta
<1> DEFINE g == ApplyAll(forest[r], l, WallClock(r))
<1>2. /\ TypeOK /\ FilesBehind /\ OnFile /\ NamesAreUnique /\ Up(r)
      /\ saved' = [saved EXCEPT ![r] = @ /\ forest' = forest]
      /\ UNCHANGED <<disk, wire, now, crashes>>
  BY DEF ImportDelta, SnapshotInv
<1>3. /\ forest[r] \in ForestType /\ Whole(r, forest[r]) /\ WallClock(r) \in Nat
      /\ l \in Seq(Entry)
  <2>1. WallClock(r) \in Nat
    BY <1>2, WallClockRuns
  <2> QED
    BY <1>2, <2>1 DEF TypeOK, Up
<1>4. \A s \in Range(l) : Counted(r, forest[r], s)
  <2> SUFFICES ASSUME NEW s \in Range(l), s.id[1] = r
               PROVE  s.id[2] < forest[r].next_local_id
    BY DEF Counted
  <2>1. s \in HeldBy(Replica)
    BY HeldByIs
  <2>2. s.tag.replica = r
    BY <1>2, <2>1 DEF NamesAreUnique
  <2>3. s \in Range(forest[r].log)
    BY <1>2, <2>1, <2>2, OwnIsHeld
  <2> QED
    BY <1>3, <2>3 DEF Whole
<1>5. /\ g \in ForestType /\ Whole(r, g)
      /\ Range(forest[r].log) \subseteq Range(g.log)
      /\ Range(g.log) \subseteq Range(forest[r].log) \cup Range(l)
  BY <1>3, <1>4, ImportEffect
<1> HIDE DEF g
<1>6. forest' = [forest EXCEPT ![r] = g] /\ forest \in [Replica -> ForestType \cup {Torn}]
  BY <1>1, <1>2 DEF g, TypeOK
<1>7. forest'[r] = g /\ \A q \in Replica \ {r} : forest'[q] = forest[q]
  BY <1>6
<1>8. TypeOK'
  <2>1. forest' \in [Replica -> ForestType \cup {Torn}]
    BY <1>5, <1>6
  <2>2. \A q \in Replica : forest'[q] # Torn => Whole(q, forest'[q])
    BY <1>2, <1>5, <1>7 DEF TypeOK
  <2>3. saved' \in [Replica -> BOOLEAN]
    <3>1. saved \in [Replica -> BOOLEAN]
      BY <1>2 DEF TypeOK
    <3>2. (saved[r] /\ forest' = forest) \in BOOLEAN
      OBVIOUS
    <3> QED
      BY <1>2, <3>1, <3>2, Zenon
  <2> QED
    BY <1>2, <2>1, <2>2, <2>3 DEF TypeOK
<1>9. /\ Held(forest[r]) = Range(forest[r].log) /\ Held(g) = Range(g.log)
  BY <1>2, <1>5, TornAssumption DEF Held, Up
<1>10. FilesBehind'
  <2> SUFFICES ASSUME NEW q \in Replica, Up(q)'
               PROVE  /\ disk'[q] # Torn /\ Held(disk'[q]) \subseteq Held(forest'[q])
                      /\ saved'[q] => disk'[q] = forest'[q]
    BY DEF FilesBehind, Held
  <2>0. saved \in [Replica -> BOOLEAN]
    BY <1>2 DEF TypeOK
  <2>1. CASE q = r
    <3>1. /\ disk[r] # Torn /\ Held(disk[r]) \subseteq Held(forest[r])
          /\ saved[r] => disk[r] = forest[r]
      BY <1>2 DEF FilesBehind
    <3>2. saved'[r] => saved[r] /\ forest' = forest
      BY <1>2, <2>0
    <3>3. Held(disk[r]) \subseteq Held(g)
      BY <1>5, <1>9, <3>1
    <3> QED
      BY <1>2, <1>7, <2>1, <3>1, <3>2, <3>3
  <2>2. CASE q # r
    <3>1. Up(q) /\ saved'[q] = saved[q]
      BY <1>2, <1>7, <2>0, <2>2 DEF Up
    <3> QED
      BY <1>2, <1>7, <2>2, <3>1 DEF FilesBehind
  <2> QED
    BY <2>1, <2>2
<1>11. \A R \in SUBSET Replica : HeldBy(R)' \subseteq HeldBy(R)
  <2> SUFFICES ASSUME NEW R \in SUBSET Replica, NEW x \in HeldBy(R)'
               PROVE  x \in HeldBy(R)
    OBVIOUS
  <2>1. \/ \E q \in R : x \in Held(forest'[q]) \/ x \in Held(disk[q])
        \/ \E k \in wire : x \in Range(k)
    BY <1>2, HeldByIsNext
  <2>2. \A q \in R : x \in Held(forest'[q]) => x \in Held(forest[q]) \/ x \in Range(l)
    BY <1>5, <1>7, <1>9
  <2> QED
    BY <2>1, <2>2, HeldByIs
<1>12. OnFile' /\ NamesAreUnique'
  <2>1. \A q \in Replica : Up(q)' => Up(q) /\ Held(disk[q]) \subseteq Held(disk'[q])
    BY <1>2, <1>7 DEF Up
  <2> QED
    BY <1>2, <1>11, <2>1, NothingNew
<1> QED
  BY <1>8, <1>10, <1>12 DEF SnapshotInv

\* snapshot::save: the file catches up with the memory.
LEMMA SaveKeeps ==
  ASSUME SnapshotInv, NEW r \in Replica, Save(r)
  PROVE  SnapshotInv'
<1>1. /\ TypeOK /\ FilesBehind /\ OnFile /\ NamesAreUnique /\ Up(r)
      /\ disk' = [disk EXCEPT ![r] = forest[r]] /\ saved' = [saved EXCEPT ![r] = TRUE]
      /\ UNCHANGED <<forest, wire, now, crashes>>
  BY DEF Save, SnapshotInv
<1>2. /\ disk'[r] = forest[r] /\ \A q \in Replica \ {r} : disk'[q] = disk[q]
      /\ \A q \in Replica \ {r} : saved'[q] = saved[q]
  BY <1>1 DEF TypeOK
<1>3. TypeOK'
  <2>1. /\ disk' \in [Replica -> ForestType \cup {Torn}]
        /\ saved' \in [Replica -> BOOLEAN]
    BY <1>1 DEF TypeOK
  <2>2. \A q \in Replica : disk'[q] # Torn => Whole(q, disk'[q])
    BY <1>1, <1>2 DEF TypeOK
  <2> QED
    BY <1>1, <2>1, <2>2 DEF TypeOK
<1>4. FilesBehind'
  BY <1>1, <1>2 DEF FilesBehind, Up, Held
<1>5. \A R \in SUBSET Replica : HeldBy(R)' \subseteq HeldBy(R)
  <2> SUFFICES ASSUME NEW R \in SUBSET Replica, NEW x \in HeldBy(R)'
               PROVE  x \in HeldBy(R)
    OBVIOUS
  <2>1. \/ \E q \in R : x \in Held(forest[q]) \/ x \in Held(disk'[q])
        \/ \E k \in wire : x \in Range(k)
    BY <1>1, HeldByIsNext
  <2>2. \A q \in R : x \in Held(disk'[q]) => x \in Held(forest[q]) \/ x \in Held(disk[q])
    BY <1>2
  <2> QED
    BY <2>1, <2>2, HeldByIs
<1>6. \A q \in Replica : Up(q)' => Up(q) /\ Held(disk[q]) \subseteq Held(disk'[q])
  BY <1>1, <1>2 DEF FilesBehind, Up
<1>7. OnFile' /\ NamesAreUnique'
  BY <1>1, <1>5, <1>6, NothingNew
<1> QED
  BY <1>3, <1>4, <1>7 DEF SnapshotInv

\* A crash and snapshot::load: what was not on file nobody else has heard of.
LEMMA CrashAndLoadKeeps ==
  ASSUME SnapshotInv, NEW r \in Replica, CrashAndLoad(r)
  PROVE  SnapshotInv'
<1>1. /\ TypeOK /\ FilesBehind /\ OnFile /\ NamesAreUnique /\ Up(r)
      /\ forest' = [forest EXCEPT ![r] = disk[r]] /\ saved' = [saved EXCEPT ![r] = TRUE]
      /\ now' = now + 1 /\ crashes' = crashes + 1 /\ UNCHANGED <<disk, wire>>
  BY DEF CrashAndLoad, SnapshotInv
<1>2. /\ forest'[r] = disk[r] /\ \A q \in Replica \ {r} : forest'[q] = forest[q]
      /\ \A q \in Replica \ {r} : saved'[q] = saved[q]
  BY <1>1 DEF TypeOK
<1>3. TypeOK'
  <2>1. /\ forest' \in [Replica -> ForestType \cup {Torn}]
        /\ saved' \in [Replica -> BOOLEAN]
    BY <1>1 DEF TypeOK
  <2>2. \A q \in Replica : forest'[q] # Torn => Whole(q, forest'[q])
    BY <1>1, <1>2 DEF TypeOK
  <2>3. now' \in Nat /\ crashes' \in Nat
    BY <1>1 DEF TypeOK
  <2> QED
    BY <1>1, <2>1, <2>2, <2>3 DEF TypeOK
<1>4. FilesBehind'
  BY <1>1, <1>2 DEF FilesBehind, Up, Held
<1>5. \A R \in SUBSET Replica : HeldBy(R)' \subseteq HeldBy(R)
  <2> SUFFICES ASSUME NEW R \in SUBSET Replica, NEW x \in HeldBy(R)'
               PROVE  x \in HeldBy(R)
    OBVIOUS
  <2>1. \/ \E q \in R : x \in Held(forest'[q]) \/ x \in Held(disk[q])
        \/ \E k \in wire : x \in Range(k)
    BY <1>1, HeldByIsNext
  <2>2. \A q \in R : x \in Held(forest'[q]) => x \in Held(forest[q]) \/ x \in Held(disk[q])
    BY <1>2
  <2> QED
    BY <2>1, <2>2, HeldByIs
<1>6. \A q \in Replica : Up(q)' => Up(q) /\ Held(disk[q]) \subseteq Held(disk'[q])
  BY <1>1, <1>2 DEF Up
<1>7. OnFile' /\ NamesAreUnique'
  BY <1>1, <1>5, <1>6, NothingNew
<1> QED
  BY <1>3, <1>4, <1>7 DEF SnapshotInv

\* A crash in snapshot::save: the replica is gone, and so is its file.
LEMMA CrashInSaveKeeps ==
  ASSUME SnapshotInv, NEW r \in Replica, CrashInSave(r)
  PROVE  SnapshotInv'
<1>1. /\ TypeOK /\ FilesBehind /\ OnFile /\ NamesAreUnique
      /\ forest' = [forest EXCEPT ![r] = Torn] /\ disk' = [disk EXCEPT ![r] = Torn]
      /\ now' = now + 1 /\ crashes' = crashes + 1 /\ UNCHANGED <<saved, wire>>
  BY DEF CrashInSave, SnapshotInv
<1>2. /\ forest'[r] = Torn /\ \A q \in Replica \ {r} : forest'[q] = forest[q]
      /\ disk'[r] = Torn /\ \A q \in Replica \ {r} : disk'[q] = disk[q]
  BY <1>1 DEF TypeOK
<1>3. TypeOK'
  <2>1. /\ forest' \in [Replica -> ForestType \cup {Torn}]
        /\ disk' \in [Replica -> ForestType \cup {Torn}]
    BY <1>1 DEF TypeOK
  <2>2. \A q \in Replica : /\ forest'[q] # Torn => Whole(q, forest'[q])
                           /\ disk'[q] # Torn => Whole(q, disk'[q])
    BY <1>1, <1>2 DEF TypeOK
  <2>3. now' \in Nat /\ crashes' \in Nat
    BY <1>1 DEF TypeOK
  <2> QED
    BY <1>1, <2>1, <2>2, <2>3 DEF TypeOK
<1>4. FilesBehind'
  BY <1>1, <1>2 DEF FilesBehind, Up, Held
<1>5. \A R \in SUBSET Replica : HeldBy(R)' \subseteq HeldBy(R)
  <2> SUFFICES ASSUME NEW R \in SUBSET Replica, NEW x \in HeldBy(R)'
               PROVE  x \in HeldBy(R)
    OBVIOUS
  <2>1. \/ \E q \in R : x \in Held(forest'[q]) \/ x \in Held(disk'[q])
        \/ \E k \in wire : x \in Range(k)
    BY <1>1, HeldByIsNext
  <2>2. Held(Torn) = {}
    BY DEF Held
  <2>3. \A q \in R : /\ x \in Held(forest'[q]) => x \in Held(forest[q])
                     /\ x \in Held(disk'[q]) => x \in Held(disk[q])
    BY <1>2, <2>2
  <2> QED
    BY <2>1, <2>3, HeldByIs
<1>6. \A q \in Replica : Up(q)' => Up(q) /\ Held(disk[q]) \subseteq Held(disk'[q])
  BY <1>1, <1>2 DEF Up
<1>7. OnFile' /\ NamesAreUnique'
  BY <1>1, <1>5, <1>6, NothingNew
<1> QED
  BY <1>3, <1>4, <1>7 DEF SnapshotInv

-----------------------------------------------------------------------------
LEMMA SnapshotInvInductive ==
  ASSUME SaveFirst, SnapshotInv, [Next]_vars
  PROVE  SnapshotInv'
<1>1. CASE UNCHANGED vars
  <2>1. /\ TypeOK' /\ FilesBehind'
    BY <1>1 DEF SnapshotInv, TypeOK, FilesBehind, Up, Held, vars
  <2>2. OnFile' /\ NamesAreUnique'
    BY <1>1 DEF SnapshotInv, OnFile, NamesAreUnique, HeldBy, Up, Held, vars
  <2> QED
    BY <2>1, <2>2 DEF SnapshotInv
<1>2. CASE Next
  <2>1. PICK r \in Replica :
          \/ AddNode(r) \/ ExportDelta(r) \/ ImportDelta(r)
          \/ Save(r) \/ CrashAndLoad(r) \/ CrashInSave(r)
    BY <1>2 DEF Next
  <2> QED
    BY <2>1, AddNodeKeeps, ExportDeltaKeeps, ImportDeltaKeeps, SaveKeeps,
       CrashAndLoadKeeps, CrashInSaveKeeps
<1> QED
  BY <1>1, <1>2

\* Where hosts save a forest before they export it, the inductive invariant
\* holds (snapshot.rs, forest.rs).
THEOREM SnapshotInvariant == ASSUME SaveFirst PROVE Spec => []SnapshotInv
<1>1. Init => SnapshotInv
  BY InitHolds
<1>2. SnapshotInv /\ [Next]_vars => SnapshotInv'
  BY SnapshotInvInductive
<1> QED
  BY <1>1, <1>2, PTL DEF Spec

\* There whatever a running replica has made and anybody else may have heard of
\* is in its file (snapshot.rs).
THEOREM ExportsAreOnFile == ASSUME SaveFirst PROVE Spec => []OnFile
<1>1. SnapshotInv => OnFile
  BY DEF SnapshotInv
<1> QED
  BY <1>1, SnapshotInvariant, PTL

\* There forests and files keep their types and are consistent in themselves:
\* the tags are those of the log, the clock is beyond them, and the counter
\* beyond the replica's own nodes (forest.rs).
THEOREM TypeCorrect == ASSUME SaveFirst PROVE Spec => []TypeOK
<1>1. SnapshotInv => TypeOK
  BY DEF SnapshotInv
<1> QED
  BY <1>1, SnapshotInvariant, PTL

\* Each log in memory or under way is held by somebody.
LEMMA EntriesAreHeld == Entries \subseteq HeldBy(Replica)
<1> SUFFICES ASSUME NEW s \in Entries
             PROVE  s \in HeldBy(Replica)
  OBVIOUS
<1>1. PICK l \in Logs : s \in Range(l)
  BY DEF Entries
<1>2. l \in wire \/ \E r \in Replica : Up(r) /\ l = forest[r].log
  BY DEF Logs
<1> QED
  BY <1>1, <1>2, HeldByIs DEF Held, Up

\* There a node id names one node, through any number of crashes (id.rs,
\* forest.rs).
THEOREM IdsStayUnique == ASSUME SaveFirst PROVE Spec => []IdsNameNodes
<1>1. SnapshotInv => IdsNameNodes
  BY EntriesAreHeld DEF SnapshotInv, NamesAreUnique, IdsNameNodes
<1> QED
  BY <1>1, SnapshotInvariant, PTL

\* There a tag names one operation, through any number of crashes (id.rs,
\* forest.rs).
THEOREM TagsStayUnique == ASSUME SaveFirst PROVE Spec => []TagsNameOps
<1>1. SnapshotInv => TagsNameOps
  BY EntriesAreHeld DEF SnapshotInv, NamesAreUnique, TagsNameOps
<1> QED
  BY <1>1, SnapshotInvariant, PTL
=============================================================================
