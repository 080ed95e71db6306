------------------------- MODULE TextAdapterProofs -------------------------
(***************************************************************************)
(* Theorems about the text adapter, for documents of any lines, any length *)
(* and any number: the tree that comes out is the outline of the document, *)
(* siblings are chained, paragraphs are blocks of lines, and each document *)
(* becomes one more tree.                                                  *)
(***************************************************************************)
EXTENDS TextAdapter, NumberProofs

-----------------------------------------------------------------------------
\* Sequences.

LEMMA AppendIs ==
  ASSUME NEW S, NEW l \in Seq(S), NEW s
  PROVE  /\ Len(Append(l, s)) = Len(l) + 1 /\ Len(l) \in Nat
         /\ \A i \in 1..Len(l) : Append(l, s)[i] = l[i]
         /\ Append(l, s)[Len(l) + 1] = s
         /\ s \in S => Append(l, s) \in Seq(S)
OBVIOUS

LEMMA RangeIs ==
  ASSUME NEW S, NEW l \in Seq(S)
  PROVE  /\ \A x : x \in Range(l) <=> \E i \in 1..Len(l) : x = l[i]
         /\ Range(l) \subseteq S
<1>1. DOMAIN l = 1..Len(l) /\ \A i \in 1..Len(l) : l[i] \in S
  OBVIOUS
<1> QED
  BY <1>1 DEF Range

LEMMA RangeOfAppend ==
  ASSUME NEW S, NEW l \in Seq(S), NEW s \in S
  PROVE  Range(Append(l, s)) = Range(l) \cup {s}
<1>1. \A x : x \in Range(l) <=> \E i \in 1..Len(l) : x = l[i]
  BY RangeIs
<1>2. Append(l, s) \in Seq(S) /\ Len(Append(l, s)) = Len(l) + 1 /\ Len(l) \in Nat
  BY AppendIs
<1>3. \A x : x \in Range(Append(l, s)) <=> \E i \in 1..(Len(l) + 1) : x = Append(l, s)[i]
  BY <1>2, RangeIs
<1>4. /\ \A i \in 1..Len(l) : Append(l, s)[i] = l[i] /\ i \in 1..(Len(l) + 1)
      /\ Append(l, s)[Len(l) + 1] = s /\ Len(l) + 1 \in 1..(Len(l) + 1)
      /\ \A i \in 1..(Len(l) + 1) : i # Len(l) + 1 => i \in 1..Len(l)
  BY <1>2, AppendIs
<1> QED
  BY <1>1, <1>3, <1>4

\* A new element leaves a sequence without repetitions.
LEMMA StaysInjective ==
  ASSUME NEW S, NEW l \in Seq(S), IsInjective(l), NEW s \in S, s \notin Range(l)
  PROVE  IsInjective(Append(l, s))
<1>1. \A x : x \in Range(l) <=> \E i \in 1..Len(l) : x = l[i]
  BY RangeIs
<1>2. Append(l, s) \in Seq(S) /\ Len(Append(l, s)) = Len(l) + 1 /\ Len(l) \in Nat
  BY AppendIs
<1>3. /\ \A i \in 1..Len(l) : Append(l, s)[i] = l[i]
      /\ Append(l, s)[Len(l) + 1] = s
      /\ \A i \in 1..(Len(l) + 1) : i # Len(l) + 1 => i \in 1..Len(l)
      /\ DOMAIN l = 1..Len(l) /\ DOMAIN Append(l, s) = 1..(Len(l) + 1)
  BY <1>2, AppendIs
<1>4. \A i \in 1..Len(l) : l[i] # s
  BY <1>1
<1> SUFFICES \A i, j \in 1..(Len(l) + 1) : Append(l, s)[i] = Append(l, s)[j] => i = j
  BY <1>3, Zenon DEF IsInjective
<1> TAKE i, j \in 1..(Len(l) + 1)
<1> HAVE Append(l, s)[i] = Append(l, s)[j]
<1>5. CASE i = Len(l) + 1 /\ j = Len(l) + 1
  BY <1>5
<1>6. CASE i = Len(l) + 1 /\ j # Len(l) + 1
  BY <1>3, <1>4, <1>6
<1>7. CASE i # Len(l) + 1 /\ j = Len(l) + 1
  BY <1>3, <1>4, <1>7
<1>8. CASE i # Len(l) + 1 /\ j # Len(l) + 1
  BY <1>3, <1>8 DEF IsInjective
<1> QED
  BY <1>5, <1>6, <1>7, <1>8

\* Functions on an initial segment of the natural numbers are sequences.
LEMMA SegmentIsSeq ==
  ASSUME NEW n \in Nat, NEW S, NEW f \in [1..n -> S]
  PROVE  f \in Seq(S) /\ Len(f) = n
OBVIOUS

LEMMA SeqIsSegment ==
  ASSUME NEW n \in Nat, NEW S, NEW f \in Seq(S), Len(f) = n
  PROVE  f \in [1..n -> S]
OBVIOUS

LEMMA WiderSeq ==
  ASSUME NEW S, NEW T, S \subseteq T, NEW l \in Seq(S)
  PROVE  l \in Seq(T)
<1>1. Len(l) \in Nat /\ DOMAIN l = 1..Len(l) /\ \A i \in 1..Len(l) : l[i] \in S
  OBVIOUS
<1>2. l = [i \in 1..Len(l) |-> l[i]]
  OBVIOUS
<1> QED
  BY <1>1, <1>2

LEMMA RetypedSeq ==
  ASSUME NEW S, NEW T, NEW l \in Seq(S), \A i \in 1..Len(l) : l[i] \in T
  PROVE  l \in Seq(T)
<1>1. Len(l) \in Nat /\ l = [i \in 1..Len(l) |-> l[i]]
  OBVIOUS
<1> QED
  BY <1>1

LEMMA ExceptIs ==
  ASSUME NEW D, NEW S, NEW f \in [D -> S], NEW p \in D, NEW v \in S
  PROVE  LET g == [f EXCEPT ![p] = v]
         IN  g \in [D -> S] /\ g[p] = v /\ \A i \in D : i # p => g[i] = f[i]
OBVIOUS

LEMMA ConcatOne ==
  ASSUME NEW S, NEW l \in Seq(S), NEW s \in S
  PROVE  l \o <<s>> = Append(l, s)
OBVIOUS

LEMMA ConcatNone ==
  ASSUME NEW S, NEW l \in Seq(S)
  PROVE  l \o <<>> = l
OBVIOUS

LEMMA AppendNew ==
  ASSUME NEW S, NEW l \in Seq(S), NEW s \in S, s \notin Range(l)
  PROVE  /\ Append(l, s) \in Seq(S) /\ Range(Append(l, s)) = Range(l) \cup {s}
         /\ IsInjective(l) => IsInjective(Append(l, s))
<1>1. Append(l, s) \in Seq(S)
  BY AppendIs
<1>2. Range(Append(l, s)) = Range(l) \cup {s}
  BY RangeOfAppend
<1>3. IsInjective(l) => IsInjective(Append(l, s))
  BY StaysInjective
<1> QED
  BY <1>1, <1>2, <1>3

-----------------------------------------------------------------------------
\* Trees under construction.

Kinds == {"Contains", "Precedes"}
EdgesOn(n) == [src : 1..n, dst : 1..n, kind : Kinds]

BuildOK(b) ==
  /\ b = [nodes |-> b.nodes, edges |-> b.edges, last_sibling |-> b.last_sibling]
  /\ b.nodes \in Seq(Payload)
  /\ b.edges \in Seq(EdgesOn(Len(b.nodes)))
  /\ b.last_sibling \in [1..Len(b.nodes) -> 0..Len(b.nodes)]

\* What a node that is added as a child of p makes of b.
Grows(b, c, p, kind, text) ==
  LET n    == Len(b.nodes) + 1
      prev == b.last_sibling[p]
  IN  /\ BuildOK(c)
      /\ Len(c.nodes) = n
      /\ \A i \in 1..Len(b.nodes) : c.nodes[i] = b.nodes[i]
      /\ c.nodes[n] = [tree |-> b.nodes[p].tree, kind |-> kind, text |-> text]
      /\ \A e : e \in Range(c.edges) <=>
                  (\/ e \in Range(b.edges)
                   \/ e = Edge(p, n, "Contains")
                   \/ (prev # 0 /\ e = Edge(prev, n, "Precedes")))
      /\ IsInjective(b.edges) => IsInjective(c.edges)
      /\ c.last_sibling[p] = n /\ c.last_sibling[n] = 0
      /\ \A i \in 1..Len(b.nodes) : i # p => c.last_sibling[i] = b.last_sibling[i]

\* A type that does not depend on the number of nodes.
AnyEdge == [src : Nat, dst : Nat, kind : Kinds]

LEMMA SiblingsGrow ==
  ASSUME NEW m \in Nat, NEW f \in [1..m -> 0..m], NEW p \in 1..m
  PROVE  LET g == [Append(f, 0) EXCEPT ![p] = m + 1]
         IN  /\ g \in [1..(m + 1) -> 0..(m + 1)]
             /\ g[p] = m + 1 /\ g[m + 1] = 0
             /\ \A i \in 1..m : i # p => g[i] = f[i]
             /\ Append(f, 0)[p] = f[p] /\ f[p] \in 0..m
<1>1. f \in Seq(0..m) /\ Len(f) = m
  BY SegmentIsSeq
<1> DEFINE h == Append(f, 0)
           D == 1..(m + 1)
           g == [h EXCEPT ![p] = m + 1]
<1>2. /\ h \in Seq(0..m) /\ Len(h) = m + 1
      /\ \A i \in 1..m : h[i] = f[i]
      /\ h[m + 1] = 0
  BY <1>1, AppendIs
<1> HIDE DEF h
<1>3. h \in [1..(m + 1) -> 0..m]
  BY <1>2, SeqIsSegment
<1>4. h \in [D -> 0..(m + 1)]
  <2>1. 0..m \subseteq 0..(m + 1)
    OBVIOUS
  <2> QED
    BY <1>3, <2>1, Zenon
<1>5. p \in D /\ p # m + 1 /\ m + 1 \in D /\ m + 1 \in 0..(m + 1) /\ \A i \in 1..m : i \in D
  OBVIOUS
<1> HIDE DEF D, g
<1>6. /\ g \in [D -> 0..(m + 1)] /\ g[p] = m + 1
      /\ \A i \in D : i # p => g[i] = h[i]
  BY <1>4, <1>5, ExceptIs DEF g
<1>7. g[m + 1] = 0 /\ \A i \in 1..m : i # p => g[i] = f[i]
  BY <1>2, <1>5, <1>6
<1>8. h[p] = f[p] /\ f[p] \in 0..m
  BY <1>2
<1> QED
  BY <1>6, <1>7, <1>8, Zenon DEF h, D, g

LEMMA EdgesGrow ==
  ASSUME NEW m \in Nat, NEW es \in Seq(EdgesOn(m)), NEW p \in 1..m, NEW prev \in 0..m
  PROVE  LET e1 == Edge(p, m + 1, "Contains")
             e2 == Edge(prev, m + 1, "Precedes")
             fs == es \o <<e1>> \o (IF prev = 0 THEN <<>> ELSE <<e2>>)
         IN  /\ fs \in Seq(EdgesOn(m + 1))
             /\ \A e : e \in Range(fs) <=>
                          e \in Range(es) \/ e = e1 \/ (prev # 0 /\ e = e2)
             /\ IsInjective(es) => IsInjective(fs)
<1> DEFINE e1 == Edge(p, m + 1, "Contains")
           e2 == Edge(prev, m + 1, "Precedes")
           S  == EdgesOn(m + 1)
<1>1. /\ e1 \in S /\ e1 # e2 /\ (prev # 0 => e2 \in S)
      /\ EdgesOn(m) \subseteq S
      /\ e1 \notin EdgesOn(m) /\ e2 \notin EdgesOn(m)
  BY DEF EdgesOn, Edge, Kinds
<1> DEFINE ds == es \o <<e1>>
           tail == IF prev = 0 THEN <<>> ELSE <<e2>>
           fs == ds \o tail
<1>2. Range(es) \subseteq EdgesOn(m)
  BY RangeIs
<1> HIDE DEF e1, e2, S
<1>3. es \in Seq(S) /\ e1 \notin Range(es)
  BY <1>1, <1>2
<1>4. ds = Append(es, e1)
  BY <1>1, <1>3, ConcatOne
<1> HIDE DEF ds
<1>5. /\ ds \in Seq(S) /\ Range(ds) = Range(es) \cup {e1}
      /\ IsInjective(es) => IsInjective(ds)
  BY <1>1, <1>3, <1>4, AppendNew
<1>6. CASE prev = 0
  <2>1. fs = ds
    BY <1>5, <1>6, ConcatNone
  <2> HIDE DEF fs
  <2>2. /\ fs \in Seq(S) /\ (IsInjective(es) => IsInjective(fs))
        /\ Range(fs) = Range(es) \cup {e1}
    BY <1>5, <2>1
  <2> QED
    BY <1>6, <2>2 DEF fs, ds, e1, e2, S
<1>7. CASE prev # 0
  <2>1. e2 \in S /\ e2 \notin Range(ds)
    BY <1>1, <1>2, <1>5, <1>7
  <2>2. fs = Append(ds, e2)
    BY <1>5, <1>7, <2>1, ConcatOne
  <2> HIDE DEF fs
  <2>3. /\ fs \in Seq(S) /\ (IsInjective(ds) => IsInjective(fs))
        /\ Range(fs) = Range(ds) \cup {e2}
    BY <1>5, <2>1, <2>2, AppendNew
  <2>4. /\ fs \in Seq(S) /\ (IsInjective(es) => IsInjective(fs))
        /\ \A e : e \in Range(fs) <=> e \in Range(es) \/ e = e1 \/ e = e2
    BY <1>5, <2>3
  <2> QED
    BY <1>7, <2>4 DEF fs, ds, e1, e2, S
<1> QED
  BY <1>6, <1>7

\* The fields of b with one more child of p.
ChildAdded(b, c, p, node) ==
  LET n    == Len(b.nodes) + 1
      prev == b.last_sibling[p]
  IN  /\ c = [nodes |-> c.nodes, edges |-> c.edges, last_sibling |-> c.last_sibling]
      /\ c.nodes = Append(b.nodes, node)
      /\ c.edges = b.edges \o <<Edge(p, n, "Contains")>>
                           \o (IF prev = 0 THEN <<>> ELSE <<Edge(prev, n, "Precedes")>>)
      /\ c.last_sibling = [Append(b.last_sibling, 0) EXCEPT ![p] = n]

LEMMA AddChildIs ==
  ASSUME NEW b, BuildOK(b), NEW p \in 1..Len(b.nodes), NEW kind, NEW text, NEW node,
         node = [tree |-> b.nodes[p].tree, kind |-> kind, text |-> text],
         Len(Append(b.nodes, node)) = Len(b.nodes) + 1,
         Append(b.last_sibling, 0)[p] = b.last_sibling[p]
  PROVE  ChildAdded(b, AddChild(b, p, kind, text), p, node)
<1> DEFINE d == AddNode(b, b.nodes[p].tree, kind, text)
<1>1. b = [nodes |-> b.nodes, edges |-> b.edges, last_sibling |-> b.last_sibling]
  BY Zenon DEF BuildOK
<1>2. d = [nodes |-> Append(b.nodes, node), edges |-> b.edges,
           last_sibling |-> Append(b.last_sibling, 0)]
  <2> DEFINE x == Append(b.nodes, [tree |-> b.nodes[p].tree, kind |-> kind, text |-> text])
             y == Append(b.last_sibling, 0)
  <2>1. d = [b EXCEPT !.nodes = x, !.last_sibling = y]
    BY <1>1 DEF AddNode
  <2>2. x = Append(b.nodes, node)
    OBVIOUS
  <2> HIDE DEF d, x
  <2> QED
    BY <1>1, <2>1, <2>2
<1>3. /\ d.nodes = Append(b.nodes, node) /\ d.edges = b.edges
      /\ d.last_sibling = Append(b.last_sibling, 0)
  BY <1>2
<1>4. AddChild(b, p, kind, text) = LinkSibling(d, p, Len(d.nodes))
  BY DEF AddChild
<1> HIDE DEF d
<1>5. d.last_sibling[p] = b.last_sibling[p] /\ Len(d.nodes) = Len(b.nodes) + 1
  BY <1>3
<1> DEFINE new == d.edges \o <<Edge(p, Len(d.nodes), "Contains")>>
                   \o (IF d.last_sibling[p] = 0 THEN <<>>
                       ELSE <<Edge(d.last_sibling[p], Len(d.nodes), "Precedes")>>)
           sib == [d.last_sibling EXCEPT ![p] = Len(d.nodes)]
<1>6. LinkSibling(d, p, Len(d.nodes)) = [d EXCEPT !.edges = new, !.last_sibling = sib]
  BY <1>2 DEF LinkSibling
<1>7. /\ new = b.edges \o <<Edge(p, Len(b.nodes) + 1, "Contains")>>
               \o (IF b.last_sibling[p] = 0 THEN <<>>
                   ELSE <<Edge(b.last_sibling[p], Len(b.nodes) + 1, "Precedes")>>)
      /\ sib = [Append(b.last_sibling, 0) EXCEPT ![p] = Len(b.nodes) + 1]
  BY <1>3, <1>5, Zenon
<1> HIDE DEF new, sib
<1>8. AddChild(b, p, kind, text)
        = [nodes |-> Append(b.nodes, node), edges |-> new, last_sibling |-> sib]
  BY <1>2, <1>4, <1>6
<1> DEFINE c == AddChild(b, p, kind, text)
<1>9. c = [nodes |-> Append(b.nodes, node), edges |-> new, last_sibling |-> sib]
  BY <1>8
<1> HIDE DEF c
<1>10. /\ c = [nodes |-> c.nodes, edges |-> c.edges, last_sibling |-> c.last_sibling]
       /\ c.nodes = Append(b.nodes, node) /\ c.edges = new /\ c.last_sibling = sib
  BY <1>9
<1> QED
  BY <1>7, <1>10, Zenon DEF ChildAdded, c

LEMMA AddChildGrows ==
  ASSUME NEW b, BuildOK(b), NEW p \in 1..Len(b.nodes),
         NEW kind \in {"Section", "Paragraph"}, NEW text \in Seq(Nat)
  PROVE  Grows(b, AddChild(b, p, kind, text), p, kind, text)
<1> DEFINE m    == Len(b.nodes)
           node == [tree |-> b.nodes[p].tree, kind |-> kind, text |-> text]
           c    == AddChild(b, p, kind, text)
<1>1. /\ b.nodes \in Seq(Payload) /\ b.edges \in Seq(EdgesOn(m))
      /\ b.last_sibling \in [1..m -> 0..m]
  BY Zenon DEF BuildOK
<1>2. m \in Nat /\ p \in 1..m
  BY <1>1
<1>3. node \in Payload
  <2>1. b.nodes[p] \in Payload
    BY <1>1
  <2>2. b.nodes[p].tree \in Tree
    BY <2>1 DEF Payload
  <2>3. kind \in {"Document", "Section", "Paragraph"}
    OBVIOUS
  <2> QED
    BY <2>2, <2>3 DEF Payload
<1> HIDE DEF node
<1>4. /\ Append(b.nodes, node) \in Seq(Payload) /\ Len(Append(b.nodes, node)) = m + 1
      /\ \A i \in 1..m : Append(b.nodes, node)[i] = b.nodes[i]
      /\ Append(b.nodes, node)[m + 1] = node
  BY <1>1, <1>3, AppendIs
<1> DEFINE g == [Append(b.last_sibling, 0) EXCEPT ![p] = m + 1]
<1>5. /\ g \in [1..(m + 1) -> 0..(m + 1)]
      /\ g[p] = m + 1 /\ g[m + 1] = 0
      /\ \A i \in 1..m : i # p => g[i] = b.last_sibling[i]
      /\ Append(b.last_sibling, 0)[p] = b.last_sibling[p] /\ b.last_sibling[p] \in 0..m
  <2> DEFINE f == b.last_sibling
  <2>1. f \in [1..m -> 0..m] /\ g = [Append(f, 0) EXCEPT ![p] = m + 1]
    BY <1>1
  <2>2. m \in Nat /\ p \in 1..m
    BY <1>2
  <2> HIDE DEF m, f
  <2> QED
    BY <2>1, <2>2, SiblingsGrow, Zenon DEF f
<1> DEFINE prev == b.last_sibling[p]
           e1   == Edge(p, m + 1, "Contains")
           e2   == Edge(prev, m + 1, "Precedes")
<1>6. /\ c = [nodes |-> c.nodes, edges |-> c.edges, last_sibling |-> c.last_sibling]
      /\ c.nodes = Append(b.nodes, node)
      /\ c.edges = b.edges \o <<e1>> \o (IF prev = 0 THEN <<>> ELSE <<e2>>)
      /\ c.last_sibling = g
  <2>1. node = [tree |-> b.nodes[p].tree, kind |-> kind, text |-> text]
    BY DEF node
  <2>2. /\ Len(Append(b.nodes, node)) = Len(b.nodes) + 1
        /\ Append(b.last_sibling, 0)[p] = b.last_sibling[p]
    BY <1>4, <1>5
  <2>3. ChildAdded(b, c, p, node)
    BY <2>1, <2>2, AddChildIs
  <2> HIDE DEF c
  <2> QED
    BY <2>3, Zenon DEF ChildAdded
<1> HIDE DEF c
<1>7. /\ c.edges \in Seq(EdgesOn(m + 1))
      /\ \A e : e \in Range(c.edges) <=>
                   e \in Range(b.edges) \/ e = e1 \/ (prev # 0 /\ e = e2)
      /\ IsInjective(b.edges) => IsInjective(c.edges)
  <2> DEFINE es == b.edges
  <2>1. m \in Nat /\ es \in Seq(EdgesOn(m)) /\ p \in 1..m /\ prev \in 0..m
    BY <1>1, <1>2, <1>5
  <2> HIDE DEF m, prev, es
  <2> DEFINE fs == es \o <<e1>> \o (IF prev = 0 THEN <<>> ELSE <<e2>>)
  <2>2. /\ fs \in Seq(EdgesOn(m + 1))
        /\ \A e : e \in Range(fs) <=> e \in Range(es) \/ e = e1 \/ (prev # 0 /\ e = e2)
        /\ IsInjective(es) => IsInjective(fs)
    BY <2>1, EdgesGrow, Zenon
  <2>3. c.edges = fs
    BY <1>6 DEF es
  <2> HIDE DEF fs
  <2> QED
    BY <2>2, <2>3 DEF es
<1>8. Len(c.nodes) = m + 1
  BY <1>4, <1>6
<1>9. BuildOK(c)
  <2>1. c.nodes \in Seq(Payload) /\ c.last_sibling \in [1..(m + 1) -> 0..(m + 1)]
    BY <1>4, <1>5, <1>6
  <2> QED
    BY <1>6, <1>7, <1>8, <2>1, Zenon DEF BuildOK
<1>10. /\ \A i \in 1..m : c.nodes[i] = b.nodes[i]
       /\ c.nodes[m + 1] = [tree |-> b.nodes[p].tree, kind |-> kind, text |-> text]
  BY <1>4, <1>6 DEF node
<1>11. /\ c.last_sibling[p] = m + 1 /\ c.last_sibling[m + 1] = 0
       /\ \A i \in 1..m : i # p => c.last_sibling[i] = b.last_sibling[i]
  BY <1>5, <1>6
<1> HIDE DEF g
<1> QED
  BY <1>7, <1>8, <1>9, <1>10, <1>11, Zenon DEF Grows, c

-----------------------------------------------------------------------------
\* The shape of the trees.

Child(b, p, c) == Edge(p, c, "Contains") \in Range(b.edges)
Linked(b, c, d) == Edge(c, d, "Precedes") \in Range(b.edges)

\* d comes after c, with no other child of their parent in between.
Neighbours(b, p, c, d) ==
  Child(b, p, c) /\ Child(b, p, d) /\ c < d /\ \A x \in (c + 1)..(d - 1) : ~ Child(b, p, x)

\* Every node but a root has one parent, made before it, and siblings are linked
\* to the next one and to no other.
OneParent(b) ==
  \A n \in 1..Len(b.nodes) :
    IF b.nodes[n].kind = "Document" THEN \A p \in 1..Len(b.nodes) : ~ Child(b, p, n)
    ELSE \E p \in 1..(n - 1) : \A q \in 1..Len(b.nodes) : Child(b, q, n) <=> q = p

Forward(b) == \A e \in Range(b.edges) : e.src < e.dst

Chained(b) ==
  \A c, d \in 1..Len(b.nodes) :
    Linked(b, c, d) <=> \E p \in 1..Len(b.nodes) : Neighbours(b, p, c, d)

Tidy(b) == OneParent(b) /\ Forward(b) /\ Chained(b) /\ IsInjective(b.edges)

\* The tree that is being built: from its root on, of one name, tied to nothing
\* else, and with the last child of each node at hand.
LastTree(b, root) ==
  /\ root \in 1..Len(b.nodes) /\ b.nodes[root].kind = "Document"
  /\ \A n \in (root + 1)..Len(b.nodes) : b.nodes[n].kind # "Document"
  /\ \A n \in root..Len(b.nodes) : b.nodes[n].tree = b.nodes[root].tree

Apart(b, root) == \A e \in Range(b.edges) : root <= e.src <=> root <= e.dst

Remembered(b, root) ==
  \A p \in root..Len(b.nodes) :
    IF b.last_sibling[p] = 0 THEN \A x \in 1..Len(b.nodes) : ~ Child(b, p, x)
    ELSE /\ Child(b, p, b.last_sibling[p])
         /\ \A x \in 1..Len(b.nodes) : Child(b, p, x) => x <= b.last_sibling[p]

Open(b, root) == LastTree(b, root) /\ Apart(b, root) /\ Remembered(b, root)

LEMMA EdgesAreTyped ==
  ASSUME NEW b, BuildOK(b)
  PROVE  /\ Len(b.nodes) \in Nat
         /\ \A e \in Range(b.edges) : e \in EdgesOn(Len(b.nodes))
         /\ \A p, c : Child(b, p, c) \/ Linked(b, p, c)
                        => p \in 1..Len(b.nodes) /\ c \in 1..Len(b.nodes)
<1>1. b.nodes \in Seq(Payload) /\ b.edges \in Seq(EdgesOn(Len(b.nodes)))
  BY Zenon DEF BuildOK
<1>2. Len(b.nodes) \in Nat
  BY <1>1
<1>3. Range(b.edges) \subseteq EdgesOn(Len(b.nodes))
  BY <1>1, RangeIs
<1>4. ASSUME NEW p, NEW c, Child(b, p, c) \/ Linked(b, p, c)
      PROVE  p \in 1..Len(b.nodes) /\ c \in 1..Len(b.nodes)
  <2>1. \/ Edge(p, c, "Contains") \in EdgesOn(Len(b.nodes))
        \/ Edge(p, c, "Precedes") \in EdgesOn(Len(b.nodes))
    BY <1>3, <1>4 DEF Child, Linked
  <2> QED
    BY <2>1 DEF Edge, EdgesOn
<1> QED
  BY <1>2, <1>3, <1>4

\* The edges that a new child of p brings.
LEMMA NewEdges ==
  ASSUME NEW b, BuildOK(b), NEW p, NEW c, NEW kind, NEW text, Grows(b, c, p, kind, text)
  PROVE  LET n    == Len(b.nodes) + 1
             prev == b.last_sibling[p]
         IN  /\ \A q, x : Child(c, q, x) <=> Child(b, q, x) \/ (q = p /\ x = n)
             /\ \A q, x : Linked(c, q, x) <=> Linked(b, q, x) \/ (prev # 0 /\ q = prev /\ x = n)
<1> DEFINE n == Len(b.nodes) + 1
           prev == b.last_sibling[p]
<1>1. \A e : e \in Range(c.edges) <=>
               (\/ e \in Range(b.edges)
                \/ e = Edge(p, n, "Contains")
                \/ (prev # 0 /\ e = Edge(prev, n, "Precedes")))
  BY Zenon DEF Grows
<1>2. \A q, x, r, y : Edge(q, x, "Contains") # Edge(r, y, "Precedes")
  BY DEF Edge
<1> HIDE DEF n, prev
<1>4. \A q, x : Child(c, q, x) <=> Child(b, q, x) \/ (q = p /\ x = n)
  <2> TAKE q, x
  <2>1. Edge(q, x, "Contains") # Edge(prev, n, "Precedes")
    BY <1>2, Zenon
  <2>2. Edge(q, x, "Contains") = Edge(p, n, "Contains") <=> q = p /\ x = n
    BY DEF Edge
  <2> QED
    BY <1>1, <2>1, <2>2, Zenon DEF Child
<1>5. \A q, x : Linked(c, q, x) <=> Linked(b, q, x) \/ (prev # 0 /\ q = prev /\ x = n)
  <2> TAKE q, x
  <2>1. Edge(p, n, "Contains") # Edge(q, x, "Precedes")
    BY <1>2, Zenon
  <2>2. Edge(q, x, "Precedes") = Edge(prev, n, "Precedes") <=> q = prev /\ x = n
    BY DEF Edge
  <2> QED
    BY <1>1, <2>1, <2>2, Zenon DEF Linked
<1> QED
  BY <1>4, <1>5, Zenon DEF n, prev

\* A new child under a node of the last tree leaves everything in shape.
LEMMA GrowthKeepsShape ==
  ASSUME NEW b, BuildOK(b), NEW root, Tidy(b), Open(b, root), NEW p \in root..Len(b.nodes),
         NEW c, NEW kind \in {"Section", "Paragraph"}, NEW text, Grows(b, c, p, kind, text)
  PROVE  Tidy(c) /\ Open(c, root)
<1> DEFINE m == Len(b.nodes)
           n == m + 1
           prev == b.last_sibling[p]
<1>1. /\ m \in Nat /\ n \in Nat /\ root \in 1..m /\ p \in 1..m /\ prev \in 0..m /\ prev # n
      /\ b.last_sibling \in [1..m -> 0..m]
  <2>1. m \in Nat /\ root \in 1..m
    BY EdgesAreTyped DEF Open, LastTree
  <2>2. p \in 1..m
    BY <2>1
  <2>3. b.last_sibling \in [1..m -> 0..m]
    BY Zenon DEF BuildOK
  <2> HIDE DEF m
  <2>4. b.last_sibling[p] \in 0..m
    BY <2>2, <2>3
  <2> QED
    BY <2>1, <2>2, <2>3, <2>4
<1>2. /\ Len(c.nodes) = n
      /\ \A i \in 1..m : c.nodes[i] = b.nodes[i]
      /\ c.nodes[n].tree = b.nodes[p].tree /\ c.nodes[n].kind = kind
      /\ IsInjective(b.edges) => IsInjective(c.edges)
      /\ c.last_sibling[p] = n /\ c.last_sibling[n] = 0
      /\ \A i \in 1..m : i # p => c.last_sibling[i] = b.last_sibling[i]
      /\ BuildOK(c)
  BY DEF Grows
<1>3. /\ \A q, x : Child(c, q, x) <=> Child(b, q, x) \/ (q = p /\ x = n)
      /\ \A q, x : Linked(c, q, x) <=> Linked(b, q, x) \/ (prev # 0 /\ q = prev /\ x = n)
  BY NewEdges, Zenon
<1>4. \A q, x : Child(b, q, x) \/ Linked(b, q, x) => q \in 1..m /\ x \in 1..m
  BY EdgesAreTyped
<1>5. \A e \in Range(c.edges) : \/ e \in Range(b.edges)
                                \/ e = Edge(p, n, "Contains")
                                \/ prev # 0 /\ e = Edge(prev, n, "Precedes")
  BY Zenon DEF Grows
<1> HIDE DEF m, prev
<1>6. \A i : i \in 1..n <=> i \in 1..m \/ i = n
  BY <1>1
<1>7. n \notin 1..m
  BY <1>1
<1> HIDE DEF n
<1>8. OneParent(c)
  <2> SUFFICES ASSUME NEW i \in 1..n
               PROVE  IF c.nodes[i].kind = "Document" THEN \A q \in 1..n : ~ Child(c, q, i)
                      ELSE \E q \in 1..(i - 1) : \A r \in 1..n : Child(c, r, i) <=> r = q
    <3>1. Len(c.nodes) = n
      BY <1>2
    <3> QED
      BY <3>1, Zenon DEF OneParent
  <2>1. CASE i = n
    <3>1. c.nodes[i].kind # "Document"
      BY <1>2, <2>1
    <3>2. \A q : Child(c, q, i) <=> q = p
      BY <1>3, <1>4, <1>7, <2>1, Zenon
    <3>3. p \in 1..(i - 1)
      BY <1>1, <2>1 DEF n
    <3> QED
      BY <3>1, <3>2, <3>3
  <2>2. CASE i # n
    <3>1. i \in 1..m /\ c.nodes[i] = b.nodes[i]
      BY <1>2, <1>6, <2>2
    <3>2. \A q : Child(c, q, i) <=> Child(b, q, i)
      BY <1>3, <2>2
    <3>3. IF b.nodes[i].kind = "Document" THEN \A q \in 1..m : ~ Child(b, q, i)
          ELSE \E q \in 1..(i - 1) : \A r \in 1..m : Child(b, r, i) <=> r = q
      BY <3>1 DEF Tidy, OneParent, m
    <3>4. CASE b.nodes[i].kind = "Document"
      BY <1>4, <3>1, <3>2, <3>3, <3>4, Zenon
    <3>5. CASE b.nodes[i].kind # "Document"
      <4>1. PICK q \in 1..(i - 1) : \A r \in 1..m : Child(b, r, i) <=> r = q
        BY <3>3, <3>5
      <4>2. q \in 1..m
        BY <1>1, <3>1
      <4>3. \A r : Child(b, r, i) <=> r = q
        BY <1>4, <4>1, <4>2, Zenon
      <4> QED
        BY <3>1, <3>2, <3>5, <4>3, Zenon
    <3> QED
      BY <3>4, <3>5
  <2> QED
    BY <2>1, <2>2
<1>9. Forward(c) /\ Apart(c, root)
  <2>1. root <= p /\ p < n /\ root <= n
    BY <1>1 DEF n
  <2>2. prev # 0 => root <= prev /\ prev < n
    <3> SUFFICES ASSUME prev # 0
                 PROVE  root <= prev /\ prev < n
      OBVIOUS
    <3>1. Child(b, p, prev)
      BY DEF Open, Remembered, prev
    <3>2. Edge(p, prev, "Contains") \in Range(b.edges)
      BY <3>1 DEF Child
    <3>3. p < prev
      BY <3>2 DEF Tidy, Forward, Edge
    <3> QED
      BY <1>1, <2>1, <3>3 DEF n
  <2>3. ASSUME NEW e \in Range(c.edges)
        PROVE  e.src < e.dst /\ (root <= e.src <=> root <= e.dst)
    <3>1. CASE e \in Range(b.edges)
      BY <3>1 DEF Tidy, Forward, Open, Apart
    <3>2. CASE e = Edge(p, n, "Contains")
      BY <2>1, <3>2 DEF Edge
    <3>3. CASE prev # 0 /\ e = Edge(prev, n, "Precedes")
      BY <2>1, <2>2, <3>3 DEF Edge
    <3> QED
      BY <1>5, <3>1, <3>2, <3>3
  <2> QED
    BY <2>3 DEF Forward, Apart
<1>10. Chained(c)
  <2> SUFFICES ASSUME NEW i \in 1..n, NEW j \in 1..n
               PROVE  Linked(c, i, j) <=> \E q \in 1..n : Neighbours(c, q, i, j)
    <3>1. Len(c.nodes) = n
      BY <1>2
    <3> QED
      BY <3>1, Zenon DEF Chained
  <2>1. CASE j = n
    <3>1. Linked(c, i, j) <=> prev # 0 /\ i = prev
      BY <1>3, <1>4, <1>7, <2>1, Zenon
    <3>2. \A q : Child(c, q, j) <=> q = p
      BY <1>3, <1>4, <1>7, <2>1, Zenon
    <3>3. \A x \in 1..m : Child(c, p, x) <=> Child(b, p, x)
      BY <1>3, <1>7, Zenon
    <3>4. (\E q \in 1..n : Neighbours(c, q, i, j)) <=> Neighbours(c, p, i, j)
      BY <1>1, <1>6, <3>2 DEF Neighbours
    <3>5. Neighbours(c, p, i, j) <=>
            i \in 1..m /\ Child(b, p, i) /\ \A x \in (i + 1)..m : ~ Child(b, p, x)
      <4>1. i < j <=> i \in 1..m
        BY <1>1, <2>1 DEF n
      <4>2. (i + 1)..(j - 1) = (i + 1)..m /\ \A x \in (i + 1)..m : x \in 1..m
        BY <1>1, <2>1 DEF n
      <4> QED
        BY <3>2, <3>3, <4>1, <4>2 DEF Neighbours
    <3>6. IF prev = 0 THEN \A x \in 1..m : ~ Child(b, p, x)
          ELSE Child(b, p, prev) /\ \A x \in 1..m : Child(b, p, x) => x <= prev
      BY DEF Open, Remembered, prev, m
    <3>7. CASE prev = 0
      BY <3>1, <3>4, <3>5, <3>6, <3>7
    <3>8. CASE prev # 0
      <4>1. prev \in 1..m
        BY <1>1, <3>8
      <4>2. Neighbours(c, p, i, j) <=> i = prev
        BY <1>1, <3>5, <3>6, <3>8, <4>1
      <4> QED
        BY <3>1, <3>4, <3>8, <4>2
    <3> QED
      BY <3>7, <3>8
  <2>2. CASE j # n
    <3>1. j \in 1..m
      BY <1>6, <2>2
    <3>2. Linked(c, i, j) <=> Linked(b, i, j)
      BY <1>3, <2>2
    <3>3. \A q : \A x \in 1..m : Child(c, q, x) <=> Child(b, q, x)
      BY <1>3, <1>7, Zenon
    <3>4. CASE i = n
      <4>1. ~ Linked(b, i, j)
        BY <1>4, <1>7, <3>4
      <4>2. ~ (i < j)
        BY <1>1, <3>1, <3>4 DEF n
      <4> QED
        BY <3>2, <4>1, <4>2 DEF Neighbours
    <3>5. CASE i # n
      <4>1. i \in 1..m
        BY <1>6, <3>5
      <4>2. \A x \in (i + 1)..(j - 1) : x \in 1..m
        BY <1>1, <3>1, <4>1
      <4>3. \A q : Neighbours(c, q, i, j) <=> Neighbours(b, q, i, j)
        BY <3>1, <3>3, <4>1, <4>2, Zenon DEF Neighbours
      <4>4. \A q : Neighbours(b, q, i, j) => q \in 1..m
        BY <1>4 DEF Neighbours
      <4>5. Linked(b, i, j) <=> \E q \in 1..m : Neighbours(b, q, i, j)
        BY <3>1, <4>1 DEF Tidy, Chained, m
      <4> QED
        BY <1>6, <3>2, <4>3, <4>4, <4>5, Zenon
    <3> QED
      BY <3>4, <3>5
  <2> QED
    BY <2>1, <2>2
<1>11. LastTree(c, root)
  <2>1. /\ root \in 1..m /\ b.nodes[root].kind = "Document"
        /\ \A i \in (root + 1)..m : b.nodes[i].kind # "Document"
        /\ \A i \in root..m : b.nodes[i].tree = b.nodes[root].tree
    BY DEF Open, LastTree, m
  <2>2. root \in 1..n /\ c.nodes[root] = b.nodes[root]
    BY <1>2, <1>6, <2>1
  <2>3. \A i \in (root + 1)..n : c.nodes[i].kind # "Document"
    <3> TAKE i \in (root + 1)..n
    <3>1. i = n \/ (i \in (root + 1)..m /\ i \in 1..m)
      BY <1>1 DEF n
    <3> QED
      BY <1>2, <2>1, <3>1
  <2>4. \A i \in root..n : c.nodes[i].tree = c.nodes[root].tree
    <3> TAKE i \in root..n
    <3>1. i = n \/ (i \in root..m /\ i \in 1..m)
      BY <1>1 DEF n
    <3>2. p \in root..m
      BY DEF m
    <3> QED
      BY <1>2, <2>1, <2>2, <3>1, <3>2
  <2> QED
    BY <1>2, <2>1, <2>2, <2>3, <2>4 DEF LastTree
<1>12. Remembered(c, root)
  <2> SUFFICES ASSUME NEW q \in root..n
               PROVE  IF c.last_sibling[q] = 0 THEN \A x \in 1..n : ~ Child(c, q, x)
                      ELSE /\ Child(c, q, c.last_sibling[q])
                           /\ \A x \in 1..n : Child(c, q, x) => x <= c.last_sibling[q]
    <3>1. Len(c.nodes) = n
      BY <1>2
    <3> QED
      BY <3>1, Zenon DEF Remembered
  <2>1. q = n \/ (q \in root..m /\ q \in 1..m)
    BY <1>1 DEF n
  <2>2. CASE q = n
    <3>1. \A x : ~ Child(c, q, x)
      BY <1>1, <1>3, <1>4, <1>7, <2>2, Zenon
    <3> QED
      BY <1>2, <2>2, <3>1
  <2>3. CASE q = p
    <3>1. Child(c, q, n) /\ c.last_sibling[q] = n /\ n # 0
      BY <1>1, <1>2, <1>3, <2>3 DEF n
    <3>2. \A x \in 1..n : x <= n
      BY <1>1
    <3> QED
      BY <3>1, <3>2
  <2>4. CASE q # p /\ q # n
    <3>1. \A x : Child(c, q, x) <=> Child(b, q, x)
      BY <1>3, <2>4, Zenon
    <3>2. c.last_sibling[q] = b.last_sibling[q]
      BY <1>2, <2>1, <2>4
    <3>3. IF b.last_sibling[q] = 0 THEN \A x \in 1..m : ~ Child(b, q, x)
          ELSE /\ Child(b, q, b.last_sibling[q])
               /\ \A x \in 1..m : Child(b, q, x) => x <= b.last_sibling[q]
      BY <2>1, <2>4 DEF Open, Remembered, m
    <3>4. \A x : Child(b, q, x) => x \in 1..m
      BY <1>4
    <3> QED
      BY <3>1, <3>2, <3>3, <3>4, Zenon
  <2> QED
    BY <2>1, <2>2, <2>3, <2>4
<1> QED
  BY <1>2, <1>8, <1>9, <1>10, <1>11, <1>12 DEF Tidy, Open

-----------------------------------------------------------------------------
\* Lines, the outline and the path of open sections.

Heading(src, bg, h) == h \in (bg + 1)..Len(src) /\ IsHeading(src[h])
Plain(src, i) == ~ IsHeading(src[i]) /\ ~ IsBlank(src[i])

Begins(b, n) == b.nodes[n].text[1]
Ends(b, n) == b.nodes[n].text[Len(b.nodes[n].text)]

\* Governs, of a tree under construction.
Over(b, src, bg, h, n) ==
  /\ Heading(src, bg, h) /\ h < Begins(b, n)
  /\ b.nodes[n].kind = "Section" => src[h].hashes < src[Begins(b, n)].hashes

\* n is where the outline has it, if its parent is p.
Place(b, root, src, bg, p, n) ==
  /\ Begins(b, n) \in 1..Len(src)
  /\ \/ p = root /\ \A h : ~ Over(b, src, bg, h, n)
     \/ \E g : /\ b.nodes[p].kind = "Section" /\ b.nodes[p].text = <<g>>
               /\ Over(b, src, bg, g, n)
               /\ \A h : Over(b, src, bg, h, n) => h <= g

Placed(b, root, src, bg) ==
  \A n \in root..Len(b.nodes) : \A p : Child(b, p, n) => Place(b, root, src, bg, p, n)

\* The stack: a path from the root, with levels and headings in order, on which
\* each heading has a section at or below it that does not go deeper.
Levels(b, root, stk) ==
  /\ stk \in Seq([level : Nat, node : Nat]) /\ stk # <<>>
  /\ stk[1] = [level |-> 0, node |-> root]
  /\ \A i \in 1..Len(stk) : stk[i].node \in root..Len(b.nodes)
  /\ \A i, j \in 1..Len(stk) : i < j => stk[i].level < stk[j].level
  /\ \A i \in 1..(Len(stk) - 1) : Child(b, stk[i].node, stk[i + 1].node)

\* The section node s of the heading in line g.
SectionOf(b, src, bg, s, g) ==
  b.nodes[s].kind = "Section" /\ b.nodes[s].text = <<g>> /\ Heading(src, bg, g)

Sections(b, src, bg, stk) ==
  \A i \in 2..Len(stk) :
    /\ SectionOf(b, src, bg, stk[i].node, Begins(b, stk[i].node))
    /\ src[Begins(b, stk[i].node)].hashes = stk[i].level
    /\ \A j \in 2..Len(stk) : i < j => Begins(b, stk[i].node) < Begins(b, stk[j].node)

Covered(b, src, bg, stk) ==
  \A h : Heading(src, bg, h) =>
    \E i \in 2..Len(stk) : h <= Begins(b, stk[i].node) /\ stk[i].level <= src[h].hashes

Path(b, root, src, bg, stk) ==
  Levels(b, root, stk) /\ Sections(b, src, bg, stk) /\ Covered(b, src, bg, stk)

-----------------------------------------------------------------------------
\* Paragraphs.

\* The buffer holds the latest lines of the document.
Pending(src, bg, buf) ==
  /\ buf \in Seq(Nat) /\ bg + Len(buf) <= Len(src)
  /\ \A i \in 1..Len(buf) : buf[i] = Len(src) - Len(buf) + i /\ Plain(src, buf[i])

IsParagraph(b, n) == n \in 1..Len(b.nodes) /\ b.nodes[n].kind = "Paragraph"

Block(b, src, n) ==
  LET text == b.nodes[n].text
  IN  /\ text \in Seq(1..Len(src)) /\ text # <<>>
      /\ \A i \in 1..Len(text) : text[i] = text[1] + i - 1 /\ Plain(src, text[i])

\* Paragraphs are blocks of lines, in order, and not two next to each other.
Blocks(b, src) ==
  /\ \A n : IsParagraph(b, n) => Block(b, src, n)
  /\ \A n, m : IsParagraph(b, n) /\ IsParagraph(b, m) /\ n < m =>
       /\ Ends(b, n) < Begins(b, m)
       /\ Ends(b, n) + 1 = Begins(b, m) =>
            \E d \in (n + 1)..(m - 1) : b.nodes[d].kind = "Document"

\* There is a line between the paragraphs of the document and the buffer.
Ahead(b, root, src, buf) ==
  \A n : IsParagraph(b, n) =>
    /\ Ends(b, n) <= Len(src) - Len(buf)
    /\ root <= n => Ends(b, n) < Len(src) - Len(buf)

\* All that holds of the forest while a document is read.
Doc(b, root, src, bg) ==
  /\ BuildOK(b) /\ Tidy(b) /\ Open(b, root)
  /\ Placed(b, root, src, bg) /\ Blocks(b, src)

\* The inductive invariant of the adapter.
TextInv ==
  /\ BuildOK(Building) /\ Tidy(Building)
  /\ source \in Seq(Line) /\ begin \in 0..Len(source)
  /\ Pending(source, begin, para_buf) /\ Blocks(Building, source)
  /\ nodes = <<>> => ~ Reading
  /\ nodes # <<>> =>
       \E root \in 1..Len(nodes) :
         /\ Doc(Building, root, source, begin)
         /\ Reading => /\ Path(Building, root, source, begin, stack)
                       /\ Ahead(Building, root, source, para_buf)

-----------------------------------------------------------------------------
\* Another line changes nothing about the earlier ones.

\* src goes on.
Longer(src, more) ==
  /\ Len(src) \in Nat /\ Len(more) = Len(src) + 1
  /\ \A i \in 1..Len(src) : more[i] = src[i]

LEMMA ReadLonger ==
  ASSUME NEW src \in Seq(AnyLine), NEW line \in AnyLine
  PROVE  /\ Longer(src, Append(src, line)) /\ Append(src, line)[Len(src) + 1] = line
         /\ Append(src, line) \in Seq(AnyLine)
BY AppendIs DEF Longer

\* Which of the earlier lines are headings, or neither headings nor blank.
SameHeadings(src, more, bg) ==
  /\ \A h : Heading(src, bg, h) => Heading(more, bg, h) /\ more[h] = src[h] /\ h \in 1..Len(src)
  /\ \A h : Heading(more, bg, h) /\ h # Len(src) + 1 => Heading(src, bg, h)
  /\ \A i \in 1..Len(src) : Plain(src, i) <=> Plain(more, i)

LEMMA HeadingsOfLonger ==
  ASSUME NEW src, NEW more, Longer(src, more), NEW bg \in Nat, bg <= Len(src)
  PROVE  SameHeadings(src, more, bg)
<1>1. \A h : h \in (bg + 1)..Len(src) => h \in 1..Len(src) /\ h \in (bg + 1)..Len(more)
  BY DEF Longer
<1>2. \A h : h \in (bg + 1)..Len(more) /\ h # Len(src) + 1 => h \in (bg + 1)..Len(src)
  BY DEF Longer
<1>3. \A i \in 1..Len(src) : more[i] = src[i]
  BY DEF Longer
<1> QED
  BY <1>1, <1>2, <1>3, Zenon DEF SameHeadings, Heading, Plain

LEMMA OverLonger ==
  ASSUME NEW b, NEW src, NEW more, Longer(src, more), NEW bg \in Nat, bg <= Len(src),
         NEW n, Begins(b, n) \in 1..Len(src)
  PROVE  \A h : Over(b, more, bg, h, n) <=> Over(b, src, bg, h, n)
<1>1. /\ \A h : Heading(src, bg, h) => Heading(more, bg, h) /\ more[h] = src[h] /\ h \in 1..Len(src)
      /\ \A h : Heading(more, bg, h) /\ h # Len(src) + 1 => Heading(src, bg, h)
  <2>1. SameHeadings(src, more, bg)
    BY HeadingsOfLonger, Zenon
  <2> QED
    BY <2>1, Zenon DEF SameHeadings
<1> TAKE h
<1>2. more[Begins(b, n)] = src[Begins(b, n)]
  BY DEF Longer
<1>3. h < Begins(b, n) => h # Len(src) + 1
  BY DEF Longer
<1> QED
  BY <1>1, <1>2, <1>3, Zenon DEF Over

LEMMA PlacesOfLonger ==
  ASSUME NEW b, NEW root, NEW src, NEW more, Longer(src, more), NEW bg \in Nat, bg <= Len(src)
  PROVE  /\ \A p, n : Place(b, root, src, bg, p, n) => Place(b, root, more, bg, p, n)
         /\ Placed(b, root, src, bg) => Placed(b, root, more, bg)
<1>1. ASSUME NEW p, NEW n, Place(b, root, src, bg, p, n)
      PROVE  Place(b, root, more, bg, p, n)
  <2>1. Begins(b, n) \in 1..Len(src)
    BY <1>1, Zenon DEF Place
  <2>2. \A h : Over(b, more, bg, h, n) <=> Over(b, src, bg, h, n)
    BY <2>1, OverLonger, Zenon
  <2>3. Begins(b, n) \in 1..Len(more)
    BY <2>1 DEF Longer
  <2> QED
    BY <1>1, <2>2, <2>3, Zenon DEF Place
<1> QED
  BY <1>1, Zenon DEF Placed

LEMMA BlocksOfLonger ==
  ASSUME NEW b, NEW src, NEW more, Longer(src, more), Blocks(b, src)
  PROVE  Blocks(b, more)
<1>1. ASSUME NEW n, Block(b, src, n)
      PROVE  Block(b, more, n)
  <2> DEFINE text == b.nodes[n].text
  <2>1. /\ text \in Seq(1..Len(src)) /\ text # <<>>
        /\ \A i \in 1..Len(text) : text[i] = text[1] + i - 1 /\ Plain(src, text[i])
    BY <1>1, Zenon DEF Block
  <2> HIDE DEF text
  <2>2. 1..Len(src) \subseteq 1..Len(more)
    BY DEF Longer
  <2>3. text \in Seq(1..Len(more))
    BY <2>1, <2>2, WiderSeq
  <2>4. ASSUME NEW i \in 1..Len(text)
        PROVE  Plain(more, text[i])
    <3>1. text[i] \in 1..Len(src) /\ Plain(src, text[i])
      BY <2>1
    <3> QED
      BY <3>1 DEF Longer, Plain
  <2> QED
    BY <2>1, <2>3, <2>4, Zenon DEF Block, text
<1> QED
  BY <1>1, Zenon DEF Blocks

LEMMA DocOfLonger ==
  ASSUME NEW b, NEW root, NEW src, NEW more, Longer(src, more), NEW bg \in Nat, bg <= Len(src),
         Doc(b, root, src, bg)
  PROVE  Doc(b, root, more, bg)
BY PlacesOfLonger, BlocksOfLonger, Zenon DEF Doc

-----------------------------------------------------------------------------
\* A new child changes nothing about the earlier nodes.

\* c has more nodes than b.
Bigger(b, c) ==
  /\ Len(b.nodes) \in Nat /\ Len(c.nodes) \in Nat /\ Len(b.nodes) <= Len(c.nodes)
  /\ \A i \in 1..Len(b.nodes) : c.nodes[i] = b.nodes[i]

LEMMA GrowsBigger ==
  ASSUME NEW b, BuildOK(b), NEW p, NEW c, NEW kind, NEW text, Grows(b, c, p, kind, text)
  PROVE  Bigger(b, c)
<1>1. Len(b.nodes) \in Nat
  BY EdgesAreTyped
<1> QED
  BY <1>1 DEF Grows, Bigger

LEMMA BeginsInBigger ==
  ASSUME NEW b, NEW c, Bigger(b, c), NEW n \in 1..Len(b.nodes)
  PROVE  /\ c.nodes[n] = b.nodes[n] /\ Begins(c, n) = Begins(b, n) /\ Ends(c, n) = Ends(b, n)
         /\ n \in 1..Len(c.nodes)
         /\ \A src, bg, h : Over(c, src, bg, h, n) <=> Over(b, src, bg, h, n)
         /\ \A src, bg, g : SectionOf(c, src, bg, n, g) <=> SectionOf(b, src, bg, n, g)
         /\ \A src : Block(c, src, n) <=> Block(b, src, n)
         /\ IsParagraph(c, n) <=> IsParagraph(b, n)
<1>1. c.nodes[n] = b.nodes[n]
  BY DEF Bigger
<1>2. Begins(c, n) = Begins(b, n) /\ Ends(c, n) = Ends(b, n)
  BY <1>1, Zenon DEF Begins, Ends
<1>3. n \in 1..Len(c.nodes)
  BY DEF Bigger
<1> QED
  BY <1>1, <1>2, <1>3, Zenon DEF Over, SectionOf, Block, IsParagraph

LEMMA PlacesInBigger ==
  ASSUME NEW b, NEW c, Bigger(b, c), NEW root, NEW src, NEW bg,
         NEW p \in 1..Len(b.nodes), NEW n \in 1..Len(b.nodes), Place(b, root, src, bg, p, n)
  PROVE  Place(c, root, src, bg, p, n)
<1>1. Begins(c, n) = Begins(b, n) /\ \A h : Over(c, src, bg, h, n) <=> Over(b, src, bg, h, n)
  BY BeginsInBigger, Zenon
<1>2. c.nodes[p] = b.nodes[p]
  BY BeginsInBigger, Zenon
<1> QED
  BY <1>1, <1>2, Zenon DEF Place

LEMMA PathInBigger ==
  ASSUME NEW b, NEW c, Bigger(b, c), NEW root \in Nat, root # 0, NEW src, NEW bg, NEW stk,
         Path(b, root, src, bg, stk),
         \A q, x \in 1..Len(b.nodes) : Child(b, q, x) => Child(c, q, x)
  PROVE  Path(c, root, src, bg, stk)
<1>1. /\ stk \in Seq([level : Nat, node : Nat]) /\ stk # <<>>
      /\ stk[1] = [level |-> 0, node |-> root]
      /\ \A i \in 1..Len(stk) : stk[i].node \in root..Len(b.nodes)
      /\ \A i, j \in 1..Len(stk) : i < j => stk[i].level < stk[j].level
      /\ \A i \in 1..(Len(stk) - 1) : Child(b, stk[i].node, stk[i + 1].node)
  BY Zenon DEF Path, Levels
<1>2. Len(stk) \in Nat
  BY <1>1
<1>3. \A i \in root..Len(b.nodes) : i \in 1..Len(b.nodes) /\ i \in root..Len(c.nodes)
  BY DEF Bigger
<1>4. /\ \A i \in 1..(Len(stk) - 1) : i \in 1..Len(stk) /\ i + 1 \in 1..Len(stk)
      /\ \A i \in 2..Len(stk) : i \in 1..Len(stk)
  BY <1>2
<1>5. \A i \in 1..Len(stk) : /\ stk[i].node \in 1..Len(b.nodes)
                             /\ stk[i].node \in root..Len(c.nodes)
  BY <1>1, <1>3, Zenon
<1>6. \A i \in 1..(Len(stk) - 1) : Child(c, stk[i].node, stk[i + 1].node)
  BY <1>1, <1>4, <1>5, Zenon
<1>7. Levels(c, root, stk)
  BY <1>1, <1>5, <1>6, Zenon DEF Levels
<1>8. \A i \in 2..Len(stk) :
        /\ Begins(c, stk[i].node) = Begins(b, stk[i].node)
        /\ \A g : SectionOf(c, src, bg, stk[i].node, g) <=> SectionOf(b, src, bg, stk[i].node, g)
  BY <1>4, <1>5, BeginsInBigger, Zenon
<1>9. Sections(c, src, bg, stk)
  BY <1>8, Zenon DEF Path, Sections
<1>10. Covered(c, src, bg, stk)
  BY <1>8, Zenon DEF Path, Covered
<1> QED
  BY <1>7, <1>9, <1>10, Zenon DEF Path

LEMMA GrowthKeepsPlaces ==
  ASSUME NEW b, BuildOK(b), NEW root \in 1..Len(b.nodes), NEW src, NEW bg,
         Placed(b, root, src, bg), NEW p \in root..Len(b.nodes), NEW c, NEW kind, NEW text,
         Grows(b, c, p, kind, text), Place(c, root, src, bg, p, Len(b.nodes) + 1)
  PROVE  Placed(c, root, src, bg)
<1> DEFINE m == Len(b.nodes)
           n == m + 1
           prev == b.last_sibling[p]
<1>1. m \in Nat /\ \A q, x : Child(b, q, x) => q \in 1..m /\ x \in 1..m
  BY EdgesAreTyped, Zenon
<1>2. \A q, x : Child(c, q, x) <=> Child(b, q, x) \/ (q = p /\ x = n)
  BY NewEdges, Zenon
<1>3. Len(c.nodes) = n
  BY Zenon DEF Grows
<1>4. Bigger(b, c)
  BY GrowsBigger
<1>5. \A x \in root..n : x # n => x \in root..m
  BY <1>1
<1>6. n \notin 1..m
  BY <1>1
<1> HIDE DEF n
<1>7. ASSUME NEW x \in root..n, NEW q, Child(c, q, x)
      PROVE  Place(c, root, src, bg, q, x)
  <2>1. CASE x = n
    <3>1. q = p
      BY <1>1, <1>2, <1>6, <1>7, <2>1, Zenon
    <3> QED
      BY <2>1, <3>1 DEF n
  <2>2. CASE x # n
    <3>1. Child(b, q, x)
      BY <1>2, <1>7, <2>2, Zenon
    <3>2. Place(b, root, src, bg, q, x)
      BY <1>5, <2>2, <3>1, Zenon DEF Placed
    <3> QED
      BY <1>1, <1>4, <3>1, <3>2, PlacesInBigger, Zenon
  <2> QED
    BY <2>1, <2>2
<1> QED
  BY <1>3, <1>7, Zenon DEF Placed

\* A root or a section changes nothing about the paragraphs.
LEMMA OthersKeepBlocks ==
  ASSUME NEW b, NEW src, Blocks(b, src), NEW c, Bigger(b, c), Len(c.nodes) = Len(b.nodes) + 1,
         c.nodes[Len(b.nodes) + 1].kind # "Paragraph"
  PROVE  Blocks(c, src)
<1> DEFINE m == Len(b.nodes)
<1>1. m \in Nat /\ Len(c.nodes) = m + 1 /\ c.nodes[m + 1].kind # "Paragraph" /\ Bigger(b, c)
  BY DEF Bigger
<1>2. \A n \in 1..(m + 1) : n = m + 1 \/ n \in 1..m
  BY <1>1
<1>3. \A n : IsParagraph(c, n) => n \in 1..m
  BY <1>1, <1>2 DEF IsParagraph
<1>4. \A n \in 1..m : /\ c.nodes[n] = b.nodes[n]
                      /\ Begins(c, n) = Begins(b, n) /\ Ends(c, n) = Ends(b, n)
                      /\ Block(c, src, n) <=> Block(b, src, n)
                      /\ IsParagraph(c, n) <=> IsParagraph(b, n)
  BY <1>1, BeginsInBigger, Zenon
<1>5. \A n : IsParagraph(c, n) => Block(c, src, n)
  BY <1>3, <1>4, Zenon DEF Blocks
<1>6. ASSUME NEW n, NEW x, IsParagraph(c, n), IsParagraph(c, x), n < x
      PROVE  /\ Ends(c, n) < Begins(c, x)
             /\ Ends(c, n) + 1 = Begins(c, x) =>
                  \E d \in (n + 1)..(x - 1) : c.nodes[d].kind = "Document"
  <2>1. n \in 1..m /\ x \in 1..m
    BY <1>3, <1>6
  <2>2. /\ Ends(b, n) < Begins(b, x)
        /\ Ends(b, n) + 1 = Begins(b, x) =>
             \E d \in (n + 1)..(x - 1) : b.nodes[d].kind = "Document"
    BY <1>4, <1>6, <2>1, Zenon DEF Blocks
  <2>3. \A d \in (n + 1)..(x - 1) : d \in 1..m
    BY <1>1, <2>1
  <2> QED
    BY <1>4, <2>1, <2>2, <2>3, Zenon
<1> QED
  BY <1>5, <1>6, Zenon DEF Blocks

LEMMA ParagraphKeepsBlocks ==
  ASSUME NEW b, BuildOK(b), NEW src, Blocks(b, src), NEW p, NEW c, NEW text,
         Grows(b, c, p, "Paragraph", text), Block(c, src, Len(b.nodes) + 1),
         \A n : IsParagraph(b, n) =>
           /\ Ends(b, n) < text[1]
           /\ Ends(b, n) + 1 = text[1] =>
                \E d \in (n + 1)..Len(b.nodes) : b.nodes[d].kind = "Document"
  PROVE  Blocks(c, src)
<1> DEFINE m == Len(b.nodes)
<1>1. m \in Nat /\ Len(c.nodes) = m + 1 /\ c.nodes[m + 1].text = text /\ Bigger(b, c)
  BY EdgesAreTyped, GrowsBigger DEF Grows
<1>2. \A n \in 1..(m + 1) : n = m + 1 \/ n \in 1..m
  BY <1>1
<1>3. \A n : IsParagraph(c, n) => n \in 1..m \/ n = m + 1
  BY <1>1, <1>2 DEF IsParagraph
<1>4. \A n \in 1..m : /\ c.nodes[n] = b.nodes[n]
                      /\ Begins(c, n) = Begins(b, n) /\ Ends(c, n) = Ends(b, n)
                      /\ Block(c, src, n) <=> Block(b, src, n)
                      /\ IsParagraph(c, n) <=> IsParagraph(b, n)
  BY <1>1, BeginsInBigger, Zenon
<1>5. \A n : IsParagraph(c, n) => Block(c, src, n)
  BY <1>3, <1>4, Zenon DEF Blocks
<1>6. ASSUME NEW n, NEW x, IsParagraph(c, n), IsParagraph(c, x), n < x
      PROVE  /\ Ends(c, n) < Begins(c, x)
             /\ Ends(c, n) + 1 = Begins(c, x) =>
                  \E d \in (n + 1)..(x - 1) : c.nodes[d].kind = "Document"
  <2>1. n \in 1..m
    BY <1>1, <1>3, <1>6
  <2>2. \A d \in (n + 1)..m : d \in 1..m
    BY <1>1, <2>1
  <2>3. CASE x = m + 1
    <3>1. Begins(c, x) = text[1]
      BY <1>1, <2>3 DEF Begins
    <3>2. x - 1 = m
      BY <1>1, <2>3
    <3> QED
      BY <1>4, <1>6, <2>1, <2>2, <3>1, <3>2, ZenonT(60)
  <2>4. CASE x \in 1..m
    <3>1. /\ Ends(b, n) < Begins(b, x)
          /\ Ends(b, n) + 1 = Begins(b, x) =>
               \E d \in (n + 1)..(x - 1) : b.nodes[d].kind = "Document"
      BY <1>4, <1>6, <2>1, <2>4, Zenon DEF Blocks
    <3>2. \A d \in (n + 1)..(x - 1) : d \in 1..m
      BY <1>1, <2>1, <2>4
    <3> QED
      BY <1>4, <2>1, <2>4, <3>1, <3>2, Zenon
  <2> QED
    BY <1>3, <1>6, <2>3, <2>4
<1> QED
  BY <1>5, <1>6, Zenon DEF Blocks

-----------------------------------------------------------------------------
\* flush_paragraph.

\* The lines in the buffer, and that there is no heading in or behind them.
LEMMA PendingLines ==
  ASSUME NEW src, Len(src) \in Nat, NEW bg \in Nat, NEW buf, Pending(src, bg, buf), buf # <<>>
  PROVE  /\ buf \in Seq(1..Len(src)) /\ Len(buf) \in Nat \ {0}
         /\ buf[1] = Len(src) - Len(buf) + 1 /\ buf[1] \in 1..Len(src)
         /\ \A i \in 1..Len(buf) : buf[i] = buf[1] + i - 1 /\ Plain(src, buf[i])
         /\ \A h : Heading(src, bg, h) => h \in Nat /\ h < buf[1]
<1>1. /\ buf \in Seq(Nat) /\ bg + Len(buf) <= Len(src)
      /\ \A i \in 1..Len(buf) : buf[i] = Len(src) - Len(buf) + i /\ Plain(src, buf[i])
  BY Zenon DEF Pending
<1>2. Len(buf) \in Nat \ {0}
  BY <1>1
<1>3. 1 \in 1..Len(buf) /\ buf[1] = Len(src) - Len(buf) + 1
  BY <1>1, <1>2
<1>4. buf[1] \in 1..Len(src) /\ \A i \in 1..Len(buf) : buf[i] = buf[1] + i - 1 /\ buf[i] \in 1..Len(src)
  BY <1>1, <1>2, <1>3
<1>5. buf \in Seq(1..Len(src))
  <2>1. buf = [i \in 1..Len(buf) |-> buf[i]]
    BY <1>1
  <2> DEFINE S == 1..Len(src)
             k == Len(buf)
  <2>2. buf \in [1..k -> S] /\ k \in Nat
    BY <1>2, <1>4, <2>1
  <2> HIDE DEF S, k
  <2>3. buf \in Seq(S)
    BY <2>2, SegmentIsSeq, Zenon
  <2> QED
    BY <2>3 DEF S
<1>6. ASSUME NEW h, Heading(src, bg, h)
      PROVE  h \in Nat /\ h < buf[1]
  <2>1. h \in (bg + 1)..Len(src) /\ IsHeading(src[h])
    BY <1>6, Zenon DEF Heading
  <2>2. h \in Nat
    BY <2>1
  <2> SUFFICES ASSUME ~ (h < buf[1])
               PROVE  FALSE
    BY <2>2
  <2> DEFINE i == h - (Len(src) - Len(buf))
  <2>3. i \in 1..Len(buf) /\ Len(src) - Len(buf) + i = h
    BY <1>2, <1>3, <2>1
  <2> HIDE DEF i
  <2>4. buf[i] = h /\ Plain(src, buf[i])
    BY <1>1, <2>3
  <2> QED
    BY <2>1, <2>4, Zenon DEF Plain
<1> QED
  BY <1>1, <1>2, <1>3, <1>4, <1>5, <1>6

\* The innermost open section is the one of the last heading.
LEMMA TopOfPath ==
  ASSUME NEW b, NEW root, NEW src, Len(src) \in Nat, NEW bg \in Nat, NEW stk,
         Path(b, root, src, bg, stk)
  PROVE  /\ Last(stk).node \in root..Len(b.nodes)
         /\ \/ Last(stk).node = root /\ \A h : ~ Heading(src, bg, h)
            \/ \E g : /\ SectionOf(b, src, bg, Last(stk).node, g)
                      /\ \A h : Heading(src, bg, h) => h <= g
<1> DEFINE k == Len(stk)
<1>1. /\ stk \in Seq([level : Nat, node : Nat]) /\ stk # <<>>
      /\ stk[1] = [level |-> 0, node |-> root]
      /\ \A i \in 1..Len(stk) : stk[i].node \in root..Len(b.nodes)
  BY Zenon DEF Path, Levels
<1>2. k \in Nat \ {0} /\ k \in 1..k /\ Last(stk) = stk[k]
  BY <1>1 DEF Last
<1>3. CASE k = 1
  <2>1. \A h : ~ Heading(src, bg, h)
    BY <1>2, <1>3 DEF Path, Covered
  <2> QED
    BY <1>1, <1>2, <1>3, <2>1
<1>4. CASE k # 1
  <2> DEFINE g == Begins(b, stk[k].node)
  <2>1. k \in 2..k /\ \A i \in 2..k : i = k \/ i < k
    BY <1>2, <1>4
  <2>2. SectionOf(b, src, bg, stk[k].node, g) /\ \A i \in 2..k : i < k => Begins(b, stk[i].node) < g
    BY <2>1, Zenon DEF Path, Sections
  <2>3. \A i \in 2..k : Begins(b, stk[i].node) \in Nat
    <3> TAKE i \in 2..k
    <3>1. Heading(src, bg, Begins(b, stk[i].node))
      BY Zenon DEF Path, Sections, SectionOf
    <3> QED
      BY <3>1 DEF Heading
  <2>4. \A i \in 2..k : Begins(b, stk[i].node) <= g
    BY <2>1, <2>2, <2>3
  <2>5. ASSUME NEW h, Heading(src, bg, h)
        PROVE  h <= g
    <3>1. PICK i \in 2..k : h <= Begins(b, stk[i].node)
      BY <2>5, Zenon DEF Path, Covered
    <3>2. h \in Nat
      BY <2>5 DEF Heading
    <3>3. Begins(b, stk[i].node) <= g /\ Begins(b, stk[i].node) \in Nat /\ g \in Nat
      BY <2>1, <2>3, <2>4
    <3> HIDE DEF g
    <3> QED
      BY <3>1, <3>2, <3>3
  <2> QED
    BY <1>1, <1>2, <2>2, <2>5, Zenon
<1> QED
  BY <1>3, <1>4

\* A paragraph belongs to the last heading before it.
LEMMA ParagraphHasPlace ==
  ASSUME NEW b, BuildOK(b), NEW root \in 1..Len(b.nodes), NEW src, Len(src) \in Nat, NEW bg \in Nat,
         NEW stk, Path(b, root, src, bg, stk), NEW buf, Pending(src, bg, buf), buf # <<>>,
         NEW c, Grows(b, c, Last(stk).node, "Paragraph", buf)
  PROVE  /\ Place(c, root, src, bg, Last(stk).node, Len(b.nodes) + 1)
         /\ Block(c, src, Len(b.nodes) + 1)
<1> DEFINE n == Len(b.nodes) + 1
           top == Last(stk).node
<1>1. Bigger(b, c) /\ c.nodes[n].text = buf /\ c.nodes[n].kind = "Paragraph" /\ Len(b.nodes) \in Nat
  <2>1. c.nodes[n] = [tree |-> b.nodes[top].tree, kind |-> "Paragraph", text |-> buf]
    BY Zenon DEF Grows
  <2>2. Bigger(b, c) /\ Len(b.nodes) \in Nat
    BY GrowsBigger, EdgesAreTyped, Zenon
  <2> QED
    BY <2>1, <2>2
<1>2. /\ buf \in Seq(1..Len(src)) /\ Len(buf) \in Nat \ {0}
      /\ buf[1] \in 1..Len(src)
      /\ \A i \in 1..Len(buf) : buf[i] = buf[1] + i - 1 /\ Plain(src, buf[i])
      /\ \A h : Heading(src, bg, h) => h \in Nat /\ h < buf[1]
  BY PendingLines, Zenon
<1>3. /\ top \in root..Len(b.nodes)
      /\ \/ top = root /\ \A h : ~ Heading(src, bg, h)
         \/ \E g : /\ SectionOf(b, src, bg, top, g)
                   /\ \A h : Heading(src, bg, h) => h <= g
  BY TopOfPath, Zenon
<1>4. top \in 1..Len(b.nodes)
  BY <1>1, <1>3
<1> HIDE DEF n, top
<1>5. Begins(c, n) = buf[1]
  BY <1>1, Zenon DEF Begins
<1>6. "Paragraph" # "Section"
  OBVIOUS
<1>7. \A h : Over(c, src, bg, h, n) <=> Heading(src, bg, h)
  BY <1>1, <1>2, <1>5, <1>6, Zenon DEF Over
<1>8. \A g : SectionOf(c, src, bg, top, g) <=> SectionOf(b, src, bg, top, g)
  BY <1>1, <1>4, BeginsInBigger, Zenon
<1>9. Place(c, root, src, bg, top, n)
  BY <1>2, <1>3, <1>5, <1>7, <1>8, Zenon DEF Place, SectionOf
<1>10. Block(c, src, n)
  <2>1. buf # <<>>
    OBVIOUS
  <2> QED
    BY <1>1, <1>2, <2>1, Zenon DEF Block
<1> QED
  BY <1>9, <1>10 DEF n, top

\* What a step leaves of the trees that were there before, and how they end.
Leaves(b, c, root) ==
  /\ Bigger(b, c)
  /\ \A e : e \in Range(b.edges) => e \in Range(c.edges)
  /\ \A e : e \in Range(c.edges) /\ e.src < root => e \in Range(b.edges)

LEMMA GrowthLeaves ==
  ASSUME NEW b, BuildOK(b), NEW root \in 1..Len(b.nodes), Tidy(b), Open(b, root),
         NEW p \in root..Len(b.nodes), NEW c, NEW kind, NEW text, Grows(b, c, p, kind, text)
  PROVE  Leaves(b, c, root)
<1> DEFINE m == Len(b.nodes)
           prev == b.last_sibling[p]
<1>1. Bigger(b, c) /\ m \in Nat
  BY GrowsBigger, EdgesAreTyped, Zenon
<1>2. \A e : e \in Range(c.edges) <=>
               (\/ e \in Range(b.edges)
                \/ e = Edge(p, m + 1, "Contains")
                \/ (prev # 0 /\ e = Edge(prev, m + 1, "Precedes")))
  BY Zenon DEF Grows
<1>3. ~ (p < root)
  BY <1>1
<1>4. prev # 0 => ~ (prev < root)
  <2> SUFFICES ASSUME prev # 0
               PROVE  ~ (prev < root)
    OBVIOUS
  <2>1. Child(b, p, prev)
    BY DEF Open, Remembered
  <2>2. Edge(p, prev, "Contains") \in Range(b.edges) /\ prev \in 1..m
    BY <2>1, EdgesAreTyped DEF Child
  <2>3. p < prev
    BY <2>2 DEF Tidy, Forward, Edge
  <2> HIDE DEF prev
  <2> QED
    BY <1>1, <2>2, <2>3
<1>5. Edge(p, m + 1, "Contains").src = p /\ Edge(prev, m + 1, "Precedes").src = prev
  BY DEF Edge
<1> HIDE DEF m, prev
<1> QED
  BY <1>1, <1>2, <1>3, <1>4, <1>5, Zenon DEF Leaves

\* A flush keeps everything, whether there is a paragraph or not.
Flushed(b, stk, buf) ==
  IF buf = <<>> THEN b ELSE AddChild(b, Last(stk).node, "Paragraph", buf)

LEMMA FlushKeeps ==
  ASSUME NEW b, NEW root \in 1..Len(b.nodes), NEW src, Len(src) \in Nat, NEW bg \in Nat,
         Doc(b, root, src, bg), NEW stk, Path(b, root, src, bg, stk),
         NEW buf, Pending(src, bg, buf), Ahead(b, root, src, buf)
  PROVE  /\ Doc(Flushed(b, stk, buf), root, src, bg)
         /\ Path(Flushed(b, stk, buf), root, src, bg, stk)
         /\ Leaves(b, Flushed(b, stk, buf), root)
<1> DEFINE m == Len(b.nodes)
           top == Last(stk).node
           c == Flushed(b, stk, buf)
<1>1. /\ BuildOK(b) /\ Tidy(b) /\ Open(b, root)
      /\ Placed(b, root, src, bg) /\ Blocks(b, src)
  BY Zenon DEF Doc
<1>2. m \in Nat /\ root \in Nat /\ root # 0
  BY <1>1, EdgesAreTyped
<1>3. CASE buf = <<>>
  <2>1. c = b
    BY <1>3, Zenon DEF Flushed
  <2>2. \A i \in 1..Len(b.nodes) : b.nodes[i] = b.nodes[i]
    OBVIOUS
  <2>3. Leaves(b, b, root)
    BY <1>2 DEF Leaves, Bigger
  <2> QED
    BY <2>1, <2>3, Zenon
<1>4. CASE buf # <<>>
  <2>1. c = AddChild(b, top, "Paragraph", buf)
    BY <1>4, Zenon DEF Flushed
  <2>2. top \in root..m
    BY TopOfPath, Zenon
  <2>3. top \in 1..m
    BY <1>2, <2>2
  <2>4. buf \in Seq(Nat)
    BY Zenon DEF Pending
  <2>5. "Paragraph" \in {"Section", "Paragraph"}
    OBVIOUS
  <2>6. Grows(b, c, top, "Paragraph", buf)
    BY <1>1, <2>1, <2>3, <2>4, <2>5, AddChildGrows, Zenon
  <2> HIDE DEF c
  <2>7. Tidy(c) /\ Open(c, root) /\ BuildOK(c)
    <3>1. BuildOK(c)
      BY <2>6, Zenon DEF Grows
    <3> QED
      BY <1>1, <2>2, <2>5, <2>6, <3>1, GrowthKeepsShape, Zenon
  <2>8. Place(c, root, src, bg, top, m + 1) /\ Block(c, src, m + 1)
    BY <1>1, <1>4, <2>6, ParagraphHasPlace, Zenon
  <2>9. Placed(c, root, src, bg)
    BY <1>1, <2>2, <2>6, <2>8, GrowthKeepsPlaces, Zenon
  <2>10. Blocks(c, src)
    <3>1. /\ buf[1] = Len(src) - Len(buf) + 1 /\ Len(buf) \in Nat
      BY <1>4, PendingLines
    <3>2. ASSUME NEW n, IsParagraph(b, n)
          PROVE  /\ Ends(b, n) < buf[1]
                 /\ Ends(b, n) + 1 = buf[1] =>
                      \E d \in (n + 1)..Len(b.nodes) : b.nodes[d].kind = "Document"
      <4>1. n \in 1..m
        BY <3>2 DEF IsParagraph
      <4>2. /\ Ends(b, n) <= Len(src) - Len(buf)
            /\ root <= n => Ends(b, n) < Len(src) - Len(buf)
        BY <3>2, Zenon DEF Ahead
      <4>3. Ends(b, n) \in Nat
        <5>1. b.nodes[n].text \in Seq(1..Len(src)) /\ b.nodes[n].text # <<>>
          BY <1>1, <3>2, Zenon DEF Blocks, Block
        <5> DEFINE text == b.nodes[n].text
        <5>2. text \in Seq(1..Len(src)) /\ text # <<>>
          BY <5>1
        <5> HIDE DEF text
        <5>3. text[Len(text)] \in Nat
          BY <5>2
        <5> QED
          BY <5>3 DEF Ends, text
      <4>4. n < root => root \in (n + 1)..m /\ b.nodes[root].kind = "Document"
        BY <1>1, <1>2, <4>1 DEF Open, LastTree
      <4>5. n < root \/ root <= n
        BY <1>2, <4>1
      <4> DEFINE e == Ends(b, n)
      <4>6. e < buf[1] /\ (root <= n => e + 1 # buf[1])
        <5>1. /\ e <= Len(src) - Len(buf) /\ e \in Nat
              /\ root <= n => e < Len(src) - Len(buf)
          BY <4>2, <4>3
        <5> HIDE DEF e
        <5> QED
          BY <3>1, <5>1
      <4> HIDE DEF e
      <4> QED
        BY <4>4, <4>5, <4>6 DEF e
    <3>3. \A n : IsParagraph(b, n) =>
            /\ Ends(b, n) < buf[1]
            /\ Ends(b, n) + 1 = buf[1] =>
                 \E d \in (n + 1)..Len(b.nodes) : b.nodes[d].kind = "Document"
      BY <3>2
    <3> QED
      BY <1>1, <2>6, <2>8, <3>3, ParagraphKeepsBlocks, Zenon
  <2>11. Leaves(b, c, root)
    BY <1>1, <2>2, <2>6, GrowthLeaves, Zenon
  <2>12. Path(c, root, src, bg, stk)
    <3>1. Bigger(b, c) /\ \A q, x \in 1..Len(b.nodes) : Child(b, q, x) => Child(c, q, x)
      BY <2>11, Zenon DEF Leaves, Child
    <3> QED
      BY <1>2, <3>1, PathInBigger, Zenon
  <2> QED
    BY <2>7, <2>9, <2>10, <2>11, <2>12, Zenon DEF Doc, c
<1> QED
  BY <1>3, <1>4

-----------------------------------------------------------------------------
\* A heading closes sections and opens one.

\* open is stk without the levels from `level` on.
Popped(stk, level, open) ==
  /\ open \in Seq([level : Nat, node : Nat])
  /\ Len(open) \in 1..Len(stk)
  /\ \A i \in 1..Len(open) : open[i] = stk[i]
  /\ \A i \in 1..Len(stk) : stk[i].level < level <=> i <= Len(open)

LEMMA LevelsAre ==
  ASSUME NEW b, NEW root, NEW stk, Levels(b, root, stk)
  PROVE  /\ stk \in Seq([level : Nat, node : Nat]) /\ stk # <<>>
         /\ Len(stk) \in Nat /\ 1 \in 1..Len(stk)
         /\ stk[1].level = 0 /\ stk[1].node = root
         /\ \A i \in 1..Len(stk) : stk[i].level \in Nat /\ stk[i].node \in root..Len(b.nodes)
         /\ \A i, j \in 1..Len(stk) : i < j => stk[i].level < stk[j].level
<1> DEFINE S == [level : Nat, node : Nat]
<1>1. /\ stk \in Seq(S) /\ stk # <<>>
      /\ stk[1] = [level |-> 0, node |-> root]
      /\ \A i \in 1..Len(stk) : stk[i].node \in root..Len(b.nodes)
      /\ \A i, j \in 1..Len(stk) : i < j => stk[i].level < stk[j].level
  BY Zenon DEF Levels
<1>2. \A s \in S : s.level \in Nat
  OBVIOUS
<1> HIDE DEF S
<1>3. Len(stk) \in Nat /\ 1 \in 1..Len(stk) /\ \A i \in 1..Len(stk) : stk[i] \in S
  BY <1>1
<1>4. stk[1].level = 0 /\ stk[1].node = root
  BY <1>1
<1> QED
  BY <1>1, <1>2, <1>3, <1>4, Zenon DEF S

LEMMA PopIs ==
  ASSUME NEW b, NEW root, NEW stk, Levels(b, root, stk), NEW level \in Nat, level # 0
  PROVE  Popped(stk, level, SubSeq(stk, 1, Max({n \in 1..Len(stk) : stk[n].level < level})))
<1> DEFINE S == [level : Nat, node : Nat]
           T == {n \in 1..Len(stk) : stk[n].level < level}
           m == Max(T)
           open == SubSeq(stk, 1, m)
<1>1. /\ stk \in Seq(S) /\ Len(stk) \in Nat /\ 1 \in 1..Len(stk)
      /\ stk[1].level = 0
      /\ \A i, j \in 1..Len(stk) : i < j => stk[i].level < stk[j].level
  BY LevelsAre
<1>2. Len(stk) \in Nat /\ 1 \in 1..Len(stk)
  BY <1>1
<1>3. \A i \in 1..Len(stk) : stk[i].level \in Nat
  BY LevelsAre
<1>4. T \in SUBSET (0..Len(stk)) /\ T # {}
  BY <1>1, <1>2
<1>5. m \in T /\ \A n \in T : n <= m
  <2> HIDE DEF T
  <2> QED
    BY <1>2, <1>4, MaxExists
<1>6. m \in 1..Len(stk) /\ stk[m].level < level
  BY <1>5
<1>7. ASSUME NEW i \in 1..Len(stk)
      PROVE  stk[i].level < level <=> i <= m
  <2>1. CASE i <= m
    <3>1. stk[i].level <= stk[m].level
      <4>1. i = m \/ i < m
        BY <1>2, <1>6, <2>1
      <4>2. stk[i].level \in Nat /\ stk[m].level \in Nat
        BY <1>3, <1>6
      <4>3. i < m => stk[i].level < stk[m].level
        BY <1>1, <1>6
      <4> HIDE DEF m
      <4> QED
        BY <4>1, <4>2, <4>3
    <3>2. stk[i].level \in Nat /\ stk[m].level \in Nat
      BY <1>3, <1>6
    <3> HIDE DEF m
    <3> QED
      BY <1>6, <2>1, <3>1, <3>2
  <2>2. CASE ~ (i <= m)
    BY <1>5, <2>2
  <2> QED
    BY <2>1, <2>2
<1> HIDE DEF T, m
<1>8. open \in Seq(S) /\ Len(open) = m /\ \A i \in 1..m : open[i] = stk[i]
  <2> HIDE DEF S
  <2> QED
    BY <1>1, <1>2, <1>6
<1> QED
  BY <1>6, <1>7, <1>8 DEF Popped, T, m

\* A section belongs to the last heading before it that has fewer hashes.
LEMMA SectionHasPlace ==
  ASSUME NEW b, BuildOK(b), NEW root \in 1..Len(b.nodes),
         NEW src \in Seq(AnyLine), NEW bg \in Nat, bg <= Len(src), NEW stk,
         Path(b, root, src, bg, stk), NEW line \in AnyLine,
         NEW open, Popped(stk, line.hashes, open), NEW top, top = open[Len(open)].node,
         NEW more, more = Append(src, line),
         NEW c, Grows(b, c, top, "Section", <<Len(src) + 1>>)
  PROVE  /\ top \in root..Len(b.nodes)
         /\ Place(c, root, more, bg, top, Len(b.nodes) + 1)
<1> DEFINE n == Len(b.nodes) + 1
           l == Len(src) + 1
           m == Len(open)
<1>1. Bigger(b, c) /\ c.nodes[n].text = <<l>> /\ c.nodes[n].kind = "Section" /\ Len(b.nodes) \in Nat
  <2>1. c.nodes[n] = [tree |-> b.nodes[top].tree, kind |-> "Section", text |-> <<l>>]
    BY Zenon DEF Grows
  <2>2. Bigger(b, c) /\ Len(b.nodes) \in Nat
    BY GrowsBigger, EdgesAreTyped, Zenon
  <2> QED
    BY <2>1, <2>2
<1>2. Longer(src, more) /\ more[l] = line /\ Len(src) \in Nat /\ Len(more) = l
  BY ReadLonger DEF Longer
<1>3. /\ \A h : Heading(src, bg, h) => Heading(more, bg, h) /\ more[h] = src[h] /\ h \in 1..Len(src)
      /\ \A h : Heading(more, bg, h) /\ h # Len(src) + 1 => Heading(src, bg, h)
  <2>1. SameHeadings(src, more, bg)
    BY <1>2, HeadingsOfLonger, Zenon
  <2> QED
    BY <2>1, Zenon DEF SameHeadings
<1>4. Begins(c, n) = l
  <2>1. <<l>>[1] = l
    OBVIOUS
  <2> QED
    BY <1>1, <2>1, Zenon DEF Begins
<1>5. m \in 1..Len(stk) /\ Len(stk) \in Nat /\ open[m] = stk[m] /\ \A i \in 1..Len(stk) : stk[i].level < line.hashes <=> i <= m
  BY DEF Popped, Path, Levels
<1>6. /\ top = stk[m].node /\ top \in root..Len(b.nodes)
      /\ stk[1].node = root
  BY <1>5 DEF Path, Levels
<1>7. \A h : Over(c, more, bg, h, n) <=> Heading(src, bg, h) /\ src[h].hashes < line.hashes
  <2> TAKE h
  <2>1. Heading(src, bg, h) => h < l
    BY <1>2, <1>3
  <2>2. h < l => h # Len(src) + 1
    BY <1>2
  <2> HIDE DEF n, l
  <2> QED
    BY <1>1, <1>2, <1>3, <1>4, <2>1, <2>2, Zenon DEF Over
<1>8. ASSUME NEW h, Over(c, more, bg, h, n)
      PROVE  \E i \in 2..m : h <= Begins(b, stk[i].node)
  <2>1. Heading(src, bg, h) /\ src[h].hashes < line.hashes
    BY <1>7, <1>8
  <2>2. PICK i \in 2..Len(stk) : h <= Begins(b, stk[i].node) /\ stk[i].level <= src[h].hashes
    BY <2>1, Zenon DEF Path, Covered
  <2>3. stk[i].level \in Nat /\ src[h].hashes \in Nat /\ line.hashes \in Nat
    <3>1. src[h] \in AnyLine
      <4>1. h \in 1..Len(src)
        BY <1>3, <2>1
      <4> QED
        BY <4>1
    <3>2. i \in 1..Len(stk)
      BY <1>5
    <3>3. stk[i].level \in Nat
      BY <3>2, LevelsAre, Zenon DEF Path
    <3> QED
      BY <3>1, <3>3 DEF AnyLine
  <2>4. stk[i].level < line.hashes
    BY SMTT(60), <2>1, <2>2, <2>3
  <2>5. i <= m
    BY <1>5, <2>4
  <2> QED
    BY <1>5, <2>2, <2>5
<1>9. Begins(c, n) \in 1..Len(more)
  BY <1>2, <1>4
<1>10. CASE m = 1
  <2>1. \A h : ~ Over(c, more, bg, h, n)
    BY <1>8, <1>10
  <2>2. top = root
    BY <1>6, <1>10
  <2> QED
    BY <1>6, <1>9, <2>1, <2>2 DEF Place
<1>11. CASE m # 1
  <2> DEFINE g == Begins(b, top)
  <2>1. m \in 2..Len(stk) /\ \A i \in 2..m : i \in 2..Len(stk) /\ (i = m \/ i < m)
    <3> HIDE DEF m
    <3> QED
      BY <1>5, <1>11
  <2>2. SectionOf(b, src, bg, top, g) /\ src[g].hashes = stk[m].level
    BY <1>6, <2>1, Zenon DEF Path, Sections
  <2>3. Over(c, more, bg, g, n)
    <3>1. src[g].hashes < line.hashes
      BY <1>5, <2>2
    <3> QED
      BY <1>7, <2>2, <3>1, Zenon DEF SectionOf
  <2>4. ASSUME NEW h, Over(c, more, bg, h, n)
        PROVE  h <= g
    <3>1. PICK i \in 2..m : h <= Begins(b, stk[i].node)
      BY <1>8, <2>4
    <3>2. i < m => Begins(b, stk[i].node) < g
      BY <1>6, <2>1, Zenon DEF Path, Sections
    <3>3. Begins(b, stk[i].node) \in Nat /\ g \in Nat /\ h \in Nat
      <4>1. Heading(src, bg, Begins(b, stk[i].node)) /\ Heading(src, bg, g) /\ Heading(src, bg, h)
        BY <1>7, <2>1, <2>2, <2>4, Zenon DEF Path, Sections, SectionOf
      <4> QED
        BY <4>1 DEF Heading
    <3>4. i = m => Begins(b, stk[i].node) = g
      <4> HIDE DEF m
      <4> QED
        BY <1>6
    <3> HIDE DEF g
    <3> QED
      BY <2>1, <3>1, <3>2, <3>3, <3>4
  <2>5. c.nodes[top].kind = "Section" /\ c.nodes[top].text = <<g>>
    <3>1. top \in 1..Len(b.nodes)
      BY <1>1, <1>6
    <3>2. c.nodes[top] = b.nodes[top]
      BY <1>1, <3>1, Zenon DEF Bigger
    <3> QED
      BY <2>2, <3>2, Zenon DEF SectionOf
  <2> QED
    BY <1>6, <1>9, <2>3, <2>4, <2>5, Zenon DEF Place
<1> QED
  BY <1>10, <1>11

\* c is b with a section for the line, under the innermost section left open;
\* more and new are the lines and the stack then.
Opens(b, c, src, stk, line, open, more, new) ==
  LET top == open[Len(open)].node
  IN  /\ BuildOK(b) /\ Popped(stk, line.hashes, open) /\ top \in 1..Len(b.nodes)
      /\ Grows(b, c, top, "Section", <<Len(src) + 1>>) /\ Child(c, top, Len(b.nodes) + 1)
      /\ more = Append(src, line)
      /\ new = Append(open, [level |-> line.hashes, node |-> Len(b.nodes) + 1])

LEMMA SectionKeepsPath ==
  ASSUME NEW b, NEW c, NEW root \in 1..Len(b.nodes),
         NEW src \in Seq(AnyLine), NEW bg \in Nat, bg <= Len(src),
         NEW stk, Path(c, root, src, bg, stk), NEW line \in AnyLine, IsHeading(line),
         NEW open, NEW more, NEW new, Opens(b, c, src, stk, line, open, more, new)
  PROVE  Path(c, root, more, bg, new)
<1> SUFFICES ASSUME NEW top, top = open[Len(open)].node,
                    BuildOK(b), Popped(stk, line.hashes, open), top \in 1..Len(b.nodes),
                    Grows(b, c, top, "Section", <<Len(src) + 1>>), Child(c, top, Len(b.nodes) + 1),
                    more = Append(src, line),
                    new = Append(open, [level |-> line.hashes, node |-> Len(b.nodes) + 1])
             PROVE  Path(c, root, more, bg, new)
  BY Zenon DEF Opens
<1> DEFINE n == Len(b.nodes) + 1
           l == Len(src) + 1
           m == Len(open)
           S == [level : Nat, node : Nat]
           s == [level |-> line.hashes, node |-> n]
<1>1. /\ Bigger(b, c) /\ c.nodes[n] = [tree |-> b.nodes[top].tree, kind |-> "Section", text |-> <<l>>]
      /\ Len(b.nodes) \in Nat /\ Len(c.nodes) = n
  <2>1. c.nodes[n] = [tree |-> b.nodes[top].tree, kind |-> "Section", text |-> <<l>>] /\ Len(c.nodes) = n
    BY Zenon DEF Grows
  <2>2. Bigger(b, c) /\ Len(b.nodes) \in Nat
    BY GrowsBigger, EdgesAreTyped, Zenon
  <2> QED
    BY <2>1, <2>2
<1>2. Longer(src, more) /\ more[l] = line /\ Len(src) \in Nat /\ Len(more) = l
  BY ReadLonger DEF Longer
<1>3. /\ \A h : Heading(src, bg, h) => Heading(more, bg, h) /\ more[h] = src[h] /\ h \in 1..Len(src)
      /\ \A h : Heading(more, bg, h) /\ h # Len(src) + 1 => Heading(src, bg, h)
  <2>1. SameHeadings(src, more, bg)
    BY <1>2, HeadingsOfLonger, Zenon
  <2> QED
    BY <2>1, Zenon DEF SameHeadings
<1>4. Heading(more, bg, l)
  BY <1>2 DEF Heading
<1>5. Begins(c, n) = l /\ c.nodes[n].kind = "Section" /\ c.nodes[n].text = <<l>>
  <2>1. c.nodes[n].text = <<l>> /\ c.nodes[n].kind = "Section"
    BY <1>1
  <2>2. <<l>>[1] = l
    OBVIOUS
  <2> QED
    BY <2>1, <2>2, Zenon DEF Begins
<1>6. /\ open \in Seq(S) /\ m \in 1..Len(stk) /\ Len(stk) \in Nat
      /\ \A i \in 1..m : open[i] = stk[i]
      /\ \A i \in 1..Len(stk) : stk[i].level < line.hashes <=> i <= m
  BY LevelsAre DEF Popped, Path
<1>7. line.hashes \in Nat
  BY DEF AnyLine
<1>8. /\ new \in Seq(S) /\ Len(new) = m + 1 /\ m \in Nat
      /\ \A i \in 1..m : new[i] = stk[i] /\ i \in 1..Len(stk)
      /\ new[m + 1].level = line.hashes /\ new[m + 1].node = n
  <2>1. s \in S
    BY <1>1, <1>7
  <2> HIDE DEF S
  <2>2. /\ new \in Seq(S) /\ Len(new) = m + 1 /\ m \in Nat
        /\ \A i \in 1..m : new[i] = open[i]
        /\ new[m + 1] = s
    BY <1>6, <2>1, AppendIs
  <2>3. \A i \in 1..m : i \in 1..Len(stk)
    BY <1>6
  <2> QED
    BY <1>6, <2>2, <2>3
<1>9. /\ stk # <<>> /\ stk[1] = [level |-> 0, node |-> root]
      /\ \A i \in 1..Len(stk) : stk[i].node \in root..Len(c.nodes)
      /\ \A i, j \in 1..Len(stk) : i < j => stk[i].level < stk[j].level
      /\ \A i \in 1..(Len(stk) - 1) : Child(c, stk[i].node, stk[i + 1].node)
  BY Zenon DEF Path, Levels
<1>10. top = stk[m].node
  BY SMTT(60), <1>6
<1> HIDE DEF S, n, l, m
<1>11. /\ \A i \in 1..(m + 1) : i \in 1..m \/ i = m + 1
       /\ \A i \in 2..(m + 1) : (i \in 2..m /\ i \in 1..m) \/ i = m + 1
       /\ \A i \in 2..m : i \in 2..Len(stk) /\ i \in 2..(m + 1)
  BY <1>6
<1>12. Levels(c, root, new)
  <2>1. new # <<>> /\ new[1] = [level |-> 0, node |-> root]
    <3>1. 1 \in 1..m
      BY <1>6
    <3>2. new[1] = stk[1]
      BY <1>8, <3>1, Zenon
    <3>3. new # <<>>
      <4>1. new \in Seq(S) /\ Len(new) = m + 1 /\ m \in Nat
        BY <1>8
      <4> QED
        BY SMTT(60), <4>1
    <3> QED
      BY <1>9, <3>2, <3>3, Zenon
  <2>2. \A i \in 1..(m + 1) : new[i].node \in root..Len(c.nodes)
    <3>1. n \in root..Len(c.nodes)
      BY <1>1 DEF n
    <3> QED
      BY <1>8, <1>9, <1>11, <3>1, Zenon
  <2>3. ASSUME NEW i \in 1..(m + 1), NEW j \in 1..(m + 1), i < j
        PROVE  new[i].level < new[j].level
    <3>1. i \in 1..m /\ i <= m
      BY <1>8, <2>3
    <3>2. CASE j = m + 1
      <4>1. stk[i].level < line.hashes
        BY <1>6, <1>8, <3>1
      <4> QED
        BY <1>8, <3>1, <3>2, <4>1, Zenon
    <3>3. CASE j # m + 1
      BY <1>8, <1>9, <1>11, <2>3, <3>1, <3>3, Zenon
    <3> QED
      BY <3>2, <3>3
  <2>4. ASSUME NEW i \in 1..m
        PROVE  Child(c, new[i].node, new[i + 1].node)
    <3>1. CASE i = m
      BY <1>8, <1>10, <3>1 DEF n
    <3>2. CASE i # m
      <4>1. i + 1 \in 1..m /\ i \in 1..(Len(stk) - 1)
        BY <1>6, <3>2
      <4> QED
        BY <1>8, <1>9, <4>1, Zenon
    <3> QED
      BY <3>1, <3>2
  <2>5. Len(new) - 1 = m
    BY <1>8
  <2> QED
    BY <1>8, <2>1, <2>2, <2>3, <2>4, <2>5, Zenon DEF Levels, S
<1>13. Sections(c, more, bg, new)
  <2>1. ASSUME NEW i \in 2..m
        PROVE  /\ SectionOf(c, more, bg, new[i].node, Begins(c, new[i].node))
               /\ more[Begins(c, new[i].node)].hashes = new[i].level
               /\ Begins(c, new[i].node) < l
    <3>1. new[i] = stk[i]
      BY <1>8, <1>11
    <3> DEFINE g == Begins(c, stk[i].node)
    <3>2. SectionOf(c, src, bg, stk[i].node, g) /\ src[g].hashes = stk[i].level
      BY <1>11, Zenon DEF Path, Sections
    <3>3. Heading(src, bg, g)
      BY <3>2, Zenon DEF SectionOf
    <3>4. Heading(more, bg, g) /\ more[g] = src[g] /\ g \in 1..Len(src)
      BY <1>3, <3>3
    <3>5. g < l
      <4> HIDE DEF g
      <4> QED
        BY <1>2, <3>4 DEF l
    <3> QED
      BY <3>1, <3>2, <3>4, <3>5, Zenon DEF SectionOf
  <2>2. \A i \in 2..m : \A j \in 2..m : i < j => Begins(c, new[i].node) < Begins(c, new[j].node)
    <3>1. \A i \in 2..m : new[i] = stk[i]
      BY <1>8, <1>11
    <3> QED
      BY <1>11, <3>1, Zenon DEF Path, Sections
  <2>3. SectionOf(c, more, bg, n, l) /\ more[l].hashes = line.hashes
    BY <1>2, <1>4, <1>5, Zenon DEF SectionOf
  <2>4. ASSUME NEW i \in 2..(m + 1), NEW j \in 2..(m + 1), i < j
        PROVE  Begins(c, new[i].node) < Begins(c, new[j].node)
    <3>1. i \in 2..m
      BY <1>8, <2>4
    <3>2. CASE j = m + 1
      BY <1>5, <1>8, <2>1, <3>1, <3>2, Zenon
    <3>3. CASE j # m + 1
      BY <1>11, <2>2, <2>4, <3>1, <3>3, Zenon
    <3> QED
      BY <3>2, <3>3
  <2>5. ASSUME NEW i \in 2..(m + 1)
        PROVE  /\ SectionOf(c, more, bg, new[i].node, Begins(c, new[i].node))
               /\ more[Begins(c, new[i].node)].hashes = new[i].level
    <3>1. CASE i = m + 1
      BY <1>5, <1>8, <2>3, <3>1, Zenon
    <3>2. CASE i # m + 1
      BY <1>11, <2>1, <3>2, Zenon
    <3> QED
      BY <3>1, <3>2
  <2> QED
    BY <1>8, <2>4, <2>5, Zenon DEF Sections
<1>14. Covered(c, more, bg, new)
  <2> SUFFICES ASSUME NEW h, Heading(more, bg, h)
               PROVE  \E i \in 2..(m + 1) : h <= Begins(c, new[i].node) /\ new[i].level <= more[h].hashes
    BY <1>8, Zenon DEF Covered
  <2>1. m + 1 \in 2..(m + 1)
    BY <1>6
  <2>2. CASE h = l
    <3>1. l <= l /\ line.hashes <= line.hashes
      BY <1>2, <1>7 DEF l
    <3> QED
      BY <1>2, <1>5, <1>8, <2>1, <2>2, <3>1, Zenon
  <2>3. CASE h # l
    <3>1. Heading(src, bg, h) /\ more[h] = src[h] /\ h \in 1..Len(src)
      BY <1>3, <2>3 DEF l
    <3>2. PICK i \in 2..Len(stk) : h <= Begins(c, stk[i].node) /\ stk[i].level <= src[h].hashes
      BY <3>1, Zenon DEF Path, Covered
    <3>3. i \in 1..Len(stk) /\ i \in Nat
      BY <1>6
    <3>4. CASE i <= m
      <4>1. i \in 2..m /\ i \in 1..m
        BY <1>6, <3>4
      <4> QED
        BY <1>8, <1>11, <3>1, <3>2, <4>1, Zenon
    <3>5. CASE ~ (i <= m)
      <4>1. ~ (stk[i].level < line.hashes)
        BY <1>6, <3>3, <3>5
      <4>2. stk[i].level \in Nat /\ src[h].hashes \in Nat
        <5>1. stk[i].level \in Nat
          BY <3>3, LevelsAre, Zenon DEF Path
        <5>2. src[h] \in AnyLine
          BY <3>1
        <5> QED
          BY <5>1, <5>2 DEF AnyLine
      <4>3. line.hashes <= src[h].hashes /\ h <= l
        <5>1. stk[i].level <= src[h].hashes
          BY <3>2
        <5>2. h <= l
          BY <1>2, <3>1 DEF l
        <5> DEFINE x == stk[i].level
                   y == src[h].hashes
        <5>3. x \in Nat /\ y \in Nat /\ x <= y /\ ~ (x < line.hashes)
          BY <4>1, <4>2, <5>1
        <5> HIDE DEF x, y
        <5>4. line.hashes <= y
          BY <1>7, <5>3
        <5> QED
          BY <5>2, <5>4 DEF y
      <4> QED
        BY <1>5, <1>8, <2>1, <3>1, <4>3, Zenon
    <3> QED
      BY <3>4, <3>5
  <2> QED
    BY <2>2, <2>3
<1> QED
  BY <1>12, <1>13, <1>14, Zenon DEF Path

\* c is b with a section for the line that follows src.
NewSection(b, src, stk, line, open, more, c) ==
  /\ Popped(stk, line.hashes, open) /\ more = Append(src, line)
  /\ c = AddChild(b, open[Len(open)].node, "Section", <<Len(src) + 1>>)

Headed(b, c, root, src, bg, line, open, more) ==
  /\ Doc(c, root, more, bg) /\ Leaves(b, c, root)
  /\ Len(c.nodes) = Len(b.nodes) + 1 /\ Blocks(c, src)
  /\ Path(c, root, more, bg,
          Append(open, [level |-> line.hashes, node |-> Len(b.nodes) + 1]))

\* A heading keeps everything.
LEMMA HeadingKeeps ==
  ASSUME NEW b, NEW root \in 1..Len(b.nodes), NEW src \in Seq(AnyLine), NEW bg \in Nat,
         bg <= Len(src), Doc(b, root, src, bg), NEW stk, Path(b, root, src, bg, stk),
         NEW line \in AnyLine, IsHeading(line),
         NEW open, NEW more, NEW c, NewSection(b, src, stk, line, open, more, c)
  PROVE  Headed(b, c, root, src, bg, line, open, more)
<1> SUFFICES ASSUME Popped(stk, line.hashes, open), more = Append(src, line),
                    c = AddChild(b, open[Len(open)].node, "Section", <<Len(src) + 1>>)
             PROVE  Headed(b, c, root, src, bg, line, open, more)
  BY Zenon DEF NewSection
<1> DEFINE m == Len(b.nodes)
           n == m + 1
           top == open[Len(open)].node
           text == <<Len(src) + 1>>
<1>1. /\ BuildOK(b) /\ Tidy(b) /\ Open(b, root)
      /\ Placed(b, root, src, bg) /\ Blocks(b, src)
  BY Zenon DEF Doc
<1>2. m \in Nat /\ root \in Nat /\ root # 0
  BY <1>1, EdgesAreTyped
<1>3. top \in root..m
  <2>1. Len(open) \in 1..Len(stk) /\ open[Len(open)] = stk[Len(open)]
    BY LevelsAre DEF Popped, Path
  <2>2. stk[Len(open)].node \in root..m
    BY <2>1, LevelsAre, Zenon DEF Path
  <2> QED
    BY <2>1, <2>2
<1>4. top \in 1..m
  BY <1>2, <1>3
<1>5. text \in Seq(Nat) /\ "Section" \in {"Section", "Paragraph"} /\ "Section" # "Paragraph"
  OBVIOUS
<1>6. Grows(b, c, top, "Section", text)
  BY <1>1, <1>4, <1>5, AddChildGrows, Zenon
<1>7. /\ BuildOK(c) /\ Len(c.nodes) = n /\ c.nodes[n].kind = "Section"
      /\ Edge(top, n, "Contains") \in Range(c.edges)
  <2>1. c.nodes[n] = [tree |-> b.nodes[top].tree, kind |-> "Section", text |-> text]
    BY <1>6, Zenon DEF Grows
  <2>2. BuildOK(c) /\ Len(c.nodes) = n /\ Edge(top, n, "Contains") \in Range(c.edges)
    BY <1>6, Zenon DEF Grows
  <2> QED
    BY <2>1, <2>2
<1>8. Tidy(c) /\ Open(c, root)
  BY <1>1, <1>3, <1>5, <1>6, GrowthKeepsShape, Zenon
<1>9. Leaves(b, c, root) /\ Bigger(b, c)
  BY <1>1, <1>3, <1>6, GrowthLeaves, GrowsBigger, Zenon
<1>10. Longer(src, more)
  BY ReadLonger
<1>11. Placed(b, root, more, bg) /\ Blocks(b, more)
  BY <1>1, <1>10, PlacesOfLonger, BlocksOfLonger, Zenon
<1>12. Place(c, root, more, bg, top, n)
  BY <1>1, <1>6, SectionHasPlace, Zenon
<1>13. Placed(c, root, more, bg)
  BY <1>1, <1>3, <1>6, <1>11, <1>12, GrowthKeepsPlaces, Zenon
<1>14. Blocks(c, more) /\ Blocks(c, src)
  BY <1>1, <1>5, <1>7, <1>9, <1>11, OthersKeepBlocks, Zenon
<1>15. Path(c, root, src, bg, stk)
  <2>1. \A q, x \in 1..Len(b.nodes) : Child(b, q, x) => Child(c, q, x)
    BY <1>9, Zenon DEF Leaves, Child
  <2> QED
    BY <1>2, <1>9, <2>1, PathInBigger, Zenon
<1>16. Child(c, top, n)
  BY <1>7, Zenon DEF Child
<1>17. Path(c, root, more, bg, Append(open, [level |-> line.hashes, node |-> n]))
  <2> DEFINE new == Append(open, [level |-> line.hashes, node |-> n])
  <2>1. Opens(b, c, src, stk, line, open, more, new)
    BY <1>1, <1>4, <1>6, <1>16, Zenon DEF Opens
  <2> HIDE DEF new
  <2>2. Path(c, root, more, bg, new)
    BY <1>15, <2>1, SectionKeepsPath, Zenon
  <2> QED
    BY <2>2 DEF new
<1> QED
  BY <1>7, <1>8, <1>9, <1>13, <1>14, <1>17, Zenon DEF Doc, Headed

-----------------------------------------------------------------------------
\* A new root.

RootAdded(b, c, tree) ==
  /\ c = [nodes |-> c.nodes, edges |-> c.edges, last_sibling |-> c.last_sibling]
  /\ c.nodes = Append(b.nodes, [tree |-> tree, kind |-> "Document", text |-> <<>>])
  /\ c.edges = b.edges
  /\ c.last_sibling = Append([n \in 1..Len(b.nodes) |-> 0], 0)

LEMMA RootIs ==
  ASSUME NEW tree
  PROVE  RootAdded(Building, AddNode([Building EXCEPT !.last_sibling = [n \in NodeId |-> 0]],
                                     tree, "Document", <<>>), tree)
<1> DEFINE node == [tree |-> tree, kind |-> "Document", text |-> <<>>]
           zeros == [n \in NodeId |-> 0]
           c == AddNode([Building EXCEPT !.last_sibling = zeros], tree, "Document", <<>>)
           new == Append(nodes, node)
           sib == Append(zeros, 0)
<1>1. [Building EXCEPT !.last_sibling = zeros]
        = [nodes |-> nodes, edges |-> edges, last_sibling |-> zeros]
  BY DEF Building
<1>2. c = [nodes |-> new, edges |-> edges, last_sibling |-> sib]
  <2> DEFINE r == [nodes |-> nodes, edges |-> edges, last_sibling |-> zeros]
  <2>1. r.nodes = nodes /\ r.last_sibling = zeros
    BY Zenon
  <2>2. c = [r EXCEPT !.nodes = Append(r.nodes, node), !.last_sibling = Append(r.last_sibling, 0)]
    BY <1>1, Zenon DEF AddNode
  <2>3. c = [r EXCEPT !.nodes = new, !.last_sibling = sib]
    BY <2>1, <2>2, Zenon
  <2> HIDE DEF c, new, sib, zeros
  <2> QED
    BY <2>3
<1>3. zeros = [n \in 1..Len(nodes) |-> 0] /\ Building.nodes = nodes /\ Building.edges = edges
  BY DEF NodeId, Building
<1> HIDE DEF c, zeros
<1> HIDE DEF new, sib
<1>4. /\ c = [nodes |-> c.nodes, edges |-> c.edges, last_sibling |-> c.last_sibling]
      /\ c.nodes = new /\ c.edges = edges /\ c.last_sibling = sib
  BY <1>2
<1> QED
  BY <1>3, <1>4, Zenon DEF RootAdded, new, sib, c, zeros

Rooted(b, c, src, bg) ==
  LET n == Len(b.nodes) + 1
  IN  /\ Doc(c, n, src, bg) /\ Len(c.nodes) = n /\ c.nodes[n].kind = "Document"
      /\ Bigger(b, c) /\ c.edges = b.edges

LEMMA RootKeeps ==
  ASSUME NEW b, BuildOK(b), Tidy(b), NEW src, Blocks(b, src), NEW bg, NEW tree \in Tree,
         NEW c, RootAdded(b, c, tree)
  PROVE  Rooted(b, c, src, bg)
<1> DEFINE m == Len(b.nodes)
           n == m + 1
           node == [tree |-> tree, kind |-> "Document", text |-> <<>>]
           zeros == [i \in 1..m |-> 0]
<1>1. /\ b.nodes \in Seq(Payload) /\ b.edges \in Seq(EdgesOn(m))
      /\ b.last_sibling \in [1..m -> 0..m]
  BY Zenon DEF BuildOK
<1>2. m \in Nat
  BY <1>1
<1>3. node \in Payload /\ node.kind = "Document" /\ node.tree = tree
  <2>1. <<>> \in Seq(Nat) /\ "Document" \in {"Document", "Section", "Paragraph"}
    OBVIOUS
  <2> QED
    BY <2>1 DEF Payload
<1> HIDE DEF node
<1>4. /\ c.nodes = Append(b.nodes, node) /\ c.edges = b.edges
      /\ c.last_sibling = Append(zeros, 0)
      /\ c = [nodes |-> c.nodes, edges |-> c.edges, last_sibling |-> c.last_sibling]
  BY Zenon DEF RootAdded, node
<1>5. /\ c.nodes \in Seq(Payload) /\ Len(c.nodes) = n
      /\ \A i \in 1..m : c.nodes[i] = b.nodes[i]
      /\ c.nodes[n] = node
  BY <1>1, <1>3, <1>4, AppendIs
<1>6. c.last_sibling \in [1..n -> 0..n] /\ c.last_sibling[n] = 0
  <2>1. zeros \in [1..m -> {0}]
    OBVIOUS
  <2>2. zeros \in Seq({0}) /\ Len(zeros) = m
    <3> HIDE DEF zeros
    <3> QED
      BY <1>2, <2>1, SegmentIsSeq
  <2> HIDE DEF zeros
  <2>3. c.last_sibling \in Seq({0}) /\ Len(c.last_sibling) = n /\ c.last_sibling[n] = 0
    BY <1>4, <2>2, AppendIs
  <2>4. c.last_sibling \in [1..n -> {0}]
    BY <1>2, <2>3, SeqIsSegment
  <2>5. {0} \subseteq 0..n
    BY <1>2
  <2> QED
    BY <2>3, <2>4, <2>5
<1>7. c.edges \in Seq(EdgesOn(n))
  <2>1. EdgesOn(m) \subseteq EdgesOn(n)
    BY <1>2 DEF EdgesOn
  <2> QED
    BY <1>1, <1>4, <2>1, WiderSeq
<1>8. BuildOK(c) /\ Bigger(b, c)
  <2>1. Len(c.nodes) \in Nat /\ m <= n
    BY <1>2, <1>5
  <2> QED
    BY <1>2, <1>4, <1>5, <1>6, <1>7, <2>1, Zenon DEF BuildOK, Bigger
<1>9. /\ \A p, x : Child(c, p, x) <=> Child(b, p, x)
      /\ \A p, x : Linked(c, p, x) <=> Linked(b, p, x)
  BY <1>4, Zenon DEF Child, Linked
<1>10. \A q, x : Child(b, q, x) \/ Linked(b, q, x) => q \in 1..m /\ x \in 1..m
  BY EdgesAreTyped, Zenon
<1>11. n \notin 1..m /\ \A i \in 1..n : i = n \/ i \in 1..m
  BY <1>2
<1>12. \A i : i \in 1..m => i \in 1..n
  BY <1>2
<1>13. \A e \in Range(b.edges) : e.src \in 1..m /\ e.dst \in 1..m
  BY EdgesAreTyped DEF EdgesOn
<1> HIDE DEF m
<1>14. OneParent(c)
  <2> SUFFICES ASSUME NEW i \in 1..n
               PROVE  IF c.nodes[i].kind = "Document" THEN \A q \in 1..n : ~ Child(c, q, i)
                      ELSE \E q \in 1..(i - 1) : \A r \in 1..n : Child(c, r, i) <=> r = q
    BY <1>5, Zenon DEF OneParent
  <2>1. CASE i = n
    BY <1>3, <1>5, <1>9, <1>10, <1>11, <2>1
  <2>2. CASE i \in 1..m
    <3>1. IF b.nodes[i].kind = "Document" THEN \A q \in 1..m : ~ Child(b, q, i)
          ELSE \E q \in 1..(i - 1) : \A r \in 1..m : Child(b, r, i) <=> r = q
      BY <2>2, Zenon DEF Tidy, OneParent, m
    <3>2. \A q \in 1..(i - 1) : q \in 1..m
      BY <1>2, <2>2
    <3> QED
      BY <1>5, <1>9, <1>10, <2>2, <3>1, <3>2
  <2> QED
    BY <1>11, <2>1, <2>2
<1>15. Forward(c)
  BY <1>4, Zenon DEF Tidy, Forward
<1>16. Chained(c)
  <2> SUFFICES ASSUME NEW i \in 1..n, NEW j \in 1..n
               PROVE  Linked(c, i, j) <=> \E q \in 1..n : Neighbours(c, q, i, j)
    BY <1>5, Zenon DEF Chained
  <2>1. \A q : Neighbours(c, q, i, j) <=> Neighbours(b, q, i, j)
    BY <1>9, Zenon DEF Neighbours
  <2>2. \A q : Neighbours(b, q, i, j) => q \in 1..m /\ i \in 1..m /\ j \in 1..m
    BY <1>10, Zenon DEF Neighbours
  <2>3. i \in 1..m /\ j \in 1..m => (Linked(b, i, j) <=> \E q \in 1..m : Neighbours(b, q, i, j))
    BY Zenon DEF Tidy, Chained, m
  <2> QED
    BY <1>9, <1>10, <1>12, <2>1, <2>2, <2>3, Zenon
<1>17. Tidy(c)
  BY <1>4, <1>14, <1>15, <1>16, Zenon DEF Tidy
<1>18. Open(c, n)
  <2>1. LastTree(c, n)
    <3>1. n \in 1..n /\ (\A i \in (n + 1)..n : FALSE) /\ (\A i \in n..n : i = n)
      BY <1>2
    <3> QED
      BY <1>3, <1>5, <3>1 DEF LastTree
  <2>2. Apart(c, n)
    <3>1. ASSUME NEW e \in Range(c.edges)
          PROVE  ~ (n <= e.src) /\ ~ (n <= e.dst)
      <4>1. e.src \in 1..m /\ e.dst \in 1..m
        BY <1>4, <1>13
      <4> QED
        BY <1>2, <4>1
    <3> QED
      BY <3>1, Zenon DEF Apart
  <2>3. Remembered(c, n)
    <3>1. \A i \in n..n : i = n
      BY <1>2
    <3>2. \A x : ~ Child(c, n, x)
      BY <1>9, <1>10, <1>11, Zenon
    <3> QED
      BY <1>5, <1>6, <3>1, <3>2, Zenon DEF Remembered
  <2> QED
    BY <2>1, <2>2, <2>3, Zenon DEF Open
<1>19. Placed(c, n, src, bg)
  <2>1. \A i \in n..n : i = n
    BY <1>2
  <2>2. \A p : ~ Child(c, p, n)
    BY <1>9, <1>10, <1>11, Zenon
  <2> QED
    BY <1>5, <2>1, <2>2, Zenon DEF Placed
<1>20. Blocks(c, src)
  <2>1. c.nodes[Len(b.nodes) + 1].kind # "Paragraph" /\ Len(c.nodes) = Len(b.nodes) + 1
    BY <1>3, <1>5 DEF m
  <2> QED
    BY <1>8, <2>1, OthersKeepBlocks, Zenon
<1> QED
  BY <1>3, <1>4, <1>5, <1>8, <1>17, <1>18, <1>19, <1>20, Zenon DEF Rooted, Doc, m

-----------------------------------------------------------------------------
\* The steps.

\* A line that is not a heading leaves the path as it is.
LEMMA PathOfLonger ==
  ASSUME NEW b, NEW root, NEW src \in Seq(AnyLine), NEW bg \in Nat, bg <= Len(src), NEW stk,
         Path(b, root, src, bg, stk), NEW line \in AnyLine, ~ IsHeading(line),
         NEW more, more = Append(src, line)
  PROVE  Path(b, root, more, bg, stk)
<1>1. Longer(src, more) /\ more[Len(src) + 1] = line
  BY ReadLonger
<1>2. SameHeadings(src, more, bg)
  BY <1>1, HeadingsOfLonger, Zenon
<1>3. \A h : Heading(more, bg, h) <=> Heading(src, bg, h)
  BY <1>1, <1>2, Zenon DEF SameHeadings, Heading
<1>4. \A h : Heading(src, bg, h) => more[h] = src[h]
  BY <1>2, Zenon DEF SameHeadings
<1>5. Sections(b, more, bg, stk)
  BY <1>3, <1>4, Zenon DEF Path, Sections, SectionOf
<1>6. Covered(b, more, bg, stk)
  BY <1>3, <1>4, Zenon DEF Path, Covered
<1> QED
  BY <1>5, <1>6, Zenon DEF Path

LEMMA EndsAreLines ==
  ASSUME NEW b, NEW src, Len(src) \in Nat, Blocks(b, src), NEW n, IsParagraph(b, n)
  PROVE  Ends(b, n) \in 1..Len(src)
<1> DEFINE text == b.nodes[n].text
<1>1. text \in Seq(1..Len(src)) /\ text # <<>>
  BY Zenon DEF Blocks, Block
<1> HIDE DEF text
<1>2. text[Len(text)] \in 1..Len(src)
  BY <1>1
<1> QED
  BY <1>2 DEF Ends, text

LEMMA LeavesLeaves ==
  ASSUME NEW a, NEW b, NEW c, NEW root, Leaves(a, b, root), Leaves(b, c, root)
  PROVE  Leaves(a, c, root)
<1>1. Bigger(a, c)
  <2>1. \A i \in 1..Len(a.nodes) : i \in 1..Len(b.nodes)
    BY DEF Leaves, Bigger
  <2>2. Len(a.nodes) <= Len(c.nodes)
    BY DEF Leaves, Bigger
  <2> QED
    BY <2>1, <2>2, Zenon DEF Leaves, Bigger
<1> QED
  BY <1>1, Zenon DEF Leaves

\* The lines are lines, and the buffer holds some of them.
Lines == source \in Seq(Line) /\ begin \in 0..Len(source) /\ Pending(source, begin, para_buf)

\* The latest document has this root.
At(root) ==
  /\ root \in 1..Len(nodes)
  /\ Doc(Building, root, source, begin)
  /\ Reading => /\ Path(Building, root, source, begin, stack)
                /\ Ahead(Building, root, source, para_buf)

\* A step within a document.
Goes(root) == Lines' /\ At(root)' /\ Leaves(Building, Building', root)

LEMMA GoesKeepsInv ==
  ASSUME NEW root, Lines', At(root)'
  PROVE  TextInv'
<1>1. root \in 1..Len(nodes')
  BY DEF At
<1>2. nodes' # <<>>
  BY <1>1
<1> QED
  BY <1>1, <1>2, Zenon DEF TextInv, At, Doc, Lines

LEMMA InvHasRoot ==
  ASSUME TextInv, nodes # <<>>
  PROVE  Lines /\ \E root : At(root)
BY Zenon DEF TextInv, Lines, At

LEMMA ReadingHasNodes ==
  ASSUME TextInv, Reading
  PROVE  nodes # <<>>
BY Zenon DEF TextInv

LEMMA BuiltIs ==
  ASSUME NEW c, Built(c), BuildOK(c)
  PROVE  Building' = c /\ Building'.nodes = nodes'
<1>1. c = [nodes |-> c.nodes, edges |-> c.edges, last_sibling |-> c.last_sibling]
  BY Zenon DEF BuildOK
<1>2. Building' = [nodes |-> nodes', edges |-> edges', last_sibling |-> last_sibling']
  BY DEF Building
<1> QED
  BY <1>1, <1>2 DEF Built

\* What holds of the parts of the state while a document is read.
LEMMA FlushInAt ==
  ASSUME Lines, NEW root, At(root), Reading
  PROVE  /\ source \in Seq(AnyLine) /\ Len(source) \in Nat /\ begin \in Nat /\ begin <= Len(source)
         /\ root \in 1..Len(Building.nodes) /\ root \in Nat /\ Building.nodes = nodes
         /\ Doc(FlushParagraph(Building), root, source, begin)
         /\ Path(FlushParagraph(Building), root, source, begin, stack)
         /\ Leaves(Building, FlushParagraph(Building), root)
         /\ root \in 1..Len(FlushParagraph(Building).nodes)
<1> DEFINE b == Building
           c == FlushParagraph(b)
<1>1. source \in Seq(AnyLine)
  BY LineAssumption, WiderSeq DEF Lines
<1>2. Len(source) \in Nat /\ begin \in Nat /\ begin <= Len(source)
  BY <1>1 DEF Lines
<1>3. b.nodes = nodes
  BY DEF Building
<1>4. root \in 1..Len(b.nodes)
  BY <1>3 DEF At
<1>5. c = Flushed(b, stack, para_buf)
  BY Zenon DEF FlushParagraph, Flushed
<1>6. /\ Doc(b, root, source, begin) /\ Path(b, root, source, begin, stack)
      /\ Ahead(b, root, source, para_buf) /\ Pending(source, begin, para_buf)
  BY Zenon DEF At, Lines
<1> HIDE DEF b, c
<1>7. Doc(c, root, source, begin) /\ Path(c, root, source, begin, stack) /\ Leaves(b, c, root)
  BY <1>2, <1>4, <1>5, <1>6, FlushKeeps, Zenon
<1>8. root \in 1..Len(c.nodes)
  BY <1>4, <1>7 DEF Leaves, Bigger
<1> QED
  BY <1>1, <1>2, <1>3, <1>4, <1>7, <1>8 DEF b, c

LEMMA NothingPending ==
  ASSUME NEW src, Len(src) \in Nat, NEW bg \in Nat, bg <= Len(src)
  PROVE  Pending(src, bg, <<>>)
<1>1. <<>> \in Seq(Nat) /\ Len(<<>>) = 0
  OBVIOUS
<1> QED
  BY <1>1 DEF Pending

LEMMA ReadIs ==
  ASSUME Lines, NEW line \in Line, Read(line)
  PROVE  /\ line \in AnyLine /\ source' = Append(source, line) /\ begin' = begin
         /\ Longer(source, source') /\ Len(source') = Len(source) + 1
         /\ source' \in Seq(Line) /\ begin' \in 0..Len(source')
         /\ Len(source') \in Nat /\ begin <= Len(source')
<1>1. /\ source \in Seq(Line) /\ begin \in 0..Len(source)
      /\ source' = Append(source, line) /\ begin' = begin
  BY DEF Lines, Read
<1>2. line \in AnyLine
  BY LineAssumption
<1>3. /\ source' \in Seq(Line) /\ Len(source') = Len(source) + 1 /\ Len(source) \in Nat
      /\ \A i \in 1..Len(source) : source'[i] = source[i]
  BY <1>1, AppendIs
<1> QED
  BY <1>1, <1>2, <1>3 DEF Longer

\* With an empty buffer the latest line is between the paragraphs and the next.
LEMMA AheadOfNothing ==
  ASSUME NEW b, NEW src, NEW more, Longer(src, more), Blocks(b, src), NEW root
  PROVE  Ahead(b, root, more, <<>>)
<1> SUFFICES ASSUME NEW n, IsParagraph(b, n)
             PROVE  /\ Ends(b, n) <= Len(more) - Len(<<>>)
                    /\ Ends(b, n) < Len(more) - Len(<<>>)
  BY Zenon DEF Ahead
<1>1. Ends(b, n) \in 1..Len(src)
  BY EndsAreLines DEF Longer
<1>2. Len(more) = Len(src) + 1 /\ Len(src) \in Nat /\ Len(<<>>) = 0
  BY DEF Longer
<1> DEFINE e == Ends(b, n)
<1> HIDE DEF e
<1>3. e \in 1..Len(src)
  BY <1>1 DEF e
<1>4. e <= Len(more) - Len(<<>>) /\ e < Len(more) - Len(<<>>)
  BY <1>2, <1>3
<1> QED
  BY <1>4 DEF e

LEMMA ReadHeadingGoes ==
  ASSUME Lines, NEW root, At(root), NEW line \in Line, ReadHeading(line)
  PROVE  Goes(root)
<1> DEFINE b == FlushParagraph(Building)
           open == Pop(line.hashes)
           text == <<Len(source) + 1>>
           c == AddChild(b, open[Len(open)].node, "Section", text)
           s == [level |-> line.hashes, node |-> Len(b.nodes) + 1]
<1>1. Read(line) /\ IsHeading(line) /\ Reading
  BY Zenon DEF ReadHeading, Read
<1>2. /\ line \in AnyLine /\ source' = Append(source, line) /\ begin' = begin
      /\ Longer(source, source') /\ Len(source') = Len(source) + 1
      /\ source' \in Seq(Line) /\ begin' \in 0..Len(source')
      /\ Len(source') \in Nat /\ begin <= Len(source')
  BY <1>1, ReadIs, Zenon
<1>3. /\ source \in Seq(AnyLine) /\ Len(source) \in Nat /\ begin \in Nat /\ begin <= Len(source)
      /\ root \in Nat /\ Building.nodes = nodes
      /\ Doc(b, root, source, begin) /\ Path(b, root, source, begin, stack)
      /\ Leaves(Building, b, root)
      /\ root \in 1..Len(b.nodes)
  BY <1>1, FlushInAt, Zenon
<1>4. line.hashes \in Nat /\ line.hashes # 0
  BY <1>1, <1>2 DEF IsHeading, AnyLine
<1>5. Popped(stack, line.hashes, open)
  BY <1>3, <1>4, PopIs, Zenon DEF Pop, Path
<1>6. Built(c) /\ stack' = Append(open, [level |-> line.hashes, node |-> Len(c.nodes)]) /\ para_buf' = <<>>
  BY <1>2, Zenon DEF ReadHeading, Last
<1> HIDE DEF b, open
<1>7. /\ Doc(c, root, source', begin) /\ Leaves(b, c, root)
      /\ Len(c.nodes) = Len(b.nodes) + 1 /\ Blocks(c, source)
      /\ Path(c, root, source', begin, Append(open, s))
  <2>1. NewSection(b, source, stack, line, open, source', c)
    BY <1>2, <1>5, Zenon DEF NewSection
  <2> HIDE DEF c
  <2>2. Headed(b, c, root, source, begin, line, open, source')
    BY <1>1, <1>2, <1>3, <2>1, HeadingKeeps, Zenon
  <2> QED
    BY <2>2, Zenon DEF Headed
<1> HIDE DEF c
<1>8. stack' = Append(open, s)
  BY <1>6, <1>7, Zenon
<1>9. Building' = c /\ Building'.nodes = nodes'
  BY <1>6, <1>7, BuiltIs, Zenon DEF Doc
<1>10. root \in 1..Len(nodes')
  BY <1>3, <1>7, <1>9 DEF Leaves, Bigger
<1>11. Ahead(c, root, source', para_buf')
  BY <1>2, <1>6, <1>7, AheadOfNothing, Zenon
<1>12. Pending(source', begin, para_buf')
  BY <1>2, <1>3, <1>6, NothingPending, Zenon
<1>13. Leaves(Building, c, root)
  BY <1>3, <1>7, LeavesLeaves, Zenon
<1>14. Lines'
  BY <1>2, <1>12, Zenon DEF Lines
<1>15. At(root)'
  BY <1>2, <1>7, <1>8, <1>9, <1>10, <1>11, Zenon DEF At
<1> QED
  BY <1>9, <1>13, <1>14, <1>15, Zenon DEF Goes

LEMMA ReadBlankGoes ==
  ASSUME Lines, NEW root, At(root), NEW line \in Line, ReadBlank(line)
  PROVE  Goes(root)
<1> DEFINE c == FlushParagraph(Building)
<1>1. Read(line) /\ IsBlank(line) /\ Reading /\ Built(c) /\ para_buf' = <<>> /\ stack' = stack
  BY Zenon DEF ReadBlank, Read
<1>2. /\ line \in AnyLine /\ source' = Append(source, line) /\ begin' = begin
      /\ Longer(source, source') /\ Len(source') = Len(source) + 1
      /\ source' \in Seq(Line) /\ begin' \in 0..Len(source')
      /\ Len(source') \in Nat /\ begin <= Len(source')
  BY <1>1, ReadIs, Zenon
<1>3. /\ source \in Seq(AnyLine) /\ Len(source) \in Nat /\ begin \in Nat /\ begin <= Len(source)
      /\ Building.nodes = nodes
      /\ Doc(c, root, source, begin) /\ Path(c, root, source, begin, stack)
      /\ Leaves(Building, c, root)
      /\ root \in 1..Len(c.nodes)
  BY <1>1, FlushInAt, Zenon
<1>4. ~ IsHeading(line)
  BY <1>1 DEF IsBlank, IsHeading
<1> HIDE DEF c
<1>5. Doc(c, root, source', begin)
  BY <1>2, <1>3, DocOfLonger, Zenon
<1>6. Path(c, root, source', begin, stack')
  BY <1>1, <1>2, <1>3, <1>4, PathOfLonger, Zenon
<1>7. Building' = c /\ Building'.nodes = nodes'
  BY <1>1, <1>3, BuiltIs, Zenon DEF Doc
<1>8. root \in 1..Len(nodes')
  BY <1>3, <1>7, Zenon
<1>9. Ahead(c, root, source', para_buf')
  BY <1>1, <1>2, <1>3, AheadOfNothing, Zenon DEF Doc
<1>10. Pending(source', begin, para_buf')
  BY <1>1, <1>2, <1>3, NothingPending, Zenon
<1>11. Lines'
  BY <1>2, <1>10, Zenon DEF Lines
<1>12. At(root)'
  BY <1>2, <1>5, <1>6, <1>7, <1>8, <1>9, Zenon DEF At
<1> QED
  BY <1>3, <1>7, <1>11, <1>12, Zenon DEF Goes

\* The buffer with another line.
MoreBuffer(src, more, bg, buf, buf2) ==
  Pending(more, bg, buf2) /\ Len(more) - Len(buf2) = Len(src) - Len(buf)

LEMMA MorePending ==
  ASSUME NEW src, NEW more, Longer(src, more), NEW bg \in Nat, NEW buf, Pending(src, bg, buf),
         Plain(more, Len(src) + 1), NEW buf2, buf2 = Append(buf, Len(src) + 1)
  PROVE  MoreBuffer(src, more, bg, buf, buf2)
<1>1. /\ buf \in Seq(Nat) /\ bg + Len(buf) <= Len(src)
      /\ \A i \in 1..Len(buf) : buf[i] = Len(src) - Len(buf) + i /\ Plain(src, buf[i])
  BY Zenon DEF Pending
<1>2. Len(src) \in Nat /\ Len(more) = Len(src) + 1 /\ Len(src) + 1 \in Nat
  BY DEF Longer
<1>3. /\ buf2 \in Seq(Nat) /\ Len(buf2) = Len(buf) + 1 /\ Len(buf) \in Nat
      /\ \A i \in 1..Len(buf) : buf2[i] = buf[i]
      /\ buf2[Len(buf) + 1] = Len(src) + 1
  BY <1>1, <1>2, AppendIs
<1>4. Len(more) - Len(buf2) = Len(src) - Len(buf) /\ bg + Len(buf2) <= Len(more)
  BY <1>1, <1>2, <1>3
<1>5. ASSUME NEW i \in 1..Len(buf2)
      PROVE  buf2[i] = Len(more) - Len(buf2) + i /\ Plain(more, buf2[i])
  <2>1. CASE i = Len(buf) + 1
    BY <1>2, <1>3, <2>1
  <2>2. CASE i # Len(buf) + 1
    <3>1. i \in 1..Len(buf)
      BY <1>3, <2>2
    <3>2. buf2[i] = Len(src) - Len(buf) + i /\ Plain(src, buf2[i])
      BY <1>1, <1>3, <3>1
    <3>3. Len(src) - Len(buf) + i \in 1..Len(src)
      BY <1>1, <1>2, <1>3, <3>1
    <3>4. Plain(more, buf2[i])
      <4>1. more[buf2[i]] = src[buf2[i]]
        BY <3>2, <3>3, Zenon DEF Longer
      <4> QED
        BY <3>2, <4>1, Zenon DEF Plain
    <3> QED
      BY <1>4, <3>2, <3>4, Zenon
  <2> QED
    BY <2>1, <2>2
<1> QED
  BY <1>3, <1>4, <1>5, Zenon DEF Pending, MoreBuffer

LEMMA ReadTextGoes ==
  ASSUME Lines, NEW root, At(root), NEW line \in Line, ReadText(line)
  PROVE  Goes(root)
<1> DEFINE b == Building
<1>1. /\ Read(line) /\ ~ IsHeading(line) /\ ~ IsBlank(line) /\ Reading
      /\ para_buf' = Append(para_buf, Len(source'))
      /\ nodes' = nodes /\ edges' = edges /\ stack' = stack /\ last_sibling' = last_sibling
  BY Zenon DEF ReadText, Read
<1>2. /\ line \in AnyLine /\ source' = Append(source, line) /\ begin' = begin
      /\ Longer(source, source') /\ Len(source') = Len(source) + 1
      /\ source' \in Seq(Line) /\ begin' \in 0..Len(source')
      /\ Len(source') \in Nat /\ begin <= Len(source')
  BY <1>1, ReadIs, Zenon
<1>3. /\ source \in Seq(AnyLine) /\ Len(source) \in Nat /\ begin \in Nat /\ begin <= Len(source)
      /\ b.nodes = nodes /\ root \in 1..Len(b.nodes)
  BY <1>1, FlushInAt, Zenon
<1>4. /\ Doc(b, root, source, begin) /\ Path(b, root, source, begin, stack)
      /\ Ahead(b, root, source, para_buf) /\ Pending(source, begin, para_buf)
  BY <1>1, Zenon DEF At, Lines
<1>5. Building' = b
  BY <1>1, Zenon DEF Building
<1> HIDE DEF b
<1>6. Doc(b, root, source', begin)
  BY <1>2, <1>3, <1>4, DocOfLonger, Zenon
<1>7. Path(b, root, source', begin, stack')
  BY <1>1, <1>2, <1>3, <1>4, PathOfLonger, Zenon
<1>8. source'[Len(source) + 1] = line
  BY <1>2, <1>3, ReadLonger
<1>9. Plain(source', Len(source) + 1)
  BY <1>1, <1>8, Zenon DEF Plain
<1>10. /\ Pending(source', begin, para_buf')
       /\ Len(source') - Len(para_buf') = Len(source) - Len(para_buf)
  <2>1. para_buf' = Append(para_buf, Len(source) + 1)
    BY <1>1, <1>2, Zenon
  <2>2. MoreBuffer(source, source', begin, para_buf, para_buf')
    BY <1>2, <1>3, <1>4, <1>9, <2>1, MorePending, Zenon
  <2> QED
    BY <2>2, Zenon DEF MoreBuffer
<1>11. Ahead(b, root, source', para_buf')
  BY <1>4, <1>10, Zenon DEF Ahead
<1>12. Lines'
  BY <1>2, <1>10, Zenon DEF Lines
<1>13. root \in 1..Len(nodes')
  BY <1>1, <1>3, Zenon
<1>14. At(root)'
  BY <1>2, <1>5, <1>6, <1>7, <1>11, <1>13, Zenon DEF At
<1>15. Leaves(b, b, root)
  <2>1. Len(b.nodes) \in Nat /\ Len(b.nodes) <= Len(b.nodes)
    BY <1>4, EdgesAreTyped DEF Doc
  <2> QED
    BY <2>1, Zenon DEF Leaves, Bigger
<1> QED
  BY <1>5, <1>12, <1>14, <1>15, Zenon DEF Goes, b

LEMMA ReturnGoes ==
  ASSUME Lines, NEW root, At(root), Return
  PROVE  Goes(root) /\ ~ Reading'
<1> DEFINE c == FlushParagraph(Building)
<1>1. /\ Reading /\ Built(c) /\ para_buf' = <<>> /\ stack' = <<>>
      /\ source' = source /\ begin' = begin
  BY Zenon DEF Return
<1>2. /\ Len(source) \in Nat /\ begin \in Nat /\ begin <= Len(source)
      /\ Building.nodes = nodes
      /\ Doc(c, root, source, begin)
      /\ Leaves(Building, c, root)
      /\ root \in 1..Len(c.nodes)
  BY <1>1, FlushInAt, Zenon
<1> HIDE DEF c
<1>3. Building' = c /\ Building'.nodes = nodes'
  BY <1>1, <1>2, BuiltIs, Zenon DEF Doc
<1>4. ~ Reading'
  BY <1>1, Zenon DEF Reading
<1>5. At(root)'
  BY <1>1, <1>2, <1>3, <1>4, Zenon DEF At
<1>6. Lines'
  BY <1>1, <1>2, NothingPending, Zenon DEF Lines
<1> QED
  BY <1>2, <1>3, <1>4, <1>5, <1>6, Zenon DEF Goes

\* What a call starts with.
Starts(root) ==
  /\ Lines' /\ At(root)' /\ ~ Reading /\ Reading'
  /\ root = Len(nodes) + 1 /\ Bigger(Building, Building') /\ edges' = edges

LEMMA IngestStarts ==
  ASSUME TextInv, NEW tree \in Tree, Ingest(tree), NEW n, n = Len(nodes) + 1
  PROVE  Starts(n)
<1> DEFINE b == Building
           c == AddNode([b EXCEPT !.last_sibling = [i \in NodeId |-> 0]], tree, "Document", <<>>)
           stk == <<[level |-> 0, node |-> Len(c.nodes)]>>
           bg == Len(source)
<1>1. /\ ~ Reading /\ Built(c) /\ stack' = stk /\ para_buf' = <<>>
      /\ begin' = bg /\ source' = source
  BY Zenon DEF Ingest
<1>2. /\ BuildOK(b) /\ Tidy(b) /\ Blocks(b, source) /\ source \in Seq(Line)
      /\ b.nodes = nodes /\ b.edges = edges
  <2>1. BuildOK(b) /\ Tidy(b) /\ Blocks(b, source) /\ source \in Seq(Line)
    BY Zenon DEF TextInv
  <2> QED
    BY <2>1 DEF Building
<1>3. bg \in Nat
  BY <1>2
<1>4. RootAdded(b, c, tree)
  BY RootIs, Zenon
<1> HIDE DEF b, c
<1>5. /\ Doc(c, n, source, bg) /\ Len(c.nodes) = n
      /\ Bigger(b, c) /\ c.edges = edges
      /\ c.nodes[n].kind = "Document"
  <2>1. Rooted(b, c, source, bg)
    BY <1>2, <1>4, RootKeeps, Zenon
  <2> QED
    BY <1>2, <2>1, Zenon DEF Rooted
<1>6. Building' = c /\ Building'.nodes = nodes' /\ Building'.edges = edges'
  <2>1. Building' = c /\ Building'.nodes = nodes'
    BY <1>1, <1>5, BuiltIs, Zenon DEF Doc
  <2> QED
    BY <1>1, <2>1 DEF Built
<1>7. n \in 1..n /\ n \in Nat
  BY <1>2, <1>5 DEF Bigger
<1>8. stk # <<>> /\ stk \in Seq([level : Nat, node : Nat]) /\ Len(stk) = 1 /\ stk[1] = [level |-> 0, node |-> n]
  BY <1>5, <1>7
<1> HIDE DEF stk
<1>9. Path(c, n, source, bg, stk)
  <2>1. Levels(c, n, stk)
    <3>1. stk[1].node = n
      BY <1>8
    <3>2. \A i \in 1..1 : i = 1
      OBVIOUS
    <3>3. n \in n..n /\ (\A i \in 1..1, j \in 1..1 : ~ (i < j)) /\ \A i \in 1..(1 - 1) : FALSE
      BY <1>7
    <3> QED
      BY <1>5, <1>8, <3>1, <3>2, <3>3, Zenon DEF Levels
  <2>2. \A i \in 2..1 : FALSE
    OBVIOUS
  <2>3. \A h : ~ Heading(source, bg, h)
    BY <1>3 DEF Heading
  <2> HIDE DEF bg
  <2> QED
    BY <1>8, <2>1, <2>2, <2>3, Zenon DEF Path, Sections, Covered
<1>10. Ahead(c, n, source, <<>>)
  <2> SUFFICES ASSUME NEW x, IsParagraph(c, x)
               PROVE  Ends(c, x) <= Len(source) - Len(<<>>) /\ ~ (n <= x)
    BY Zenon DEF Ahead
  <2>1. x \in 1..n /\ x # n
    BY <1>5 DEF IsParagraph
  <2>2. ~ (n <= x)
    BY <1>7, <2>1
  <2>3. Ends(c, x) \in 1..Len(source)
    BY <1>3, <1>5, EndsAreLines, Zenon DEF Doc
  <2> DEFINE e == Ends(c, x)
  <2>4. e \in 1..Len(source) /\ Len(<<>>) = 0
    BY <2>3
  <2> HIDE DEF e
  <2>5. e <= Len(source) - Len(<<>>)
    BY <1>3, <2>4
  <2> QED
    BY <2>2, <2>5 DEF e
<1>11. Pending(source, bg, <<>>)
  <2>1. bg <= Len(source)
    BY <1>3
  <2> QED
    BY <1>3, <2>1, NothingPending
<1>12. Lines'
  <2>1. bg \in 0..Len(source)
    BY <1>3
  <2> QED
    BY <1>1, <1>2, <1>11, <2>1, Zenon DEF Lines
<1>13. At(n)'
  <2>1. n \in 1..Len(nodes')
    BY <1>5, <1>6, <1>7
  <2> QED
    BY <1>1, <1>5, <1>6, <1>9, <1>10, <2>1, Zenon DEF At
<1>14. Reading'
  BY <1>1, <1>8, Zenon DEF Reading
<1> QED
  BY <1>1, <1>5, <1>6, <1>12, <1>13, <1>14, Zenon DEF Starts, b

LEMMA InvStarts ==
  ASSUME Init
  PROVE  TextInv
<1> DEFINE b == Building
<1>1. /\ nodes = <<>> /\ edges = <<>> /\ last_sibling = <<>> /\ stack = <<>>
      /\ source = <<>> /\ begin = 0 /\ para_buf = <<>>
  BY Zenon DEF Init
<1>2. /\ b = [nodes |-> b.nodes, edges |-> b.edges, last_sibling |-> b.last_sibling]
      /\ b.nodes = <<>> /\ b.edges = <<>> /\ b.last_sibling = <<>>
  BY <1>1 DEF Building
<1>3. Range(<<>>) = {} /\ IsInjective(<<>>)
  BY DEF Range, IsInjective
<1>4. /\ <<>> \in Seq(Payload) /\ <<>> \in Seq(EdgesOn(0)) /\ <<>> \in Seq(Line)
      /\ Len(<<>>) = 0 /\ 1..0 = {}
      /\ <<>> \in [1..0 -> 0..0]
  <2>1. <<>> \in Seq(Nat) /\ Len(<<>>) = 0
    OBVIOUS
  <2>2. <<>> \in [1..0 -> 0..0]
    OBVIOUS
  <2> QED
    BY <2>1, <2>2
<1> HIDE DEF b
<1>5. BuildOK(b)
  BY <1>2, <1>4 DEF BuildOK
<1>6. Tidy(b)
  <2>1. \A p, x : ~ Child(b, p, x) /\ ~ Linked(b, p, x)
    BY <1>2, <1>3, Zenon DEF Child, Linked
  <2> QED
    BY <1>2, <1>3, <1>4, <2>1, Zenon DEF Tidy, OneParent, Forward, Chained
<1>7. Blocks(b, source)
  BY <1>2, <1>4, Zenon DEF Blocks, IsParagraph
<1>8. Pending(source, begin, para_buf)
  <2>1. Len(<<>>) \in Nat /\ 0 <= Len(<<>>) /\ 0 \in Nat
    OBVIOUS
  <2> QED
    BY <1>1, <2>1, NothingPending, Zenon
<1>9. begin \in 0..Len(source)
  BY <1>1
<1> QED
  BY <1>1, <1>4, <1>5, <1>6, <1>7, <1>8, <1>9, Zenon DEF TextInv, Reading, b

\* A step while a document is read.
LEMMA ReadingGoes ==
  ASSUME TextInv, NEW root, At(root), Reading, [Next]_vars
  PROVE  Goes(root)
<1>1. Lines
  BY Zenon DEF TextInv, Lines
<1>2. CASE UNCHANGED vars
  <2>1. Building' = Building /\ Lines' /\ At(root)'
    <3>1. /\ nodes' = nodes /\ edges' = edges /\ stack' = stack /\ last_sibling' = last_sibling
          /\ para_buf' = para_buf /\ source' = source /\ begin' = begin
      BY <1>2 DEF vars
    <3> QED
      BY <1>1, <3>1, Zenon DEF Building, Lines, At, Reading
  <2>2. Leaves(Building, Building, root)
    <3>1. Len(Building.nodes) \in Nat /\ Len(Building.nodes) <= Len(Building.nodes)
      BY EdgesAreTyped DEF TextInv
    <3> QED
      BY <3>1, Zenon DEF Leaves, Bigger
  <2> QED
    BY <2>1, <2>2, Zenon DEF Goes
<1>3. ASSUME NEW tree \in Tree, Ingest(tree)
      PROVE  FALSE
  BY <1>3, Zenon DEF Ingest
<1>4. ASSUME NEW line \in Line, ReadHeading(line)
      PROVE  Goes(root)
  BY <1>1, <1>4, ReadHeadingGoes, Zenon
<1>5. ASSUME NEW line \in Line, ReadBlank(line)
      PROVE  Goes(root)
  BY <1>1, <1>5, ReadBlankGoes, Zenon
<1>6. ASSUME NEW line \in Line, ReadText(line)
      PROVE  Goes(root)
  BY <1>1, <1>6, ReadTextGoes, Zenon
<1>7. CASE Return
  BY <1>1, <1>7, ReturnGoes, Zenon
<1> QED
  BY <1>2, <1>3, <1>4, <1>5, <1>6, <1>7, Zenon DEF Next

LEMMA TextInvInductive ==
  ASSUME TextInv, [Next]_vars
  PROVE  TextInv'
<1>1. CASE Reading
  <2>1. PICK root : At(root)
    BY <1>1, ReadingHasNodes, InvHasRoot, Zenon
  <2>2. Goes(root)
    BY <1>1, <2>1, ReadingGoes, Zenon
  <2> QED
    BY <2>2, GoesKeepsInv, Zenon DEF Goes
<1>2. CASE ~ Reading /\ UNCHANGED vars
  <2>1. /\ nodes' = nodes /\ edges' = edges /\ stack' = stack /\ last_sibling' = last_sibling
        /\ para_buf' = para_buf /\ source' = source /\ begin' = begin
    BY <1>2 DEF vars
  <2> QED
    BY <2>1, Zenon DEF TextInv, Building, Reading
<1>3. ASSUME NEW tree \in Tree, Ingest(tree)
      PROVE  TextInv'
  <2>1. PICK n : n = Len(nodes) + 1
    BY Zenon
  <2>2. Starts(n)
    BY <1>3, <2>1, IngestStarts, Zenon
  <2> QED
    BY <2>2, GoesKeepsInv, Zenon DEF Starts
<1>4. ASSUME ~ Reading, NEW line \in Line, Read(line)
      PROVE  FALSE
  BY <1>4, Zenon DEF Read
<1>5. ASSUME ~ Reading, Return
      PROVE  FALSE
  BY <1>5, Zenon DEF Return
<1> QED
  BY <1>1, <1>2, <1>3, <1>4, <1>5, Zenon DEF Next, ReadHeading, ReadBlank, ReadText

\* The inductive invariant holds (sle-adapters-text/src/lib.rs, ingest).
THEOREM TextInvariant == Spec => []TextInv
<1>1. Init => TextInv
  BY InvStarts
<1>2. TextInv /\ [Next]_vars => TextInv'
  BY TextInvInductive
<1> QED
  BY <1>1, <1>2, PTL DEF Spec

-----------------------------------------------------------------------------
\* What the inductive invariant says in the terms of the properties.

\* The state while there is a document.
LEMMA AtIs ==
  ASSUME NEW root, At(root)
  PROVE  /\ Building.nodes = nodes /\ Building.edges = edges /\ Building.last_sibling = last_sibling
         /\ BuildOK(Building) /\ Tidy(Building) /\ Open(Building, root)
         /\ Placed(Building, root, source, begin) /\ Blocks(Building, source)
         /\ Len(nodes) \in Nat /\ root \in 1..Len(nodes) /\ root \in Nat
<1>1. Building.nodes = nodes /\ Building.edges = edges /\ Building.last_sibling = last_sibling
  BY DEF Building
<1>2. /\ BuildOK(Building) /\ Tidy(Building) /\ Open(Building, root)
      /\ Placed(Building, root, source, begin) /\ Blocks(Building, source)
      /\ root \in 1..Len(nodes)
  BY Zenon DEF At, Doc
<1>3. Len(nodes) \in Nat
  BY <1>1, <1>2, EdgesAreTyped
<1>4. root \in Nat
  BY <1>2, <1>3
<1> QED
  BY <1>1, <1>2, <1>3, <1>4

\* The root of the latest document is the last node that is a Document.
LEMMA RootIsMax ==
  ASSUME NEW root, At(root)
  PROVE  /\ Max(Roots) = root
         /\ \A n : n \in Current <=> n \in root..Len(nodes)
<1>1. /\ Len(nodes) \in Nat /\ root \in 1..Len(nodes) /\ root \in Nat
      /\ nodes[root].kind = "Document"
      /\ \A n \in (root + 1)..Len(nodes) : nodes[n].kind # "Document"
  <2>1. LastTree(Building, root) /\ Building.nodes = nodes
    BY AtIs, Zenon DEF Open
  <2> QED
    BY <2>1, AtIs DEF LastTree
<1>2. \A n \in 1..Len(nodes) : nodes[n].kind = "Document" => n <= root
  <2> TAKE n \in 1..Len(nodes)
  <2>1. ~ (n <= root) => n \in (root + 1)..Len(nodes)
    BY <1>1
  <2> QED
    BY <1>1, <2>1
<1>3. root \in Roots /\ Roots \subseteq Nat /\ \A n \in Roots : n <= root
  BY <1>1, <1>2 DEF Roots, NodeId
<1>4. Max(Roots) = root
  BY <1>3, MaxIs
<1>5. ASSUME NEW n
      PROVE  n \in Current <=> n \in root..Len(nodes)
  <2>1. n \in Current <=> n \in 1..Len(nodes) /\ \A r \in Roots : r <= n
    BY DEF Current, NodeId
  <2>2. n \in 1..Len(nodes) => ((\A r \in Roots : r <= n) <=> root <= n)
    <3> SUFFICES ASSUME n \in 1..Len(nodes), root <= n
                 PROVE  \A r \in Roots : r <= n
      BY <1>3
    <3> QED
      BY <1>1, <1>3
  <2>3. n \in 1..Len(nodes) /\ root <= n <=> n \in root..Len(nodes)
    BY <1>1
  <2> QED
    BY <2>1, <2>2, <2>3, Zenon
<1> QED
  BY <1>4, <1>5

LEMMA NoNodes ==
  ASSUME TextInv, nodes = <<>>
  PROVE  ~ Reading /\ Range(edges) = {} /\ edges = <<>>
<1>1. ~ Reading /\ BuildOK(Building)
  BY Zenon DEF TextInv
<1>2. edges \in Seq(EdgesOn(0))
  BY <1>1 DEF BuildOK, Building
<1>3. EdgesOn(0) = {}
  BY DEF EdgesOn
<1>4. edges = <<>>
  BY <1>2, <1>3
<1> QED
  BY <1>1, <1>4 DEF Range

LEMMA InvTypes ==
  ASSUME TextInv
  PROVE  TypeOK
<1>1. /\ BuildOK(Building) /\ source \in Seq(Line) /\ begin \in 0..Len(source)
      /\ Pending(source, begin, para_buf)
      /\ Building.nodes = nodes /\ Building.edges = edges /\ Building.last_sibling = last_sibling
  <2>1. /\ BuildOK(Building) /\ source \in Seq(Line) /\ begin \in 0..Len(source)
        /\ Pending(source, begin, para_buf)
    BY Zenon DEF TextInv
  <2> QED
    BY <2>1 DEF Building
<1>2. /\ nodes \in Seq(Payload) /\ edges \in Seq(EdgesOn(Len(nodes)))
      /\ last_sibling \in [1..Len(nodes) -> 0..Len(nodes)]
  BY <1>1, Zenon DEF BuildOK
<1>3. edges \in Seq(EdgeKey)
  BY <1>2 DEF EdgeKey, EdgesOn, Kinds, NodeId
<1>4. Len(nodes) \in Nat
  BY <1>2
<1>5. last_sibling \in [NodeId -> NodeId \cup {0}]
  <2>1. 0..Len(nodes) = 1..Len(nodes) \cup {0}
    BY <1>4
  <2> QED
    BY <1>2, <2>1, Zenon DEF NodeId
<1>6. para_buf \in Seq(1..Len(source))
  <2>1. Len(source) \in Nat /\ begin \in Nat
    BY <1>1
  <2>2. CASE para_buf = <<>>
    BY <2>2
  <2>3. CASE para_buf # <<>>
    BY <1>1, <2>1, <2>3, PendingLines
  <2> QED
    BY <2>2, <2>3
<1>7. stack \in Seq([level : Nat, node : NodeId])
  <2>1. CASE stack = <<>>
    BY <2>1
  <2>2. CASE stack # <<>>
    <3>1. PICK root : At(root)
      BY <2>2, ReadingHasNodes, InvHasRoot, Zenon DEF Reading
    <3>2. Levels(Building, root, stack)
      BY <2>2, <3>1, Zenon DEF At, Path, Reading
    <3>3. /\ stack \in Seq([level : Nat, node : Nat])
          /\ \A i \in 1..Len(stack) : stack[i].level \in Nat /\ stack[i].node \in root..Len(nodes)
      BY <1>1, <3>2, LevelsAre
    <3>4. root \in 1..Len(nodes)
      BY <3>1, AtIs
    <3>5. \A n \in root..Len(nodes) : n \in NodeId
      BY <1>4, <3>4 DEF NodeId
    <3> DEFINE S == [level : Nat, node : Nat]
               T == [level : Nat, node : NodeId]
    <3>6. \A s \in S : s.node \in NodeId => s \in T
      OBVIOUS
    <3>7. stack \in Seq(S)
      BY <3>3, Zenon
    <3> HIDE DEF S, T
    <3>8. \A i \in 1..Len(stack) : stack[i] \in S
      BY <3>7
    <3>9. \A i \in 1..Len(stack) : stack[i] \in T
      BY <3>3, <3>5, <3>6, <3>8, Zenon
    <3>10. stack \in Seq(T)
      BY <3>7, <3>9, RetypedSeq
    <3> QED
      BY <3>10 DEF T
  <2> QED
    BY <2>1, <2>2
<1> QED
  BY <1>1, <1>2, <1>3, <1>5, <1>6, <1>7, Zenon DEF TypeOK

\* Every variable keeps its type.
THEOREM TypeCorrect == Spec => []TypeOK
BY TextInvariant, InvTypes, PTL

LEMMA InvPath ==
  ASSUME TextInv
  PROVE  StackIsPath
<1> SUFFICES ASSUME Reading
             PROVE  /\ stack[1] = [level |-> 0, node |-> Max(Roots)]
                    /\ \A i \in 1..(Len(stack) - 1) :
                         /\ stack[i].level < stack[i + 1].level
                         /\ Edge(stack[i].node, stack[i + 1].node, "Contains") \in Range(edges)
  BY Zenon DEF StackIsPath
<1>1. PICK root : At(root)
  BY ReadingHasNodes, InvHasRoot, Zenon
<1>2. Levels(Building, root, stack) /\ Max(Roots) = root /\ Building.edges = edges
  BY <1>1, RootIsMax, AtIs, Zenon DEF At, Path
<1>3. /\ stack[1] = [level |-> 0, node |-> root]
      /\ \A i, j \in 1..Len(stack) : i < j => stack[i].level < stack[j].level
      /\ \A i \in 1..(Len(stack) - 1) : Child(Building, stack[i].node, stack[i + 1].node)
  BY <1>2, Zenon DEF Levels
<1>4. Len(stack) \in Nat
  BY <1>2, LevelsAre
<1>5. \A i \in 1..(Len(stack) - 1) : i \in 1..Len(stack) /\ i + 1 \in 1..Len(stack) /\ i < i + 1
  BY <1>4
<1> QED
  BY <1>2, <1>3, <1>5, Zenon DEF Child

\* The stack is a path from the root of the document with increasing levels
\* (the loop that pops for a heading).
THEOREM StackStaysPath == Spec => []StackIsPath
BY TextInvariant, InvPath, PTL

LEMMA GovernsIsOver ==
  ASSUME Building.nodes = nodes
  PROVE  \A h, n : Governs(h, n) <=> Over(Building, source, begin, h, n)
BY Zenon DEF Governs, Over, HeadingAt, Heading, FirstLine, Begins

LEMMA EdgesInAt ==
  ASSUME NEW root, At(root), NEW e \in Range(edges)
  PROVE  e = Edge(e.src, e.dst, e.kind) /\ e.src \in NodeId /\ e.dst \in NodeId /\ e.kind \in Kinds
<1>1. e \in EdgesOn(Len(nodes))
  BY AtIs, EdgesAreTyped
<1> QED
  BY <1>1 DEF EdgesOn, Edge, NodeId

LEMMA InvOutline ==
  ASSUME TextInv
  PROVE  FollowsOutline
<1> SUFFICES ASSUME NEW e \in {x \in Of("Contains") : x.dst \in Current}
             PROVE  LET headings == {h \in 1..Len(source) : Governs(h, e.dst)}
                    IN  IF headings = {} THEN e.src = Max(Roots)
                        ELSE nodes[e.src].kind = "Section" /\ nodes[e.src].text = <<Max(headings)>>
  BY DEF FollowsOutline
<1> DEFINE headings == {h \in 1..Len(source) : Governs(h, e.dst)}
<1>1. e \in Range(edges) /\ e.kind = "Contains" /\ e.dst \in Current
  BY DEF Of
<1>2. nodes # <<>>
  BY <1>1, NoNodes
<1>3. PICK root : At(root)
  BY <1>2, InvHasRoot, Zenon
<1>4. Max(Roots) = root /\ e.dst \in root..Len(nodes)
  BY <1>1, <1>3, RootIsMax
<1>5. /\ Building.nodes = nodes /\ Building.edges = edges
      /\ Placed(Building, root, source, begin)
  BY <1>3, AtIs, Zenon
<1>6. Child(Building, e.src, e.dst)
  BY <1>1, <1>3, <1>5, EdgesInAt, Zenon DEF Child
<1>7. Place(Building, root, source, begin, e.src, e.dst)
  BY <1>4, <1>5, <1>6, Zenon DEF Placed
<1>8. \A h : Governs(h, e.dst) <=> Over(Building, source, begin, h, e.dst)
  BY <1>5, GovernsIsOver, Zenon
<1>9. \A h : Over(Building, source, begin, h, e.dst) => h \in 1..Len(source)
  <2>1. Len(source) \in Nat /\ begin \in Nat
    BY DEF TextInv
  <2>2. \A h \in (begin + 1)..Len(source) : h \in 1..Len(source)
    BY <2>1
  <2> QED
    BY <2>2, Zenon DEF Over, Heading
<1>10. \A h : h \in headings <=> Over(Building, source, begin, h, e.dst)
  BY <1>8, <1>9
<1>11. headings \in SUBSET Nat
  OBVIOUS
<1> HIDE DEF headings
<1>12. CASE e.src = root /\ \A h : ~ Over(Building, source, begin, h, e.dst)
  BY <1>4, <1>10, <1>12 DEF headings
<1>13. ASSUME NEW g, nodes[e.src].kind = "Section", nodes[e.src].text = <<g>>,
              Over(Building, source, begin, g, e.dst),
              \A h : Over(Building, source, begin, h, e.dst) => h <= g
       PROVE  headings # {} /\ nodes[e.src].kind = "Section"
              /\ nodes[e.src].text = <<Max(headings)>>
  <2>1. g \in headings /\ \A h \in headings : h <= g
    BY <1>10, <1>13, Zenon
  <2>2. Max(headings) = g
    BY <1>11, <2>1, MaxIs
  <2> QED
    BY <1>13, <2>1, <2>2
<1> QED
  BY <1>5, <1>7, <1>12, <1>13, Zenon DEF Place, headings

\* The tree of the document that is being read is its outline: each section and
\* paragraph hangs under the heading a reader would put it under.
THEOREM OutlineFollowed == Spec => []FollowsOutline
BY TextInvariant, InvOutline, PTL

LEMMA InvParagraphs ==
  ASSUME TextInv
  PROVE  ParagraphsAreBlocks
<1> DEFINE b == Building
<1>1. Blocks(b, source) /\ b.nodes = nodes
  BY DEF TextInv, Building
<1>2. Len(source) \in Nat /\ Len(nodes) \in Nat
  <2>1. source \in Seq(Line) /\ BuildOK(b)
    BY Zenon DEF TextInv
  <2> QED
    BY <1>1, <2>1, EdgesAreTyped
<1> HIDE DEF b
<1> SUFFICES ASSUME NEW n \in NodeId, nodes[n].kind = "Paragraph"
             PROVE  LET text == nodes[n].text
                    IN  /\ \A i \in 2..Len(text) : text[i] = text[i - 1] + 1
                        /\ \A i \in 1..Len(text) :
                             ~ IsHeading(source[text[i]]) /\ ~ IsBlank(source[text[i]])
                        /\ \A m \in NodeId :
                             nodes[m].kind = "Paragraph" /\ FirstLine(m) = text[Len(text)] + 1
                               => \E d \in Roots : n < d /\ d < m
  BY DEF ParagraphsAreBlocks
<1> DEFINE text == nodes[n].text
<1>3. IsParagraph(b, n)
  BY <1>1, Zenon DEF IsParagraph, NodeId
<1>4. /\ text \in Seq(1..Len(source)) /\ text # <<>>
      /\ \A i \in 1..Len(text) : text[i] = text[1] + i - 1 /\ Plain(source, text[i])
  BY <1>1, <1>3, Zenon DEF Blocks, Block
<1>5. Ends(b, n) = text[Len(text)] /\ Begins(b, n) = text[1]
  BY <1>1, Zenon DEF Ends, Begins
<1> HIDE DEF text
<1>6. Len(text) \in Nat \ {0} /\ text[1] \in Nat /\ text[Len(text)] \in Nat
  BY <1>4
<1>7. \A i \in 2..Len(text) : text[i] = text[i - 1] + 1
  <2> TAKE i \in 2..Len(text)
  <2>1. i \in 1..Len(text) /\ i - 1 \in 1..Len(text) /\ i \in Nat
    BY <1>6
  <2>2. text[i] = text[1] + i - 1 /\ text[i - 1] = text[1] + (i - 1) - 1
    BY <1>4, <2>1, Zenon
  <2> QED
    BY <1>6, <2>1, <2>2
<1>8. \A i \in 1..Len(text) : ~ IsHeading(source[text[i]]) /\ ~ IsBlank(source[text[i]])
  BY <1>4, Zenon DEF Plain
<1>9. ASSUME NEW m \in NodeId, nodes[m].kind = "Paragraph", FirstLine(m) = text[Len(text)] + 1
      PROVE  \E d \in Roots : n < d /\ d < m
  <2>1. IsParagraph(b, m) /\ Begins(b, m) = FirstLine(m)
    BY <1>1, <1>9, Zenon DEF IsParagraph, NodeId, Begins, FirstLine
  <2>2. Ends(b, n) + 1 = Begins(b, m) /\ ~ (Begins(b, m) <= Ends(b, n))
    BY <1>5, <1>6, <1>9, <2>1
  <2>3. n \in 1..Len(nodes) /\ m \in 1..Len(nodes)
    BY DEF NodeId
  <2>4. n < m
    <3>1. n # m
      <4> SUFFICES ASSUME n = m
                   PROVE  FALSE
        OBVIOUS
      <4>1. text[1] = text[Len(text)] + 1
        BY <1>5, <2>2
      <4>2. text[Len(text)] = text[1] + Len(text) - 1
        BY <1>4, <1>6
      <4> QED
        BY <1>6, <4>1, <4>2
    <3>2. ~ (m < n)
      <4> SUFFICES ASSUME m < n
                   PROVE  FALSE
        OBVIOUS
      <4>1. Ends(b, m) < Begins(b, n)
        BY <1>1, <1>3, <2>1, Zenon DEF Blocks
      <4> DEFINE other == nodes[m].text
      <4>2. /\ other \in Seq(1..Len(source)) /\ other # <<>>
            /\ \A i \in 1..Len(other) : other[i] = other[1] + i - 1
        BY <1>1, <2>1, Zenon DEF Blocks, Block
      <4>3. Ends(b, m) = other[Len(other)] /\ Begins(b, m) = other[1]
        BY <1>1, Zenon DEF Ends, Begins
      <4> HIDE DEF other
      <4>4. Len(other) \in Nat \ {0} /\ other[1] \in Nat
        BY <4>2
      <4>5. other[Len(other)] = other[1] + Len(other) - 1
        BY <4>2, <4>4
      <4>6. text[Len(text)] = text[1] + Len(text) - 1
        BY <1>4, <1>6
      <4>7. /\ other[Len(other)] < text[1] /\ text[Len(text)] + 1 = other[1]
        BY <1>5, <2>2, <4>1, <4>3, Zenon
      <4> QED
        BY SMTT(60), <1>6, <4>4, <4>5, <4>6, <4>7
    <3> QED
      BY <1>2, <2>3, <3>1, <3>2
  <2>5. PICK d \in (n + 1)..(m - 1) : nodes[d].kind = "Document"
    BY <1>1, <1>3, <2>1, <2>2, <2>4, Zenon DEF Blocks
  <2>6. n < d /\ d < m /\ d \in 1..Len(nodes)
    BY <1>2, <2>3
  <2> QED
    BY <2>5, <2>6 DEF Roots, NodeId
<1> QED
  BY <1>7, <1>8, <1>9, Zenon DEF text

\* Paragraphs are whole blocks of lines (flush_paragraph at each heading, at each
\* blank line and at the end).
THEOREM ParagraphsStayBlocks == Spec => []ParagraphsAreBlocks
BY TextInvariant, InvParagraphs, PTL

\* The next one after c among the children of p is the least of the later ones.
Later(b, p, c) == {d \in 1..Len(b.nodes) : Child(b, p, d) /\ c < d}

LEMMA ChainIs ==
  ASSUME NEW b, BuildOK(b), Chained(b)
  PROVE  \A c, d : Linked(b, c, d) <=>
                     \E p \in 1..Len(b.nodes) : /\ Child(b, p, c) /\ Later(b, p, c) # {}
                                                /\ d = Min(Later(b, p, c))
<1> DEFINE N == 1..Len(b.nodes)
           next(p, c) == Later(b, p, c)
<1>1. /\ Len(b.nodes) \in Nat
      /\ \A p, c : Child(b, p, c) \/ Linked(b, p, c) => p \in N /\ c \in N
  BY EdgesAreTyped
<1>2. \A n \in N : n \in Nat
  BY <1>1
<1>3. \A p, c, d : d \in next(p, c) <=> Child(b, p, d) /\ c < d
  BY <1>1 DEF Later
<1> HIDE DEF next
<1>4. ASSUME NEW p \in N, NEW c, Child(b, p, c), next(p, c) # {}
      PROVE  \A d : Neighbours(b, p, c, d) <=> d = Min(next(p, c))
  <2>1. c \in Nat /\ next(p, c) \in SUBSET Nat
    <3>1. \A x : Child(b, p, x) => x \in Nat
      BY <1>1, <1>2
    <3> QED
      BY <1>3, <1>4, <3>1
  <2>2. Min(next(p, c)) \in next(p, c) /\ \A y \in next(p, c) : Min(next(p, c)) <= y
    BY <1>4, <2>1, MinExists
  <2> DEFINE m == Min(next(p, c))
  <2>3. m \in Nat /\ Child(b, p, m) /\ c < m /\ \A y : Child(b, p, y) /\ c < y => m <= y
    BY <1>3, <2>1, <2>2
  <2> HIDE DEF m
  <2>4. Neighbours(b, p, c, m)
    <3>1. \A x \in (c + 1)..(m - 1) : c < x /\ ~ (m <= x)
      BY <2>1, <2>3
    <3> QED
      BY <1>4, <2>3, <3>1, Zenon DEF Neighbours
  <2>5. ASSUME NEW d, Neighbours(b, p, c, d)
        PROVE  d = m
    <3>1. /\ Child(b, p, d) /\ c < d
          /\ \A x \in (c + 1)..(d - 1) : ~ Child(b, p, x)
      BY <2>5, Zenon DEF Neighbours
    <3>2. d \in Nat
      BY <1>1, <1>2, <3>1
    <3>3. m <= d
      BY <2>3, <3>1, Zenon
    <3>4. m \notin (c + 1)..(d - 1)
      BY <2>3, <3>1
    <3> QED
      BY <2>1, <2>3, <3>2, <3>3, <3>4
  <2> QED
    BY <2>4, <2>5 DEF m
<1>5. \A p, c, d : Neighbours(b, p, c, d) => p \in N /\ c \in N /\ d \in N
                                              /\ Child(b, p, c) /\ d \in next(p, c)
  BY <1>1, <1>3, Zenon DEF Neighbours
<1>6. \A c, d : Linked(b, c, d) <=> \E p \in N : Neighbours(b, p, c, d)
  <2>1. \A c \in N, d \in N : Linked(b, c, d) <=> \E p \in N : Neighbours(b, p, c, d)
    BY Zenon DEF Chained
  <2> QED
    BY <1>1, <1>5, <2>1, Zenon
<1> SUFFICES ASSUME NEW c, NEW d
             PROVE  Linked(b, c, d) <=> \E p \in N : /\ Child(b, p, c) /\ next(p, c) # {}
                                                     /\ d = Min(next(p, c))
  BY Zenon DEF next
<1>7. ASSUME NEW p \in N
      PROVE  Neighbours(b, p, c, d)
               <=> Child(b, p, c) /\ next(p, c) # {} /\ d = Min(next(p, c))
  <2>1. Neighbours(b, p, c, d) => Child(b, p, c) /\ next(p, c) # {}
    BY <1>5
  <2> QED
    BY <1>4, <2>1, Zenon
<1> QED
  BY <1>6, <1>7, Zenon

LEMMA InvSiblings ==
  ASSUME TextInv
  PROVE  SiblingsAreChained
<1> DEFINE children(p) == {e.dst : e \in {x \in Of("Contains") : x.src = p}}
           next(p, c)  == {d \in children(p) : d > c}
           b == Building
<1>1. /\ BuildOK(b) /\ Chained(b) /\ IsInjective(edges)
      /\ b.nodes = nodes /\ b.edges = edges
  <2>1. BuildOK(b) /\ Tidy(b)
    BY Zenon DEF TextInv
  <2> QED
    BY <2>1 DEF Tidy, Building
<1> HIDE DEF b
<1>2. /\ \A p, c : Child(b, p, c) => c \in NodeId
      /\ \A e \in Range(edges) : e = Edge(e.src, e.dst, e.kind)
  <2>1. \A e \in Range(edges) : e \in EdgesOn(Len(nodes))
    BY <1>1, EdgesAreTyped
  <2>2. \A e \in Range(edges) : e = Edge(e.src, e.dst, e.kind)
    BY <2>1 DEF EdgesOn, Edge
  <2> QED
    BY <1>1, <2>2, EdgesAreTyped DEF NodeId
<1>3. \A p, c : c \in children(p) <=> Child(b, p, c)
  <2> TAKE p, c
  <2>1. ASSUME c \in children(p)
        PROVE  Child(b, p, c)
    <3>1. PICK e \in Of("Contains") : e.src = p /\ c = e.dst
      BY <2>1
    <3>2. e \in Range(edges) /\ e.kind = "Contains"
      BY <3>1 DEF Of
    <3> QED
      BY <1>1, <1>2, <3>1, <3>2, ZenonT(60) DEF Child
  <2>2. ASSUME Child(b, p, c)
        PROVE  c \in children(p)
    <3>1. Edge(p, c, "Contains") \in Of("Contains")
      BY <1>1, <2>2 DEF Child, Of, Edge
    <3> QED
      BY <3>1 DEF Edge
  <2> QED
    BY <2>1, <2>2
<1>4. \A p, c : next(p, c) = Later(b, p, c)
  <2> TAKE p, c
  <2>1. \A d : d > c <=> c < d
    OBVIOUS
  <2> HIDE DEF children
  <2>2. \A d : d \in next(p, c) <=> d \in Later(b, p, c)
    BY <1>1, <1>2, <1>3, <2>1 DEF Later, NodeId
  <2> HIDE DEF next
  <2> QED
    BY <2>2
<1> HIDE DEF children, next
<1>5. \A c, d : Linked(b, c, d) <=> \E p \in NodeId : /\ Child(b, p, c) /\ next(p, c) # {}
                                                      /\ d = Min(next(p, c))
  <2>1. \A c, d : Linked(b, c, d) <=> \E p \in 1..Len(b.nodes) :
                                        /\ Child(b, p, c) /\ Later(b, p, c) # {}
                                        /\ d = Min(Later(b, p, c))
    BY <1>1, ChainIs, Zenon
  <2> QED
    BY <1>1, <1>4, <2>1, Zenon DEF NodeId
<1> DEFINE pairs(p) == {Edge(c, Min(next(p, c)), "Precedes") :
                          c \in {x \in children(p) : next(p, x) # {}}}
           all == UNION {pairs(p) : p \in NodeId}
<1>6. \A e : e \in Of("Precedes") <=> \E c, d : e = Edge(c, d, "Precedes") /\ Linked(b, c, d)
  <2> TAKE e
  <2>1. ASSUME e \in Of("Precedes")
        PROVE  \E c, d : e = Edge(c, d, "Precedes") /\ Linked(b, c, d)
    <3>1. e \in Range(edges) /\ e.kind = "Precedes"
      BY <2>1 DEF Of
    <3>2. e = Edge(e.src, e.dst, "Precedes")
      BY <1>2, <3>1
    <3> QED
      BY <1>1, <3>1, <3>2 DEF Linked
  <2>2. ASSUME NEW c, NEW d, e = Edge(c, d, "Precedes"), Linked(b, c, d)
        PROVE  e \in Of("Precedes")
    BY <1>1, <2>2 DEF Linked, Of, Edge
  <2> QED
    BY <2>1, <2>2
<1>7. \A e : e \in all <=> \E p \in NodeId : \E c : /\ Child(b, p, c) /\ next(p, c) # {}
                                                    /\ e = Edge(c, Min(next(p, c)), "Precedes")
  <2>1. \A p, e : e \in pairs(p) <=> \E c : /\ Child(b, p, c) /\ next(p, c) # {}
                                            /\ e = Edge(c, Min(next(p, c)), "Precedes")
    BY <1>3
  <2> HIDE DEF pairs
  <2> QED
    BY <2>1
<1> HIDE DEF all
<1>8. Of("Precedes") = all
  <2>1. ASSUME NEW e, e \in Of("Precedes")
        PROVE  e \in all
    <3>1. PICK c, d : e = Edge(c, d, "Precedes") /\ Linked(b, c, d)
      BY <1>6, <2>1, Zenon
    <3>2. PICK p \in NodeId : Child(b, p, c) /\ next(p, c) # {} /\ d = Min(next(p, c))
      BY <1>5, <3>1, Zenon
    <3> QED
      BY <1>7, <3>1, <3>2, Zenon
  <2>2. ASSUME NEW e, e \in all
        PROVE  e \in Of("Precedes")
    <3>1. PICK p \in NodeId : \E c : /\ Child(b, p, c) /\ next(p, c) # {}
                                      /\ e = Edge(c, Min(next(p, c)), "Precedes")
      BY <1>7, <2>2, Zenon
    <3>2. PICK c : Child(b, p, c) /\ next(p, c) # {} /\ e = Edge(c, Min(next(p, c)), "Precedes")
      BY <3>1
    <3>3. Linked(b, c, Min(next(p, c)))
      BY <1>5, <3>2, Zenon
    <3> QED
      BY <1>6, <3>2, <3>3, Zenon
  <2> QED
    BY <2>1, <2>2
<1> QED
  BY <1>1, <1>8, Zenon DEF SiblingsAreChained, all, pairs, next, children

\* The children of a node form one chain, and no edge is added twice (link_sibling).
THEOREM SiblingsStayChained == Spec => []SiblingsAreChained
BY TextInvariant, InvSiblings, PTL

-----------------------------------------------------------------------------
\* One more tree for each document.

\* What a host sees of b while only the first k nodes are there.
Names(b, k) == [n \in 1..k |-> b.nodes[n].tree]
Kept(b, k) == {e \in Range(b.edges) : e.src \in 1..k}

OutNodes == [n \in Before |-> nodes[n].tree]
OutEdges == {e \in Range(edges) : e.src \in Before}

\* Ingest of the adapter that is promised, from one forest to another, in which
\* the nodes from root to last are new.
ParentsIn(fs, n) == {e.src : e \in {x \in fs : x.dst = n /\ x.kind = "Contains"}}

NewTree(es, ms, fs, tree, root, last) ==
  /\ \A n \in root..last : ms[n] = tree
  /\ es \subseteq fs
  /\ \A e \in fs \ es : e.src \in root..last /\ e.dst \in root..last
  /\ ParentsIn(fs, root) = {}
  /\ \A n \in (root..last) \ {root} : \E p \in root..(n - 1) : ParentsIn(fs, n) = {p}

Ingested(ns, es, ms, fs, tree) ==
  /\ Len(ms) > Len(ns)
  /\ SubSeq(ms, 1, Len(ns)) = ns
  /\ NewTree(es, ms, fs, tree, Len(ns) + 1, Len(ms))

LEMMA PromisedIngest ==
  ASSUME NEW tree, Ingested(OutNodes, OutEdges, OutNodes', OutEdges', tree)
  PROVE  A!Ingest(tree)
BY DEF Ingested, NewTree, ParentsIn, OutNodes, OutEdges, A!Ingest

LEMMA NamesAre ==
  ASSUME NEW b, BuildOK(b), NEW k \in 0..Len(b.nodes)
  PROVE  Names(b, k) \in Seq(Tree) /\ Len(Names(b, k)) = k
         /\ \A i \in 1..k : Names(b, k)[i] = b.nodes[i].tree
<1>1. b.nodes \in Seq(Payload)
  BY Zenon DEF BuildOK
<1>2. Len(b.nodes) \in Nat /\ \A i \in 1..Len(b.nodes) : b.nodes[i] \in Payload
  BY <1>1
<1>3. k \in Nat /\ \A i \in 1..k : b.nodes[i].tree \in Tree
  <2>1. \A x \in Payload : x.tree \in Tree
    BY DEF Payload
  <2>2. k \in Nat /\ \A i \in 1..k : i \in 1..Len(b.nodes)
    BY <1>2
  <2> QED
    BY <1>2, <2>1, <2>2, Zenon
<1>4. Names(b, k) \in [1..k -> Tree]
  BY <1>3 DEF Names
<1>5. \A i \in 1..k : Names(b, k)[i] = b.nodes[i].tree
  BY DEF Names
<1> QED
  BY <1>3, <1>4, <1>5, SegmentIsSeq

\* The nodes and edges below the root are not touched.
LEMMA SameBelow ==
  ASSUME NEW b, NEW c, NEW root \in Nat \ {0}, root <= Len(b.nodes) + 1, Leaves(b, c, root)
  PROVE  Names(c, root - 1) = Names(b, root - 1) /\ Kept(c, root - 1) = Kept(b, root - 1)
<1>1. /\ Len(b.nodes) \in Nat /\ \A i \in 1..Len(b.nodes) : c.nodes[i] = b.nodes[i]
      /\ \A e : e \in Range(b.edges) => e \in Range(c.edges)
      /\ \A e : e \in Range(c.edges) /\ e.src < root => e \in Range(b.edges)
  BY Zenon DEF Leaves, Bigger
<1>2. \A i \in 1..(root - 1) : i \in 1..Len(b.nodes) /\ i < root
  BY <1>1
<1>3. Names(c, root - 1) = Names(b, root - 1)
  BY <1>1, <1>2 DEF Names
<1>4. \A e : e \in Kept(c, root - 1) <=> e \in Kept(b, root - 1)
  BY <1>1, <1>2 DEF Kept
<1> QED
  BY <1>3, <1>4

\* A tree that is complete is one more tree.
LEMMA TreeAdded ==
  ASSUME NEW b, BuildOK(b), NEW c, BuildOK(c), NEW root \in 1..Len(b.nodes),
         Leaves(b, c, root), Tidy(c), Open(c, root)
  PROVE  Ingested(Names(b, root - 1), Kept(b, root - 1),
                  Names(c, Len(c.nodes)), Kept(c, Len(c.nodes)), c.nodes[root].tree)
<1> DEFINE k  == root - 1
           m  == Len(c.nodes)
           ns == Names(b, k)
           es == Kept(b, k)
           ms == Names(c, m)
           fs == Kept(c, m)
           parent(n) == ParentsIn(fs, n)
<1>1. /\ Len(b.nodes) \in Nat /\ m \in Nat /\ root \in Nat \ {0} /\ Len(b.nodes) <= m
      /\ k \in Nat /\ root = k + 1 /\ k < m /\ k \in 0..Len(b.nodes) /\ m \in 0..m /\ root \in 1..m
  <2>1. Len(b.nodes) \in Nat /\ m \in Nat /\ Len(b.nodes) <= m
    BY Zenon DEF Leaves, Bigger
  <2> HIDE DEF m
  <2> QED
    BY <2>1
<1>2. /\ ms \in Seq(Tree) /\ Len(ms) = m /\ Len(ns) = k
      /\ \A i \in 1..m : ms[i] = c.nodes[i].tree
  BY <1>1, NamesAre
<1>3. /\ \A e : e \in Range(b.edges) => e \in Range(c.edges)
      /\ \A e : e \in Range(c.edges) /\ e.src < root => e \in Range(b.edges)
  BY Zenon DEF Leaves
<1>4. \A e \in Range(c.edges) : /\ e.src \in 1..m /\ e.dst \in 1..m
                                /\ e = Edge(e.src, e.dst, e.kind)
                                /\ (root <= e.src <=> root <= e.dst)
  <2>1. \A e \in Range(c.edges) : e \in EdgesOn(m)
    BY EdgesAreTyped
  <2>2. \A e \in Range(c.edges) : (root <= e.src <=> root <= e.dst)
    BY Zenon DEF Open, Apart
  <2> HIDE DEF m
  <2> QED
    BY <2>1, <2>2 DEF EdgesOn, Edge
<1>5. /\ \A n \in 1..m : IF c.nodes[n].kind = "Document" THEN \A p \in 1..m : ~ Child(c, p, n)
                         ELSE \E p \in 1..(n - 1) : \A q \in 1..m : Child(c, q, n) <=> q = p
      /\ c.nodes[root].kind = "Document"
      /\ \A n \in (root + 1)..m : c.nodes[n].kind # "Document"
      /\ \A n \in root..m : c.nodes[n].tree = c.nodes[root].tree
  BY Zenon DEF Tidy, OneParent, Open, LastTree
<1>6. \A e : e \in fs <=> e \in Range(c.edges)
  BY <1>4 DEF Kept
<1>7. \A e : e \in es <=> e \in Range(b.edges) /\ e.src < root
  <2>1. \A e \in Range(b.edges) : e.src \in 1..m
    BY <1>3, <1>4
  <2>2. \A x \in 1..m : x \in 1..k <=> x < root
    BY <1>1
  <2> QED
    BY <2>1, <2>2 DEF Kept
<1>8. SubSeq(ms, 1, k) = ns
  <2>1. ns = Names(c, k)
    BY <1>1, SameBelow
  <2>2. \A i \in 1..k : i \in 1..m
    BY <1>1
  <2>3. Names(c, k) = [i \in 1..k |-> ms[i]]
    BY <1>2, <2>2 DEF Names
  <2> HIDE DEF ms, ns, k, m
  <2>4. SubSeq(ms, 1, k) = [i \in 1..k |-> ms[i]]
    BY <1>1, <1>2
  <2> QED
    BY <2>1, <2>3, <2>4
<1>9. \A n, p : p \in parent(n) <=> Child(c, p, n)
  <2> TAKE n, p
  <2>1. ASSUME p \in parent(n)
        PROVE  Child(c, p, n)
    <3>1. PICK e \in fs : e.dst = n /\ e.kind = "Contains" /\ e.src = p
      BY <2>1 DEF ParentsIn
    <3> QED
      BY <1>4, <1>6, <3>1, Zenon DEF Child
  <2>2. ASSUME Child(c, p, n)
        PROVE  p \in parent(n)
    <3>1. Edge(p, n, "Contains") \in fs
      BY <1>6, <2>2 DEF Child
    <3> HIDE DEF fs
    <3> QED
      BY <3>1 DEF Edge, ParentsIn
  <2> QED
    BY <2>1, <2>2
<1> HIDE DEF parent, fs, es, ms, ns, m, k
<1>10. es \subseteq fs
  BY <1>3, <1>6, <1>7
<1>11. \A e \in fs \ es : e.src \in root..m /\ e.dst \in root..m
  <2> TAKE e \in fs \ es
  <2>1. e \in Range(c.edges) /\ ~ (e.src < root)
    BY <1>3, <1>6, <1>7
  <2>2. e.src \in 1..m /\ e.dst \in 1..m /\ (root <= e.src <=> root <= e.dst)
    BY <1>4, <2>1
  <2> QED
    BY <1>1, <2>1, <2>2
<1>12. \A p, n : Child(c, p, n) => p \in 1..m
  <2> TAKE p, n
  <2> HAVE Child(c, p, n)
  <2>1. Edge(p, n, "Contains") \in Range(c.edges)
    BY DEF Child
  <2>2. Edge(p, n, "Contains").src \in 1..m
    BY <1>4, <2>1
  <2> QED
    BY <2>2 DEF Edge
<1>13. parent(root) = {}
  BY <1>1, <1>5, <1>9, <1>12
<1>14. \A n \in (root..m) \ {root} : \E p \in root..(n - 1) : parent(n) = {p}
  <2> TAKE n \in (root..m) \ {root}
  <2>1. n \in (root + 1)..m /\ n \in 1..m /\ n \in Nat /\ root <= n
    BY <1>1
  <2>2. PICK p \in 1..(n - 1) : \A q \in 1..m : Child(c, q, n) <=> q = p
    BY <1>5, <2>1
  <2>3. p \in 1..m
    BY <1>1, <2>1
  <2>4. \A q : q \in parent(n) <=> q = p
    BY <1>9, <1>12, <2>2, <2>3, Zenon
  <2>5. root <= p
    <3>1. Edge(p, n, "Contains") \in Range(c.edges)
      BY <2>2, <2>3 DEF Child
    <3>2. Edge(p, n, "Contains").src = p /\ Edge(p, n, "Contains").dst = n
      BY DEF Edge
    <3> QED
      BY <1>4, <2>1, <3>1, <3>2
  <2>6. p \in root..(n - 1)
    BY <1>1, <2>1, <2>5
  <2> QED
    BY <2>4, <2>6
<1>15. \A n \in root..m : ms[n] = c.nodes[root].tree
  <2>1. \A n \in root..m : n \in 1..m
    BY <1>1
  <2> QED
    BY <1>2, <1>5, <2>1
<1>16. Len(ms) > Len(ns) /\ root = Len(ns) + 1 /\ SubSeq(ms, 1, Len(ns)) = ns
  BY <1>1, <1>2, <1>8
<1>17. NewTree(es, ms, fs, c.nodes[root].tree, root, m)
  BY <1>10, <1>11, <1>13, <1>14, <1>15, Zenon DEF NewTree, parent
<1>18. Ingested(ns, es, ms, fs, c.nodes[root].tree)
  BY <1>2, <1>16, <1>17 DEF Ingested
<1> QED
  BY <1>18, Zenon DEF k, m, ns, es, ms, fs

\* What the host sees now: the first k nodes, which are those of the documents
\* that are complete.
Shown(k) == OutNodes = Names(Building, k) /\ OutEdges = Kept(Building, k)

ShownIsComplete ==
  /\ ~ Reading => Shown(Len(nodes))
  /\ \A root : At(root) /\ Reading => Shown(root - 1)

LEMMA AllShown == ShownIsComplete
<1>1. Building.nodes = nodes /\ Building.edges = edges
  BY DEF Building
<1>2. \A k : Before = 1..k => Shown(k)
  BY <1>1, Zenon DEF Shown, OutNodes, OutEdges, Names, Kept
<1>3. ~ Reading => Before = 1..Len(nodes)
  BY Zenon DEF Before, NodeId
<1>4. \A root : At(root) /\ Reading => Before = 1..(root - 1)
  BY RootIsMax, Zenon DEF Before
<1> QED
  BY <1>2, <1>3, <1>4, Zenon DEF ShownIsComplete

LEMMA AllShownNext == ShownIsComplete'
BY AllShown, PTL

LEMMA NothingShown ==
  ASSUME Init
  PROVE  A!Init
<1>1. nodes = <<>> /\ edges = <<>> /\ ~ Reading
  BY DEF Init, Reading
<1>2. Before = {}
  BY <1>1 DEF Before, NodeId
<1> QED
  BY <1>1, <1>2 DEF A!Init, Range

\* A new document begins: nothing of it is seen.
LEMMA IngestStutters ==
  ASSUME TextInv, NEW n, n = Len(nodes) + 1, Starts(n)
  PROVE  UNCHANGED <<OutNodes, OutEdges>>
<1> DEFINE b == Building
           c == Building'
<1>1. /\ At(n)' /\ ~ Reading /\ Reading' /\ Bigger(b, c) /\ edges' = edges
      /\ b.nodes = nodes /\ b.edges = edges /\ c.edges = edges'
      /\ n - 1 = Len(nodes) /\ Len(nodes) \in Nat
  <2>1. At(n)' /\ ~ Reading /\ Reading' /\ Bigger(b, c) /\ edges' = edges
    BY Zenon DEF Starts
  <2>2. b.nodes = nodes /\ b.edges = edges /\ c.edges = edges'
    BY DEF Building
  <2>3. Len(nodes) \in Nat
    BY <2>1, <2>2 DEF Bigger
  <2> QED
    BY <2>1, <2>2, <2>3
<1>2. Shown(n - 1)
  BY <1>1, AllShown DEF ShownIsComplete
<1>3. Shown(n - 1)'
  BY <1>1, AllShownNext, Zenon DEF ShownIsComplete
<1>4. /\ OutNodes = Names(b, n - 1) /\ OutEdges = Kept(b, n - 1)
      /\ OutNodes' = Names(c, n - 1) /\ OutEdges' = Kept(c, n - 1)
  BY <1>2, <1>3, Zenon DEF Shown
<1>5. Leaves(b, c, n)
  BY <1>1, Zenon DEF Leaves
<1>6. n \in Nat \ {0} /\ n <= Len(b.nodes) + 1
  BY <1>1
<1> HIDE DEF b, c
<1>7. Names(c, n - 1) = Names(b, n - 1) /\ Kept(c, n - 1) = Kept(b, n - 1)
  BY <1>5, <1>6, SameBelow, Zenon
<1> QED
  BY <1>4, <1>7

\* While it is read nothing of it is seen either, and all of it at the end.
LEMMA ReadingRefines ==
  ASSUME TextInv, NEW root, At(root), Reading, Goes(root)
  PROVE  \/ UNCHANGED <<OutNodes, OutEdges>>
         \/ \E tree \in Tree : Ingested(OutNodes, OutEdges, OutNodes', OutEdges', tree)
<1> DEFINE b == Building
           c == Building'
<1>1. /\ At(root)' /\ Leaves(b, c, root)
      /\ b.nodes = nodes /\ c.nodes = nodes'
      /\ root \in 1..Len(b.nodes) /\ root \in 1..Len(c.nodes)
      /\ BuildOK(b) /\ BuildOK(c) /\ Tidy(c) /\ Open(c, root)
  <2>1. At(root)' /\ Leaves(b, c, root)
    BY Zenon DEF Goes
  <2>2. b.nodes = nodes /\ c.nodes = nodes'
    BY DEF Building
  <2>3. root \in 1..Len(nodes) /\ BuildOK(b)
    BY Zenon DEF At, Doc
  <2>4. root \in 1..Len(nodes') /\ Doc(c, root, source', begin')
    BY <2>1, Zenon DEF At
  <2> QED
    BY <2>1, <2>2, <2>3, <2>4, Zenon DEF Doc
<1>2. OutNodes = Names(b, root - 1) /\ OutEdges = Kept(b, root - 1)
  <2>1. Shown(root - 1)
    BY AllShown, Zenon DEF ShownIsComplete
  <2> QED
    BY <2>1, Zenon DEF Shown
<1>3. CASE Reading'
  <2>1. Shown(root - 1)'
    BY <1>1, <1>3, AllShownNext, Zenon DEF ShownIsComplete
  <2>2. OutNodes' = Names(c, root - 1) /\ OutEdges' = Kept(c, root - 1)
    BY <2>1, Zenon DEF Shown
  <2>3. root \in Nat \ {0} /\ root <= Len(b.nodes) + 1
    <3>1. Len(b.nodes) \in Nat
      BY <1>1, EdgesAreTyped
    <3> QED
      BY <1>1, <3>1
  <2> HIDE DEF b, c
  <2>4. Names(c, root - 1) = Names(b, root - 1) /\ Kept(c, root - 1) = Kept(b, root - 1)
    BY <1>1, <2>3, SameBelow, Zenon
  <2> QED
    BY <1>2, <2>2, <2>4
<1>4. CASE ~ Reading'
  <2>1. Shown(Len(nodes))'
    BY <1>4, AllShownNext, Zenon DEF ShownIsComplete
  <2>2. OutNodes' = Names(c, Len(c.nodes)) /\ OutEdges' = Kept(c, Len(c.nodes))
    BY <1>1, <2>1, Zenon DEF Shown
  <2> HIDE DEF b, c
  <2>3. Ingested(OutNodes, OutEdges, OutNodes', OutEdges', c.nodes[root].tree)
    BY <1>1, <1>2, <2>2, TreeAdded, Zenon
  <2>4. c.nodes[root].tree \in Tree
    <3>1. c.nodes \in Seq(Payload)
      BY <1>1, Zenon DEF BuildOK
    <3>2. c.nodes[root] \in Payload
      BY <1>1, <3>1
    <3> QED
      BY <3>2 DEF Payload
  <2> QED
    BY <2>3, <2>4
<1> QED
  BY <1>3, <1>4

LEMMA StepRefines ==
  ASSUME TextInv, [Next]_vars
  PROVE  [A!Next]_A!vars
<1>1. UNCHANGED <<OutNodes, OutEdges>> => [A!Next]_A!vars
  BY DEF OutNodes, OutEdges, A!vars
<1>2. CASE Reading
  <2>1. PICK root : At(root)
    BY <1>2, ReadingHasNodes, InvHasRoot, Zenon
  <2>2. Goes(root)
    BY <1>2, <2>1, ReadingGoes, Zenon
  <2>3. ASSUME NEW tree \in Tree, Ingested(OutNodes, OutEdges, OutNodes', OutEdges', tree)
        PROVE  A!Next
    BY <2>3, PromisedIngest, Zenon DEF A!Next
  <2> QED
    BY <1>1, <1>2, <2>1, <2>2, <2>3, ReadingRefines, Zenon
<1>3. CASE ~ Reading /\ UNCHANGED vars
  <2>1. nodes' = nodes /\ edges' = edges /\ stack' = stack
    BY <1>3 DEF vars
  <2>2. Reading' <=> Reading
    BY <2>1, Zenon DEF Reading
  <2>3. Before' = Before
    BY <1>3, <2>1, <2>2, Zenon DEF Before, NodeId
  <2>4. OutNodes' = OutNodes /\ OutEdges' = OutEdges
    BY <2>1, <2>3, Zenon DEF OutNodes, OutEdges
  <2> QED
    BY <1>1, <2>4
<1>4. ASSUME NEW tree \in Tree, Ingest(tree)
      PROVE  [A!Next]_A!vars
  <2>1. PICK n : n = Len(nodes) + 1
    BY Zenon
  <2>2. Starts(n)
    BY <1>4, <2>1, IngestStarts, Zenon
  <2> QED
    BY <1>1, <2>1, <2>2, IngestStutters, Zenon
<1>5. ASSUME ~ Reading, NEW line \in Line, Read(line)
      PROVE  FALSE
  BY <1>5, Zenon DEF Read
<1>6. ASSUME ~ Reading, Return
      PROVE  FALSE
  BY <1>6, Zenon DEF Return
<1> QED
  BY <1>2, <1>3, <1>4, <1>5, <1>6, Zenon DEF Next, ReadHeading, ReadBlank, ReadText

\* Each call adds one more tree of its name to the forest and touches no other
\* (trait Adapter in crates/sle-core/src/traits.rs).
THEOREM AdapterPromised == Spec => ImplementsAdapter
<1>1. Init => A!Init
  BY NothingShown
<1>2. TextInv /\ [Next]_vars => [A!Next]_A!vars
  BY StepRefines
<1> QED
  BY <1>1, <1>2, TextInvariant, PTL DEF Spec, ImplementsAdapter, A!Spec

-----------------------------------------------------------------------------
\* What FlattenSeq computes.

\* g has the concatenations of the first n sequences of s.
Flattens(s, n, g) == g = [i \in 1..n |-> IF i = 1 THEN s[i] ELSE g[i - 1] \o s[i]]

LEMMA FlattenIs ==
  ASSUME NEW s, Len(s) # 0
  PROVE  FlattenSeq(s) = (CHOOSE g : Flattens(s, Len(s), g))[Len(s)]
BY DEF FlattenSeq, Flattens

LEMMA FlattenNone ==
  ASSUME NEW s, Len(s) = 0
  PROVE  FlattenSeq(s) = s
BY DEF FlattenSeq

LEMMA FlattenExists ==
  ASSUME NEW s
  PROVE  \A n \in Nat : \E g : Flattens(s, n, g)
<1> DEFINE P == {n \in Nat : \E g : Flattens(s, n, g)}
<1>1. 0 \in P
  <2>1. Flattens(s, 0, [i \in 1..0 |-> 0])
    BY DEF Flattens
  <2> QED
    BY <2>1
<1>2. ASSUME NEW n \in Nat, n \in P
      PROVE  n + 1 \in P
  <2>1. PICK g : Flattens(s, n, g)
    BY <1>2
  <2> DEFINE h == [i \in 1..(n + 1) |-> IF i = 1 THEN s[i] ELSE g[i - 1] \o s[i]]
  <2>2. g = [i \in 1..n |-> IF i = 1 THEN s[i] ELSE g[i - 1] \o s[i]]
    BY <2>1 DEF Flattens
  <2>3. \A i \in 1..n : g[i] = IF i = 1 THEN s[i] ELSE g[i - 1] \o s[i]
    BY <2>2, Zenon
  <2>4. \A i \in 1..n : h[i] = g[i]
    <3>1. \A i \in 1..n : i \in 1..(n + 1)
      OBVIOUS
    <3> QED
      BY <2>3, <3>1, Zenon
  <2>5. \A i \in 1..(n + 1) : i # 1 => i - 1 \in 1..n
    OBVIOUS
  <2>6. \A i \in 1..(n + 1) :
          (IF i = 1 THEN s[i] ELSE g[i - 1] \o s[i]) = IF i = 1 THEN s[i] ELSE h[i - 1] \o s[i]
    BY <2>4, <2>5, Zenon
  <2>7. h = [i \in 1..(n + 1) |-> IF i = 1 THEN s[i] ELSE h[i - 1] \o s[i]]
    BY <2>6, Zenon
  <2>8. Flattens(s, n + 1, h)
    BY <2>7, Zenon DEF Flattens
  <2> QED
    BY <2>8
<1> HIDE DEF P
<1>3. \A n \in Nat : n \in P
  BY <1>1, <1>2, AllNumbers
<1> QED
  BY <1>3 DEF P

SameStart(s, t, n) == \A i \in 1..n : s[i] = t[i]

\* The first sequences determine the first concatenations.
LEMMA FlattenSame ==
  ASSUME NEW s, NEW t, NEW n \in Nat, NEW m \in Nat, n <= m, SameStart(s, t, n),
         NEW g, Flattens(s, n, g), NEW h, Flattens(t, m, h)
  PROVE  SameStart(g, h, n)
<1>0. \A i \in 1..n : s[i] = t[i]
  BY DEF SameStart
<1> DEFINE P == {i \in Nat : i \in 1..n => g[i] = h[i]}
<1>1. /\ \A i \in 1..n : g[i] = IF i = 1 THEN s[i] ELSE g[i - 1] \o s[i]
      /\ \A i \in 1..m : h[i] = IF i = 1 THEN t[i] ELSE h[i - 1] \o t[i]
  BY Zenon DEF Flattens
<1>2. 0 \in P
  OBVIOUS
<1>3. ASSUME NEW k \in Nat, k \in P, k + 1 \in 1..n
      PROVE  g[k + 1] = h[k + 1]
  <2>1. k + 1 \in 1..m /\ s[k + 1] = t[k + 1]
    BY <1>0, <1>3
  <2>2. CASE k = 0
    <3>1. k + 1 = 1
      BY <2>2
    <3> QED
      BY <1>1, <1>3, <2>1, <3>1, Zenon
  <2>3. CASE k # 0
    <3>1. k + 1 # 1 /\ (k + 1) - 1 = k /\ k \in 1..n
      BY <1>3, <2>3
    <3>2. g[k] = h[k]
      BY <1>3, <3>1
    <3> HIDE DEF P
    <3>3. g[k + 1] = g[(k + 1) - 1] \o s[k + 1] /\ h[k + 1] = h[(k + 1) - 1] \o t[k + 1]
      BY <1>1, <1>3, <2>1, <3>1, Zenon
    <3> QED
      BY <2>1, <3>1, <3>2, <3>3, Zenon
  <2> QED
    BY <2>2, <2>3
<1>4. \A k \in Nat : k \in P => k + 1 \in P
  BY <1>3
<1> HIDE DEF P
<1>5. \A k \in Nat : k \in P
  BY <1>2, <1>4, AllNumbers
<1> QED
  BY <1>5 DEF P, SameStart

LEMMA FlattenAt ==
  ASSUME NEW s, NEW n \in Nat, n # 0, Len(s) = n
  PROVE  \E g : Flattens(s, n, g) /\ FlattenSeq(s) = g[n]
<1> DEFINE g == CHOOSE g : Flattens(s, n, g)
<1>1. Flattens(s, n, g)
  BY FlattenExists, Zenon
<1>2. FlattenSeq(s) = g[n]
  BY FlattenIs, Zenon
<1> QED
  BY <1>1, <1>2, Zenon

LEMMA FlattenType ==
  ASSUME NEW S, NEW s \in Seq(Seq(S))
  PROVE  FlattenSeq(s) \in Seq(S)
<1> DEFINE n == Len(s)
<1>1. n \in Nat /\ \A i \in 1..n : s[i] \in Seq(S)
  OBVIOUS
<1>2. CASE n = 0
  <2>1. s = <<>>
    BY <1>2
  <2>2. FlattenSeq(s) = s
    BY <1>2, FlattenNone, Zenon
  <2>3. <<>> \in Seq(S)
    OBVIOUS
  <2> QED
    BY <2>1, <2>2, <2>3, Zenon
<1>3. CASE n # 0
  <2> HIDE DEF n
  <2>1. PICK g : Flattens(s, n, g) /\ FlattenSeq(s) = g[n]
    BY <1>1, <1>3, FlattenAt, Zenon DEF n
  <2>2. \A i \in 1..n : g[i] = IF i = 1 THEN s[i] ELSE g[i - 1] \o s[i]
    BY <2>1, Zenon DEF Flattens
  <2> DEFINE P == {i \in Nat : i \in 1..n => g[i] \in Seq(S)}
  <2>3. 0 \in P
    OBVIOUS
  <2>4. ASSUME NEW k \in Nat, k \in P, k + 1 \in 1..n
        PROVE  g[k + 1] \in Seq(S)
    <3>1. CASE k = 0
      <4>1. k + 1 = 1
        BY <3>1
      <4> QED
        BY <1>1, <2>2, <2>4, <4>1, Zenon
    <3>2. CASE k # 0
      <4>1. k + 1 # 1 /\ (k + 1) - 1 = k /\ k \in 1..n
        BY <1>1, <2>4, <3>2
      <4>2. g[k] \in Seq(S) /\ s[k + 1] \in Seq(S)
        BY <1>1, <2>4, <4>1
      <4> HIDE DEF P
      <4>3. g[k + 1] = g[k] \o s[k + 1]
        BY <2>2, <2>4, <4>1, Zenon
      <4> QED
        BY <4>2, <4>3
    <3> QED
      BY <3>1, <3>2
  <2>5. \A k \in Nat : k \in P => k + 1 \in P
    BY <2>4
  <2> HIDE DEF P
  <2>6. \A k \in Nat : k \in P
    BY <2>3, <2>5, AllNumbers
  <2> QED
    BY <1>1, <1>3, <2>1, <2>6 DEF P
<1> QED
  BY <1>2, <1>3

LEMMA FlattenMore ==
  ASSUME NEW S, NEW s \in Seq(Seq(S)), NEW t \in Seq(S)
  PROVE  FlattenSeq(Append(s, t)) = FlattenSeq(s) \o t
<1> DEFINE n == Len(s)
           more == Append(s, t)
<1>1. /\ n \in Nat /\ Len(more) = n + 1 /\ n + 1 # 0 /\ n + 1 \in Nat /\ n <= n + 1
      /\ \A i \in 1..n : s[i] = more[i]
      /\ more[n + 1] = t
  OBVIOUS
<1> HIDE DEF n, more
<1>2. PICK h : Flattens(more, n + 1, h) /\ FlattenSeq(more) = h[n + 1]
  BY <1>1, FlattenAt, Zenon
<1>3. \A i \in 1..(n + 1) : h[i] = IF i = 1 THEN more[i] ELSE h[i - 1] \o more[i]
  BY <1>2, Zenon DEF Flattens
<1>4. n + 1 \in 1..(n + 1) /\ (n + 1) - 1 = n
  BY <1>1
<1>5. CASE n = 0
  <2>1. s = <<>> /\ n + 1 = 1
    BY <1>5 DEF n
  <2>2. FlattenSeq(s) = <<>>
    BY <1>5, <2>1, FlattenNone DEF n
  <2>3. h[n + 1] = t
    BY <1>1, <1>3, <1>4, <2>1, Zenon
  <2>4. <<>> \o t = t
    OBVIOUS
  <2> QED
    BY <1>2, <2>2, <2>3, <2>4 DEF more
<1>6. CASE n # 0
  <2>1. PICK g : Flattens(s, n, g) /\ FlattenSeq(s) = g[n]
    BY <1>1, <1>6, FlattenAt, Zenon DEF n
  <2>2. \A i \in 1..n : g[i] = h[i]
    <3>1. SameStart(s, more, n)
      BY <1>1, Zenon DEF SameStart
    <3>2. SameStart(g, h, n)
      BY <1>1, <1>2, <2>1, <3>1, FlattenSame, Zenon
    <3> QED
      BY <3>2, Zenon DEF SameStart
  <2>3. n \in 1..n /\ n + 1 # 1
    BY <1>1, <1>6
  <2>4. h[n + 1] = h[n] \o t
    BY <1>1, <1>3, <1>4, <2>3, Zenon
  <2> QED
    BY <1>2, <2>1, <2>2, <2>3, <2>4, Zenon DEF more
<1> QED
  BY <1>5, <1>6

-----------------------------------------------------------------------------
\* No line is lost.

Texts(ns) == [n \in 1..Len(ns) |-> ns[n].text]

Held(ns, buf) == FlattenSeq(Texts(ns)) \o buf

\* held has the lines of src that are not blank, in order.
InOrder(held, src) ==
  /\ held \in Seq(Nat)
  /\ Range(held) = {i \in 1..Len(src) : ~ IsBlank(src[i])}
  /\ \A i \in 2..Len(held) : held[i - 1] < held[i]

\* What the invariant says of the lines, and that none waits between two calls.
LinesKept == InOrder(Held(nodes, para_buf), source) /\ (~ Reading => para_buf = <<>>)

LEMMA TextsAre ==
  ASSUME NEW b, BuildOK(b)
  PROVE  /\ Len(b.nodes) \in Nat
         /\ Texts(b.nodes) \in Seq(Seq(Nat)) /\ Len(Texts(b.nodes)) = Len(b.nodes)
<1> DEFINE n == Len(b.nodes)
<1>1. b.nodes \in Seq(Payload)
  BY Zenon DEF BuildOK
<1>2. n \in Nat /\ \A i \in 1..n : b.nodes[i] \in Payload
  BY <1>1
<1>3. \A p \in Payload : p.text \in Seq(Nat)
  BY DEF Payload
<1> HIDE DEF n
<1>4. \A i \in 1..n : b.nodes[i].text \in Seq(Nat)
  BY <1>2, <1>3, Zenon
<1>5. [i \in 1..n |-> b.nodes[i].text] \in [1..n -> Seq(Nat)]
  BY <1>4
<1>6. Texts(b.nodes) = [i \in 1..n |-> b.nodes[i].text]
  BY Zenon DEF Texts, n
<1>7. Texts(b.nodes) \in Seq(Seq(Nat)) /\ Len(Texts(b.nodes)) = n
  BY <1>2, <1>5, <1>6, SegmentIsSeq, Zenon
<1> QED
  BY <1>2, <1>7 DEF n

\* One more node: its text comes last.
LEMMA TextsMore ==
  ASSUME NEW b, BuildOK(b), NEW c, BuildOK(c), Len(c.nodes) = Len(b.nodes) + 1,
         \A i \in 1..Len(b.nodes) : c.nodes[i] = b.nodes[i],
         NEW text \in Seq(Nat), c.nodes[Len(b.nodes) + 1].text = text
  PROVE  \A buf : Held(c.nodes, <<>>) = Held(b.nodes, text)
<1> DEFINE n == Len(b.nodes)
           s == Texts(b.nodes)
           t == Texts(c.nodes)
<1>1. n \in Nat /\ s \in Seq(Seq(Nat)) /\ Len(s) = n
  BY TextsAre
<1>2. t \in Seq(Seq(Nat)) /\ Len(t) = n + 1
  BY TextsAre
<1>3. /\ \A i \in 1..n : s[i] = b.nodes[i].text
      /\ \A i \in 1..(n + 1) : t[i] = c.nodes[i].text
  BY Zenon DEF Texts
<1>4. /\ \A i \in 1..n : t[i] = s[i]
      /\ t[n + 1] = text
  <2>1. n + 1 \in 1..(n + 1) /\ \A i \in 1..n : i \in 1..(n + 1)
    BY <1>1
  <2> QED
    BY <1>3, <2>1, Zenon
<1> HIDE DEF n, s, t
<1>5. t = Append(s, text)
  <2>1. /\ Append(s, text) \in Seq(Seq(Nat)) /\ Len(Append(s, text)) = n + 1
        /\ \A i \in 1..n : Append(s, text)[i] = s[i]
        /\ Append(s, text)[n + 1] = text
    BY <1>1, AppendIs
  <2>2. \A i \in 1..(n + 1) : t[i] = Append(s, text)[i]
    BY <1>1, <1>4, <2>1
  <2> QED
    BY <1>1, <1>2, <2>1, <2>2
<1>6. FlattenSeq(t) = FlattenSeq(s) \o text
  BY <1>1, <1>5, FlattenMore, Zenon
<1>7. FlattenSeq(t) \in Seq(Nat)
  BY <1>2, FlattenType, Zenon
<1>8. FlattenSeq(t) \o <<>> = FlattenSeq(t)
  BY <1>7
<1> QED
  BY <1>6, <1>8 DEF Held, s, t

\* One more line.
LEMMA OrderMore ==
  ASSUME NEW src \in Seq(AnyLine), NEW line, NEW more, more = Append(src, line),
         NEW held, InOrder(held, src), NEW held2,
         held2 = IF IsBlank(line) THEN held ELSE Append(held, Len(src) + 1)
  PROVE  InOrder(held2, more)
<1> DEFINE n == Len(src)
           Full(s) == {i \in 1..Len(s) : ~ IsBlank(s[i])}
<1>1. /\ held \in Seq(Nat) /\ Range(held) = Full(src)
      /\ \A i \in 2..Len(held) : held[i - 1] < held[i]
  BY Zenon DEF InOrder
<1>2. /\ n \in Nat /\ Len(more) = n + 1 /\ more[n + 1] = line
      /\ \A i \in 1..n : more[i] = src[i]
  BY AppendIs
<1>3. /\ 1..(n + 1) = (1..n) \cup {n + 1} /\ n + 1 \notin 1..n /\ n + 1 \in Nat
  BY <1>2
<1> HIDE DEF n
<1>4. Full(more) = Full(src) \cup (IF IsBlank(line) THEN {} ELSE {n + 1})
  <2>1. Full(more) = {i \in (1..n) \cup {n + 1} : ~ IsBlank(more[i])}
    BY <1>2, <1>3, Zenon
  <2>2. Full(src) = {i \in 1..n : ~ IsBlank(src[i])}
    BY Zenon DEF n
  <2> QED
    BY <1>2, <1>3, <2>1, <2>2
<1> HIDE DEF Full
<1>5. CASE IsBlank(line)
  <2>1. held2 = held /\ Range(held) = Full(more)
    BY <1>1, <1>4, <1>5
  <2> QED
    BY <1>1, <2>1, Zenon DEF InOrder, Full
<1>6. CASE ~ IsBlank(line)
  <2>1. held2 = Append(held, n + 1)
    BY <1>6 DEF n
  <2>2. /\ held2 \in Seq(Nat) /\ Len(held2) = Len(held) + 1 /\ Len(held) \in Nat
        /\ \A i \in 1..Len(held) : held2[i] = held[i]
        /\ held2[Len(held) + 1] = n + 1
    BY <1>1, <1>3, <2>1, AppendIs
  <2>3. Range(held2) = Full(more)
    <3>1. Range(Append(held, n + 1)) = Range(held) \cup {n + 1}
      <4>1. held \in Seq(Nat) /\ n + 1 \in Nat
        BY <1>1, <1>3
      <4> QED
        BY <4>1, RangeOfAppend
    <3> QED
      BY <1>1, <1>4, <1>6, <2>1, <3>1
  <2>4. \A i \in 1..Len(held) : held[i] \in 1..n
    <3>1. \A i \in 1..Len(held) : held[i] \in Range(held)
      BY <1>1, RangeIs
    <3>2. Full(src) \subseteq 1..n
      BY DEF Full, n
    <3> QED
      BY <1>1, <3>1, <3>2
  <2>5. ASSUME NEW i \in 2..Len(held2)
        PROVE  held2[i - 1] < held2[i]
    <3>1. CASE i = Len(held) + 1
      <4>1. i - 1 \in 1..Len(held) /\ i - 1 = Len(held)
        BY <2>2, <3>1
      <4>2. held2[i] = n + 1 /\ held2[i - 1] = held[i - 1] /\ held[i - 1] \in 1..n
        BY <2>2, <2>4, <3>1, <4>1
      <4> QED
        BY <1>2, <4>2
    <3>2. CASE i # Len(held) + 1
      <4>1. i \in 2..Len(held) /\ i \in 1..Len(held) /\ i - 1 \in 1..Len(held)
        BY <2>2, <3>2
      <4> QED
        BY <1>1, <2>2, <4>1
    <3> QED
      BY <3>1, <3>2
  <2> QED
    BY <2>2, <2>3, <2>5, Zenon DEF InOrder, Full
<1> QED
  BY <1>5, <1>6

LEMMA HeldAppend ==
  ASSUME NEW b, BuildOK(b), NEW buf \in Seq(Nat), NEW i \in Nat
  PROVE  /\ Held(b.nodes, Append(buf, i)) = Append(Held(b.nodes, buf), i)
         /\ Append(<<>>, i) = <<i>>
<1>1. Texts(b.nodes) \in Seq(Seq(Nat))
  BY TextsAre
<1> DEFINE f == FlattenSeq(Texts(b.nodes))
<1>2. f \in Seq(Nat)
  BY <1>1, FlattenType, Zenon
<1> HIDE DEF f
<1>3. f \o Append(buf, i) = Append(f \o buf, i)
  BY <1>2
<1> QED
  BY <1>3 DEF Held, f

LEMMA FlushHeld ==
  ASSUME Lines, NEW root, At(root), Reading
  PROVE  /\ BuildOK(FlushParagraph(Building))
         /\ Held(FlushParagraph(Building).nodes, <<>>) = Held(nodes, para_buf)
<1> DEFINE b == Building
           c == FlushParagraph(b)
           top == Last(stack).node
<1>1. /\ Doc(c, root, source, begin) /\ b.nodes = nodes /\ root \in 1..Len(b.nodes)
      /\ Len(source) \in Nat /\ begin \in Nat
  BY FlushInAt, Zenon
<1>2. /\ BuildOK(b) /\ Path(b, root, source, begin, stack) /\ para_buf \in Seq(Nat)
  BY Zenon DEF At, Lines, Pending, Doc
<1>3. BuildOK(c)
  BY <1>1, Zenon DEF Doc
<1>4. CASE para_buf = <<>>
  <2>1. c = b
    BY <1>4, Zenon DEF FlushParagraph
  <2> QED
    BY <1>1, <1>3, <1>4, <2>1
<1>5. CASE para_buf # <<>>
  <2>1. c = AddChild(b, top, "Paragraph", para_buf)
    BY <1>5, Zenon DEF FlushParagraph
  <2>2. top \in root..Len(b.nodes)
    BY <1>1, <1>2, TopOfPath, Zenon
  <2>3. top \in 1..Len(b.nodes)
    BY <1>1, <2>2
  <2> HIDE DEF b, c, top
  <2>4. Grows(b, c, top, "Paragraph", para_buf)
    <3>1. "Paragraph" \in {"Section", "Paragraph"}
      OBVIOUS
    <3> QED
      BY <1>2, <2>1, <2>3, <3>1, AddChildGrows, Zenon
  <2>5. /\ Len(c.nodes) = Len(b.nodes) + 1
        /\ \A i \in 1..Len(b.nodes) : c.nodes[i] = b.nodes[i]
        /\ c.nodes[Len(b.nodes) + 1] = [tree |-> b.nodes[top].tree, kind |-> "Paragraph", text |-> para_buf]
    BY <2>4, Zenon DEF Grows
  <2>6. c.nodes[Len(b.nodes) + 1].text = para_buf
    BY <2>5
  <2>7. Held(c.nodes, <<>>) = Held(b.nodes, para_buf)
    BY <1>2, <1>3, <2>5, <2>6, TextsMore
  <2> QED
    BY <1>1, <1>3, <2>7, Zenon DEF b, c
<1> QED
  BY <1>4, <1>5

LEMMA HeadingHeld ==
  ASSUME Lines, NEW root, At(root), NEW line \in Line, ReadHeading(line)
  PROVE  Held(nodes', para_buf') = Append(Held(nodes, para_buf), Len(source) + 1)
<1> DEFINE b == FlushParagraph(Building)
           open == Pop(line.hashes)
           top == open[Len(open)].node
           text == <<Len(source) + 1>>
           c == AddChild(b, top, "Section", text)
<1>1. Read(line) /\ IsHeading(line) /\ Reading
  BY Zenon DEF ReadHeading, Read
<1>2. line \in AnyLine /\ Len(source') = Len(source) + 1
  BY <1>1, ReadIs, Zenon
<1>3. /\ Doc(b, root, source, begin) /\ Path(b, root, source, begin, stack)
      /\ root \in 1..Len(b.nodes) /\ Len(source) \in Nat
  BY <1>1, FlushInAt, Zenon
<1>4. line.hashes \in Nat /\ line.hashes # 0
  BY <1>1, <1>2 DEF IsHeading, AnyLine
<1>5. Popped(stack, line.hashes, open)
  BY <1>3, <1>4, PopIs, Zenon DEF Pop, Path
<1>6. Built(c) /\ para_buf' = <<>>
  BY <1>2, Zenon DEF ReadHeading, Last
<1>7. BuildOK(b) /\ Held(b.nodes, <<>>) = Held(nodes, para_buf)
  BY <1>1, FlushHeld, Zenon
<1> HIDE DEF b, open
<1>8. top \in 1..Len(b.nodes)
  <2>1. Len(open) \in 1..Len(stack) /\ open[Len(open)] = stack[Len(open)]
    <3>1. Len(open) \in 1..Len(stack) /\ \A i \in 1..Len(open) : open[i] = stack[i]
      BY <1>5, Zenon DEF Popped
    <3>2. stack \in Seq([level : Nat, node : Nat])
      BY <1>3, LevelsAre, Zenon DEF Path
    <3>3. Len(open) \in 1..Len(open)
      BY <3>1, <3>2
    <3> QED
      BY <3>1, <3>3, Zenon
  <2>2. stack[Len(open)].node \in root..Len(b.nodes)
    BY <1>3, <2>1, LevelsAre, Zenon DEF Path
  <2> QED
    BY <1>3, <2>1, <2>2
<1>9. text \in Seq(Nat) /\ "Section" \in {"Section", "Paragraph"}
  BY <1>3
<1> HIDE DEF top, text
<1>10. Grows(b, c, top, "Section", text)
  BY <1>7, <1>8, <1>9, AddChildGrows, Zenon
<1> HIDE DEF c
<1>11. /\ BuildOK(c) /\ Len(c.nodes) = Len(b.nodes) + 1
       /\ \A i \in 1..Len(b.nodes) : c.nodes[i] = b.nodes[i]
       /\ c.nodes[Len(b.nodes) + 1] = [tree |-> b.nodes[top].tree, kind |-> "Section", text |-> text]
  BY <1>10, Zenon DEF Grows
<1>12. c.nodes[Len(b.nodes) + 1].text = text
  BY <1>11
<1>13. Held(c.nodes, <<>>) = Held(b.nodes, text)
  BY <1>7, <1>9, <1>11, <1>12, TextsMore
<1>14. nodes' = c.nodes
  BY <1>6, <1>11, BuiltIs, Zenon
<1>15. Held(b.nodes, text) = Append(Held(b.nodes, <<>>), Len(source) + 1)
  <2>1. Len(source) + 1 \in Nat /\ <<>> \in Seq(Nat)
    BY <1>3
  <2> QED
    BY <1>7, <2>1, HeldAppend, Zenon DEF text
<1> QED
  BY <1>6, <1>7, <1>13, <1>14, <1>15, Zenon

LEMMA LinesStayKept ==
  ASSUME TextInv, LinesKept, [Next]_vars
  PROVE  LinesKept'
<1> DEFINE held == Held(nodes, para_buf)
<1>0. InOrder(held, source) /\ (~ Reading => para_buf = <<>>)
  BY Zenon DEF LinesKept
<1>1. /\ Building.nodes = nodes /\ BuildOK(Building) /\ source \in Seq(AnyLine)
      /\ Len(source) \in Nat /\ para_buf \in Seq(Nat)
  <2>1. BuildOK(Building) /\ source \in Seq(Line) /\ para_buf \in Seq(Nat)
    BY Zenon DEF TextInv, Pending
  <2>2. source \in Seq(AnyLine)
    BY <2>1, LineAssumption, WiderSeq
  <2>3. Len(source) \in Nat
    BY <2>1
  <2> QED
    BY <2>1, <2>2, <2>3 DEF Building
<1> HIDE DEF held
<1>2. ASSUME Reading
      PROVE  Lines /\ \E root : At(root)
  BY <1>2, ReadingHasNodes, InvHasRoot, Zenon
<1>3. ASSUME InOrder(Held(nodes', para_buf'), source'), ~ Reading' => para_buf' = <<>>
      PROVE  LinesKept'
  BY <1>3, Zenon DEF LinesKept
<1>4. CASE UNCHANGED vars
  <2>1. nodes' = nodes /\ para_buf' = para_buf /\ source' = source /\ stack' = stack
    BY <1>4 DEF vars
  <2> QED
    BY <2>1, Zenon DEF LinesKept, Reading
<1>5. ASSUME NEW tree \in Tree, Ingest(tree)
      PROVE  LinesKept'
  <2> DEFINE c == AddNode([Building EXCEPT !.last_sibling = [n \in NodeId |-> 0]],
                          tree, "Document", <<>>)
             b == Building
  <2>1. ~ Reading /\ Built(c) /\ para_buf' = <<>> /\ source' = source
    BY <1>5, Zenon DEF Ingest
  <2>2. RootAdded(b, c, tree)
    BY RootIs, Zenon
  <2> HIDE DEF b, c
  <2>3. PICK n : n = Len(nodes) + 1
    BY Zenon
  <2>4. BuildOK(Building') /\ Building'.nodes = nodes'
    <3>1. At(n)'
      BY <1>5, <2>3, IngestStarts, Zenon DEF Starts
    <3>2. Building'.nodes = nodes'
      BY DEF Building
    <3> QED
      BY <3>1, <3>2, Zenon DEF At, Doc
  <2>5. nodes' = Append(nodes, [tree |-> tree, kind |-> "Document", text |-> <<>>])
    BY <1>1, <2>1, <2>2, Zenon DEF RootAdded, Built, b
  <2>6. nodes \in Seq(Payload)
    BY <1>1, Zenon DEF BuildOK
  <2>7. /\ Len(nodes') = Len(nodes) + 1
        /\ \A i \in 1..Len(nodes) : nodes'[i] = nodes[i]
        /\ nodes'[Len(nodes) + 1] = [tree |-> tree, kind |-> "Document", text |-> <<>>]
    BY <2>5, <2>6, AppendIs
  <2>8. nodes'[Len(nodes) + 1].text = <<>> /\ <<>> \in Seq(Nat)
    BY <2>7
  <2>9. Held(nodes', <<>>) = Held(nodes, <<>>)
    BY <1>1, <2>4, <2>7, <2>8, TextsMore
  <2>10. Held(nodes', para_buf') = held
    BY <1>0, <2>1, <2>9, Zenon DEF held
  <2> QED
    BY <1>0, <1>3, <2>1, <2>10, Zenon
<1>6. ASSUME NEW line \in Line, Read(line)
      PROVE  source' = Append(source, line)
  BY <1>6, Zenon DEF Read
<1>7. ASSUME NEW line \in Line, ReadHeading(line)
      PROVE  LinesKept'
  <2>1. Read(line) /\ IsHeading(line) /\ Reading /\ para_buf' = <<>>
    BY <1>7, Zenon DEF ReadHeading, Read
  <2>2. PICK root : Lines /\ At(root)
    BY <1>2, <2>1, Zenon
  <2>3. Held(nodes', para_buf') = Append(held, Len(source) + 1)
    BY <1>7, <2>2, HeadingHeld, Zenon DEF held
  <2>4. ~ IsBlank(line)
    BY <2>1 DEF IsBlank, IsHeading
  <2>5. InOrder(Held(nodes', para_buf'), source')
    BY <1>0, <1>1, <1>6, <2>1, <2>3, <2>4, OrderMore
  <2> QED
    BY <1>3, <2>1, <2>5, Zenon
<1>8. ASSUME NEW line \in Line, ReadBlank(line)
      PROVE  LinesKept'
  <2>1. /\ Read(line) /\ IsBlank(line) /\ Reading /\ para_buf' = <<>>
        /\ Built(FlushParagraph(Building))
    BY <1>8, Zenon DEF ReadBlank, Read
  <2>2. PICK root : Lines /\ At(root)
    BY <1>2, <2>1, Zenon
  <2>3. Held(nodes', para_buf') = held
    BY <2>1, <2>2, FlushHeld, BuiltIs, Zenon DEF held
  <2>4. InOrder(Held(nodes', para_buf'), source')
    BY <1>0, <1>1, <1>6, <2>1, <2>3, OrderMore
  <2> QED
    BY <1>3, <2>1, <2>4, Zenon
<1>9. ASSUME NEW line \in Line, ReadText(line)
      PROVE  LinesKept'
  <2>1. /\ Read(line) /\ ~ IsBlank(line) /\ Reading /\ stack' = stack
        /\ nodes' = nodes /\ para_buf' = Append(para_buf, Len(source'))
    BY <1>9, Zenon DEF ReadText, Read
  <2>2. source' = Append(source, line) /\ Len(source') = Len(source) + 1 /\ Len(source) + 1 \in Nat
    BY <1>1, <1>6, <2>1
  <2>3. Held(nodes', para_buf') = Append(held, Len(source) + 1)
    BY <1>1, <2>1, <2>2, HeldAppend, Zenon DEF held
  <2>4. InOrder(Held(nodes', para_buf'), source')
    BY <1>0, <1>1, <2>1, <2>2, <2>3, OrderMore
  <2> QED
    BY <1>3, <2>1, <2>4, Zenon DEF Reading
<1>10. CASE Return
  <2>1. /\ Reading /\ para_buf' = <<>> /\ source' = source
        /\ Built(FlushParagraph(Building))
    BY <1>10, Zenon DEF Return
  <2>2. PICK root : Lines /\ At(root)
    BY <1>2, <2>1, Zenon
  <2>3. Held(nodes', para_buf') = held
    BY <2>1, <2>2, FlushHeld, BuiltIs, Zenon DEF held
  <2> QED
    BY <1>0, <1>3, <2>1, <2>3, Zenon
<1> QED
  BY <1>4, <1>5, <1>7, <1>8, <1>9, <1>10, Zenon DEF Next

LEMMA LinesKeptStarts ==
  ASSUME Init
  PROVE  LinesKept
<1>1. nodes = <<>> /\ para_buf = <<>> /\ source = <<>> /\ stack = <<>>
  BY Zenon DEF Init
<1>2. Texts(<<>>) = <<>> /\ Len(<<>>) = 0
  BY DEF Texts
<1>3. FlattenSeq(<<>>) = <<>>
  BY <1>2, FlattenNone, Zenon
<1>4. <<>> \o <<>> = <<>>
  OBVIOUS
<1>5. Held(nodes, para_buf) = <<>>
  BY <1>1, <1>2, <1>3, <1>4, Zenon DEF Held
<1>6. InOrder(<<>>, <<>>)
  <2>1. <<>> \in Seq(Nat) /\ Range(<<>>) = {} /\ 1..0 = {} /\ 2..0 = {}
    BY DEF Range
  <2> QED
    BY <1>2, <2>1 DEF InOrder
<1> QED
  BY <1>1, <1>5, <1>6, Zenon DEF LinesKept

LEMMA LinesKeptSays ==
  ASSUME LinesKept
  PROVE  EveryLineKept
<1>1. Held(nodes, para_buf) = FlattenSeq([n \in NodeId |-> nodes[n].text]) \o para_buf
  BY Zenon DEF Held, Texts, NodeId
<1> QED
  BY <1>1, Zenon DEF LinesKept, InOrder, EveryLineKept

\* Nothing is lost, doubled or mixed up: the nodes and the paragraph being read
\* hold exactly the lines that are not blank, in order, in documents of any length
\* (sle-adapters-text/src/lib.rs, ingest and flush_paragraph).
THEOREM LinesAreKept == Spec => []EveryLineKept
<1>1. Init => TextInv /\ LinesKept
  BY InvStarts, LinesKeptStarts
<1>2. TextInv /\ LinesKept /\ [Next]_vars => TextInv' /\ LinesKept'
  BY TextInvInductive, LinesStayKept
<1>3. LinesKept => EveryLineKept
  BY LinesKeptSays
<1> QED
  BY <1>1, <1>2, <1>3, PTL DEF Spec
=============================================================================
