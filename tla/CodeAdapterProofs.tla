------------------------- MODULE CodeAdapterProofs -------------------------
(***************************************************************************)
(* Theorems about the code adapter, for files of any size: siblings are    *)
(* chained, each file becomes one more tree, everything belongs to the     *)
(* class it is written in, and calls go by name.                           *)
(*                                                                         *)
(* Modules, functions, classes and imports make a tree as documents,       *)
(* sections and paragraphs do.  What TextAdapterProofs says of trees under *)
(* construction is used here, of the tree that has a document for each     *)
(* module and a section for each other node.                               *)
(***************************************************************************)
EXTENDS CodeAdapter, NumberProofs

T == INSTANCE TextAdapterProofs WITH
       Line <- {}, MaxLines <- 0, MaxDocs <- 0,
       nodes <- <<>>, edges <- <<>>, stack <- <<>>, last_sibling <- <<>>,
       para_buf <- <<>>, source <- <<>>, begin <- 0

F == INSTANCE FiniteSetTheorems

-----------------------------------------------------------------------------
\* Bags of edges.

IsMap(B) == B = [e \in DOMAIN B |-> B[e]]

OneMore(B, x, C) ==
  /\ IsMap(C) /\ DOMAIN C = DOMAIN B \cup {x}
  /\ C[x] = IF x \in DOMAIN B THEN B[x] + 1 ELSE 1
  /\ \A e \in DOMAIN B : e # x => C[e] = B[e]

LEMMA BagAddIs ==
  ASSUME NEW B, IsMap(B), NEW x
  PROVE  OneMore(B, x, BagAdd(B, x))
<1> DEFINE C == BagAdd(B, x)
<1>1. CASE x \in DOMAIN B
  <2>1. C = [e \in DOMAIN B |-> IF e = x THEN B[e] + 1 ELSE B[e]]
    BY <1>1, Zenon DEF BagAdd
  <2> HIDE DEF C
  <2> QED
    BY <1>1, <2>1 DEF OneMore, IsMap, C
<1>2. CASE x \notin DOMAIN B
  <2>1. C = [e \in DOMAIN B \cup {x} |-> IF e = x THEN 1 ELSE B[e]]
    BY <1>2, Zenon DEF BagAdd
  <2> HIDE DEF C
  <2> QED
    BY <1>2, <2>1 DEF OneMore, IsMap, C
<1> QED
  BY <1>1, <1>2

KeysOn(m) == [src : 1..m, dst : 1..m, kind : {"Contains", "Precedes", "Calls"}]

\* Only Calls edges are added more than once.
EdgesOK(es, m) ==
  /\ IsMap(es)
  /\ \A e \in DOMAIN es : /\ e \in KeysOn(m) /\ es[e] \in Nat \ {0}
                          /\ e.kind # "Calls" => es[e] = 1

\* b is the tree part of the forest.
Mirrors(b, ns, es, sib) ==
  /\ T!BuildOK(b) /\ T!Tidy(b)
  /\ ns \in Seq(Payload) /\ Len(b.nodes) = Len(ns)
  /\ \A n \in 1..Len(ns) : /\ b.nodes[n].tree = ns[n].tree
                           /\ b.nodes[n].kind = "Document" <=> ns[n].kind = "Module"
                           /\ b.nodes[n].kind # "Paragraph"
  /\ b.last_sibling = sib
  /\ \A e : e \in T!Range(b.edges) <=> e \in DOMAIN es /\ e.kind # "Calls"

\* The edges and siblings after link_sibling of node n.
Tied(es, sib, p, n, fs, sib2) ==
  LET prev == sib[p]
      one  == BagAdd(es, Edge(p, n, "Contains"))
  IN  /\ fs = IF prev = 0 THEN one ELSE BagAdd(one, Edge(prev, n, "Precedes"))
      /\ sib2 = [Append(sib, 0) EXCEPT ![p] = n]

Ties(es, sib, p, n, fs) ==
  /\ EdgesOK(fs, n)
  /\ \A e : e \in DOMAIN fs <=> (\/ e \in DOMAIN es
                                 \/ e = Edge(p, n, "Contains")
                                 \/ (sib[p] # 0 /\ e = Edge(sib[p], n, "Precedes")))
  /\ \A e \in DOMAIN es : fs[e] = es[e]

LEMMA TiedEdges ==
  ASSUME NEW m \in Nat, NEW es, EdgesOK(es, m), NEW sib, NEW p \in 1..m, sib[p] \in 0..m,
         NEW n, n = m + 1, NEW fs, NEW sib2, Tied(es, sib, p, n, fs, sib2)
  PROVE  Ties(es, sib, p, n, fs)
<1> DEFINE e1  == Edge(p, n, "Contains")
           prev == sib[p]
           e2  == Edge(prev, n, "Precedes")
           one == BagAdd(es, e1)
           two == BagAdd(one, e2)
<1>1. /\ e1 \in KeysOn(n) /\ e1 \notin KeysOn(m) /\ e1.kind # "Calls"
      /\ e2 \notin KeysOn(m) /\ e2.kind # "Calls" /\ e2 # e1
      /\ prev # 0 => e2 \in KeysOn(n)
      /\ \A e \in KeysOn(m) : e \in KeysOn(n)
  BY DEF KeysOn, Edge
<1>2. fs = IF prev = 0 THEN one ELSE two
  BY Zenon DEF Tied
<1> HIDE DEF e1, e2, prev
<1>3. /\ IsMap(es)
      /\ \A e \in DOMAIN es : /\ e \in KeysOn(m) /\ es[e] \in Nat \ {0}
                              /\ e.kind # "Calls" => es[e] = 1
  BY Zenon DEF EdgesOK
<1>4. e1 \notin DOMAIN es /\ e2 \notin DOMAIN es
  BY <1>1, <1>3
<1>5. /\ IsMap(one) /\ DOMAIN one = DOMAIN es \cup {e1}
      /\ one[e1] = 1 /\ \A e \in DOMAIN es : one[e] = es[e]
  <2>1. OneMore(es, e1, one)
    BY <1>3, BagAddIs, Zenon
  <2> HIDE DEF one
  <2> QED
    BY <1>4, <2>1 DEF OneMore
<1> HIDE DEF one
<1>6. e2 \notin DOMAIN one
  BY <1>1, <1>4, <1>5
<1>7. /\ IsMap(two) /\ DOMAIN two = DOMAIN one \cup {e2}
      /\ two[e2] = 1 /\ \A e \in DOMAIN one : two[e] = one[e]
  <2>1. OneMore(one, e2, two)
    BY <1>5, BagAddIs, Zenon
  <2> HIDE DEF two
  <2> QED
    BY <1>6, <2>1 DEF OneMore
<1> HIDE DEF two
<1>8. CASE prev = 0
  <2>1. fs = one
    BY <1>2, <1>8
  <2>2. EdgesOK(one, n)
    BY <1>1, <1>3, <1>5 DEF EdgesOK
  <2> QED
    BY <1>5, <1>8, <2>1, <2>2 DEF prev, e1, Ties
<1>9. CASE prev # 0
  <2>1. fs = two
    BY <1>2, <1>9
  <2>2. EdgesOK(two, n)
    BY <1>1, <1>3, <1>5, <1>7, <1>9 DEF EdgesOK
  <2> QED
    BY <1>5, <1>7, <1>9, <2>1, <2>2 DEF prev, e1, e2, Ties
<1> QED
  BY <1>8, <1>9

\* What a step leaves of the trees that were there before.
Spares(es, fs, root) ==
  /\ \A e : e \in DOMAIN es => e \in DOMAIN fs
  /\ \A e : e \in DOMAIN fs /\ e.src < root => e \in DOMAIN es

\* No call goes from one tree to another.
CallsApart(es, root) ==
  \A e \in DOMAIN es : e.kind = "Calls" => (root <= e.src <=> root <= e.dst)

\* last_sibling after that.
Retied(f, g, p, m) ==
  /\ g \in [1..(m + 1) -> 0..(m + 1)] /\ g[p] = m + 1 /\ g[m + 1] = 0
  /\ \A i \in 1..m : i # p => g[i] = f[i]

LEMMA RetiedIs ==
  ASSUME NEW m \in Nat, NEW f \in [1..m -> 0..m], NEW p \in 1..m
  PROVE  Retied(f, [Append(f, 0) EXCEPT ![p] = m + 1], p, m)
<1> DEFINE g == [Append(f, 0) EXCEPT ![p] = m + 1]
<1>0. {} \subseteq T!AnyLine
  OBVIOUS
<1>1. /\ g \in [1..(m + 1) -> 0..(m + 1)] /\ g[p] = m + 1 /\ g[m + 1] = 0
      /\ \A i \in 1..m : i # p => g[i] = f[i]
  BY <1>0, T!SiblingsGrow
<1> HIDE DEF g
<1>2. Retied(f, g, p, m)
  BY <1>1 DEF Retied
<1> QED
  BY <1>2 DEF g

\* The tree with root `root` has grown, the others are as they were.
Grown(es, more, fs, sib2, root) ==
  /\ EdgesOK(fs, Len(more)) /\ Spares(es, fs, root)
  /\ CallsApart(es, root) => CallsApart(fs, root)
  /\ \E c : Mirrors(c, more, fs, sib2) /\ T!Open(c, root)

\* A node that is tied to p.
LEMMA MirrorGrows ==
  ASSUME NEW ns, NEW es, EdgesOK(es, Len(ns)), NEW sib, NEW b, Mirrors(b, ns, es, sib),
         NEW root, T!Open(b, root), NEW p \in root..Len(ns),
         NEW node \in Payload, node.kind # "Module", node.tree = ns[Len(ns)].tree,
         NEW n, n = Len(ns) + 1, NEW more, more = Append(ns, node),
         NEW fs, NEW sib2, Tied(es, sib, p, n, fs, sib2)
  PROVE  Grown(es, more, fs, sib2, root)
<1> DEFINE m    == Len(ns)
           c    == T!AddChild(b, p, "Section", <<>>)
           prev == sib[p]
<1>1. /\ T!BuildOK(b) /\ T!Tidy(b)
      /\ ns \in Seq(Payload) /\ Len(b.nodes) = m
      /\ \A i \in 1..m : /\ b.nodes[i].tree = ns[i].tree
                         /\ b.nodes[i].kind = "Document" <=> ns[i].kind = "Module"
                         /\ b.nodes[i].kind # "Paragraph"
      /\ b.last_sibling = sib
      /\ \A e : e \in T!Range(b.edges) <=> e \in DOMAIN es /\ e.kind # "Calls"
  BY Zenon DEF Mirrors
<1>2. m \in Nat
  BY <1>1
<1>3. /\ root \in 1..m /\ b.nodes[root].kind = "Document"
      /\ \A i \in root..m : b.nodes[i].tree = b.nodes[root].tree
  BY <1>1, Zenon DEF T!Open, T!LastTree
<1>4. /\ p \in 1..m /\ p \in root..m /\ m \in root..m /\ m \in 1..m /\ m + 1 = n
      /\ root \in Nat /\ p \in Nat /\ n \in Nat /\ root <= p /\ root < n /\ n \notin 1..m
  BY <1>2, <1>3
<1>5. sib \in [1..m -> 0..m] /\ prev \in 0..m
  <2>1. sib \in [1..m -> 0..m]
    BY <1>1, Zenon DEF T!BuildOK
  <2> HIDE DEF m
  <2> QED
    BY <1>4, <2>1
<1>6. T!Grows(b, c, p, "Section", <<>>)
  <2>1. <<>> \in Seq(Nat) /\ "Section" \in {"Section", "Paragraph"}
    OBVIOUS
  <2> QED
    BY <1>1, <1>4, <2>1, T!AddChildGrows, Zenon
<1> HIDE DEF c
<1>7. T!Tidy(c) /\ T!Open(c, root)
  <2>1. "Section" \in {"Section", "Paragraph"}
    OBVIOUS
  <2> QED
    BY <1>1, <1>4, <1>6, <2>1, T!GrowthKeepsShape, Zenon
<1>8. /\ T!BuildOK(c) /\ Len(c.nodes) = n
      /\ \A i \in 1..m : c.nodes[i] = b.nodes[i]
      /\ c.nodes[n] = [tree |-> b.nodes[p].tree, kind |-> "Section", text |-> <<>>]
      /\ \A e : e \in T!Range(c.edges) <=>
                  (\/ e \in T!Range(b.edges)
                   \/ e = T!Edge(p, n, "Contains")
                   \/ (prev # 0 /\ e = T!Edge(prev, n, "Precedes")))
      /\ c.last_sibling[p] = n /\ c.last_sibling[n] = 0
      /\ \A i \in 1..m : i # p => c.last_sibling[i] = sib[i]
  BY <1>1, <1>4, <1>6, ZenonT(60) DEF T!Grows
<1>9. /\ EdgesOK(fs, n)
      /\ \A e : e \in DOMAIN fs <=> (\/ e \in DOMAIN es
                                     \/ e = Edge(p, n, "Contains")
                                     \/ (prev # 0 /\ e = Edge(prev, n, "Precedes")))
  <2> HIDE DEF m
  <2>1. EdgesOK(es, m)
    BY DEF m
  <2>2. n = m + 1 /\ m \in Nat /\ p \in 1..m
    BY <1>2, <1>4
  <2>3. Ties(es, sib, p, n, fs)
    BY <1>5, <2>1, <2>2, TiedEdges, Zenon
  <2> QED
    BY <2>3, Zenon DEF Ties
<1>10. /\ \A q, x, k : Edge(q, x, k) = T!Edge(q, x, k)
       /\ \A q, x : Edge(q, x, "Contains").kind # "Calls" /\ Edge(q, x, "Precedes").kind # "Calls"
       /\ \A q, x, k : Edge(q, x, k).src = q
  BY DEF Edge, T!Edge
<1>11. \A e : e \in T!Range(c.edges) <=> e \in DOMAIN fs /\ e.kind # "Calls"
  <2> TAKE e
  <2>1. e \in T!Range(b.edges) <=> e \in DOMAIN es /\ e.kind # "Calls"
    BY <1>1
  <2>2. /\ e = T!Edge(p, n, "Contains") <=> e = Edge(p, n, "Contains")
        /\ e = T!Edge(prev, n, "Precedes") <=> e = Edge(prev, n, "Precedes")
        /\ e = Edge(p, n, "Contains") => e.kind # "Calls"
        /\ e = Edge(prev, n, "Precedes") => e.kind # "Calls"
    BY <1>10
  <2>3. e \in T!Range(c.edges) <=> (\/ e \in T!Range(b.edges)
                                    \/ e = T!Edge(p, n, "Contains")
                                    \/ (prev # 0 /\ e = T!Edge(prev, n, "Precedes")))
    BY <1>8
  <2>4. e \in DOMAIN fs <=> (\/ e \in DOMAIN es
                             \/ e = Edge(p, n, "Contains")
                             \/ (prev # 0 /\ e = Edge(prev, n, "Precedes")))
    BY <1>9
  <2> QED
    BY <2>1, <2>2, <2>3, <2>4, Zenon
<1>12. more \in Seq(Payload) /\ Len(more) = n /\ more[n] = node
       /\ \A i \in 1..m : more[i] = ns[i]
  BY <1>1, <1>2, <1>4
<1>13. c.last_sibling = sib2
  <2>1. c.last_sibling \in [1..n -> 0..n]
    BY <1>8, Zenon DEF T!BuildOK
  <2>2. sib2 = [Append(sib, 0) EXCEPT ![p] = n]
    BY Zenon DEF Tied
  <2> HIDE DEF m
  <2>3. n = m + 1
    BY <1>4
  <2>5. sib2 \in [1..n -> 0..n] /\ sib2[p] = n /\ sib2[n] = 0
        /\ \A i \in 1..m : i # p => sib2[i] = sib[i]
    <3>1. m \in Nat /\ p \in 1..m
      BY <1>2, <1>4
    <3>2. Retied(sib, [Append(sib, 0) EXCEPT ![p] = m + 1], p, m)
      BY <1>5, <3>1, RetiedIs, Zenon
    <3> QED
      BY <2>2, <2>3, <3>2, Zenon DEF Retied
  <2>6. \A i \in 1..n : i = n \/ i \in 1..m
    BY <1>2, <2>3
  <2>7. \A i \in 1..n : c.last_sibling[i] = sib2[i]
    BY <1>8, <2>5, <2>6, Zenon
  <2> QED
    BY <2>1, <2>5, <2>7
<1>14. \A i \in 1..n : /\ c.nodes[i].tree = more[i].tree
                       /\ c.nodes[i].kind = "Document" <=> more[i].kind = "Module"
                       /\ c.nodes[i].kind # "Paragraph"
  <2> TAKE i \in 1..n
  <2>1. CASE i = n
    <3>1. c.nodes[n].tree = b.nodes[p].tree /\ c.nodes[n].kind = "Section"
      BY <1>8
    <3>2. b.nodes[p].tree = node.tree
      BY <1>1, <1>3, <1>4
    <3> QED
      BY <1>12, <2>1, <3>1, <3>2
  <2>2. CASE i # n
    <3>1. i \in 1..m
      BY <1>2, <1>4, <2>2
    <3> QED
      BY <1>1, <1>8, <1>12, <3>1, ZenonT(60)
  <2> QED
    BY <2>1, <2>2
<1>15. Mirrors(c, more, fs, sib2)
  BY <1>7, <1>8, <1>11, <1>12, <1>13, <1>14, Zenon DEF Mirrors
<1>16. Spares(es, fs, root)
  <2>1. prev # 0 => root <= prev
    <3> SUFFICES ASSUME prev # 0
                 PROVE  root <= prev
      OBVIOUS
    <3>1. T!Child(b, p, prev)
      BY <1>1, <1>4, Zenon DEF T!Open, T!Remembered
    <3>2. T!Edge(p, prev, "Contains") \in T!Range(b.edges)
      BY <3>1 DEF T!Child
    <3>3. p < prev
      BY <1>1, <3>2 DEF T!Tidy, T!Forward, T!Edge
    <3> QED
      BY <1>4, <1>5, <3>3
  <2>2. ASSUME NEW e, e \in DOMAIN fs, e.src < root
        PROVE  e \in DOMAIN es
    <3>1. e # Edge(p, n, "Contains")
      BY <1>4, <1>10, <2>2
    <3>2. ~ (prev # 0 /\ e = Edge(prev, n, "Precedes"))
      BY <1>4, <1>5, <1>10, <2>1, <2>2
    <3> QED
      BY <1>9, <2>2, <3>1, <3>2, Zenon
  <2> QED
    BY <1>9, <2>2, Zenon DEF Spares
<1>17. CallsApart(es, root) => CallsApart(fs, root)
  <2>1. ASSUME NEW e, e \in DOMAIN fs, e.kind = "Calls"
        PROVE  e \in DOMAIN es
    <3>1. e # Edge(p, n, "Contains") /\ e # Edge(prev, n, "Precedes")
      BY <1>10, <2>1
    <3> QED
      BY <1>9, <2>1, <3>1, Zenon
  <2> QED
    BY <2>1, Zenon DEF CallsApart
<1> QED
  BY <1>7, <1>9, <1>12, <1>15, <1>16, <1>17, Zenon DEF Grown

\* A call counts once more.
LEMMA MirrorCalls ==
  ASSUME NEW ns, NEW es, EdgesOK(es, Len(ns)), NEW sib, NEW b, Mirrors(b, ns, es, sib),
         NEW root \in 1..Len(ns), CallsApart(es, root),
         NEW q \in root..Len(ns), NEW t \in root..Len(ns),
         NEW fs, fs = BagAdd(es, Edge(q, t, "Calls"))
  PROVE  /\ EdgesOK(fs, Len(ns)) /\ Spares(es, fs, root) /\ CallsApart(fs, root)
         /\ Mirrors(b, ns, fs, sib) /\ OneMore(es, Edge(q, t, "Calls"), fs)
<1> DEFINE m == Len(ns)
           x == Edge(q, t, "Calls")
<1>1. ns \in Seq(Payload)
  BY Zenon DEF Mirrors
<1>2. m \in Nat /\ root \in Nat
  BY <1>1
<1>3. x \in KeysOn(m) /\ x.kind = "Calls" /\ x.src = q /\ x.dst = t
      /\ root <= q /\ root <= t /\ ~ (q < root)
  BY <1>2 DEF KeysOn, Edge
<1>4. /\ IsMap(es)
      /\ \A e \in DOMAIN es : /\ e \in KeysOn(m) /\ es[e] \in Nat \ {0}
                              /\ e.kind # "Calls" => es[e] = 1
  BY Zenon DEF EdgesOK
<1>5. OneMore(es, x, fs)
  BY <1>4, BagAddIs, Zenon
<1> HIDE DEF m, x
<1>6. /\ IsMap(fs) /\ DOMAIN fs = DOMAIN es \cup {x}
      /\ fs[x] = IF x \in DOMAIN es THEN es[x] + 1 ELSE 1
      /\ \A e \in DOMAIN es : e # x => fs[e] = es[e]
  BY <1>5, Zenon DEF OneMore
<1>7. EdgesOK(fs, m)
  <2>1. fs[x] \in Nat \ {0}
    BY <1>4, <1>6
  <2>2. \A e \in DOMAIN fs : e = x \/ (e \in DOMAIN es /\ fs[e] = es[e])
    BY <1>6
  <2> QED
    BY <1>3, <1>4, <1>6, <2>1, <2>2, ZenonT(60) DEF EdgesOK
<1>8. Spares(es, fs, root)
  BY <1>3, <1>6 DEF Spares
<1>9. CallsApart(fs, root)
  BY <1>3, <1>6 DEF CallsApart
<1>10. \A e : e \in DOMAIN fs /\ e.kind # "Calls" <=> e \in DOMAIN es /\ e.kind # "Calls"
  BY <1>3, <1>6
<1>11. Mirrors(b, ns, fs, sib)
  BY <1>10, Zenon DEF Mirrors
<1> QED
  BY <1>5, <1>7, <1>8, <1>9, <1>11 DEF m, x

\* Between two files the siblings are forgotten.
LEMMA MirrorRests ==
  ASSUME NEW ns, NEW es, NEW sib, NEW b, Mirrors(b, ns, es, sib),
         NEW zeros, zeros = [n \in 1..Len(ns) |-> 0]
  PROVE  \E c : Mirrors(c, ns, es, zeros)
<1> DEFINE c == [nodes |-> b.nodes, edges |-> b.edges, last_sibling |-> zeros]
<1>1. /\ T!BuildOK(b) /\ T!Tidy(b) /\ Len(b.nodes) = Len(ns) /\ ns \in Seq(Payload)
  BY Zenon DEF Mirrors
<1>2. zeros \in [1..Len(ns) -> 0..Len(ns)]
  <2>1. Len(ns) \in Nat
    BY <1>1
  <2> QED
    BY <2>1
<1>3. c.nodes = b.nodes /\ c.edges = b.edges /\ c.last_sibling = zeros
      /\ c = [nodes |-> c.nodes, edges |-> c.edges, last_sibling |-> c.last_sibling]
  BY Zenon
<1> HIDE DEF c
<1>4. T!BuildOK(c)
  BY <1>1, <1>2, <1>3, Zenon DEF T!BuildOK
<1>5. T!Tidy(c)
  <2>1. /\ \A q, x : T!Child(c, q, x) <=> T!Child(b, q, x)
        /\ \A q, x : T!Linked(c, q, x) <=> T!Linked(b, q, x)
    BY <1>3, Zenon DEF T!Child, T!Linked
  <2>2. T!OneParent(c)
    <3>1. \A n \in 1..Len(b.nodes) :
            IF b.nodes[n].kind = "Document" THEN \A p \in 1..Len(b.nodes) : ~ T!Child(b, p, n)
            ELSE \E p \in 1..(n - 1) : \A q \in 1..Len(b.nodes) : T!Child(b, q, n) <=> q = p
      BY <1>1, Zenon DEF T!Tidy, T!OneParent
    <3>2. \A n \in 1..Len(b.nodes) :
            IF b.nodes[n].kind = "Document" THEN \A p \in 1..Len(b.nodes) : ~ T!Child(c, p, n)
            ELSE \E p \in 1..(n - 1) : \A q \in 1..Len(b.nodes) : T!Child(c, q, n) <=> q = p
      BY <2>1, <3>1
    <3> QED
      BY <1>3, <3>2 DEF T!OneParent
  <2>3. T!Forward(c)
    BY <1>1, <1>3, Zenon DEF T!Tidy, T!Forward
  <2>4. T!Chained(c)
    <3>1. \A x, y \in 1..Len(b.nodes) :
            T!Linked(b, x, y) <=> \E p \in 1..Len(b.nodes) : T!Neighbours(b, p, x, y)
      BY <1>1, Zenon DEF T!Tidy, T!Chained
    <3>2. \A p, x, y : T!Neighbours(c, p, x, y) <=> T!Neighbours(b, p, x, y)
      BY <2>1, Zenon DEF T!Neighbours
    <3>3. \A x, y \in 1..Len(b.nodes) :
            T!Linked(c, x, y) <=> \E p \in 1..Len(b.nodes) : T!Neighbours(c, p, x, y)
      BY <2>1, <3>1, <3>2, Zenon
    <3> QED
      BY <1>3, <3>3, Zenon DEF T!Chained
  <2> QED
    BY <1>1, <1>3, <2>2, <2>3, <2>4, Zenon DEF T!Tidy
<1>6. Mirrors(c, ns, es, zeros)
  BY <1>1, <1>3, <1>4, <1>5, Zenon DEF Mirrors
<1> QED
  BY <1>6

\* A tree of one node, with no edges yet.
Planted(es, more, zeros, n) ==
  /\ EdgesOK(es, Len(more)) /\ Len(more) = n /\ CallsApart(es, n)
  /\ \E c : Mirrors(c, more, es, zeros) /\ T!Open(c, n)

\* A new file starts with a module.
LEMMA MirrorRoot ==
  ASSUME NEW ns, NEW es, EdgesOK(es, Len(ns)), NEW sib, NEW b, Mirrors(b, ns, es, sib),
         NEW tree \in Tree, NEW n, n = Len(ns) + 1,
         NEW more, more = Append(ns, [tree |-> tree, kind |-> "Module"]),
         NEW zeros, zeros = [i \in 1..n |-> 0]
  PROVE  Planted(es, more, zeros, n)
<1> DEFINE m == Len(ns)
           none == [i \in 1..m |-> 0]
           doc  == [tree |-> tree, kind |-> "Document", text |-> <<>>]
           mod  == [tree |-> tree, kind |-> "Module"]
           c == [nodes |-> Append(b.nodes, doc), edges |-> b.edges, last_sibling |-> Append(none, 0)]
<1>1. /\ T!BuildOK(b) /\ T!Tidy(b)
      /\ ns \in Seq(Payload) /\ Len(b.nodes) = m
      /\ \A i \in 1..m : /\ b.nodes[i].tree = ns[i].tree
                         /\ b.nodes[i].kind = "Document" <=> ns[i].kind = "Module"
                         /\ b.nodes[i].kind # "Paragraph"
      /\ \A e : e \in T!Range(b.edges) <=> e \in DOMAIN es /\ e.kind # "Calls"
  BY Zenon DEF Mirrors
<1>2. m \in Nat
  BY <1>1
<1>3. c.nodes = Append(b.nodes, doc) /\ c.edges = b.edges /\ c.last_sibling = Append(none, 0)
      /\ c = [nodes |-> c.nodes, edges |-> c.edges, last_sibling |-> c.last_sibling]
  BY Zenon
<1> HIDE DEF c
<1>4. T!RootAdded(b, c, tree)
  BY <1>1, <1>3, Zenon DEF T!RootAdded
<1>5. T!Blocks(b, <<>>)
  BY <1>1, Zenon DEF T!Blocks, T!IsParagraph
<1>6. T!Rooted(b, c, <<>>, 0)
  <2>1. {} \subseteq T!AnyLine
    OBVIOUS
  <2> QED
    BY <1>1, <1>4, <1>5, <2>1, T!RootKeeps, Zenon
<1>7. /\ T!BuildOK(c) /\ T!Tidy(c) /\ T!Open(c, n) /\ Len(c.nodes) = n
      /\ c.nodes[n].kind = "Document" /\ \A i \in 1..m : c.nodes[i] = b.nodes[i]
  BY <1>1, <1>6, Zenon DEF T!Rooted, T!Doc, T!Bigger
<1>8. c.nodes[n].tree = tree
  <2>1. b.nodes \in Seq(T!Payload)
    BY <1>1, Zenon DEF T!BuildOK
  <2> QED
    BY <1>1, <1>3, <2>1
<1>9. more \in Seq(Payload) /\ Len(more) = n /\ more[n] = mod
      /\ \A i \in 1..m : more[i] = ns[i]
  <2>1. mod \in Payload
    BY DEF Payload
  <2> QED
    BY <1>1, <2>1
<1>10. c.last_sibling = zeros
  <2> HIDE DEF m
  <2>1. none \in Seq({0}) /\ Len(none) = m
    BY <1>2
  <2>2. Append(none, 0) \in Seq({0}) /\ Len(Append(none, 0)) = m + 1
    <3> HIDE DEF none
    <3> QED
      BY <1>2, <2>1
  <2> DEFINE s == Append(none, 0)
  <2> HIDE DEF s
  <2>3. s \in Seq({0}) /\ Len(s) = m + 1 /\ n = m + 1
    BY <2>2 DEF s, m
  <2>4. s = [i \in 1..n |-> s[i]] /\ \A i \in 1..n : s[i] = 0
    BY <1>2, <2>3
  <2> QED
    BY <1>3, <2>4 DEF s
<1>11. \A i \in 1..n : /\ c.nodes[i].tree = more[i].tree
                       /\ c.nodes[i].kind = "Document" <=> more[i].kind = "Module"
                       /\ c.nodes[i].kind # "Paragraph"
  <2> TAKE i \in 1..n
  <2>1. CASE i = n
    BY <1>7, <1>8, <1>9, <2>1
  <2>2. CASE i # n
    <3>1. i \in 1..m
      BY <1>2, <2>2
    <3> QED
      BY <1>1, <1>7, <1>9, <3>1, ZenonT(60)
  <2> QED
    BY <2>1, <2>2
<1>12. Mirrors(c, more, es, zeros)
  BY <1>1, <1>3, <1>7, <1>9, <1>10, <1>11, Zenon DEF Mirrors
<1>13. EdgesOK(es, n) /\ CallsApart(es, n)
  <2>1. /\ IsMap(es)
        /\ \A e \in DOMAIN es : /\ e \in KeysOn(m) /\ es[e] \in Nat \ {0}
                                /\ e.kind # "Calls" => es[e] = 1
    BY Zenon DEF EdgesOK
  <2> HIDE DEF m
  <2>2. n = m + 1
    BY DEF m
  <2>3. \A e \in KeysOn(m) : e \in KeysOn(n) /\ ~ (n <= e.src) /\ ~ (n <= e.dst)
    BY <1>2, <2>2 DEF KeysOn
  <2> QED
    BY <2>1, <2>3, Zenon DEF EdgesOK, CallsApart
<1> QED
  BY <1>7, <1>9, <1>12, <1>13, Zenon DEF Planted


-----------------------------------------------------------------------------
\* The walks.

Pair(S) == [container : S, current_fn : S]

\* What the walk is called with at every depth after it has met an item.
Deeper(ctx, item, node, ctx2) ==
  /\ Len(ctx2) = item.depth + (IF item.kind = "import" THEN 1 ELSE 2)
  /\ \A i \in 1..(item.depth + 1) : ctx2[i] = ctx[i]
  /\ item.kind # "import" =>
       ctx2[item.depth + 2] =
         CASE item.kind = "function" -> [ctx[item.depth + 1] EXCEPT !.current_fn = node]
           [] item.kind = "class"    -> [ctx[item.depth + 1] EXCEPT !.container = node]
           [] item.kind = "call"     -> ctx[item.depth + 1]

LEMMA DescendIs ==
  ASSUME NEW S, context \in Seq(Pair(S)), NEW item \in Item, item.depth < Len(context),
         NEW node, item.kind \in {"function", "class"} => node \in S, Descend(item, node)
  PROVE  context' \in Seq(Pair(S)) /\ Deeper(context, item, node, context')
<1> DEFINE d    == item.depth + 1
           here == context[d]
           head == SubSeq(context, 1, d)
<1>1. item.depth \in Nat /\ item.kind \in ItemKind
  BY DEF Item
<1>2. /\ d \in 1..Len(context) /\ d \in Nat /\ here \in Pair(S)
      /\ head \in Seq(Pair(S)) /\ Len(head) = d /\ \A i \in 1..d : head[i] = context[i]
  BY <1>1
<1>3. ASSUME NEW last \in Pair(S), context' = head \o <<last>>
      PROVE  /\ context' \in Seq(Pair(S)) /\ Len(context') = item.depth + 2
             /\ \A i \in 1..d : context'[i] = context[i]
             /\ context'[item.depth + 2] = last
  <2> DEFINE ctx == context
             new == context'
  <2>1. new = Append(head, last)
    <3> HIDE DEF head
    <3> QED
      BY <1>2, <1>3
  <2> HIDE DEF head, new, d, ctx
  <2>2. new \in Seq(Pair(S)) /\ Len(new) = d + 1 /\ new[d + 1] = last
        /\ \A i \in 1..d : new[i] = head[i]
    BY <1>2, <2>1
  <2>3. d + 1 = item.depth + 2
    BY <1>1 DEF d
  <2> QED
    BY <1>2, <2>2, <2>3 DEF new
<1>4. here = context[item.depth + 1] /\ here = Around(item)
  BY DEF Around
<1>5. context' = head \o (CASE item.kind = "function" -> <<[here EXCEPT !.current_fn = node]>>
                            [] item.kind = "class"    -> <<[here EXCEPT !.container = node]>>
                            [] item.kind = "call"     -> <<here>>
                            [] item.kind = "import"   -> <<>>)
  BY <1>4, Zenon DEF Descend
<1> HIDE DEF here, head
<1>6. CASE item.kind = "function"
  <2> DEFINE last == [here EXCEPT !.current_fn = node]
  <2>1. last \in Pair(S)
    BY <1>2, <1>6 DEF Pair
  <2>2. context' = head \o <<last>>
    BY <1>5, <1>6
  <2> HIDE DEF last
  <2>3. /\ context' \in Seq(Pair(S)) /\ Len(context') = item.depth + 2
        /\ \A i \in 1..d : context'[i] = context[i]
        /\ context'[item.depth + 2] = last
    BY <1>3, <2>1, <2>2
  <2> QED
    BY <1>4, <1>6, <2>3 DEF Deeper, last
<1>7. CASE item.kind = "class"
  <2> DEFINE last == [here EXCEPT !.container = node]
  <2>1. last \in Pair(S)
    BY <1>2, <1>7 DEF Pair
  <2>2. context' = head \o <<last>>
    BY <1>5, <1>7
  <2> HIDE DEF last
  <2>3. /\ context' \in Seq(Pair(S)) /\ Len(context') = item.depth + 2
        /\ \A i \in 1..d : context'[i] = context[i]
        /\ context'[item.depth + 2] = last
    BY <1>3, <2>1, <2>2
  <2> QED
    BY <1>4, <1>7, <2>3 DEF Deeper, last
<1>8. CASE item.kind = "call"
  <2>1. context' = head \o <<here>>
    BY <1>5, <1>8
  <2>2. /\ context' \in Seq(Pair(S)) /\ Len(context') = item.depth + 2
        /\ \A i \in 1..d : context'[i] = context[i]
        /\ context'[item.depth + 2] = here
    BY <1>2, <1>3, <2>1
  <2> QED
    BY <1>4, <1>8, <2>2 DEF Deeper
<1>9. CASE item.kind = "import"
  <2>1. context' = head \o <<>>
    BY <1>5, <1>9
  <2>2. context' = head
    BY <1>2, <2>1
  <2> QED
    BY <1>1, <1>2, <1>9, <2>2 DEF Deeper
<1> QED
  BY <1>1, <1>6, <1>7, <1>8, <1>9 DEF ItemKind

\* How many walks are going on after k items.
Width(src, k) ==
  IF k = 0 THEN 1 ELSE src[k].depth + (IF src[k].kind = "import" THEN 1 ELSE 2)

\* Each item is inside one that the walk is in.
Nested(src) == \A k \in 1..Len(src) : src[k].depth < Width(src, k - 1)

\* more is src and one more item.
OneMoreItem(src, item, more) ==
  /\ more \in Seq(Item) /\ Len(more) = Len(src) + 1 /\ Nested(more)
  /\ \A k \in 1..Len(src) : more[k] = src[k]
  /\ more[Len(more)] = item

LEMMA NestedGrows ==
  ASSUME NEW src \in Seq(Item), Nested(src), NEW item \in Item,
         item.depth < Width(src, Len(src)), NEW more, more = Append(src, item)
  PROVE  OneMoreItem(src, item, more)
<1>1. /\ more \in Seq(Item) /\ Len(more) = Len(src) + 1 /\ Len(src) \in Nat
      /\ \A k \in 1..Len(src) : more[k] = src[k]
      /\ more[Len(src) + 1] = item
  OBVIOUS
<1>2. \A k \in 0..Len(src) : Width(more, k) = Width(src, k)
  BY <1>1 DEF Width
<1>3. ASSUME NEW k \in 1..Len(more)
      PROVE  more[k].depth < Width(more, k - 1)
  <2>1. CASE k = Len(src) + 1
    <3>1. Width(more, k - 1) = Width(src, Len(src))
      BY <1>1, <1>2, <2>1
    <3> QED
      BY <1>1, <2>1, <3>1
  <2>2. CASE k # Len(src) + 1
    <3>1. k \in 1..Len(src) /\ k - 1 \in 0..Len(src)
      BY <1>1, <2>2
    <3>2. src[k].depth < Width(src, k - 1)
      BY <3>1 DEF Nested
    <3> QED
      BY <1>1, <1>2, <3>1, <3>2
  <2> QED
    BY <2>1, <2>2
<1> QED
  BY <1>1, <1>3 DEF Nested, OneMoreItem

\* How many items the walk that is going on has met.
Progress == IF pass = "Link" THEN next - 1 ELSE Len(source)

-----------------------------------------------------------------------------
\* The inductive invariant.

\* All that is there from root on belongs to the file that is walked.
Walk(root) ==
  /\ context \in Seq(Pair(root..Len(nodes)))
  /\ Len(context) = Width(source, Progress)
  /\ name_index \in [Name -> {0} \cup root..Len(nodes)]
  /\ CallsApart(edges, root)

File(root) ==
  /\ pass \in {"Define", "Link"}
  /\ source \in Seq(Item) /\ Nested(source)
  /\ next \in 1..(Len(source) + 1) /\ (pass = "Define" => next = 1)
  /\ EdgesOK(edges, Len(nodes))
  /\ root \in 1..Len(nodes) /\ Walk(root)
  /\ \E b : Mirrors(b, nodes, edges, last_sibling) /\ T!Open(b, root)

Idle ==
  /\ pass = "none" /\ source = <<>> /\ next = 1 /\ context = <<>>
  /\ name_index = [n \in Name |-> 0]
  /\ EdgesOK(edges, Len(nodes))
  /\ \E b : Mirrors(b, nodes, edges, last_sibling)

CodeInv == Idle \/ \E root : File(root)

\* What a step makes of the nodes and edges that were there before.
Goes(root) ==
  /\ Len(nodes) \in Nat /\ Len(nodes') \in Nat /\ Len(nodes) <= Len(nodes')
  /\ \A i \in 1..Len(nodes) : nodes'[i] = nodes[i]
  /\ Spares(edges, edges', root)

LEMMA FileIs ==
  ASSUME NEW root, File(root)
  PROVE  /\ nodes \in Seq(Payload) /\ Len(nodes) \in Nat /\ root \in Nat /\ root \in 1..Len(nodes)
         /\ Len(source) \in Nat /\ source \in Seq(Item) /\ Progress \in 0..Len(source)
         /\ pass \in {"Define", "Link"} /\ next \in 1..(Len(source) + 1)
         /\ context \in Seq(Pair(root..Len(nodes))) /\ Len(context) = Width(source, Progress)
         /\ name_index \in [Name -> {0} \cup root..Len(nodes)]
<1>1. /\ root \in 1..Len(nodes) /\ Walk(root) /\ source \in Seq(Item)
      /\ pass \in {"Define", "Link"} /\ next \in 1..(Len(source) + 1)
      /\ \E b : Mirrors(b, nodes, edges, last_sibling)
  BY Zenon DEF File
<1>2. nodes \in Seq(Payload)
  BY <1>1, Zenon DEF Mirrors
<1>3. Len(nodes) \in Nat /\ root \in Nat /\ Len(source) \in Nat
  BY <1>1, <1>2
<1>4. Progress \in 0..Len(source)
  BY <1>1, <1>3 DEF Progress
<1> QED
  BY <1>1, <1>2, <1>3, <1>4, Zenon DEF Walk

LEMMA NothingAdded ==
  ASSUME NEW root, File(root), nodes' = nodes, edges' = edges
  PROVE  Goes(root)
<1>1. Len(nodes) \in Nat
  BY FileIs
<1>2. Spares(edges, edges', root)
  BY Zenon DEF Spares
<1> QED
  BY <1>1, <1>2 DEF Goes

\* The walk has met one more item.
Meets(item) ==
  /\ item \in Item /\ item.depth < Len(context)
  /\ pass' = pass
  /\ source' \in Seq(Item) /\ Nested(source')
  /\ next' \in 1..(Len(source') + 1) /\ (pass = "Define" => next' = 1)
  /\ Progress' = Progress + 1 /\ Progress' \in 1..Len(source')
  /\ source'[Progress + 1] = item
  /\ \A k \in 1..Progress : source'[k] = source[k]

LEMMA MeetAdds ==
  ASSUME NEW root, File(root), NEW item \in Item, Meet(item)
  PROVE  OneMoreItem(source, item, source') /\ pass = "Define" /\ pass' = "Define"
         /\ next = 1 /\ next' = 1 /\ Progress = Len(source) /\ Progress' = Len(source')
<1>1. /\ source \in Seq(Item) /\ Len(context) = Width(source, Progress)
  BY FileIs
<1>2. /\ pass = "Define" /\ pass' = "Define" /\ next' = next /\ next = 1
      /\ item.depth < Len(context) /\ source' = Append(source, item) /\ Nested(source)
  BY Zenon DEF Meet, File
<1>3. Progress = Len(source) /\ Progress' = Len(source')
  BY <1>2 DEF Progress
<1> DEFINE more == source'
<1>4. more = Append(source, item) /\ item.depth < Width(source, Len(source))
  BY <1>1, <1>2, <1>3
<1> HIDE DEF more
<1>5. OneMoreItem(source, item, more)
  BY <1>1, <1>2, <1>4, NestedGrows, Zenon
<1> QED
  BY <1>2, <1>3, <1>5 DEF more

LEMMA MeetIs ==
  ASSUME NEW root, File(root), NEW item \in Item, Meet(item)
  PROVE  Meets(item) /\ pass = "Define" /\ next = 1
<1>1. /\ OneMoreItem(source, item, source') /\ pass = "Define" /\ pass' = "Define"
      /\ next = 1 /\ next' = 1 /\ Progress = Len(source) /\ Progress' = Len(source')
  BY MeetAdds, Zenon
<1>2. /\ source' \in Seq(Item) /\ Len(source') = Len(source) + 1 /\ Nested(source')
      /\ source'[Len(source')] = item /\ \A k \in 1..Len(source) : source'[k] = source[k]
  BY <1>1, Zenon DEF OneMoreItem
<1>3. Len(source) \in Nat /\ item.depth < Len(context)
  BY FileIs DEF Meet
<1> QED
  BY <1>1, <1>2, <1>3 DEF Meets

LEMMA RevisitIs ==
  ASSUME NEW root, File(root), NEW item, Revisit(item)
  PROVE  Meets(item) /\ pass = "Link" /\ source' = source /\ next' = next + 1 /\ next \in Nat
<1>1. /\ Len(source) \in Nat /\ source \in Seq(Item) /\ Len(context) = Width(source, Progress)
      /\ next \in 1..(Len(source) + 1)
  BY FileIs
<1>2. /\ pass = "Link" /\ pass' = "Link" /\ next <= Len(source) /\ source[next] = item
      /\ next' = next + 1 /\ source' = source /\ Nested(source)
  BY Zenon DEF Revisit, File
<1>3. Progress = next - 1 /\ Progress' = next' - 1
  BY <1>2 DEF Progress
<1>4. item \in Item /\ next \in 1..Len(source)
  BY <1>1, <1>2
<1>5. item.depth < Len(context)
  BY <1>1, <1>2, <1>3, <1>4 DEF Nested
<1> QED
  BY <1>1, <1>2, <1>3, <1>4, <1>5 DEF Meets

\* It goes on with what is inside the item.
LEMMA ContextGoes ==
  ASSUME NEW root, File(root), NEW item, Meets(item), NEW node, Descend(item, node),
         Goes(root), item.kind \in {"function", "class"} => node \in root..Len(nodes')
  PROVE  /\ context' \in Seq(Pair(root..Len(nodes'))) /\ Len(context') = Width(source', Progress')
         /\ Deeper(context, item, node, context')
<1> DEFINE S == root..Len(nodes')
<1>1. /\ Len(nodes) \in Nat /\ Len(nodes') \in Nat /\ Len(nodes) <= Len(nodes') /\ root \in Nat
      /\ context \in Seq(Pair(root..Len(nodes))) /\ Progress \in Nat
  BY FileIs DEF Goes
<1>2. /\ item \in Item /\ item.depth < Len(context)
      /\ Progress' = Progress + 1 /\ source'[Progress + 1] = item
  BY Zenon DEF Meets
<1>3. context \in Seq(Pair(S))
  <2>1. root..Len(nodes) \subseteq S
    BY <1>1
  <2> HIDE DEF S
  <2>2. Pair(root..Len(nodes)) \subseteq Pair(S)
    BY <2>1 DEF Pair
  <2> QED
    BY <1>1, <2>2, T!WiderSeq
<1> HIDE DEF S
<1>4. context' \in Seq(Pair(S)) /\ Deeper(context, item, node, context')
  BY <1>2, <1>3, DescendIs DEF S
<1>5. Len(context') = Width(source', Progress')
  <2>1. Len(context') = item.depth + (IF item.kind = "import" THEN 1 ELSE 2)
    BY <1>4, Zenon DEF Deeper
  <2> QED
    BY <1>1, <1>2, <2>1 DEF Width
<1> QED
  BY <1>4, <1>5 DEF S

\* What the walk around an item is called with.
LEMMA AroundIs ==
  ASSUME NEW root, File(root), NEW item \in Item, item.depth < Len(context)
  PROVE  Around(item) \in Pair(root..Len(nodes))
         /\ Around(item).container \in root..Len(nodes)
         /\ Around(item).current_fn \in root..Len(nodes)
<1>1. context \in Seq(Pair(root..Len(nodes)))
  BY FileIs
<1>2. item.depth + 1 \in 1..Len(context)
  BY <1>1 DEF Item
<1>3. Around(item) \in Pair(root..Len(nodes))
  BY <1>1, <1>2 DEF Around
<1> QED
  BY <1>3 DEF Pair

\* A definition or an import: one more node.
LEMMA DefineGoes ==
  ASSUME NEW root, File(root), NEW item \in Item, item.kind # "call", Meet(item),
         NEW kind \in {"Function", "Class", "Import"}, AddChild(item, kind),
         name_index' \in [Name -> {0} \cup root..New]
  PROVE  File(root)' /\ Goes(root) /\ Len(nodes') = New
<1> DEFINE m    == Len(nodes)
           p    == Around(item).container
           node == [tree |-> Last(nodes).tree, kind |-> kind]
<1>1. nodes \in Seq(Payload) /\ m \in Nat /\ root \in Nat /\ root \in 1..m
  BY FileIs
<1>2. Meets(item) /\ pass = "Define"
  BY MeetIs
<1>3. p \in root..m
  BY <1>2, AroundIs DEF Meets
<1>4. /\ nodes' = Append(nodes, node)
      /\ Tied(edges, last_sibling, p, New, edges', last_sibling')
      /\ Descend(item, New)
  BY Zenon DEF AddChild, LinkSibling, Tied
<1>5. /\ node \in Payload /\ node.kind # "Module" /\ node.tree = nodes[m].tree
      /\ New = m + 1
  <2>1. Last(nodes) = nodes[m]
    BY DEF Last
  <2>2. nodes[m] \in Payload
    BY <1>1
  <2>3. Last(nodes).tree \in Tree
    BY <2>1, <2>2 DEF Payload
  <2> QED
    BY <2>1, <2>3 DEF Payload, New
<1> HIDE DEF node, p
<1>6. PICK b : Mirrors(b, nodes, edges, last_sibling) /\ T!Open(b, root)
  BY Zenon DEF File
<1>7. Grown(edges, nodes', edges', last_sibling', root)
  <2> DEFINE more == nodes'
             fs == edges'
             sib2 == last_sibling'
             n == New
  <2>1. more = Append(nodes, node) /\ Tied(edges, last_sibling, p, n, fs, sib2)
        /\ n = Len(nodes) + 1 /\ EdgesOK(edges, Len(nodes))
    BY <1>4, <1>5 DEF File
  <2> HIDE DEF more, fs, sib2, n
  <2>2. node.tree = nodes[Len(nodes)].tree /\ p \in root..Len(nodes)
    BY <1>3, <1>5
  <2>3. Grown(edges, more, fs, sib2, root)
    BY <1>5, <1>6, <2>1, <2>2, MirrorGrows, Zenon
  <2> QED
    BY <2>3 DEF more, fs, sib2
<1>8. /\ EdgesOK(edges', Len(nodes')) /\ Spares(edges, edges', root)
      /\ CallsApart(edges, root) => CallsApart(edges', root)
      /\ \E c : Mirrors(c, nodes', edges', last_sibling') /\ T!Open(c, root)
  BY <1>7, Zenon DEF Grown
<1>9. /\ Len(nodes') = m + 1 /\ \A i \in 1..m : nodes'[i] = nodes[i]
  BY <1>1, <1>4
<1>10. Goes(root)
  BY <1>1, <1>8, <1>9 DEF Goes
<1>11. context' \in Seq(Pair(root..Len(nodes'))) /\ Len(context') = Width(source', Progress')
  <2>1. New \in root..Len(nodes')
    BY <1>1, <1>5, <1>9
  <2> QED
    BY <1>2, <1>4, <1>10, <2>1, ContextGoes
<1>12. Walk(root)'
  <2>1. CallsApart(edges, root)
    BY Zenon DEF File, Walk
  <2>2. name_index' \in [Name -> {0} \cup root..Len(nodes')]
    BY <1>5, <1>9
  <2> QED
    BY <1>8, <1>11, <2>1, <2>2, Zenon DEF Walk
<1>13. File(root)'
  <2>1. root \in 1..Len(nodes')
    BY <1>1, <1>9
  <2> QED
    BY <1>2, <1>8, <1>12, <2>1, Zenon DEF File, Meets
<1> QED
  BY <1>5, <1>9, <1>10, <1>13

\* A step of the walk that adds no node.
LEMMA WalkGoes ==
  ASSUME NEW root, File(root), NEW item, Meets(item), NEW node, Descend(item, node),
         item.kind \in {"function", "class"} => node \in root..Len(nodes),
         UNCHANGED <<nodes, name_index, last_sibling>>,
         Spares(edges, edges', root), EdgesOK(edges', Len(nodes)), CallsApart(edges', root),
         \E b : Mirrors(b, nodes, edges', last_sibling) /\ T!Open(b, root)
  PROVE  File(root)' /\ Goes(root)
<1>1. Len(nodes) \in Nat /\ nodes' = nodes /\ name_index' = name_index /\ last_sibling' = last_sibling
  BY FileIs
<1>2. Goes(root)
  BY <1>1 DEF Goes
<1>3. context' \in Seq(Pair(root..Len(nodes'))) /\ Len(context') = Width(source', Progress')
  BY <1>1, <1>2, ContextGoes
<1>4. name_index \in [Name -> {0} \cup root..Len(nodes)]
  BY FileIs
<1>5. Walk(root)'
  BY <1>1, <1>3, <1>4, Zenon DEF Walk
<1>6. File(root)'
  <2>1. root \in 1..Len(nodes') /\ pass \in {"Define", "Link"}
    BY <1>1, FileIs
  <2>2. /\ EdgesOK(edges', Len(nodes'))
        /\ \E b : Mirrors(b, nodes', edges', last_sibling') /\ T!Open(b, root)
    BY <1>1
  <2> QED
    BY <1>5, <2>1, <2>2, Zenon DEF File, Meets
<1> QED
  BY <1>2, <1>6

LEMMA PassCallGoes ==
  ASSUME NEW root, File(root), NEW item \in Item, PassCall(item)
  PROVE  File(root)' /\ Goes(root)
<1>1. /\ item.kind = "call" /\ Meet(item) /\ Descend(item, New)
      /\ UNCHANGED <<nodes, edges, name_index, last_sibling>>
  BY Zenon DEF PassCall
<1>2. Meets(item)
  BY <1>1, MeetIs
<1>3. Spares(edges, edges', root) /\ edges' = edges
  BY <1>1 DEF Spares
<1>4. /\ EdgesOK(edges, Len(nodes)) /\ CallsApart(edges, root)
      /\ \E b : Mirrors(b, nodes, edges, last_sibling) /\ T!Open(b, root)
  BY Zenon DEF File, Walk
<1> QED
  BY <1>1, <1>2, <1>3, <1>4, WalkGoes

LEMMA LinkInsideGoes ==
  ASSUME NEW root, File(root), NEW item, LinkInside(item)
  PROVE  File(root)' /\ Goes(root)
<1> DEFINE found == name_index[item.name]
           none  == IF item.kind = "function" THEN Around(item).current_fn
                    ELSE Around(item).container
           node  == IF found # 0 THEN found ELSE none
<1>1. Revisit(item) /\ Descend(item, node) /\ edges' = edges
  BY Zenon DEF LinkInside
<1>2. Meets(item) /\ UNCHANGED <<nodes, name_index, last_sibling>>
  BY <1>1, RevisitIs DEF Revisit
<1>3. item \in Item /\ item.depth < Len(context)
  BY <1>2 DEF Meets
<1>4. node \in root..Len(nodes)
  <2>1. found \in {0} \cup root..Len(nodes)
    BY <1>3, FileIs DEF Item
  <2>2. none \in root..Len(nodes)
    BY <1>3, AroundIs
  <2> QED
    BY <2>1, <2>2
<1> HIDE DEF node
<1>5. Spares(edges, edges', root)
  BY <1>1 DEF Spares
<1>6. /\ EdgesOK(edges, Len(nodes)) /\ CallsApart(edges, root)
      /\ \E b : Mirrors(b, nodes, edges, last_sibling) /\ T!Open(b, root)
  BY Zenon DEF File, Walk
<1> QED
  BY <1>1, <1>2, <1>4, <1>5, <1>6, WalkGoes

LEMMA LinkCallGoes ==
  ASSUME NEW root, File(root), NEW item, LinkCall(item)
  PROVE  File(root)' /\ Goes(root)
<1> DEFINE target == name_index[item.name]
           q == Around(item).current_fn
<1>1. /\ Revisit(item) /\ Descend(item, 0) /\ item.kind = "call"
      /\ edges' = IF target = 0 THEN edges ELSE BagAdd(edges, Edge(q, target, "Calls"))
  BY Zenon DEF LinkCall
<1>2. Meets(item) /\ UNCHANGED <<nodes, name_index, last_sibling>>
  BY <1>1, RevisitIs DEF Revisit
<1>3. item \in Item /\ item.depth < Len(context)
  BY <1>2 DEF Meets
<1>4. target \in {0} \cup root..Len(nodes) /\ q \in root..Len(nodes) /\ root \in 1..Len(nodes)
  BY <1>3, FileIs, AroundIs DEF Item
<1> HIDE DEF target, q
<1>5. /\ EdgesOK(edges, Len(nodes)) /\ CallsApart(edges, root)
      /\ \E b : Mirrors(b, nodes, edges, last_sibling) /\ T!Open(b, root)
  BY Zenon DEF File, Walk
<1>6. /\ Spares(edges, edges', root) /\ EdgesOK(edges', Len(nodes)) /\ CallsApart(edges', root)
      /\ \E b : Mirrors(b, nodes, edges', last_sibling) /\ T!Open(b, root)
  <2>1. CASE target = 0
    <3>1. edges' = edges
      BY <1>1, <2>1
    <3> QED
      BY <1>5, <3>1, Zenon DEF Spares
  <2>2. CASE target # 0
    <3>1. target \in root..Len(nodes)
      BY <1>4, <2>2
    <3>2. PICK b : Mirrors(b, nodes, edges, last_sibling) /\ T!Open(b, root)
      BY <1>5
    <3> DEFINE fs == edges'
    <3>3. fs = BagAdd(edges, Edge(q, target, "Calls"))
      BY <1>1, <2>2
    <3> HIDE DEF fs
    <3>4. /\ EdgesOK(fs, Len(nodes)) /\ Spares(edges, fs, root) /\ CallsApart(fs, root)
          /\ Mirrors(b, nodes, fs, last_sibling)
      BY <1>4, <1>5, <3>1, <3>2, <3>3, MirrorCalls, Zenon
    <3> QED
      BY <3>2, <3>4 DEF fs
  <2> QED
    BY <2>1, <2>2
<1> QED
  BY <1>1, <1>2, <1>6, WalkGoes

\* The second walk starts.
LEMMA StartLinkGoes ==
  ASSUME NEW root, File(root), StartLink
  PROVE  File(root)' /\ Goes(root)
<1>1. /\ pass = "Define" /\ pass' = "Link" /\ context' = SubSeq(context, 1, 1)
      /\ UNCHANGED <<nodes, edges, name_index, last_sibling, source, next>> /\ next = 1
      /\ Nested(source)
  BY Zenon DEF StartLink, File
<1>2. /\ context \in Seq(Pair(root..Len(nodes))) /\ Len(context) = Width(source, Progress)
      /\ Progress \in 0..Len(source) /\ source \in Seq(Item) /\ Len(source) \in Nat
  BY FileIs
<1>3. Len(context) >= 1
  <2>1. CASE Progress = 0
    BY <1>2, <2>1 DEF Width
  <2>2. CASE Progress # 0
    <3>1. source[Progress] \in Item
      BY <1>2, <2>2
    <3> QED
      BY <1>2, <2>2, <3>1 DEF Width, Item
  <2> QED
    BY <2>1, <2>2
<1>4. context' \in Seq(Pair(root..Len(nodes))) /\ Len(context') = 1
  BY <1>1, <1>2, <1>3
<1>5. Progress' = 0 /\ Width(source', Progress') = 1
  BY <1>1 DEF Progress, Width
<1>6. Walk(root)'
  <2>1. name_index \in [Name -> {0} \cup root..Len(nodes)] /\ CallsApart(edges, root)
    BY Zenon DEF File, Walk
  <2> QED
    BY <1>1, <1>4, <1>5, <2>1 DEF Walk
<1>7. File(root)'
  BY <1>1, <1>6 DEF File
<1> QED
  BY <1>1, <1>7, NothingAdded

\* A new file.
LEMMA IngestStarts ==
  ASSUME Idle, NEW tree \in Tree, Ingest(tree), NEW n, n = New
  PROVE  File(n)' /\ Goes(n) /\ edges' = edges /\ n = Len(nodes) + 1
<1> DEFINE more == nodes'
           sib2 == last_sibling'
<1>1. PICK b : Mirrors(b, nodes, edges, last_sibling)
  BY Zenon DEF Idle
<1>2. /\ pass = "none" /\ source = <<>> /\ next = 1 /\ name_index = [x \in Name |-> 0]
      /\ EdgesOK(edges, Len(nodes))
  BY Zenon DEF Idle
<1>3. /\ more = Append(nodes, [tree |-> tree, kind |-> "Module"])
      /\ sib2 = [i \in 1..n |-> 0] /\ pass' = "Define"
      /\ context' = <<[container |-> n, current_fn |-> n]>>
      /\ UNCHANGED <<edges, name_index, source, next>>
  BY Zenon DEF Ingest
<1>4. nodes \in Seq(Payload) /\ n = Len(nodes) + 1 /\ Len(nodes) \in Nat
  <2>1. nodes \in Seq(Payload)
    BY <1>1, Zenon DEF Mirrors
  <2> QED
    BY <2>1 DEF New
<1>5. /\ EdgesOK(edges, Len(more)) /\ Len(more) = n /\ CallsApart(edges, n)
      /\ \E c : Mirrors(c, more, edges, sib2) /\ T!Open(c, n)
  <2> HIDE DEF more, sib2
  <2>1. Planted(edges, more, sib2, n)
    BY <1>1, <1>2, <1>3, <1>4, MirrorRoot, Zenon
  <2> QED
    BY <2>1, Zenon DEF Planted
<1>6. \A i \in 1..Len(nodes) : more[i] = nodes[i]
  BY <1>3, <1>4
<1>7. context' \in Seq(Pair(n..n)) /\ Len(context') = 1
  <2>1. [container |-> n, current_fn |-> n] \in Pair(n..n)
    BY <1>4 DEF Pair
  <2> QED
    BY <1>3, <2>1
<1>8. Progress' = 0 /\ Width(source', Progress') = 1
  BY <1>2, <1>3 DEF Progress, Width
<1>9. Walk(n)'
  <2>1. name_index' \in [Name -> {0} \cup n..Len(nodes')]
    BY <1>2, <1>3
  <2>2. context' \in Seq(Pair(n..Len(nodes'))) /\ CallsApart(edges', n)
    BY <1>3, <1>5, <1>7
  <2> QED
    BY <1>7, <1>8, <2>1, <2>2, Zenon DEF Walk
<1>10. File(n)'
  <2>1. /\ source' = <<>> /\ next' = 1 /\ pass' = "Define" /\ edges' = edges
        /\ n \in 1..Len(nodes')
    BY <1>2, <1>3, <1>4, <1>5
  <2>2. source' \in Seq(Item) /\ Nested(source') /\ next' \in 1..(Len(source') + 1)
    BY <2>1 DEF Nested
  <2>3. /\ EdgesOK(edges', Len(nodes'))
        /\ \E c : Mirrors(c, nodes', edges', last_sibling') /\ T!Open(c, n)
    BY <1>5, <2>1
  <2> QED
    BY <1>9, <2>1, <2>2, <2>3, Zenon DEF File
<1>11. Goes(n)
  <2>1. Spares(edges, edges', n)
    BY <1>3, Zenon DEF Spares
  <2> QED
    BY <1>4, <1>5, <1>6, <2>1 DEF Goes
<1> QED
  BY <1>3, <1>4, <1>10, <1>11

\* The call returns.
LEMMA ReturnEnds ==
  ASSUME NEW root, File(root), Return
  PROVE  Idle' /\ Goes(root) /\ nodes' = nodes /\ edges' = edges
<1>1. /\ pass' = "none" /\ context' = <<>> /\ source' = <<>> /\ next' = 1
      /\ name_index' = [n \in Name |-> 0] /\ last_sibling' = [n \in 1..Len(nodes) |-> 0]
      /\ nodes' = nodes /\ edges' = edges
  BY Zenon DEF Return, NodeId
<1>2. PICK b : Mirrors(b, nodes, edges, last_sibling)
  BY Zenon DEF File
<1>3. \E c : Mirrors(c, nodes', edges', last_sibling')
  <2> DEFINE zeros == last_sibling'
  <2>1. zeros = [n \in 1..Len(nodes) |-> 0]
    BY <1>1
  <2> HIDE DEF zeros
  <2>2. \E c : Mirrors(c, nodes, edges, zeros)
    BY <1>2, <2>1, MirrorRests, Zenon
  <2> QED
    BY <1>1, <2>2 DEF zeros
<1>4. EdgesOK(edges', Len(nodes'))
  BY <1>1 DEF File
<1> QED
  BY <1>1, <1>3, <1>4, NothingAdded, Zenon DEF Idle

\* A step of the call that is going on.
LEMMA FileGoes ==
  ASSUME NEW root, File(root), Next
  PROVE  Goes(root) /\ (File(root)' \/ (Idle' /\ nodes' = nodes /\ edges' = edges))
<1>1. pass # "none"
  BY FileIs
<1>2. ASSUME NEW item \in Item, Define(item)
      PROVE  File(root)' /\ Goes(root)
  <2> DEFINE kind == IF item.kind = "function" THEN "Function" ELSE "Class"
  <2>1. /\ item.kind \in {"function", "class"} /\ Meet(item) /\ AddChild(item, kind)
        /\ name_index' = [name_index EXCEPT ![item.name] = New]
    BY <1>2, Zenon DEF Define
  <2>2. name_index' \in [Name -> {0} \cup root..New]
    <3>1. /\ name_index \in [Name -> {0} \cup root..Len(nodes)] /\ Len(nodes) \in Nat
          /\ root \in 1..Len(nodes)
      BY FileIs
    <3>2. /\ {0} \cup root..Len(nodes) \subseteq {0} \cup root..New
          /\ New \in {0} \cup root..New
      BY <3>1 DEF New
    <3> QED
      BY <2>1, <3>1, <3>2
  <2>3. kind \in {"Function", "Class", "Import"} /\ item.kind # "call"
    BY <2>1
  <2> QED
    BY <2>1, <2>2, <2>3, DefineGoes, Zenon
<1>3. ASSUME NEW item \in Item, DefineImport(item)
      PROVE  File(root)' /\ Goes(root)
  <2>1. /\ item.kind = "import" /\ Meet(item) /\ AddChild(item, "Import")
        /\ name_index' = name_index
    BY <1>3, Zenon DEF DefineImport
  <2>2. name_index' \in [Name -> {0} \cup root..New]
    <3>1. name_index \in [Name -> {0} \cup root..Len(nodes)] /\ Len(nodes) \in Nat
          /\ root \in 1..Len(nodes)
      BY FileIs
    <3>2. {0} \cup root..Len(nodes) \subseteq {0} \cup root..New
      BY <3>1 DEF New
    <3> QED
      BY <2>1, <3>1, <3>2
  <2>3. "Import" \in {"Function", "Class", "Import"} /\ item.kind # "call"
    BY <2>1
  <2> QED
    BY <2>1, <2>2, <2>3, DefineGoes, Zenon
<1>4. ASSUME NEW item \in Item, PassCall(item)
      PROVE  File(root)' /\ Goes(root)
  BY <1>4, PassCallGoes, Zenon
<1>5. ASSUME NEW kind \in ItemKind, NEW name \in Name, NEW depth \in 0..Len(context)
      PROVE  [kind |-> kind, name |-> name, depth |-> depth] \in Item
  <2>1. depth \in Nat
    BY FileIs
  <2> QED
    BY <2>1 DEF Item
<1>6. ASSUME NEW kind \in ItemKind, NEW name \in Name, NEW depth \in 0..Len(context),
             LET item == [kind |-> kind, name |-> name, depth |-> depth]
             IN  Define(item) \/ DefineImport(item) \/ PassCall(item)
      PROVE  File(root)' /\ Goes(root)
  BY <1>2, <1>3, <1>4, <1>5, <1>6, Zenon
<1>7. ASSUME NEW item, LinkInside(item) \/ LinkCall(item)
      PROVE  File(root)' /\ Goes(root)
  BY <1>7, LinkInsideGoes, LinkCallGoes, Zenon
<1>8. ASSUME NEW tree, Ingest(tree)
      PROVE  FALSE
  BY <1>1, <1>8, Zenon DEF Ingest
<1> QED
  BY <1>6, <1>7, <1>8, StartLinkGoes, ReturnEnds, Zenon DEF Next

\* Between two calls there is nothing but a new one.
LEMMA IdleStarts ==
  ASSUME Idle, Next
  PROVE  \E tree \in Tree : Ingest(tree)
<1>1. pass = "none"
  BY Zenon DEF Idle
<1>2. ASSUME NEW item, Meet(item) \/ Revisit(item) \/ StartLink \/ Return
      PROVE  FALSE
  BY <1>1, <1>2 DEF Meet, Revisit, StartLink, Return
<1> QED
  BY <1>2, ZenonT(60) DEF Next, Define, DefineImport, PassCall, LinkInside, LinkCall

LEMMA CodeInvInductive ==
  /\ Init => CodeInv
  /\ CodeInv /\ [Next]_vars => CodeInv'
<1>1. ASSUME Init
      PROVE  CodeInv
  <2>1. /\ nodes = <<>> /\ edges = EmptyBag /\ source = <<>> /\ pass = "none" /\ next = 1
        /\ context = <<>> /\ name_index = [n \in Name |-> 0] /\ last_sibling = <<>>
    BY <1>1 DEF Init
  <2>2. DOMAIN edges = {} /\ edges = [e \in {} |-> edges[e]]
    BY <2>1 DEF EmptyBag, SetToBag
  <2>3. EdgesOK(edges, Len(nodes))
    BY <2>2 DEF EdgesOK, IsMap
  <2> DEFINE b == [nodes |-> <<>>, edges |-> <<>>, last_sibling |-> <<>>]
  <2>4. b.nodes = <<>> /\ b.edges = <<>> /\ b.last_sibling = <<>>
        /\ b = [nodes |-> b.nodes, edges |-> b.edges, last_sibling |-> b.last_sibling]
    BY Zenon
  <2> HIDE DEF b
  <2>5. T!Range(b.edges) = {}
    BY <2>4 DEF T!Range
  <2>6. T!BuildOK(b)
    <3>1. <<>> \in [1..0 -> 0..0]
      OBVIOUS
    <3> QED
      BY <2>4, <3>1 DEF T!BuildOK
  <2>7. T!Tidy(b)
    <3>1. T!OneParent(b) /\ T!Chained(b)
      BY <2>4 DEF T!OneParent, T!Chained
    <3>2. T!Forward(b)
      BY <2>5 DEF T!Forward
    <3>3. T!IsInjective(b.edges)
      BY <2>4 DEF T!IsInjective
    <3> QED
      BY <3>1, <3>2, <3>3, Zenon DEF T!Tidy
  <2>8. Mirrors(b, nodes, edges, last_sibling)
    BY <2>1, <2>2, <2>4, <2>5, <2>6, <2>7 DEF Mirrors
  <2>9. Idle
    BY <2>1, <2>3, <2>8, Zenon DEF Idle
  <2> QED
    BY <2>9 DEF CodeInv
<1>2. ASSUME CodeInv, UNCHANGED vars
      PROVE  CodeInv'
  <2>1. /\ nodes' = nodes /\ edges' = edges /\ name_index' = name_index
        /\ last_sibling' = last_sibling /\ source' = source /\ pass' = pass /\ next' = next
        /\ context' = context
    BY <1>2 DEF vars
  <2>2. CASE Idle
    <3>1. Idle'
      BY <2>1, <2>2, Zenon DEF Idle
    <3> QED
      BY <3>1 DEF CodeInv
  <2>3. ASSUME NEW root, File(root)
        PROVE  CodeInv'
    <3>1. Progress' = Progress
      BY <2>1 DEF Progress
    <3>2. Walk(root)'
      BY <2>1, <2>3, <3>1, Zenon DEF Walk, File
    <3>3. File(root)'
      BY <2>1, <2>3, <3>2, Zenon DEF File
    <3> QED
      BY <3>3, Zenon DEF CodeInv
  <2> QED
    BY <1>2, <2>2, <2>3 DEF CodeInv
<1>3. ASSUME CodeInv, Next
      PROVE  CodeInv'
  <2>1. CASE Idle
    <3>1. PICK tree \in Tree : Ingest(tree)
      BY <1>3, <2>1, IdleStarts
    <3>2. PICK n : n = New
      BY Zenon
    <3>3. File(n)'
      BY <2>1, <3>1, <3>2, IngestStarts, Zenon
    <3> QED
      BY <3>3, Zenon DEF CodeInv
  <2>2. ASSUME NEW root, File(root)
        PROVE  CodeInv'
    <3>1. File(root)' \/ Idle'
      BY <1>3, <2>2, FileGoes, Zenon
    <3> QED
      BY <3>1, Zenon DEF CodeInv
  <2> QED
    BY <1>3, <2>1, <2>2 DEF CodeInv
<1> QED
  BY <1>1, <1>2, <1>3

\* The inductive invariant.
THEOREM CodeInvariant == Spec => []CodeInv
<1>1. Init => CodeInv
  BY CodeInvInductive
<1>2. CodeInv /\ [Next]_vars => CodeInv'
  BY CodeInvInductive
<1> QED
  BY <1>1, <1>2, PTL DEF Spec


-----------------------------------------------------------------------------
\* Types and siblings.

LEMMA InvMirrors ==
  ASSUME CodeInv
  PROVE  /\ EdgesOK(edges, Len(nodes)) /\ nodes \in Seq(Payload) /\ Len(nodes) \in Nat
         /\ \E b : Mirrors(b, nodes, edges, last_sibling)
<1>1. EdgesOK(edges, Len(nodes)) /\ \E b : Mirrors(b, nodes, edges, last_sibling)
  BY Zenon DEF CodeInv, Idle, File
<1>2. nodes \in Seq(Payload)
  BY <1>1, Zenon DEF Mirrors
<1> QED
  BY <1>1, <1>2

LEMMA InvTypes ==
  ASSUME CodeInv
  PROVE  TypeOK
<1>1. /\ EdgesOK(edges, Len(nodes)) /\ nodes \in Seq(Payload) /\ Len(nodes) \in Nat
  BY InvMirrors
<1>2. BagToSet(edges) \subseteq EdgeKey
  BY <1>1 DEF EdgesOK, KeysOn, BagToSet, EdgeKey, NodeId
<1>3. 0..Len(nodes) = NodeId \cup {0}
  BY <1>1 DEF NodeId
<1>4. last_sibling \in [NodeId -> NodeId \cup {0}]
  <2>1. PICK b : Mirrors(b, nodes, edges, last_sibling)
    BY InvMirrors
  <2>2. last_sibling \in [1..Len(nodes) -> 0..Len(nodes)]
    BY <2>1, Zenon DEF Mirrors, T!BuildOK
  <2> QED
    BY <1>3, <2>2 DEF NodeId
<1>5. CASE Idle
  <2>1. /\ pass = "none" /\ source = <<>> /\ next = 1 /\ context = <<>>
        /\ name_index = [n \in Name |-> 0]
    BY <1>5, Zenon DEF Idle
  <2> QED
    BY <1>1, <1>2, <1>4, <2>1 DEF TypeOK
<1>6. ASSUME NEW root, File(root)
      PROVE  TypeOK
  <2>1. /\ root \in Nat /\ root \in 1..Len(nodes) /\ source \in Seq(Item)
        /\ pass \in {"Define", "Link"} /\ next \in 1..(Len(source) + 1)
        /\ context \in Seq(Pair(root..Len(nodes)))
        /\ name_index \in [Name -> {0} \cup root..Len(nodes)]
    BY <1>6, FileIs
  <2>2. root..Len(nodes) \subseteq NodeId
    BY <1>1, <2>1 DEF NodeId
  <2>3. Pair(root..Len(nodes)) \subseteq [container : NodeId, current_fn : NodeId]
    BY <2>2 DEF Pair
  <2>4. context \in Seq([container : NodeId, current_fn : NodeId])
    BY <2>1, <2>3, T!WiderSeq, ZenonT(60)
  <2>5. name_index \in [Name -> NodeId \cup {0}]
    <3>1. {0} \cup root..Len(nodes) \subseteq NodeId \cup {0}
      BY <2>2
    <3> QED
      BY <2>1, <3>1
  <2> QED
    BY <1>1, <1>2, <1>4, <2>1, <2>4, <2>5 DEF TypeOK
<1> QED
  BY <1>5, <1>6 DEF CodeInv

\* Every variable has its type.
THEOREM TypeCorrect == Spec => []TypeOK
BY CodeInvariant, InvTypes, PTL

LEMMA InvSiblings ==
  ASSUME CodeInv
  PROVE  SiblingsAreChained
<1> DEFINE children(p) == {e.dst : e \in {x \in Of("Contains") : x.src = p}}
           after(p, c) == {d \in children(p) : d > c}
<1>1. PICK b : Mirrors(b, nodes, edges, last_sibling)
  BY InvMirrors
<1>2. /\ T!BuildOK(b) /\ T!Chained(b) /\ Len(b.nodes) = Len(nodes)
      /\ \A e : e \in T!Range(b.edges) <=> e \in DOMAIN edges /\ e.kind # "Calls"
  BY <1>1, Zenon DEF Mirrors, T!Tidy
<1>3. \A e \in DOMAIN edges : /\ e = Edge(e.src, e.dst, e.kind)
                              /\ e.kind # "Calls" => edges[e] = 1
  <2>1. \A e \in DOMAIN edges : /\ e \in KeysOn(Len(nodes))
                                /\ e.kind # "Calls" => edges[e] = 1
    BY InvMirrors DEF EdgesOK
  <2> QED
    BY <2>1 DEF KeysOn, Edge
<1>4. /\ \A p, c : T!Child(b, p, c) <=> Edge(p, c, "Contains") \in DOMAIN edges
      /\ \A p, c : T!Linked(b, p, c) <=> Edge(p, c, "Precedes") \in DOMAIN edges
  <2>1. \A p, c : /\ T!Edge(p, c, "Contains") = Edge(p, c, "Contains")
                  /\ T!Edge(p, c, "Precedes") = Edge(p, c, "Precedes")
                  /\ Edge(p, c, "Contains").kind # "Calls"
                  /\ Edge(p, c, "Precedes").kind # "Calls"
    BY DEF Edge, T!Edge
  <2> QED
    BY <1>2, <2>1 DEF T!Child, T!Linked
<1>5. \A p, c : T!Child(b, p, c) => c \in NodeId
  <2>1. {} \subseteq T!AnyLine
    OBVIOUS
  <2> QED
    BY <1>2, <2>1, T!EdgesAreTyped, Zenon DEF NodeId
<1>6. \A p, c : c \in children(p) <=> T!Child(b, p, c)
  <2> TAKE p, c
  <2>1. ASSUME c \in children(p)
        PROVE  T!Child(b, p, c)
    <3>1. PICK e \in Of("Contains") : e.src = p /\ c = e.dst
      BY <2>1
    <3>2. e \in DOMAIN edges /\ e.kind = "Contains"
      BY <3>1 DEF Of, BagToSet
    <3>3. e = Edge(p, c, "Contains")
      BY <1>3, <3>1, <3>2
    <3> QED
      BY <1>4, <3>2, <3>3
  <2>2. ASSUME T!Child(b, p, c)
        PROVE  c \in children(p)
    <3>1. Edge(p, c, "Contains") \in Of("Contains")
      BY <1>4, <2>2 DEF Of, BagToSet, Edge
    <3> QED
      BY <3>1 DEF Edge
  <2> QED
    BY <2>1, <2>2
<1>7. \A p, c : after(p, c) = T!Later(b, p, c)
  <2> TAKE p, c
  <2>1. \A d : d > c <=> c < d
    OBVIOUS
  <2> HIDE DEF children
  <2>2. \A d : d \in after(p, c) <=> d \in T!Later(b, p, c)
    BY <1>2, <1>5, <1>6, <2>1 DEF T!Later, NodeId
  <2> HIDE DEF after
  <2> QED
    BY <2>2
<1> HIDE DEF children, after
<1>8. \A c, d : T!Linked(b, c, d) <=> \E p \in NodeId : /\ T!Child(b, p, c) /\ after(p, c) # {}
                                                        /\ d = Min(after(p, c))
  <2>1. \A c, d : T!Linked(b, c, d) <=> \E p \in 1..Len(b.nodes) :
                                          /\ T!Child(b, p, c) /\ T!Later(b, p, c) # {}
                                          /\ d = T!Min(T!Later(b, p, c))
    <3>1. {} \subseteq T!AnyLine
      OBVIOUS
    <3> QED
      BY <1>2, <3>1, T!ChainIs, Zenon
  <2>2. \A S : T!Min(S) = Min(S)
    BY DEF T!Min, Min
  <2> QED
    BY <1>2, <1>7, <2>1, <2>2, Zenon DEF NodeId
<1> DEFINE pairs(p) == {Edge(c, Min(after(p, c)), "Precedes") :
                          c \in {x \in children(p) : after(p, x) # {}}}
           all == UNION {pairs(p) : p \in NodeId}
<1>9. \A e : e \in Of("Precedes") <=> \E c, d : e = Edge(c, d, "Precedes") /\ T!Linked(b, c, d)
  <2> TAKE e
  <2>1. ASSUME e \in Of("Precedes")
        PROVE  \E c, d : e = Edge(c, d, "Precedes") /\ T!Linked(b, c, d)
    <3>1. e \in DOMAIN edges /\ e.kind = "Precedes"
      BY <2>1 DEF Of, BagToSet
    <3>2. e = Edge(e.src, e.dst, "Precedes")
      BY <1>3, <3>1
    <3>3. T!Linked(b, e.src, e.dst)
      BY <1>4, <3>1, <3>2
    <3> QED
      BY <3>2, <3>3
  <2>2. ASSUME NEW c, NEW d, e = Edge(c, d, "Precedes"), T!Linked(b, c, d)
        PROVE  e \in Of("Precedes")
    BY <1>4, <2>2 DEF Of, BagToSet, Edge
  <2> QED
    BY <2>1, <2>2
<1>10. \A e : e \in all <=> \E p \in NodeId : \E c : /\ T!Child(b, p, c) /\ after(p, c) # {}
                                                     /\ e = Edge(c, Min(after(p, c)), "Precedes")
  <2>1. \A p, e : e \in pairs(p) <=> \E c : /\ T!Child(b, p, c) /\ after(p, c) # {}
                                            /\ e = Edge(c, Min(after(p, c)), "Precedes")
    BY <1>6
  <2> HIDE DEF pairs
  <2> QED
    BY <2>1
<1> HIDE DEF all
<1>11. Of("Precedes") = all
  <2>1. ASSUME NEW e, e \in Of("Precedes")
        PROVE  e \in all
    <3>1. PICK c, d : e = Edge(c, d, "Precedes") /\ T!Linked(b, c, d)
      BY <1>9, <2>1, Zenon
    <3>2. PICK p \in NodeId : T!Child(b, p, c) /\ after(p, c) # {} /\ d = Min(after(p, c))
      BY <1>8, <3>1, Zenon
    <3> QED
      BY <1>10, <3>1, <3>2, Zenon
  <2>2. ASSUME NEW e, e \in all
        PROVE  e \in Of("Precedes")
    <3>1. PICK p \in NodeId : \E c : /\ T!Child(b, p, c) /\ after(p, c) # {}
                                      /\ e = Edge(c, Min(after(p, c)), "Precedes")
      BY <1>10, <2>2, Zenon
    <3>2. PICK c : T!Child(b, p, c) /\ after(p, c) # {} /\ e = Edge(c, Min(after(p, c)), "Precedes")
      BY <3>1
    <3>3. T!Linked(b, c, Min(after(p, c)))
      BY <1>8, <3>2, Zenon
    <3> QED
      BY <1>9, <3>2, <3>3, Zenon
  <2> QED
    BY <2>1, <2>2
<1>12. \A e \in Of("Contains") \cup Of("Precedes") : edges[e] = 1
  <2>1. \A e \in Of("Contains") \cup Of("Precedes") : e \in DOMAIN edges /\ e.kind # "Calls"
    BY DEF Of, BagToSet
  <2> QED
    BY <1>3, <2>1
<1> QED
  BY <1>11, <1>12, Zenon DEF SiblingsAreChained, all, pairs, after, children

\* The children of a node form one chain in the order of the source, with edges
\* that are added once (link_sibling).
THEOREM SiblingsStayChained == Spec => []SiblingsAreChained
BY CodeInvariant, InvSiblings, PTL


-----------------------------------------------------------------------------
\* One more tree for each file.

\* What a host sees while only the first k nodes are there.
Names(k) == [n \in 1..k |-> nodes[n].tree]
Kept(k) == {e \in BagToSet(edges) : e.src \in 1..k}

OutNodes == [n \in Before |-> nodes[n].tree]
OutEdges == {e \in BagToSet(edges) : e.src \in Before}

\* The root of the file that is walked is the last node that is a Module.
LEMMA RootIsMax ==
  ASSUME NEW root, File(root)
  PROVE  Root = root
<1>1. Len(nodes) \in Nat /\ root \in Nat /\ root \in 1..Len(nodes)
  BY FileIs
<1>2. PICK b : Mirrors(b, nodes, edges, last_sibling) /\ T!Open(b, root)
  BY Zenon DEF File
<1>3. /\ Len(b.nodes) = Len(nodes)
      /\ \A n \in 1..Len(nodes) : b.nodes[n].kind = "Document" <=> nodes[n].kind = "Module"
  BY <1>2, Zenon DEF Mirrors
<1>4. /\ b.nodes[root].kind = "Document"
      /\ \A n \in (root + 1)..Len(b.nodes) : b.nodes[n].kind # "Document"
  BY <1>2, Zenon DEF T!Open, T!LastTree
<1> DEFINE M == {n \in NodeId : nodes[n].kind = "Module"}
<1>5. root \in M /\ M \in SUBSET Nat
  BY <1>1, <1>3, <1>4 DEF NodeId
<1>6. \A n \in M : n <= root
  <2> TAKE n \in M
  <2>1. n \in 1..Len(nodes) /\ nodes[n].kind = "Module"
    BY DEF NodeId
  <2>2. ~ (n <= root) => n \in (root + 1)..Len(b.nodes)
    BY <1>1, <1>3, <2>1
  <2> QED
    BY <1>3, <1>4, <2>1, <2>2, Zenon
<1> HIDE DEF M
<1>7. Max(M) = root
  BY <1>5, <1>6, MaxIs
<1> QED
  BY <1>7 DEF Root, M

\* Only files that are complete are seen.
Shown(k) == OutNodes = Names(k) /\ OutEdges = Kept(k)

ShownIsComplete ==
  /\ Idle => Shown(Len(nodes))
  /\ \A root : File(root) => Shown(root - 1)

LEMMA AllShown == ShownIsComplete
<1>1. \A k : Before = 1..k => Shown(k)
  BY Zenon DEF Shown, OutNodes, OutEdges, Names, Kept
<1>2. Idle => Before = 1..Len(nodes)
  BY DEF Idle, Before, NodeId
<1>3. \A root : File(root) => Before = 1..(root - 1)
  <2> TAKE root
  <2> HAVE File(root)
  <2>1. pass # "none"
    BY FileIs
  <2>2. Root = root
    BY RootIsMax
  <2> QED
    BY <2>1, <2>2 DEF Before
<1> QED
  BY <1>1, <1>2, <1>3, Zenon DEF ShownIsComplete

LEMMA AllShownNext == ShownIsComplete'
BY AllShown, PTL

\* The nodes and edges below the root are not touched.
LEMMA SameBelow ==
  ASSUME NEW root \in Nat \ {0}, root <= Len(nodes) + 1, Goes(root)
  PROVE  Names(root - 1)' = Names(root - 1) /\ Kept(root - 1)' = Kept(root - 1)
<1>1. /\ Len(nodes) \in Nat /\ \A i \in 1..Len(nodes) : nodes'[i] = nodes[i]
      /\ \A e : e \in DOMAIN edges => e \in DOMAIN edges'
      /\ \A e : e \in DOMAIN edges' /\ e.src < root => e \in DOMAIN edges
  BY Zenon DEF Goes, Spares
<1>2. \A i \in 1..(root - 1) : i \in 1..Len(nodes) /\ i < root
  BY <1>1
<1>3. Names(root - 1)' = Names(root - 1)
  BY <1>1, <1>2 DEF Names
<1>4. \A e : e \in Kept(root - 1)' <=> e \in Kept(root - 1)
  BY <1>1, <1>2 DEF Kept, BagToSet
<1> QED
  BY <1>3, <1>4

\* A file that is complete is one more tree; calls are inside it.
LEMMA FileAdded ==
  ASSUME NEW root, File(root)
  PROVE  \E tree \in Tree :
           T!Ingested(Names(root - 1), Kept(root - 1), Names(Len(nodes)), Kept(Len(nodes)), tree)
<1> DEFINE k  == root - 1
           m  == Len(nodes)
           ns == Names(k)
           es == Kept(k)
           ms == Names(m)
           fs == Kept(m)
<1>1. m \in Nat /\ root \in Nat /\ root \in 1..m /\ k \in Nat /\ nodes \in Seq(Payload)
  BY FileIs
<1>2. PICK b : Mirrors(b, nodes, edges, last_sibling) /\ T!Open(b, root)
  BY Zenon DEF File
<1>3. /\ T!BuildOK(b) /\ T!Tidy(b) /\ Len(b.nodes) = m
      /\ \A n \in 1..m : b.nodes[n].tree = nodes[n].tree
      /\ \A e : e \in T!Range(b.edges) <=> e \in DOMAIN edges /\ e.kind # "Calls"
  BY <1>2, Zenon DEF Mirrors
<1>4. T!Leaves(b, b, root)
  <2>1. T!Bigger(b, b)
    BY <1>1, <1>3 DEF T!Bigger
  <2> QED
    BY <2>1, Zenon DEF T!Leaves
<1> DEFINE tree == b.nodes[root].tree
           es0 == T!Kept(b, k)
           fs0 == T!Kept(b, m)
<1>5. T!Ingested(T!Names(b, k), es0, T!Names(b, m), fs0, tree)
  <2>1. {} \subseteq T!AnyLine
    OBVIOUS
  <2>2. root \in 1..Len(b.nodes)
    BY <1>1, <1>3
  <2>3. T!Ingested(T!Names(b, k), es0, T!Names(b, Len(b.nodes)), T!Kept(b, Len(b.nodes)), tree)
    BY <1>2, <1>3, <1>4, <2>1, <2>2, T!TreeAdded, Zenon
  <2> QED
    BY <1>3, <2>3
<1>6. T!Names(b, k) = ns /\ T!Names(b, m) = ms
  <2>1. \A i \in 1..k : i \in 1..m
    BY <1>1
  <2> QED
    BY <1>3, <2>1 DEF T!Names, Names
<1>7. tree \in Tree
  <2>1. nodes[root] \in Payload
    BY <1>1
  <2> QED
    BY <1>1, <1>3, <2>1 DEF Payload
<1>8. \A e \in DOMAIN edges : /\ e.src \in 1..m /\ e.dst \in 1..m
                              /\ e.kind = "Calls" => (root <= e.src <=> root <= e.dst)
  <2>1. EdgesOK(edges, m) /\ CallsApart(edges, root)
    BY Zenon DEF File, Walk
  <2>2. \A e \in DOMAIN edges : e \in KeysOn(m)
    BY <2>1, Zenon DEF EdgesOK
  <2> HIDE DEF m
  <2>3. \A e \in DOMAIN edges : e.src \in 1..m /\ e.dst \in 1..m
    BY <2>2 DEF KeysOn
  <2> QED
    BY <2>1, <2>3, Zenon DEF CallsApart
<1>9. /\ \A e : e \in es <=> e \in DOMAIN edges /\ e.src \in 1..k
      /\ \A e : e \in fs <=> e \in DOMAIN edges
      /\ \A e : e \in es0 <=> e \in DOMAIN edges /\ e.kind # "Calls" /\ e.src \in 1..k
      /\ \A e : e \in fs0 <=> e \in DOMAIN edges /\ e.kind # "Calls"
  <2>1. \A e : e \in es <=> e \in DOMAIN edges /\ e.src \in 1..k
    BY DEF Kept, BagToSet
  <2>2. \A e : e \in fs <=> e \in DOMAIN edges
    BY <1>8 DEF Kept, BagToSet
  <2>3. \A e : e \in es0 <=> e \in DOMAIN edges /\ e.kind # "Calls" /\ e.src \in 1..k
    BY <1>3 DEF T!Kept
  <2>4. \A e : e \in fs0 <=> e \in DOMAIN edges /\ e.kind # "Calls"
    BY <1>3, <1>8 DEF T!Kept
  <2> QED
    BY <2>1, <2>2, <2>3, <2>4
<1> HIDE DEF es, fs, es0, fs0, ns, ms, tree
<1>10. /\ Len(ms) > Len(ns) /\ SubSeq(ms, 1, Len(ns)) = ns
       /\ T!NewTree(es0, ms, fs0, tree, Len(ns) + 1, Len(ms))
  BY <1>5, <1>6, Zenon DEF T!Ingested
<1>11. Len(ns) + 1 = root /\ Len(ms) = m
  <2>1. ns \in [1..k -> Tree] /\ ms \in [1..m -> Tree]
    <3>1. \A i \in 1..m : nodes[i].tree \in Tree
      <4>1. \A i \in 1..m : nodes[i] \in Payload
        BY <1>1
      <4>2. \A x \in Payload : x.tree \in Tree
        BY DEF Payload
      <4> QED
        BY <4>1, <4>2
    <3>2. \A i \in 1..k : i \in 1..m
      BY <1>1
    <3> QED
      BY <3>1, <3>2 DEF ns, ms, Names
  <2> HIDE DEF k, m
  <2>2. Len(ns) = k /\ Len(ms) = m
    BY <1>1, <2>1, T!SegmentIsSeq
  <2> QED
    BY <1>1, <2>2 DEF k
<1>12. T!NewTree(es, ms, fs, tree, root, m)
  <2>1. /\ \A n \in root..m : ms[n] = tree
        /\ \A e \in fs0 \ es0 : e.src \in root..m /\ e.dst \in root..m
        /\ T!ParentsIn(fs0, root) = {}
        /\ \A n \in (root..m) \ {root} : \E p \in root..(n - 1) : T!ParentsIn(fs0, n) = {p}
    BY <1>10, <1>11, Zenon DEF T!NewTree
  <2>2. es \subseteq fs
    BY <1>9
  <2>3. \A e \in fs \ es : e.src \in root..m /\ e.dst \in root..m
    <3> TAKE e \in fs \ es
    <3>1. e \in DOMAIN edges /\ e.src \notin 1..k
      BY <1>9
    <3>2. CASE e.kind # "Calls"
      <4>1. e \in fs0 /\ e \notin es0
        BY <1>9, <3>1, <3>2
      <4> QED
        BY <2>1, <4>1
    <3>3. CASE e.kind = "Calls"
      <4>1. e.src \in 1..m /\ e.dst \in 1..m /\ (root <= e.src <=> root <= e.dst)
        BY <1>8, <3>1, <3>3
      <4> QED
        BY <1>1, <3>1, <4>1
    <3> QED
      BY <3>2, <3>3
  <2>4. \A n : T!ParentsIn(fs, n) = T!ParentsIn(fs0, n)
    <3> TAKE n
    <3>1. \A e : e \in fs /\ e.kind = "Contains" <=> e \in fs0 /\ e.kind = "Contains"
      BY <1>9
    <3>2. {e \in fs : e.dst = n /\ e.kind = "Contains"} = {e \in fs0 : e.dst = n /\ e.kind = "Contains"}
      BY <3>1
    <3> QED
      BY <3>2, Zenon DEF T!ParentsIn
  <2> QED
    BY <2>1, <2>2, <2>3, <2>4, Zenon DEF T!NewTree
<1>13. T!Ingested(ns, es, ms, fs, tree)
  BY <1>10, <1>11, <1>12 DEF T!Ingested
<1> QED
  BY <1>7, <1>13, Zenon DEF ns, es, ms, fs, k, m

LEMMA PromisedIngest ==
  ASSUME NEW tree, T!Ingested(OutNodes, OutEdges, OutNodes', OutEdges', tree)
  PROVE  A!Ingest(tree)
BY DEF T!Ingested, T!NewTree, T!ParentsIn, OutNodes, OutEdges, A!Ingest

LEMMA StepRefines ==
  ASSUME CodeInv, [Next]_vars
  PROVE  [A!Next]_A!vars
<1>1. UNCHANGED <<OutNodes, OutEdges>> => [A!Next]_A!vars
  BY DEF OutNodes, OutEdges, A!vars
<1>2. CASE UNCHANGED vars
  <2>1. nodes' = nodes /\ edges' = edges /\ pass' = pass
    BY <1>2 DEF vars
  <2>2. Before' = Before
    BY <2>1 DEF Before, NodeId, Root
  <2> QED
    BY <1>1, <2>1, <2>2 DEF OutNodes, OutEdges
<1>3. CASE Idle /\ Next
  <2>1. PICK tree \in Tree : Ingest(tree)
    BY <1>3, IdleStarts
  <2>2. PICK n : n = New
    BY Zenon
  <2>3. File(n)' /\ Goes(n) /\ n = Len(nodes) + 1
    BY <1>3, <2>1, <2>2, IngestStarts, Zenon
  <2>4. Len(nodes) \in Nat /\ n - 1 = Len(nodes) /\ n \in Nat \ {0} /\ n <= Len(nodes) + 1
    BY <2>3 DEF Goes
  <2>5. Shown(n - 1) /\ Shown(n - 1)'
    BY <1>3, <2>3, <2>4, AllShown, AllShownNext, Zenon DEF ShownIsComplete
  <2>6. Names(n - 1)' = Names(n - 1) /\ Kept(n - 1)' = Kept(n - 1)
    BY <2>3, <2>4, SameBelow
  <2>7. UNCHANGED <<OutNodes, OutEdges>>
    BY <2>5, <2>6, Zenon DEF Shown
  <2> QED
    BY <1>1, <2>7
<1>4. ASSUME NEW root, File(root), Next
      PROVE  [A!Next]_A!vars
  <2>1. Goes(root) /\ (File(root)' \/ (Idle' /\ nodes' = nodes /\ edges' = edges))
    BY <1>4, FileGoes, Zenon
  <2>2. OutNodes = Names(root - 1) /\ OutEdges = Kept(root - 1)
    BY <1>4, AllShown, Zenon DEF ShownIsComplete, Shown
  <2>3. CASE File(root)'
    <3>1. OutNodes' = Names(root - 1)' /\ OutEdges' = Kept(root - 1)'
      BY <2>3, AllShownNext, Zenon DEF ShownIsComplete, Shown
    <3>2. root \in Nat \ {0} /\ root <= Len(nodes) + 1
      BY <1>4, FileIs
    <3>3. Names(root - 1)' = Names(root - 1) /\ Kept(root - 1)' = Kept(root - 1)
      BY <2>1, <3>2, SameBelow
    <3>4. UNCHANGED <<OutNodes, OutEdges>>
      BY <2>2, <3>1, <3>3, Zenon
    <3> QED
      BY <1>1, <3>4
  <2>4. CASE Idle' /\ nodes' = nodes /\ edges' = edges
    <3>1. OutNodes' = Names(Len(nodes)) /\ OutEdges' = Kept(Len(nodes))
      <4>1. Shown(Len(nodes))'
        BY <2>4, AllShownNext, Zenon DEF ShownIsComplete
      <4>2. OutNodes' = Names(Len(nodes))' /\ OutEdges' = Kept(Len(nodes))'
        BY <4>1, Zenon DEF Shown
      <4> QED
        BY <2>4, <4>2 DEF Names, Kept
    <3>2. PICK tree \in Tree : T!Ingested(OutNodes, OutEdges, OutNodes', OutEdges', tree)
      BY <1>4, <2>2, <3>1, FileAdded, Zenon
    <3>3. A!Ingest(tree)
      BY <3>2, PromisedIngest
    <3> QED
      BY <3>3, Zenon DEF A!Next
  <2> QED
    BY <2>1, <2>3, <2>4
<1> QED
  BY <1>2, <1>3, <1>4, Zenon DEF CodeInv

\* Each call adds one more tree of its name to the forest and touches no other
\* (trait Adapter in crates/sle-core/src/traits.rs).
THEOREM AdapterPromised == Spec => ImplementsAdapter
<1>1. Init => A!Init
  <2> SUFFICES ASSUME Init
               PROVE  A!Init
    OBVIOUS
  <2>1. nodes = <<>> /\ edges = EmptyBag /\ pass = "none"
    BY DEF Init
  <2>2. Before = {} /\ DOMAIN edges = {}
    BY <2>1 DEF Before, NodeId, EmptyBag, SetToBag
  <2> QED
    BY <2>1, <2>2 DEF A!Init, BagToSet
<1>2. CodeInv /\ [Next]_vars => [A!Next]_A!vars
  BY StepRefines
<1> QED
  BY <1>1, <1>2, CodeInvariant, PTL DEF Spec, ImplementsAdapter, A!Spec


-----------------------------------------------------------------------------
\* What a syntax tree means, item by item.

\* The node of item i.
NodeAt(src, root, i) == root + Cardinality({j \in 1..i : src[j].kind # "call"})

\* The items of a kind that the walk is in after k items, down to depth d.
InsideOf(src, k, d, kind) ==
  {j \in 1..k : /\ src[j].kind = kind /\ src[j].depth < d
                /\ \A m \in (j + 1)..k : src[j].depth < src[m].depth}

Definitions(src, name) ==
  {i \in 1..Len(src) : src[i].kind \in {"function", "class"} /\ src[i].name = name}

MeantIn(src, root, name) ==
  IF Definitions(src, name) = {} THEN 0 ELSE NodeAt(src, root, Max(Definitions(src, name)))

\* The node that an item of depth d behind k others belongs to.
Home(src, root, k, d) ==
  IF InsideOf(src, k, d, "class") = {} THEN root
  ELSE NodeAt(src, root, Max(InsideOf(src, k, d, "class")))

\* The node that calls come from there.
Caller(src, root, k, d) ==
  IF InsideOf(src, k, d, "function") = {} THEN root
  ELSE MeantIn(src, root, src[Max(InsideOf(src, k, d, "function"))].name)

\* more begins with src.
Begins(src, more) == Len(src) <= Len(more) /\ \A i \in 1..Len(src) : more[i] = src[i]

\* Sets of items, how many they are.
LEMMA ItemsAreFinite ==
  ASSUME NEW k \in Nat, NEW S \in SUBSET (1..k)
  PROVE  /\ Cardinality(S) \in Nat /\ IsFiniteSet(S)
         /\ S = {} => Cardinality(S) = 0
         /\ \A x : x \notin S => Cardinality(S \cup {x}) = Cardinality(S) + 1
<1>1. /\ \A X : F!IsFiniteSet(X) = IsFiniteSet(X)
      /\ \A X : F!Cardinality(X) = Cardinality(X)
  BY DEF F!IsFiniteSet, IsFiniteSet, F!Cardinality, Cardinality
<1>2. F!IsFiniteSet(1..k)
  BY F!FS_Interval
<1>3. F!IsFiniteSet(S)
  BY <1>2, F!FS_Subset
<1>4. F!Cardinality(S) \in Nat
  BY <1>3, F!FS_CardinalityType
<1>5. S = {} => F!Cardinality(S) = 0
  BY F!FS_EmptySet
<1>6. \A x : x \notin S => F!Cardinality(S \cup {x}) = F!Cardinality(S) + 1
  BY <1>3, F!FS_AddElement
<1> QED
  BY <1>1, <1>3, <1>4, <1>5, <1>6

LEMMA NodesCounted ==
  ASSUME NEW src, NEW root \in Nat, NEW k \in Nat
  PROVE  /\ NodeAt(src, root, 0) = root
         /\ NodeAt(src, root, k) \in Nat /\ root <= NodeAt(src, root, k)
         /\ NodeAt(src, root, k + 1)
              = NodeAt(src, root, k) + (IF src[k + 1].kind = "call" THEN 0 ELSE 1)
<1> DEFINE S(i) == {j \in 1..i : src[j].kind # "call"}
           C(i) == Cardinality(S(i))
<1>1. \A i \in Nat : S(i) \in SUBSET (1..i)
  OBVIOUS
<1>2. \A i \in Nat : C(i) \in Nat
  <2> HIDE DEF S
  <2> QED
    BY <1>1, ItemsAreFinite
<1>3. C(0) = 0
  <2>1. S(0) = {}
    OBVIOUS
  <2> HIDE DEF S
  <2> QED
    BY <1>1, <2>1, ItemsAreFinite
<1>4. C(k + 1) = C(k) + (IF src[k + 1].kind = "call" THEN 0 ELSE 1)
  <2>1. CASE src[k + 1].kind = "call"
    <3>1. S(k + 1) = S(k)
      BY <2>1
    <3>2. C(k) = C(k) + 0
      BY <1>2
    <3> HIDE DEF S
    <3> QED
      BY <2>1, <3>1, <3>2
  <2>2. CASE src[k + 1].kind # "call"
    <3>1. S(k + 1) = S(k) \cup {k + 1} /\ k + 1 \notin S(k)
      BY <2>2
    <3> HIDE DEF S
    <3>2. C(k + 1) = C(k) + 1
      BY <1>1, <3>1, ItemsAreFinite
    <3> QED
      BY <2>2, <3>2
  <2> QED
    BY <2>1, <2>2
<1>5. \A i : NodeAt(src, root, i) = root + C(i)
  BY DEF NodeAt
<1> HIDE DEF C
<1> QED
  BY <1>2, <1>3, <1>4, <1>5

LEMMA NodesOfLonger ==
  ASSUME NEW src, NEW more, NEW k \in 0..Len(src), Len(src) \in Nat, Begins(src, more), NEW root
  PROVE  NodeAt(more, root, k) = NodeAt(src, root, k)
<1>1. \A j \in 1..k : more[j] = src[j]
  BY DEF Begins
<1>2. {j \in 1..k : more[j].kind # "call"} = {j \in 1..k : src[j].kind # "call"}
  BY <1>1
<1> QED
  BY <1>2, Zenon DEF NodeAt

LEMMA InsideOfLonger ==
  ASSUME NEW src, NEW more, NEW k \in 0..Len(src), Len(src) \in Nat, Begins(src, more),
         NEW d, NEW kind
  PROVE  InsideOf(more, k, d, kind) = InsideOf(src, k, d, kind)
<1>1. \A j \in 1..k : more[j] = src[j]
  BY DEF Begins
<1>2. \A j \in 1..k : \A m \in (j + 1)..k : m \in 1..k
  OBVIOUS
<1> QED
  BY <1>1, <1>2 DEF InsideOf

\* One more item: what is around it stays around what is as deep as it, and is
\* around what is inside it, together with the item itself.
Entered(src, k, kind) ==
  LET depth == src[k + 1].depth
  IN  /\ \A d \in 0..depth : InsideOf(src, k + 1, d, kind) = InsideOf(src, k, d, kind)
      /\ InsideOf(src, k + 1, depth + 1, kind)
           = InsideOf(src, k, depth, kind) \cup (IF src[k + 1].kind = kind THEN {k + 1} ELSE {})

LEMMA ItemEntered ==
  ASSUME NEW src \in Seq(Item), NEW k \in Nat, k + 1 \in 1..Len(src), NEW kind
  PROVE  Entered(src, k, kind)
<1> DEFINE depth == src[k + 1].depth
<1>1. \A j \in 1..(k + 1) : src[j] \in Item
  OBVIOUS
<1>2. depth \in Nat /\ \A j \in 1..(k + 1) : src[j].depth \in Nat
  <2>1. \A x \in Item : x.depth \in Nat
    BY DEF Item
  <2> QED
    BY <1>1, <2>1
<1> DEFINE In(i, d, j) == /\ j \in 1..i /\ src[j].kind = kind /\ src[j].depth < d
                          /\ \A m \in (j + 1)..i : src[j].depth < src[m].depth
<1>3. \A i, d, j : j \in InsideOf(src, i, d, kind) <=> In(i, d, j)
  BY DEF InsideOf
<1>4. ASSUME NEW d \in 0..depth, NEW j
      PROVE  In(k + 1, d, j) <=> In(k, d, j)
  <2>1. ASSUME In(k + 1, d, j)
        PROVE  In(k, d, j)
    <3>1. j # k + 1
      BY <1>2, <2>1
    <3>2. j \in 1..k /\ \A m \in (j + 1)..k : m \in (j + 1)..(k + 1)
      BY <2>1, <3>1
    <3> QED
      BY <2>1, <3>2
  <2>2. ASSUME In(k, d, j)
        PROVE  In(k + 1, d, j)
    <3>1. j \in 1..(k + 1) /\ src[j].depth < depth
      BY <1>2, <2>2
    <3>2. \A m \in (j + 1)..(k + 1) : m = k + 1 \/ m \in (j + 1)..k
      BY <2>2
    <3> QED
      BY <2>2, <3>1, <3>2
  <2> QED
    BY <2>1, <2>2
<1>5. ASSUME NEW j
      PROVE  In(k + 1, depth + 1, j) <=> In(k, depth, j) \/ (j = k + 1 /\ src[k + 1].kind = kind)
  <2>1. ASSUME In(k + 1, depth + 1, j)
        PROVE  In(k, depth, j) \/ (j = k + 1 /\ src[k + 1].kind = kind)
    <3>1. CASE j = k + 1
      BY <2>1, <3>1
    <3>2. CASE j # k + 1
      <4>1. j \in 1..k /\ k + 1 \in (j + 1)..(k + 1) /\ \A m \in (j + 1)..k : m \in (j + 1)..(k + 1)
        BY <2>1, <3>2
      <4>2. src[j].depth < depth
        BY <2>1, <4>1
      <4> QED
        BY <2>1, <4>1, <4>2
    <3> QED
      BY <3>1, <3>2
  <2>2. ASSUME In(k, depth, j)
        PROVE  In(k + 1, depth + 1, j)
    <3>1. j \in 1..(k + 1) /\ src[j].depth < depth + 1 /\ src[j].depth < depth
      BY <1>2, <2>2
    <3>2. \A m \in (j + 1)..(k + 1) : m = k + 1 \/ m \in (j + 1)..k
      BY <2>2
    <3> QED
      BY <2>2, <3>1, <3>2
  <2>3. ASSUME src[k + 1].kind = kind
        PROVE  In(k + 1, depth + 1, k + 1)
    BY <1>2, <2>3
  <2> QED
    BY <2>1, <2>2, <2>3
<1> HIDE DEF In
<1>6. \A d \in 0..depth : InsideOf(src, k + 1, d, kind) = InsideOf(src, k, d, kind)
  BY <1>3, <1>4
<1>7. InsideOf(src, k + 1, depth + 1, kind)
        = InsideOf(src, k, depth, kind) \cup (IF src[k + 1].kind = kind THEN {k + 1} ELSE {})
  BY <1>3, <1>5
<1> QED
  BY <1>6, <1>7 DEF Entered


LEMMA LastOfInside ==
  ASSUME NEW src, NEW k \in Nat, NEW d, NEW kind, InsideOf(src, k, d, kind) # {}
  PROVE  Max(InsideOf(src, k, d, kind)) \in 1..k
<1>1. InsideOf(src, k, d, kind) \in SUBSET (0..k) /\ InsideOf(src, k, d, kind) \subseteq 1..k
  BY DEF InsideOf
<1>2. Max(InsideOf(src, k, d, kind)) \in InsideOf(src, k, d, kind)
  BY <1>1, MaxExists
<1> QED
  BY <1>1, <1>2

SameHomes(src, more, root, k) == \A d : Home(more, root, k, d) = Home(src, root, k, d)

LEMMA HomeOfLonger ==
  ASSUME NEW src, NEW more, NEW k \in 0..Len(src), Len(src) \in Nat, Begins(src, more), NEW root
  PROVE  SameHomes(src, more, root, k)
<1> SUFFICES ASSUME NEW d
             PROVE  Home(more, root, k, d) = Home(src, root, k, d)
  BY Zenon DEF SameHomes
<1> DEFINE S == InsideOf(src, k, d, "class")
<1>1. InsideOf(more, k, d, "class") = S
  BY InsideOfLonger
<1>2. ASSUME S # {}
      PROVE  NodeAt(more, root, Max(S)) = NodeAt(src, root, Max(S))
  <2>1. Max(S) \in 1..k
    BY <1>2, LastOfInside
  <2> HIDE DEF S
  <2>2. Max(S) \in 0..Len(src)
    BY <2>1
  <2> QED
    BY <2>2, NodesOfLonger
<1> HIDE DEF S
<1> QED
  BY <1>1, <1>2 DEF Home, S

\* What is behind the item, and what is inside it.
LEMMA HomeEntered ==
  ASSUME NEW src \in Seq(Item), NEW k \in Nat, k + 1 \in 1..Len(src), NEW root
  PROVE  /\ \A d \in 0..src[k + 1].depth : Home(src, root, k + 1, d) = Home(src, root, k, d)
         /\ Home(src, root, k + 1, src[k + 1].depth + 1)
              = IF src[k + 1].kind = "class" THEN NodeAt(src, root, k + 1)
                ELSE Home(src, root, k, src[k + 1].depth)
<1> DEFINE depth == src[k + 1].depth
           S == InsideOf(src, k, depth, "class")
           S2 == InsideOf(src, k + 1, depth + 1, "class")
<1>1. /\ \A d \in 0..depth : InsideOf(src, k + 1, d, "class") = InsideOf(src, k, d, "class")
      /\ S2 = S \cup (IF src[k + 1].kind = "class" THEN {k + 1} ELSE {})
  BY ItemEntered, ZenonT(60) DEF Entered
<1>2. \A d \in 0..depth : Home(src, root, k + 1, d) = Home(src, root, k, d)
  BY <1>1, Zenon DEF Home
<1>3. CASE src[k + 1].kind = "class"
  <2>1. S2 = S \cup {k + 1} /\ S \subseteq 1..k
    BY <1>1, <1>3 DEF InsideOf
  <2> HIDE DEF S, S2
  <2>2. S2 \in SUBSET Nat /\ k + 1 \in S2 /\ \A y \in S2 : y <= k + 1
    BY <2>1
  <2>3. Max(S2) = k + 1
    BY <2>2, MaxIs
  <2>4. Home(src, root, k + 1, depth + 1) = NodeAt(src, root, Max(S2))
    BY <2>2 DEF Home, S2
  <2> QED
    BY <1>2, <1>3, <2>3, <2>4
<1>4. CASE src[k + 1].kind # "class"
  <2>1. S2 = S
    BY <1>1, <1>4
  <2>2. Home(src, root, k + 1, depth + 1) = Home(src, root, k, depth)
    BY <2>1, Zenon DEF Home
  <2> QED
    BY <1>2, <1>4, <2>2
<1> QED
  BY <1>3, <1>4

LEMMA CallerEntered ==
  ASSUME NEW src \in Seq(Item), NEW k \in Nat, k + 1 \in 1..Len(src), NEW root
  PROVE  /\ \A d \in 0..src[k + 1].depth : Caller(src, root, k + 1, d) = Caller(src, root, k, d)
         /\ Caller(src, root, k + 1, src[k + 1].depth + 1)
              = IF src[k + 1].kind = "function" THEN MeantIn(src, root, src[k + 1].name)
                ELSE Caller(src, root, k, src[k + 1].depth)
<1> DEFINE depth == src[k + 1].depth
           S == InsideOf(src, k, depth, "function")
           S2 == InsideOf(src, k + 1, depth + 1, "function")
<1>1. /\ \A d \in 0..depth : InsideOf(src, k + 1, d, "function") = InsideOf(src, k, d, "function")
      /\ S2 = S \cup (IF src[k + 1].kind = "function" THEN {k + 1} ELSE {})
  BY ItemEntered, ZenonT(60) DEF Entered
<1>2. \A d \in 0..depth : Caller(src, root, k + 1, d) = Caller(src, root, k, d)
  BY <1>1, Zenon DEF Caller
<1>3. CASE src[k + 1].kind = "function"
  <2>1. S2 = S \cup {k + 1} /\ S \subseteq 1..k
    BY <1>1, <1>3 DEF InsideOf
  <2> HIDE DEF S, S2
  <2>2. S2 \in SUBSET Nat /\ k + 1 \in S2 /\ \A y \in S2 : y <= k + 1
    BY <2>1
  <2>3. Max(S2) = k + 1
    BY <2>2, MaxIs
  <2>4. Caller(src, root, k + 1, depth + 1) = MeantIn(src, root, src[Max(S2)].name)
    BY <2>2 DEF Caller, S2
  <2> QED
    BY <1>2, <1>3, <2>3, <2>4
<1>4. CASE src[k + 1].kind # "function"
  <2>1. S2 = S
    BY <1>1, <1>4
  <2>2. Caller(src, root, k + 1, depth + 1) = Caller(src, root, k, depth)
    BY <2>1, Zenon DEF Caller
  <2> QED
    BY <1>2, <1>4, <2>2
<1> QED
  BY <1>3, <1>4

\* A definition is what its name stands for, until another one comes.
LEMMA MeantGrows ==
  ASSUME NEW src \in Seq(Item), NEW item, NEW more, OneMoreItem(src, item, more),
         NEW root \in Nat, NEW name
  PROVE  MeantIn(more, root, name)
           = IF item.kind \in {"function", "class"} /\ item.name = name
             THEN NodeAt(more, root, Len(more)) ELSE MeantIn(src, root, name)
<1> DEFINE D == Definitions(src, name)
           D2 == Definitions(more, name)
           defines == item.kind \in {"function", "class"} /\ item.name = name
           n == Len(more)
<1>1. /\ n = Len(src) + 1 /\ Len(src) \in Nat /\ more[n] = item /\ Begins(src, more)
      /\ \A i \in 1..Len(src) : more[i] = src[i]
  BY DEF OneMoreItem, Begins
<1>2. D2 = D \cup (IF defines THEN {n} ELSE {}) /\ D \subseteq 1..Len(src)
  <2>1. \A i \in 1..n : i = n \/ i \in 1..Len(src)
    BY <1>1
  <2>2. n \in 1..n /\ \A i \in 1..Len(src) : i \in 1..n
    BY <1>1
  <2> QED
    BY <1>1, <2>1, <2>2 DEF Definitions
<1> HIDE DEF D, D2, n
<1>3. CASE defines
  <2>1. D2 = D \cup {n} /\ \A y \in D : y \in Nat /\ y <= n
    BY <1>1, <1>2, <1>3
  <2>2. D2 \in SUBSET Nat /\ n \in D2 /\ \A y \in D2 : y <= n
    BY <1>1, <2>1
  <2>3. Max(D2) = n
    BY <2>2, MaxIs
  <2> QED
    BY <1>3, <2>2, <2>3 DEF MeantIn, D2, n
<1>4. CASE ~ defines
  <2>1. D2 = D
    BY <1>2, <1>4
  <2>2. ASSUME D # {}
        PROVE  NodeAt(more, root, Max(D)) = NodeAt(src, root, Max(D))
    <3>1. D \in SUBSET (0..Len(src))
      BY <1>2
    <3>2. Max(D) \in D
      BY <1>1, <2>2, <3>1, MaxExists
    <3>3. Max(D) \in 0..Len(src)
      BY <3>1, <3>2
    <3> QED
      BY <1>1, <3>3, NodesOfLonger
  <2>3. MeantIn(more, root, name) = MeantIn(src, root, name)
    BY <2>1, <2>2, Zenon DEF MeantIn, D, D2
  <2> QED
    BY <1>4, <2>3
<1> QED
  BY <1>3, <1>4

\* A name that is defined stands for a node of the file.
LEMMA DefinedIsMeant ==
  ASSUME NEW src \in Seq(Item), NEW root \in Nat, NEW name, Definitions(src, name) # {}
  PROVE  MeantIn(src, root, name) \in Nat /\ root <= MeantIn(src, root, name)
<1> DEFINE D == Definitions(src, name)
<1>1. D \in SUBSET (0..Len(src)) /\ Len(src) \in Nat
  BY DEF Definitions
<1> HIDE DEF D
<1>2. Max(D) \in D
  BY <1>1, MaxExists DEF D
<1>3. Max(D) \in Nat
  <2>1. \A x \in D : x \in Nat
    BY <1>1
  <2> QED
    BY <1>2, <2>1, Zenon
<1>4. NodeAt(src, root, Max(D)) \in Nat /\ root <= NodeAt(src, root, Max(D))
  BY <1>3, NodesCounted
<1>5. MeantIn(src, root, name) = NodeAt(src, root, Max(D))
  BY Zenon DEF MeantIn, D
<1> QED
  BY <1>4, <1>5

\* Calls come from a node of the file.
LEMMA CallersAreInside ==
  ASSUME NEW src \in Seq(Item), NEW root \in Nat, NEW k \in 0..Len(src), NEW d
  PROVE  Caller(src, root, k, d) \in Nat /\ root <= Caller(src, root, k, d)
<1> DEFINE S == InsideOf(src, k, d, "function")
<1>1. CASE S = {}
  <2>1. Caller(src, root, k, d) = root
    BY <1>1, Zenon DEF Caller
  <2> QED
    BY <2>1
<1>2. CASE S # {}
  <2> DEFINE j == Max(S)
  <2>1. S \in SUBSET (0..k) /\ \A x \in S : x \in 1..Len(src) /\ src[x].kind = "function"
    BY DEF InsideOf
  <2> HIDE DEF S
  <2>2. k \in Nat /\ j \in S
    <3>1. k \in Nat
      OBVIOUS
    <3> QED
      BY <1>2, <2>1, <3>1, MaxExists
  <2> HIDE DEF j
  <2>3. j \in 1..Len(src) /\ src[j].kind = "function"
    BY <2>1, <2>2, Zenon
  <2>4. Definitions(src, src[j].name) # {}
    BY <2>3 DEF Definitions
  <2>5. Caller(src, root, k, d) = MeantIn(src, root, src[j].name)
    BY <1>2, Zenon DEF Caller, S, j
  <2>6. LET t == MeantIn(src, root, src[j].name) IN t \in Nat /\ root <= t
    BY <2>4, DefinedIsMeant, Zenon
  <2> QED
    BY <2>5, <2>6
<1> QED
  BY <1>1, <1>2

-----------------------------------------------------------------------------
\* What the walks are called with.

Homes(ctx, src, root, k) ==
  \A d \in 0..(Len(ctx) - 1) : ctx[d + 1].container = Home(src, root, k, d)

Callers(ctx, src, root, k) ==
  \A d \in 0..(Len(ctx) - 1) : ctx[d + 1].current_fn = Caller(src, root, k, d)

LEMMA HomesGo ==
  ASSUME NEW src \in Seq(Item), NEW k \in Nat, k + 1 \in 1..Len(src), NEW root, NEW S,
         NEW ctx \in Seq(Pair(S)), NEW item, item = src[k + 1], item.depth < Len(ctx),
         NEW node, item.kind = "class" => node = NodeAt(src, root, k + 1),
         NEW ctx2, Deeper(ctx, item, node, ctx2), Homes(ctx, src, root, k)
  PROVE  Homes(ctx2, src, root, k + 1)
<1> DEFINE depth == item.depth
           here  == ctx[depth + 1]
<1>1. item \in Item
  OBVIOUS
<1>2. depth \in Nat /\ item.kind \in ItemKind
  BY <1>1 DEF Item
<1>3. depth + 1 \in 1..Len(ctx) /\ depth \in 0..(Len(ctx) - 1) /\ here \in Pair(S)
  BY <1>2
<1>4. /\ \A d \in 0..depth : Home(src, root, k + 1, d) = Home(src, root, k, d)
      /\ Home(src, root, k + 1, depth + 1)
           = IF item.kind = "class" THEN NodeAt(src, root, k + 1) ELSE Home(src, root, k, depth)
  BY HomeEntered
<1>5. /\ Len(ctx2) = depth + (IF item.kind = "import" THEN 1 ELSE 2)
      /\ \A i \in 1..(depth + 1) : ctx2[i] = ctx[i]
      /\ item.kind = "function" => ctx2[depth + 2] = [here EXCEPT !.current_fn = node]
      /\ item.kind = "class" => ctx2[depth + 2] = [here EXCEPT !.container = node]
      /\ item.kind = "call" => ctx2[depth + 2] = here
  BY DEF Deeper
<1>6. here.container = Home(src, root, k, depth)
  BY <1>3, Zenon DEF Homes
<1>7. ASSUME NEW d \in 0..depth
      PROVE  ctx2[d + 1].container = Home(src, root, k + 1, d)
  <2>1. d \in 0..(Len(ctx) - 1) /\ d + 1 \in 1..(depth + 1)
    BY <1>2, <1>3
  <2>2. ctx[d + 1].container = Home(src, root, k, d)
    BY <2>1, Zenon DEF Homes
  <2> QED
    BY <1>4, <1>5, <2>1, <2>2
<1>8. item.kind # "import" => ctx2[depth + 2].container = Home(src, root, k + 1, depth + 1)
  <2> HIDE DEF here, depth
  <2>1. [here EXCEPT !.current_fn = node].container = here.container
        /\ [here EXCEPT !.container = node].container = node
    BY <1>3 DEF Pair
  <2> QED
    BY <1>2, <1>4, <1>5, <1>6, <2>1 DEF ItemKind
<1>9. \A d \in 0..(Len(ctx2) - 1) : d \in 0..depth \/ (d = depth + 1 /\ item.kind # "import")
  BY <1>2, <1>5
<1>10. ASSUME NEW d, d = depth + 1, item.kind # "import"
       PROVE  ctx2[d + 1].container = Home(src, root, k + 1, d)
  <2>1. d + 1 = depth + 2
    BY <1>2, <1>10
  <2> QED
    BY <1>8, <1>10, <2>1
<1> QED
  BY <1>7, <1>9, <1>10, Zenon DEF Homes

LEMMA CallersGo ==
  ASSUME NEW src \in Seq(Item), NEW k \in Nat, k + 1 \in 1..Len(src), NEW root, NEW S,
         NEW ctx \in Seq(Pair(S)), NEW item, item = src[k + 1], item.depth < Len(ctx),
         NEW node, item.kind = "function" => node = MeantIn(src, root, item.name),
         NEW ctx2, Deeper(ctx, item, node, ctx2), Callers(ctx, src, root, k)
  PROVE  Callers(ctx2, src, root, k + 1)
<1> DEFINE depth == item.depth
           here  == ctx[depth + 1]
<1>1. item \in Item
  OBVIOUS
<1>2. depth \in Nat /\ item.kind \in ItemKind
  BY <1>1 DEF Item
<1>3. depth + 1 \in 1..Len(ctx) /\ depth \in 0..(Len(ctx) - 1) /\ here \in Pair(S)
  BY <1>2
<1>4. /\ \A d \in 0..depth : Caller(src, root, k + 1, d) = Caller(src, root, k, d)
      /\ Caller(src, root, k + 1, depth + 1)
           = IF item.kind = "function" THEN MeantIn(src, root, item.name)
             ELSE Caller(src, root, k, depth)
  BY CallerEntered
<1>5. /\ Len(ctx2) = depth + (IF item.kind = "import" THEN 1 ELSE 2)
      /\ \A i \in 1..(depth + 1) : ctx2[i] = ctx[i]
      /\ item.kind = "function" => ctx2[depth + 2] = [here EXCEPT !.current_fn = node]
      /\ item.kind = "class" => ctx2[depth + 2] = [here EXCEPT !.container = node]
      /\ item.kind = "call" => ctx2[depth + 2] = here
  BY DEF Deeper
<1>6. here.current_fn = Caller(src, root, k, depth)
  BY <1>3, Zenon DEF Callers
<1>7. ASSUME NEW d \in 0..depth
      PROVE  ctx2[d + 1].current_fn = Caller(src, root, k + 1, d)
  <2>1. d \in 0..(Len(ctx) - 1) /\ d + 1 \in 1..(depth + 1)
    BY SMTT(60), <1>2, <1>3
  <2>2. ctx[d + 1].current_fn = Caller(src, root, k, d)
    BY <2>1, Zenon DEF Callers
  <2> QED
    BY <1>4, <1>5, <2>1, <2>2
<1>8. item.kind # "import" => ctx2[depth + 2].current_fn = Caller(src, root, k + 1, depth + 1)
  <2> HIDE DEF here, depth
  <2>1. [here EXCEPT !.container = node].current_fn = here.current_fn
        /\ [here EXCEPT !.current_fn = node].current_fn = node
    BY <1>3 DEF Pair
  <2> QED
    BY <1>2, <1>4, <1>5, <1>6, <2>1 DEF ItemKind
<1>9. \A d \in 0..(Len(ctx2) - 1) : d \in 0..depth \/ (d = depth + 1 /\ item.kind # "import")
  BY <1>2, <1>5
<1>10. ASSUME NEW d, d = depth + 1, item.kind # "import"
       PROVE  ctx2[d + 1].current_fn = Caller(src, root, k + 1, d)
  <2>1. d + 1 = depth + 2
    BY <1>2, <1>10
  <2> QED
    BY <1>8, <1>10, <2>1
<1> QED
  BY <1>7, <1>9, <1>10, Zenon DEF Callers

-----------------------------------------------------------------------------
\* What the edges are.

\* Edge e is what puts item i where it belongs.
Places(src, root, i, e) ==
  /\ src[i].kind # "call"
  /\ e = Edge(Home(src, root, i - 1, src[i].depth), NodeAt(src, root, i), "Contains")

Contained(es, src, root) ==
  \A e : (e \in DOMAIN es /\ e.kind = "Contains" /\ root <= e.src)
           <=> \E i \in 1..Len(src) : Places(src, root, i, e)

\* Item i is a call that edge e is for.
Refers(src, root, i, e) ==
  /\ src[i].kind = "call" /\ MeantIn(src, root, src[i].name) # 0
  /\ e = Edge(Caller(src, root, i - 1, src[i].depth), MeantIn(src, root, src[i].name), "Calls")

CallsTo(src, root, k, e) == {i \in 1..k : Refers(src, root, i, e)}

Counted(es, src, root, k) ==
  \A e : e.kind = "Calls" /\ root <= e.src =>
    LET calls == CallsTo(src, root, k, e)
    IN  /\ e \in DOMAIN es <=> calls # {}
        /\ e \in DOMAIN es => es[e] = Cardinality(calls)

\* The places of items do not change.
LEMMA PlacesOfLonger ==
  ASSUME NEW src, Len(src) \in Nat, NEW more, Begins(src, more), NEW i \in 1..Len(src),
         NEW root, NEW e
  PROVE  Places(more, root, i, e) <=> Places(src, root, i, e)
<1> DEFINE k == i - 1
<1>1. k \in 0..Len(src) /\ i \in 0..Len(src) /\ more[i] = src[i]
  BY DEF Begins
<1> HIDE DEF k
<1>2. NodeAt(more, root, i) = NodeAt(src, root, i)
  BY <1>1, NodesOfLonger
<1>3. SameHomes(src, more, root, k)
  BY <1>1, HomeOfLonger, Zenon
<1> QED
  BY <1>1, <1>2, <1>3 DEF Places, SameHomes, k

\* A definition or an import gets its place.
LEMMA ContainedGrows ==
  ASSUME NEW src \in Seq(Item), NEW item, NEW more, OneMoreItem(src, item, more),
         NEW root \in Nat, NEW es, NEW fs, Contained(es, src, root), item.kind # "call",
         NEW p, p = Home(more, root, Len(src), item.depth), p \in Nat, root <= p,
         NEW n, n = NodeAt(more, root, Len(more)), NEW sib, Ties(es, sib, p, n, fs)
  PROVE  Contained(fs, more, root)
<1>1. /\ Len(more) = Len(src) + 1 /\ Len(src) \in Nat /\ more[Len(more)] = item
      /\ Begins(src, more)
  BY DEF OneMoreItem, Begins
<1>2. \A e : \A i \in 1..Len(src) : Places(more, root, i, e) <=> Places(src, root, i, e)
  BY <1>1, PlacesOfLonger
<1>3. \A e : Places(more, root, Len(more), e) <=> e = Edge(p, n, "Contains")
  <2>1. Len(more) - 1 = Len(src)
    BY <1>1
  <2> QED
    BY <1>1, <2>1 DEF Places
<1>4. \A i : i \in 1..Len(more) <=> i = Len(more) \/ i \in 1..Len(src)
  BY <1>1
<1>5. \A e : (e \in DOMAIN fs /\ e.kind = "Contains" /\ root <= e.src)
               <=> (\/ e \in DOMAIN es /\ e.kind = "Contains" /\ root <= e.src
                    \/ e = Edge(p, n, "Contains"))
  <2>1. /\ Edge(p, n, "Contains").kind = "Contains" /\ Edge(p, n, "Contains").src = p
        /\ Edge(sib[p], n, "Precedes").kind = "Precedes"
    BY DEF Edge
  <2>2. \A e : e \in DOMAIN fs <=> (\/ e \in DOMAIN es
                                     \/ e = Edge(p, n, "Contains")
                                     \/ (sib[p] # 0 /\ e = Edge(sib[p], n, "Precedes")))
    BY Zenon DEF Ties
  <2> TAKE e
  <2>3. e = Edge(p, n, "Contains") => e.kind = "Contains" /\ e.src = p
    BY <2>1
  <2>4. e = Edge(sib[p], n, "Precedes") => e.kind # "Contains"
    BY <2>1
  <2>5. e = Edge(p, n, "Contains") => root <= e.src
    BY <2>3
  <2> QED
    BY <2>2, <2>3, <2>4, <2>5, Zenon
<1>6. ASSUME NEW e
      PROVE  (e \in DOMAIN fs /\ e.kind = "Contains" /\ root <= e.src)
               <=> \E i \in 1..Len(more) : Places(more, root, i, e)
  <2>1. (e \in DOMAIN es /\ e.kind = "Contains" /\ root <= e.src)
          <=> \E i \in 1..Len(src) : Places(src, root, i, e)
    BY Zenon DEF Contained
  <2>2. (\E i \in 1..Len(more) : Places(more, root, i, e))
          <=> (\E i \in 1..Len(src) : Places(src, root, i, e)) \/ e = Edge(p, n, "Contains")
    BY <1>2, <1>3, <1>4, Zenon
  <2> QED
    BY <1>5, <2>1, <2>2, Zenon
<1> QED
  BY <1>6, Zenon DEF Contained

\* A call that is only walked through has no place.
LEMMA ContainedStays ==
  ASSUME NEW src \in Seq(Item), NEW item, NEW more, OneMoreItem(src, item, more),
         NEW root, NEW es, Contained(es, src, root), item.kind = "call"
  PROVE  Contained(es, more, root)
<1>1. /\ Len(more) = Len(src) + 1 /\ Len(src) \in Nat /\ more[Len(more)] = item
      /\ Begins(src, more)
  BY DEF OneMoreItem, Begins
<1>2. \A e : \A i \in 1..Len(src) : Places(more, root, i, e) <=> Places(src, root, i, e)
  BY <1>1, PlacesOfLonger
<1>3. \A e : ~ Places(more, root, Len(more), e)
  BY <1>1 DEF Places
<1>4. \A i : i \in 1..Len(more) <=> i = Len(more) \/ i \in 1..Len(src)
  BY <1>1
<1>5. \A e : (\E i \in 1..Len(more) : Places(more, root, i, e))
               <=> \E i \in 1..Len(src) : Places(src, root, i, e)
  BY <1>2, <1>3, <1>4, Zenon
<1> QED
  BY <1>5, Zenon DEF Contained

\* The link pass changes no place.
LEMMA ContainedUntouched ==
  ASSUME NEW es, NEW fs, NEW src, NEW root, Contained(es, src, root),
         \A e : e \in DOMAIN fs /\ e.kind = "Contains" <=> e \in DOMAIN es /\ e.kind = "Contains"
  PROVE  Contained(fs, src, root)
BY Zenon DEF Contained

\* One more call for an edge, or one that is not for it.
CountGoes(src, root, k, e) ==
  LET calls == CallsTo(src, root, k, e)
      more  == CallsTo(src, root, k + 1, e)
  IN  /\ Cardinality(calls) \in Nat /\ (calls = {} => Cardinality(calls) = 0)
      /\ ~ Refers(src, root, k + 1, e) => more = calls
      /\ Refers(src, root, k + 1, e) => more # {} /\ Cardinality(more) = Cardinality(calls) + 1

LEMMA CallsAreCounted ==
  ASSUME NEW src, NEW root, NEW k \in Nat, NEW e
  PROVE  CountGoes(src, root, k, e)
<1> DEFINE calls == CallsTo(src, root, k, e)
           more  == CallsTo(src, root, k + 1, e)
<1>1. calls \in SUBSET (1..k) /\ k + 1 \notin calls
  BY DEF CallsTo
<1>2. ~ Refers(src, root, k + 1, e) => more = calls
  BY DEF CallsTo
<1>3. Refers(src, root, k + 1, e) => more = calls \cup {k + 1}
  BY DEF CallsTo
<1> HIDE DEF calls, more
<1>4. /\ Cardinality(calls) \in Nat /\ (calls = {} => Cardinality(calls) = 0)
      /\ Cardinality(calls \cup {k + 1}) = Cardinality(calls) + 1
  BY <1>1, ItemsAreFinite
<1> QED
  BY <1>2, <1>3, <1>4 DEF CountGoes, calls, more

LEMMA CountedCall ==
  ASSUME NEW src, NEW root, NEW k \in Nat, NEW es, NEW fs, Counted(es, src, root, k),
         NEW x, \A e : Refers(src, root, k + 1, e) <=> e = x, OneMore(es, x, fs)
  PROVE  Counted(fs, src, root, k + 1)
<1> SUFFICES ASSUME NEW e, e.kind = "Calls", root <= e.src
             PROVE  /\ e \in DOMAIN fs <=> CallsTo(src, root, k + 1, e) # {}
                    /\ e \in DOMAIN fs => fs[e] = Cardinality(CallsTo(src, root, k + 1, e))
  BY DEF Counted
<1> DEFINE calls == CallsTo(src, root, k, e)
           more  == CallsTo(src, root, k + 1, e)
<1>1. /\ e \in DOMAIN es <=> calls # {}
      /\ e \in DOMAIN es => es[e] = Cardinality(calls)
  BY Zenon DEF Counted
<1>2. /\ Cardinality(calls) \in Nat /\ (calls = {} => Cardinality(calls) = 0)
      /\ ~ Refers(src, root, k + 1, e) => more = calls
      /\ Refers(src, root, k + 1, e) => more # {} /\ Cardinality(more) = Cardinality(calls) + 1
  BY CallsAreCounted, ZenonT(60) DEF CountGoes
<1>3. /\ DOMAIN fs = DOMAIN es \cup {x} /\ fs[x] = IF x \in DOMAIN es THEN es[x] + 1 ELSE 1
      /\ \A y \in DOMAIN es : y # x => fs[y] = es[y]
  BY Zenon DEF OneMore
<1> HIDE DEF calls, more
<1>4. CASE e = x
  <2>1. fs[e] = Cardinality(more)
    BY <1>1, <1>2, <1>3, <1>4
  <2> QED
    BY <1>2, <1>3, <1>4, <2>1 DEF more
<1>5. CASE e # x
  BY <1>1, <1>2, <1>3, <1>5 DEF more
<1> QED
  BY <1>4, <1>5

LEMMA CountedPast ==
  ASSUME NEW src, NEW root, NEW k \in Nat, NEW es, Counted(es, src, root, k),
         \A e : ~ Refers(src, root, k + 1, e)
  PROVE  Counted(es, src, root, k + 1)
<1>1. \A e : CallsTo(src, root, k + 1, e) = CallsTo(src, root, k, e)
  BY CallsAreCounted, Zenon DEF CountGoes
<1> QED
  BY <1>1, Zenon DEF Counted

\* In the define pass there are no calls yet.
LEMMA CountedNone ==
  ASSUME NEW es, NEW fs, NEW src, NEW more, NEW root, Counted(es, src, root, 0),
         \A e : e.kind = "Calls" /\ e \in DOMAIN fs => e \in DOMAIN es
  PROVE  Counted(fs, more, root, 0)
<1>1. \A s, e : CallsTo(s, root, 0, e) = {}
  BY DEF CallsTo
<1>2. \A e : e.kind = "Calls" /\ root <= e.src => e \notin DOMAIN es
  BY <1>1 DEF Counted
<1> QED
  BY <1>1, <1>2, Zenon DEF Counted

-----------------------------------------------------------------------------
\* What is known of the file that is walked.

\* In the define pass the walks go on with the class they are in, and every
\* name stands for the last definition there has been; in the link pass they go
\* on with what the name of the function they are in stands for.
Told(root) ==
  /\ Len(nodes) = NodeAt(source, root, Len(source))
  /\ \A name \in Name : name_index[name] = MeantIn(source, root, name)
  /\ context[1] = [container |-> root, current_fn |-> root]
  /\ pass = "Define" => Homes(context, source, root, Len(source))
  /\ pass = "Link" => Callers(context, source, root, next - 1)
  /\ Contained(edges, source, root)
  /\ Counted(edges, source, root, next - 1)

\* The walk around everything stays what it was.
LEMMA FirstStays ==
  ASSUME NEW ctx, NEW item \in Item, NEW node, NEW ctx2, Deeper(ctx, item, node, ctx2)
  PROVE  ctx2[1] = ctx[1]
<1>1. 1 \in 1..(item.depth + 1)
  BY DEF Item
<1> QED
  BY <1>1, Zenon DEF Deeper

\* A definition or an import.
LEMMA DefineTells ==
  ASSUME NEW root, File(root), Told(root), NEW item \in Item, item.kind # "call", Meet(item),
         NEW kind, AddChild(item, kind), Goes(root), NEW n, n = New, Len(nodes') = n,
         \A name \in Name :
           name_index'[name] = IF item.kind \in {"function", "class"} /\ item.name = name
                               THEN n ELSE name_index[name]
  PROVE  Told(root)'
<1> DEFINE src  == source
           more == source'
           ctx  == context
           ctx2 == context'
           k    == Len(source)
           p    == Around(item).container
<1>1. /\ nodes \in Seq(Payload) /\ Len(nodes) \in Nat /\ root \in Nat /\ root \in 1..Len(nodes)
      /\ src \in Seq(Item) /\ k \in Nat /\ ctx \in Seq(Pair(root..Len(nodes)))
  BY FileIs
<1>2. OneMoreItem(src, item, more) /\ pass = "Define" /\ pass' = "Define" /\ next = 1 /\ next' = 1
  BY MeetAdds, Zenon
<1>3. /\ more \in Seq(Item) /\ Len(more) = k + 1 /\ more[k + 1] = item /\ Begins(src, more)
      /\ k + 1 \in 1..Len(more) /\ k \in 0..Len(src)
  BY <1>1, <1>2 DEF OneMoreItem, Begins
<1>4. item.depth < Len(ctx) /\ item.depth \in Nat /\ item.depth \in 0..(Len(ctx) - 1)
  BY <1>1 DEF Meet, Item
<1>5. /\ Len(nodes) = NodeAt(src, root, k) /\ Homes(ctx, src, root, k)
      /\ \A name \in Name : name_index[name] = MeantIn(src, root, name)
      /\ ctx[1] = [container |-> root, current_fn |-> root]
      /\ Contained(edges, src, root) /\ Counted(edges, src, root, next - 1)
  BY <1>2, Zenon DEF Told
<1>6. n = NodeAt(more, root, k + 1)
  <2>1. Len(src) \in Nat
    BY <1>1
  <2> HIDE DEF more, k
  <2>2. NodeAt(more, root, k) = NodeAt(src, root, k)
    BY <1>3, <2>1, NodesOfLonger
  <2>3. NodeAt(more, root, k + 1)
          = NodeAt(more, root, k) + (IF more[k + 1].kind = "call" THEN 0 ELSE 1)
    BY <1>1, NodesCounted
  <2> QED
    BY <1>3, <1>5, <2>2, <2>3 DEF New
<1>7. Homes(ctx, more, root, k)
  <2>1. SameHomes(src, more, root, k)
    BY <1>1, <1>3, HomeOfLonger
  <2> QED
    BY <1>5, <2>1, Zenon DEF Homes, SameHomes
<1>8. p = Home(more, root, k, item.depth) /\ p \in root..Len(nodes)
  <2>1. ctx[item.depth + 1].container = Home(more, root, k, item.depth)
    BY <1>4, <1>7, Zenon DEF Homes
  <2> QED
    BY <1>4, <2>1, AroundIs DEF Around
<1>9. Tied(edges, last_sibling, p, n, edges', last_sibling') /\ Descend(item, n)
  BY Zenon DEF AddChild, LinkSibling, Tied
<1>10. Deeper(ctx, item, n, ctx2)
  <2>1. n \in root..Len(nodes')
    BY <1>1 DEF New
  <2> QED
    BY <1>9, <2>1, MeetIs, ContextGoes
<1>11. Ties(edges, last_sibling, p, n, edges')
  <2> DEFINE m    == Len(nodes)
             fs   == edges'
             sib2 == last_sibling'
  <2>1. m \in Nat /\ p \in 1..m /\ n = m + 1 /\ EdgesOK(edges, m)
    BY <1>1, <1>8 DEF File, New
  <2>2. last_sibling[p] \in 0..m
    <3>1. PICK b : Mirrors(b, nodes, edges, last_sibling)
      BY Zenon DEF File
    <3>2. last_sibling \in [1..m -> 0..m]
      BY <3>1, Zenon DEF Mirrors, T!BuildOK
    <3> QED
      BY <2>1, <3>2
  <2>3. Tied(edges, last_sibling, p, n, fs, sib2)
    BY <1>9
  <2> HIDE DEF m, fs, sib2, p
  <2>4. Ties(edges, last_sibling, p, n, fs)
    BY <2>1, <2>2, <2>3, TiedEdges, Zenon
  <2> QED
    BY <2>4 DEF fs
<1> DEFINE fs == edges'
           ni == name_index'
<1>12. Ties(edges, last_sibling, p, n, fs)
  BY <1>11
<1>13. \A name \in Name :
         ni[name] = IF item.kind \in {"function", "class"} /\ item.name = name
                    THEN n ELSE name_index[name]
  OBVIOUS
<1> HIDE DEF p, more, ctx, ctx2, k, fs, ni
<1>14. Homes(ctx2, more, root, Len(more))
  BY <1>1, <1>3, <1>4, <1>6, <1>7, <1>10, HomesGo
<1>15. Contained(fs, more, root)
  <2>1. p = Home(more, root, Len(src), item.depth) /\ p \in Nat /\ root <= p
    BY <1>1, <1>8 DEF k
  <2>2. n = NodeAt(more, root, Len(more))
    BY <1>3, <1>6
  <2> QED
    BY <1>1, <1>2, <1>5, <1>12, <2>1, <2>2, ContainedGrows, Zenon
<1>16. Counted(fs, more, root, 0)
  <2>1. \A e : e.kind = "Calls" /\ e \in DOMAIN fs => e \in DOMAIN edges
    <3>1. /\ Edge(p, n, "Contains").kind # "Calls"
          /\ Edge(last_sibling[p], n, "Precedes").kind # "Calls"
      BY DEF Edge
    <3> QED
      BY <1>12, <3>1, Zenon DEF Ties
  <2>2. Counted(edges, src, root, 0)
    BY <1>2, <1>5
  <2> QED
    BY <2>1, <2>2, CountedNone, Zenon
<1>17. \A name \in Name : ni[name] = MeantIn(more, root, name)
  <2>1. n = NodeAt(more, root, Len(more))
    BY <1>3, <1>6
  <2>2. \A name : MeantIn(more, root, name)
                    = IF item.kind \in {"function", "class"} /\ item.name = name
                      THEN NodeAt(more, root, Len(more)) ELSE MeantIn(src, root, name)
    BY <1>1, <1>2, MeantGrows
  <2> QED
    BY <1>5, <1>13, <2>1, <2>2
<1>18. ctx2[1] = [container |-> root, current_fn |-> root]
  BY <1>5, <1>10, FirstStays
<1>19. Len(nodes') = NodeAt(more, root, Len(more))
  BY <1>3, <1>6
<1>20. next' - 1 = 0
  BY <1>2
<1> QED
  BY <1>2, <1>14, <1>15, <1>16, <1>17, <1>18, <1>19, <1>20, Zenon DEF Told, more, ctx2, fs, ni

\* A call in the define pass.
LEMMA PassCallTells ==
  ASSUME NEW root, File(root), Told(root), NEW item \in Item, PassCall(item)
  PROVE  Told(root)'
<1> DEFINE src  == source
           more == source'
           ctx  == context
           ctx2 == context'
           k    == Len(source)
<1>0. /\ item.kind = "call" /\ Meet(item) /\ Descend(item, New)
      /\ UNCHANGED <<nodes, edges, name_index, last_sibling>>
  BY Zenon DEF PassCall
<1>1. /\ nodes \in Seq(Payload) /\ Len(nodes) \in Nat /\ root \in Nat /\ root \in 1..Len(nodes)
      /\ src \in Seq(Item) /\ k \in Nat /\ Len(src) \in Nat /\ ctx \in Seq(Pair(root..Len(nodes)))
  BY FileIs
<1>2. OneMoreItem(src, item, more) /\ pass = "Define" /\ pass' = "Define" /\ next = 1 /\ next' = 1
  BY <1>0, MeetAdds, Zenon
<1>3. /\ more \in Seq(Item) /\ Len(more) = k + 1 /\ more[k + 1] = item /\ Begins(src, more)
      /\ k + 1 \in 1..Len(more) /\ k \in 0..Len(src)
  BY <1>1, <1>2 DEF OneMoreItem, Begins
<1>4. item.depth < Len(ctx)
  BY <1>0 DEF Meet
<1>5. /\ Len(nodes) = NodeAt(src, root, k) /\ Homes(ctx, src, root, k)
      /\ \A name \in Name : name_index[name] = MeantIn(src, root, name)
      /\ ctx[1] = [container |-> root, current_fn |-> root]
      /\ Contained(edges, src, root) /\ Counted(edges, src, root, next - 1)
  BY <1>2, Zenon DEF Told
<1>6. Deeper(ctx, item, New, ctx2)
  <2>1. Meets(item) /\ Goes(root)
    BY <1>0, MeetIs, PassCallGoes, Zenon
  <2> QED
    BY <1>0, <2>1, ContextGoes
<1> HIDE DEF more, ctx, ctx2, k
<1>7. Len(nodes) = NodeAt(more, root, Len(more))
  <2>1. NodeAt(more, root, k) = NodeAt(src, root, k)
    BY <1>1, <1>3, NodesOfLonger
  <2>2. NodeAt(more, root, k + 1)
          = NodeAt(more, root, k) + (IF more[k + 1].kind = "call" THEN 0 ELSE 1)
    BY <1>1, NodesCounted
  <2> QED
    BY <1>0, <1>1, <1>3, <1>5, <2>1, <2>2
<1>8. Homes(ctx2, more, root, Len(more))
  <2>1. SameHomes(src, more, root, k)
    BY <1>1, <1>3, HomeOfLonger
  <2>2. Homes(ctx, more, root, k)
    BY <1>5, <2>1, Zenon DEF Homes, SameHomes
  <2>3. item.kind # "class"
    BY <1>0
  <2>4. Homes(ctx2, more, root, k + 1)
    BY <1>1, <1>3, <1>4, <1>6, <2>2, <2>3, HomesGo
  <2> QED
    BY <1>3, <2>4
<1>9. Contained(edges, more, root)
  BY <1>0, <1>1, <1>2, <1>5, ContainedStays, Zenon
<1>10. Counted(edges, more, root, 0)
  <2>1. Counted(edges, src, root, 0)
    BY <1>2, <1>5
  <2> QED
    BY <2>1, CountedNone, Zenon
<1>11. \A name \in Name : name_index[name] = MeantIn(more, root, name)
  <2>1. \A name : MeantIn(more, root, name)
                    = IF item.kind \in {"function", "class"} /\ item.name = name
                      THEN NodeAt(more, root, Len(more)) ELSE MeantIn(src, root, name)
    BY <1>1, <1>2, MeantGrows
  <2> QED
    BY <1>0, <1>5, <2>1
<1>12. ctx2[1] = [container |-> root, current_fn |-> root]
  BY <1>5, <1>6, FirstStays
<1>13. next' - 1 = 0
  BY <1>2
<1> QED
  BY <1>0, <1>2, <1>7, <1>8, <1>9, <1>10, <1>11, <1>12, <1>13, Zenon DEF Told, more, ctx2

\* The second walk starts outside every function.
LEMMA StartLinkTells ==
  ASSUME NEW root, File(root), Told(root), StartLink
  PROVE  Told(root)'
<1>1. /\ pass = "Define" /\ pass' = "Link" /\ context' = SubSeq(context, 1, 1)
      /\ UNCHANGED <<nodes, edges, name_index, last_sibling, source, next>> /\ next = 1
  BY Zenon DEF StartLink, File
<1>2. /\ Len(nodes) = NodeAt(source, root, Len(source))
      /\ \A name \in Name : name_index[name] = MeantIn(source, root, name)
      /\ context[1] = [container |-> root, current_fn |-> root]
      /\ Contained(edges, source, root) /\ Counted(edges, source, root, next - 1)
  BY <1>1, Zenon DEF Told
<1>3. context' \in Seq(Pair(root..Len(nodes'))) /\ Len(context') = 1
  <2>1. File(root)'
    BY StartLinkGoes
  <2>2. context' \in Seq(Pair(root..Len(nodes'))) /\ Len(context') = Width(source', Progress')
    BY <2>1, Zenon DEF File, Walk
  <2>3. Progress' = 0
    BY <1>1 DEF Progress
  <2> QED
    BY <2>2, <2>3 DEF Width
<1>4. context'[1] = context[1]
  <2>1. context \in Seq(Pair(root..Len(nodes)))
    BY FileIs
  <2> DEFINE ctx  == context
             ctx2 == context'
  <2>2. ctx2 = SubSeq(ctx, 1, 1) /\ Len(ctx2) = 1 /\ ctx \in Seq(Pair(root..Len(nodes)))
    BY <1>1, <1>3, <2>1
  <2> HIDE DEF ctx, ctx2
  <2>3. ctx2[1] = ctx[1]
    BY <2>2
  <2> QED
    BY <2>3 DEF ctx, ctx2
<1>5. Caller(source, root, 0, 0) = root
  <2>1. InsideOf(source, 0, 0, "function") = {}
    BY DEF InsideOf
  <2> QED
    BY <2>1, Zenon DEF Caller
<1>6. Callers(context', source, root, 0)
  <2>1. \A d \in 0..(Len(context') - 1) : d = 0
    BY <1>3
  <2>2. context'[0 + 1].current_fn = root
    BY <1>2, <1>4
  <2> QED
    BY <1>5, <2>1, <2>2, Zenon DEF Callers
<1>7. next' - 1 = 0 /\ next - 1 = 0
  BY <1>1
<1> QED
  BY <1>1, <1>2, <1>4, <1>6, <1>7, Zenon DEF Told

\* A step of the link pass, whatever it makes of the edges.
LEMMA RevisitTells ==
  ASSUME NEW root, File(root), Told(root), NEW item, Revisit(item), NEW node, Descend(item, node),
         Goes(root), item.kind \in {"function", "class"} => node \in root..Len(nodes),
         item.kind = "function" => node = MeantIn(source, root, item.name),
         Contained(edges', source, root), Counted(edges', source, root, next)
  PROVE  Told(root)'
<1> DEFINE src  == source
           ctx  == context
           ctx2 == context'
           k    == next - 1
<1>1. /\ Meets(item) /\ pass = "Link" /\ source' = source /\ next' = next + 1 /\ next \in Nat
      /\ pass' = pass /\ nodes' = nodes /\ name_index' = name_index
  BY RevisitIs DEF Revisit
<1>2. /\ src \in Seq(Item) /\ ctx \in Seq(Pair(root..Len(nodes))) /\ Len(src) \in Nat
      /\ next \in 1..(Len(src) + 1) /\ next <= Len(src) /\ src[next] = item
  BY FileIs DEF Revisit
<1>3. k \in Nat /\ k + 1 = next /\ k + 1 \in 1..Len(src) /\ item = src[k + 1] /\ next' - 1 = next
  BY <1>1, <1>2
<1>4. item \in Item /\ item.depth < Len(ctx)
  BY <1>1 DEF Meets
<1>5. /\ Len(nodes) = NodeAt(src, root, Len(src)) /\ Callers(ctx, src, root, k)
      /\ \A name \in Name : name_index[name] = MeantIn(src, root, name)
      /\ ctx[1] = [container |-> root, current_fn |-> root]
  BY <1>1, Zenon DEF Told
<1>6. Deeper(ctx, item, node, ctx2)
  BY <1>1, ContextGoes
<1> HIDE DEF ctx, ctx2, k
<1>7. Callers(ctx2, src, root, next)
  <2>1. Callers(ctx2, src, root, k + 1)
    BY <1>2, <1>3, <1>4, <1>5, <1>6, CallersGo
  <2> QED
    BY <1>3, <2>1
<1>8. ctx2[1] = [container |-> root, current_fn |-> root]
  BY <1>4, <1>5, <1>6, FirstStays
<1>9. pass' # "Define"
  BY <1>1
<1> QED
  BY <1>1, <1>3, <1>5, <1>7, <1>8, <1>9, Zenon DEF Told, ctx2

LEMMA LinkInsideTells ==
  ASSUME NEW root, File(root), Told(root), NEW item, LinkInside(item)
  PROVE  Told(root)'
<1> DEFINE found == name_index[item.name]
           none  == IF item.kind = "function" THEN Around(item).current_fn
                    ELSE Around(item).container
           node  == IF found # 0 THEN found ELSE none
           k     == next - 1
<1>1. Revisit(item) /\ Descend(item, node) /\ edges' = edges /\ item.kind # "call"
  BY Zenon DEF LinkInside
<1>2. /\ Meets(item) /\ pass = "Link" /\ next \in Nat /\ next <= Len(source) /\ source[next] = item
      /\ UNCHANGED <<nodes, name_index, last_sibling>>
  BY <1>1, RevisitIs DEF Revisit
<1>3. item \in Item /\ item.depth < Len(context)
  BY <1>2 DEF Meets
<1>4. /\ source \in Seq(Item) /\ next \in 1..Len(source) /\ k \in Nat /\ k + 1 = next
      /\ root \in 1..Len(nodes) /\ root \in Nat /\ Len(nodes) \in Nat
  BY <1>2, FileIs
<1>5. node \in root..Len(nodes)
  <2>1. found \in {0} \cup root..Len(nodes)
    BY <1>3, FileIs DEF Item
  <2>2. none \in root..Len(nodes)
    BY <1>3, AroundIs
  <2> QED
    BY <2>1, <2>2
<1>6. item.kind = "function" => node = MeantIn(source, root, item.name)
  <2> SUFFICES ASSUME item.kind = "function"
               PROVE  node = MeantIn(source, root, item.name)
    OBVIOUS
  <2>1. found = MeantIn(source, root, item.name)
    BY <1>3, Zenon DEF Told, Item
  <2>2. next \in Definitions(source, item.name)
    BY <1>2, <1>4 DEF Definitions
  <2>3. MeantIn(source, root, item.name) \in Nat /\ root <= MeantIn(source, root, item.name)
    BY <1>4, <2>2, DefinedIsMeant
  <2>4. found # 0
    BY <1>4, <2>1, <2>3
  <2> QED
    BY <2>1, <2>4
<1> HIDE DEF node, k
<1>7. Goes(root)
  BY LinkInsideGoes
<1>8. Contained(edges', source, root)
  BY <1>1, Zenon DEF Told
<1>9. Counted(edges', source, root, next)
  <2>1. Counted(edges, source, root, k)
    BY Zenon DEF Told, k
  <2>2. \A e : ~ Refers(source, root, k + 1, e)
    BY <1>1, <1>2, <1>4 DEF Refers
  <2>3. Counted(edges, source, root, k + 1)
    BY <1>4, <2>1, <2>2, CountedPast, Zenon
  <2> QED
    BY <1>1, <1>4, <2>3
<1> QED
  BY <1>1, <1>5, <1>6, <1>7, <1>8, <1>9, RevisitTells, Zenon

LEMMA LinkCallTells ==
  ASSUME NEW root, File(root), Told(root), NEW item, LinkCall(item)
  PROVE  Told(root)'
<1> DEFINE target == name_index[item.name]
           q  == Around(item).current_fn
           x  == Edge(q, target, "Calls")
           fs == edges'
           k  == next - 1
<1>1. /\ Revisit(item) /\ Descend(item, 0) /\ item.kind = "call"
      /\ edges' = IF target = 0 THEN edges ELSE BagAdd(edges, x)
  BY Zenon DEF LinkCall
<1>2. /\ Meets(item) /\ pass = "Link" /\ next \in Nat /\ next <= Len(source) /\ source[next] = item
  BY <1>1, RevisitIs DEF Revisit
<1>3. item \in Item /\ item.depth < Len(context)
  BY <1>2 DEF Meets
<1>4. /\ source \in Seq(Item) /\ next \in 1..Len(source) /\ k \in Nat /\ k + 1 = next
      /\ source[k + 1] = item /\ context \in Seq(Pair(root..Len(nodes)))
  BY <1>2, FileIs
<1>5. target = MeantIn(source, root, item.name) /\ q = Caller(source, root, k, item.depth)
  <2>1. target = MeantIn(source, root, item.name)
    BY <1>3, Zenon DEF Told, Item
  <2>2. item.depth \in 0..(Len(context) - 1)
    BY <1>3, <1>4 DEF Item
  <2>3. Callers(context, source, root, k)
    BY <1>2, Zenon DEF Told
  <2> HIDE DEF k
  <2>4. context[item.depth + 1].current_fn = Caller(source, root, k, item.depth)
    BY <2>2, <2>3, Zenon DEF Callers
  <2> QED
    BY <2>1, <2>4 DEF Around
<1>6. Contained(edges, source, root) /\ Counted(edges, source, root, k)
  BY Zenon DEF Told
<1>7. \A e : Refers(source, root, k + 1, e) <=> target # 0 /\ e = x
  <2>1. k + 1 - 1 = k
    BY <1>4
  <2> HIDE DEF target, q, k
  <2> QED
    BY <1>1, <1>4, <1>5, <2>1 DEF Refers, x
<1>8. EdgesOK(edges, Len(nodes))
  BY Zenon DEF File
<1>9. x.kind = "Calls"
  BY DEF Edge
<1> HIDE DEF target, q, x, k, fs
<1>10. Contained(fs, source, root) /\ Counted(fs, source, root, next)
  <2>1. CASE target = 0
    <3>1. fs = edges
      BY <1>1, <2>1 DEF fs
    <3>2. Counted(edges, source, root, k + 1)
      BY <1>4, <1>6, <1>7, <2>1, CountedPast, Zenon
    <3> QED
      BY <1>4, <1>6, <3>1, <3>2
  <2>2. CASE target # 0
    <3>1. fs = BagAdd(edges, x)
      BY <1>1, <2>2 DEF fs
    <3>2. OneMore(edges, x, fs)
      BY <1>8, <3>1, BagAddIs, Zenon DEF EdgesOK
    <3>3. Counted(fs, source, root, k + 1)
      BY <1>4, <1>6, <1>7, <2>2, <3>2, CountedCall, Zenon
    <3>4. \A e : e \in DOMAIN fs /\ e.kind = "Contains" <=> e \in DOMAIN edges /\ e.kind = "Contains"
      BY <1>9, <3>2 DEF OneMore
    <3> QED
      BY <1>4, <1>6, <3>3, <3>4, ContainedUntouched
  <2> QED
    BY <2>1, <2>2
<1>11. Goes(root)
  BY LinkCallGoes
<1>12. item.kind \notin {"function", "class"}
  BY <1>1
<1> QED
  BY <1>1, <1>10, <1>11, <1>12, RevisitTells, Zenon DEF fs

\* A new file: nothing is known yet, and nothing is there.
LEMMA IngestTells ==
  ASSUME Idle, NEW tree \in Tree, Ingest(tree), NEW n, n = New
  PROVE  Told(n)'
<1>1. /\ source' = <<>> /\ next' = 1 /\ pass' = "Define" /\ edges' = edges
      /\ name_index' = [x \in Name |-> 0]
      /\ context' = <<[container |-> n, current_fn |-> n]>>
  BY Zenon DEF Idle, Ingest
<1>2. EdgesOK(edges, Len(nodes)) /\ n = Len(nodes) + 1
  BY IngestStarts, Zenon DEF Idle
<1>3. Len(nodes) \in Nat /\ Len(nodes') = n
  <2>1. Goes(n) /\ File(n)'
    BY IngestStarts, Zenon
  <2>2. PICK b : Mirrors(b, nodes, edges, last_sibling)
    BY Zenon DEF Idle
  <2>3. nodes \in Seq(Payload)
    BY <2>2, Zenon DEF Mirrors
  <2> QED
    BY <1>2, <2>1, <2>3 DEF Goes, Ingest
<1>4. \A e \in DOMAIN edges : ~ (n <= e.src)
  <2> DEFINE m == Len(nodes)
  <2>1. \A e \in DOMAIN edges : e \in KeysOn(m)
    BY <1>2, Zenon DEF EdgesOK
  <2>2. \A e \in KeysOn(m) : ~ (n <= e.src)
    BY <1>2, <1>3 DEF KeysOn
  <2> QED
    BY <2>1, <2>2
<1>5. n \in Nat /\ Len(<<>>) = 0
  BY <1>2, <1>3
<1>6. Len(nodes') = NodeAt(<<>>, n, 0)
  BY <1>3, <1>5, NodesCounted
<1>7. \A name : MeantIn(<<>>, n, name) = 0
  <2>1. \A name : Definitions(<<>>, name) = {}
    BY DEF Definitions
  <2> QED
    BY <2>1, Zenon DEF MeantIn
<1>8. Homes(context', <<>>, n, 0)
  <2>1. InsideOf(<<>>, 0, 0, "class") = {}
    BY DEF InsideOf
  <2>2. Home(<<>>, n, 0, 0) = n
    BY <2>1, Zenon DEF Home
  <2>3. /\ \A d \in 0..(Len(context') - 1) : d = 0
        /\ context'[0 + 1].container = n
    BY <1>1
  <2> QED
    BY <2>2, <2>3, Zenon DEF Homes
<1>9. Contained(edges, <<>>, n)
  <2>1. \A e : ~ \E i \in 1..0 : Places(<<>>, n, i, e)
    OBVIOUS
  <2> QED
    BY <1>4, <1>5, <2>1 DEF Contained
<1>10. Counted(edges, <<>>, n, 0)
  <2>1. \A e : CallsTo(<<>>, n, 0, e) = {}
    BY DEF CallsTo
  <2> QED
    BY <1>4, <2>1 DEF Counted
<1>11. context'[1] = [container |-> n, current_fn |-> n]
  BY <1>1
<1>12. next' - 1 = 0 /\ pass' # "Link"
  BY <1>1
<1>13. \A name \in Name : name_index'[name] = 0
  BY <1>1
<1> QED
  BY <1>1, <1>5, <1>6, <1>7, <1>8, <1>9, <1>10, <1>11, <1>12, <1>13 DEF Told

\* Every file that is walked is told of.
ToldOf == \A root : File(root) => Told(root)

OneRoot == \A root : File(root) => Root = root

LEMMA OneRootNext == OneRoot'
<1>1. OneRoot
  BY RootIsMax, Zenon DEF OneRoot
<1> QED
  BY <1>1, PTL

\* A step of the call that is going on.
LEMMA FileTells ==
  ASSUME NEW root, File(root), Told(root), Next
  PROVE  Told(root)' \/ Idle'
<1>1. pass # "none"
  BY FileIs
<1>2. ASSUME NEW item \in Item, Define(item)
      PROVE  Told(root)'
  <2> DEFINE kind == IF item.kind = "function" THEN "Function" ELSE "Class"
  <2>1. /\ item.kind \in {"function", "class"} /\ Meet(item) /\ AddChild(item, kind)
        /\ name_index' = [name_index EXCEPT ![item.name] = New]
    BY <1>2, Zenon DEF Define
  <2>2. /\ name_index \in [Name -> {0} \cup root..Len(nodes)] /\ Len(nodes) \in Nat
        /\ root \in 1..Len(nodes)
    BY FileIs
  <2>3. /\ {0} \cup root..Len(nodes) \subseteq {0} \cup root..New
        /\ New \in {0} \cup root..New
    BY <2>2 DEF New
  <2>4. name_index' \in [Name -> {0} \cup root..New]
    BY <2>1, <2>2, <2>3
  <2>5. kind \in {"Function", "Class", "Import"} /\ item.kind # "call"
    BY <2>1
  <2>6. Goes(root) /\ Len(nodes') = New
    BY <2>1, <2>4, <2>5, DefineGoes, Zenon
  <2>7. \A name \in Name :
          name_index'[name] = IF item.kind \in {"function", "class"} /\ item.name = name
                              THEN New ELSE name_index[name]
    BY <2>1, <2>2
  <2>8. PICK n : n = New
    BY Zenon
  <2> HIDE DEF kind
  <2> QED
    BY <1>2, <2>1, <2>5, <2>6, <2>7, <2>8, DefineTells
<1>3. ASSUME NEW item \in Item, DefineImport(item)
      PROVE  Told(root)'
  <2>1. /\ item.kind = "import" /\ Meet(item) /\ AddChild(item, "Import")
        /\ name_index' = name_index
    BY <1>3, Zenon DEF DefineImport
  <2>2. /\ name_index \in [Name -> {0} \cup root..Len(nodes)] /\ Len(nodes) \in Nat
        /\ root \in 1..Len(nodes)
    BY FileIs
  <2>3. {0} \cup root..Len(nodes) \subseteq {0} \cup root..New
    BY <2>2 DEF New
  <2>4. name_index' \in [Name -> {0} \cup root..New]
    BY <2>1, <2>2, <2>3
  <2>5. "Import" \in {"Function", "Class", "Import"} /\ item.kind # "call"
    BY <2>1
  <2>6. Goes(root) /\ Len(nodes') = New
    BY <2>1, <2>4, <2>5, DefineGoes, Zenon
  <2>7. \A name \in Name :
          name_index'[name] = IF item.kind \in {"function", "class"} /\ item.name = name
                              THEN New ELSE name_index[name]
    BY <2>1
  <2>8. PICK n : n = New
    BY Zenon
  <2> QED
    BY <1>3, <2>1, <2>5, <2>6, <2>7, <2>8, DefineTells
<1>4. ASSUME NEW item \in Item, PassCall(item)
      PROVE  Told(root)'
  BY <1>4, PassCallTells, Zenon
<1>5. ASSUME NEW kind \in ItemKind, NEW name \in Name, NEW depth \in 0..Len(context)
      PROVE  [kind |-> kind, name |-> name, depth |-> depth] \in Item
  <2>1. depth \in Nat
    BY FileIs
  <2> QED
    BY <2>1 DEF Item
<1>6. ASSUME NEW kind \in ItemKind, NEW name \in Name, NEW depth \in 0..Len(context),
             LET item == [kind |-> kind, name |-> name, depth |-> depth]
             IN  Define(item) \/ DefineImport(item) \/ PassCall(item)
      PROVE  Told(root)'
  BY <1>2, <1>3, <1>4, <1>5, <1>6, Zenon
<1>7. ASSUME NEW item, LinkInside(item) \/ LinkCall(item)
      PROVE  Told(root)'
  BY <1>7, LinkInsideTells, LinkCallTells, Zenon
<1>8. ASSUME NEW tree, Ingest(tree)
      PROVE  FALSE
  BY <1>1, <1>8, Zenon DEF Ingest
<1> QED
  BY <1>6, <1>7, <1>8, StartLinkTells, ReturnEnds, Zenon DEF Next

FullInv == CodeInv /\ ToldOf

LEMMA FullInvInductive ==
  /\ Init => FullInv
  /\ FullInv /\ [Next]_vars => FullInv'
<1>1. ASSUME Init
      PROVE  FullInv
  <2>1. CodeInv
    BY <1>1, CodeInvInductive
  <2>2. ASSUME NEW root, File(root)
        PROVE  FALSE
    <3>1. pass \in {"Define", "Link"}
      BY <2>2, FileIs
    <3> QED
      BY <1>1, <3>1 DEF Init
  <2> QED
    BY <2>1, <2>2, Zenon DEF FullInv, ToldOf
<1>2. ASSUME FullInv, [Next]_vars
      PROVE  FullInv'
  <2>1. CodeInv'
    BY <1>2, CodeInvInductive DEF FullInv
  <2>2. Idle' => ToldOf'
    <3>1. ASSUME Idle', NEW root, File(root)'
          PROVE  FALSE
      <4>1. pass' = "none" /\ pass' \in {"Define", "Link"}
        BY <3>1, Zenon DEF Idle, File
      <4> QED
        BY <4>1
    <3> QED
      BY <3>1, Zenon DEF ToldOf
  <2>3. ASSUME NEW root, File(root)', Told(root)'
        PROVE  ToldOf'
    <3>1. \A other : File(other)' => other = root
      BY <2>3, OneRootNext, Zenon DEF OneRoot
    <3> QED
      BY <2>3, <3>1, Zenon DEF ToldOf
  <2>4. ASSUME Next, Idle
        PROVE  ToldOf'
    <3>1. PICK tree \in Tree : Ingest(tree)
      BY <2>4, IdleStarts
    <3>2. PICK n : n = New
      BY Zenon
    <3>3. File(n)' /\ Told(n)'
      BY <2>4, <3>1, <3>2, IngestStarts, IngestTells, Zenon
    <3> QED
      BY <2>3, <3>3
  <2>5. ASSUME Next, NEW root, File(root)
        PROVE  ToldOf'
    <3>1. Told(root)
      BY <1>2, <2>5 DEF FullInv, ToldOf
    <3>2. Told(root)' \/ Idle'
      BY <2>5, <3>1, FileTells, Zenon
    <3>3. File(root)' \/ Idle'
      BY <2>5, FileGoes, Zenon
    <3> QED
      BY <2>2, <2>3, <3>2, <3>3
  <2>6. ASSUME UNCHANGED vars
        PROVE  ToldOf'
    <3>1. /\ nodes' = nodes /\ edges' = edges /\ name_index' = name_index
          /\ last_sibling' = last_sibling /\ source' = source /\ pass' = pass /\ next' = next
          /\ context' = context
      BY <2>6 DEF vars
    <3>2. Progress' = Progress
      BY <3>1 DEF Progress
    <3>3. ASSUME NEW root, File(root)'
          PROVE  Told(root)'
      <4>1. Walk(root)
        BY <3>1, <3>2, <3>3, Zenon DEF File, Walk
      <4>2. File(root)
        BY <3>1, <3>3, <4>1, Zenon DEF File
      <4>3. Told(root)
        BY <1>2, <4>2 DEF FullInv, ToldOf
      <4> QED
        BY <3>1, <4>3, Zenon DEF Told
    <3> QED
      BY <3>3, Zenon DEF ToldOf
  <2>7. CodeInv
    BY <1>2 DEF FullInv
  <2>8. ToldOf'
    BY <1>2, <2>4, <2>5, <2>6, <2>7, Zenon DEF CodeInv
  <2> QED
    BY <2>1, <2>8 DEF FullInv
<1> QED
  BY <1>1, <1>2

\* The inductive invariant with what is known of the file that is walked.
THEOREM FullInvariant == Spec => []FullInv
<1>1. Init => FullInv
  BY FullInvInductive
<1>2. FullInv /\ [Next]_vars => FullInv'
  BY FullInvInductive
<1> QED
  BY <1>1, <1>2, PTL DEF Spec

-----------------------------------------------------------------------------
\* Classes and calls.

\* What the properties say of items is what the invariant says of them.
SameMeaning(root) ==
  /\ Root = root
  /\ \A j : NodeOf(j) = NodeAt(source, root, j)
  /\ \A name : Meant(name) = MeantIn(source, root, name)
  /\ \A i \in 1..Len(source) : \A kind :
       Enclosing(i, kind) = InsideOf(source, i - 1, source[i].depth, kind)

LEMMA MeaningIsSame ==
  ASSUME NEW root, File(root)
  PROVE  SameMeaning(root)
<1>1. Root = root
  BY RootIsMax
<1>2. \A j : NodeOf(j) = NodeAt(source, root, j)
  BY <1>1, Zenon DEF NodeOf, NodeAt
<1>3. \A name : Meant(name) = MeantIn(source, root, name)
  BY <1>2, Zenon DEF Meant, MeantIn, Definitions
<1>4. ASSUME NEW i \in 1..Len(source), NEW kind
      PROVE  Enclosing(i, kind) = InsideOf(source, i - 1, source[i].depth, kind)
  <2>1. Len(source) \in Nat
    BY FileIs
  <2>2. ASSUME NEW j \in 1..(i - 1)
        PROVE  (\A m \in (j + 1)..i : source[j].depth < source[m].depth)
                 <=> (/\ source[j].depth < source[i].depth
                      /\ \A m \in (j + 1)..(i - 1) : source[j].depth < source[m].depth)
    <3>1. \A m : m \in (j + 1)..i <=> m = i \/ m \in (j + 1)..(i - 1)
      BY <2>1
    <3> QED
      BY <3>1, Zenon
  <2> QED
    BY <2>2 DEF Enclosing, InsideOf
<1> QED
  BY <1>1, <1>2, <1>3, <1>4, Zenon DEF SameMeaning

LEMMA InvClasses ==
  ASSUME FullInv
  PROVE  ContainsFollowsClasses
<1> SUFFICES ASSUME pass # "none"
             PROVE  {e \in Of("Contains") : e.src >= Root} =
                      {LET classes == Enclosing(i, "class")
                       IN  Edge(IF classes = {} THEN Root ELSE NodeOf(Max(classes)), NodeOf(i), "Contains")
                       : i \in {j \in 1..Len(source) : source[j].kind # "call"}}
  BY Zenon DEF ContainsFollowsClasses
<1>1. PICK root : File(root)
  BY Zenon DEF FullInv, CodeInv, Idle
<1>2. Contained(edges, source, root)
  BY <1>1, Zenon DEF FullInv, ToldOf, Told
<1>3. SameMeaning(root)
  BY <1>1, MeaningIsSame
<1> DEFINE place(i) == LET classes == Enclosing(i, "class")
                       IN  Edge(IF classes = {} THEN Root ELSE NodeOf(Max(classes)), NodeOf(i), "Contains")
           items == {j \in 1..Len(source) : source[j].kind # "call"}
           here  == {e \in Of("Contains") : e.src >= Root}
<1>4. \A i \in 1..Len(source) :
        place(i) = Edge(Home(source, root, i - 1, source[i].depth), NodeAt(source, root, i), "Contains")
  BY <1>3, Zenon DEF SameMeaning, Home
<1>5. \A e : e \in here <=> e \in DOMAIN edges /\ e.kind = "Contains" /\ root <= e.src
  <2>1. Root = root
    BY <1>3 DEF SameMeaning
  <2>2. \A e : e.src >= root <=> root <= e.src
    OBVIOUS
  <2> QED
    BY <2>1, <2>2, Zenon DEF Of, BagToSet
<1> HIDE DEF place
<1>6. \A e : e \in here <=> \E i \in items : e = place(i)
  <2> HIDE DEF here
  <2>1. \A e : e \in here <=> \E i \in 1..Len(source) : Places(source, root, i, e)
    BY <1>2, <1>5, Zenon DEF Contained
  <2>2. \A e : \A i \in 1..Len(source) :
          Places(source, root, i, e) <=> source[i].kind # "call" /\ e = place(i)
    BY <1>4, Zenon DEF Places
  <2> QED
    BY <2>1, <2>2, Zenon
<1> HIDE DEF here, items
<1>7. here = {place(i) : i \in items}
  BY <1>6
<1> QED
  BY <1>7, Zenon DEF here, items, place

\* Everything belongs to the class it is written in, or to the module, with one
\* Contains edge (the define pass of `walk`).
THEOREM ClassesFollowed == Spec => []ContainsFollowsClasses
BY FullInvariant, InvClasses, PTL

LEMMA InvCalls ==
  ASSUME FullInv
  PROVE  CallsGoByName
<1> DEFINE caller(i) == LET fns == Enclosing(i, "function")
                        IN  IF fns = {} THEN Root ELSE Meant(source[Max(fns)].name)
           calls     == {i \in 1..(next - 1) : source[i].kind = "call" /\ Meant(source[i].name) # 0}
           edge(i)   == Edge(caller(i), Meant(source[i].name), "Calls")
           here      == {e \in Of("Calls") : e.src >= Root}
           same(i)   == {j \in calls : edge(j) = edge(i)}
<1> SUFFICES ASSUME pass # "none"
             PROVE  /\ here = {edge(i) : i \in calls}
                    /\ \A i \in calls : edges[edge(i)] = Cardinality(same(i))
  BY Zenon DEF CallsGoByName
<1>1. PICK root : File(root)
  BY Zenon DEF FullInv, CodeInv, Idle
<1>2. Counted(edges, source, root, next - 1)
  BY <1>1, Zenon DEF FullInv, ToldOf, Told
<1>3. SameMeaning(root)
  BY <1>1, MeaningIsSame
<1>4. /\ source \in Seq(Item) /\ Len(source) \in Nat /\ next \in 1..(Len(source) + 1)
      /\ root \in Nat
  BY <1>1, FileIs
<1> DEFINE k == next - 1
<1>5. k \in 0..Len(source) /\ \A i \in 1..k : i \in 1..Len(source)
  BY <1>4
<1>6. \A i \in 1..k : caller(i) = Caller(source, root, i - 1, source[i].depth)
  <2> HIDE DEF k
  <2> QED
    BY <1>3, <1>5, Zenon DEF SameMeaning, Caller
<1> HIDE DEF caller
<1>7. \A i \in 1..k : edge(i) = Edge(Caller(source, root, i - 1, source[i].depth),
                                     MeantIn(source, root, source[i].name), "Calls")
  BY <1>3, <1>6, Zenon DEF SameMeaning
<1>8. \A i : i \in calls <=> /\ i \in 1..k /\ source[i].kind = "call"
                             /\ MeantIn(source, root, source[i].name) # 0
  BY <1>3, Zenon DEF SameMeaning
<1> HIDE DEF edge, calls
<1>9. \A e : CallsTo(source, root, k, e) = {i \in calls : e = edge(i)}
  <2> TAKE e
  <2>1. \A i : i \in CallsTo(source, root, k, e) <=> i \in calls /\ e = edge(i)
    <3> HIDE DEF k
    <3> QED
      BY <1>7, <1>8, Zenon DEF CallsTo, Refers
  <2> HIDE DEF k
  <2> QED
    BY <2>1
<1>10. \A i \in calls : edge(i).kind = "Calls" /\ root <= edge(i).src
  <2> TAKE i \in calls
  <2>1. i \in 1..k
    BY <1>8
  <2>2. edge(i).kind = "Calls" /\ edge(i).src = Caller(source, root, i - 1, source[i].depth)
    BY <1>7, <2>1 DEF Edge
  <2>3. i - 1 \in 0..Len(source)
    BY <1>4, <2>1
  <2>4. root <= Caller(source, root, i - 1, source[i].depth)
    BY <1>4, <2>3, CallersAreInside
  <2> QED
    BY <2>2, <2>4
<1>11. \A e : e.kind = "Calls" /\ root <= e.src =>
         /\ e \in DOMAIN edges <=> {i \in calls : e = edge(i)} # {}
         /\ e \in DOMAIN edges => edges[e] = Cardinality({i \in calls : e = edge(i)})
  BY <1>2, <1>9, Zenon DEF Counted
<1>12. \A e : e \in here <=> e \in DOMAIN edges /\ e.kind = "Calls" /\ root <= e.src
  <2>1. Root = root
    BY <1>3 DEF SameMeaning
  <2>2. \A e : e.src >= root <=> root <= e.src
    OBVIOUS
  <2> QED
    BY <2>1, <2>2, Zenon DEF Of, BagToSet
<1> HIDE DEF here, k
<1>13. \A e : e \in here <=> \E i \in calls : e = edge(i)
  <2> TAKE e
  <2>1. ASSUME e \in here
        PROVE  \E i \in calls : e = edge(i)
    BY <1>11, <1>12, <2>1
  <2>2. ASSUME NEW i \in calls, e = edge(i)
        PROVE  e \in here
    <3>1. e.kind = "Calls" /\ root <= e.src
      BY <1>10, <2>2
    <3>2. i \in {j \in calls : e = edge(j)}
      BY <2>2
    <3> QED
      BY <1>11, <1>12, <3>1, <3>2
  <2> QED
    BY <2>1, <2>2
<1>14. \A i \in calls : edges[edge(i)] = Cardinality(same(i))
  <2> TAKE i \in calls
  <2> DEFINE e == edge(i)
  <2>1. same(i) = {j \in calls : e = edge(j)}
    BY Zenon
  <2>2. e.kind = "Calls" /\ root <= e.src /\ e \in here
    BY <1>10, <1>13
  <2>3. edges[e] = Cardinality({j \in calls : e = edge(j)})
    BY <1>11, <1>12, <2>2, Zenon
  <2> QED
    BY <2>1, <2>3
<1>15. here = {edge(i) : i \in calls}
  BY <1>13
<1> QED
  BY <1>14, <1>15, Zenon

\* A call counts once on the edge between what the names stand for, over the
\* whole file, and not at all if its name is not defined there (the link pass
\* of `walk`).
THEOREM CallsFollowNames == Spec => []CallsGoByName
BY FullInvariant, InvCalls, PTL
=============================================================================
