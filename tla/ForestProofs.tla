---------------------------- MODULE ForestProofs ---------------------------
(***************************************************************************)
(* What applying operations does to a view, for any view and operation of  *)
(* the right type: types, how the maps hang together, and that nodes and   *)
(* weights follow from the set of operations applied.                      *)
(***************************************************************************)
EXTENDS Forest, NumberProofs

Tag == [replica : Replica, hlc : Hlc]
StampedOp == [tag : Tag, op : Operation]

TaggedSet(S) == [adds : [S -> SUBSET Tag], removes : [S -> SUBSET Tag]]
Bucket == 0..(2^Width - 1)
Counter == [pos : [Replica -> Bucket], neg : [Replica -> Bucket]]

View ==
  [nodes              : TaggedSet(NodeId),
   node_payload       : [NodeId -> Payload \cup {None}],
   node_payload_tag   : [NodeId -> Tag \cup {None}],
   node_embedding_tag : [NodeId -> Tag \cup {None}],
   edges              : TaggedSet(EdgeKey),
   edge_weight        : [EdgeKey -> Counter]]

-----------------------------------------------------------------------------
\* What applying an operation does to a view.

\* Values wrap into a bucket.
LEMMA WrapType == \A n \in Int : Wrap(n) \in Bucket
<1>1. 2^Width \in Nat \ {0}
  BY WidthAssumption
<1>2. ASSUME NEW m \in Nat \ {0}, NEW n \in Int
      PROVE  n % m \in 0..(m - 1)
  BY <1>2
<1> QED
  BY <1>1, <1>2 DEF Wrap, Bucket

\* PnCounter::incr and PnCounter::decr change one bucket.
LEMMA CounterTypes ==
  ASSUME NEW c \in Counter, NEW r \in Replica, NEW amount \in Int
  PROVE  Incr(c, r, amount) \in Counter /\ Decr(c, r, amount) \in Counter
<1>1. c.pos[r] + amount \in Int /\ c.neg[r] + amount \in Int
  BY DEF Counter, Bucket
<1>2. Wrap(c.pos[r] + amount) \in Bucket /\ Wrap(c.neg[r] + amount) \in Bucket
  BY <1>1, WrapType
<1> QED
  BY <1>2 DEF Incr, Decr, Counter

\* A view is there for every replica from the start.
LEMMA NewViewType == NewView \in View
<1>1. 0 \in Bucket
  BY WidthAssumption DEF Bucket
<1> QED
  BY <1>1 DEF NewView, View, NewSet, NewCounter, TaggedSet, Counter

\* OrSet::add and OrSet::remove.
LEMMA SetTypes ==
  ASSUME NEW S, NEW set \in TaggedSet(S), NEW e \in S, NEW tag \in Tag
  PROVE  /\ Add(set, e, tag) \in TaggedSet(S)
         /\ Add(set, e, tag).adds = [set.adds EXCEPT ![e] = @ \cup {tag}]
         /\ Add(set, e, tag).removes = set.removes
         /\ Remove(set, e) \in TaggedSet(S)
         /\ Remove(set, e).adds = set.adds
         /\ Remove(set, e).removes = [set.removes EXCEPT ![e] = @ \cup set.adds[e]]
BY DEF Add, Remove, TaggedSet

\* The arm for AddNode.
LEMMA AddNodeEffect ==
  ASSUME NEW v \in View, NEW s \in StampedOp, s.op.type = "AddNode"
  PROVE  LET w == Materialize(v, s)
             id == s.op.id
         IN  /\ id \in NodeId /\ s.op.payload \in Payload
             /\ w \in View
             /\ w.nodes = Add(v.nodes, id, s.tag)
             /\ w.edges = v.edges /\ w.edge_weight = v.edge_weight
             /\ w.node_embedding_tag = v.node_embedding_tag
             /\ IF Replaces(s.tag, v.node_payload_tag[id])
                THEN /\ w.node_payload = [v.node_payload EXCEPT ![id] = s.op.payload]
                     /\ w.node_payload_tag = [v.node_payload_tag EXCEPT ![id] = s.tag]
                ELSE /\ w.node_payload = v.node_payload
                     /\ w.node_payload_tag = v.node_payload_tag
<1> DEFINE id == s.op.id
<1>1. s.tag \in Tag /\ id \in NodeId /\ s.op.payload \in Payload
  BY DEF StampedOp, Operation
<1>2. Materialize(v, s) = ApplyAddNode(v, s.tag, s.op)
  BY DEF Materialize
<1>3. Add(v.nodes, id, s.tag) \in TaggedSet(NodeId)
  BY <1>1, SetTypes DEF View
<1> DEFINE nodes == Add(v.nodes, id, s.tag)
<1>4. CASE Replaces(s.tag, v.node_payload_tag[id])
  <2> DEFINE payloads == [v.node_payload EXCEPT ![id] = s.op.payload]
             tags     == [v.node_payload_tag EXCEPT ![id] = s.tag]
  <2>1. payloads \in [NodeId -> Payload \cup {None}] /\ tags \in [NodeId -> Tag \cup {None}]
    BY <1>1 DEF View
  <2>2. Materialize(v, s) = [v EXCEPT !.nodes = nodes, !.node_payload = payloads,
                                      !.node_payload_tag = tags]
    BY <1>2, <1>4 DEF ApplyAddNode, View
  <2> HIDE DEF nodes, payloads, tags
  <2>3. Materialize(v, s) \in View
    BY <1>3, <2>1, <2>2 DEF View, nodes
  <2> QED
    BY <1>1, <1>4, <2>2, <2>3 DEF View, nodes, payloads, tags
<1>5. CASE ~ Replaces(s.tag, v.node_payload_tag[id])
  <2>1. Materialize(v, s) = [v EXCEPT !.nodes = nodes]
    BY <1>2, <1>5 DEF ApplyAddNode, View
  <2> HIDE DEF nodes
  <2> QED
    BY <1>1, <1>3, <1>5, <2>1 DEF View, nodes
<1> QED
  BY <1>4, <1>5

\* The arm for RemoveNode.
LEMMA RemoveNodeEffect ==
  ASSUME NEW v \in View, NEW s \in StampedOp, s.op.type = "RemoveNode"
  PROVE  /\ s.op.id \in NodeId
         /\ Materialize(v, s) \in View
         /\ Materialize(v, s) = [v EXCEPT !.nodes = Remove(v.nodes, s.op.id)]
<1>1. s.tag \in Tag /\ s.op.id \in NodeId
  BY DEF StampedOp, Operation
<1>2. Materialize(v, s) = ApplyRemoveNode(v, s.op)
  BY DEF Materialize
<1>3. Remove(v.nodes, s.op.id) \in TaggedSet(NodeId)
  BY <1>1, SetTypes DEF View
<1> QED
  BY <1>1, <1>2, <1>3 DEF ApplyRemoveNode, View

\* The arm for SetEmbedding.
LEMMA SetEmbeddingEffect ==
  ASSUME NEW v \in View, NEW s \in StampedOp, s.op.type = "SetEmbedding"
  PROVE  LET w == Materialize(v, s)
             id == s.op.id
         IN  /\ id \in NodeId /\ s.op.embedding \in Embedding
             /\ w \in View
             /\ w.nodes = v.nodes /\ w.edges = v.edges /\ w.edge_weight = v.edge_weight
             /\ w.node_payload_tag = v.node_payload_tag
             /\ IF Replaces(s.tag, v.node_embedding_tag[id])
                THEN /\ w.node_embedding_tag = [v.node_embedding_tag EXCEPT ![id] = s.tag]
                     /\ w.node_payload =
                          [v.node_payload EXCEPT
                             ![id] = IF @ = None THEN None
                                     ELSE [@ EXCEPT !.embedding = s.op.embedding]]
                ELSE w = v
<1> DEFINE id == s.op.id
           p  == v.node_payload[id]
           q  == IF p = None THEN None ELSE [p EXCEPT !.embedding = s.op.embedding]
<1>1. s.tag \in Tag /\ id \in NodeId /\ s.op.embedding \in Embedding
  BY DEF StampedOp, Operation
<1>2. Materialize(v, s) = ApplySetEmbedding(v, s.tag, s.op)
  BY DEF Materialize
<1>3. p \in Payload \cup {None}
  BY <1>1 DEF View
<1>4. q \in Payload \cup {None}
  BY <1>1, <1>3 DEF Payload
<1>5. ApplySetEmbedding(v, s.tag, s.op) =
        IF Replaces(s.tag, v.node_embedding_tag[id])
        THEN [v EXCEPT !.node_embedding_tag = [v.node_embedding_tag EXCEPT ![id] = s.tag],
                       !.node_payload = [v.node_payload EXCEPT ![id] = q]]
        ELSE v
  BY <1>1 DEF ApplySetEmbedding, View
<1>6. CASE Replaces(s.tag, v.node_embedding_tag[id])
  <2> DEFINE payloads == [v.node_payload EXCEPT ![id] = q]
             tags     == [v.node_embedding_tag EXCEPT ![id] = s.tag]
  <2> HIDE DEF q
  <2>1. payloads \in [NodeId -> Payload \cup {None}] /\ tags \in [NodeId -> Tag \cup {None}]
    BY <1>1, <1>4 DEF View
  <2>2. Materialize(v, s) = [v EXCEPT !.node_embedding_tag = tags, !.node_payload = payloads]
    BY <1>2, <1>5, <1>6
  <2> HIDE DEF payloads, tags
  <2>3. Materialize(v, s) \in View
    BY <2>1, <2>2 DEF View
  <2>4. payloads = [v.node_payload EXCEPT ![id] = IF @ = None THEN None
                                                  ELSE [@ EXCEPT !.embedding = s.op.embedding]]
    BY DEF payloads, q
  <2>5. /\ Materialize(v, s).node_embedding_tag = tags
        /\ Materialize(v, s).node_payload = payloads
        /\ Materialize(v, s).nodes = v.nodes /\ Materialize(v, s).edges = v.edges
        /\ Materialize(v, s).edge_weight = v.edge_weight
        /\ Materialize(v, s).node_payload_tag = v.node_payload_tag
    BY <2>2 DEF View
  <2> QED
    BY <1>1, <1>6, <2>3, <2>4, <2>5 DEF tags
<1>7. CASE ~ Replaces(s.tag, v.node_embedding_tag[id])
  BY <1>1, <1>2, <1>5, <1>7
<1> QED
  BY <1>6, <1>7

\* The arms for edges leave the nodes alone.
LEMMA EdgeEffect ==
  ASSUME NEW v \in View, NEW s \in StampedOp,
         s.op.type \in {"AddEdge", "RemoveEdge", "Reinforce", "Decay"}
  PROVE  LET w == Materialize(v, s)
         IN  /\ w \in View
             /\ w.nodes = v.nodes /\ w.node_payload = v.node_payload
             /\ w.node_payload_tag = v.node_payload_tag
             /\ w.node_embedding_tag = v.node_embedding_tag
             /\ w.edges = CASE s.op.type = "AddEdge" -> Add(v.edges, s.op.key, s.tag)
                            [] s.op.type = "RemoveEdge" -> Remove(v.edges, s.op.key)
                            [] OTHER -> v.edges
<1> DEFINE k == s.op.key
           c == v.edge_weight[k]
<1>1. s.tag \in Tag /\ s.tag.replica \in Replica /\ k \in EdgeKey
  BY DEF StampedOp, Operation, Tag
<1>2. c \in Counter
  BY <1>1 DEF View
<1>3. Add(v.edges, k, s.tag) \in TaggedSet(EdgeKey) /\ Remove(v.edges, k) \in TaggedSet(EdgeKey)
  BY <1>1, SetTypes DEF View
<1> HIDE DEF k, c
<1>4. CASE s.op.type = "AddEdge"
  <2> DEFINE a == s.op.initial_weight
             d == CASE a > 0 -> Incr(c, s.tag.replica, a)
                    [] a < 0 -> Decr(c, s.tag.replica, -a)
                    [] a = 0 -> c
  <2>1. a \in Int
    BY <1>4, WeightAssumption DEF StampedOp, Operation
  <2>2. -a \in Int /\ Incr(c, s.tag.replica, a) \in Counter /\ Decr(c, s.tag.replica, -a) \in Counter
    BY <1>1, <1>2, <2>1, CounterTypes
  <2> HIDE DEF a
  <2>3. d \in Counter
    BY <1>2, <2>1, <2>2
  <2>4. Materialize(v, s) = [v EXCEPT !.edges = Add(v.edges, k, s.tag),
                                      !.edge_weight = [v.edge_weight EXCEPT ![k] = d]]
    BY <1>1, <1>4 DEF Materialize, ApplyAddEdge, View, k, c, a
  <2> DEFINE edges == Add(v.edges, k, s.tag)
             weights == [v.edge_weight EXCEPT ![k] = d]
  <2> HIDE DEF d
  <2>5. weights \in [EdgeKey -> Counter]
    BY <1>1, <2>3 DEF View
  <2>6. Materialize(v, s) = [v EXCEPT !.edges = edges, !.edge_weight = weights]
    BY <2>4
  <2> HIDE DEF edges, weights
  <2> QED
    BY <1>3, <1>4, <2>5, <2>6 DEF View, edges, k
<1>5. CASE s.op.type = "RemoveEdge"
  <2>1. Materialize(v, s) = [v EXCEPT !.edges = Remove(v.edges, k)]
    BY <1>1, <1>5 DEF Materialize, ApplyRemoveEdge, View, k
  <2> QED
    BY <1>1, <1>3, <1>5, <2>1 DEF View, k
<1>6. CASE s.op.type \in {"Reinforce", "Decay"}
  <2> DEFINE d == IF s.op.type = "Reinforce" THEN Incr(c, s.op.replica, s.op.amount)
                  ELSE Decr(c, s.op.replica, s.op.amount)
  <2>1. s.op.amount \in Int /\ s.op.replica \in Replica
    BY <1>6 DEF StampedOp, Operation
  <2>2. d \in Counter
    BY <1>2, <2>1, CounterTypes
  <2>3. Materialize(v, s) = [v EXCEPT !.edge_weight = [v.edge_weight EXCEPT ![k] = d]]
    BY <1>1, <1>6 DEF Materialize, ApplyReinforce, ApplyDecay, View, k, c
  <2> HIDE DEF d
  <2> QED
    BY <1>1, <1>6, <2>2, <2>3 DEF View, k
<1> QED
  BY <1>4, <1>5, <1>6

\* Applying an operation keeps the shape of the views.
LEMMA MaterializeType ==
  ASSUME NEW v \in View, NEW s \in StampedOp
  PROVE  /\ Materialize(v, s) \in View
         /\ s.op.type \in {"AddNode", "RemoveNode", "SetEmbedding",
                           "AddEdge", "RemoveEdge", "Reinforce", "Decay"}
<1>1. s.op.type \in {"AddNode", "RemoveNode", "SetEmbedding",
                     "AddEdge", "RemoveEdge", "Reinforce", "Decay"}
  BY DEF StampedOp, Operation
<1> QED
  BY <1>1, AddNodeEffect, RemoveNodeEffect, SetEmbeddingEffect, EdgeEffect

\* ViewOK of a view v where the tags in T are applied.
NodeOK(v, T, id) ==
  /\ v.nodes.removes[id] \subseteq v.nodes.adds[id]
  /\ v.nodes.adds[id] \subseteq T
  /\ IF v.nodes.adds[id] = {}
     THEN v.node_payload[id] = None /\ v.node_payload_tag[id] = None
     ELSE v.node_payload[id] \in Payload /\ v.node_payload_tag[id] \in v.nodes.adds[id]
  /\ v.node_embedding_tag[id] \in T \cup {None}

EdgeOK(v, T, k) ==
  /\ v.edges.removes[k] \subseteq v.edges.adds[k]
  /\ v.edges.adds[k] \subseteq T

MapsOK(v, T) == (\A id \in NodeId : NodeOK(v, T, id)) /\ (\A k \in EdgeKey : EdgeOK(v, T, k))

\* Applying an operation keeps the maps together.
LEMMA MaterializeOK ==
  ASSUME NEW v \in View, NEW s \in StampedOp, NEW T, MapsOK(v, T)
  PROVE  MapsOK(Materialize(v, s), T \cup {s.tag})
<1> DEFINE w == Materialize(v, s)
           U == T \cup {s.tag}
<1>1. s.tag \in Tag /\ None \notin Tag /\ None \notin Payload
  BY NoneAssumption DEF StampedOp, Tag
<1>2. ASSUME NEW id \in NodeId, NodeOK(v, T, id),
             w.nodes.adds[id] = v.nodes.adds[id],
             w.nodes.removes[id] = v.nodes.removes[id] \/ w.nodes.removes[id] = v.nodes.removes[id] \cup v.nodes.adds[id],
             w.node_payload[id] = v.node_payload[id],
             w.node_payload_tag[id] = v.node_payload_tag[id],
             w.node_embedding_tag[id] = v.node_embedding_tag[id]
      PROVE  NodeOK(w, U, id)
  <2>1. w.nodes.removes[id] \subseteq w.nodes.adds[id]
    BY <1>2 DEF NodeOK
  <2> HIDE DEF w
  <2> QED
    BY <1>2, <2>1 DEF NodeOK
<1>3. ASSUME NEW k \in EdgeKey, EdgeOK(v, T, k), w.edges = v.edges
      PROVE  EdgeOK(w, U, k)
  BY <1>3 DEF EdgeOK
<1>4. (\A id \in NodeId : NodeOK(v, T, id)) /\ (\A k \in EdgeKey : EdgeOK(v, T, k))
  BY DEF MapsOK
<1>5. v.nodes \in TaggedSet(NodeId) /\ v.edges \in TaggedSet(EdgeKey)
  BY DEF View
<1>6. CASE s.op.type = "AddNode"
  <2> DEFINE n == s.op.id
  <2>1. /\ n \in NodeId /\ s.op.payload \in Payload
        /\ w.nodes = Add(v.nodes, n, s.tag)
        /\ w.edges = v.edges
        /\ w.node_embedding_tag = v.node_embedding_tag
        /\ IF Replaces(s.tag, v.node_payload_tag[n])
           THEN /\ w.node_payload = [v.node_payload EXCEPT ![n] = s.op.payload]
                /\ w.node_payload_tag = [v.node_payload_tag EXCEPT ![n] = s.tag]
           ELSE /\ w.node_payload = v.node_payload
                /\ w.node_payload_tag = v.node_payload_tag
    BY <1>6, AddNodeEffect
  <2> HIDE DEF w, n
  <2>2. /\ w.nodes.adds = [v.nodes.adds EXCEPT ![n] = @ \cup {s.tag}]
        /\ w.nodes.removes = v.nodes.removes
    BY <1>1, <1>5, <2>1 DEF Add, TaggedSet
  <2>3. /\ DOMAIN v.nodes.adds = NodeId
        /\ DOMAIN v.node_payload = NodeId /\ DOMAIN v.node_payload_tag = NodeId
    BY DEF View, TaggedSet
  <2>4. NodeOK(w, U, n)
    <3>1. NodeOK(v, T, n) /\ w.nodes.adds[n] = v.nodes.adds[n] \cup {s.tag}
      BY <1>4, <2>1, <2>2, <2>3
    <3>2. CASE Replaces(s.tag, v.node_payload_tag[n])
      BY <2>1, <2>2, <2>3, <3>1, <3>2 DEF NodeOK
    <3>3. CASE ~ Replaces(s.tag, v.node_payload_tag[n])
      <4>1. v.node_payload_tag[n] # None
        BY <3>3 DEF Replaces
      <4> QED
        BY <2>1, <2>2, <2>3, <3>1, <3>3, <4>1 DEF NodeOK
    <3> QED
      BY <3>2, <3>3
  <2>5. ASSUME NEW id \in NodeId, id # n
        PROVE  NodeOK(w, U, id)
    <3>1. /\ w.nodes.adds[id] = v.nodes.adds[id] /\ w.nodes.removes[id] = v.nodes.removes[id]
          /\ w.node_payload[id] = v.node_payload[id]
          /\ w.node_payload_tag[id] = v.node_payload_tag[id]
          /\ w.node_embedding_tag[id] = v.node_embedding_tag[id]
      BY <2>1, <2>2, <2>3, <2>5
    <3> QED
      BY <1>2, <1>4, <3>1 DEF w
  <2> QED
    BY <1>3, <1>4, <2>1, <2>4, <2>5 DEF MapsOK, w
<1>7. CASE s.op.type = "RemoveNode"
  <2> DEFINE n == s.op.id
  <2>1. n \in NodeId /\ w = [v EXCEPT !.nodes = Remove(v.nodes, n)]
    BY <1>7, RemoveNodeEffect
  <2>2. /\ n \in NodeId /\ w.nodes = Remove(v.nodes, n) /\ w.edges = v.edges
        /\ w.node_payload = v.node_payload /\ w.node_payload_tag = v.node_payload_tag
        /\ w.node_embedding_tag = v.node_embedding_tag
    BY <2>1 DEF View
  <2> HIDE DEF w, n
  <2>3. /\ w.nodes.adds = v.nodes.adds
        /\ w.nodes.removes = [v.nodes.removes EXCEPT ![n] = @ \cup v.nodes.adds[n]]
    BY <1>5, <2>2 DEF Remove, TaggedSet
  <2>4. \A id \in NodeId : \/ w.nodes.removes[id] = v.nodes.removes[id]
                           \/ w.nodes.removes[id] = v.nodes.removes[id] \cup v.nodes.adds[id]
    BY <1>5, <2>3 DEF TaggedSet
  <2>5. \A id \in NodeId : NodeOK(w, U, id)
    BY <1>2, <1>4, <2>2, <2>3, <2>4 DEF w
  <2> QED
    BY <1>3, <1>4, <2>2, <2>5 DEF MapsOK, w
<1>8. CASE s.op.type = "SetEmbedding"
  <2> DEFINE n == s.op.id
             p == v.node_payload[n]
  <2>1. /\ n \in NodeId /\ s.op.embedding \in Embedding
        /\ w.nodes = v.nodes /\ w.edges = v.edges
        /\ w.node_payload_tag = v.node_payload_tag
        /\ IF Replaces(s.tag, v.node_embedding_tag[n])
           THEN /\ w.node_embedding_tag = [v.node_embedding_tag EXCEPT ![n] = s.tag]
                /\ w.node_payload =
                     [v.node_payload EXCEPT
                        ![n] = IF @ = None THEN None
                               ELSE [@ EXCEPT !.embedding = s.op.embedding]]
           ELSE w = v
    BY <1>8, SetEmbeddingEffect
  <2>2. /\ DOMAIN v.node_payload = NodeId /\ DOMAIN v.node_embedding_tag = NodeId
    BY DEF View
  <2>3. CASE Replaces(s.tag, v.node_embedding_tag[n])
    <3> DEFINE q == IF p = None THEN None ELSE [p EXCEPT !.embedding = s.op.embedding]
    <3>1. /\ w.node_embedding_tag[n] = s.tag
          /\ w.node_payload[n] = q
          /\ \A id \in NodeId : id # n => /\ w.node_payload[id] = v.node_payload[id]
                                          /\ w.node_embedding_tag[id] = v.node_embedding_tag[id]
      BY <2>1, <2>2, <2>3
    <3>2. /\ p = None => q = None
          /\ p \in Payload => q \in Payload
      BY <1>1, <2>1 DEF Payload
    <3> HIDE DEF w, q
    <3>3. NodeOK(w, U, n)
      BY <1>4, <2>1, <3>1, <3>2 DEF NodeOK
    <3>4. \A id \in NodeId : id # n => NodeOK(w, U, id)
      BY <1>2, <1>4, <2>1, <3>1 DEF w
    <3> QED
      BY <1>3, <1>4, <2>1, <3>3, <3>4 DEF MapsOK, w
  <2>4. CASE ~ Replaces(s.tag, v.node_embedding_tag[n])
    <3>1. w = v
      BY <2>1, <2>4
    <3> QED
      BY <1>2, <1>3, <1>4, <3>1 DEF MapsOK
  <2> QED
    BY <2>3, <2>4
<1>9. CASE s.op.type \in {"AddEdge", "RemoveEdge", "Reinforce", "Decay"}
  <2> DEFINE k == s.op.key
  <2>1. /\ w.nodes = v.nodes /\ w.node_payload = v.node_payload
        /\ w.node_payload_tag = v.node_payload_tag
        /\ w.node_embedding_tag = v.node_embedding_tag
        /\ w.edges = CASE s.op.type = "AddEdge" -> Add(v.edges, k, s.tag)
                       [] s.op.type = "RemoveEdge" -> Remove(v.edges, k)
                       [] OTHER -> v.edges
    BY <1>9, EdgeEffect
  <2>2. k \in EdgeKey
    BY <1>9 DEF StampedOp, Operation
  <2>3. /\ Add(v.edges, k, s.tag).adds = [v.edges.adds EXCEPT ![k] = @ \cup {s.tag}]
        /\ Add(v.edges, k, s.tag).removes = v.edges.removes
        /\ Remove(v.edges, k).adds = v.edges.adds
        /\ Remove(v.edges, k).removes = [v.edges.removes EXCEPT ![k] = @ \cup v.edges.adds[k]]
    BY SMTT(60), <1>1, <1>5, <2>2, SetTypes
  <2>4. DOMAIN v.edges.adds = EdgeKey /\ DOMAIN v.edges.removes = EdgeKey
    BY <1>5 DEF TaggedSet
  <2>5. ASSUME NEW e \in EdgeKey
        PROVE  EdgeOK(w, U, e)
    <3> HIDE DEF w, k
    <3>1. EdgeOK(v, T, e)
      BY <1>4
    <3>2. CASE s.op.type = "AddEdge"
      <4>1. w.edges = Add(v.edges, k, s.tag)
        BY <2>1, <3>2
      <4> QED
        BY <2>3, <2>4, <3>1, <4>1 DEF EdgeOK
    <3>3. CASE s.op.type = "RemoveEdge"
      <4>1. w.edges = Remove(v.edges, k)
        BY <2>1, <3>3
      <4> QED
        BY <2>3, <2>4, <3>1, <4>1 DEF EdgeOK
    <3>4. CASE s.op.type \in {"Reinforce", "Decay"}
      <4>1. w.edges = v.edges
        BY <2>1, <3>4
      <4> QED
        BY <3>1, <4>1 DEF EdgeOK
    <3> QED
      BY <1>9, <3>2, <3>3, <3>4
  <2>6. \A id \in NodeId : NodeOK(w, U, id)
    BY <1>2, <1>4, <2>1
  <2> QED
    BY <2>5, <2>6 DEF MapsOK
<1> QED
  BY <1>6, <1>7, <1>8, <1>9, MaterializeType

-----------------------------------------------------------------------------
\* What a view holds about nodes follows from the operations known.

\* The derived order of tags is strict and total.
LEMMA TagOrder ==
  /\ \A s \in Tag : ~ TagLT(s, s)
  /\ \A s, t \in Tag : s = t \/ TagLT(s, t) \/ TagLT(t, s)
  /\ \A s, t, u \in Tag : TagLT(s, t) /\ TagLT(t, u) => TagLT(s, u)
<1>1. \A s \in Tag : s.replica \in Nat /\ s.hlc.physical \in Nat /\ s.hlc.logical \in Nat
  BY ReplicaAssumption DEF Tag, Hlc
<1>2. \A s \in Tag : ~ TagLT(s, s)
  BY <1>1 DEF TagLT, HlcLT
<1>3. ASSUME NEW s \in Tag, NEW t \in Tag, ~ TagLT(s, t), ~ TagLT(t, s)
      PROVE  s = t
  <2>1. s.replica = t.replica /\ s.hlc.physical = t.hlc.physical /\ s.hlc.logical = t.hlc.logical
    BY <1>1, <1>3 DEF TagLT, HlcLT
  <2>2. s.hlc = t.hlc
    BY <2>1 DEF Tag, Hlc
  <2> QED
    BY <2>1, <2>2 DEF Tag
<1>4. \A s, t, u \in Tag : TagLT(s, t) /\ TagLT(t, u) => TagLT(s, u)
  BY <1>1 DEF TagLT, HlcLT
<1> QED
  BY <1>2, <1>3, <1>4

\* The operations of a type about a node.
OpsOn(ops, type, id) == {s \in ops : s.op.type = type /\ s.op.id = id}

\* NodeFollows in these terms.
LEMMA FollowsIs ==
  ASSUME NEW v, NEW ops, NEW id
  PROVE  LET added      == OpsOn(ops, "AddNode", id)
             embeddings == OpsOn(ops, "SetEmbedding", id)
         IN  NodeFollows(v, ops, id) <=>
               /\ v.nodes.adds[id] = {s.tag : s \in added}
               /\ v.nodes.removes[id] = IF OpsOn(ops, "RemoveNode", id) = {} THEN {} ELSE v.nodes.adds[id]
               /\ embeddings = {} =>
                    /\ v.node_embedding_tag[id] = None
                    /\ \A s \in added : v.node_payload[id] = s.op.payload
               /\ embeddings # {} =>
                    \E e \in embeddings :
                      /\ \A d \in embeddings : d = e \/ TagLT(d.tag, e.tag)
                      /\ v.node_embedding_tag[id] = e.tag
                      /\ \A s \in added :
                           v.node_payload[id] = [s.op.payload EXCEPT !.embedding = e.op.embedding]
BY DEF NodeFollows, OpsOn

\* An operation that is not about a node changes nothing about it.
LEMMA OtherFollows ==
  ASSUME NEW v \in View, NEW s \in StampedOp, NEW ops, NEW id \in NodeId, NodeFollows(v, ops, id),
         s.op.type \notin {"AddNode", "RemoveNode", "SetEmbedding"} \/ s.op.id # id
  PROVE  NodeFollows(Materialize(v, s), ops \cup {s}, id)
<1> DEFINE w == Materialize(v, s)
<1>1. \A type \in {"AddNode", "RemoveNode", "SetEmbedding"} :
        OpsOn(ops \cup {s}, type, id) = OpsOn(ops, type, id)
  BY DEF OpsOn
<1>2. /\ w.nodes.adds[id] = v.nodes.adds[id] /\ w.nodes.removes[id] = v.nodes.removes[id]
      /\ w.node_payload[id] = v.node_payload[id]
      /\ w.node_embedding_tag[id] = v.node_embedding_tag[id]
  <2>1. CASE s.op.type = "AddNode"
    <3> s.op.id # id /\ s.op.id \in NodeId
      BY <2>1, AddNodeEffect
    <3>1. /\ w.nodes = Add(v.nodes, s.op.id, s.tag)
          /\ w.node_embedding_tag = v.node_embedding_tag
          /\ \/ w.node_payload = [v.node_payload EXCEPT ![s.op.id] = s.op.payload]
             \/ w.node_payload = v.node_payload
      BY <2>1, AddNodeEffect
    <3> HIDE DEF w
    <3>2. w.node_payload[id] = v.node_payload[id]
      BY <3>1 DEF View
    <3>3. v.nodes \in TaggedSet(NodeId)
      BY DEF View
    <3>4. w.nodes.adds[id] = v.nodes.adds[id] /\ w.nodes.removes[id] = v.nodes.removes[id]
      BY <3>1, <3>3 DEF Add, TaggedSet
    <3> QED
      BY <3>1, <3>2, <3>4
  <2>2. CASE s.op.type = "RemoveNode"
    <3> s.op.id # id /\ s.op.id \in NodeId
      BY <2>2, RemoveNodeEffect
    <3>1. w = [v EXCEPT !.nodes = Remove(v.nodes, s.op.id)]
      BY <2>2, RemoveNodeEffect
    <3>2. v.nodes \in TaggedSet(NodeId)
      BY DEF View
    <3>3. /\ w.nodes = Remove(v.nodes, s.op.id)
          /\ w.node_payload = v.node_payload /\ w.node_embedding_tag = v.node_embedding_tag
      BY <3>1 DEF View
    <3> HIDE DEF w
    <3>4. w.nodes.adds[id] = v.nodes.adds[id] /\ w.nodes.removes[id] = v.nodes.removes[id]
      BY <3>2, <3>3 DEF Remove, TaggedSet
    <3> QED
      BY <3>3, <3>4
  <2>3. CASE s.op.type = "SetEmbedding"
    <3> s.op.id # id /\ s.op.id \in NodeId
      BY <2>3, SetEmbeddingEffect
    <3>1. CASE Replaces(s.tag, v.node_embedding_tag[s.op.id])
      <4> DEFINE q == IF v.node_payload[s.op.id] = None THEN None
                      ELSE [v.node_payload[s.op.id] EXCEPT !.embedding = s.op.embedding]
      <4>1. /\ w.nodes = v.nodes
            /\ w.node_embedding_tag = [v.node_embedding_tag EXCEPT ![s.op.id] = s.tag]
            /\ w.node_payload = [v.node_payload EXCEPT ![s.op.id] = q]
        BY <2>3, <3>1, SetEmbeddingEffect
      <4> HIDE DEF w, q
      <4> QED
        BY <4>1 DEF View
    <3>2. CASE ~ Replaces(s.tag, v.node_embedding_tag[s.op.id])
      BY <2>3, <3>2, SetEmbeddingEffect
    <3> QED
      BY <3>1, <3>2
  <2>4. CASE s.op.type \in {"AddEdge", "RemoveEdge", "Reinforce", "Decay"}
    BY <2>4, EdgeEffect
  <2> QED
    BY <2>1, <2>2, <2>3, <2>4, MaterializeType
<1> HIDE DEF w
<1>3. NodeFollows(w, ops \cup {s}, id)
  BY ZenonT(60), <1>1, <1>2, FollowsIs
<1> QED
  BY <1>3 DEF w

\* The addition of a node that nothing is known about.
LEMMA AdditionFollows ==
  ASSUME NEW v \in View, NEW s \in StampedOp, NEW ops, NEW T, s.op.type = "AddNode",
         NodeFollows(v, ops, s.op.id), NodeOK(v, T, s.op.id),
         \A type \in {"AddNode", "RemoveNode", "SetEmbedding"} : OpsOn(ops, type, s.op.id) = {}
  PROVE  NodeFollows(Materialize(v, s), ops \cup {s}, s.op.id)
<1> DEFINE w == Materialize(v, s)
           id == s.op.id
<1>1. /\ OpsOn(ops \cup {s}, "AddNode", id) = {s}
      /\ OpsOn(ops \cup {s}, "RemoveNode", id) = {}
      /\ OpsOn(ops \cup {s}, "SetEmbedding", id) = {}
  BY DEF OpsOn
<1>2. v.nodes.adds[id] = {} /\ v.nodes.removes[id] = {} /\ v.node_embedding_tag[id] = None
  BY FollowsIs
<1>3. Replaces(s.tag, v.node_payload_tag[id])
  BY <1>2 DEF NodeOK, Replaces
<1>4. /\ id \in NodeId /\ s.op.payload \in Payload
      /\ w.nodes = Add(v.nodes, id, s.tag)
      /\ w.node_embedding_tag = v.node_embedding_tag
      /\ w.node_payload = [v.node_payload EXCEPT ![id] = s.op.payload]
  BY <1>3, AddNodeEffect
<1>5. v.nodes \in TaggedSet(NodeId)
  BY DEF View
<1> HIDE DEF w
<1>6. w.nodes.adds[id] = {s.tag} /\ w.nodes.removes[id] = {}
  BY <1>2, <1>4, <1>5 DEF Add, TaggedSet
<1>7. w.node_payload[id] = s.op.payload
  BY <1>4 DEF View
<1>8. /\ w.nodes.adds[id] = {t.tag : t \in {s}} /\ w.nodes.removes[id] = {}
      /\ w.node_embedding_tag[id] = None
      /\ \A t \in {s} : w.node_payload[id] = t.op.payload
  BY <1>2, <1>4, <1>6, <1>7
<1> HIDE DEF id
<1>9. NodeFollows(w, ops \cup {s}, id)
  BY <1>1, <1>8, FollowsIs
<1> QED
  BY <1>9 DEF w, id

\* The removal of a node whose addition is known.
LEMMA RemovalFollows ==
  ASSUME NEW v \in View, NEW s \in StampedOp, NEW ops, s.op.type = "RemoveNode",
         NodeFollows(v, ops, s.op.id)
  PROVE  NodeFollows(Materialize(v, s), ops \cup {s}, s.op.id)
<1> DEFINE w == Materialize(v, s)
           id == s.op.id
<1>1. /\ OpsOn(ops \cup {s}, "AddNode", id) = OpsOn(ops, "AddNode", id)
      /\ OpsOn(ops \cup {s}, "RemoveNode", id) # {}
      /\ OpsOn(ops \cup {s}, "SetEmbedding", id) = OpsOn(ops, "SetEmbedding", id)
  BY DEF OpsOn
<1>2. w = [v EXCEPT !.nodes = Remove(v.nodes, id)] /\ id \in NodeId
  BY RemoveNodeEffect
<1> HIDE DEF w
<1>3. v.nodes \in TaggedSet(NodeId)
  BY DEF View
<1>4. w.nodes = Remove(v.nodes, id)
  BY <1>2 DEF View
<1>8. w.node_payload = v.node_payload /\ w.node_embedding_tag = v.node_embedding_tag
  BY <1>2 DEF View
<1>5. /\ w.nodes.adds[id] = v.nodes.adds[id]
      /\ w.nodes.removes[id] = v.nodes.removes[id] \cup v.nodes.adds[id]
  <2> DEFINE x == v.nodes
  <2>1. x \in TaggedSet(NodeId) /\ id \in NodeId
    BY <1>2, <1>3
  <2> HIDE DEF x, id
  <2>2. /\ Remove(x, id).adds[id] = x.adds[id]
        /\ Remove(x, id).removes[id] = x.removes[id] \cup x.adds[id]
    BY <2>1 DEF Remove, TaggedSet
  <2> QED
    BY <1>4, <2>2 DEF x
<1>6. v.nodes.removes[id] \subseteq v.nodes.adds[id]
  BY FollowsIs
<1>7. NodeFollows(w, ops \cup {s}, id)
  BY ZenonT(120), <1>1, <1>5, <1>6, <1>8, FollowsIs
<1> QED
  BY <1>7 DEF w

\* An embedding of a node whose addition is known, under a tag of its own.
LEMMA EmbeddingFollows ==
  ASSUME NEW v \in View, NEW s \in StampedOp, NEW ops \in SUBSET StampedOp, NEW T,
         s.op.type = "SetEmbedding", NodeFollows(v, ops, s.op.id), NodeOK(v, T, s.op.id),
         OpsOn(ops, "AddNode", s.op.id) # {}, \A t \in ops : t.tag # s.tag
  PROVE  NodeFollows(Materialize(v, s), ops \cup {s}, s.op.id)
<1> DEFINE w  == Materialize(v, s)
           id == s.op.id
           added == OpsOn(ops, "AddNode", id)
           embeddings == OpsOn(ops, "SetEmbedding", id)
<1>1. /\ OpsOn(ops \cup {s}, "AddNode", id) = added
      /\ OpsOn(ops \cup {s}, "RemoveNode", id) = OpsOn(ops, "RemoveNode", id)
      /\ OpsOn(ops \cup {s}, "SetEmbedding", id) = embeddings \cup {s}
  BY DEF OpsOn
<1>2. /\ id \in NodeId /\ s.op.embedding \in Embedding
      /\ w.nodes = v.nodes
      /\ IF Replaces(s.tag, v.node_embedding_tag[id])
         THEN /\ w.node_embedding_tag = [v.node_embedding_tag EXCEPT ![id] = s.tag]
              /\ w.node_payload =
                   [v.node_payload EXCEPT ![id] = IF @ = None THEN None
                                                  ELSE [@ EXCEPT !.embedding = s.op.embedding]]
         ELSE w = v
  BY SetEmbeddingEffect
<1>3. \A t \in ops \cup {s} : t.tag \in Tag
  BY DEF StampedOp
<1>4. /\ v.node_payload[id] \in Payload
      /\ v.node_payload[id] # None
  <2>1. v.nodes.adds[id] = {t.tag : t \in added}
    BY FollowsIs
  <2>2. v.nodes.adds[id] # {}
    BY <2>1
  <2> QED
    BY <2>2, NoneAssumption DEF NodeOK
<1>5. added \subseteq StampedOp /\ embeddings \subseteq ops
      /\ \A t \in added : t.op.payload \in Payload
  BY DEF OpsOn, StampedOp, Operation
<1>6. CASE Replaces(s.tag, v.node_embedding_tag[id])
  <2>1. w.node_embedding_tag[id] = s.tag
    BY <1>2, <1>6 DEF View
  <2>2. w.node_payload[id] = [v.node_payload[id] EXCEPT !.embedding = s.op.embedding]
    BY <1>2, <1>4, <1>6 DEF View
  <2>3. \A t \in added : w.node_payload[id] = [t.op.payload EXCEPT !.embedding = s.op.embedding]
    <3> SUFFICES ASSUME NEW t \in added
                 PROVE  w.node_payload[id] = [t.op.payload EXCEPT !.embedding = s.op.embedding]
      OBVIOUS
    <3>1. CASE embeddings = {}
      <4>1. v.node_payload[id] = t.op.payload
        BY <3>1, FollowsIs
      <4> QED
        BY <2>2, <4>1
    <3>2. CASE embeddings # {}
      <4>1. PICK e \in embeddings :
              v.node_payload[id] = [t.op.payload EXCEPT !.embedding = e.op.embedding]
        BY <3>2, FollowsIs
      <4>2. [t.op.payload EXCEPT !.embedding = e.op.embedding].label = t.op.payload.label
        BY <1>5 DEF Payload
      <4> QED
        BY <1>4, <1>5, <2>2, <4>1, <4>2 DEF Payload
    <3> QED
      BY <3>1, <3>2
  <2>4. \A d \in embeddings \cup {s} : d = s \/ TagLT(d.tag, s.tag)
    <3>1. CASE embeddings = {}
      BY <3>1
    <3>2. CASE embeddings # {}
      <4>1. PICK e \in embeddings : /\ \A d \in embeddings : d = e \/ TagLT(d.tag, e.tag)
                                    /\ v.node_embedding_tag[id] = e.tag
        BY <3>2, FollowsIs
      <4>2. e.tag # None
        BY <1>3, <1>5, <4>1, NoneAssumption DEF Tag
      <4>3. TagLT(e.tag, s.tag)
        BY <1>6, <4>1, <4>2 DEF Replaces
      <4> QED
        BY <1>3, <1>5, <4>1, <4>3, TagOrder
    <3> QED
      BY <3>1, <3>2
  <2>5. /\ w.nodes.adds[id] = {t.tag : t \in added}
        /\ w.nodes.removes[id] = IF OpsOn(ops, "RemoveNode", id) = {} THEN {} ELSE w.nodes.adds[id]
    BY <1>2, FollowsIs
  <2> HIDE DEF w, id, added, embeddings
  <2> QED
    BY <1>1, <2>1, <2>3, <2>4, <2>5, FollowsIs DEF w, id
<1>7. CASE ~ Replaces(s.tag, v.node_embedding_tag[id])
  <2>1. w = v
    BY <1>2, <1>7
  <2>2. embeddings # {}
    BY <1>7, FollowsIs DEF Replaces
  <2>3. PICK e \in embeddings :
          /\ \A d \in embeddings : d = e \/ TagLT(d.tag, e.tag)
          /\ v.node_embedding_tag[id] = e.tag
          /\ \A t \in added : v.node_payload[id] = [t.op.payload EXCEPT !.embedding = e.op.embedding]
    BY <2>2, FollowsIs
  <2>4. TagLT(s.tag, e.tag)
    BY <1>3, <1>5, <1>7, <2>3, TagOrder DEF Replaces
  <2>5. \A d \in embeddings \cup {s} : d = e \/ TagLT(d.tag, e.tag)
    BY <2>3, <2>4
  <2>6. /\ w.nodes.adds[id] = {t.tag : t \in added}
        /\ w.nodes.removes[id] = IF OpsOn(ops, "RemoveNode", id) = {} THEN {} ELSE w.nodes.adds[id]
    BY <1>2, FollowsIs
  <2>7. \E d \in embeddings \cup {s} :
          /\ \A t \in embeddings \cup {s} : t = d \/ TagLT(t.tag, d.tag)
          /\ w.node_embedding_tag[id] = d.tag
          /\ \A t \in added : w.node_payload[id] = [t.op.payload EXCEPT !.embedding = d.op.embedding]
    <3> HIDE DEF w, embeddings, added, id
    <3> WITNESS e \in embeddings \cup {s}
    <3> QED
      BY <2>1, <2>3, <2>5
  <2>8. embeddings \cup {s} # {}
    OBVIOUS
  <2> HIDE DEF w, id, added, embeddings
  <2> QED
    BY <1>1, <2>6, <2>7, <2>8, FollowsIs DEF w, id
<1> QED
  BY <1>6, <1>7

\* Views that follow from the same operations hold the same about a node.
LEMMA FollowersAgree ==
  ASSUME NEW v, NEW w, NEW ops \in SUBSET StampedOp, NEW id,
         NodeFollows(v, ops, id), NodeFollows(w, ops, id)
  PROVE  /\ v.nodes.adds[id] = w.nodes.adds[id] /\ v.nodes.removes[id] = w.nodes.removes[id]
         /\ v.nodes.adds[id] # {} => v.node_payload[id] = w.node_payload[id]
<1> DEFINE added      == OpsOn(ops, "AddNode", id)
           embeddings == OpsOn(ops, "SetEmbedding", id)
<1>1. /\ v.nodes.adds[id] = w.nodes.adds[id] /\ v.nodes.removes[id] = w.nodes.removes[id]
      /\ v.nodes.adds[id] = {s.tag : s \in added}
  BY FollowsIs
<1> SUFFICES ASSUME v.nodes.adds[id] # {}
             PROVE  v.node_payload[id] = w.node_payload[id]
  BY <1>1
<1>2. PICK s \in added : TRUE
  BY <1>1
<1>3. CASE embeddings = {}
  BY <1>2, <1>3, FollowsIs
<1>4. CASE embeddings # {}
  <2>1. PICK d \in embeddings :
          /\ \A t \in embeddings : t = d \/ TagLT(t.tag, d.tag)
          /\ v.node_payload[id] = [s.op.payload EXCEPT !.embedding = d.op.embedding]
    BY <1>2, <1>4, FollowsIs
  <2>2. PICK e \in embeddings :
          /\ \A t \in embeddings : t = e \/ TagLT(t.tag, e.tag)
          /\ w.node_payload[id] = [s.op.payload EXCEPT !.embedding = e.op.embedding]
    BY <1>2, <1>4, FollowsIs
  <2>3. d.tag \in Tag /\ e.tag \in Tag
    BY DEF OpsOn, StampedOp
  <2>4. d = e
    BY <2>1, <2>2, <2>3, TagOrder
  <2> QED
    BY <2>1, <2>2, <2>4
<1> QED
  BY <1>3, <1>4

-----------------------------------------------------------------------------
\* What a replica contributes to the weights follows from its own operations.

\* The contribution of p to the weights in a view ...
Share(v, p) ==
  [k \in EdgeKey |-> [pos |-> v.edge_weight[k].pos[p], neg |-> v.edge_weight[k].neg[p]]]

\* ... and what an operation of p makes of it.
Raises(s, k) ==
  /\ s.op.key = k
  /\ s.op.type = "Reinforce" \/ (s.op.type = "AddEdge" /\ s.op.initial_weight > 0)
Lowers(s, k) ==
  /\ s.op.key = k
  /\ s.op.type = "Decay" \/ (s.op.type = "AddEdge" /\ s.op.initial_weight < 0)
Amount(s) ==
  IF s.op.type # "AddEdge" THEN s.op.amount
  ELSE IF s.op.initial_weight > 0 THEN s.op.initial_weight ELSE -s.op.initial_weight

ShareStep(s, share) ==
  [k \in EdgeKey |->
     [pos |-> IF Raises(s, k) THEN Wrap(share[k].pos + Amount(s)) ELSE share[k].pos,
      neg |-> IF Lowers(s, k) THEN Wrap(share[k].neg + Amount(s)) ELSE share[k].neg]]

\* Usage is counted for the replica that reports it.
OwnBucket(s) == s.op.type \in {"Reinforce", "Decay"} => s.op.replica = s.tag.replica

\* Incr and Decr bucket by bucket.
LEMMA CounterEffect ==
  ASSUME NEW c \in Counter, NEW r \in Replica, NEW p \in Replica, NEW amount
  PROVE  /\ Incr(c, r, amount).pos[p] = IF p = r THEN Wrap(c.pos[p] + amount) ELSE c.pos[p]
         /\ Incr(c, r, amount).neg = c.neg
         /\ Decr(c, r, amount).neg[p] = IF p = r THEN Wrap(c.neg[p] + amount) ELSE c.neg[p]
         /\ Decr(c, r, amount).pos = c.pos
BY DEF Incr, Decr, Counter

\* An operation changes its maker's share of the weights and no other.
LEMMA ShareEffect ==
  ASSUME NEW v \in View, NEW s \in StampedOp, OwnBucket(s), NEW p \in Replica
  PROVE  Share(Materialize(v, s), p) = IF p = s.tag.replica THEN ShareStep(s, Share(v, p)) ELSE Share(v, p)
<1> DEFINE w == Materialize(v, s)
           r == s.tag.replica
<1>1. r \in Replica
  BY SMTT(60) DEF StampedOp, Tag
<1> SUFFICES ASSUME NEW k \in EdgeKey
             PROVE  /\ w.edge_weight[k].pos[p] = IF p = r /\ Raises(s, k)
                                                 THEN Wrap(v.edge_weight[k].pos[p] + Amount(s))
                                                 ELSE v.edge_weight[k].pos[p]
                    /\ w.edge_weight[k].neg[p] = IF p = r /\ Lowers(s, k)
                                                 THEN Wrap(v.edge_weight[k].neg[p] + Amount(s))
                                                 ELSE v.edge_weight[k].neg[p]
  BY DEF Share, ShareStep
<1> DEFINE c == v.edge_weight[k]
           d == w.edge_weight[k]
<1>2. c \in Counter /\ v.edge_weight \in [EdgeKey -> Counter]
  BY DEF View
<1>3. CASE s.op.type = "AddEdge"
  <2> DEFINE a == s.op.initial_weight
  <2>1. a \in Int /\ s.op.key \in EdgeKey
    BY <1>3, WeightAssumption DEF StampedOp, Operation
  <2>2. w.edge_weight = [v.edge_weight EXCEPT ![s.op.key] = CASE a > 0 -> Incr(@, r, a)
                                                              [] a < 0 -> Decr(@, r, -a)
                                                              [] a = 0 -> @]
    BY <1>3 DEF Materialize, ApplyAddEdge, View
  <2> HIDE DEF w, a, r
  <2>3. /\ k # s.op.key => d = c
        /\ k = s.op.key /\ a > 0 => d = Incr(c, r, a)
        /\ k = s.op.key /\ a < 0 => d = Decr(c, r, -a)
        /\ k = s.op.key /\ a = 0 => d = c
    BY <1>2, <2>1, <2>2
  <2>4. /\ Raises(s, k) <=> s.op.key = k /\ a > 0
        /\ Lowers(s, k) <=> s.op.key = k /\ a < 0
        /\ Amount(s) = IF a > 0 THEN a ELSE -a
    BY <1>3 DEF Raises, Lowers, Amount, a
  <2> HIDE DEF c, d
  <2>5. CASE a > 0 /\ k = s.op.key
    BY <1>1, <1>2, <2>1, <2>3, <2>4, <2>5, CounterEffect DEF c, d
  <2>6. CASE a < 0 /\ k = s.op.key
    BY <1>1, <1>2, <2>1, <2>3, <2>4, <2>6, CounterEffect DEF c, d
  <2>7. CASE a = 0 \/ k # s.op.key
    BY <2>1, <2>3, <2>4, <2>7 DEF c, d
  <2> QED
    BY <2>1, <2>5, <2>6, <2>7 DEF w, r
<1>4. CASE s.op.type = "Reinforce"
  <2>1. s.op.key \in EdgeKey /\ s.op.replica = r
    BY <1>4 DEF StampedOp, Operation, OwnBucket
  <2>2. w.edge_weight = [v.edge_weight EXCEPT ![s.op.key] = Incr(@, r, s.op.amount)]
    BY <1>4, <2>1 DEF Materialize, ApplyReinforce, View
  <2> HIDE DEF w, r
  <2>3. IF k = s.op.key THEN d = Incr(c, r, s.op.amount) ELSE d = c
    BY <1>2, <2>1, <2>2
  <2>4. /\ Raises(s, k) <=> s.op.key = k
        /\ ~ Lowers(s, k) /\ Amount(s) = s.op.amount
    BY <1>4 DEF Raises, Lowers, Amount
  <2> HIDE DEF c, d
  <2>5. CASE k = s.op.key
    <3>1. /\ d.pos[p] = IF p = r THEN Wrap(c.pos[p] + s.op.amount) ELSE c.pos[p]
          /\ d.neg = c.neg
      BY <1>1, <1>2, <2>3, <2>5, CounterEffect
    <3> QED
      BY <2>4, <2>5, <3>1 DEF c, d
  <2>6. CASE k # s.op.key
    BY <2>3, <2>4, <2>6 DEF c, d
  <2> QED
    BY <2>5, <2>6 DEF w, r
<1>5. CASE s.op.type = "Decay"
  <2>1. s.op.key \in EdgeKey /\ s.op.replica = r
    BY <1>5 DEF StampedOp, Operation, OwnBucket
  <2>2. w.edge_weight = [v.edge_weight EXCEPT ![s.op.key] = Decr(@, r, s.op.amount)]
    BY <1>5, <2>1 DEF Materialize, ApplyDecay, View
  <2> HIDE DEF w, r
  <2>3. IF k = s.op.key THEN d = Decr(c, r, s.op.amount) ELSE d = c
    BY <1>2, <2>1, <2>2
  <2>4. /\ Lowers(s, k) <=> s.op.key = k
        /\ ~ Raises(s, k) /\ Amount(s) = s.op.amount
    BY <1>5 DEF Raises, Lowers, Amount
  <2> HIDE DEF c, d
  <2>5. CASE k = s.op.key
    <3>1. /\ d.neg[p] = IF p = r THEN Wrap(c.neg[p] + s.op.amount) ELSE c.neg[p]
          /\ d.pos = c.pos
      BY <1>1, <1>2, <2>3, <2>5, CounterEffect
    <3> QED
      BY <2>4, <2>5, <3>1 DEF c, d
  <2>6. CASE k # s.op.key
    BY <2>3, <2>4, <2>6 DEF c, d
  <2> QED
    BY <2>5, <2>6 DEF w, r
<1>6. CASE s.op.type \in {"AddNode", "RemoveNode", "SetEmbedding", "RemoveEdge"}
  <2>1. w.edge_weight = v.edge_weight
    <3>1. CASE s.op.type = "AddNode"
      BY <3>1, AddNodeEffect
    <3>2. CASE s.op.type = "RemoveNode"
      BY <3>2, RemoveNodeEffect DEF View
    <3>3. CASE s.op.type = "SetEmbedding"
      BY <3>3, SetEmbeddingEffect
    <3>4. CASE s.op.type = "RemoveEdge"
      BY <3>4 DEF Materialize, ApplyRemoveEdge, View
    <3> QED
      BY <1>6, <3>1, <3>2, <3>3, <3>4
  <2>2. ~ Raises(s, k) /\ ~ Lowers(s, k)
    BY <1>6 DEF Raises, Lowers
  <2> QED
    BY <2>1, <2>2
<1> QED
  BY <1>3, <1>4, <1>5, <1>6, MaterializeType

\* Weights are sums over the operations known.

\* What an operation puts into the buckets of k: increments and decrements ...
Rise(k) == [s \in StampedOp |-> IF Raises(s, k) THEN Amount(s) ELSE 0]
Fall(k) == [s \in StampedOp |-> IF Lowers(s, k) THEN Amount(s) ELSE 0]

\* ... of its maker.
Owned(f, p) == [s \in StampedOp |-> IF s.tag.replica = p THEN f[s] ELSE 0]

\* A bucket of p holds the sum over the operations of p, as far as it can.
Bucketed(f, ops, p) == Wrap(SumFunctionOnSet(Owned(f, p), ops))

BucketsFollow(v, ops) ==
  \A p \in Replica, k \in EdgeKey :
    /\ v.edge_weight[k].pos[p] = Bucketed(Rise(k), ops, p)
    /\ v.edge_weight[k].neg[p] = Bucketed(Fall(k), ops, p)

\* Amounts are natural numbers.
LEMMA AmountType ==
  ASSUME NEW s \in StampedOp, NEW k
  PROVE  /\ s.tag.replica \in Replica
         /\ Rise(k)[s] \in Nat /\ Fall(k)[s] \in Nat
<1>1. s.tag.replica \in Replica /\ s.op \in Operation
  BY SMTT(60) DEF StampedOp, Tag
<1>2. Raises(s, k) \/ Lowers(s, k) => Amount(s) \in Nat
  <2>1. CASE s.op.type = "AddEdge"
    <3>1. s.op.initial_weight \in Int
      BY <1>1, <2>1, WeightAssumption DEF Operation
    <3> QED
      BY <2>1, <3>1 DEF Raises, Lowers, Amount
  <2>2. CASE s.op.type \in {"Reinforce", "Decay"}
    <3>1. s.op.amount \in Nat
      BY <1>1, <2>2 DEF Operation
    <3> QED
      BY <2>2, <3>1 DEF Amount
  <2> QED
    BY <2>1, <2>2 DEF Raises, Lowers
<1> QED
  BY <1>1, <1>2 DEF Rise, Fall

\* The terms of these sums.
LEMMA TermTypes ==
  ASSUME NEW k, NEW p, NEW s \in StampedOp
  PROVE  /\ Owned(Rise(k), p)[s] = IF s.tag.replica = p /\ Raises(s, k) THEN Amount(s) ELSE 0
         /\ Owned(Fall(k), p)[s] = IF s.tag.replica = p /\ Lowers(s, k) THEN Amount(s) ELSE 0
         /\ Owned(Rise(k), p)[s] \in Nat /\ Owned(Fall(k), p)[s] \in Nat
<1>1. /\ Owned(Rise(k), p)[s] = IF s.tag.replica = p THEN Rise(k)[s] ELSE 0
      /\ Owned(Fall(k), p)[s] = IF s.tag.replica = p THEN Fall(k)[s] ELSE 0
  BY DEF Owned
<1>2. /\ Rise(k)[s] = IF Raises(s, k) THEN Amount(s) ELSE 0
      /\ Fall(k)[s] = IF Lowers(s, k) THEN Amount(s) ELSE 0
  BY DEF Rise, Fall
<1> QED
  BY <1>1, <1>2, AmountType

\* Wrapping on the way makes no difference.
LEMMA WrapSum ==
  ASSUME NEW x \in Int, NEW a \in Int
  PROVE  Wrap(Wrap(x) + a) = Wrap(x + a)
<1> DEFINE m == 2^Width
           y == x % m
<1>1. m \in Nat \ {0}
  BY WidthAssumption
<1> HIDE DEF m
<1>2. y \in Int /\ Congruent(y, x, m)
  <2>1. y \in 0..(m - 1)
    BY <1>1, Division
  <2>2. y % m = y
    BY <1>1, <2>1, RemainderOf
  <2> QED
    BY <1>1, <2>1, <2>2 DEF Congruent
<1> HIDE DEF y
<1>3. Congruent(a, a, m)
  BY DEF Congruent
<1>4. Congruent(y + a, x + a, m)
  BY <1>1, <1>2, <1>3, RemainderSum
<1> QED
  BY <1>4 DEF Congruent, Wrap, y, m

\* Another operation changes a bucket of its maker by its amount.
LEMMA BucketedMore ==
  ASSUME NEW ops \in SUBSET StampedOp, IsFiniteSet(ops), NEW s \in StampedOp, s \notin ops,
         NEW k, NEW p
  PROVE  /\ Bucketed(Rise(k), ops \cup {s}, p) =
              IF p = s.tag.replica /\ Raises(s, k)
              THEN Wrap(Bucketed(Rise(k), ops, p) + Amount(s)) ELSE Bucketed(Rise(k), ops, p)
         /\ Bucketed(Fall(k), ops \cup {s}, p) =
              IF p = s.tag.replica /\ Lowers(s, k)
              THEN Wrap(Bucketed(Fall(k), ops, p) + Amount(s)) ELSE Bucketed(Fall(k), ops, p)
<1>1. ASSUME NEW f, \A t \in StampedOp : f[t] \in Nat
      PROVE  /\ SumFunctionOnSet(f, ops) \in Int
             /\ SumFunctionOnSet(f, ops \cup {s}) = SumFunctionOnSet(f, ops) + f[s]
  <2>1. \A t \in ops : f[t] \in Int
    BY <1>1
  <2>2. \A t \in ops \cup {s} : f[t] \in Int
    BY <1>1
  <2> QED
    BY <2>1, <2>2, SumType, SumMore
<1> DEFINE f == Owned(Rise(k), p)
           g == Owned(Fall(k), p)
           m == SumFunctionOnSet(f, ops)
           n == SumFunctionOnSet(g, ops)
<1>2. /\ \A t \in StampedOp : f[t] \in Nat
      /\ \A t \in StampedOp : g[t] \in Nat
      /\ f[s] = IF s.tag.replica = p /\ Raises(s, k) THEN Amount(s) ELSE 0
      /\ g[s] = IF s.tag.replica = p /\ Lowers(s, k) THEN Amount(s) ELSE 0
  BY TermTypes
<1>3. /\ Bucketed(Rise(k), ops \cup {s}, p) = Wrap(m + f[s]) /\ Bucketed(Rise(k), ops, p) = Wrap(m)
      /\ Bucketed(Fall(k), ops \cup {s}, p) = Wrap(n + g[s]) /\ Bucketed(Fall(k), ops, p) = Wrap(n)
      /\ m \in Int /\ n \in Int
  <2> HIDE DEF f, g
  <2> QED
    BY <1>1, <1>2 DEF Bucketed, f, g
<1>4. f[s] \in Nat /\ g[s] \in Nat
  BY <1>2
<1> HIDE DEF f, g, m, n
<1>5. m + 0 = m /\ n + 0 = n
  BY <1>3
<1>6. (Raises(s, k) \/ Lowers(s, k)) /\ p = s.tag.replica => Amount(s) \in Int
  BY <1>2, <1>4
<1>7. Bucketed(Rise(k), ops \cup {s}, p) =
        IF p = s.tag.replica /\ Raises(s, k)
        THEN Wrap(Bucketed(Rise(k), ops, p) + Amount(s)) ELSE Bucketed(Rise(k), ops, p)
  BY <1>2, <1>3, <1>5, <1>6, WrapSum
<1>8. Bucketed(Fall(k), ops \cup {s}, p) =
        IF p = s.tag.replica /\ Lowers(s, k)
        THEN Wrap(Bucketed(Fall(k), ops, p) + Amount(s)) ELSE Bucketed(Fall(k), ops, p)
  BY <1>2, <1>3, <1>5, <1>6, WrapSum
<1> QED
  BY <1>7, <1>8

\* Materializing an operation carries that on.
LEMMA BucketsStep ==
  ASSUME NEW v \in View, NEW ops \in SUBSET StampedOp, IsFiniteSet(ops), BucketsFollow(v, ops),
         NEW s \in StampedOp, s \notin ops, OwnBucket(s)
  PROVE  BucketsFollow(Materialize(v, s), ops \cup {s})
<1> SUFFICES ASSUME NEW p \in Replica, NEW k \in EdgeKey
             PROVE  /\ Materialize(v, s).edge_weight[k].pos[p] = Bucketed(Rise(k), ops \cup {s}, p)
                    /\ Materialize(v, s).edge_weight[k].neg[p] = Bucketed(Fall(k), ops \cup {s}, p)
  BY DEF BucketsFollow
<1> DEFINE w == Materialize(v, s)
<1>1. Share(w, p) = IF p = s.tag.replica THEN ShareStep(s, Share(v, p)) ELSE Share(v, p)
  BY ShareEffect
<1> HIDE DEF w
<1>2. /\ Share(w, p)[k] = [pos |-> w.edge_weight[k].pos[p], neg |-> w.edge_weight[k].neg[p]]
      /\ Share(v, p)[k] = [pos |-> v.edge_weight[k].pos[p], neg |-> v.edge_weight[k].neg[p]]
      /\ ShareStep(s, Share(v, p))[k] =
            [pos |-> IF Raises(s, k) THEN Wrap(Share(v, p)[k].pos + Amount(s)) ELSE Share(v, p)[k].pos,
             neg |-> IF Lowers(s, k) THEN Wrap(Share(v, p)[k].neg + Amount(s)) ELSE Share(v, p)[k].neg]
  BY DEF Share, ShareStep
<1>3. /\ w.edge_weight[k].pos[p] = Share(w, p)[k].pos /\ w.edge_weight[k].neg[p] = Share(w, p)[k].neg
      /\ v.edge_weight[k].pos[p] = Share(v, p)[k].pos /\ v.edge_weight[k].neg[p] = Share(v, p)[k].neg
  BY <1>2
<1>4. /\ v.edge_weight[k].pos[p] = Bucketed(Rise(k), ops, p)
      /\ v.edge_weight[k].neg[p] = Bucketed(Fall(k), ops, p)
  BY DEF BucketsFollow
<1>5. /\ Bucketed(Rise(k), ops \cup {s}, p) =
              IF p = s.tag.replica /\ Raises(s, k)
              THEN Wrap(Bucketed(Rise(k), ops, p) + Amount(s)) ELSE Bucketed(Rise(k), ops, p)
      /\ Bucketed(Fall(k), ops \cup {s}, p) =
              IF p = s.tag.replica /\ Lowers(s, k)
              THEN Wrap(Bucketed(Fall(k), ops, p) + Amount(s)) ELSE Bucketed(Fall(k), ops, p)
  BY BucketedMore
<1>6. CASE p = s.tag.replica
  <2>1. /\ w.edge_weight[k].pos[p] = IF Raises(s, k) THEN Wrap(v.edge_weight[k].pos[p] + Amount(s))
                                     ELSE v.edge_weight[k].pos[p]
        /\ w.edge_weight[k].neg[p] = IF Lowers(s, k) THEN Wrap(v.edge_weight[k].neg[p] + Amount(s))
                                     ELSE v.edge_weight[k].neg[p]
    BY <1>1, <1>2, <1>3, <1>6
  <2> QED
    BY <1>4, <1>5, <1>6, <2>1 DEF w
<1>7. CASE p # s.tag.replica
  BY <1>1, <1>3, <1>4, <1>5, <1>7 DEF w
<1> QED
  BY <1>6, <1>7

\* Summed up over the replicas, that is everything.
LEMMA SumOfOwned ==
  ASSUME NEW ops \in SUBSET StampedOp, IsFiniteSet(ops), NEW f, \A s \in StampedOp : f[s] \in Int
  PROVE  SumFunctionOnSet([p \in Replica |-> SumFunctionOnSet(Owned(f, p), ops)], Replica)
           = SumFunctionOnSet(f, ops)
<1> DEFINE own == [s \in StampedOp |-> s.tag.replica]
           g == [p \in Replica |-> Owned(f, p)]
           h == [p \in Replica |-> SumFunctionOnSet(g[p], ops)]
<1>1. \A s \in ops : f[s] \in Int
  OBVIOUS
<1>2. \A s \in ops : own[s] \in Replica
  BY AmountType
<1>3. \A p \in Replica : \A s \in ops : g[p][s] = IF own[s] = p THEN f[s] ELSE 0
  BY DEF Owned
<1>4. h = [p \in Replica |-> SumFunctionOnSet(Owned(f, p), ops)]
  OBVIOUS
<1>5. SumFunctionOnSet([p \in Replica |-> SumFunctionOnSet(g[p], ops)], Replica) = SumFunctionOnSet(f, ops)
  <2> HIDE DEF g, own
  <2> QED
    BY <1>1, <1>2, <1>3, ReplicaFinite, SumByOwner
<1> QED
  BY <1>4, <1>5

\* What the buckets amount to.
LEMMA BucketsSum ==
  ASSUME NEW v \in View, NEW ops \in SUBSET StampedOp, IsFiniteSet(ops), BucketsFollow(v, ops),
         NEW k \in EdgeKey
  PROVE  LET c == v.edge_weight[k]
         IN  /\ Congruent(SumFunctionOnSet(c.pos, Replica) - SumFunctionOnSet(c.neg, Replica),
                           SumFunctionOnSet(Rise(k), ops) - SumFunctionOnSet(Fall(k), ops), 2^Width)
             /\ SumFunctionOnSet(c.pos, Replica) - SumFunctionOnSet(c.neg, Replica) \in Int
             /\ SumFunctionOnSet(Rise(k), ops) - SumFunctionOnSet(Fall(k), ops) \in Int
<1> DEFINE m == 2^Width
           c == v.edge_weight[k]
           d == c.pos
           e == c.neg
           f == [p \in Replica |-> SumFunctionOnSet(Owned(Rise(k), p), ops)]
           g == [p \in Replica |-> SumFunctionOnSet(Owned(Fall(k), p), ops)]
<1>1. m \in Nat \ {0}
  BY WidthAssumption
<1>2. d \in [Replica -> Bucket] /\ e \in [Replica -> Bucket]
  BY DEF View, Counter
<1>3. \A p \in Replica : /\ d[p] = f[p] % m /\ f[p] \in Int
                         /\ e[p] = g[p] % m /\ g[p] \in Int
  <2> SUFFICES ASSUME NEW p \in Replica
               PROVE  d[p] = f[p] % m /\ f[p] \in Int /\ e[p] = g[p] % m /\ g[p] \in Int
    OBVIOUS
  <2>1. d[p] = Bucketed(Rise(k), ops, p) /\ e[p] = Bucketed(Fall(k), ops, p)
    BY DEF BucketsFollow
  <2>2. \A s \in ops : Owned(Rise(k), p)[s] \in Int /\ Owned(Fall(k), p)[s] \in Int
    BY TermTypes
  <2>3. f[p] \in Int /\ g[p] \in Int
    BY <2>2, SumType
  <2> QED
    BY <2>1, <2>3 DEF Bucketed, Wrap
<1> HIDE DEF m, d, e, f, g
<1>4. \A p \in Replica : /\ d[p] \in Int /\ Congruent(d[p], f[p], m)
                         /\ e[p] \in Int /\ Congruent(e[p], g[p], m)
  <2>1. \A x \in Int : x % m \in Int /\ (x % m) % m = x % m
    <3> TAKE x \in Int
    <3>1. x % m \in 0..(m - 1)
      BY <1>1, Division
    <3>2. (x % m) % m = x % m
      BY <1>1, RemainderOf
    <3> QED
      BY <1>1, <3>1, <3>2
  <2> QED
    BY <1>3, <2>1 DEF Congruent
<1>5. /\ Congruent(SumFunctionOnSet(d, Replica), SumFunctionOnSet(f, Replica), m)
      /\ Congruent(SumFunctionOnSet(e, Replica), SumFunctionOnSet(g, Replica), m)
  BY <1>1, <1>3, <1>4, ReplicaFinite, RemainderOfSum
<1>6. /\ SumFunctionOnSet(d, Replica) \in Int /\ SumFunctionOnSet(f, Replica) \in Int
      /\ SumFunctionOnSet(e, Replica) \in Int /\ SumFunctionOnSet(g, Replica) \in Int
  BY <1>3, <1>4, ReplicaFinite, SumType
<1>7. /\ SumFunctionOnSet(f, Replica) = SumFunctionOnSet(Rise(k), ops)
      /\ SumFunctionOnSet(g, Replica) = SumFunctionOnSet(Fall(k), ops)
  <2>1. \A s \in StampedOp : Rise(k)[s] \in Int /\ Fall(k)[s] \in Int
    BY AmountType
  <2> QED
    BY <2>1, SumOfOwned DEF f, g
<1>8. Congruent(SumFunctionOnSet(d, Replica) - SumFunctionOnSet(e, Replica),
                SumFunctionOnSet(f, Replica) - SumFunctionOnSet(g, Replica), m)
  BY <1>1, <1>5, <1>6, RemainderSum
<1> QED
  BY <1>6, <1>7, <1>8 DEF m, d, e
=============================================================================
