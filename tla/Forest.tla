------------------------------- MODULE Forest ------------------------------
(***************************************************************************)
(* The materialized view of one replica and what applying an operation     *)
(* does to it (crates/sle-core/src/forest.rs, ops.rs, learning.rs).  The   *)
(* view is a value; OpLog has the log, tags and clock of the same struct,  *)
(* and Replicas puts both together.                                        *)
(*                                                                         *)
(* Abstracted: a payload is its label (standing for tree, kind, domain,    *)
(* text and data, which nothing interprets) and its embedding; edge keys   *)
(* are opaque, as their endpoints are never looked up.                     *)
(***************************************************************************)
EXTENDS Hlc, OrSet, PnCounter, FiniteSets

CONSTANTS
  Replica,     \* the replica ids in use
  LocalId,     \* the per-replica node counters in use
  EdgeKey,     \* the edge keys in use
  Label,       \* node contents
  Embedding,   \* embedding vectors
  Weight,      \* the initial weights hosts give to edges
  Event,       \* the usage events hosts report
  None         \* Option::None, an absent map entry

NodeId == Replica \X LocalId
Payload == [label : Label, embedding : Embedding \cup {None}]

ASSUME ReplicaAssumption == Replica \subseteq Nat
ASSUME ReplicaFinite == IsFiniteSet(Replica)   \* u64 in the code
ASSUME LocalIdAssumption == LocalId \subseteq Nat
ASSUME WeightAssumption == Weight \subseteq Int
ASSUME NoneAssumption == None \notin Payload \cup [replica : Replica, hlc : Hlc]

\* EventKind::magnitude: positive events reinforce, negative ones decay.
Magnitude == [Accessed |-> 1, EditedTogether |-> 2, SuggestionAccepted |-> 3,
              TestPassed |-> 2, SuggestionRejected |-> -3, TestFailed |-> -2]

\* Operation of ops.rs.
Operation ==
       [type : {"AddNode"}, id : NodeId, payload : Payload]
  \cup [type : {"RemoveNode"}, id : NodeId]
  \cup [type : {"AddEdge"}, key : EdgeKey, initial_weight : Weight]
  \cup [type : {"RemoveEdge"}, key : EdgeKey]
  \cup [type : {"Reinforce", "Decay"}, key : EdgeKey, replica : Replica, amount : Nat]
  \cup [type : {"SetEmbedding"}, id : NodeId, embedding : Embedding]

NewView ==
  [nodes              |-> NewSet(NodeId),
   node_payload       |-> [id \in NodeId |-> None],
   node_payload_tag   |-> [id \in NodeId |-> None],
   node_embedding_tag |-> [id \in NodeId |-> None],
   edges              |-> NewSet(EdgeKey),
   edge_weight        |-> [k \in EdgeKey |-> NewCounter(Replica)]]

-----------------------------------------------------------------------------
\* The arms of the match in Forest::apply.

\* Last writer wins, by the order of tags.
Replaces(tag, existing) == existing = None \/ TagLT(existing, tag)

ApplyAddNode(v, tag, op) ==
  LET added == [v EXCEPT !.nodes = Add(@, op.id, tag)]
  IN  IF Replaces(tag, v.node_payload_tag[op.id])
      THEN [added EXCEPT !.node_payload[op.id] = op.payload,
                         !.node_payload_tag[op.id] = tag]
      ELSE added

ApplyRemoveNode(v, op) == [v EXCEPT !.nodes = Remove(@, op.id)]

ApplyAddEdge(v, tag, op) ==
  LET w == op.initial_weight
  IN  [v EXCEPT !.edges = Add(@, op.key, tag),
                !.edge_weight[op.key] = CASE w > 0 -> Incr(@, tag.replica, w)
                                          [] w < 0 -> Decr(@, tag.replica, -w)
                                          [] w = 0 -> @]

ApplyRemoveEdge(v, op) == [v EXCEPT !.edges = Remove(@, op.key)]

\* The weight changes whether or not the edge is present.
ApplyReinforce(v, op) == [v EXCEPT !.edge_weight[op.key] = Incr(@, op.replica, op.amount)]
ApplyDecay(v, op) == [v EXCEPT !.edge_weight[op.key] = Decr(@, op.replica, op.amount)]

\* (Faulty variant.)  Whatever arrives last is kept.
ApplySetEmbeddingLast(v, tag, op) ==
  [v EXCEPT !.node_embedding_tag[op.id] = tag,
            !.node_payload[op.id] = IF @ = None THEN None
                                    ELSE [@ EXCEPT !.embedding = op.embedding]]

\* The tag is recorded also when there is no payload to hold the embedding.
ApplySetEmbedding(v, tag, op) ==
  IF Replaces(tag, v.node_embedding_tag[op.id])
  THEN [v EXCEPT !.node_embedding_tag[op.id] = tag,
                 !.node_payload[op.id] = IF @ = None THEN None
                                         ELSE [@ EXCEPT !.embedding = op.embedding]]
  ELSE v

\* The match itself.
Materialize(v, s) ==
  CASE s.op.type = "AddNode"      -> ApplyAddNode(v, s.tag, s.op)
    [] s.op.type = "RemoveNode"   -> ApplyRemoveNode(v, s.op)
    [] s.op.type = "AddEdge"      -> ApplyAddEdge(v, s.tag, s.op)
    [] s.op.type = "RemoveEdge"   -> ApplyRemoveEdge(v, s.op)
    [] s.op.type = "Reinforce"    -> ApplyReinforce(v, s.op)
    [] s.op.type = "Decay"        -> ApplyDecay(v, s.op)
    [] s.op.type = "SetEmbedding" -> ApplySetEmbedding(v, s.tag, s.op)

-----------------------------------------------------------------------------
\* Queries.

\* Forest::nodes: the present nodes that have a payload.
NodesOf(v) ==
  [id \in {i \in Present(v.nodes) : v.node_payload[i] # None} |-> v.node_payload[id]]

\* Forest::edges with Forest::weight.
EdgesOf(v) == [k \in Present(v.edges) |-> Value(v.edge_weight[k])]

\* Forest::state_digest: no embeddings in it.
StateDigest(v) ==
  [nodes |-> [id \in DOMAIN NodesOf(v) |-> v.node_payload[id].label], edges |-> EdgesOf(v)]

-----------------------------------------------------------------------------
\* What a view holds about a node follows from the set of operations known, in
\* whatever order they came: a removal hits the one addition of the node, the
\* payload is that of the addition, with the embedding of the largest tag.
NodeFollows(v, ops, id) ==
  LET about(type) == {s \in ops : s.op.type = type /\ s.op.id = id}
      embeddings  == about("SetEmbedding")
  IN  /\ v.nodes.adds[id] = {s.tag : s \in about("AddNode")}
      /\ v.nodes.removes[id] = IF about("RemoveNode") = {} THEN {} ELSE v.nodes.adds[id]
      /\ embeddings = {} =>
           /\ v.node_embedding_tag[id] = None
           /\ \A s \in about("AddNode") : v.node_payload[id] = s.op.payload
      /\ embeddings # {} =>
           \E e \in embeddings :
             /\ \A d \in embeddings : d = e \/ TagLT(d.tag, e.tag)
             /\ v.node_embedding_tag[id] = e.tag
             /\ \A s \in about("AddNode") :
                  v.node_payload[id] = [s.op.payload EXCEPT !.embedding = e.op.embedding]
=============================================================================
