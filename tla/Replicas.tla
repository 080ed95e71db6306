------------------------------ MODULE Replicas -----------------------------
(***************************************************************************)
(* A group of engines: OpLog's replication and, at every replica, the      *)
(* graph that Forest materializes from the log, under the calls hosts make *)
(* (sle-core's local mutation API, learning.rs, sle-sync, the bindings).   *)
(***************************************************************************)
EXTENDS Forest, FiniteSets, Sequences

CONSTANTS
  Api,         \* the mutations the hosts use
  DecayAmount, \* the amounts of decay_all on the hosts' schedules
  WallClock,   \* the readings of the wall clocks
  MaxOps       \* bound: operations minted altogether

ASSUME ApiAssumption ==
  Api \subseteq {"AddNode", "RemoveNode", "AddEdge", "RemoveEdge",
                 "ReportEvent", "DecayAll", "SetEmbedding"}
ASSUME DecayAssumption == DecayAmount \subseteq Nat
ASSUME WallClockAssumption == WallClock \subseteq Nat
ASSUME EventAssumption == Event \subseteq DOMAIN Magnitude

VARIABLES
  clock, applied_tags, log, todo,   \* see OpLog
  view,                             \* the materialized graph of each replica
  next_local_id,                    \* the next node counter of each replica
  decaying                          \* what the running decay_all has left

L == INSTANCE OpLog

vars == <<clock, applied_tags, log, todo, view, next_local_id, decaying>>

NoDecay == [at |-> None, amount |-> 0, keys |-> {}]

\* The maps of a view hang together: tombstones belong to additions, and a
\* payload is there with its tag exactly if its node was ever added.
ViewOK(r) ==
  LET v == view[r]
  IN  /\ \A id \in NodeId :
           /\ v.nodes.removes[id] \subseteq v.nodes.adds[id]
           /\ v.nodes.adds[id] \subseteq applied_tags[r]
           /\ IF v.nodes.adds[id] = {}
              THEN v.node_payload[id] = None /\ v.node_payload_tag[id] = None
              ELSE v.node_payload[id] \in Payload /\ v.node_payload_tag[id] \in v.nodes.adds[id]
           /\ v.node_embedding_tag[id] \in applied_tags[r] \cup {None}
      /\ \A k \in EdgeKey :
           /\ v.edges.removes[k] \subseteq v.edges.adds[k]
           /\ v.edges.adds[k] \subseteq applied_tags[r]
           /\ v.edge_weight[k] \in [pos : [Replica -> 0..(2^Width - 1)],
                                     neg : [Replica -> 0..(2^Width - 1)]]

TypeOK ==
  /\ L!TypeOK
  /\ \A r \in Replica : ViewOK(r)
  /\ next_local_id \in [Replica -> Nat]
  /\ decaying \in [at : Replica \cup {None}, amount : Nat, keys : SUBSET EdgeKey]

Init ==
  /\ L!Init
  /\ view = [r \in Replica |-> NewView]
  /\ next_local_id = [r \in Replica |-> 0]
  /\ decaying = NoDecay

\* Forest::apply runs the match in the call that appends to the log.
Materialized ==
  view' = [r \in Replica |->
             IF Len(log'[r]) > Len(log[r]) THEN Materialize(view[r], log'[r][Len(log'[r])])
             ELSE view[r]]

-----------------------------------------------------------------------------
\* The local mutation API.  No other call is running then.
Free == decaying = NoDecay

Do(r, op) == L!Mint(r, op) /\ Materialized

\* The ids and keys a host of r has got from r.
IdsAt(r) == {id \in NodeId : view[r].nodes.adds[id] # {}}
KeysAt(r) == {k \in EdgeKey : view[r].edges.adds[k] # {}}

\* Adapters hand over payloads without an embedding.
AddNode(r) ==
  /\ "AddNode" \in Api /\ Free
  /\ next_local_id[r] \in LocalId
  /\ \E label \in Label :
       Do(r, [type |-> "AddNode", id |-> <<r, next_local_id[r]>>,
              payload |-> [label |-> label, embedding |-> None]])
  /\ next_local_id' = [next_local_id EXCEPT ![r] = @ + 1]
  /\ UNCHANGED decaying

RemoveNode(r) ==
  /\ "RemoveNode" \in Api /\ Free
  /\ \E id \in IdsAt(r) : Do(r, [type |-> "RemoveNode", id |-> id])
  /\ UNCHANGED <<next_local_id, decaying>>

SetEmbedding(r) ==
  /\ "SetEmbedding" \in Api /\ Free
  /\ \E id \in IdsAt(r), e \in Embedding :
       Do(r, [type |-> "SetEmbedding", id |-> id, embedding |-> e])
  /\ UNCHANGED <<next_local_id, decaying>>

AddEdge(r) ==
  /\ "AddEdge" \in Api /\ Free
  /\ \E k \in EdgeKey, w \in Weight :
       Do(r, [type |-> "AddEdge", key |-> k, initial_weight |-> w])
  /\ UNCHANGED <<next_local_id, decaying>>

RemoveEdge(r) ==
  /\ "RemoveEdge" \in Api /\ Free
  /\ \E k \in KeysAt(r) : Do(r, [type |-> "RemoveEdge", key |-> k])
  /\ UNCHANGED <<next_local_id, decaying>>

Reinforce(r, k, amount) ==
  Do(r, [type |-> "Reinforce", key |-> k, replica |-> r, amount |-> amount])

\* (Faulty variant.)  The decrement goes into somebody else's bucket.
DecayElsewhere(r, k, amount) ==
  Do(r, [type |-> "Decay", key |-> k, replica |-> CHOOSE x \in Replica : TRUE,
         amount |-> amount])

Decay(r, k, amount) ==
  Do(r, [type |-> "Decay", key |-> k, replica |-> r, amount |-> amount])

\* Forest::report_event, of any edge key the host names, present or not.
ReportEvent(r) ==
  /\ "ReportEvent" \in Api /\ Free
  /\ \E k \in EdgeKey, event \in Event :
       IF Magnitude[event] > 0 THEN Reinforce(r, k, Magnitude[event])
       ELSE Decay(r, k, -Magnitude[event])
  /\ UNCHANGED <<next_local_id, decaying>>

\* Forest::decay_all collects the present edges first ...
DecayAll(r) ==
  /\ "DecayAll" \in Api /\ Free /\ L!Idle
  /\ LET keys == Present(view[r].edges)
     IN  /\ keys # {} /\ L!Room(Cardinality(keys))
         /\ \E amount \in DecayAmount : decaying' = [at |-> r, amount |-> amount, keys |-> keys]
  /\ UNCHANGED <<clock, applied_tags, log, todo, view, next_local_id>>

\* ... and then decays them one by one.
DecayNext ==
  /\ ~ Free
  /\ \E k \in decaying.keys :
       /\ Decay(decaying.at, k, decaying.amount)
       /\ decaying' = IF decaying.keys = {k} THEN NoDecay
                      ELSE [decaying EXCEPT !.keys = @ \ {k}]
  /\ UNCHANGED next_local_id

Mutate(r) ==
  \/ AddNode(r) \/ RemoveNode(r) \/ SetEmbedding(r)
  \/ AddEdge(r) \/ RemoveEdge(r) \/ ReportEvent(r)
  \/ DecayAll(r) \/ DecayNext

\* Logs travel as in OpLog, whole and from the beginning.
Sync ==
  /\ Free
  /\ \E a, b \in Replica : L!SyncSince(a, b, HlcZero) \/ L!Merge(a, b)
  /\ UNCHANGED <<view, next_local_id, decaying>>

Import == L!Import /\ Materialized /\ UNCHANGED <<next_local_id, decaying>>

Next == (\E r \in Replica : Mutate(r)) \/ Sync \/ Import

Spec == Init /\ [][Next]_vars

\* Operations one by one, in any order.
ApplyOne ==
  /\ Free
  /\ \E a, b \in Replica : \E i \in 1..Len(log[a]) : L!ApplyOne(a, b, i)
  /\ UNCHANGED <<view, next_local_id, decaying>>

AnyOrderSpec == Init /\ [][Next \/ ApplyOne]_vars

-----------------------------------------------------------------------------
Known(r) == {log[r][i] : i \in 1..Len(log[r])}

\* The tags its minter had applied before it minted t.
Past(t) ==
  LET l == log[t.replica]
      n == CHOOSE i \in 1..Len(l) : l[i].tag = t
  IN  {l[i].tag : i \in 1..(n - 1)}

Pasts == [t \in UNION {applied_tags[r] : r \in Replica} |-> Past(t)]

\* The graph a replica shows.
Shown(r) == [nodes |-> NodesOf(view[r]), edges |-> EdgesOf(view[r])]

K == INSTANCE Knowledge WITH known <- [r \in Replica |-> Known(r)],
                             past  <- Pasts,
                             shown <- [r \in Replica |-> Shown(r)]

\* The engines implement the abstract promise: what a replica shows is what
\* the set of operations it knows means, through every import; a removed edge
\* does not come back, and one added in knowledge of the removal is there.
ShowsWhatIsKnown == K!Spec

\* Replicas that know the same operations agree on the state digest, the check
\* the tests and distributed_demo make.
DigestsConverge ==
  \A a, b \in Replica :
    applied_tags[a] = applied_tags[b] => StateDigest(view[a]) = StateDigest(view[b])

\* ... and on everything nodes() shows, embeddings included.
NodesConverge ==
  \A a, b \in Replica :
    applied_tags[a] = applied_tags[b] => NodesOf(view[a]) = NodesOf(view[b])

\* What a node is made from comes before what is done to it, in every log.
NodesFirst ==
  \A r \in Replica : \A i \in 1..Len(log[r]) :
    log[r][i].op.type \in {"RemoveNode", "SetEmbedding"} =>
      \E j \in 1..(i - 1) : /\ log[r][j].op.type = "AddNode"
                             /\ log[r][j].op.id = log[r][i].op.id

\* A node id is the id of one addition, by the replica in it.
IdsNameAdditions ==
  \A q, r \in Replica : \A s \in Known(q), t \in Known(r) :
    /\ s.op.type = "AddNode" =>
         s.op.id[1] = s.tag.replica /\ s.op.id[2] < next_local_id[s.tag.replica]
    /\ s.op.type = "AddNode" /\ t.op.type = "AddNode" /\ s.op.id = t.op.id => s = t

\* So it is at all replicas.
ViewsFollowOps == \A r \in Replica, id \in NodeId : NodeFollows(view[r], Known(r), id)

\* The inductive invariant, beside that of the logs, from which NodesConverge
\* follows.
NodeInv == NodesFirst /\ IdsNameAdditions /\ ViewsFollowOps

\* Replicas that have applied the same operations of p agree on what p
\* contributes to every weight: a bucket belongs to its replica, however the
\* operations of others are mixed in, and also when it wraps.
BucketsAgree ==
  \A a, b, p \in Replica :
    {t \in applied_tags[a] : t.replica = p} = {t \in applied_tags[b] : t.replica = p} =>
      \A k \in EdgeKey : /\ view[a].edge_weight[k].pos[p] = view[b].edge_weight[k].pos[p]
                          /\ view[a].edge_weight[k].neg[p] = view[b].edge_weight[k].neg[p]

\* Merging two replicas' states (PnCounter::merge, OrSet::merge) gives what
\* exchanging their operations would, unless a bucket has run over: no bucket
\* counts twice or is cut off, and nothing removed knowingly comes back.
StateMergeAgrees ==
  \A a, b \in Replica : a < b =>
    LET both  == Known(a) \cup Known(b)
        edges == Present(MergeSets(view[a].edges, view[b].edges))
    IN  /\ Present(MergeSets(view[a].nodes, view[b].nodes)) = DOMAIN K!NodesIn(both, Pasts)
        /\ (\A k \in EdgeKey : K!Moderate(both, k)) =>
           K!EdgesFit([k \in edges |-> Value(MergeCounters(view[a].edge_weight[k],
                                                             view[b].edge_weight[k]))],
                      both, Pasts)

\* A later SetEmbedding overwrites an earlier one (ops.rs): the embedding shown
\* is one that no embedding set at a later time should have replaced.
LaterEmbeddingWins ==
  \A r \in Replica : \A id \in DOMAIN NodesOf(view[r]) :
    LET sets == {s \in Known(r) : s.op.type = "SetEmbedding" /\ s.op.id = id}
    IN  sets # {} =>
          \E s \in sets : /\ NodesOf(view[r])[id].embedding = s.op.embedding
                          /\ \A t \in sets : ~ HlcLT(s.tag.hlc, t.tag.hlc)
=============================================================================
