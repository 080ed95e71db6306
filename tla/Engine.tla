------------------------------- MODULE Engine ------------------------------
(***************************************************************************)
(* Hosts at work: each has one engine (Engine of the Python binding; the   *)
(* command line's serve makes the ingest requests only), into which it     *)
(* ingests files, which it scans for similar texts, to which it reports    *)
(* events, and whose log it hands to other hosts as bytes.  An engine      *)
(* serves one request at a time, so that a request is one step.  What is   *)
(* handed over is the log as it was after some request: it arrives soon,   *)
(* late, behind a newer one, again, or never.                              *)
(*                                                                         *)
(* Abstracted: what an adapter makes of a file is a constant (TextAdapter  *)
(* and CodeAdapter say how it comes about); an embedding is the text and   *)
(* the number of dimensions it was made of, with the scores of any two as  *)
(* a constant, in percent; the wall clock stands still (OpLog lets it go   *)
(* its own ways) and the tag set is the tags in the log (LogMatchesTags).  *)
(* Requests that fail (no adapter, an unreadable file, a string that is no *)
(* id or event) fail before they change anything and are left out.         *)
(***************************************************************************)
EXTENDS Forest, Codec

CONSTANTS
  File,         \* [tree, ext, nodes, edges]: name, extension and what is in it
  Dims,         \* the dimensions hosts ask for
  Threshold,    \* the thresholds of their scans, in percent
  Score,        \* the similarity of two embeddings, in percent
  ReportKey,    \* bound: the edges each host reports events on
  MaxRequests   \* bound: requests to an engine

\* The ids, keys, contents and weights in use are those that hosts can make.
ASSUME IdsAssumption == \A n \in LocalId : 0..n \subseteq LocalId

SimilarTo(a, b) == [src |-> a, dst |-> b, kind |-> <<"SimilarTo">>]

ASSUME KeyAssumption ==
  /\ \A k \in EdgeKey : k \in [src : Nat \X Nat, dst : Nat \X Nat, kind : Seq(Range(k.kind))]
  /\ \A a, b \in NodeId : SimilarTo(a, b) \in EdgeKey

\* adapter_for knows four extensions.
HasAdapter(file) == file.ext \in {"rs", "py", "md", "txt"}

\* What adapters make of a file is a tree: its nodes but for the first have one
\* parent, which comes before them.  They do not link what is similar.
IsTree(file) ==
  LET parents(i) == {x.src : x \in {y \in Range(file.edges) : y.dst = i /\ y.kind[1] = "Contains"}}
  IN  /\ parents(1) = {}
      /\ \A i \in 2..Len(file.nodes) : \E p \in 1..(i - 1) : parents(i) = {p}
      /\ \A x \in Range(file.edges) : x.kind # <<"SimilarTo">>

\* Its nodes have contents in use, and its edges join its nodes.
ASSUME FileAssumption ==
  \A file \in {x \in File : HasAdapter(x)} :
    /\ file.nodes \in Seq(Range(file.nodes)) \ {<<>>}
    /\ \A m \in Range(file.nodes) :
         [tree |-> file.tree, kind |-> m.kind, text |-> m.text] \in Label
    /\ file.edges \in Seq(Range(file.edges))
    /\ \A m \in Range(file.edges) :
         /\ {m.src, m.dst} \subseteq 1..Len(file.nodes)
         /\ \A e \in Replica, n \in LocalId :
              n + Len(file.nodes) - 1 \in LocalId =>
                [src |-> <<e, n + m.src - 1>>, dst |-> <<e, n + m.dst - 1>>,
                 kind |-> m.kind] \in EdgeKey
    /\ IsTree(file)

Embed(text, dims) == [text |-> text, dims |-> dims]

ASSUME EmbeddingAssumption ==
  \A label \in Label, dims \in Dims : Embed(label.text, dims) \in Embedding \ {None}

ASSUME ScoreAssumption ==
  \A a, b \in Embedding : /\ Score[a, b] = Score[b, a]
                          /\ Score[a, b] \in -100..100 \cap Weight

ASSUME HostAssumption ==
  /\ 1 \in Weight   \* of the edges of a file
  /\ \A e \in Replica : ReportKey[e] \subseteq EdgeKey
  /\ Event \subseteq DOMAIN Magnitude
  /\ MaxRequests \in Nat

VARIABLES
  forest,     \* the forest of each engine
  requests,   \* the number of its requests so far
  deltas      \* what export_delta may have handed out: its log after each of them

vars == <<forest, requests, deltas>>

S == INSTANCE SequencesExt   \* some of its names are OrSet's, too

-----------------------------------------------------------------------------
\* Forest::new.
NewForest == [view |-> NewView, log |-> <<>>, last |-> HlcZero, next_local_id |-> 0]

Init ==
  /\ forest = [e \in Replica |-> NewForest]
  /\ requests = [e \in Replica |-> 0]
  /\ deltas = [e \in Replica |-> {}]

\* Forest::apply.
Apply(f, s) ==
  IF \E i \in 1..Len(f.log) : f.log[i].tag = s.tag THEN f
  ELSE [f EXCEPT !.view = Materialize(@, s),
                 !.last = Observe(@, s.tag.hlc, 0),
                 !.log = Append(@, s)]

\* The local mutation API.
Do(e, f, op) ==
  LET hlc == Tick(f.last, 0)
  IN  Apply([f EXCEPT !.last = hlc], [tag |-> [replica |-> e, hlc |-> hlc], op |-> op])

DoAll(e, f, ops) == S!FoldLeft(LAMBDA g, op : Do(e, g, op), f, ops)

AddEdge(key, weight) == [type |-> "AddEdge", key |-> key, initial_weight |-> weight]

\* Engine e serves one more request and has forest f then.
Request(e, f) ==
  /\ requests[e] < MaxRequests
  /\ requests' = [requests EXCEPT ![e] = @ + 1]
  /\ forest' = [forest EXCEPT ![e] = f]
  /\ deltas' = [deltas EXCEPT ![e] = @ \cup {f.log}]

-----------------------------------------------------------------------------
\* The operations of ingesting a file when the next node gets number n: those
\* of its nodes, then those of its edges.  (Adapters add an edge as soon as they
\* have its nodes; nobody sees the forest in between.)
Ingested(e, file, n) ==
  LET id(i) == <<e, n + i - 1>>
  IN  [i \in 1..Len(file.nodes) |->
         [type |-> "AddNode", id |-> id(i),
          payload |-> [label |-> [tree |-> file.tree, kind |-> file.nodes[i].kind,
                                  text |-> file.nodes[i].text],
                       embedding |-> None]]]
      \o [i \in 1..Len(file.edges) |->
            AddEdge([src  |-> id(file.edges[i].src), dst |-> id(file.edges[i].dst),
                     kind |-> file.edges[i].kind], 1)]

\* (Faulty variant.)  The numbers start again with every file.
IngestRestarts(e, file) ==
  /\ HasAdapter(file)
  /\ Request(e, [DoAll(e, forest[e], Ingested(e, file, 0))
                   EXCEPT !.next_local_id = Len(file.nodes)])

\* Engine::ingest, ingest_file.  That the file has been ingested before makes no
\* difference.
Ingest(e, file) ==
  LET n == forest[e].next_local_id
  IN  /\ HasAdapter(file)
      /\ n + Len(file.nodes) - 1 \in LocalId
      /\ Request(e, [DoAll(e, forest[e], Ingested(e, file, n))
                       EXCEPT !.next_local_id = n + Len(file.nodes)])

\* Pairs of numbers, such as ids, in the order of the maps.
Before(p, q) == p[1] < q[1] \/ (p[1] = q[1] /\ p[2] < q[2])
InOrder(pairs) ==
  [i \in 1..Cardinality(pairs) |->
     CHOOSE p \in pairs : Cardinality({q \in pairs : Before(q, p)}) = i - 1]

IsEmbeddable(payload) == payload.label.kind \notin {"Module", "Document"}

\* (Faulty variant.)  What has an embedding is not embedded again.
TargetsWithout(f) ==
  {id \in DOMAIN NodesOf(f.view) : /\ IsEmbeddable(NodesOf(f.view)[id])
                                   /\ NodesOf(f.view)[id].embedding = None}

\* The nodes that a scan embeds, those of other engines included.
Targets(f) == {id \in DOMAIN NodesOf(f.view) : IsEmbeddable(NodesOf(f.view)[id])}

\* embed_all.
EmbedAll(e, f, dims) ==
  LET ids == InOrder(Targets(f))
  IN  DoAll(e, f, [i \in 1..Len(ids) |->
                     [type |-> "SetEmbedding", id |-> ids[i],
                      embedding |-> Embed(NodesOf(f.view)[ids[i]].label.text, dims)]])

ScoreOf(f, a, b) == Score[NodesOf(f.view)[a].embedding, NodesOf(f.view)[b].embedding]

\* scan_proximity: the pairs of embedded nodes that score, each pair once.
ProximityLinks(f, threshold) ==
  LET ids == InOrder({id \in DOMAIN NodesOf(f.view) : NodesOf(f.view)[id].embedding # None})
      scoring == {p \in (1..Len(ids)) \X (1..Len(ids)) :
                    p[1] < p[2] /\ ScoreOf(f, ids[p[1]], ids[p[2]]) >= threshold}
      pairs == InOrder(scoring)
  IN  [i \in 1..Len(pairs) |->
         [a |-> ids[pairs[i][1]], b |-> ids[pairs[i][2]],
          score |-> ScoreOf(f, ids[pairs[i][1]], ids[pairs[i][2]])]]

\* (Faulty variant.)  The way back is forgotten.
ApplyProximityLinksOneWay(e, f, links) ==
  DoAll(e, f, [i \in 1..Len(links) |-> AddEdge(SimilarTo(links[i].a, links[i].b), links[i].score)])

\* apply_proximity_links: two edges for each link, its score as their weight.
ApplyProximityLinks(e, f, links) ==
  DoAll(e, f, [i \in 1..(2 * Len(links)) |->
                 LET l == links[(i + 1) \div 2]
                 IN  AddEdge(IF i % 2 = 1 THEN SimilarTo(l.a, l.b) ELSE SimilarTo(l.b, l.a), l.score)])

\* Engine::scan_proximity.  Without targets it changes nothing.
Scan(e, dims, threshold) ==
  LET f == EmbedAll(e, forest[e], dims)
  IN  /\ Targets(forest[e]) # {}
      /\ Request(e, ApplyProximityLinks(e, f, ProximityLinks(f, threshold)))

\* (Faulty variant.)  The amount of a negative event is negative, too.
ReportSigned(e, key, event) ==
  Request(e, Do(e, forest[e],
    [type |-> IF Magnitude[event] > 0 THEN "Reinforce" ELSE "Decay", key |-> key, replica |-> e,
     amount |-> Magnitude[event]]))

\* Engine::report_event, on any edge the host can spell.
Report(e, key, event) ==
  Request(e, Do(e, forest[e],
    [type |-> IF Magnitude[event] > 0 THEN "Reinforce" ELSE "Decay", key |-> key, replica |-> e,
     amount |-> IF Magnitude[event] > 0 THEN Magnitude[event] ELSE -Magnitude[event]]))

\* What export_delta writes and import_delta reads: ids and keys are strings.
Written(s) == IF "key" \in DOMAIN s.op THEN [s EXCEPT !.op.key = EdgeKeyString(@)]
              ELSE [s EXCEPT !.op.id = NodeIdString(@)]
ReadBack(s) == IF "key" \in DOMAIN s.op THEN [s EXCEPT !.op.key = EdgeKeyOf(@)]
              ELSE [s EXCEPT !.op.id = NodeIdOf(@)]

\* Engine::import_delta of what Engine::export_delta of another host handed out.
Exchange(from, to, delta) ==
  LET bytes == [i \in 1..Len(delta) |-> Written(delta[i])]
  IN  /\ delta \in deltas[from]
      /\ Request(to, S!FoldLeft(LAMBDA f, s : Apply(f, ReadBack(s)), forest[to], bytes))

Next ==
  \E e \in Replica :
    \/ \E file \in File : Ingest(e, file)
    \/ \E dims \in Dims, threshold \in Threshold : Scan(e, dims, threshold)
    \/ \E key \in ReportKey[e], event \in Event : Report(e, key, event)
    \/ \E to \in Replica \ {e}, delta \in deltas[e] : Exchange(e, to, delta)

Spec == Init /\ [][Next]_vars

-----------------------------------------------------------------------------
Known(e) == {forest[e].log[i] : i \in 1..Len(forest[e].log)}

TypeOK ==
  /\ requests \in [Replica -> 0..MaxRequests]
  /\ \A e \in Replica :
       /\ Known(e) \subseteq [tag : [replica : Replica, hlc : Hlc], op : Operation]
       /\ forest[e].last \in Hlc
       /\ forest[e].next_local_id \in Nat
       /\ DOMAIN NodesOf(forest[e].view) \subseteq Replica \X LocalId
       /\ \A delta \in deltas[e] : Range(delta) \subseteq Known(e)

\* Hosts never remove anything, so that what Replicas finds about removals does
\* not concern them: engines that know the same operations show the same nodes,
\* embeddings and edges and have learnt the same weights, those of edges that are
\* not there and of kinds that contain the separator included.
EnginesConverge ==
  \A a, b \in Replica :
    a < b /\ {s.tag : s \in Known(a)} = {s.tag : s \in Known(b)} =>
      /\ NodesOf(forest[a].view) = NodesOf(forest[b].view)
      /\ Present(forest[a].view.edges) = Present(forest[b].view.edges)
      /\ \A k \in EdgeKey : Value(forest[a].view.edge_weight[k]) = Value(forest[b].view.edge_weight[k])

\* What the events an engine knows of have done to the weight of an edge.
Feedback(e, key) ==
  SumFunction([s \in {x \in Known(e) : x.op.type \in {"Reinforce", "Decay"} /\ x.op.key = key} |->
                 IF s.op.type = "Reinforce" THEN s.op.amount ELSE -s.op.amount])

\* What carries text: containers have nothing but their file's name.
Contents(f) ==
  {id \in DOMAIN NodesOf(f.view) : NodesOf(f.view)[id].label.kind \notin {"Module", "Document"}}

\* Whoever has scanned how often: links between similar nodes join two different
\* nodes neither of which is a mere container, go both ways, and differ in weight
\* by what was reported on either of them and nothing else, up to the width.
LinksComeInPairs ==
  \A e \in Replica :
    LET edges == EdgesOf(forest[e].view)
        link(a, b) == Wrap(edges[SimilarTo(a, b)] - Feedback(e, SimilarTo(a, b)))
    IN  \A k \in {x \in DOMAIN edges : x.kind = <<"SimilarTo">>} :
          /\ k.src # k.dst /\ {k.src, k.dst} \subseteq Contents(forest[e])
          /\ SimilarTo(k.dst, k.src) \in DOMAIN edges
          /\ link(k.src, k.dst) = link(k.dst, k.src)

\* A scan leaves every node with a text with an embedding of the dimensions
\* asked for, and each pair that reaches the threshold with edges both ways; where
\* there was none, it gets its score once, on top of what was reported on it
\* before, up to the width.  All other pairs keep their weights.  Not so for nodes
\* that a replica with a larger id has embedded: their embeddings stay.  What a
\* scan does to pairs that are linked is the matter of ScansLinkNew.
ScansCover ==
  [][\A e \in Replica, dims \in Dims, threshold \in Threshold :
       Scan(e, dims, threshold) =>
         LET taken == {s.op.id : s \in {x \in Known(e) : /\ x.op.type = "SetEmbedding"
                                                         /\ x.tag.replica > e}}
             ours  == Contents(forest[e]) \ taken
             nodes == NodesOf(forest'[e].view)
             score(a, b) == Score[Embed(nodes[a].label.text, dims), Embed(nodes[b].label.text, dims)]
             before(a, b) == Value(forest[e].view.edge_weight[SimilarTo(a, b)])
             after(a, b)  == Value(forest'[e].view.edge_weight[SimilarTo(a, b)])
         IN  /\ \A a \in ours : nodes[a].embedding = Embed(nodes[a].label.text, dims)
             /\ \A a, b \in ours : a # b =>
                  IF score(a, b) >= threshold
                  THEN /\ SimilarTo(a, b) \in DOMAIN EdgesOf(forest'[e].view)
                       /\ SimilarTo(a, b) \notin DOMAIN EdgesOf(forest[e].view) =>
                            after(a, b) = Signed(before(a, b) + score(a, b))
                  ELSE after(a, b) = before(a, b)]_vars

\* (Violated.)  A scan "for pairs above a similarity threshold that aren't already
\* linked, emits a SimilarTo edge", says the design document
\* (docs/brainstorm-design-and-implement-enchanted-brooks.md:110-112): it adds no
\* edge that is there.  apply_proximity_links adds all of them, each time.
ScansLinkNew ==
  [][\A e \in Replica, dims \in Dims, threshold \in Threshold :
       Scan(e, dims, threshold) =>
         \A i \in (Len(forest[e].log) + 1)..Len(forest'[e].log) :
           LET op == forest'[e].log[i].op
           IN  op.type = "AddEdge" => op.key \notin DOMAIN EdgesOf(forest[e].view)]_vars

\* The forest that e has made, without what others and scans have added.
A(e) == INSTANCE Adapter WITH
  Tree  <- {file.tree : file \in File},
  nodes <- [i \in 1..forest[e].next_local_id |->
              forest[e].view.node_payload[<<e, i - 1>>].label.tree],
  edges <- {[src |-> k.src[2] + 1, dst |-> k.dst[2] + 1, kind |-> k.kind[1]] :
              k \in {x \in DOMAIN EdgesOf(forest[e].view) :
                       x.src[1] = e /\ x.kind # <<"SimilarTo">>}}

\* The trees of an engine are what it has ingested, one after the other, the
\* same file twice as two trees; scans, events and what comes from other hosts,
\* its own operations included, leave them alone.
TreesAreKept ==
  /\ \A e \in Replica : A(e)!Init
  /\ [][\A e \in Replica : [A(e)!Next]_(A(e)!vars)]_vars
=============================================================================
