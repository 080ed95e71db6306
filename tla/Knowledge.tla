----------------------------- MODULE Knowledge -----------------------------
(***************************************************************************)
(* What a group of replicas promises, without clocks, logs, tombstones or  *)
(* counters: a replica knows a set of operations, each of which was made   *)
(* knowing a set of others, and shows a graph after what it knows.  How    *)
(* the operations travelled, in which order and how often, makes no        *)
(* difference (sle-sync, "apply every op, in any order, possibly more than *)
(* once"; add-wins removal after orset.rs), except for an edge that is     *)
(* removed here while it is added there.                                   *)
(***************************************************************************)
EXTENDS Forest

VARIABLES
  known,   \* the stamped operations each replica knows
  past,    \* the tags that were known where an operation was made, by tag
  shown    \* the graph each replica shows

vars == <<known, past, shown>>

\* The operations of a type about a node or an edge.
About(ops, type, field, x) == {s \in ops : s.op.type = type /\ s.op[field] = x}

\* Add wins: an addition can count unless a removal was made knowing it.
Survives(ops, seen, add, remove, field, x) ==
  \E a \in About(ops, add, field, x) :
    \A d \in About(ops, remove, field, x) : a.tag \notin seen[d.tag]

\* It must count if it was made knowing every removal there is.
Prevails(ops, seen, add, remove, field, x) ==
  \E a \in About(ops, add, field, x) :
    \A d \in About(ops, remove, field, x) : d.tag \in seen[a.tag]

\* What an operation adds to the weight of its edge.
Delta(s) ==
  CASE s.op.type = "AddEdge"   -> s.op.initial_weight
    [] s.op.type = "Reinforce" -> s.op.amount
    [] s.op.type = "Decay"     -> -s.op.amount

WeightOps(ops, k) ==
  UNION {About(ops, type, "key", k) : type \in {"AddEdge", "Reinforce", "Decay"}}

\* The weight is the sum, exactly if the sum fits; on the way it may not fit.
WeightIn(ops, k) == Signed(SumFunction([s \in WeightOps(ops, k) |-> Delta(s)]))

\* Not even a bucket can have run over.
Moderate(ops, k) ==
  SumFunction([s \in WeightOps(ops, k) |-> IF Delta(s) < 0 THEN -Delta(s) ELSE Delta(s)]) < 2^Width

\* The last write is the one with the largest tag.
Latest(S) == CHOOSE s \in S : \A t \in S : t = s \/ TagLT(t.tag, s.tag)

PayloadIn(ops, id) ==
  LET embeddings == About(ops, "SetEmbedding", "id", id)
      payload    == Latest(About(ops, "AddNode", "id", id)).op.payload
  IN  IF embeddings = {} THEN payload
      ELSE [payload EXCEPT !.embedding = Latest(embeddings).op.embedding]

\* The nodes that a set of operations stands for: an id is added only once.
NodesIn(ops, seen) ==
  [id \in {i \in NodeId : Survives(ops, seen, "AddNode", "RemoveNode", "id", i)}
     |-> PayloadIn(ops, id)]

\* The edges it may stand for.  Of an addition and a removal that did not know
\* of each other either may win, here one and there the other.
PresenceFits(keys, ops, seen) ==
  \A k \in EdgeKey :
    /\ k \in keys => Survives(ops, seen, "AddEdge", "RemoveEdge", "key", k)
    /\ Prevails(ops, seen, "AddEdge", "RemoveEdge", "key", k) => k \in keys

\* The weights are determined.
EdgesFit(edges, ops, seen) ==
  /\ PresenceFits(DOMAIN edges, ops, seen)
  /\ \A k \in DOMAIN edges : edges[k] = WeightIn(ops, k)

-----------------------------------------------------------------------------
TagsOf(ops) == {s.tag : s \in ops}

Init ==
  /\ known = [r \in Replica |-> {}]
  /\ past = <<>>
  /\ shown = [r \in Replica |-> [nodes |-> NodesIn({}, <<>>), edges |-> <<>>]]

\* r shows what it knows now; nothing changes anywhere else.
Shows(r) ==
  /\ shown'[r].nodes = NodesIn(known'[r], past')
  /\ EdgesFit(shown'[r].edges, known'[r], past')
  /\ \A q \in Replica \ {r} : shown'[q] = shown[q]

\* A replica makes an operation under a tag of its own that nobody has used.
Make(r) ==
  \E s \in known'[r] :
    /\ s.tag.replica = r /\ s.tag \notin DOMAIN past
    /\ known' = [known EXCEPT ![r] = @ \cup {s}]
    /\ past' = [t \in DOMAIN past \cup {s.tag} |->
                  IF t = s.tag THEN TagsOf(known[r]) ELSE past[t]]
    /\ Shows(r)

\* A replica learns an operation that another one knows.
Learn(r) ==
  \E q \in Replica : \E s \in known[q] :
    /\ known' = [known EXCEPT ![r] = @ \cup {s}]
    /\ UNCHANGED past
    /\ Shows(r)

Next == \E r \in Replica : Make(r) \/ Learn(r)

Spec == Init /\ [][Next]_vars
=============================================================================
