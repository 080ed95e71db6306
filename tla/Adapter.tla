------------------------------ MODULE Adapter ------------------------------
(***************************************************************************)
(* What the engine expects of an adapter (trait Adapter in                 *)
(* crates/sle-core/src/traits.rs): ingest adds the nodes and edges of one  *)
(* more tree to the forest, under the tree id, and leaves the rest alone.  *)
(* Which nodes there are is up to the adapter.                             *)
(***************************************************************************)
EXTENDS Naturals, Sequences

CONSTANT Tree   \* tree ids

VARIABLES
  nodes,   \* the tree id of each node; the id of a node is its index
  edges    \* a set of [src, dst, kind]

vars == <<nodes, edges>>

Init == nodes = <<>> /\ edges = {}

\* A call of ingest that returns the root.  Nothing keeps a host from ingesting
\* under the same tree id again: that is another tree.
Ingest(tree) ==
  LET root      == Len(nodes) + 1
      new       == root..Len(nodes')
      parent(n) == {e.src : e \in {x \in edges' : x.dst = n /\ x.kind = "Contains"}}
  IN  /\ Len(nodes') > Len(nodes)
      /\ SubSeq(nodes', 1, Len(nodes)) = nodes
      /\ \A n \in new : nodes'[n] = tree
      /\ edges \subseteq edges'
      /\ \A e \in edges' \ edges : e.src \in new /\ e.dst \in new
      /\ parent(root) = {}
      /\ \A n \in new \ {root} : \E p \in root..(n - 1) : parent(n) = {p}

Next == \E tree \in Tree : Ingest(tree)

Spec == Init /\ [][Next]_vars
=============================================================================
