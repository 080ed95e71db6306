---------------------------- MODULE CodeAdapter ----------------------------
(***************************************************************************)
(* The adapter for source code (crates/sle-adapters-code/src/lib.rs):      *)
(* ingest walks the syntax tree twice.  The define pass adds a node for    *)
(* every function, class and import; the link pass adds Calls edges by     *)
(* looking names up in the table the define pass has made.                 *)
(*                                                                         *)
(* Abstracted: the syntax tree is the sequence of the nodes `walk` does    *)
(* something about, in the order it meets them, with the number of such    *)
(* nodes around each; syntax of other kinds is only walked through.  The   *)
(* tree is chosen while the define pass goes on and is then fixed.         *)
(***************************************************************************)
EXTENDS Naturals, FiniteSetsExt, SequencesExt, BagsExt

CONSTANTS
  Name,      \* names of functions and classes, and what calls refer to
  Tree,      \* tree ids, which are file names
  MaxItems   \* bound: size of a syntax tree and of the forest before it

\* What a LangSpec tells apart.
ItemKind == {"function", "class", "import", "call"}

\* The name is what child_name or callee_name reads; that of an import, its
\* text, is never looked up.
Item == [kind : ItemKind, name : Name, depth : Nat]

VARIABLES
  nodes,         \* the nodes added to the forest; the id of a node is its index
  edges,         \* the bag of edges added: each addition adds 1 to the weight
  name_index,    \* the node each name stands for, 0 for none
  last_sibling,  \* the last child linked to each node, 0 for none
  source,        \* the syntax tree, as far as the define pass has walked it
  pass,          \* the pass that is going on, or "none"
  next,          \* the item of `source` the link pass comes to next
  context        \* the arguments `container` and `current_fn` of the walks that
                 \* are going on, one inside the other

vars == <<nodes, edges, name_index, last_sibling, source, pass, next, context>>

NodeId == 1..Len(nodes)
Payload == [tree : Tree, kind : {"Module", "Function", "Class", "Import"}]
EdgeKey == [src : NodeId, dst : NodeId, kind : {"Contains", "Precedes", "Calls"}]

TypeOK ==
  /\ nodes \in Seq(Payload)
  /\ BagToSet(edges) \subseteq EdgeKey
  /\ name_index \in [Name -> NodeId \cup {0}]
  /\ last_sibling \in [NodeId -> NodeId \cup {0}]
  /\ source \in Seq(Item)
  /\ pass \in {"none", "Define", "Link"}
  /\ next \in 1..(Len(source) + 1)
  /\ context \in Seq([container : NodeId, current_fn : NodeId])

Init ==
  /\ nodes = <<>> /\ edges = EmptyBag
  /\ name_index = [n \in Name |-> 0] /\ last_sibling = <<>>
  /\ source = <<>> /\ pass = "none" /\ next = 1 /\ context = <<>>

-----------------------------------------------------------------------------
\* The module of the file ingested last.
Root == Max({n \in NodeId : nodes[n].kind = "Module"})

Edge(src, dst, kind) == [src |-> src, dst |-> dst, kind |-> kind]

\* Forest::add_node; the new id.
New == Len(nodes) + 1

\* (Faulty variant.)  The child is not remembered if there was one before.
LinkFirstSibling(parent) ==
  LET prev == last_sibling[parent]
  IN  /\ edges' = IF prev = 0 THEN BagAdd(edges, Edge(parent, New, "Contains"))
                  ELSE BagAdd(BagAdd(edges, Edge(parent, New, "Contains")),
                              Edge(prev, New, "Precedes"))
      /\ last_sibling' = [Append(last_sibling, 0) EXCEPT ![parent] = IF prev = 0 THEN New ELSE prev]

\* (Faulty variant.)  Siblings are linked as parent and child are.
LinkSameKind(parent) ==
  LET prev == last_sibling[parent]
  IN  /\ edges' = IF prev = 0 THEN BagAdd(edges, Edge(parent, New, "Contains"))
                  ELSE BagAdd(BagAdd(edges, Edge(parent, New, "Contains")),
                              Edge(prev, New, "Contains"))
      /\ last_sibling' = [Append(last_sibling, 0) EXCEPT ![parent] = New]

\* link_sibling of the new node.
LinkSibling(parent) ==
  LET prev == last_sibling[parent]
  IN  /\ edges' = IF prev = 0 THEN BagAdd(edges, Edge(parent, New, "Contains"))
                  ELSE BagAdd(BagAdd(edges, Edge(parent, New, "Contains")),
                              Edge(prev, New, "Precedes"))
      /\ last_sibling' = [Append(last_sibling, 0) EXCEPT ![parent] = New]

\* What the walk around an item is called with.
Around(item) == context[item.depth + 1]

\* (Faulty variant.)  A function takes what is in it as its children.
DescendIntoFunction(item, node) ==
  context' = SubSeq(context, 1, item.depth + 1) \o
             (CASE item.kind = "function" -> <<[container |-> node, current_fn |-> node]>>
                [] item.kind = "class"    -> <<[Around(item) EXCEPT !.container = node]>>
                [] item.kind = "call"     -> <<Around(item)>>
                [] item.kind = "import"   -> <<>>)

\* Going on with what is inside an item that has (in the define pass) or is
\* taken to have (in the link pass) the given node: a function is where calls
\* come from, a class is what definitions belong to, an import is not entered.
Descend(item, node) ==
  context' = SubSeq(context, 1, item.depth + 1) \o
             (CASE item.kind = "function" -> <<[Around(item) EXCEPT !.current_fn = node]>>
                [] item.kind = "class"    -> <<[Around(item) EXCEPT !.container = node]>>
                [] item.kind = "call"     -> <<Around(item)>>
                [] item.kind = "import"   -> <<>>)

-----------------------------------------------------------------------------
\* ingest up to the first walk.
Ingest(tree) ==
  /\ pass = "none"
  /\ Len(nodes) < MaxItems
  /\ nodes' = Append(nodes, [tree |-> tree, kind |-> "Module"])
  /\ last_sibling' = [n \in 1..New |-> 0]
  /\ pass' = "Define"
  /\ context' = <<[container |-> New, current_fn |-> New]>>
  /\ UNCHANGED <<edges, name_index, source, next>>

\* The define pass comes to an item.
Meet(item) ==
  /\ pass = "Define" /\ Root - 1 + Len(source) < MaxItems
  /\ item.depth < Len(context)
  /\ source' = Append(source, item)
  /\ UNCHANGED <<pass, next>>

AddChild(item, kind) ==
  /\ nodes' = Append(nodes, [tree |-> Last(nodes).tree, kind |-> kind])
  /\ LinkSibling(Around(item).container)
  /\ Descend(item, New)

\* (Faulty variant.)  The first definition of a name stays.
DefineFirst(item) ==
  /\ item.kind \in {"function", "class"} /\ Meet(item)
  /\ AddChild(item, IF item.kind = "function" THEN "Function" ELSE "Class")
  /\ name_index' = [name_index EXCEPT ![item.name] = IF @ = 0 THEN New ELSE @]

\* (Faulty variant.)  The table has the id the next node will get.
DefineNextId(item) ==
  /\ item.kind \in {"function", "class"} /\ Meet(item)
  /\ AddChild(item, IF item.kind = "function" THEN "Function" ELSE "Class")
  /\ name_index' = [name_index EXCEPT ![item.name] = New + 1]

\* A later definition of the same name replaces an earlier one in the table.
Define(item) ==
  /\ item.kind \in {"function", "class"} /\ Meet(item)
  /\ AddChild(item, IF item.kind = "function" THEN "Function" ELSE "Class")
  /\ name_index' = [name_index EXCEPT ![item.name] = New]

DefineImport(item) ==
  /\ item.kind = "import" /\ Meet(item)
  /\ AddChild(item, "Import")
  /\ UNCHANGED name_index

\* In the define pass a call is only walked through.
PassCall(item) ==
  /\ item.kind = "call" /\ Meet(item)
  /\ Descend(item, New)
  /\ UNCHANGED <<nodes, edges, name_index, last_sibling>>

\* The second walk starts, at the root as the first one did.
StartLink ==
  /\ pass = "Define"
  /\ pass' = "Link"
  /\ context' = SubSeq(context, 1, 1)
  /\ UNCHANGED <<nodes, edges, name_index, last_sibling, source, next>>

\* The link pass comes to an item.
Revisit(item) ==
  /\ pass = "Link" /\ next <= Len(source) /\ source[next] = item
  /\ next' = next + 1
  /\ UNCHANGED <<nodes, name_index, last_sibling, source, pass>>

\* A definition is found again by its name, so that it may be another one.
LinkInside(item) ==
  /\ item.kind # "call" /\ Revisit(item)
  /\ LET found == name_index[item.name]
         none  == IF item.kind = "function" THEN Around(item).current_fn
                  ELSE Around(item).container
     IN  Descend(item, IF found # 0 THEN found ELSE none)
  /\ UNCHANGED edges

\* A call becomes an edge if the name it refers to is in the table.
LinkCall(item) ==
  /\ item.kind = "call" /\ Revisit(item)
  /\ LET target == name_index[item.name]
     IN  edges' = IF target = 0 THEN edges
                  ELSE BagAdd(edges, Edge(Around(item).current_fn, target, "Calls"))
  /\ Descend(item, 0)

\* The call returns; the maps and the syntax tree are dropped.
Return ==
  /\ pass = "Link" /\ next > Len(source)
  /\ pass' = "none" /\ context' = <<>>
  /\ source' = <<>> /\ next' = 1
  /\ name_index' = [n \in Name |-> 0]
  /\ last_sibling' = [n \in NodeId |-> 0]
  /\ UNCHANGED <<nodes, edges>>

Next ==
  \/ \E tree \in Tree : Ingest(tree)
  \/ \E kind \in ItemKind, name \in Name, depth \in 0..Len(context) :
       LET item == [kind |-> kind, name |-> name, depth |-> depth]
       IN  Define(item) \/ DefineImport(item) \/ PassCall(item)
  \/ StartLink
  \/ \E i \in 1..Len(source) : LinkInside(source[i]) \/ LinkCall(source[i])
  \/ Return

Spec == Init /\ [][Next]_vars

-----------------------------------------------------------------------------
Of(kind) == {e \in BagToSet(edges) : e.kind = kind}

\* The node that an item of the file ingested last got.
NodeOf(i) == Root + Cardinality({j \in 1..i : source[j].kind # "call"})

\* The items of a kind around item i, outermost first.
Enclosing(i, kind) ==
  {j \in 1..(i - 1) : /\ source[j].kind = kind
                      /\ \A m \in (j + 1)..i : source[j].depth < source[m].depth}

\* What a name stands for in the end: the last definition of it anywhere in the
\* file, before or after its uses.
Meant(name) ==
  LET definitions == {i \in 1..Len(source) : source[i].kind \in {"function", "class"}
                                              /\ source[i].name = name}
  IN  IF definitions = {} THEN 0 ELSE NodeOf(Max(definitions))

\* Everything belongs to the class it is written in, whatever functions are in
\* between, or to the module; Contains edges are added once, so that their
\* weight is 1.
ContainsFollowsClasses ==
  pass # "none" =>
    {e \in Of("Contains") : e.src >= Root} =
      {LET classes == Enclosing(i, "class")
       IN  Edge(IF classes = {} THEN Root ELSE NodeOf(Max(classes)), NodeOf(i), "Contains")
       : i \in {j \in 1..Len(source) : source[j].kind # "call"}}

\* The children of a node form one chain in the order of the source: each is
\* linked to the next, once, and to no other.
SiblingsAreChained ==
  LET children(p) == {e.dst : e \in {x \in Of("Contains") : x.src = p}}
      after(p, c) == {d \in children(p) : d > c}
  IN  /\ Of("Precedes") =
           UNION {{Edge(c, Min(after(p, c)), "Precedes") : c \in {x \in children(p) : after(p, x) # {}}}
                  : p \in NodeId}
      /\ \A e \in Of("Contains") \cup Of("Precedes") : edges[e] = 1

\* Call resolution is by bare name over the whole file: a call counts once on
\* the edge from what the name of the function around it stands for (the module
\* if there is none) to what its own name stands for, in whatever order
\* definitions and uses come, and not at all if the name is not defined here.
\* With one definition per name that is the edge from the function it is in.
CallsGoByName ==
  LET caller(i) == LET fns == Enclosing(i, "function")
                   IN  IF fns = {} THEN Root ELSE Meant(source[Max(fns)].name)
      calls     == {i \in 1..(next - 1) : source[i].kind = "call" /\ Meant(source[i].name) # 0}
      edge(i)   == Edge(caller(i), Meant(source[i].name), "Calls")
  IN  pass # "none" =>
        /\ {e \in Of("Calls") : e.src >= Root} = {edge(i) : i \in calls}
        /\ \A i \in calls : edges[edge(i)] = Cardinality({j \in calls : edge(j) = edge(i)})

\* The forest as it was before the call that is going on.
Before == IF pass = "none" THEN NodeId ELSE 1..(Root - 1)

A == INSTANCE Adapter WITH
       nodes <- [n \in Before |-> nodes[n].tree],
       edges <- {e \in BagToSet(edges) : e.src \in Before}

\* Ingesting a file adds one more tree to the forest and touches no other
\* (traits.rs).
ImplementsAdapter == A!Spec
=============================================================================
