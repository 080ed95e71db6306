---------------------------- MODULE TextAdapter ----------------------------
(***************************************************************************)
(* The adapter for prose (crates/sle-adapters-text/src/lib.rs): ingest     *)
(* reads a document line by line and adds a Document, its Sections and its *)
(* Paragraphs to the forest, Contains edges after the nesting of headings  *)
(* and Precedes edges between neighbours.                                  *)
(*                                                                         *)
(* Abstracted: a line is what heading_level and trim make of it; a node's  *)
(* text is the numbers of the lines it is made from (none for a Document,  *)
(* whose text is the whole source).  The source is not chosen beforehand,  *)
(* but line by line as it is read.                                         *)
(***************************************************************************)
EXTENDS Naturals, FiniteSetsExt, SequencesExt

CONSTANTS
  Line,      \* the lines documents are made of, a subset of AnyLine
  Tree,      \* tree ids, which are file names
  MaxLines,  \* bound: lines of all documents
  MaxDocs    \* bound: documents ingested

\* A trimmed line: how many hashes it starts with and how it goes on.
AnyLine == [hashes : Nat, rest : {"nothing", "spaced", "glued"}]

ASSUME LineAssumption == Line \subseteq AnyLine

VARIABLES
  nodes,         \* the nodes added to the forest; the id of a node is its index
  edges,         \* the edges added to the forest, in this order
  stack,         \* the open headings; empty when no call is running
  last_sibling,  \* the last child linked to each node, 0 for none
  para_buf,      \* the lines of the paragraph being read
  source,        \* the lines read so far, of all documents
  begin          \* how many of them belong to earlier documents

vars == <<nodes, edges, stack, last_sibling, para_buf, source, begin>>

NodeId == 1..Len(nodes)
Payload == [tree : Tree, kind : {"Document", "Section", "Paragraph"}, text : Seq(Nat)]
EdgeKey == [src : NodeId, dst : NodeId, kind : {"Contains", "Precedes"}]

TypeOK ==
  /\ nodes \in Seq(Payload)
  /\ edges \in Seq(EdgeKey)
  /\ stack \in Seq([level : Nat, node : NodeId])
  /\ last_sibling \in [NodeId -> NodeId \cup {0}]
  /\ para_buf \in Seq(1..Len(source))
  /\ source \in Seq(Line)
  /\ begin \in 0..Len(source)

Init ==
  /\ nodes = <<>> /\ edges = <<>> /\ stack = <<>>
  /\ last_sibling = <<>> /\ para_buf = <<>>
  /\ source = <<>> /\ begin = 0

-----------------------------------------------------------------------------
\* What a line is.  Seven hashes are no heading, nor are hashes with something
\* other than a space behind them.
IsHeading(line) == line.hashes \in 1..6 /\ line.rest # "glued"
IsBlank(line) == line.hashes = 0 /\ line.rest = "nothing"

\* A forest under construction: the nodes and edges in it, and last_sibling.
Building == [nodes |-> nodes, edges |-> edges, last_sibling |-> last_sibling]

Built(b) == nodes' = b.nodes /\ edges' = b.edges /\ last_sibling' = b.last_sibling

\* Forest::add_node; the id of the new node is the length of b.nodes then.
AddNode(b, tree, kind, text) ==
  [b EXCEPT !.nodes = Append(@, [tree |-> tree, kind |-> kind, text |-> text]),
            !.last_sibling = Append(@, 0)]

Edge(src, dst, kind) == [src |-> src, dst |-> dst, kind |-> kind]

\* (Faulty variant.)  The child is not remembered if there was one before.
LinkFirstSibling(b, parent, node) ==
  LET prev == b.last_sibling[parent]
  IN  [b EXCEPT !.edges = @ \o <<Edge(parent, node, "Contains")>>
                            \o (IF prev = 0 THEN <<>> ELSE <<Edge(prev, node, "Precedes")>>),
                !.last_sibling[parent] = IF prev = 0 THEN node ELSE prev]

\* (Faulty variant.)  The wrong kind of edge between the siblings.
LinkSameKind(b, parent, node) ==
  LET prev == b.last_sibling[parent]
  IN  [b EXCEPT !.edges = @ \o <<Edge(parent, node, "Contains")>>
                            \o (IF prev = 0 THEN <<>> ELSE <<Edge(prev, node, "Contains")>>),
                !.last_sibling[parent] = node]

\* link_sibling.
LinkSibling(b, parent, node) ==
  LET prev == b.last_sibling[parent]
  IN  [b EXCEPT !.edges = @ \o <<Edge(parent, node, "Contains")>>
                            \o (IF prev = 0 THEN <<>> ELSE <<Edge(prev, node, "Precedes")>>),
                !.last_sibling[parent] = node]

\* (Faulty variant.)  The edge goes to the id the next node will get.
AddChildNextId(b, parent, kind, text) ==
  LET added == AddNode(b, b.nodes[parent].tree, kind, text)
  IN  LinkSibling(added, parent, Len(added.nodes) + 1)

\* A node with what ties it to its parent and its previous sibling.
AddChild(b, parent, kind, text) ==
  LET added == AddNode(b, b.nodes[parent].tree, kind, text)
  IN  LinkSibling(added, parent, Len(added.nodes))

\* flush_paragraph, up to clearing the buffer.
FlushParagraph(b) ==
  IF para_buf = <<>> THEN b ELSE AddChild(b, Last(stack).node, "Paragraph", para_buf)

\* (Faulty variant.)  A heading of the same level stays open.
PopDeeper(level) == SubSeq(stack, 1, Max({n \in 1..Len(stack) : stack[n].level <= level}))

\* Headings of this level and deeper ones are closed, from the innermost on.
Pop(level) == SubSeq(stack, 1, Max({n \in 1..Len(stack) : stack[n].level < level}))

-----------------------------------------------------------------------------
Reading == stack # <<>>

\* ingest up to the loop.
Ingest(tree) ==
  /\ ~ Reading
  /\ Cardinality({n \in NodeId : nodes[n].kind = "Document"}) < MaxDocs
  /\ LET b == AddNode([Building EXCEPT !.last_sibling = [n \in NodeId |-> 0]],
                      tree, "Document", <<>>)
     IN  Built(b) /\ stack' = <<[level |-> 0, node |-> Len(b.nodes)]>>
  /\ para_buf' = <<>>
  /\ begin' = Len(source)
  /\ UNCHANGED source

Read(line) ==
  /\ Reading /\ Len(source) < MaxLines
  /\ source' = Append(source, line)
  /\ UNCHANGED begin

\* (Faulty variant.)  The paragraph goes on behind the heading.
ReadHeadingUnflushed(line) ==
  /\ Read(line) /\ IsHeading(line)
  /\ LET open == Pop(line.hashes)
         b == AddChild(Building, Last(open).node, "Section", <<Len(source')>>)
     IN  Built(b) /\ stack' = Append(open, [level |-> line.hashes, node |-> Len(b.nodes)])
  /\ UNCHANGED para_buf

ReadHeading(line) ==
  /\ Read(line) /\ IsHeading(line)
  /\ LET open == Pop(line.hashes)
         b == AddChild(FlushParagraph(Building), Last(open).node, "Section", <<Len(source')>>)
     IN  Built(b) /\ stack' = Append(open, [level |-> line.hashes, node |-> Len(b.nodes)])
  /\ para_buf' = <<>>

ReadBlank(line) ==
  /\ Read(line) /\ IsBlank(line)
  /\ Built(FlushParagraph(Building))
  /\ para_buf' = <<>>
  /\ UNCHANGED stack

ReadText(line) ==
  /\ Read(line) /\ ~ IsHeading(line) /\ ~ IsBlank(line)
  /\ para_buf' = Append(para_buf, Len(source'))
  /\ UNCHANGED <<nodes, edges, stack, last_sibling>>

\* (Faulty variant.)  The source ends in the middle of a paragraph.
ReturnUnflushed ==
  /\ Reading
  /\ para_buf' = <<>>
  /\ stack' = <<>>
  /\ UNCHANGED <<nodes, edges, last_sibling, source, begin>>

\* The end of the source: the last paragraph is flushed and the call returns.
Return ==
  /\ Reading
  /\ Built(FlushParagraph(Building))
  /\ para_buf' = <<>>
  /\ stack' = <<>>
  /\ UNCHANGED <<source, begin>>

Next ==
  \/ \E tree \in Tree : Ingest(tree)
  \/ \E line \in Line : ReadHeading(line) \/ ReadBlank(line) \/ ReadText(line)
  \/ Return

Spec == Init /\ [][Next]_vars

-----------------------------------------------------------------------------
Of(kind) == {e \in Range(edges) : e.kind = kind}

Roots == {n \in NodeId : nodes[n].kind = "Document"}

\* The nodes of the latest document.
Current == {n \in NodeId : \A r \in Roots : r <= n}

\* The stack is a path from the root of the document that is being read down
\* to the innermost open section, and the levels on it increase: popping for a
\* heading stops at the root, at the latest ("root always present"), and
\* nothing is hung under a section that another heading has closed.
StackIsPath ==
  Reading =>
    /\ stack[1] = [level |-> 0, node |-> Max(Roots)]
    /\ \A i \in 1..(Len(stack) - 1) :
         /\ stack[i].level < stack[i + 1].level
         /\ Edge(stack[i].node, stack[i + 1].node, "Contains") \in Range(edges)

\* The line in front of which a node of the current document begins.
FirstLine(n) == nodes[n].text[1]
HeadingAt(i) == i \in (begin + 1)..Len(source) /\ IsHeading(source[i])

\* The outline a reader would draw: a paragraph belongs to the last heading
\* before it, a heading to the last one before it that has fewer hashes, and
\* without such a heading to the document.
Governs(h, n) ==
  /\ HeadingAt(h) /\ h < FirstLine(n)
  /\ nodes[n].kind = "Section" => source[h].hashes < source[FirstLine(n)].hashes

FollowsOutline ==
  \A e \in {x \in Of("Contains") : x.dst \in Current} :
    LET headings == {h \in 1..Len(source) : Governs(h, e.dst)}
    IN  IF headings = {} THEN e.src = Max(Roots)
        ELSE nodes[e.src].kind = "Section" /\ nodes[e.src].text = <<Max(headings)>>

\* The children of a node form one chain in reading order: an edge Precedes
\* links each to the next one, and there are no others; no edge is added a
\* second time, which would add to its weight.
SiblingsAreChained ==
  LET children(p) == {e.dst : e \in {x \in Of("Contains") : x.src = p}}
      next(p, c)  == {d \in children(p) : d > c}
  IN  /\ Of("Precedes") =
           UNION {{Edge(c, Min(next(p, c)), "Precedes") : c \in {x \in children(p) : next(p, x) # {}}}
                  : p \in NodeId}
      /\ IsInjective(edges)

\* Nothing is lost, doubled or mixed up: the nodes in the order of their ids
\* and the paragraph being read hold exactly the lines that are not blank, in
\* order.
EveryLineKept ==
  LET kept == FlattenSeq([n \in NodeId |-> nodes[n].text]) \o para_buf
  IN  /\ Range(kept) = {i \in 1..Len(source) : ~ IsBlank(source[i])}
      /\ \A i \in 2..Len(kept) : kept[i - 1] < kept[i]

\* A paragraph is a block of lines with nothing in between: neither a heading
\* nor a blank line is inside it, and a block is not cut in two.
ParagraphsAreBlocks ==
  \A n \in {x \in NodeId : nodes[x].kind = "Paragraph"} :
    LET text == nodes[n].text
    IN  /\ \A i \in 2..Len(text) : text[i] = text[i - 1] + 1
        /\ \A i \in 1..Len(text) : ~ IsHeading(source[text[i]]) /\ ~ IsBlank(source[text[i]])
        /\ \A m \in NodeId : nodes[m].kind = "Paragraph" /\ FirstLine(m) = text[Len(text)] + 1
             => \E d \in Roots : n < d /\ d < m

\* The forest as it was before the call that is going on.
Before == IF Reading THEN 1..(Max(Roots) - 1) ELSE NodeId

A == INSTANCE Adapter WITH
       nodes <- [n \in Before |-> nodes[n].tree],
       edges <- {e \in Range(edges) : e.src \in Before}

\* Ingesting a document, or the same one again, adds one more tree to the
\* forest, in which each node but the root has exactly one parent made before
\* it, and touches no other tree (traits.rs).
ImplementsAdapter == A!Spec
=============================================================================
