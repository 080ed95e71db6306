--------------------------- MODULE MCTextAdapter ---------------------------
\* Instances of TextAdapter for TLC.
EXTENDS TextAdapter, TLC

\* Headings of three levels, one of them without a title, and one of the
\* deepest level; text with no hashes, with hashes and with too many of them.
Lines ==
  {[hashes |-> h, rest |-> "spaced"] : h \in {0, 1, 6, 7}} \cup
  {[hashes |-> 0, rest |-> "nothing"], [hashes |-> 3, rest |-> "nothing"],
   [hashes |-> 1, rest |-> "glued"]}

TreeSymmetry == Permutations(Tree)
=============================================================================
