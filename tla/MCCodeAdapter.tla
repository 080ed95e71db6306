--------------------------- MODULE MCCodeAdapter ---------------------------
\* Instances of CodeAdapter for TLC.
EXTENDS CodeAdapter, TLC

Symmetry == Permutations(Name) \cup Permutations(Tree)
=============================================================================
