----------------------------- MODULE MCReplicas ----------------------------
\* Instances of Replicas for TLC.
EXTENDS Replicas, TLC

\* Edge keys and embeddings are compared and nothing else.
DataSymmetry == Permutations(EdgeKey) \cup Permutations(Embedding)

\* The smallest weight of 3 bits, which has no negative, and a positive one.
MixedWeights == {-4, 2}
=============================================================================
