------------------------------ MODULE MCOpLog ------------------------------
\* Instances of OpLog for TLC.
EXTENDS OpLog, TLC

\* Operations are told apart and nothing else; replicas are not symmetric,
\* their ids being ordered.
OperationSymmetry == Permutations(Operation)
=============================================================================
