---------------------------- MODULE MCSnapshots ----------------------------
\* Instances of Snapshots for TLC.
EXTENDS Snapshots, TLC

\* Replica 2's wall clock runs ahead of everybody's restart.
SecondAhead == [r \in Replica |-> IF r = 2 THEN 5 ELSE 0]

LabelSymmetry == Permutations(Label)
=============================================================================
