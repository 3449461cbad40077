---------------------------- MODULE MCDecisions ----------------------------
EXTENDS DecisionsProps, TLC

\* All entities share a label, so that the candidates for a merge grow.
Labels == [e \in Entities |-> "a"]

Symmetry == Permutations(Analysts)

=============================================================================
