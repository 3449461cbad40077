--------------------------- MODULE MCProviderGate ---------------------------
EXTENDS ProviderGateProps, TLC

\* Licensed calls are alike, and so are the clerks.
Symmetry == Permutations(Licensed) \union Permutations(Clerks)

=============================================================================
