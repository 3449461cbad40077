---------------------------- MODULE MCCaseStore ----------------------------
EXTENDS CaseStoreProps, TLC

\* Processes are alike: for the run that checks no liveness.
Symmetry == Permutations(Procs)

=============================================================================
