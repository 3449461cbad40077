---------------------------- MODULE MCTeamJobs ----------------------------
EXTENDS TeamJobsProps, TLC

\* The users other than the owner are alike, and so are the workers.  Sound for
\* the runs that check no liveness.
Symmetry == Permutations(Users \ {Owner}) \union Permutations(Workers)

=============================================================================
