CONSTANTS
    Calls = {c1, c2}
    Licensed = {c1, c2}
    Clerks = {k1}
    NoCall = NoCall
    MaxRuns = 1
    MaxApprovals = 2
    MaxFaults = 1
SPECIFICATION Spec
SYMMETRY Symmetry
INVARIANTS
    TypeOK
    RequestsAreCovered
    RequestsWithinCap
    OutcomesAreTrue
PROPERTIES
    RevokedIsFinal
    ClosedCaseIsQuiet
\* The calls may all have ended.
CHECK_DEADLOCK FALSE
