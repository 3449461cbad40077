CONSTANTS
    u0 = u0
    Users = {u0, u1, u2}
    Admins = {u0}
    Owner = u0
    NoUser = NoUser
    Grantable = {"analyst", "reviewer"}
    Keys = {k1}
    NoKey = NoKey
    Workers = {w1, w2}
    Sweepers = {s1, s2}
    MaxPendingJobs = 1
    MaxExecutions = 2
    MaxJobs = 1
    MaxDeaths = 1
SPECIFICATION Spec
SYMMETRY Symmetry
INVARIANTS
    DeletedCaseIsQuiet
PROPERTIES
    EveryExecutionReviewed
    EndsAreFinal
    StaleWorkersCannotPublish
    HeldCaseStays
\* A purged case is the end.
CHECK_DEADLOCK FALSE
