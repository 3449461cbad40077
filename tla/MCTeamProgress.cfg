CONSTANTS
    u0 = u0
    Users = {u0, u1}
    Admins = {u0}
    Owner = u0
    NoUser = NoUser
    Grantable = {"analyst"}
    Keys = {k1}
    NoKey = NoKey
    Workers = {w1}
    Sweepers = {s1}
    MaxPendingJobs = 1
    MaxExecutions = 2
    MaxJobs = 2
    MaxDeaths = 1
SPECIFICATION FairSpec
INVARIANT OneJobPerKey
PROPERTIES
    OnlyRetriesExceedQuota
    JobsMove
    DeletedIsPurged
\* A purged case is the end.
CHECK_DEADLOCK FALSE
