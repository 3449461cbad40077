CONSTANTS
    analyst = analyst
    reviewer = reviewer
    viewer = viewer
    r0 = r0
    c1 = c1
    Requests = {r0, r1, r2}
    Cases = {c1, c2}
    Users = {analyst, reviewer, viewer}
    NoUser = NoUser
    RoleOf <- Role
    NoRequest = NoRequest
    MaxFaults = 1
SPECIFICATION MCSpec
INVARIANTS
    ChainVerifies
    ChangesAreAudited
    AnswersAreTrue
PROPERTY RequestsAreAnswered
\* All requests may be done.
CHECK_DEADLOCK FALSE
