--------------------------- MODULE TeamJobsProps ---------------------------
(***************************************************************************)
(* What is asked of the team's jobs.                                       *)
(***************************************************************************)
EXTENDS TeamJobs

\* Every row satisfies the constraints of team_schema.sql, and every worker
\* remembers a job that exists.
TypeOK ==
    /\ role \in [Users -> DOMAIN RoleRank]
    /\ case \in CaseRows
    /\ jobs \in [Jobs -> JobRows]
    /\ \A j \in Jobs : jobs[j].status \in Statuses
    /\ worker \in [Workers -> WorkerStates]
    /\ \A w \in Workers :
         worker[w].pc \notin {"idle", "claiming"} => worker[w].job \in Jobs
    /\ sweep \in [Sweepers -> {"idle", "selected", "tombstoned"}]
    /\ audit \in [Jobs -> Events]
    /\ deaths \in Nat

\* "There is no standing or self-approval" (docs/TEAM_SERVICE.md): each claim
\* of a job uses up an approval of its own, given by somebody else than the
\* requester, and leads to one execution at most; there are at most
\* MaxExecutions claims, whatever is retried, expires or dies in between.
EveryExecutionReviewed ==
    [][\A j \in Jobs :
          /\ jobs'[j].attempts # jobs[j].attempts =>
                /\ audit[j] = "approved" /\ Independent(jobs[j])
                /\ jobs'[j].attempts = jobs[j].attempts + 1
                /\ jobs'[j].attempts <= MaxExecutions
          /\ audit'[j] = "executed" /\ audit[j] # "executed" =>
                audit[j] = "started"]_vars

\* A job that is completed, rejected or cancelled stays so: an answer that
\* arrives after the cancellation, or a second one, changes nothing.
EndsAreFinal ==
    [][\A j \in Jobs :
          jobs[j].status \in {"completed", "rejected", "cancelled"} =>
              /\ jobs'[j].status = jobs[j].status
              /\ jobs'[j].result = jobs[j].result]_vars

\* "Expired leases fail closed and stale workers cannot publish", and "the worker
\* rechecks current roles, disclosure, scope and retention before execution and
\* before saving results" (docs/TEAM_SERVICE.md): a result comes from the worker
\* of the latest claim, and neither after the requester or the reviewer has lost
\* the role nor after the retention has ended.
StaleWorkersCannotPublish ==
    [][\A j \in Jobs :
          jobs'[j].result /\ ~jobs[j].result =>
              /\ \E w \in Workers :
                    /\ worker[w].pc = "fetched" /\ worker'[w].pc # "fetched"
                    /\ worker[w].job = j /\ worker[w].lease = jobs[j].attempts
              /\ ~case.deleted /\ ~case.expired
              /\ Has(jobs[j].by, "analyst")
              /\ Has(jobs[j].reviewer, "reviewer")]_vars

\* A client that repeats a request with its key never gets a second job.
OneJobPerKey ==
    \A i, j \in Jobs :
        jobs[i].key # NoKey /\ jobs[i].key = jobs[j].key /\ jobs[i].by = jobs[j].by
            => i = j

\* "Legal holds prevent deletion" though the sweep chose the case before the
\* hold was placed.
HeldCaseStays == [][case.hold /\ ~case.deleted => ~case'.deleted]_vars

\* A tombstoned case has nobody's role and no job that could still run.
DeletedCaseIsQuiet ==
    case.deleted => /\ Outstanding = {}
                    /\ \A u \in Users : role[u] = "none"

\* A job that is approved or running does not stay so for ever, even when its
\* worker is killed.
JobsMove ==
    \A j \in Jobs :
        jobs[j].status \in {"approved", "running"}
            ~> jobs[j].status \notin {"approved", "running"}

\* "An interrupted purge resumes next run": a deleted case is purged.
DeletedIsPurged == case.deleted ~> case.purged

\* "Defaults cap each case at 1,000 objects, 512 MiB and 100 outstanding jobs"
\* (docs/TEAM_SERVICE.md).  A failed job does not count against the quota and
\* retry_job does not ask for it: nothing but a retry takes a case beyond it.
OnlyRetriesExceedQuota ==
    [][LET before == Outstanding
           after == Outstanding'
       IN  after \ before # {} /\ Cardinality(after) > MaxPendingJobs =>
               \A j \in after \ before :
                   jobs[j].status = "failed" /\ jobs'[j].status = "pending"]_vars

=============================================================================
