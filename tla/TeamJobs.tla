------------------------------ MODULE TeamJobs ------------------------------
(***************************************************************************)
(* The jobs of one case of the team service: requested, reviewed by        *)
(* somebody else, claimed by a worker under a lease, executed outside the  *)
(* database and published; cancelled, retried or cut off by a lease that   *)
(* runs out, by a change of roles or by the end of the case's retention.   *)
(*                                                                         *)
(* A database transaction on the case holds the case's advisory lock to    *)
(* its end (TeamStore.transaction), so it is one step.  What a worker or a *)
(* sweep remembers from one transaction to the next may be out of date.    *)
(* A refused call only writes an audit event and is not a step.            *)
(***************************************************************************)
EXTENDS Integers, FiniteSets, FiniteSetsExt

CONSTANTS Users,            \* authenticated subjects
          Admins,           \* admin_subjects
          Owner,            \* owner_sub, the administrator who made the case
          NoUser,
          Grantable,        \* the roles that are granted
          Keys, NoKey,      \* idempotency keys, and the absent one
          Workers, Sweepers,
          MaxPendingJobs,   \* max_pending_jobs
          MaxExecutions,    \* retry_job's limit (three in the code)
          MaxJobs,          \* bound: jobs ever requested
          MaxDeaths         \* bound: workers and sweeps killed

ASSUME TeamJobsAssumption ==
    /\ Admins \subseteq Users
    /\ Owner \in Admins
    /\ NoUser \notin Users
    /\ Grantable \subseteq {"viewer", "analyst", "reviewer", "owner"}
    /\ NoKey \notin Keys
    /\ MaxPendingJobs \in Nat \ {0}
    /\ MaxExecutions \in Nat \ {0}
    /\ MaxJobs \in Nat
    /\ MaxDeaths \in Nat

VARIABLES role,     \* team_members, with "none" for no row
          case,     \* the row of team_cases
          jobs,     \* the rows of team_jobs, in the order they were created
          worker,   \* the local state of each worker
          sweep,    \* where each retention_sweep is
          audit,    \* the latest event team_audit has for each job
          deaths    \* processes killed so far

vars == <<role, case, jobs, worker, sweep, audit, deaths>>

Jobs == 1..MaxJobs

RoleRank == [none |-> 0, viewer |-> 1, analyst |-> 2, reviewer |-> 3,
             owner |-> 4, admin |-> 5]

\* retention_until <= CURRENT_DATE, legal_hold, deleted_at and purged_at.
CaseRows == [expired: BOOLEAN, hold: BOOLEAN, deleted: BOOLEAN, purged: BOOLEAN]

Active == {"pending", "approved", "running"}
Statuses == Active \union
            {"none", "completed", "failed", "rejected", "cancelled"}

\* "none" is a row not inserted yet.  A lease token is the number of the claim
\* it was made for, and late says that lease_expires_at has passed.
JobRows == [status: Statuses, by: Users \union {NoUser},
            reviewer: Users \union {NoUser}, key: Keys \union {NoKey},
            attempts: Nat, lease: Nat, late: BOOLEAN, result: BOOLEAN]
NoJob == [status |-> "none", by |-> NoUser, reviewer |-> NoUser, key |-> NoKey,
          attempts |-> 0, lease |-> 0, late |-> FALSE, result |-> FALSE]

\* A worker between transactions: the candidates it has still to look at, or
\* the job row it claimed (by id and lease token).
WorkerStates == [pc: {"idle", "claiming", "claimed", "authorized", "fetched",
                      "failing"},
                 queue: SUBSET Jobs, job: Nat, lease: Nat]
IdleWorker == [pc |-> "idle", queue |-> {}, job |-> 0, lease |-> 0]

\* job.approved, job.started, job.execution-authorized and job.completed; the
\* other events are left out.
Events == {"none", "approved", "started", "executed", "completed"}

Init ==
    /\ role = [u \in Users |-> IF u = Owner THEN "owner" ELSE "none"]
    /\ case = [expired |-> FALSE, hold |-> FALSE, deleted |-> FALSE, purged |-> FALSE]
    /\ jobs = [j \in Jobs |-> NoJob]
    /\ worker = [w \in Workers |-> IdleWorker]
    /\ sweep = [s \in Sweepers |-> "idle"]
    /\ audit = [j \in Jobs |-> "none"]
    /\ deaths = 0

(***************************************************************************)
(* What a transaction checks.                                              *)
(***************************************************************************)
Has(u, minimum) ==
    /\ u \in Users
    /\ RoleRank[IF u \in Admins THEN "admin" ELSE role[u]] >= RoleRank[minimum]

\* _scope: the case exists and the caller has a role in it.
Scope(u, minimum) == ~case.deleted /\ Has(u, minimum)

Mutable == ~case.expired

Outstanding == {j \in Jobs : jobs[j].status \in Active}

Independent(job) == job.reviewer # NoUser /\ job.reviewer # job.by

\* _authorize_job
Authorized(job) ==
    /\ ~case.deleted
    /\ Independent(job)
    /\ Has(job.by, "analyst")
    /\ Has(job.reviewer, "reviewer")
    /\ Mutable

\* Variant: a lease is as good as any other.
Holds_AnyLease(w) ==
    LET job == jobs[worker[w].job]
    IN  job.status = "running" /\ ~job.late /\ Authorized(job)

\* _lease: the claim is current and still authorized.
Holds(w) ==
    LET job == jobs[worker[w].job]
    IN  /\ job.status = "running" /\ job.lease = worker[w].lease
        /\ ~job.late
        /\ Authorized(job)

Event(j, e) == audit' = [audit EXCEPT ![j] = e]

Released(job, status) ==
    [job EXCEPT !.status = status, !.lease = 0, !.late = FALSE]

(***************************************************************************)
(* The API.                                                                *)
(***************************************************************************)
\* A key already used by this user names the job it made then.
Known(u, key) ==
    key # NoKey /\ \E j \in Jobs : jobs[j].by = u /\ jobs[j].key = key

\* Variant: every request makes a job.
RequestJob_NoLookup(u, key) ==
    /\ Scope(u, "analyst") /\ Mutable
    /\ Cardinality(Outstanding) < MaxPendingJobs
    /\ \E j \in Jobs :
        /\ \A i \in Jobs : jobs[i].status = "none" <=> i >= j
        /\ jobs' = [jobs EXCEPT ![j] =
                      [NoJob EXCEPT !.status = "pending", !.by = u, !.key = key]]
    /\ UNCHANGED <<role, case, worker, sweep, audit, deaths>>

\* Variant: one job more than the quota.
RequestJob_OneMore(u, key) ==
    /\ Scope(u, "analyst") /\ Mutable
    /\ ~Known(u, key)
    /\ Cardinality(Outstanding) <= MaxPendingJobs
    /\ \E j \in Jobs :
        /\ \A i \in Jobs : jobs[i].status = "none" <=> i >= j
        /\ jobs' = [jobs EXCEPT ![j] =
                      [NoJob EXCEPT !.status = "pending", !.by = u, !.key = key]]
    /\ UNCHANGED <<role, case, worker, sweep, audit, deaths>>

RequestJob(u, key) ==
    /\ Scope(u, "analyst") /\ Mutable
    /\ ~Known(u, key)
    /\ Cardinality(Outstanding) < MaxPendingJobs
    /\ \E j \in Jobs :
        /\ \A i \in Jobs : jobs[i].status = "none" <=> i >= j
        /\ jobs' = [jobs EXCEPT ![j] =
                      [NoJob EXCEPT !.status = "pending", !.by = u, !.key = key]]
    /\ UNCHANGED <<role, case, worker, sweep, audit, deaths>>

\* The same request again: the job is returned and nothing changes.
RequestAgain(u, key) ==
    /\ Scope(u, "analyst") /\ Mutable
    /\ Known(u, key)
    /\ UNCHANGED vars

ReviewJob(u, j, approve) ==
    /\ Scope(u, "reviewer") /\ Mutable
    /\ jobs[j].status = "pending"
    /\ u # jobs[j].by
    /\ Has(jobs[j].by, "analyst")
    /\ jobs' = [jobs EXCEPT ![j].status = IF approve THEN "approved" ELSE "rejected",
                            ![j].reviewer = u]
    /\ IF approve THEN Event(j, "approved") ELSE UNCHANGED audit
    /\ UNCHANGED <<role, case, worker, sweep, deaths>>

CancelJob(u, j) ==
    /\ Scope(u, "analyst")
    /\ u # jobs[j].by => Has(u, "reviewer")
    /\ jobs[j].status \in Active
    /\ jobs' = [jobs EXCEPT ![j] = Released(@, "cancelled")]
    /\ UNCHANGED <<role, case, worker, sweep, audit, deaths>>

\* Variant: the retry goes straight back to the workers.
RetryJob_Approved(u, j) ==
    /\ Scope(u, "analyst") /\ Mutable
    /\ u = jobs[j].by
    /\ jobs[j].status = "failed" /\ jobs[j].attempts < MaxExecutions
    /\ jobs' = [jobs EXCEPT ![j] = Released(@, "approved")]
    /\ UNCHANGED <<role, case, worker, sweep, audit, deaths>>

RetryJob(u, j) ==
    /\ Scope(u, "analyst") /\ Mutable
    /\ u = jobs[j].by
    /\ jobs[j].status = "failed" /\ jobs[j].attempts < MaxExecutions
    /\ jobs' = [jobs EXCEPT ![j] = [Released(@, "pending") EXCEPT !.reviewer = NoUser]]
    /\ UNCHANGED <<role, case, worker, sweep, audit, deaths>>

Grant(u, subject, r) ==
    /\ Scope(u, "owner")
    /\ subject = Owner => r = "owner"
    /\ role' = [role EXCEPT ![subject] = r]
    /\ UNCHANGED <<case, jobs, worker, sweep, audit, deaths>>

Revoke(u, subject) ==
    /\ Scope(u, "owner")
    /\ subject # Owner
    /\ role' = [role EXCEPT ![subject] = "none"]
    /\ UNCHANGED <<case, jobs, worker, sweep, audit, deaths>>

SetHold(u, active) ==
    /\ Scope(u, "owner")
    /\ case.hold # active
    /\ case' = [case EXCEPT !.hold = active]
    /\ UNCHANGED <<role, jobs, worker, sweep, audit, deaths>>

\* A new date is always in the future.
SetRetention(u) ==
    /\ Scope(u, "owner")
    /\ ~case.hold
    /\ case' = [case EXCEPT !.expired = FALSE]
    /\ UNCHANGED <<role, jobs, worker, sweep, audit, deaths>>

(***************************************************************************)
(* Time.                                                                   *)
(***************************************************************************)
RetentionEnds ==
    /\ ~case.expired
    /\ case' = [case EXCEPT !.expired = TRUE]
    /\ UNCHANGED <<role, jobs, worker, sweep, audit, deaths>>

LeaseExpires(j) ==
    /\ jobs[j].status = "running" /\ ~jobs[j].late
    /\ jobs' = [jobs EXCEPT ![j].late = TRUE]
    /\ UNCHANGED <<role, case, worker, sweep, audit, deaths>>

(***************************************************************************)
(* A worker (run_one): claim_job reads the candidates and looks at each in *)
(* a transaction of its own until it has claimed one.                      *)
(***************************************************************************)
\* Variant: a worker looks at approved jobs only.
Candidates_Approved == {j \in Jobs : jobs[j].status = "approved"}

Candidates ==
    {j \in Jobs : \/ jobs[j].status = "approved"
                  \/ jobs[j].status = "running" /\ jobs[j].late}

ReadCandidates(w) ==
    /\ worker[w].pc = "idle"
    /\ Candidates # {}
    /\ worker' = [worker EXCEPT ![w].pc = "claiming", ![w].queue = Candidates]
    /\ UNCHANGED <<role, case, jobs, sweep, audit, deaths>>

First(w) == Min(worker[w].queue)

\* The next candidate, or idle when it was the last.
Pass(w) ==
    LET rest == worker[w].queue \ {First(w)}
    IN  worker' = [worker EXCEPT ![w] =
                     IF rest = {} THEN IdleWorker ELSE [@ EXCEPT !.queue = rest]]

PassOver(w) ==
    /\ worker[w].pc = "claiming"
    /\ First(w) \notin Candidates
    /\ Pass(w)
    /\ UNCHANGED <<role, case, jobs, sweep, audit, deaths>>

\* An expired lease, or an approval that is no longer valid, fails the job.
FailCandidate(w) ==
    LET job == jobs[First(w)]
    IN  /\ worker[w].pc = "claiming"
        /\ First(w) \in Candidates
        /\ job.status = "approved" => ~Authorized(job)
        /\ jobs' = [jobs EXCEPT ![First(w)] = Released(@, "failed")]
        /\ Pass(w)
        /\ UNCHANGED <<role, case, sweep, audit, deaths>>

Claim(w) ==
    LET j == First(w)
        token == jobs[j].attempts + 1
    IN  /\ worker[w].pc = "claiming"
        /\ jobs[j].status = "approved"
        /\ Authorized(jobs[j])
        /\ jobs' = [jobs EXCEPT ![j].status = "running", ![j].attempts = token,
                                ![j].lease = token]
        /\ worker' = [worker EXCEPT ![w] =
                        [pc |-> "claimed", queue |-> {}, job |-> j, lease |-> token]]
        /\ Event(j, "started")
        /\ UNCHANGED <<role, case, sweep, deaths>>

\* prepare_job asks again just before the provider's request is sent or the
\* source object is read.
Authorize(w) ==
    /\ worker[w].pc = "claimed"
    /\ IF Holds(w)
       THEN /\ worker' = [worker EXCEPT ![w].pc = "authorized"]
            /\ Event(worker[w].job, "executed")
       ELSE /\ worker' = [worker EXCEPT ![w].pc = "failing"]
            /\ UNCHANGED audit
    /\ UNCHANGED <<role, case, jobs, sweep, deaths>>

\* The adapter or the analyzer, outside any transaction: an answer, an error or
\* the 14-minute deadline.
Fetch(w) ==
    /\ worker[w].pc = "authorized"
    /\ \E pc \in {"fetched", "failing"} :
         worker' = [worker EXCEPT ![w].pc = pc]
    /\ UNCHANGED <<role, case, jobs, sweep, audit, deaths>>

\* Variant: the answer is published without a look at the job.
FinishJob_NoLease(w) ==
    /\ worker[w].pc = "fetched"
    /\ jobs' = [jobs EXCEPT ![worker[w].job] =
                  [Released(@, "completed") EXCEPT !.result = TRUE]]
    /\ worker' = [worker EXCEPT ![w] = IdleWorker]
    /\ Event(worker[w].job, "completed")
    /\ UNCHANGED <<role, case, sweep, deaths>>

\* finish_job stores the result and completes the job in one transaction, which
\* is rolled back when the lease is lost or the case's storage quota is reached.
\* The deadline's alarm may still ring between the commit and the return.
FinishJob(w) ==
    /\ worker[w].pc = "fetched"
    /\ \/ /\ Holds(w)
          /\ jobs' = [jobs EXCEPT ![worker[w].job] =
                         [Released(@, "completed") EXCEPT !.result = TRUE]]
          /\ Event(worker[w].job, "completed")
          /\ \/ worker' = [worker EXCEPT ![w] = IdleWorker]
             \/ worker' = [worker EXCEPT ![w].pc = "failing"]
       \/ /\ worker' = [worker EXCEPT ![w].pc = "failing"]
          /\ UNCHANGED <<jobs, audit>>
    /\ UNCHANGED <<role, case, sweep, deaths>>

\* fail_job touches the job only if the lease is still this worker's.
FailJob(w) ==
    LET j == worker[w].job
    IN  /\ worker[w].pc = "failing"
        /\ IF jobs[j].status = "running" /\ jobs[j].lease = worker[w].lease
           THEN jobs' = [jobs EXCEPT ![j] = Released(@, "failed")]
           ELSE UNCHANGED jobs
        /\ worker' = [worker EXCEPT ![w] = IdleWorker]
        /\ UNCHANGED <<role, case, sweep, audit, deaths>>

(***************************************************************************)
(* retention_sweep: the cases to delete are read first; each is then       *)
(* tombstoned and purged in two transactions.                              *)
(***************************************************************************)
Due == ~case.deleted /\ ~case.hold /\ case.expired

\* Variant: a case tombstoned by an interrupted sweep is not selected.
SweepSelect_DueOnly(s) ==
    /\ sweep[s] = "idle"
    /\ Due
    /\ sweep' = [sweep EXCEPT ![s] = "selected"]
    /\ UNCHANGED <<role, case, jobs, worker, audit, deaths>>

SweepSelect(s) ==
    /\ sweep[s] = "idle"
    /\ Due \/ (case.deleted /\ ~case.purged)
    /\ sweep' = [sweep EXCEPT ![s] = "selected"]
    /\ UNCHANGED <<role, case, jobs, worker, audit, deaths>>

\* The hold and the date are asked for again under the lock.
SweepSkip(s) ==
    /\ sweep[s] = "selected"
    /\ ~case.deleted /\ ~Due
    /\ sweep' = [sweep EXCEPT ![s] = "idle"]
    /\ UNCHANGED <<role, case, jobs, worker, audit, deaths>>

Tombstoned(job) ==
    [job EXCEPT !.key = NoKey, !.lease = 0, !.late = FALSE,
                !.status = IF @ \in Active THEN "cancelled" ELSE @]

\* Variants: the date read at the start decides; the jobs are left as they are.
SweepTombstone_Stale(s) ==
    /\ sweep[s] = "selected"
    /\ ~case.deleted
    /\ case' = [case EXCEPT !.deleted = TRUE]
    /\ role' = [u \in Users |-> "none"]
    /\ jobs' = [j \in Jobs |-> Tombstoned(jobs[j])]
    /\ sweep' = [sweep EXCEPT ![s] = "tombstoned"]
    /\ UNCHANGED <<worker, audit, deaths>>
SweepTombstone_KeepsJobs(s) ==
    /\ sweep[s] = "selected"
    /\ Due
    /\ case' = [case EXCEPT !.deleted = TRUE]
    /\ role' = [u \in Users |-> "none"]
    /\ sweep' = [sweep EXCEPT ![s] = "tombstoned"]
    /\ UNCHANGED <<jobs, worker, audit, deaths>>

SweepTombstone(s) ==
    /\ sweep[s] = "selected"
    /\ Due
    /\ case' = [case EXCEPT !.deleted = TRUE]
    /\ role' = [u \in Users |-> "none"]
    /\ jobs' = [j \in Jobs |-> Tombstoned(jobs[j])]
    /\ sweep' = [sweep EXCEPT ![s] = "tombstoned"]
    /\ UNCHANGED <<worker, audit, deaths>>

\* A case tombstoned by an interrupted sweep goes straight to the purge.
SweepResume(s) ==
    /\ sweep[s] = "selected"
    /\ case.deleted
    /\ sweep' = [sweep EXCEPT ![s] = "tombstoned"]
    /\ UNCHANGED <<role, case, jobs, worker, audit, deaths>>

SweepPurge(s) ==
    /\ sweep[s] = "tombstoned"
    /\ case' = [case EXCEPT !.purged = TRUE]
    /\ sweep' = [sweep EXCEPT ![s] = "idle"]
    /\ UNCHANGED <<role, jobs, worker, audit, deaths>>

(***************************************************************************)
(* A process is killed between two transactions.                           *)
(***************************************************************************)
WorkerDies(w) ==
    /\ deaths < MaxDeaths /\ worker[w].pc # "idle"
    /\ worker' = [worker EXCEPT ![w] = IdleWorker]
    /\ deaths' = deaths + 1
    /\ UNCHANGED <<role, case, jobs, sweep, audit>>

SweepDies(s) ==
    /\ deaths < MaxDeaths /\ sweep[s] # "idle"
    /\ sweep' = [sweep EXCEPT ![s] = "idle"]
    /\ deaths' = deaths + 1
    /\ UNCHANGED <<role, case, jobs, worker, audit>>

WorkerStep(w) ==
    \/ ReadCandidates(w) \/ PassOver(w) \/ FailCandidate(w) \/ Claim(w)
    \/ Authorize(w) \/ Fetch(w) \/ FinishJob(w) \/ FailJob(w)

SweepStep(s) ==
    \/ SweepSelect(s) \/ SweepSkip(s) \/ SweepTombstone(s)
    \/ SweepResume(s) \/ SweepPurge(s)

Call(u) ==
    \/ \E key \in Keys \union {NoKey} : RequestJob(u, key) \/ RequestAgain(u, key)
    \/ \E j \in Jobs :
          \/ CancelJob(u, j) \/ RetryJob(u, j)
          \/ \E approve \in BOOLEAN : ReviewJob(u, j, approve)
    \/ \E subject \in Users :
          Revoke(u, subject) \/ \E r \in Grantable : Grant(u, subject, r)
    \/ SetRetention(u)
    \/ \E active \in BOOLEAN : SetHold(u, active)

Next ==
    \/ \E u \in Users : Call(u)
    \/ RetentionEnds
    \/ \E j \in Jobs : LeaseExpires(j)
    \/ \E w \in Workers : WorkerStep(w) \/ WorkerDies(w)
    \/ \E s \in Sweepers : SweepStep(s) \/ SweepDies(s)

Spec == Init /\ [][Next]_vars

(***************************************************************************)
(* Fairness: a supervisor keeps the workers running, a timer runs the      *)
(* sweep, and a lease of fifteen minutes ends.  Nobody has to call the API.*)
(***************************************************************************)
FairSpec ==
    /\ Spec
    /\ \A w \in Workers : WF_vars(WorkerStep(w))
    /\ \A s \in Sweepers : WF_vars(SweepStep(s))
    /\ \A j \in Jobs : WF_vars(LeaseExpires(j))

=============================================================================
