---------------------------- MODULE TeamJobsProofs ----------------------------
(***************************************************************************)
(* Theorems about the team's jobs, for any number of users, workers,       *)
(* sweeps, jobs, keys and deaths.  Everything that happens to the row of a *)
(* job is one of eight moves; the properties are read off them.            *)
(***************************************************************************)
EXTENDS TeamJobsProps, SetLemmas

\* A worker that is claiming has candidates left.
QueueInv ==
    \A w \in Workers : worker[w].pc = "claiming" => worker[w].queue # {}

\* Each approval lets a job be claimed once, and a running job carries the
\* token of its latest claim.
RowInv ==
    \A j \in Jobs :
        /\ jobs[j].status = "none" => jobs[j].attempts = 0
        /\ jobs[j].status \in {"none", "pending", "approved"} =>
              jobs[j].attempts < MaxExecutions
        /\ jobs[j].status = "approved" => audit[j] = "approved"
        /\ jobs[j].status = "running" =>
              jobs[j].lease = jobs[j].attempts /\ audit[j] \in {"started", "executed"}

IInv == TypeOK /\ QueueInv /\ RowInv /\ OneJobPerKey /\ DeletedCaseIsQuiet

(***************************************************************************)
(* The moves.                                                              *)
(***************************************************************************)
Kept(j) == jobs'[j] = jobs[j] /\ audit'[j] = audit[j]

Requested(j) ==
    /\ ~case.deleted /\ jobs[j].status = "none"
    /\ jobs'[j].status = "pending" /\ jobs'[j].attempts = 0 /\ ~jobs'[j].result
    /\ audit'[j] = audit[j]
    /\ Cardinality(Outstanding) < MaxPendingJobs
    /\ \A i \in Jobs \ {j} : jobs'[i] = jobs[i]

Reviewed(j) ==
    /\ ~case.deleted /\ jobs[j].status = "pending"
    /\ \/ jobs'[j].status = "approved" /\ audit'[j] = "approved"
       \/ jobs'[j].status = "rejected" /\ audit'[j] = audit[j]
    /\ jobs'[j].attempts = jobs[j].attempts
    /\ jobs'[j].result = jobs[j].result

\* Cancelled, failed, tombstoned, or late.
Stopped(j) ==
    /\ \/ jobs'[j].status = jobs[j].status
       \/ jobs[j].status \in Active /\ jobs'[j].status \in {"cancelled", "failed"}
    /\ jobs[j].status = "running" /\ jobs'[j].status = "running" =>
          jobs'[j].lease = jobs[j].lease
    /\ jobs'[j].attempts = jobs[j].attempts
    /\ jobs'[j].result = jobs[j].result
    /\ audit'[j] = audit[j]

Retried(j) ==
    /\ ~case.deleted /\ jobs[j].status = "failed" /\ jobs[j].attempts < MaxExecutions
    /\ jobs'[j].status = "pending"
    /\ jobs'[j].attempts = jobs[j].attempts
    /\ jobs'[j].result = jobs[j].result
    /\ audit'[j] = audit[j]

Claimed(j) ==
    /\ jobs[j].status = "approved" /\ Authorized(jobs[j])
    /\ jobs'[j].status = "running"
    /\ jobs'[j].attempts = jobs[j].attempts + 1
    /\ jobs'[j].lease = jobs'[j].attempts
    /\ jobs'[j].result = jobs[j].result
    /\ audit'[j] = "started"

Executed(j) ==
    /\ jobs[j].status = "running" /\ jobs'[j] = jobs[j]
    /\ audit'[j] = "executed"

Published(j) ==
    /\ jobs'[j].status = "completed" /\ jobs'[j].result
    /\ jobs'[j].attempts = jobs[j].attempts
    /\ audit'[j] = "completed"
    /\ \E w \in Workers :
          /\ worker[w].pc = "fetched" /\ worker'[w].pc # "fetched"
          /\ worker[w].job = j /\ Holds(w)

Move(j) ==
    \/ Kept(j) \/ Requested(j) \/ Reviewed(j) \/ Stopped(j)
    \/ Retried(j) \/ Claimed(j) \/ Executed(j) \/ Published(j)

\* The rows keep whose job it is and its key, unless they are cleared.
Named(j) == jobs'[j].by = jobs[j].by /\ jobs'[j].key \in {jobs[j].key, NoKey}

(***************************************************************************)
(* What is typed, and what moves.                                          *)
(***************************************************************************)
LEMMA FirstIsQueued ==
    ASSUME TypeOK, QueueInv, NEW w \in Workers, worker[w].pc = "claiming"
    PROVE  First(w) \in Jobs /\ First(w) \in worker[w].queue
<1> DEFINE Q == worker[w].queue
<1>1. Q \in SUBSET (1..MaxJobs) /\ Q # {} /\ MaxJobs \in Nat
  BY TeamJobsAssumption DEF TypeOK, QueueInv, WorkerStates, Jobs
<1> HIDE DEF Q
<1>2. Min(Q) \in Q
  BY <1>1, MinOfInterval
<1> QED
  BY <1>1, <1>2 DEF Q, First, Jobs

\* A row whose status changes and whose lease is released has its type.
LEMMA RowsTyped ==
    ASSUME NEW job \in JobRows, NEW status \in Statuses
    PROVE  /\ Released(job, status) \in JobRows
           /\ Released(job, status).status = status
           /\ Released(job, status).by = job.by
           /\ Released(job, status).key = job.key
           /\ Released(job, status).attempts = job.attempts
           /\ Released(job, status).result = job.result
BY DEF Released, JobRows

LEMMA TombstonedTyped ==
    ASSUME NEW job \in JobRows
    PROVE  /\ Tombstoned(job) \in JobRows
           /\ Tombstoned(job).status = IF job.status \in Active THEN "cancelled" ELSE job.status
           /\ Tombstoned(job).by = job.by
           /\ Tombstoned(job).key = NoKey
           /\ Tombstoned(job).attempts = job.attempts
           /\ Tombstoned(job).result = job.result
BY DEF Tombstoned, JobRows, Statuses

\* A step that leaves the jobs alone.
Aside ==
    \/ \E u \in Users :
          \/ \E key \in Keys \union {NoKey} : RequestAgain(u, key)
          \/ \E subject \in Users :
                Revoke(u, subject) \/ \E r \in Grantable : Grant(u, subject, r)
          \/ SetRetention(u)
          \/ \E active \in BOOLEAN : SetHold(u, active)
    \/ RetentionEnds
    \/ \E w \in Workers : ReadCandidates(w) \/ PassOver(w) \/ Fetch(w) \/ WorkerDies(w)
    \/ \E s \in Sweepers :
          SweepSelect(s) \/ SweepSkip(s) \/ SweepResume(s) \/ SweepPurge(s) \/ SweepDies(s)
    \/ UNCHANGED vars

LEMMA AsideMoves ==
    ASSUME Aside
    PROVE  UNCHANGED <<jobs, audit>>
BY DEF Aside, RequestAgain, Revoke, Grant, SetRetention, SetHold, RetentionEnds, ReadCandidates,
       PassOver, Fetch, WorkerDies, SweepSelect, SweepSkip, SweepResume, SweepPurge, SweepDies, vars

\* What a worker is left with when it has looked at a candidate.
LEMMA PassTyped ==
    ASSUME TypeOK, QueueInv, NEW w \in Workers, worker[w].pc = "claiming", Pass(w)
    PROVE  /\ worker' \in [Workers -> WorkerStates]
           /\ \A v \in Workers : worker'[v].pc \notin {"idle", "claiming"} => worker'[v].job \in Jobs
           /\ QueueInv'
<1> DEFINE rest == worker[w].queue \ {First(w)}
<1>1. CASE rest = {}
  <2>1. worker' = [worker EXCEPT ![w] = IdleWorker]
    BY <1>1 DEF Pass
  <2>2. IdleWorker \in WorkerStates
    BY DEF IdleWorker, WorkerStates
  <2> QED
    BY <2>1, <2>2 DEF TypeOK, QueueInv, IdleWorker
<1>2. CASE rest # {}
  <2>1. worker' = [worker EXCEPT ![w] = [worker[w] EXCEPT !.queue = rest]]
    BY <1>2 DEF Pass
  <2>2. rest \in SUBSET Jobs
    BY DEF TypeOK, WorkerStates
  <2> HIDE DEF rest
  <2>3. [worker[w] EXCEPT !.queue = rest] \in WorkerStates
    BY <2>2 DEF TypeOK, WorkerStates
  <2>4. /\ [worker[w] EXCEPT !.queue = rest].pc = "claiming"
        /\ [worker[w] EXCEPT !.queue = rest].queue = rest
    BY DEF TypeOK, WorkerStates
  <2> QED
    BY <1>2, <2>1, <2>3, <2>4 DEF TypeOK, QueueInv
<1> QED
  BY <1>1, <1>2

LEMMA AsideTyped ==
    ASSUME TypeOK, QueueInv, Aside
    PROVE  TypeOK' /\ QueueInv'
<1> USE TeamJobsAssumption
<1>1. ASSUME NEW u \in Users, NEW subject \in Users,
             Revoke(u, subject) \/ \E r \in Grantable : Grant(u, subject, r)
      PROVE  TypeOK' /\ QueueInv'
  <2>1. role' \in [Users -> DOMAIN RoleRank]
    <3>1. {"none", "viewer", "analyst", "reviewer", "owner"} \subseteq DOMAIN RoleRank
      BY DEF RoleRank
    <3>2. PICK r \in Grantable \union {"none"} : role' = [role EXCEPT ![subject] = r]
      BY <1>1 DEF Revoke, Grant
    <3> QED
      BY <3>1, <3>2 DEF TypeOK
  <2> QED
    BY <1>1, <2>1 DEF TypeOK, QueueInv, Revoke, Grant
<1>2. ASSUME NEW u \in Users, SetRetention(u) \/ \E active \in BOOLEAN : SetHold(u, active)
      PROVE  TypeOK' /\ QueueInv'
  <2>1. ASSUME NEW active \in BOOLEAN, case' = [case EXCEPT !.hold = active]
        PROVE  case' \in CaseRows
    BY <2>1 DEF TypeOK, CaseRows
  <2>2. SetRetention(u) => case' \in CaseRows
    BY DEF TypeOK, CaseRows, SetRetention
  <2>3. case' \in CaseRows
    BY <1>2, <2>1, <2>2 DEF SetHold
  <2>4. UNCHANGED <<role, jobs, worker, sweep, audit, deaths>>
    BY <1>2 DEF SetRetention, SetHold
  <2> QED
    BY <2>3, <2>4 DEF TypeOK, QueueInv
<1>3. CASE RetentionEnds
  BY <1>3 DEF TypeOK, QueueInv, CaseRows, RetentionEnds
<1>4. ASSUME NEW w \in Workers, ReadCandidates(w)
      PROVE  TypeOK' /\ QueueInv'
  <2>1. Candidates \in SUBSET Jobs /\ Candidates # {}
    BY <1>4 DEF ReadCandidates, Candidates
  <2>2. worker' = [worker EXCEPT ![w].pc = "claiming", ![w].queue = Candidates]
    BY <1>4 DEF ReadCandidates
  <2>3. worker' \in [Workers -> WorkerStates]
    <3> DEFINE state == [worker[w] EXCEPT !.pc = "claiming", !.queue = Candidates]
    <3>1. worker[w] \in WorkerStates /\ worker \in [Workers -> WorkerStates]
      BY DEF TypeOK
    <3>2. state \in WorkerStates
      BY <2>1, <3>1 DEF WorkerStates
    <3>3. worker' = [worker EXCEPT ![w] = state]
      BY <2>2
    <3> HIDE DEF state
    <3> QED
      BY <3>1, <3>2, <3>3
  <2>4. /\ worker'[w].pc = "claiming" /\ worker'[w].queue = Candidates
        /\ \A v \in Workers \ {w} : worker'[v] = worker[v]
    BY <2>2 DEF TypeOK, WorkerStates
  <2> QED
    BY <1>4, <2>1, <2>3, <2>4 DEF ReadCandidates, TypeOK, QueueInv
<1>5. ASSUME NEW w \in Workers, PassOver(w)
      PROVE  TypeOK' /\ QueueInv'
  BY <1>5, PassTyped DEF PassOver, TypeOK
<1>6. ASSUME NEW w \in Workers, Fetch(w)
      PROVE  TypeOK' /\ QueueInv'
  BY <1>6 DEF TypeOK, QueueInv, WorkerStates, Fetch
<1>7. ASSUME NEW w \in Workers, WorkerDies(w)
      PROVE  TypeOK' /\ QueueInv'
  BY <1>7 DEF TypeOK, QueueInv, WorkerStates, IdleWorker, WorkerDies
<1>8. ASSUME NEW s \in Sweepers, SweepSelect(s) \/ SweepSkip(s) \/ SweepResume(s) \/ SweepDies(s)
      PROVE  TypeOK' /\ QueueInv'
  BY <1>8 DEF TypeOK, QueueInv, SweepSelect, SweepSkip, SweepResume, SweepDies
<1>9. ASSUME NEW s \in Sweepers, SweepPurge(s)
      PROVE  TypeOK' /\ QueueInv'
  BY <1>9 DEF TypeOK, QueueInv, CaseRows, SweepPurge
<1>10. CASE UNCHANGED vars
  BY <1>10 DEF TypeOK, QueueInv, vars
<1>11. ASSUME NEW u \in Users, NEW key \in Keys \union {NoKey}, RequestAgain(u, key)
       PROVE  TypeOK' /\ QueueInv'
  BY <1>11, <1>10 DEF RequestAgain
<1> QED
  BY <1>1, <1>2, <1>3, <1>4, <1>5, <1>6, <1>7, <1>8, <1>9, <1>10, <1>11 DEF Aside

(***************************************************************************)
(* The steps that change a row.                                            *)
(***************************************************************************)
\* What such a step leaves to show.
Typed ==
    /\ jobs' \in [Jobs -> JobRows] /\ audit' \in [Jobs -> Events]
    /\ \A j \in Jobs : Move(j)

LEMMA RequestMoves ==
    ASSUME TypeOK, NEW u \in Users, NEW key \in Keys \union {NoKey}, RequestJob(u, key)
    PROVE  /\ Typed /\ UNCHANGED <<role, case, worker, sweep, deaths>>
           /\ OneJobPerKey => OneJobPerKey'
<1>1. PICK j \in Jobs :
        /\ \A i \in Jobs : jobs[i].status = "none" <=> i >= j
        /\ jobs' = [jobs EXCEPT ![j] =
                      [NoJob EXCEPT !.status = "pending", !.by = u, !.key = key]]
  BY DEF RequestJob
<1> DEFINE row == [NoJob EXCEPT !.status = "pending", !.by = u, !.key = key]
<1>2. /\ row \in JobRows /\ row.status = "pending" /\ row.attempts = 0 /\ ~row.result
      /\ row.by = u /\ row.key = key
  BY DEF NoJob, JobRows, Statuses, Active
<1> HIDE DEF row
<1>3. jobs' = [jobs EXCEPT ![j] = row]
  BY <1>1 DEF row
<1>4. jobs' \in [Jobs -> JobRows] /\ jobs'[j] = row /\ \A i \in Jobs \ {j} : jobs'[i] = jobs[i]
  BY <1>2, <1>3 DEF TypeOK
<1>5. jobs[j].status = "none"
  BY <1>1, TeamJobsAssumption DEF Jobs
<1>6. Requested(j)
  BY <1>2, <1>4, <1>5 DEF Requested, RequestJob, Scope
<1>7. \A i \in Jobs \ {j} : Kept(i)
  BY <1>4 DEF Kept, RequestJob
<1>8. OneJobPerKey => OneJobPerKey'
  <2>1. \A i \in Jobs : key # NoKey => ~(jobs[i].by = u /\ jobs[i].key = key)
    BY DEF RequestJob, Known
  <2> QED
    BY <1>2, <1>4, <2>1 DEF OneJobPerKey
<1> QED
  BY <1>4, <1>6, <1>7, <1>8 DEF Typed, Move, TypeOK, RequestJob

\* One row changes, and keeps its owner and its key.
LEMMA OneRow ==
    ASSUME TypeOK, NEW j \in Jobs, NEW row \in JobRows,
           jobs' = [jobs EXCEPT ![j] = row],
           row.by = jobs[j].by, row.key = jobs[j].key
    PROVE  /\ jobs' \in [Jobs -> JobRows] /\ jobs'[j] = row
           /\ \A i \in Jobs \ {j} : jobs'[i] = jobs[i]
           /\ OneJobPerKey => OneJobPerKey'
BY DEF TypeOK, OneJobPerKey

LEMMA ReviewMoves ==
    ASSUME TypeOK, NEW u \in Users, NEW j \in Jobs, NEW approve \in BOOLEAN, ReviewJob(u, j, approve)
    PROVE  /\ Typed /\ UNCHANGED <<role, case, worker, sweep, deaths>>
           /\ OneJobPerKey => OneJobPerKey'
<1> DEFINE status == IF approve THEN "approved" ELSE "rejected"
           row == [jobs[j] EXCEPT !.status = status, !.reviewer = u]
<1>1. jobs' = [jobs EXCEPT ![j] = row]
  BY DEF ReviewJob
<1>2. status \in Statuses /\ jobs[j] \in JobRows
  BY DEF TypeOK, Statuses, Active
<1>3. /\ row \in JobRows /\ row.by = jobs[j].by /\ row.key = jobs[j].key
      /\ row.status = status
      /\ row.attempts = jobs[j].attempts /\ row.result = jobs[j].result
  <2> HIDE DEF status
  <2> QED
    BY <1>2 DEF JobRows
<1> HIDE DEF row
<1>4. /\ jobs' \in [Jobs -> JobRows] /\ jobs'[j] = row
      /\ \A i \in Jobs \ {j} : jobs'[i] = jobs[i]
      /\ OneJobPerKey => OneJobPerKey'
  BY <1>1, <1>3, OneRow
<1>5. /\ audit' \in [Jobs -> Events]
      /\ audit'[j] = IF approve THEN "approved" ELSE audit[j]
      /\ \A i \in Jobs \ {j} : audit'[i] = audit[i]
  BY DEF ReviewJob, Event, TypeOK, Events
<1>6. Reviewed(j)
  BY <1>3, <1>4, <1>5 DEF Reviewed, ReviewJob, Scope
<1>7. \A i \in Jobs \ {j} : Kept(i)
  BY <1>4, <1>5 DEF Kept
<1> QED
  BY <1>4, <1>5, <1>6, <1>7 DEF Typed, Move, ReviewJob

\* A row that is stopped: cancelled by somebody, failed by a worker, late.
LEMMA StopMoves ==
    ASSUME TypeOK, NEW j \in Jobs, NEW row \in JobRows,
           jobs' = [jobs EXCEPT ![j] = row], audit' = audit,
           row.by = jobs[j].by, row.key = jobs[j].key,
           row.attempts = jobs[j].attempts, row.result = jobs[j].result,
           \/ row.status = jobs[j].status /\ row.lease = jobs[j].lease
           \/ jobs[j].status \in Active /\ row.status \in {"cancelled", "failed"}
    PROVE  Typed /\ (OneJobPerKey => OneJobPerKey')
<1>1. /\ jobs' \in [Jobs -> JobRows] /\ jobs'[j] = row
      /\ \A i \in Jobs \ {j} : jobs'[i] = jobs[i]
      /\ OneJobPerKey => OneJobPerKey'
  BY OneRow
<1>2. Stopped(j)
  BY <1>1 DEF Stopped, Active
<1>3. \A i \in Jobs \ {j} : Kept(i)
  BY <1>1 DEF Kept
<1> QED
  BY <1>1, <1>2, <1>3 DEF Typed, Move, TypeOK

LEMMA CancelMoves ==
    ASSUME TypeOK, NEW u \in Users, NEW j \in Jobs, CancelJob(u, j)
    PROVE  /\ Typed /\ UNCHANGED <<role, case, worker, sweep, deaths>>
           /\ OneJobPerKey => OneJobPerKey'
<1>1. jobs[j] \in JobRows /\ "cancelled" \in Statuses
  BY DEF TypeOK, Statuses
<1>2. jobs' = [jobs EXCEPT ![j] = Released(jobs[j], "cancelled")]
  BY DEF CancelJob
<1> QED
  BY <1>1, <1>2, RowsTyped, StopMoves DEF CancelJob

LEMMA LateMoves ==
    ASSUME TypeOK, NEW j \in Jobs, LeaseExpires(j)
    PROVE  /\ Typed /\ UNCHANGED <<role, case, worker, sweep, deaths>>
           /\ OneJobPerKey => OneJobPerKey'
<1> DEFINE row == [jobs[j] EXCEPT !.late = TRUE]
<1>1. /\ row \in JobRows /\ row.by = jobs[j].by /\ row.key = jobs[j].key
      /\ row.attempts = jobs[j].attempts /\ row.result = jobs[j].result
      /\ row.status = jobs[j].status /\ row.lease = jobs[j].lease
  <2>1. jobs[j] \in JobRows
    BY DEF TypeOK
  <2>2. row \in JobRows
    BY <2>1 DEF JobRows
  <2> QED
    BY <2>1, <2>2 DEF JobRows
<1>2. jobs' = [jobs EXCEPT ![j] = row] /\ UNCHANGED <<role, case, worker, sweep, audit, deaths>>
  BY DEF LeaseExpires
<1> HIDE DEF row
<1>3. PICK r \in JobRows : r = row
  BY <1>1
<1>4. /\ jobs' = [jobs EXCEPT ![j] = r] /\ audit' = audit
      /\ r.by = jobs[j].by /\ r.key = jobs[j].key
      /\ r.attempts = jobs[j].attempts /\ r.result = jobs[j].result
      /\ r.status = jobs[j].status /\ r.lease = jobs[j].lease
  BY <1>1, <1>2, <1>3
<1>5. Typed /\ (OneJobPerKey => OneJobPerKey')
  BY <1>4, StopMoves
<1> QED
  BY <1>2, <1>5

LEMMA RetryMoves ==
    ASSUME TypeOK, NEW u \in Users, NEW j \in Jobs, RetryJob(u, j)
    PROVE  /\ Typed /\ UNCHANGED <<role, case, worker, sweep, deaths>>
           /\ OneJobPerKey => OneJobPerKey'
<1> DEFINE free == Released(jobs[j], "pending")
           row == [free EXCEPT !.reviewer = NoUser]
<1>1. /\ free \in JobRows /\ free.by = jobs[j].by /\ free.key = jobs[j].key
      /\ free.attempts = jobs[j].attempts /\ free.result = jobs[j].result
      /\ free.status = "pending"
  BY RowsTyped DEF TypeOK, Statuses, Active
<1>2. jobs' = [jobs EXCEPT ![j] = row]
  BY DEF RetryJob
<1> HIDE DEF free
<1>3. /\ row \in JobRows /\ row.by = jobs[j].by /\ row.key = jobs[j].key
      /\ row.attempts = jobs[j].attempts /\ row.result = jobs[j].result
      /\ row.status = "pending"
  BY <1>1 DEF JobRows
<1> HIDE DEF row
<1>4. /\ jobs' \in [Jobs -> JobRows] /\ jobs'[j] = row
      /\ \A i \in Jobs \ {j} : jobs'[i] = jobs[i]
      /\ OneJobPerKey => OneJobPerKey'
  BY <1>2, <1>3, OneRow
<1>5. Retried(j)
  BY <1>3, <1>4 DEF Retried, RetryJob, Scope
<1>6. \A i \in Jobs \ {j} : Kept(i)
  BY <1>4 DEF Kept, RetryJob
<1> QED
  BY <1>4, <1>5, <1>6 DEF Typed, Move, TypeOK, RetryJob

(***************************************************************************)
(* The steps of a worker and of a sweep.                                   *)
(***************************************************************************)
LEMMA FailCandidateMoves ==
    ASSUME TypeOK, QueueInv, NEW w \in Workers, FailCandidate(w)
    PROVE  Typed /\ TypeOK' /\ QueueInv' /\ (OneJobPerKey => OneJobPerKey') /\ UNCHANGED <<role, case>>
<1> DEFINE j == First(w)
<1>1. j \in Jobs /\ j \in Candidates
  BY FirstIsQueued DEF FailCandidate
<1>2. jobs[j] \in JobRows /\ jobs[j].status \in Active /\ "failed" \in Statuses
  BY <1>1 DEF TypeOK, Candidates, Active, Statuses
<1>3. jobs' = [jobs EXCEPT ![j] = Released(jobs[j], "failed")]
  BY SMTT(30) DEF FailCandidate
<1> HIDE DEF j
<1>4. Typed /\ (OneJobPerKey => OneJobPerKey')
  <2> DEFINE row == Released(jobs[j], "failed")
  <2>1. /\ row \in JobRows /\ row.status = "failed" /\ row.by = jobs[j].by
        /\ row.key = jobs[j].key /\ row.attempts = jobs[j].attempts
        /\ row.result = jobs[j].result
    BY <1>2, RowsTyped
  <2>2. jobs' = [jobs EXCEPT ![j] = row] /\ audit' = audit
    BY <1>3 DEF FailCandidate
  <2> HIDE DEF row
  <2> QED
    BY <1>1, <1>2, <2>1, <2>2, StopMoves
<1>5. /\ worker' \in [Workers -> WorkerStates]
      /\ \A v \in Workers : worker'[v].pc \notin {"idle", "claiming"} => worker'[v].job \in Jobs
      /\ QueueInv'
  BY PassTyped DEF FailCandidate
<1> QED
  BY <1>4, <1>5 DEF TypeOK, Typed, FailCandidate, JobRows

LEMMA ClaimMoves ==
    ASSUME TypeOK, QueueInv, NEW w \in Workers, Claim(w)
    PROVE  Typed /\ TypeOK' /\ QueueInv' /\ (OneJobPerKey => OneJobPerKey') /\ UNCHANGED <<role, case>>
<1> DEFINE j == First(w)
           token == jobs[j].attempts + 1
           row == [jobs[j] EXCEPT !.status = "running", !.attempts = token, !.lease = token]
           state == [pc |-> "claimed", queue |-> {}, job |-> j, lease |-> token]
<1>1. /\ j \in Jobs /\ jobs[j].status = "approved" /\ Authorized(jobs[j])
      /\ jobs' = [jobs EXCEPT ![j] = row]
      /\ worker' = [worker EXCEPT ![w] = state]
      /\ audit' = [audit EXCEPT ![j] = "started"]
      /\ UNCHANGED <<role, case, sweep, deaths>>
  BY FirstIsQueued DEF Claim, Event
<1> HIDE DEF j
<1>2. jobs[j] \in JobRows /\ token \in Nat /\ "running" \in Statuses
  BY <1>1 DEF TypeOK, JobRows, Statuses, Active
<1>3. /\ row \in JobRows /\ row.by = jobs[j].by /\ row.key = jobs[j].key
      /\ row.status = "running" /\ row.attempts = token /\ row.lease = token
      /\ row.result = jobs[j].result
  <2> HIDE DEF token
  <2> QED
    BY <1>2 DEF JobRows
<1>4. state \in WorkerStates /\ state.pc = "claimed" /\ state.job \in Jobs
  BY <1>1, <1>2, TeamJobsAssumption DEF WorkerStates, Jobs
<1> HIDE DEF row, state
<1>5. /\ jobs' \in [Jobs -> JobRows] /\ jobs'[j] = row
      /\ \A i \in Jobs \ {j} : jobs'[i] = jobs[i]
      /\ OneJobPerKey => OneJobPerKey'
  BY <1>1, <1>3, OneRow
<1>6. /\ audit' \in [Jobs -> Events] /\ audit'[j] = "started"
      /\ \A i \in Jobs \ {j} : audit'[i] = audit[i]
  BY <1>1 DEF TypeOK, Events
<1>7. Claimed(j)
  BY <1>1, <1>3, <1>5, <1>6 DEF Claimed
<1>8. \A i \in Jobs \ {j} : Kept(i)
  BY <1>5, <1>6 DEF Kept
<1>9. Typed
  BY <1>5, <1>6, <1>7, <1>8 DEF Typed, Move
<1>10. /\ worker' \in [Workers -> WorkerStates]
       /\ \A v \in Workers : worker'[v].pc \notin {"idle", "claiming"} => worker'[v].job \in Jobs
       /\ QueueInv'
  BY <1>1, <1>4 DEF TypeOK, QueueInv
<1>11. TypeOK'
  BY <1>1, <1>9, <1>10 DEF TypeOK, Typed, JobRows
<1> QED
  BY <1>1, <1>5, <1>9, <1>10, <1>11

LEMMA AuthorizeMoves ==
    ASSUME TypeOK, QueueInv, NEW w \in Workers, Authorize(w)
    PROVE  Typed /\ TypeOK' /\ QueueInv' /\ (OneJobPerKey => OneJobPerKey') /\ UNCHANGED <<role, case>>
<1> DEFINE j == worker[w].job
<1>1. j \in Jobs
  BY DEF TypeOK, Authorize
<1>2. PICK pc \in {"authorized", "failing"} : worker' = [worker EXCEPT ![w].pc = pc]
  BY DEF Authorize
<1>3. /\ worker' \in [Workers -> WorkerStates]
      /\ \A v \in Workers : worker'[v].pc \notin {"idle", "claiming"} => worker'[v].job \in Jobs
      /\ QueueInv'
  BY <1>1, <1>2 DEF TypeOK, QueueInv, WorkerStates
<1>4. CASE Holds(w) /\ audit' = [audit EXCEPT ![j] = "executed"]
  <2>1. Executed(j)
    BY <1>1, <1>4 DEF Executed, Authorize, Holds, TypeOK
  <2>2. \A i \in Jobs \ {j} : Kept(i)
    BY <1>1, <1>4 DEF Kept, Authorize, TypeOK
  <2> QED
    BY <1>3, <1>4, <2>1, <2>2 DEF Typed, Move, TypeOK, Events, Authorize, OneJobPerKey
<1>5. CASE UNCHANGED audit
  <2>1. \A i \in Jobs : Kept(i)
    BY <1>5 DEF Kept, Authorize
  <2> QED
    BY <1>3, <1>5, <2>1 DEF Typed, Move, TypeOK, Authorize, OneJobPerKey
<1> QED
  BY <1>4, <1>5 DEF Authorize, Event

LEMMA FinishMoves ==
    ASSUME TypeOK, QueueInv, NEW w \in Workers, FinishJob(w)
    PROVE  Typed /\ TypeOK' /\ QueueInv' /\ (OneJobPerKey => OneJobPerKey') /\ UNCHANGED <<role, case>>
<1> DEFINE j == worker[w].job
<1>1. j \in Jobs /\ jobs[j] \in JobRows
  BY DEF TypeOK, FinishJob
<1>2. PICK state \in {IdleWorker, [worker[w] EXCEPT !.pc = "failing"]} :
        worker' = [worker EXCEPT ![w] = state]
  BY DEF FinishJob
<1>3. /\ state \in WorkerStates /\ state.pc \in {"idle", "failing"}
      /\ state.pc # "idle" => state.job \in Jobs
  BY <1>1, <1>2 DEF TypeOK, WorkerStates, IdleWorker
<1>4. /\ worker' \in [Workers -> WorkerStates] /\ worker'[w] = state
      /\ \A v \in Workers : worker'[v].pc \notin {"idle", "claiming"} => worker'[v].job \in Jobs
      /\ QueueInv'
  BY <1>2, <1>3 DEF TypeOK, QueueInv
<1>5. CASE UNCHANGED <<jobs, audit>>
  <2>1. \A i \in Jobs : Kept(i)
    BY <1>5 DEF Kept
  <2> QED
    BY <1>4, <1>5, <2>1 DEF Typed, Move, TypeOK, FinishJob, OneJobPerKey
<1>6. CASE /\ Holds(w)
           /\ jobs' = [jobs EXCEPT ![worker[w].job] =
                         [Released(@, "completed") EXCEPT !.result = TRUE]]
           /\ Event(worker[w].job, "completed")
  <2> DEFINE free == Released(jobs[j], "completed")
             row == [free EXCEPT !.result = TRUE]
  <2>1. /\ free \in JobRows /\ free.by = jobs[j].by /\ free.key = jobs[j].key
        /\ free.attempts = jobs[j].attempts /\ free.status = "completed"
    BY <1>1, RowsTyped DEF Statuses
  <2>2. jobs' = [jobs EXCEPT ![j] = row]
    BY <1>6
  <2> HIDE DEF free
  <2>3. /\ row \in JobRows /\ row.by = jobs[j].by /\ row.key = jobs[j].key
        /\ row.attempts = jobs[j].attempts /\ row.status = "completed" /\ row.result
    BY <2>1 DEF JobRows
  <2> HIDE DEF row
  <2>4. /\ jobs' \in [Jobs -> JobRows] /\ jobs'[j] = row
        /\ \A i \in Jobs \ {j} : jobs'[i] = jobs[i]
        /\ OneJobPerKey => OneJobPerKey'
    BY <1>1, <2>2, <2>3, OneRow
  <2>5. /\ audit' \in [Jobs -> Events] /\ audit'[j] = "completed"
        /\ \A i \in Jobs \ {j} : audit'[i] = audit[i]
    BY <1>1, <1>6 DEF TypeOK, Events, Event
  <2>6. Published(j)
    BY <1>3, <1>4, <1>6, <2>3, <2>4, <2>5 DEF Published, FinishJob
  <2>7. \A i \in Jobs \ {j} : Kept(i)
    BY <2>4, <2>5 DEF Kept
  <2>8. Typed
    BY <2>4, <2>5, <2>6, <2>7 DEF Typed, Move
  <2> QED
    BY <1>4, <2>4, <2>8 DEF Typed, TypeOK, FinishJob, JobRows
<1> QED
  BY <1>5, <1>6 DEF FinishJob

LEMMA FailJobMoves ==
    ASSUME TypeOK, QueueInv, NEW w \in Workers, FailJob(w)
    PROVE  Typed /\ TypeOK' /\ QueueInv' /\ (OneJobPerKey => OneJobPerKey') /\ UNCHANGED <<role, case>>
<1> DEFINE j == worker[w].job
<1>1. j \in Jobs /\ jobs[j] \in JobRows
  BY DEF TypeOK, FailJob
<1>2. /\ worker' \in [Workers -> WorkerStates]
      /\ \A v \in Workers : worker'[v].pc \notin {"idle", "claiming"} => worker'[v].job \in Jobs
      /\ QueueInv'
  BY DEF TypeOK, QueueInv, FailJob, IdleWorker, WorkerStates
<1>3. Typed /\ (OneJobPerKey => OneJobPerKey')
  <2>1. CASE UNCHANGED jobs
    BY <2>1 DEF Typed, Move, Kept, TypeOK, FailJob, OneJobPerKey
  <2>2. CASE jobs[j].status = "running" /\ jobs' = [jobs EXCEPT ![j] = Released(jobs[j], "failed")]
    <3>1. "failed" \in Statuses /\ jobs[j].status \in Active
      BY <2>2 DEF Statuses, Active
    <3> DEFINE row == Released(jobs[j], "failed")
    <3>2. /\ row \in JobRows /\ row.by = jobs[j].by /\ row.key = jobs[j].key
          /\ row.attempts = jobs[j].attempts /\ row.result = jobs[j].result
          /\ row.status = "failed"
      BY <1>1, <3>1, RowsTyped
    <3>3. jobs' = [jobs EXCEPT ![j] = row] /\ audit' = audit
      BY <2>2 DEF FailJob
    <3>4. \/ row.status = jobs[j].status /\ row.lease = jobs[j].lease
          \/ jobs[j].status \in Active /\ row.status \in {"cancelled", "failed"}
      BY <3>1, <3>2
    <3> HIDE DEF j, row
    <3> QED
      BY <1>1, <3>2, <3>3, <3>4, StopMoves
  <2> QED
    BY <2>1, <2>2 DEF FailJob
<1> QED
  BY <1>2, <1>3 DEF TypeOK, Typed, FailJob, JobRows

LEMMA TombstoneMoves ==
    ASSUME TypeOK, QueueInv, NEW s \in Sweepers, SweepTombstone(s)
    PROVE  /\ Typed /\ TypeOK' /\ QueueInv' /\ (OneJobPerKey => OneJobPerKey')
           /\ DeletedCaseIsQuiet'
<1>1. \A j \in Jobs : jobs[j] \in JobRows /\ jobs'[j] = Tombstoned(jobs[j])
  BY DEF TypeOK, SweepTombstone
<1>2. jobs' \in [Jobs -> JobRows]
  BY TombstonedTyped DEF TypeOK, SweepTombstone
<1>3. ASSUME NEW j \in Jobs PROVE Stopped(j) /\ jobs'[j].status \notin Active
  <2>1. jobs'[j].status = IF jobs[j].status \in Active THEN "cancelled" ELSE jobs[j].status
    BY <1>1, TombstonedTyped
  <2>2. jobs'[j].attempts = jobs[j].attempts /\ jobs'[j].result = jobs[j].result
    BY <1>1, TombstonedTyped
  <2> QED
    BY <2>1, <2>2 DEF Stopped, Active, SweepTombstone
<1>4. Typed
  BY <1>2, <1>3 DEF Typed, Move, TypeOK, SweepTombstone
<1>5. OneJobPerKey'
  BY <1>1, TombstonedTyped DEF OneJobPerKey
<1>6. role' \in [Users -> DOMAIN RoleRank] /\ \A u \in Users : role'[u] = "none"
  BY DEF SweepTombstone, RoleRank
<1>7. case' \in CaseRows
  BY DEF SweepTombstone, TypeOK, CaseRows
<1>8. TypeOK'
  BY <1>4, <1>6, <1>7 DEF TypeOK, Typed, SweepTombstone, JobRows
<1>9. QueueInv'
  BY DEF SweepTombstone, QueueInv
<1>10. DeletedCaseIsQuiet'
  BY <1>3, <1>6 DEF DeletedCaseIsQuiet, Outstanding
<1> QED
  BY <1>4, <1>5, <1>8, <1>9, <1>10

(***************************************************************************)
(* The invariant.                                                          *)
(***************************************************************************)
\* Whatever happens is a step aside or moves rows, and is typed.
LEMMA Steps ==
    ASSUME TypeOK, QueueInv, [Next]_vars
    PROVE  /\ Typed /\ TypeOK' /\ QueueInv'
           /\ OneJobPerKey => OneJobPerKey'
           /\ \/ Aside
              \/ UNCHANGED <<role, case>>
              \/ \E s \in Sweepers : SweepTombstone(s)
<1>1. CASE Aside
  <2>1. UNCHANGED <<jobs, audit>>
    BY <1>1, AsideMoves
  <2>2. Typed /\ (OneJobPerKey => OneJobPerKey')
    BY <2>1 DEF Typed, Move, Kept, TypeOK, OneJobPerKey
  <2> QED
    BY <1>1, <2>2, AsideTyped
<1>2. ASSUME Typed, UNCHANGED <<role, case, worker, sweep, deaths>>
      PROVE  TypeOK' /\ QueueInv' /\ UNCHANGED <<role, case>>
  BY <1>2 DEF Typed, TypeOK, QueueInv, JobRows
<1>3. ASSUME NEW u \in Users, NEW key \in Keys \union {NoKey}, RequestJob(u, key)
      PROVE  /\ Typed /\ TypeOK' /\ QueueInv' /\ (OneJobPerKey => OneJobPerKey')
             /\ UNCHANGED <<role, case>>
  BY <1>2, <1>3, RequestMoves
<1>4. ASSUME NEW u \in Users, NEW j \in Jobs,
             CancelJob(u, j) \/ RetryJob(u, j) \/ \E approve \in BOOLEAN : ReviewJob(u, j, approve)
      PROVE  /\ Typed /\ TypeOK' /\ QueueInv' /\ (OneJobPerKey => OneJobPerKey')
             /\ UNCHANGED <<role, case>>
  BY <1>2, <1>4, CancelMoves, RetryMoves, ReviewMoves
<1>5. ASSUME NEW j \in Jobs, LeaseExpires(j)
      PROVE  /\ Typed /\ TypeOK' /\ QueueInv' /\ (OneJobPerKey => OneJobPerKey')
             /\ UNCHANGED <<role, case>>
  BY <1>2, <1>5, LateMoves
<1>6. ASSUME NEW w \in Workers,
             FailCandidate(w) \/ Claim(w) \/ Authorize(w) \/ FinishJob(w) \/ FailJob(w)
      PROVE  /\ Typed /\ TypeOK' /\ QueueInv' /\ (OneJobPerKey => OneJobPerKey')
             /\ UNCHANGED <<role, case>>
  BY <1>6, FailCandidateMoves, ClaimMoves, AuthorizeMoves, FinishMoves, FailJobMoves
<1>7. ASSUME NEW s \in Sweepers, SweepTombstone(s)
      PROVE  Typed /\ TypeOK' /\ QueueInv' /\ (OneJobPerKey => OneJobPerKey')
  BY <1>7, TombstoneMoves
<1>8. \/ Aside
      \/ \E u \in Users, key \in Keys \union {NoKey} : RequestJob(u, key)
      \/ \E u \in Users, j \in Jobs :
            CancelJob(u, j) \/ RetryJob(u, j) \/ \E approve \in BOOLEAN : ReviewJob(u, j, approve)
      \/ \E j \in Jobs : LeaseExpires(j)
      \/ \E w \in Workers :
            FailCandidate(w) \/ Claim(w) \/ Authorize(w) \/ FinishJob(w) \/ FailJob(w)
      \/ \E s \in Sweepers : SweepTombstone(s)
  BY DEF Next, Call, WorkerStep, SweepStep, Aside
<1> QED
  BY <1>1, <1>3, <1>4, <1>5, <1>6, <1>7, <1>8

LEMMA RowsKept ==
    ASSUME TypeOK, RowInv, Typed
    PROVE  RowInv'
<1> USE TeamJobsAssumption
<1> SUFFICES ASSUME NEW j \in Jobs
             PROVE  /\ jobs'[j].status = "none" => jobs'[j].attempts = 0
                    /\ jobs'[j].status \in {"none", "pending", "approved"} =>
                          jobs'[j].attempts < MaxExecutions
                    /\ jobs'[j].status = "approved" => audit'[j] = "approved"
                    /\ jobs'[j].status = "running" =>
                          jobs'[j].lease = jobs'[j].attempts /\ audit'[j] \in {"started", "executed"}
  BY DEF RowInv
<1>1. jobs[j].attempts \in Nat /\ jobs'[j].attempts \in Nat
  BY DEF TypeOK, Typed, JobRows
<1>2. CASE Kept(j)
  BY <1>2 DEF Kept, RowInv
<1>3. CASE Requested(j)
  BY <1>3 DEF Requested
<1>4. CASE Reviewed(j)
  BY <1>1, <1>4 DEF Reviewed, RowInv
<1>5. CASE Stopped(j)
  BY <1>1, <1>5 DEF Stopped, RowInv
<1>6. CASE Retried(j)
  BY <1>1, <1>6 DEF Retried
<1>7. CASE Claimed(j)
  BY <1>1, <1>7 DEF Claimed
<1>8. CASE Executed(j)
  BY <1>1, <1>8 DEF Executed, RowInv
<1>9. CASE Published(j)
  BY <1>9 DEF Published
<1> QED
  BY <1>2, <1>3, <1>4, <1>5, <1>6, <1>7, <1>8, <1>9 DEF Typed, Move

LEMMA AsideKeepsCase ==
    ASSUME TypeOK, Aside
    PROVE  case'.deleted => case.deleted
BY DEF Aside, RequestAgain, Revoke, Grant, SetRetention, SetHold, RetentionEnds,
       ReadCandidates, PassOver, Fetch, WorkerDies, SweepSelect, SweepSkip, SweepResume, SweepPurge,
       SweepDies, vars, TypeOK, CaseRows

LEMMA QuietKept ==
    ASSUME TypeOK, QueueInv, RowInv, DeletedCaseIsQuiet, [Next]_vars
    PROVE  DeletedCaseIsQuiet'
<1>1. CASE \E s \in Sweepers : SweepTombstone(s)
  BY <1>1, TombstoneMoves
<1>2. CASE Aside
  <2>1. UNCHANGED <<jobs, audit>> /\ (case'.deleted => case.deleted)
    BY <1>2, AsideMoves, AsideKeepsCase
  <2>2. ASSUME case.deleted, NEW u \in Users
        PROVE  role'[u] = role[u] \/ role'[u] = "none"
    BY <1>2, <2>2 DEF Aside, RequestAgain, Revoke, Grant, SetRetention, SetHold, RetentionEnds,
       ReadCandidates, PassOver, Fetch, WorkerDies, SweepSelect, SweepSkip, SweepResume, SweepPurge,
       SweepDies, vars, TypeOK, Scope
  <2> QED
    BY <2>1, <2>2 DEF DeletedCaseIsQuiet, Outstanding
<1>3. CASE UNCHANGED <<role, case>>
  <2> SUFFICES ASSUME case.deleted, NEW j \in Jobs
               PROVE  jobs'[j].status \notin Active
    BY <1>3 DEF DeletedCaseIsQuiet, Outstanding
  <2>1. jobs[j].status \notin Active
    BY DEF DeletedCaseIsQuiet, Outstanding
  <2>2. Move(j)
    BY Steps DEF Typed
  <2>3. ~Requested(j) /\ ~Reviewed(j) /\ ~Retried(j) /\ ~Claimed(j)
    BY DEF Requested, Reviewed, Retried, Claimed, Authorized
  <2> QED
    BY <2>1, <2>2, <2>3 DEF Move, Kept, Stopped, Executed, Published, Active
<1> QED
  BY <1>1, <1>2, <1>3, Steps

\* The rows, the queue and the case stay in step whatever the workers, the people
\* and the sweeps do.
THEOREM IInvHolds == Spec => []IInv
<1> USE TeamJobsAssumption DEF IInv
<1>1. Init => IInv
  <2> SUFFICES ASSUME Init PROVE IInv
    OBVIOUS
  <2>1. \A j \in Jobs : jobs[j] = NoJob /\ NoJob \in JobRows
    BY DEF Init, NoJob, JobRows, Statuses
  <2>2. role \in [Users -> DOMAIN RoleRank]
    BY DEF Init, RoleRank
  <2>3. TypeOK
    BY <2>1, <2>2 DEF Init, TypeOK, CaseRows, WorkerStates, IdleWorker, Events, JobRows
  <2>4. QueueInv /\ RowInv
    BY <2>1 DEF Init, QueueInv, RowInv, NoJob, IdleWorker
  <2>5. OneJobPerKey
    BY <2>1 DEF OneJobPerKey, NoJob
  <2>6. DeletedCaseIsQuiet
    BY DEF Init, DeletedCaseIsQuiet
  <2> QED
    BY <2>3, <2>4, <2>5, <2>6
<1>2. IInv /\ [Next]_vars => IInv'
  BY Steps, RowsKept, QuietKept
<1> QED
  BY <1>1, <1>2, PTL DEF Spec

(***************************************************************************)
(* The theorems.                                                           *)
(***************************************************************************)
\* Every row satisfies the constraints of the schema.
THEOREM TypesHold == Spec => []TypeOK
<1>1. IInv => TypeOK
  BY DEF IInv
<1> QED
  BY <1>1, IInvHolds, PTL

\* A tombstoned case has nobody's role and no job that could still run.
THEOREM DeletedIsQuiet == Spec => []DeletedCaseIsQuiet
<1>1. IInv => DeletedCaseIsQuiet
  BY DEF IInv
<1> QED
  BY <1>1, IInvHolds, PTL

\* A repeated request never makes a second job, also when the first one has
\* ended or the case is swept meanwhile.
THEOREM KeysAreUnique == Spec => []OneJobPerKey
<1>1. IInv => OneJobPerKey
  BY DEF IInv
<1> QED
  BY <1>1, IInvHolds, PTL

\* Each claim uses up an approval of its own and there are at most
\* MaxExecutions of them.
THEOREM ExecutionsReviewed == Spec => EveryExecutionReviewed
<1>1. ASSUME IInv, [Next]_vars, NEW j \in Jobs
      PROVE  /\ jobs'[j].attempts # jobs[j].attempts =>
                   /\ audit[j] = "approved" /\ Independent(jobs[j])
                   /\ jobs'[j].attempts = jobs[j].attempts + 1
                   /\ jobs'[j].attempts <= MaxExecutions
             /\ audit'[j] = "executed" /\ audit[j] # "executed" =>
                   audit[j] = "started"
  <2>1. Move(j)
    BY <1>1, Steps DEF IInv, Typed
  <2>2. jobs[j].attempts \in Nat /\ MaxExecutions \in Nat
    BY <1>1, TeamJobsAssumption DEF IInv, TypeOK, JobRows
  <2>3. CASE Claimed(j)
    BY <1>1, <2>2, <2>3 DEF IInv, RowInv, Claimed, Authorized
  <2>4. CASE Executed(j)
    BY <1>1, <2>4 DEF IInv, RowInv, Executed
  <2>5. CASE ~Claimed(j) /\ ~Executed(j)
    BY <1>1, <2>1, <2>5 DEF IInv, RowInv, Move, Kept, Requested, Reviewed, Stopped, Retried, Published
  <2> QED
    BY <2>3, <2>4, <2>5
<1>2. IInv /\ [Next]_vars =>
        [\A j \in Jobs :
            /\ jobs'[j].attempts # jobs[j].attempts =>
                  /\ audit[j] = "approved" /\ Independent(jobs[j])
                  /\ jobs'[j].attempts = jobs[j].attempts + 1
                  /\ jobs'[j].attempts <= MaxExecutions
            /\ audit'[j] = "executed" /\ audit[j] # "executed" =>
                  audit[j] = "started"]_vars
  BY <1>1
<1> QED
  BY <1>2, IInvHolds, PTL DEF Spec, EveryExecutionReviewed

\* A result is published by the worker of the latest claim alone, while the
\* people it rests on still have their roles and the case is kept.
THEOREM PublicationIsCurrent == Spec => StaleWorkersCannotPublish
<1>1. ASSUME IInv, [Next]_vars, NEW j \in Jobs, jobs'[j].result, ~jobs[j].result
      PROVE  /\ \E w \in Workers :
                   /\ worker[w].pc = "fetched" /\ worker'[w].pc # "fetched"
                   /\ worker[w].job = j /\ worker[w].lease = jobs[j].attempts
             /\ ~case.deleted /\ ~case.expired
             /\ Has(jobs[j].by, "analyst")
             /\ Has(jobs[j].reviewer, "reviewer")
  <2>1. Move(j)
    BY <1>1, Steps DEF IInv, Typed
  <2>2. Published(j)
    BY <1>1, <2>1 DEF Move, Kept, Requested, Reviewed, Stopped, Retried, Claimed, Executed
  <2>3. PICK w \in Workers :
          /\ worker[w].pc = "fetched" /\ worker'[w].pc # "fetched"
          /\ worker[w].job = j /\ Holds(w)
    BY <2>2 DEF Published
  <2>4. /\ worker[w].lease = jobs[j].attempts
        /\ Authorized(jobs[j])
    BY <1>1, <2>3 DEF Holds, IInv, RowInv
  <2> QED
    BY <2>3, <2>4 DEF Authorized, Mutable
<1>2. IInv /\ [Next]_vars =>
        [\A j \in Jobs :
            jobs'[j].result /\ ~jobs[j].result =>
                /\ \E w \in Workers :
                      /\ worker[w].pc = "fetched" /\ worker'[w].pc # "fetched"
                      /\ worker[w].job = j /\ worker[w].lease = jobs[j].attempts
                /\ ~case.deleted /\ ~case.expired
                /\ Has(jobs[j].by, "analyst")
                /\ Has(jobs[j].reviewer, "reviewer")]_vars
  BY <1>1
<1> QED
  BY <1>2, IInvHolds, PTL DEF Spec, StaleWorkersCannotPublish

\* No answer, cancellation, sweep or lease changes a job that has ended.
THEOREM EndsFinal == Spec => EndsAreFinal
<1>1. ASSUME IInv, [Next]_vars, NEW j \in Jobs,
             jobs[j].status \in {"completed", "rejected", "cancelled"}
      PROVE  jobs'[j].status = jobs[j].status /\ jobs'[j].result = jobs[j].result
  <2>1. Move(j)
    BY <1>1, Steps DEF IInv, Typed
  <2>2. ~Published(j)
    BY <1>1 DEF Published, Holds
  <2> QED
    BY <1>1, <2>1, <2>2 DEF Move, Kept, Requested, Reviewed, Stopped, Retried, Claimed, Executed, Active
<1>2. IInv /\ [Next]_vars =>
        [\A j \in Jobs :
            jobs[j].status \in {"completed", "rejected", "cancelled"} =>
                /\ jobs'[j].status = jobs[j].status
                /\ jobs'[j].result = jobs[j].result]_vars
  BY <1>1
<1> QED
  BY <1>2, IInvHolds, PTL DEF Spec, EndsAreFinal

\* No sweep deletes a case that is held, whenever the hold was placed.
THEOREM HeldStays == Spec => HeldCaseStays
<1>1. ASSUME IInv, [Next]_vars, case.hold, ~case.deleted
      PROVE  ~case'.deleted
  <2>1. ASSUME NEW s \in Sweepers, SweepTombstone(s) PROVE FALSE
    BY <1>1, <2>1 DEF SweepTombstone, Due
  <2> QED
    BY <1>1, <2>1, Steps, AsideKeepsCase DEF IInv
<1>2. IInv /\ [Next]_vars => [case.hold /\ ~case.deleted => ~case'.deleted]_vars
  BY <1>1
<1> QED
  BY <1>2, IInvHolds, PTL DEF Spec, HeldCaseStays

\* A case is taken beyond its quota of outstanding jobs by retries alone.
THEOREM QuotaKept == Spec => OnlyRetriesExceedQuota
<1>1. ASSUME IInv, [Next]_vars, NEW j \in Outstanding' \ Outstanding,
             Cardinality(Outstanding') > MaxPendingJobs
      PROVE  jobs[j].status = "failed" /\ jobs'[j].status = "pending"
  <2>1. j \in Jobs /\ Move(j) /\ jobs[j].status \notin Active /\ jobs'[j].status \in Active
    BY <1>1, Steps DEF IInv, Typed, Outstanding
  <2>2. CASE Requested(j)
    <3> DEFINE before == Outstanding
               after == Outstanding'
    <3>1. before \in SUBSET Jobs /\ after \in SUBSET (before \union {j})
      BY <2>1, <2>2 DEF Requested, Outstanding
    <3>2. IsFiniteSet(Jobs)
      BY FS_Interval, TeamJobsAssumption DEF Jobs
    <3>3. Cardinality(before) < MaxPendingJobs /\ Cardinality(after) > MaxPendingJobs
      BY <1>1, <2>2 DEF Requested
    <3> HIDE DEF before, after
    <3>4. IsFiniteSet(before)
      BY <3>1, <3>2, FS_Subset
    <3>9. Cardinality(before) \in Nat
      BY <3>4, FS_CardinalityType
    <3>10. /\ IsFiniteSet(before \union {j})
           /\ \/ Cardinality(before \union {j}) = Cardinality(before)
              \/ Cardinality(before \union {j}) = Cardinality(before) + 1
      BY <3>4, FS_AddElement, Zenon
    <3>5. /\ IsFiniteSet(before \union {j})
          /\ Cardinality(before \union {j}) <= Cardinality(before) + 1
      BY <3>9, <3>10
    <3>6. IsFiniteSet(after) /\ Cardinality(after) <= Cardinality(before \union {j})
      BY <3>1, <3>5, FS_Subset
    <3>7. Cardinality(after) \in Nat /\ Cardinality(before \union {j}) \in Nat /\ MaxPendingJobs \in Nat
      BY <3>5, <3>6, FS_CardinalityType, TeamJobsAssumption
    <3>8. Cardinality(after) <= MaxPendingJobs
      BY <3>3, <3>5, <3>6, <3>7, <3>9
    <3> QED
      BY <3>3, <3>7, <3>8
  <2>3. ~Published(j)
    BY <2>1 DEF Published, Active
  <2> QED
    BY <2>1, <2>2, <2>3 DEF Move, Kept, Reviewed, Stopped, Retried, Claimed, Executed, Active
<1>2. IInv /\ [Next]_vars =>
        [LET before == Outstanding
             after == Outstanding'
         IN  after \ before # {} /\ Cardinality(after) > MaxPendingJobs =>
                 \A j \in after \ before :
                     jobs[j].status = "failed" /\ jobs'[j].status = "pending"]_vars
  BY <1>1
<1> QED
  BY <1>2, IInvHolds, PTL DEF Spec, OnlyRetriesExceedQuota

=============================================================================
