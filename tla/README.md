# Formal models of osint-toolbox

TLA+ models of the parts of `osint-toolbox` whose correctness depends on the
order in which things happen: the crash-safe case store, the gate in front of
external providers, analysts' decisions, what leaves a case, and the team
service's jobs, encrypted objects, reports and audit chain. TLC checks them on
small instances; TLAPS proves most of the safety properties for every value of
the constants. All paths below are relative to the repository.

## 1. The system

`osint-toolbox` keeps investigations. A *case* is a directory of append-only
JSONL files, a hash-chained ledger, a case record and artifact payloads, changed
by command-line processes. Collections from external providers and local
analyzers add records to it. A separate *team service* keeps cases of its own in
PostgreSQL, with ciphertext in the file system, and executes reviewed jobs.

| Component (src/osint_toolbox) | State | Operations | What makes it hard |
|---|---|---|---|
| Case store: `transactions.py`, `util.py` | `.transactions/<id>.json`, JSONL files, `ledger.jsonl`, `case.json`, staged and installed payloads | `commit_transaction`, `recover_pending_transactions`, `append_ledger` | death and disk errors between (and inside) durable effects, replay of what was partly done |
| Case lock: `locking.py` | `.case.lock` | `case_lock` | it goes with its process, the pending journal does not |
| Case records and governance: `case.py` | the same files | `add_*`, `update_case_status`, `update_case_retention`, `record_legal_hold`, `recover_case`, `upgrade_case` | staging outside the lock, handlers that run after the lock is released |
| Case verification: `case.py` `verify_case` | none | reads everything, gates governance | must hold whenever nothing is pending |
| Provider gate: `policy.py` | approvals, revocations, reservations (records of the case) | `approve_provider`, `revoke_provider_approval`, `reserve_approved_run` | checks made before the lock is taken, caps under concurrency |
| Provider collection: `providers.py`, `application.py` | records of the case | `collect_provider` | disclosure, reservation and request in that order; the case may be closed in between |
| Workbench, audit review: `workbench.py`, `audit.py` | records of the case | `record_resolution`, `record_worksheet`, `audit_case`, `review_finding` | a split names a merge that may be split meanwhile |
| Analyzers: `analyzers.py` | records of the case, a temporary file in `artifacts/` | one external tool over one artifact | output and derivation are two transactions; OCRmyPDF's file outlives a kill |
| Exports, bundles, signing: `exports.py`, `signing.py`, `pdf_reports.py` | output files | snapshots, bundles, reports | file after file is read, without the lock, while writers go on |
| Team service and worker: `team_service.py`, `team_worker.py` | `team_cases`, `team_members`, `team_jobs`, `team_audit` | requests, review, cancel, retry, claims, leases, publication, holds, `retention_sweep` | several transactions per operation, leases, roles that change, late answers |
| Team object store: `team_store.py` | `team_objects`, `team_audit`, ciphertext files, advisory locks | `transaction`, `audit`, `maintenance`, `verify_audit`, `verify_storage` | rows and files are not covered by one transaction; three locks; a chain under READ COMMITTED |
| Backup and restore: `team_ops.py` | an archive | `backup`, `restore_drill` | database and files change apart; the lock goes with its connection |
| API, models, schema: `team_api.py`, `team_models.py`, `team_schema.sql` | none | one service call per handler, a note of each request | up to three transactions per request, any of which may fail |
| CLI, doctor, catalog, queries, schema validation | none | one call of a component above | - |

How they interact. Everything that changes a case goes through
`commit_transaction` under `case_lock`: collections, approvals, workbench and
audit decisions differ in *what they read before* they take the lock. Exports
read the files without it. In the team service a database transaction that touches a case
takes the case's advisory lock (and shares the maintenance lock) to its end;
what a worker or a sweep remembers from one transaction to the next, and the
files it writes or deletes, are outside. A request to the API makes up to three
transactions one after the other: the service call's, one that notes a denial, and
the middleware's note of the request; each appends to one audit chain for all
cases. The team service executes its jobs with
the same adapters as `collect_provider` and with none of the files of a case.

For each component, what makes it correct:

* store: a decided transaction is never lost, doubled, reordered or left half
  done; at most one is pending; with none pending the files verify; recovery
  always gets through;
* governance: a closed case gains no records, a held case keeps its retention;
* gate: no request without disclosure and, if licensed, reservation; caps hold;
  revocations are final and made once; a request that left has a recorded outcome;
* jobs: each execution was independently reviewed for that execution; late
  workers publish nothing; ends are final; a tombstoned case is quiet; no job is
  stuck; quotas hold;
* objects: visible rows have their ciphertext, rolled-back and purged ones have
  none in the end; a backup can be restored;
* audit and reports: the chain verifies at any time; rows and the events about
  them are committed together; answers are true; nobody waits for ever;
* exports: an accepted bundle is the case at one instant; a redacted export keeps
  nothing that is linked to a licensed collection but what the code cannot know;
* decisions: groups are those of the merges that stand; a page is true of the
  decisions it shows; a review excuses the finding it has seen and no other.

`PROJECT.json` lists the hazards behind these, each at its line, with the
properties that cover it.

## 2. Modules and plan

| Module | What it is | Status |
|---|---|---|
| `CaseRecords` | values of a case: record, transactions, rows, ledger entries, journal operations | done |
| `CaseLog` | abstract specification of the store: a log of decided transactions | done |
| `CaseStore` | the store in detail: lock, journal, files with torn tails, deaths, I/O errors, recovery | done |
| `CaseStoreProps`, `MCCaseStore` | its properties, the refinement mapping to `CaseLog`, the instances | done |
| `CaseStoreInvariant` | the inductive invariant of the store | done |
| `CaseStoreProofs` | TLAPS: every safety property of its runs, and the refinement | done |
| `ProviderGate`, `ProviderGateProps`, `MCProviderGate` | collections, approvals, closing of one case | done |
| `ProviderGateProofs` | TLAPS: every property of its run | done |
| `Decisions`, `DecisionsProps`, `MCDecisions` | merges, splits, the groups they make, audit findings and their reviews | done |
| `DecisionsProofs` | TLAPS: every property of its run | done |
| `CaseExports`, `CaseExportsProps`, `MCCaseExports` | bundles and redacted exports beside a collection, an analyzer and an analyst | done |
| `CaseExportsProofs` | TLAPS: every property of its run | done |
| `TeamJobs`, `TeamJobsProps`, `MCTeamJobs` | jobs, roles, holds, retention, quota of one team case | done |
| `TeamJobsProofs` | TLAPS: every safety property of its runs | done |
| `TeamObjects`, `TeamObjectsProps`, `MCTeamObjects` | rows against ciphertext files, sweep, backup | done |
| `TeamObjectsProofs` | TLAPS: every safety property of its run | done |
| `TeamAudit`, `TeamAuditProps`, `MCTeamAudit` | API requests about reports: locks, audit chain, transactions, answers | done |
| `TeamAuditProofs` | TLAPS: every safety property of its run | done |
| `SetLemmas` | TLAPS: greatest and least elements of finite sets of integers; induction and recursion over intervals | done |
| case creation, `upgrade_case` | first transaction without the lock; migration under it | left |
| `restore_drill` on its own database | a drill that is cut off and repeated | left |

The order is by what the rest relies on. `ProviderGate` and `Decisions` take it
that a client of the store writes a record in one step, or leaves it in the journal: that
this may be assumed is the refinement
`CaseStore => CaseLog`. `CaseExports` relies on less: writers take turns (`OneWriter`), and
it looks at the files between any two effects of a transaction. The three models of
the team service cut it differently: `TeamJobs` takes a transaction as one step and
looks at what processes remember between transactions, `TeamObjects` opens a
transaction up and looks at the files, `TeamAudit` opens it up and looks at the
locks, the audit and the answer.

## 3. How the models correspond to the code

`PROJECT.json` maps each definition to its lines. The essentials:

### CaseStore

A step is one durable effect or one read that a later step relies on.

| Code | Model |
|---|---|
| `case_lock` (flock) | `lock`, released by `Raise`, `Finish` and, for a killed process, `Crash` |
| `.transactions/<id>.json` | `journals`; published by one `os.replace` (`WriteJournal`), unlinked at the end (`Finish`, `FinishReplay`) |
| `_append_idempotent` | `CanAppend` (when it does not raise), `AppendIdempotent` (what it leaves), `Torn` (what it leaves if cut short) |
| bytes after the last newline | `disk.tail[f]`: none, `short` (the bytes all lines of the file share), `long`, `unterminated`, `garbled` |
| `replace_json`, `install` | `ReplaceOp`, `InstallOp`: each one rename, so never torn |
| the checks before a journal is written | `Accepted`: `assert_case_mutable`, `verify_case` for governance, no pending journal, readable ledger |
| `add_artifact*`: stage, lock, commit, and the handler after the lock is released | `StagePayload`, `TakeLock`, ..., `DropPayload` |
| `OSError` under the lock; from `case_lock` itself; before the `try` or in its `except` clause | `IOError`, `LockError`, `UnhandledError` |
| `recover_case` | `StartRecovery`, `Apply` from the first operation, `FinishReplay`, and the note as a transaction of its own |
| `verify_case` | `FilesAgree`, `VerifyCase` |

Abstractions. A hash is the thing hashed. Ledger entries share only their first
bytes (`canonical_json` sorts keys, and all begin with the action's key), so a
tail of at most those bytes is a beginning of every line: hence `short` and
`long`. Every durable effect is taken to be on disk before the next one, as each
write is followed by an `fsync`. Statuses are the two classes the code tells
apart. `abandoned` is history: the uploads whose process was killed, or left by an
`OSError` outside its `try`, while their payload was staged. `create_case` is complete in
`Init`. References between records, schema checks and migrations are not in `VerifyCase`.

### ProviderGate

One target and one provider that needs approvals. `call[c]` is the next record
`collect_provider` writes for call `c`; `File` writes it, `Refused` is the
exception instead, and `Following` and `Otherwise` say what comes next in either
case. `Interrupted` leaves the record in the journal (`journal`), from which
`RecoverCase` completes it. `Check` and `Decide` are the two halves of
`approve_provider` and `revoke_provider_approval`: the first reads outside the
lock. `SetStatus` and `SetRetention` want a case that verifies. `closedOn` is
history: the calls under way when the case was closed. The profile's
restrictions, adapters, HTTP retries and the health registry are not modelled;
nor is that an artifact's payload may stay staged (that is in `CaseStore`).

### TeamJobs

Every service method is one transaction under the case's advisory lock, so one
action; the workers' `claim_job`, `prepare_job`, adapter, `finish_job`,
`fail_job` and the sweep's select, tombstone, purge are separate actions with
the worker's or sweep's memory (`worker`, `sweep`) in between. A lease token is
the number of the claim. Media and provider jobs are one kind; payloads and
results are data. Calls that are refused only write an audit event and are left
out; `audit` keeps the last event per job, which the properties use as history.
The administrators do not change. Only a request asks for the quota (`Outstanding`
against `MaxPendingJobs`), as in the code.

### TeamObjects

One case, so its advisory lock and the maintenance lock are one `lock`. A
transaction writes each file before its row (`WriteObject`, `NoteObject`),
commits all rows at once, and after a rollback deletes its files without a lock
(`CleanUp`). An exception that arrives after the commit runs the same clean-up
(`AlarmAfterCommit`); one that arrives before the file is noted leaves it
(`AlarmBeforeNote`); other moments are a rollback. The clean-up ends at the first
file that `objects.delete` cannot delete (`CleanUpFails`; `TakeAwayFails` is the same in the
handler of `EncryptedObjects.write`), and nobody comes back for the others. `abandoned` is
history: the objects whose file nobody will take away any more. `failures` counts all of
these but the alarms. The sweep tombstones rows in
one transaction and deletes files in another; `backup` verifies, dumps, reads the
list of objects (`ListObjects`) and copies them under the maintenance lock. The
connection that holds it may break at any time (`LoseMaintenance`): `backup`
notices when it uses that connection next, which is for the list. The dump is
made by `pg_dump` over a connection of its own; a list that is read at all was
read under the same lock as the dump, and so agrees with it. What `restore_drill` asks of an archive is
`Restores`; its own database, and archive formats, are not modelled.

### Decisions

What several analysts do to one case through `record_resolution`, `add_entity`,
`review_finding`, `render_workbench` and the graph exports. `CheckMerge`,
`CheckSplit` and `Judge` are what a call reads before it has the lock;
`RecordDecision` and `RecordReview` are `_append_record`; `GiveUp` is its refusal.
`ReadEntities` and `Render` are the two reads of a page, which is made without
the lock. A merge is named by its place in the file (in the code, a random
identifier). `Parents` and `Link` are the union by parents of
`active_resolution_groups`, without union by rank, as in the code.

The audit has the findings about integrity and about entities; the other
categories name records and are reviewed the same way. A fingerprint is the pair
it hashes. Five dispositions become two: those that suppress and those that do
not. A call left in the journal by a death is not modelled here (it is in
`CaseStore`), nor are the sources and features of a decision, which
`record_resolution` only looks up.

### CaseExports

The files of a case are sets of records, which only grow; `journal` is the record
whose transaction is under way, and `Install`, `AppendRow`, `AppendLedger` and
`Finish` are its effects one by one, with any time (a death and its recovery,
too) in between. The records are those of one licensed collection, a run of the
provider that failed or was blocked (`"failed"`), of an analyzer
that works on the response, and of an analyst who makes an entity and a relationship of it; `Names` says which
identifiers a record holds, `After` in which order the code can write them. A failed
run names nothing, whatever was stored before it failed (`providers.py:1231`), so it may be
recorded at any time.

| Code | Model |
|---|---|
| `_case_files` | `ListFiles`: which payloads are in `artifacts/` |
| the manifest: one hash per file | `HashFile`, file after file in the order of their paths |
| `archive.write` | `ArchiveFile`: each file is read a second time |
| `verify_bundle` | `Accepted`: every second reading matches the first (`Matches`) |
| `_snapshot`, `build_redacted_snapshot` | `ReadDataset`, then `ReadRuns` and `ReadApprovals` once more; `Removed`, `Kept` |
| the temporary directory of OCRmyPDF | `scratch`: listed like a payload, gone when it is read, or there for good after a kill |
| the child artifact, then the derivation | `"derived"`, `"derivation"`: two transactions of which the second may never come |
| a line half written, a file that is gone, `verify_case` that complains | `Raise` |

`settled` and `instant` are history: what the files held when the manifest was
complete, and whether a transaction was under way then. What the policy itself
excludes from an export, and the graph views (which read like the workbench page
in `Decisions`), are not here.

### TeamAudit

A request runs through its transactions in the phases `service`, `denial` and
`request`; each enters (`Enter`: the shared maintenance lock), takes its case's
lock if it has a case (`LockCase`), reads and writes (`Permitted`, or `Denied`,
which rolls back and goes on to the denial's note), takes the audit lock with its
first event (`TakeAuditLock`), appends (`AppendEvent`) and commits. Locks go with
the transaction (`Release`). Under READ COMMITTED a statement sees what was
committed when it began and the transaction's own rows: `LastSeen` reads
`events \union appended[r]`. The sequence behind `event_id` is not rolled back, so
ids have gaps. `Commit` may succeed and its acknowledgement be lost; `Break` is a
`psycopg.Error` at any earlier point, which the API answers with 503, and `Dies` a
killed process. A backup asks for the maintenance lock and thereby goes before
transactions that ask later. The operations are those about reports, which have
everything the others have: a new row, a read that depends on the role, and a
decision by somebody else. An event stands for its digest.

## 4. Runs

| Run | Instance | Checks | Shows |
|---|---|---|---|
| `case_store` | 2 processes, all mutations, 4 identifiers, 1 death, 1 I/O error (789 k states) | `TypeOK`, `OneWriter`, `SettledCaseVerifies`, `UploadsCleanUp`, `HeldRetentionFrozen`, `ImplementsLog` | the files verify whenever nothing is pending, uploads that end in their handler clean up after themselves, the store implements the log |
| `case_recovery` | 2 processes, all mutations, 2 identifiers, 2 deaths, 1 error, fairness (85 k) | `OnlyTornHoldsBlock`, `JournalsComplete` | recovery gets through at every point, also when it is interrupted itself, and is completed in the end; a legal hold torn in its second ledger entry is the one exception, and a real one |
| `hold_recovery` | a legal hold, 1 death | `PendingIsRecoverable` | **violated**, finding 1 |
| `provider_gate` | 2 licensed calls, 1 clerk, 2 approvals, 1 fault (2.4 M) | `TypeOK`, `RequestsAreCovered`, `RequestsWithinCap`, `OutcomesAreTrue`, `RevokedIsFinal`, `ClosedCaseIsQuiet` | what may be asked was disclosed, reserved and within its cap; what is recorded of it is true |
| `provider_revocation` | 2 clerks, 1 approval | `OneRevocation` | **violated**, finding 2 |
| `decisions` | 3 entities of one label, one of them perhaps without a source, 2 analysts, 3 decisions, 1 review (484 k) | `TypeOK`, `GroupsAreComponents`, `PagesAreSound`, `OnlyRacesBreakHistory`, `GrownFindingsAreOpen` | groups, pages and reviews while entities and decisions come in |
| `case_exports` | a collection, a failed run, an analyzer's output, an entity, a relationship, 1 note of an export (9.4 M) | `BundlesAreInstants`, `AcceptedBundlesVerify`, `RedactionOmitsLinked` | what leaves a case that is being written is consistent, or refused |
| `team_jobs` | 1 job, 3 users, 2 workers, 2 sweeps, 1 death (495 k) | `DeletedCaseIsQuiet`, `EveryExecutionReviewed`, `EndsAreFinal`, `StaleWorkersCannotPublish`, `HeldCaseStays` | reviews, leases, roles and holds through every interleaving |
| `team_progress` | 2 jobs, quota 1, 2 users, 1 key, 1 worker, 1 sweep, 1 death, fairness (422 k) | `OneJobPerKey`, `OnlyRetriesExceedQuota`, `JobsMove`, `DeletedIsPurged` | repeated requests make one job; only a retry passes the quota; nothing is stuck |
| `team_objects` | 3 objects, 2 writers, sweep, backup, 2 deaths, lost locks or failed deletions, 1 alarm, fairness (741 k) | `OrphansWereAbandoned`, `UninterruptedKeepsObjects`, `BackupsAreComplete`, `PurgedCaseIsEmpty`, `TombstonedFilesGo` | files against rows |
| `team_lost_ack` | 1 object, 1 writer, 1 alarm | `RegisteredObjectsExist` | **violated**, finding 3 |
| `team_audit` | a draft, 2 more requests, 3 users of 3 roles, 2 cases, 1 fault, a backup, fairness (514 k) | `ChainVerifies`, `ChangesAreAudited`, `AnswersAreTrue`, `RequestsAreAnswered` | the chain and the reports through every interleaving of the locks; every request is answered |

Why the bounds suffice. Two processes, one of them interrupted, are enough for
every conflict in the store: a third only waits for the same lock. Four
identifiers let a hold, a retention change and an upload follow one another
around an interrupted transaction; two deaths and an error let a recovery fail
twice. Two licensed calls and a cap of one compete for the last run; two
approvals let the choice between them matter. With two executions allowed a job
fails, is reviewed again and claimed again while the first worker still holds
its answer; three users are a requester, a reviewer and an owner. Three objects
and two writers give a transaction with two objects beside one of another writer.
Three merges of three entities make a cycle, and a merge with two splits is the
race; one review is enough, as a second can only reopen a finding or repeat it.
For an export the writers matter only by what they change between two of its
readings: one collection, whose records name each other, and one chain of records
that name them. The observation and the derivation are left out of the run because
they are hidden by the same rule as the response and the relationship; the theorem is
about all records. `team_audit` begins where a first request, alone,
has left a draft (`MCInit`, the state in which `Init` ends up after that request
without failures): two requests then are two decisions about it, a decision and a read, or two
authors of one version. One fault strikes each of their up to six transactions.
The runs with `CHECK_DEADLOCK FALSE` are those of a system that may stop: all
calls have ended, or the case is purged.

### Fairness

* `CaseStore!FairSpec`: a process that has begun a call goes on with it (weak
  fairness of `Progress`; nothing in a call waits or loops). The lock is an
  `flock` without a queue, so that recovery gets it at all is an assumption about
  the operators: somebody keeps running `recover-case` (strong fairness).
* `TeamJobs!FairSpec`: a supervisor keeps workers running, a timer runs the sweep
  (`docs/TEAM_SERVICE.md`), leases of fifteen minutes end. Nobody has to call the
  API, so nothing is said of jobs that wait for a review.
* `TeamAudit!Fairness`: a thread goes on while it can, and a backup ends or
  gives up. PostgreSQL grants an advisory lock in the order in which it is asked for,
  so a transaction is not kept out by backups that follow one another (strong
  fairness of `Enter`); the case's and the audit lock need only weak fairness, as
  two requests do not overtake a third for ever.
* `TeamObjects!FairSpec`: a transaction ends (statement and lock timeouts) and
  its client goes on; PostgreSQL grants locks in turn, so the sweep's purge is
  strongly fair.

## 5. Proofs

`CaseStoreProofs`, for any set of processes and any bounds:

* `WritersTakeTurns` (`OneWriter`). The inductive invariant is `Turns`: somebody is
  past `case_lock` exactly if he owns the lock (`LockInv`); who has built a journal
  still finds none pending; who applies one has the only one (`TurnInv`).
  `OneWriter` alone is not inductive: it does not say that the process about to
  write a journal has seen none, nor that nobody could have added one since.
* `TypesHold` (`TypeOK`). `TypeOK` says which lines a file may hold, torn or whole,
  and is inductive with the lemmas about the operations a journal can list
  (`OpsTyped`) and what each leaves in its file.
* `RetentionFrozen` (`HeldRetentionFrozen`). Every transaction, pending or local,
  keeps the date if it was built from a record under hold (`WellMade`), and
  the operation that replaces `case.json` refuses a record that is neither the
  transaction's before nor its after; so a replay by whoever changes no date either.

The other five rest on `StoreInvariant` (module `CaseStoreInvariant`), which says what
the files are at *every* moment, not only when all is well:

* they are an intact case (`Intact`: chain, history of the case record, rows, payloads,
  holds), the *base*, when no journal is pending; and while one is, there is a base it
  was built on (`BuiltOn`) such that every file is the base's and the first lines of the
  transaction, perhaps with a part of the next one (`Partial`). The base is quantified,
  not stored: the program keeps it nowhere;
* the operations before the next one of whoever applies the journal are done (`Done`,
  `ApplyInv`), so when the last is done nothing of the transaction is missing;
* an identifier has one owner, and no entry of a base has that of a transaction still
  to be journaled (`IdInv`, `Base`): what is appended was never there before;
* the payload of an upload is staged until it is installed, and no other stays staged
  (`PayloadInv`, `StagedInv`, `CleanInv`).

A step keeps it in one of four ways: an operation applied, again or in part, keeps
`Partial` (`ApplyMoves`, `TornKeeps`); a journal appears, built on files that are intact
(`BuildsOn`, `FreshPartial`); it goes when it is complete, and a complete transaction on
an intact base leaves an intact case (`CompleteIntact`); all other steps leave the files
alone. `SettledCaseVerifies` alone is not inductive: it says nothing while a journal is
pending, so nothing of the files when it goes.

* `SettledFilesAgree` (`SettledCaseVerifies`): an intact case is one `verify_case` accepts
  (`IntactAgrees`).
* `NoStrayUploads` (`UploadsCleanUp`), from `CleanInv`: what is staged has an owner, a
  process or a journal, or was abandoned. Only a kill, and an error before the `try` or in the
  `except` clause, abandon it.
* `TornHoldsOnly` (`OnlyTornHoldsBlock`): the replay of a journal is unrolled into its at
  most four operations. From any `Partial` files each of them is possible
  (`ApplyPossible`) and the last completes the transaction (`ReplayCompletes`), unless
  the files are stuck as finding 1 describes; then the append of the first entry fails
  (`ReplayFails`).
* `RecoverableWithoutHolds` (`PendingIsRecoverable`), from the same. Its hypothesis
  `"hold" \notin Wanted` is needed: with holds TLC refutes the property (`hold_recovery`).
* `StoreImplementsLog` (`ImplementsLog`): while a transaction is pending `Promised` is the
  base's ledger followed by the transaction's entries (`PromisedPending`), so it changes
  exactly when a journal appears, and by what `CaseLog!Decide` adds (`JournalDecides`). That
  the identifiers stay below `LastId` is `CountInv`: a fault pays for the note of the
  recovery it makes necessary.

`TeamObjectsProofs` proves each safety property of `TeamObjects` from one
inductive invariant `IInv`: types and lock ownership; what a writer holds is not
registered while it writes (`WritersInv`); the sweep's list covers the files left
(`PurgeInv`); while files are copied the dump is still what the database says
(`BackupInv`); and, as long as no exception follows a commit, no writer holds an
object that is committed or another's (`HeldInv`). The last is false after such an exception,
which is exactly finding 3, so `LiveRowsReadable` is stated under `alarms = 0`.
`NoOrphans` is stated object by object: a file has a row, or a transaction that will take
it away, or is among the `abandoned`; what is abandoned excuses no other file.

`DecisionsProofs` proves every property of `decisions` for any number of analysts,
entities, decisions and reviews. The inductive invariant adds to them what an analyst knows who has
looked but not yet written: the merge to be split is still there, and no split up
to the row last read reverses it (`DecidedInv`); and that every review, written or
not, names only entities that exist (`JudgedInv`). From the latter it follows
that no review can match a finding that a new entity has made or changed.

`GroupsAreComponents` is about an algorithm rather than a step: for every file of
decisions, `active_resolution_groups` and a walk over the merges that stand
(`Joined`) give the same sets.

* `Finds` is the loop's invariant: the parents after `n` decisions form a forest
  (`Forests`: no cycle, and a root for every entity, so that following the parents
  ends, `RootIs`); the two entities of a merge so far share their root; and
  entities share a root only if every set that those merges do not leave
  (`Closed`) has both or neither. A merge links one root to another
  (`LinkForest`), which keeps all three (`FindsNext`).
* `JoinedLeast`: the walk ends with the least closed set around its entity. It ends
  in time because a step that adds nothing is the last that could, and no more steps
  can add an entity than there are entities (`ReachesAll`).
* Hence `GroupsAreJoined`: what shares a root is closed, so the walk stays in it, and
  no closed set, the walk's neither, separates it.

`PagesAreSound` needs `PagesInv` besides: a page was made of entities that are still
there and of decisions that are still the first ones of the file (`StillRendered`).
With fewer entities less is joined (`JoinedInside`).

`ProviderGateProofs` proves all properties of `provider_gate`, for any number of
calls, approvals, clerks and faults. `IInv` is `TypeOK` and:

* `CallsInv`: how far a call has come and what it has filed by then;
* `JournalInv`: what waits in a journal is as good as when it was decided. This is
  the heart of it: a pending reservation counts against a cap that others may use, rests on an
  approval that somebody may want to revoke, and is for a case that somebody may
  want to close; none of them can happen before it is replayed, because each
  needs the journal empty;
* `CapInv`: an approval's calls are finitely many and within its cap;
* `OutcomesInv`: without an interruption a call has no outcome before its end.

`TeamJobsProofs` first shows that every action moves each job's row in one of eight
ways (`Move`: kept, requested, reviewed, stopped, retried, claimed, executed,
published) and says once what each allows; the action properties then follow from
the moves and `IInv`: types, `QueueInv` (a worker that is claiming has candidates
left), `RowInv` (an approved row's last event is its approval, a running one carries
the token of its latest claim), `OneJobPerKey` and `DeletedCaseIsQuiet`.
`StaleWorkersCannotPublish` needs `RowInv`: that the lease a worker holds is
the latest is not in its guard, which compares it with the row's.

`CaseExportsProofs` proves the three properties of `case_exports` for every set of
records. `CaseInv` says where the record of a transaction under way may be;
`SeenInv`, that what an export has read is still there; `BundleInv`, that a file
which did not change between its two readings is what it was at the instant between
all first and all second readings; `RedactionInv`, that a completed run which was there at the
start, and every run and approval that an export has read, is among those read at the end.

`TeamAuditProofs` proves the three safety properties of `team_audit` over `Spec`, so
from an empty service and not only from the run's initial state. `IInv` is types and
locks (`Locks`: who holds what at each point of a transaction); `Chain`: the events of the
transaction that holds the audit lock continue the committed ones, and nobody else has
any; `TrailsInv`: what a transaction has appended and has yet to append is its whole trail;
`Writes`: the rows a transaction has written are what its case's lock protects;
`Reports` and `AnswersInv`: rows, events and answers that are committed fit together.
Without `Writes`, `ChangesAreAudited` is not inductive: it does not say that a version
computed before the commit is still free.

`SetLemmas` shows that `Max` and `Min` of the community modules are what their names
say. The library's induction theorems take an operator as a parameter, which no
installed prover can instantiate, so the existence of a greatest element is taken from
the well-foundedness of strict subsets instead. With a least element comes induction
over an interval for whatever can be written as a set (`UpTo`), and with that the
existence of functions defined by recursion over one (`RecursionUpTo`).

The assumptions are those named in the modules (`CaseStoreAssumption`,
`ProviderGateAssumption`, `DecisionsAssumption`, `CaseExportsAssumption`, `TeamJobsAssumption`,
`TeamObjectsAssumption`, `TeamAuditAssumption`): names are distinct, bounds are naturals,
and users have roles.

Only model-checked is liveness under fairness, which is out of the prover's reach:
`JournalsComplete`, `JobsMove`, `DeletedIsPurged`, `TombstonedFilesGo` and
`RequestsAreAnswered`.

## 6. Findings

1. **A legal hold can become unrecoverable** (`hold_recovery`). Its transaction
   appends two ledger entries. If the second append is torn, the replay begins
   with the first entry, meets a partial line that is not a beginning of it and
   raises (`transactions.py:125`), each time. `docs/ARCHITECTURE.md:133` promises
   idempotent recovery.
2. **Two revocations of one approval** (`provider_revocation`).
   `revoke_provider_approval` looks for an active approval before it takes the
   lock. Both revocations are recorded, `verify_case` fails from then on, and no
   governance command works again.
   `record_resolution` does the same with splits: `decisions` shows, and
   `OnlyRacesHold` proves, that the race of two splits is the only way in which it
   writes a history that `verify_case` rejects.
3. **A committed object can lose its ciphertext** (`team_lost_ack`).
   `TeamStore.transaction` deletes the new files on any exception, also one that
   is raised after the commit: a lost acknowledgement, or the job's `SIGALRM`.
   `docs/PHASE5_VALIDATION.md:30` promises atomic publication.

What the properties had to except, without contradicting a statement of the
repository as plainly:

* The job quota counts pending, approved and running jobs; a failed job that is
  retried is outstanding again without a look at the quota
  (`OnlyRetriesExceedQuota`).
* If the case is closed while a request is under way, neither its answer nor its
  failure can be recorded (`OutcomesAreTrue`, `closedOn`).
* A redacted export keeps the outputs of analyzers, since an artifact does not name
  what it was derived from, and what names a record that was written after the
  export had read that record's file; for a collection whose run is not yet recorded it keeps
  everything but the approval (`RedactionOmitsLinked`, `docs/ARCHITECTURE.md:127`).
* A collection that fails after it has stored its source, its response or observations
  records a failed run with empty identifiers (`providers.py:1231`), and `exports.py:106-107`
  hides nothing through it: the records stay in every redacted export, however long ago
  they were written. `docs/ARCHITECTURE.md:126-128` and `docs/LICENSED_PROVIDERS.md:101-105`
  promise that they are omitted, without this exception.
* An upload that meets an `OSError` before its `try` (`case.py:699-705`; for bytes, in the
  `fsync` at the end of `write_bytes`), or in the `except` clause, leaves its staged payload, and
  `verify_case` then refuses governance until somebody removes it (`UploadsCleanUp`).
* `TeamStore.transaction` stops its clean-up at the first file that it cannot delete
  (`team_store.py:206-207`): the files after it have neither row nor owner, although nobody
  was killed. `verify_storage` reports them, so `backup` refuses until they are removed; the
  comment at `team_store.py:205` speaks of process death only (`OrphansWereAbandoned`).
* A bundle that is made in the middle of a transaction is accepted by
  `verify_bundle` although the case in it does not verify, and one made while
  OCRmyPDF works contains its unfinished business (`AcceptedBundlesVerify`).
* The API may answer 503 although the change was committed; only jobs have
  idempotency keys, so a client that repeats another request makes a second
  record (`AnswersAreTrue`).

## 7. Not modelled

* Cryptography (encryption, signing; hashes are what they hash), parsing of
  provider answers and media, rendering (PDF, Markdown, HTML), conversions (IOC, STIX,
  CSV, GraphML), argument parsing, JSON Schema validation and static catalogues: they
  have no state of their own beyond one call of a modelled component. This is
  most of `providers.py`, `cli.py` and `pdf_reports.py`.
* HTTP retries of one request (a loop without shared state), provider probes, the
  policy profile, tokens and size limits of the API.
* `upgrade_case`, and `create_case`'s first transaction, which is made without the
  lock in a directory nobody has heard of yet.
* `restore_drill`'s own database and directory, migrations and grants of the team
  schema, archive formats.
* References between records, which `verify_case` also checks: each command looks
  the records up that it names, and none is ever removed.
