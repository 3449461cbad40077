----------------------------- MODULE TeamObjects -----------------------------
(***************************************************************************)
(* The objects of one team case: rows of team_objects in the database and  *)
(* ciphertext in the file system, which no transaction covers both.        *)
(* Uploads write the file first and take it back when the transaction is   *)
(* rolled back; the retention sweep tombstones the rows first and deletes  *)
(* the files later; a backup copies both.                                  *)
(*                                                                         *)
(* A transaction holds the case's advisory lock and shares the maintenance *)
(* lock; a backup holds the maintenance lock alone.  With one case in view *)
(* these are one lock.  What a client does after its transaction has ended *)
(* is not covered by any lock.                                             *)
(***************************************************************************)
EXTENDS Integers, FiniteSets

CONSTANTS Objects,      \* object identifiers, never used twice
          Writers,      \* API processes and workers
          Sweep,        \* the process of retention_sweep
          Backup,       \* the process of backup
          NoOne,
          MaxPerTx,     \* objects one transaction stores (a job stores two)
          MaxAlarms,    \* bound: exceptions at an awkward moment
          MaxFailures   \* bound: processes killed, connections lost, deletions that fail

Processes == Writers \union {Sweep, Backup}

ASSUME TeamObjectsAssumption ==
    /\ Sweep \notin Writers /\ Backup \notin Writers /\ Sweep # Backup
    /\ NoOne \notin Processes
    /\ MaxPerTx \in Nat \ {0}
    /\ MaxAlarms \in Nat
    /\ MaxFailures \in Nat

VARIABLES rows,      \* team_objects: no row, live, or deleted_at set
          stage,     \* the case: live, tombstoned or purged
          files,     \* the ciphertext files
          lock,      \* the advisory locks
          writer,    \* the local state of each writer
          purge,     \* the local state of the sweep
          backup,    \* the local state of the backup, and its last archive
          failures, alarms,
          abandoned  \* history: objects that nobody will take away any more

faults == <<failures, alarms, abandoned>>
vars == <<rows, stage, files, lock, writer, purge, backup, faults>>

RowStates == {"none", "live", "tombstone"}
Live == {o \in Objects : rows[o] = "live"}
Registered == {o \in Objects : rows[o] # "none"}

\* made is Transaction.created_objects, whose rows are inserted and not
\* committed; fresh is the file written and not yet noted there.
WriterStates == [pc: {"idle", "writing", "noting", "cleaning"},
                 made: SUBSET Objects, fresh: SUBSET Objects]
IdleWriter == [pc |-> "idle", made |-> {}, fresh |-> {}]

\* The sweep deletes the files in todo.
PurgeStates == [pc: {"idle", "selected", "deleting"}, todo: SUBSET Objects]
IdlePurge == [pc |-> "idle", todo |-> {}]

\* dumped are the live rows in database.dump, listed those read for the list of
\* files, copied the objects/ members.
BackupStates == [pc: {"idle", "verifying", "dumping", "listing", "copying", "archived"},
                 dumped: SUBSET Objects, listed: SUBSET Objects, copied: SUBSET Objects]
IdleBackup == [pc |-> "idle", dumped |-> {}, listed |-> {}, copied |-> {}]

Init ==
    /\ rows = [o \in Objects |-> "none"]
    /\ stage = "live"
    /\ files = {}
    /\ lock = NoOne
    /\ writer = [w \in Writers |-> IdleWriter]
    /\ purge = IdlePurge
    /\ backup = IdleBackup
    /\ alarms = 0
    /\ failures = 0
    /\ abandoned = {}

Take(p) == lock = NoOne /\ lock' = p

(***************************************************************************)
(* A transaction that stores objects: put_object, a report, a job's result.*)
(***************************************************************************)
\* Roles, retention and the like are in TeamJobs; a deleted case is refused.
BeginStore(w) ==
    /\ writer[w].pc = "idle"
    /\ stage = "live"
    /\ Take(w)
    /\ writer' = [writer EXCEPT ![w].pc = "writing"]
    /\ UNCHANGED <<rows, stage, files, purge, backup, faults>>

\* The objects of transactions that have not ended, or not ended their cleaning.
Held == {o \in Objects : \E w \in Writers : o \in writer[w].made \union writer[w].fresh}
Unused == Objects \ (files \union Registered \union Held)

\* The file is complete and synced, or write has taken it away again.
WriteObject(w) ==
    /\ writer[w].pc = "writing"
    /\ Cardinality(writer[w].made) < MaxPerTx
    /\ \E o \in Unused :
          /\ files' = files \union {o}
          /\ writer' = [writer EXCEPT ![w].pc = "noting", ![w].fresh = {o}]
    /\ UNCHANGED <<rows, stage, lock, purge, backup, faults>>

NoteObject(w) ==
    /\ writer[w].pc = "noting"
    /\ writer' = [writer EXCEPT ![w] =
                    [pc |-> "writing", made |-> @.made \union @.fresh, fresh |-> {}]]
    /\ UNCHANGED <<rows, stage, files, lock, purge, backup, faults>>

\* Variant: the created files are always deleted, as a finally would do.
Commit_CleansAlways(w) ==
    /\ writer[w].pc = "writing" /\ writer[w].made # {}
    /\ rows' = [o \in Objects |-> IF o \in writer[w].made THEN "live" ELSE rows[o]]
    /\ lock' = NoOne
    /\ writer' = [writer EXCEPT ![w].pc = "cleaning"]
    /\ UNCHANGED <<stage, files, purge, backup, faults>>

Committed(w) ==
    /\ writer[w].pc = "writing" /\ writer[w].made # {}
    /\ rows' = [o \in Objects |-> IF o \in writer[w].made THEN "live" ELSE rows[o]]
    /\ lock' = NoOne
    /\ UNCHANGED <<stage, files, purge, backup, failures, abandoned>>

Commit(w) ==
    /\ Committed(w)
    /\ writer' = [writer EXCEPT ![w] = IdleWriter]
    /\ UNCHANGED alarms

\* A job's alarm may ring anywhere in its transaction; two moments matter.  In
\* the first the commit is done (or the connection breaks before it is
\* acknowledged) and the exception handler runs; in the second the new file is
\* not noted and stays.
AlarmAfterCommit(w) ==
    /\ alarms < MaxAlarms
    /\ Committed(w)
    /\ writer' = [writer EXCEPT ![w].pc = "cleaning"]
    /\ alarms' = alarms + 1

AlarmBeforeNote(w) ==
    /\ alarms < MaxAlarms
    /\ writer[w].pc = "noting"
    /\ writer' = [writer EXCEPT ![w] = [pc |-> "cleaning", made |-> @.made, fresh |-> {}]]
    /\ lock' = NoOne
    /\ alarms' = alarms + 1
    /\ abandoned' = abandoned \union writer[w].fresh
    /\ UNCHANGED <<rows, stage, files, purge, backup, failures>>

\* Variant: nothing is deleted after a rollback.
Rollback_KeepsFiles(w) ==
    /\ writer[w].pc = "writing"
    /\ lock' = NoOne
    /\ writer' = [writer EXCEPT ![w] = IdleWriter]
    /\ UNCHANGED <<rows, stage, files, purge, backup, faults>>

\* A quota, a database error or a lost lease; the locks go with the connection.
Rollback(w) ==
    /\ writer[w].pc = "writing"
    /\ lock' = NoOne
    /\ writer' = [writer EXCEPT ![w].pc = "cleaning"]
    /\ UNCHANGED <<rows, stage, files, purge, backup, faults>>

\* The files are deleted one by one, without a lock.
CleanUp(w) ==
    /\ writer[w].pc = "cleaning"
    /\ IF writer[w].made = {}
       THEN /\ writer' = [writer EXCEPT ![w] = IdleWriter]
            /\ UNCHANGED files
       ELSE \E o \in writer[w].made :
            /\ files' = files \ {o}
            /\ writer' = [writer EXCEPT ![w].made = @ \ {o}]
    /\ UNCHANGED <<rows, stage, lock, purge, backup, faults>>

(***************************************************************************)
(* What takes a file away may fail itself: os.unlink, the fsync after it,  *)
(* or a job's alarm between them.                                          *)
(***************************************************************************)
\* The first failure ends the loop, before or after its own file is deleted;
\* the objects that follow are not tried.
CleanUpFails(w) ==
    /\ failures < MaxFailures
    /\ writer[w].pc = "cleaning"
    /\ \E o \in writer[w].made : files' \in {files, files \ {o}}
    /\ writer' = [writer EXCEPT ![w] = IdleWriter]
    /\ abandoned' = abandoned \union writer[w].made
    /\ failures' = failures + 1
    /\ UNCHANGED <<rows, stage, lock, purge, backup, alarms>>

\* write could not complete its file and cannot take it away either; it was
\* not noted, and the transaction is rolled back without it.
TakeAwayFails(w) ==
    /\ failures < MaxFailures
    /\ writer[w].pc = "writing"
    /\ Cardinality(writer[w].made) < MaxPerTx
    /\ \E o \in Unused :
          /\ files' = files \union {o}
          /\ abandoned' = abandoned \union {o}
    /\ writer' = [writer EXCEPT ![w].pc = "cleaning"]
    /\ lock' = NoOne
    /\ failures' = failures + 1
    /\ UNCHANGED <<rows, stage, purge, backup, alarms>>

(***************************************************************************)
(* retention_sweep.                                                        *)
(***************************************************************************)
\* When the retention has ended (TeamJobs), in one transaction of the database.
Tombstone ==
    /\ purge.pc = "idle" /\ stage = "live"
    /\ lock = NoOne
    /\ stage' = "tombstoned"
    /\ rows' = [o \in Objects |-> IF rows[o] = "live" THEN "tombstone" ELSE rows[o]]
    /\ purge' = [purge EXCEPT !.pc = "selected"]
    /\ UNCHANGED <<files, lock, writer, backup, faults>>

\* Variant: purged_at is tested the wrong way round.
SelectAgain_Purged ==
    /\ purge.pc = "idle" /\ stage = "purged"
    /\ purge' = [purge EXCEPT !.pc = "selected"]
    /\ UNCHANGED <<rows, stage, files, lock, writer, backup, faults>>

\* The next run of a sweep that was interrupted.
SelectAgain ==
    /\ purge.pc = "idle" /\ stage = "tombstoned"
    /\ purge' = [purge EXCEPT !.pc = "selected"]
    /\ UNCHANGED <<rows, stage, files, lock, writer, backup, faults>>

BeginPurge ==
    /\ purge.pc = "selected"
    /\ Take(Sweep)
    /\ purge' = [pc |-> "deleting", todo |-> Registered]
    /\ UNCHANGED <<rows, stage, files, writer, backup, faults>>

DeleteFile ==
    /\ purge.pc = "deleting"
    /\ \E o \in purge.todo :
          /\ files' = files \ {o}
          /\ purge' = [purge EXCEPT !.todo = @ \ {o}]
    /\ UNCHANGED <<rows, stage, lock, writer, backup, faults>>

\* Variant: the case counts as purged before its files are gone.
EndPurge_Early ==
    /\ purge.pc = "deleting"
    /\ stage' = "purged"
    /\ lock' = NoOne
    /\ purge' = IdlePurge
    /\ UNCHANGED <<rows, files, writer, backup, faults>>

EndPurge ==
    /\ purge.pc = "deleting" /\ purge.todo = {}
    /\ stage' = "purged"
    /\ lock' = NoOne
    /\ purge' = IdlePurge
    /\ UNCHANGED <<rows, files, writer, backup, faults>>

(***************************************************************************)
(* backup.                                                                 *)
(***************************************************************************)
BeginBackup ==
    /\ backup.pc \in {"idle", "archived"}
    /\ Take(Backup)
    /\ backup' = [IdleBackup EXCEPT !.pc = "verifying"]
    /\ UNCHANGED <<rows, stage, files, writer, purge, faults>>

Released(p) == IF lock = p THEN NoOne ELSE lock

Abort == backup' = IdleBackup /\ lock' = Released(Backup)

\* verify_storage: every live row has its file, and every file has a row.
StorageVerifies(live, registered, ciphertexts) ==
    live \subseteq ciphertexts /\ ciphertexts \subseteq registered

VerifyStorage ==
    /\ backup.pc = "verifying"
    /\ IF StorageVerifies(Live, Registered, files)
       THEN backup' = [backup EXCEPT !.pc = "dumping"] /\ UNCHANGED lock
       ELSE Abort
    /\ UNCHANGED <<rows, stage, files, writer, purge, faults>>

Dump ==
    /\ backup.pc = "dumping"
    /\ backup' = [backup EXCEPT !.pc = "listing", !.dumped = Live]
    /\ UNCHANGED <<rows, stage, files, lock, writer, purge, faults>>

\* Variant: the rows are read on whatever connection there is.
ListObjects_Reconnects ==
    /\ backup.pc = "listing"
    /\ backup' = [backup EXCEPT !.pc = "copying", !.listed = Live]
    /\ UNCHANGED <<rows, stage, files, lock, writer, purge, faults>>

\* The rows are read again on the connection that has the lock, if it still has.
ListObjects ==
    /\ backup.pc = "listing"
    /\ IF lock = Backup
       THEN /\ backup' = [backup EXCEPT !.pc = "copying", !.listed = Live]
            /\ UNCHANGED lock
       ELSE Abort
    /\ UNCHANGED <<rows, stage, files, writer, purge, faults>>

\* A file that is missing, or a full disk, ends the backup.
CopyFile ==
    /\ backup.pc = "copying"
    /\ \E o \in backup.listed \ backup.copied :
          IF o \in files
          THEN backup' = [backup EXCEPT !.copied = @ \union {o}] /\ UNCHANGED lock
          ELSE Abort
    /\ UNCHANGED <<rows, stage, files, writer, purge, faults>>

\* The archive is there also when the end of a connection that is broken raises.
EndBackup ==
    /\ backup.pc = "copying" /\ backup.listed \subseteq backup.copied
    /\ backup' = [backup EXCEPT !.pc = "archived"]
    /\ lock' = Released(Backup)
    /\ UNCHANGED <<rows, stage, files, writer, purge, faults>>

\* What restore_drill asks of the database and the files it has restored.
Restores == StorageVerifies(backup.dumped, backup.dumped, backup.copied)

\* The connection breaks and its lock goes with it; backup does not notice
\* before it uses the connection again.
LoseMaintenance ==
    /\ failures < MaxFailures
    /\ backup.pc \in {"verifying", "dumping", "listing", "copying"}
    /\ lock = Backup /\ lock' = NoOne
    /\ failures' = failures + 1
    /\ UNCHANGED <<rows, stage, files, writer, purge, backup, alarms, abandoned>>

(***************************************************************************)
(* A process is killed: the database drops its transaction and its locks.  *)
(***************************************************************************)
WriterDies(w) ==
    /\ failures < MaxFailures /\ writer[w].pc # "idle"
    /\ writer' = [writer EXCEPT ![w] = IdleWriter]
    /\ lock' = Released(w)
    /\ failures' = failures + 1
    /\ abandoned' = abandoned \union writer[w].made \union writer[w].fresh
    /\ UNCHANGED <<rows, stage, files, purge, backup, alarms>>

SweepDies ==
    /\ failures < MaxFailures /\ purge.pc # "idle"
    /\ purge' = IdlePurge
    /\ lock' = Released(Sweep)
    /\ failures' = failures + 1
    /\ UNCHANGED <<rows, stage, files, writer, backup, alarms, abandoned>>

BackupDies ==
    /\ failures < MaxFailures /\ backup.pc \notin {"idle", "archived"}
    /\ backup' = IdleBackup
    /\ lock' = Released(Backup)
    /\ failures' = failures + 1
    /\ UNCHANGED <<rows, stage, files, writer, purge, alarms, abandoned>>

WriterStep(w) ==
    \/ BeginStore(w) \/ WriteObject(w) \/ NoteObject(w) \/ Commit(w)
    \/ AlarmAfterCommit(w) \/ AlarmBeforeNote(w) \/ Rollback(w) \/ CleanUp(w)
    \/ CleanUpFails(w) \/ TakeAwayFails(w)
SweepStep == Tombstone \/ SelectAgain \/ BeginPurge \/ DeleteFile \/ EndPurge
BackupStep ==
    BeginBackup \/ VerifyStorage \/ Dump \/ ListObjects \/ CopyFile \/ EndBackup

Next ==
    \/ \E w \in Writers : WriterStep(w) \/ WriterDies(w)
    \/ SweepStep \/ SweepDies
    \/ BackupStep \/ LoseMaintenance \/ BackupDies

Spec == Init /\ [][Next]_vars

\* A transaction ends (it has a statement and a lock timeout) and its client
\* goes on; the timer runs the sweep again.  The locks of the database are
\* granted in turn: who keeps asking for one is not passed over for ever.
FairSpec ==
    /\ Spec
    /\ \A w \in Writers : WF_vars(NoteObject(w) \/ Commit(w) \/ Rollback(w) \/ CleanUp(w))
    /\ WF_vars(SelectAgain \/ DeleteFile \/ EndPurge)
    /\ SF_vars(BeginPurge)
    /\ WF_vars(VerifyStorage \/ Dump \/ ListObjects \/ CopyFile \/ EndBackup)

=============================================================================
