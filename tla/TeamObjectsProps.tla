-------------------------- MODULE TeamObjectsProps --------------------------
(***************************************************************************)
(* What is asked of the team's objects.                                    *)
(***************************************************************************)
EXTENDS TeamObjects

\* Every variable has its type, and whoever is inside a transaction holds its
\* lock.
TypeOK ==
    /\ rows \in [Objects -> RowStates]
    /\ stage \in {"live", "tombstoned", "purged"}
    /\ files \subseteq Objects
    /\ lock \in Processes \union {NoOne}
    /\ writer \in [Writers -> WriterStates]
    /\ purge \in PurgeStates
    /\ backup \in BackupStates
    /\ failures \in Nat /\ alarms \in Nat
    /\ abandoned \subseteq Objects
    /\ \A w \in Writers : writer[w].pc \in {"writing", "noting"} => lock = w
    /\ purge.pc = "deleting" => lock = Sweep
    /\ backup.pc \in {"idle", "archived"} => lock # Backup

\* "Atomic database publication and rollback cleanup of newly encrypted
\* objects" (docs/PHASE5_VALIDATION.md): a row that readers can see has its
\* ciphertext.
RegisteredObjectsExist == Live \subseteq files

\* The same of a program that is not interrupted between a commit and the end
\* of TeamStore.transaction: then neither rollbacks nor sweeps nor deaths take
\* a file that a visible row needs.
UninterruptedKeepsObjects == alarms = 0 => RegisteredObjectsExist

\* The other half.  "Process death can still leave an orphan" (team_store.py),
\* and so can an alarm before a file is noted, and a deletion that fails, which
\* the comment does not name.  Nothing else does: a file has a row, belongs to
\* a transaction that has not ended its cleaning, or is one of those objects.
OrphansWereAbandoned == files \subseteq Registered \union Held \union abandoned

\* A backup that was archived can be restored: every object live in its dump
\* is in it, and it has no other, even if the maintenance lock was lost while it
\* was made (team_ops.py:144).
BackupsAreComplete == backup.pc = "archived" => Restores

\* A purged case has no registered ciphertext left, whatever interrupted the
\* sweep, and no late upload brings any back.
PurgedCaseIsEmpty == stage = "purged" => files \intersect Registered = {}

\* "An interrupted purge resumes next run" (docs/TEAM_SERVICE.md): the files of
\* a tombstoned case are deleted in the end.
TombstonedFilesGo == stage = "tombstoned" ~> files \intersect Registered = {}

=============================================================================
