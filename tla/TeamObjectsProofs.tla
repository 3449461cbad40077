------------------------- MODULE TeamObjectsProofs -------------------------
(***************************************************************************)
(* Proofs about the team's objects, for any number of objects, writers,    *)
(* failures and alarms.                                                    *)
(***************************************************************************)
EXTENDS TeamObjectsProps, TLAPS

InTx == {"writing", "noting"}

\* A file that is written and not noted exists at one point only, an idle
\* writer holds nothing, and no transaction stores objects in a deleted case.
WritersInv ==
    \A w \in Writers :
        /\ writer[w].pc # "noting" => writer[w].fresh = {}
        /\ writer[w].pc = "idle" => writer[w].made = {}
        /\ writer[w].pc \in InTx => stage = "live"

\* The sweep purges deleted cases only, and what it has still to delete
\* includes every registered file that is left.
PurgeInv ==
    /\ purge.pc # "idle" => stage # "live"
    /\ stage # "live" => Live = {}
    /\ purge.pc = "deleting" => files \intersect Registered \subseteq purge.todo
    /\ PurgedCaseIsEmpty

\* The list that is copied is the dump: nothing changed between the two if the
\* connection still had the lock when the list was read.
BackupInv ==
    /\ backup.pc \in {"verifying", "dumping", "listing"} => backup.copied = {}
    /\ backup.pc = "listing" /\ lock = Backup => backup.dumped = Live
    /\ backup.pc = "copying" =>
          backup.dumped = backup.listed /\ backup.copied \subseteq backup.listed
    /\ BackupsAreComplete

\* Without alarms nobody holds a committed object or another's, and the files
\* of a transaction exist until it ends.
HeldInv ==
    /\ \A w \in Writers : (writer[w].made \union writer[w].fresh) \intersect Registered = {}
    /\ \A v, w \in Writers :
          v # w => (writer[v].made \union writer[v].fresh)
                      \intersect (writer[w].made \union writer[w].fresh) = {}
    /\ \A w \in Writers :
          writer[w].pc \in InTx => writer[w].made \union writer[w].fresh \subseteq files
    /\ RegisteredObjectsExist

IInv == TypeOK /\ WritersInv /\ PurgeInv /\ BackupInv /\ OrphansWereAbandoned
        /\ (alarms = 0 => HeldInv)

\* Every action keeps the types, and the lock with whoever is in a transaction.
LEMMA TypingStep ==
    TypeOK /\ [Next]_vars => TypeOK'
<1> SUFFICES ASSUME TypeOK, [Next]_vars
               PROVE  TypeOK'
    OBVIOUS
<1> USE TeamObjectsAssumption DEF TypeOK, faults, Processes, RowStates, WriterStates, PurgeStates, BackupStates, Live, Registered, Unused, Held
<1>1. ASSUME NEW w \in Writers, BeginStore(w) PROVE TypeOK'
    BY <1>1 DEF BeginStore, Take
<1>2. ASSUME NEW w \in Writers, WriteObject(w) PROVE TypeOK'
    BY <1>2 DEF WriteObject
<1>3. ASSUME NEW w \in Writers, NoteObject(w) PROVE TypeOK'
    BY <1>3 DEF NoteObject
<1>4. ASSUME NEW w \in Writers, Commit(w) PROVE TypeOK'
    BY <1>4 DEF Commit, Committed, IdleWriter
<1>5. ASSUME NEW w \in Writers, AlarmAfterCommit(w) PROVE TypeOK'
    BY <1>5 DEF AlarmAfterCommit, Committed
<1>6. ASSUME NEW w \in Writers, AlarmBeforeNote(w) PROVE TypeOK'
    BY <1>6 DEF AlarmBeforeNote
<1>7. ASSUME NEW w \in Writers, Rollback(w) PROVE TypeOK'
    BY <1>7 DEF Rollback
<1>8. ASSUME NEW w \in Writers, CleanUp(w) PROVE TypeOK'
    BY <1>8 DEF CleanUp, IdleWriter
<1>8a. ASSUME NEW w \in Writers, CleanUpFails(w) PROVE TypeOK'
    BY <1>8a DEF CleanUpFails, IdleWriter
<1>8b. ASSUME NEW w \in Writers, TakeAwayFails(w) PROVE TypeOK'
    BY <1>8b DEF TakeAwayFails
<1>9. ASSUME NEW w \in Writers, WriterDies(w) PROVE TypeOK'
    BY <1>9 DEF WriterDies, Released, IdleWriter
<1>10. CASE Tombstone
    BY <1>10 DEF Tombstone
<1>11. CASE SelectAgain
    BY <1>11 DEF SelectAgain
<1>12. CASE BeginPurge
    BY <1>12 DEF BeginPurge, Take
<1>13. CASE DeleteFile
    BY <1>13 DEF DeleteFile
<1>14. CASE EndPurge
    BY <1>14 DEF EndPurge, IdlePurge
<1>15. CASE SweepDies
    BY <1>15 DEF SweepDies, Released, IdlePurge
<1>16. CASE BeginBackup
    BY <1>16 DEF BeginBackup, Take, IdleBackup
<1>17. CASE VerifyStorage
    BY <1>17 DEF VerifyStorage, Abort, Released, IdleBackup
<1>18. CASE Dump
    BY <1>18 DEF Dump
<1>19. CASE CopyFile
    BY <1>19 DEF CopyFile, Abort, Released, IdleBackup
<1>20. CASE EndBackup
    BY <1>20 DEF EndBackup, Released
<1>21. CASE BackupDies
    BY <1>21 DEF BackupDies, Released, IdleBackup
<1>22. CASE ListObjects
  <2>1. CASE lock = Backup
    <3>1. backup' = [backup EXCEPT !.pc = "copying", !.listed = Live]
      BY <1>22, <2>1 DEF ListObjects
    <3>2. Live \in SUBSET Objects
      OBVIOUS
    <3> HIDE DEF Live
    <3>3. backup' \in BackupStates /\ backup'.pc = "copying"
      BY <3>1, <3>2
    <3> QED
      BY <1>22, <2>1, <3>3 DEF ListObjects
  <2>2. CASE lock # Backup
    BY <1>22, <2>2 DEF ListObjects, Abort, Released, IdleBackup
  <2> QED
    BY <2>1, <2>2
<1>23. CASE LoseMaintenance
    BY <1>23 DEF LoseMaintenance
<1>24. CASE UNCHANGED vars
    BY <1>24 DEF vars
<1> QED
    BY <1>1, <1>2, <1>3, <1>4, <1>5, <1>6, <1>7, <1>8, <1>8a, <1>8b, <1>9, <1>10, <1>11, <1>12, <1>13, <1>14, <1>15, <1>16, <1>17, <1>18, <1>19, <1>20, <1>21, <1>22, <1>23, <1>24
       DEF Next, WriterStep, SweepStep, BackupStep

\* Every action keeps the writers in order.
LEMMA WritersStep ==
    TypeOK /\ WritersInv /\ [Next]_vars => WritersInv'
<1> SUFFICES ASSUME TypeOK /\ WritersInv, [Next]_vars
               PROVE  WritersInv'
    OBVIOUS
<1> USE TeamObjectsAssumption DEF TypeOK, faults, Processes, RowStates, WriterStates, PurgeStates, BackupStates, WritersInv, InTx
<1>1. ASSUME NEW w \in Writers, BeginStore(w) PROVE WritersInv'
    BY <1>1 DEF BeginStore, Take
<1>2. ASSUME NEW w \in Writers, WriteObject(w) PROVE WritersInv'
    BY <1>2 DEF WriteObject
<1>3. ASSUME NEW w \in Writers, NoteObject(w) PROVE WritersInv'
    BY <1>3 DEF NoteObject
<1>4. ASSUME NEW w \in Writers, Commit(w) PROVE WritersInv'
    BY <1>4 DEF Commit, Committed, IdleWriter
<1>5. ASSUME NEW w \in Writers, AlarmAfterCommit(w) PROVE WritersInv'
    BY <1>5 DEF AlarmAfterCommit, Committed
<1>6. ASSUME NEW w \in Writers, AlarmBeforeNote(w) PROVE WritersInv'
    BY <1>6 DEF AlarmBeforeNote
<1>7. ASSUME NEW w \in Writers, Rollback(w) PROVE WritersInv'
    BY <1>7 DEF Rollback
<1>8. ASSUME NEW w \in Writers, CleanUp(w) PROVE WritersInv'
    BY <1>8 DEF CleanUp, IdleWriter
<1>8a. ASSUME NEW w \in Writers, CleanUpFails(w) PROVE WritersInv'
    BY <1>8a DEF CleanUpFails, IdleWriter
<1>8b. ASSUME NEW w \in Writers, TakeAwayFails(w) PROVE WritersInv'
    BY <1>8b DEF TakeAwayFails
<1>9. ASSUME NEW w \in Writers, WriterDies(w) PROVE WritersInv'
    BY <1>9 DEF WriterDies, Released, IdleWriter
<1>10. CASE Tombstone
    BY <1>10 DEF Tombstone
<1>11. CASE SelectAgain
    BY <1>11 DEF SelectAgain
<1>12. CASE BeginPurge
    BY <1>12 DEF BeginPurge, Take
<1>13. CASE DeleteFile
    BY <1>13 DEF DeleteFile
<1>14. CASE EndPurge
    BY <1>14 DEF EndPurge, IdlePurge
<1>15. CASE SweepDies
    BY <1>15 DEF SweepDies, Released, IdlePurge
<1>16. CASE BeginBackup
    BY <1>16 DEF BeginBackup, Take, IdleBackup
<1>17. CASE VerifyStorage
    BY <1>17 DEF VerifyStorage, Abort, Released, IdleBackup
<1>18. CASE Dump
    BY <1>18 DEF Dump
<1>19. CASE CopyFile
    BY <1>19 DEF CopyFile, Abort, Released, IdleBackup
<1>20. CASE EndBackup
    BY <1>20 DEF EndBackup, Released
<1>21. CASE BackupDies
    BY <1>21 DEF BackupDies, Released, IdleBackup
<1>22. CASE ListObjects
    BY <1>22 DEF ListObjects, Abort, Released, IdleBackup
<1>23. CASE LoseMaintenance
    BY <1>23 DEF LoseMaintenance
<1>24. CASE UNCHANGED vars
    BY <1>24 DEF vars
<1> QED
    BY <1>1, <1>2, <1>3, <1>4, <1>5, <1>6, <1>7, <1>8, <1>8a, <1>8b, <1>9, <1>10, <1>11, <1>12, <1>13, <1>14, <1>15, <1>16, <1>17, <1>18, <1>19, <1>20, <1>21, <1>22, <1>23, <1>24
       DEF Next, WriterStep, SweepStep, BackupStep

\* Every action keeps the purge complete.
LEMMA PurgeStep ==
    TypeOK /\ WritersInv /\ PurgeInv /\ [Next]_vars => PurgeInv'
<1> SUFFICES ASSUME TypeOK /\ WritersInv /\ PurgeInv, [Next]_vars
               PROVE  PurgeInv'
    OBVIOUS
<1> USE TeamObjectsAssumption DEF TypeOK, faults, Processes, RowStates, WriterStates, PurgeStates, BackupStates, WritersInv, InTx, PurgeInv, PurgedCaseIsEmpty, Live, Registered, Unused, Held
<1>1. ASSUME NEW w \in Writers, BeginStore(w) PROVE PurgeInv'
    BY <1>1 DEF BeginStore, Take
<1>2. ASSUME NEW w \in Writers, WriteObject(w) PROVE PurgeInv'
    BY <1>2 DEF WriteObject
<1>3. ASSUME NEW w \in Writers, NoteObject(w) PROVE PurgeInv'
    BY <1>3 DEF NoteObject
<1>4. ASSUME NEW w \in Writers, Commit(w) PROVE PurgeInv'
    BY <1>4 DEF Commit, Committed, IdleWriter
<1>5. ASSUME NEW w \in Writers, AlarmAfterCommit(w) PROVE PurgeInv'
    BY <1>5 DEF AlarmAfterCommit, Committed
<1>6. ASSUME NEW w \in Writers, AlarmBeforeNote(w) PROVE PurgeInv'
    BY <1>6 DEF AlarmBeforeNote
<1>7. ASSUME NEW w \in Writers, Rollback(w) PROVE PurgeInv'
    BY <1>7 DEF Rollback
<1>8. ASSUME NEW w \in Writers, CleanUp(w) PROVE PurgeInv'
    BY <1>8 DEF CleanUp, IdleWriter
<1>8a. ASSUME NEW w \in Writers, CleanUpFails(w) PROVE PurgeInv'
    BY <1>8a DEF CleanUpFails, IdleWriter
<1>8b. ASSUME NEW w \in Writers, TakeAwayFails(w) PROVE PurgeInv'
    BY <1>8b DEF TakeAwayFails
<1>9. ASSUME NEW w \in Writers, WriterDies(w) PROVE PurgeInv'
    BY <1>9 DEF WriterDies, Released, IdleWriter
<1>10. CASE Tombstone
    BY <1>10 DEF Tombstone
<1>11. CASE SelectAgain
    BY <1>11 DEF SelectAgain
<1>12. CASE BeginPurge
    BY <1>12 DEF BeginPurge, Take
<1>13. CASE DeleteFile
    BY <1>13 DEF DeleteFile
<1>14. CASE EndPurge
    BY <1>14 DEF EndPurge, IdlePurge
<1>15. CASE SweepDies
    BY <1>15 DEF SweepDies, Released, IdlePurge
<1>16. CASE BeginBackup
    BY <1>16 DEF BeginBackup, Take, IdleBackup
<1>17. CASE VerifyStorage
    BY <1>17 DEF VerifyStorage, Abort, Released, IdleBackup
<1>18. CASE Dump
    BY <1>18 DEF Dump
<1>19. CASE CopyFile
    BY <1>19 DEF CopyFile, Abort, Released, IdleBackup
<1>20. CASE EndBackup
    BY <1>20 DEF EndBackup, Released
<1>21. CASE BackupDies
    BY <1>21 DEF BackupDies, Released, IdleBackup
<1>22. CASE ListObjects
    BY <1>22 DEF ListObjects, Abort, Released, IdleBackup
<1>23. CASE LoseMaintenance
    BY <1>23 DEF LoseMaintenance
<1>24. CASE UNCHANGED vars
    BY <1>24 DEF vars
<1> QED
    BY <1>1, <1>2, <1>3, <1>4, <1>5, <1>6, <1>7, <1>8, <1>8a, <1>8b, <1>9, <1>10, <1>11, <1>12, <1>13, <1>14, <1>15, <1>16, <1>17, <1>18, <1>19, <1>20, <1>21, <1>22, <1>23, <1>24
       DEF Next, WriterStep, SweepStep, BackupStep

\* Every action keeps the dump, the list and the copies in step.
LEMMA BackupStepInv ==
    TypeOK /\ BackupInv /\ [Next]_vars => BackupInv'
<1> SUFFICES ASSUME TypeOK /\ BackupInv, [Next]_vars
               PROVE  BackupInv'
    OBVIOUS
<1> USE TeamObjectsAssumption DEF TypeOK, faults, Processes, RowStates, WriterStates, PurgeStates, BackupStates, BackupInv, BackupsAreComplete, Restores, StorageVerifies, Live
<1>1. ASSUME NEW w \in Writers, BeginStore(w) PROVE BackupInv'
    BY <1>1 DEF BeginStore, Take
<1>2. ASSUME NEW w \in Writers, WriteObject(w) PROVE BackupInv'
    BY <1>2 DEF WriteObject
<1>3. ASSUME NEW w \in Writers, NoteObject(w) PROVE BackupInv'
    BY <1>3 DEF NoteObject
<1>4. ASSUME NEW w \in Writers, Commit(w) PROVE BackupInv'
    BY <1>4 DEF Commit, Committed, IdleWriter
<1>5. ASSUME NEW w \in Writers, AlarmAfterCommit(w) PROVE BackupInv'
    BY <1>5 DEF AlarmAfterCommit, Committed
<1>6. ASSUME NEW w \in Writers, AlarmBeforeNote(w) PROVE BackupInv'
    BY <1>6 DEF AlarmBeforeNote
<1>7. ASSUME NEW w \in Writers, Rollback(w) PROVE BackupInv'
    BY <1>7 DEF Rollback
<1>8. ASSUME NEW w \in Writers, CleanUp(w) PROVE BackupInv'
    BY <1>8 DEF CleanUp, IdleWriter
<1>8a. ASSUME NEW w \in Writers, CleanUpFails(w) PROVE BackupInv'
    BY <1>8a DEF CleanUpFails, IdleWriter
<1>8b. ASSUME NEW w \in Writers, TakeAwayFails(w) PROVE BackupInv'
    BY <1>8b DEF TakeAwayFails
<1>9. ASSUME NEW w \in Writers, WriterDies(w) PROVE BackupInv'
    BY <1>9 DEF WriterDies, Released, IdleWriter
<1>10. CASE Tombstone
    BY <1>10 DEF Tombstone
<1>11. CASE SelectAgain
    BY <1>11 DEF SelectAgain
<1>12. CASE BeginPurge
    BY <1>12 DEF BeginPurge, Take
<1>13. CASE DeleteFile
    BY <1>13 DEF DeleteFile
<1>14. CASE EndPurge
    BY <1>14 DEF EndPurge, IdlePurge
<1>15. CASE SweepDies
    BY <1>15 DEF SweepDies, Released, IdlePurge
<1>16. CASE BeginBackup
    BY <1>16 DEF BeginBackup, Take, IdleBackup
<1>17. CASE VerifyStorage
    BY <1>17 DEF VerifyStorage, Abort, Released, IdleBackup
<1>18. CASE Dump
    BY <1>18 DEF Dump
<1>19. CASE CopyFile
    BY <1>19 DEF CopyFile, Abort, Released, IdleBackup
<1>20. CASE EndBackup
    BY <1>20 DEF EndBackup, Released
<1>21. CASE BackupDies
    BY <1>21 DEF BackupDies, Released, IdleBackup
<1>22. CASE ListObjects
  <2>1. CASE lock = Backup
    <3>1. /\ backup' = [backup EXCEPT !.pc = "copying", !.listed = Live]
          /\ backup.pc = "listing"
      BY <1>22, <2>1 DEF ListObjects
    <3>2. backup.copied = {} /\ backup.dumped = Live
      BY <2>1, <3>1
    <3> HIDE DEF Live
    <3>3. /\ backup'.pc = "copying" /\ backup'.listed = Live
          /\ backup'.copied = {} /\ backup'.dumped = Live
      BY <3>1, <3>2
    <3> QED
      BY <3>3
  <2>2. CASE lock # Backup
    BY <1>22, <2>2 DEF ListObjects, Abort, Released, IdleBackup
  <2> QED
    BY <2>1, <2>2
<1>23. CASE LoseMaintenance
    BY <1>23 DEF LoseMaintenance
<1>24. CASE UNCHANGED vars
    BY <1>24 DEF vars
<1> QED
    BY <1>1, <1>2, <1>3, <1>4, <1>5, <1>6, <1>7, <1>8, <1>8a, <1>8b, <1>9, <1>10, <1>11, <1>12, <1>13, <1>14, <1>15, <1>16, <1>17, <1>18, <1>19, <1>20, <1>21, <1>22, <1>23, <1>24
       DEF Next, WriterStep, SweepStep, BackupStep

\* Every action keeps track of the files without a row.
LEMMA OrphansStep ==
    TypeOK /\ WritersInv /\ OrphansWereAbandoned /\ [Next]_vars => OrphansWereAbandoned'
<1> SUFFICES ASSUME TypeOK /\ WritersInv /\ OrphansWereAbandoned, [Next]_vars
               PROVE  OrphansWereAbandoned'
    OBVIOUS
<1> USE TeamObjectsAssumption DEF TypeOK, faults, Processes, RowStates, WriterStates, PurgeStates, BackupStates, WritersInv, InTx, OrphansWereAbandoned, Registered, Held, Unused
<1>1. ASSUME NEW w \in Writers, BeginStore(w) PROVE OrphansWereAbandoned'
    BY <1>1 DEF BeginStore, Take
<1>2. ASSUME NEW w \in Writers, WriteObject(w) PROVE OrphansWereAbandoned'
    BY <1>2 DEF WriteObject
<1>3. ASSUME NEW w \in Writers, NoteObject(w) PROVE OrphansWereAbandoned'
    BY <1>3 DEF NoteObject
<1>4. ASSUME NEW w \in Writers, Commit(w) PROVE OrphansWereAbandoned'
    BY <1>4 DEF Commit, Committed, IdleWriter
<1>5. ASSUME NEW w \in Writers, AlarmAfterCommit(w) PROVE OrphansWereAbandoned'
    BY <1>5 DEF AlarmAfterCommit, Committed
<1>6. ASSUME NEW w \in Writers, AlarmBeforeNote(w) PROVE OrphansWereAbandoned'
    BY <1>6 DEF AlarmBeforeNote
<1>7. ASSUME NEW w \in Writers, Rollback(w) PROVE OrphansWereAbandoned'
    BY <1>7 DEF Rollback
<1>8. ASSUME NEW w \in Writers, CleanUp(w) PROVE OrphansWereAbandoned'
    BY <1>8 DEF CleanUp, IdleWriter
<1>8a. ASSUME NEW w \in Writers, CleanUpFails(w) PROVE OrphansWereAbandoned'
    BY <1>8a DEF CleanUpFails, IdleWriter
<1>8b. ASSUME NEW w \in Writers, TakeAwayFails(w) PROVE OrphansWereAbandoned'
    BY <1>8b DEF TakeAwayFails
<1>9. ASSUME NEW w \in Writers, WriterDies(w) PROVE OrphansWereAbandoned'
    BY <1>9 DEF WriterDies, Released, IdleWriter
<1>10. CASE Tombstone
    BY <1>10 DEF Tombstone
<1>11. CASE SelectAgain
    BY <1>11 DEF SelectAgain
<1>12. CASE BeginPurge
    BY <1>12 DEF BeginPurge, Take
<1>13. CASE DeleteFile
    BY <1>13 DEF DeleteFile
<1>14. CASE EndPurge
    BY <1>14 DEF EndPurge, IdlePurge
<1>15. CASE SweepDies
    BY <1>15 DEF SweepDies, Released, IdlePurge
<1>16. CASE BeginBackup
    BY <1>16 DEF BeginBackup, Take, IdleBackup
<1>17. CASE VerifyStorage
    BY <1>17 DEF VerifyStorage, Abort, Released, IdleBackup
<1>18. CASE Dump
    BY <1>18 DEF Dump
<1>19. CASE CopyFile
    BY <1>19 DEF CopyFile, Abort, Released, IdleBackup
<1>20. CASE EndBackup
    BY <1>20 DEF EndBackup, Released
<1>21. CASE BackupDies
    BY <1>21 DEF BackupDies, Released, IdleBackup
<1>22. CASE ListObjects
    BY <1>22 DEF ListObjects, Abort, Released, IdleBackup
<1>23. CASE LoseMaintenance
    BY <1>23 DEF LoseMaintenance
<1>24. CASE UNCHANGED vars
    BY <1>24 DEF vars
<1> QED
    BY <1>1, <1>2, <1>3, <1>4, <1>5, <1>6, <1>7, <1>8, <1>8a, <1>8b, <1>9, <1>10, <1>11, <1>12, <1>13, <1>14, <1>15, <1>16, <1>17, <1>18, <1>19, <1>20, <1>21, <1>22, <1>23, <1>24
       DEF Next, WriterStep, SweepStep, BackupStep

\* Every action keeps the holdings apart.
LEMMA HeldStep ==
    TypeOK /\ WritersInv /\ PurgeInv /\ (alarms = 0 => HeldInv) /\ [Next]_vars => (alarms = 0 => HeldInv)'
<1> SUFFICES ASSUME TypeOK /\ WritersInv /\ PurgeInv /\ (alarms = 0 => HeldInv), [Next]_vars
               PROVE  (alarms = 0 => HeldInv)'
    OBVIOUS
<1> USE TeamObjectsAssumption DEF TypeOK, faults, Processes, RowStates, WriterStates, PurgeStates, BackupStates, WritersInv, InTx, PurgeInv, HeldInv, RegisteredObjectsExist, Live, Registered, Held, Unused
<1>1. ASSUME NEW w \in Writers, BeginStore(w) PROVE (alarms = 0 => HeldInv)'
    BY <1>1 DEF BeginStore, Take
<1>2. ASSUME NEW w \in Writers, WriteObject(w) PROVE (alarms = 0 => HeldInv)'
    BY <1>2 DEF WriteObject
<1>3. ASSUME NEW w \in Writers, NoteObject(w) PROVE (alarms = 0 => HeldInv)'
    BY <1>3 DEF NoteObject
<1>4. ASSUME NEW w \in Writers, Commit(w) PROVE (alarms = 0 => HeldInv)'
    BY <1>4 DEF Commit, Committed, IdleWriter
<1>5. ASSUME NEW w \in Writers, AlarmAfterCommit(w) PROVE (alarms = 0 => HeldInv)'
    BY <1>5 DEF AlarmAfterCommit, Committed
<1>6. ASSUME NEW w \in Writers, AlarmBeforeNote(w) PROVE (alarms = 0 => HeldInv)'
    BY <1>6 DEF AlarmBeforeNote
<1>7. ASSUME NEW w \in Writers, Rollback(w) PROVE (alarms = 0 => HeldInv)'
    BY <1>7, SMTT(30) DEF Rollback
<1>8. ASSUME NEW w \in Writers, CleanUp(w) PROVE (alarms = 0 => HeldInv)'
    BY <1>8, SMTT(30) DEF CleanUp, IdleWriter
<1>8a. ASSUME NEW w \in Writers, CleanUpFails(w) PROVE (alarms = 0 => HeldInv)'
    BY <1>8a DEF CleanUpFails, IdleWriter
<1>8b. ASSUME NEW w \in Writers, TakeAwayFails(w) PROVE (alarms = 0 => HeldInv)'
    BY <1>8b DEF TakeAwayFails
<1>9. ASSUME NEW w \in Writers, WriterDies(w) PROVE (alarms = 0 => HeldInv)'
    BY <1>9, SMTT(30) DEF WriterDies, Released, IdleWriter
<1>10. CASE Tombstone
    BY <1>10 DEF Tombstone
<1>11. CASE SelectAgain
    BY <1>11 DEF SelectAgain
<1>12. CASE BeginPurge
    BY <1>12 DEF BeginPurge, Take
<1>13. CASE DeleteFile
    BY <1>13 DEF DeleteFile
<1>14. CASE EndPurge
    BY <1>14 DEF EndPurge, IdlePurge
<1>15. CASE SweepDies
    BY <1>15 DEF SweepDies, Released, IdlePurge
<1>16. CASE BeginBackup
    BY <1>16 DEF BeginBackup, Take, IdleBackup
<1>17. CASE VerifyStorage
    BY <1>17 DEF VerifyStorage, Abort, Released, IdleBackup
<1>18. CASE Dump
    BY <1>18 DEF Dump
<1>19. CASE CopyFile
    BY <1>19 DEF CopyFile, Abort, Released, IdleBackup
<1>20. CASE EndBackup
    BY <1>20 DEF EndBackup, Released
<1>21. CASE BackupDies
    BY <1>21 DEF BackupDies, Released, IdleBackup
<1>22. CASE ListObjects
    BY <1>22 DEF ListObjects, Abort, Released, IdleBackup
<1>23. CASE LoseMaintenance
    BY <1>23 DEF LoseMaintenance
<1>24. CASE UNCHANGED vars
    BY <1>24 DEF vars
<1> QED
    BY <1>1, <1>2, <1>3, <1>4, <1>5, <1>6, <1>7, <1>8, <1>8a, <1>8b, <1>9, <1>10, <1>11, <1>12, <1>13, <1>14, <1>15, <1>16, <1>17, <1>18, <1>19, <1>20, <1>21, <1>22, <1>23, <1>24
       DEF Next, WriterStep, SweepStep, BackupStep

\* The invariant holds initially and is kept by every step.
LEMMA IInvHolds == Spec => []IInv
<1>1. Init => IInv
  <2> SUFFICES ASSUME Init PROVE IInv
    OBVIOUS
  <2> USE TeamObjectsAssumption DEF Init, IdleWriter, IdlePurge, IdleBackup
  <2>1. TypeOK
    BY DEF TypeOK, Processes, RowStates, WriterStates, PurgeStates, BackupStates
  <2>2. WritersInv /\ PurgeInv
    BY DEF WritersInv, InTx, PurgeInv, PurgedCaseIsEmpty
  <2>3. BackupInv /\ OrphansWereAbandoned
    BY DEF BackupInv, BackupsAreComplete, OrphansWereAbandoned
  <2>4. HeldInv
    BY DEF HeldInv, RegisteredObjectsExist, InTx, Live, Registered
  <2> QED
    BY <2>1, <2>2, <2>3, <2>4 DEF IInv
<1>2. IInv /\ [Next]_vars => IInv'
    BY TypingStep, WritersStep, PurgeStep, BackupStepInv, OrphansStep, HeldStep DEF IInv
<1> QED
    BY <1>1, <1>2, PTL DEF Spec

\* Every variable keeps its type, and the lock is with whoever is inside a
\* transaction (transaction, maintenance).
THEOREM TypesHold == Spec => []TypeOK
<1>1. IInv => TypeOK
    BY DEF IInv
<1> QED
    BY IInvHolds, <1>1, PTL

\* A file has a row, or a transaction that will take it away (the exception
\* handler of transaction), unless the process of its transaction was killed, an
\* alarm rang before it was noted, or its deletion failed or was not reached.
THEOREM NoOrphans == Spec => []OrphansWereAbandoned
<1>1. IInv => OrphansWereAbandoned
    BY DEF IInv
<1> QED
    BY IInvHolds, <1>1, PTL

\* An archived backup has exactly the objects that are live in its dump,
\* whatever runs, fails or cleans up beside it (backup, maintenance).
THEOREM BackupsRestore == Spec => []BackupsAreComplete
<1>1. IInv => BackupsAreComplete
    BY DEF IInv, BackupInv
<1> QED
    BY IInvHolds, <1>1, PTL

\* No registered ciphertext outlives the purge of its case (retention_sweep).
THEOREM PurgesAreComplete == Spec => []PurgedCaseIsEmpty
<1>1. IInv => PurgedCaseIsEmpty
    BY DEF IInv, PurgeInv
<1> QED
    BY IInvHolds, <1>1, PTL

\* As long as no alarm interrupts a transaction between its commit and its
\* return, every live row has its ciphertext, also after deaths and rollbacks.
THEOREM LiveRowsReadable == Spec => []UninterruptedKeepsObjects
<1>1. IInv => UninterruptedKeepsObjects
    BY DEF IInv, HeldInv, UninterruptedKeepsObjects
<1> QED
    BY IInvHolds, <1>1, PTL

=============================================================================
