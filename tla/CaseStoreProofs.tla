-------------------------- MODULE CaseStoreProofs --------------------------
(***************************************************************************)
(* Theorems about the case store, for every set of processes and all       *)
(* bounds.                                                                 *)
(***************************************************************************)
EXTENDS CaseStoreInvariant, FiniteSetTheorems, SequenceTheorems, TLAPS

(***************************************************************************)
(* Writers take turns.  The lock belongs to whoever is past case_lock; a   *)
(* transaction that has passed the check for pending journals still finds  *)
(* none when it writes its own; the journal being applied is the only one. *)
(***************************************************************************)
\* recover_case wants one pending journal, and then there is one.
LEMMA NotEmpty ==
  ASSUME NEW S, Cardinality(S) = 1
  PROVE  S # {}
<1>1. Cardinality({}) = 0
  BY FS_EmptySet
<1> QED
  BY <1>1

LEMMA TurnsInit == Init => Turns
  BY CaseStoreAssumption DEF Init, Turns, LockInv, TurnInv, InLock, Places

LEMMA TurnsNext == Turns /\ [Next]_vars => Turns'
<1> USE CaseStoreAssumption DEF Turns, LockInv, TurnInv, InLock, Places, faults
<1> SUFFICES ASSUME Turns, [Next]_vars PROVE Turns'
  OBVIOUS
<1>1. CASE UNCHANGED vars
  BY <1>1 DEF vars
<1>2. ASSUME NEW p \in Procs, StagePayload(p) PROVE Turns'
  BY <1>2 DEF StagePayload
<1>3. ASSUME NEW p \in Procs, NEW kind \in Kinds, TakeLock(p, kind)
      PROVE Turns'
  BY <1>3 DEF TakeLock
<1>4. ASSUME NEW p \in Procs, StartRecovery(p) PROVE Turns'
  <2>1. journals # {}
    BY <1>4, NotEmpty DEF StartRecovery
  <2>2. PICK t : t \in journals
    BY <2>1
  <2>3. journals = {t}
    BY <2>2
  <2>4. txn'[p] = t
    BY <1>4, <2>3 DEF StartRecovery
  <2> QED
    BY <1>4, <2>3, <2>4 DEF StartRecovery
<1>5. ASSUME NEW p \in Procs, Build(p) PROVE Turns'
  BY <1>5 DEF Build, Accepted
<1>6. ASSUME NEW p \in Procs, Refuse(p) PROVE Turns'
  BY <1>6 DEF Refuse, Raise, Forget
<1>7. ASSUME NEW p \in Procs, WriteJournal(p) PROVE Turns'
  BY <1>7 DEF WriteJournal
<1>8. ASSUME NEW p \in Procs, Apply(p) PROVE Turns'
  BY <1>8 DEF Apply
<1>9. ASSUME NEW p \in Procs, ApplyRefused(p) PROVE Turns'
  BY <1>9 DEF ApplyRefused, Applying, Raise, Forget
<1>10. ASSUME NEW p \in Procs, Finish(p) PROVE Turns'
  BY <1>10 DEF Finish, Forget
<1>11. ASSUME NEW p \in Procs, FinishReplay(p) PROVE Turns'
  BY <1>11 DEF FinishReplay
<1>12. ASSUME NEW p \in Procs, DropPayload(p) PROVE Turns'
  BY <1>12 DEF DropPayload, Forget
<1>13. ASSUME NEW p \in Procs, Crash(p) PROVE Turns'
  BY <1>13 DEF Crash, Forget
<1>14. ASSUME NEW p \in Procs, IOError(p) PROVE Turns'
  BY <1>14 DEF IOError, Raise, Forget
<1>15. ASSUME NEW p \in Procs, RecoverNothing(p) PROVE Turns'
  BY <1>15 DEF RecoverNothing, vars
<1>16. ASSUME NEW p \in Procs, UnhandledError(p) PROVE Turns'
  BY <1>16 DEF UnhandledError, Forget
<1>17. ASSUME NEW p \in Procs, LockError(p) PROVE Turns'
  BY <1>17 DEF LockError
<1> QED
  BY <1>1, <1>2, <1>3, <1>4, <1>5, <1>6, <1>7, <1>8, <1>9, <1>10, <1>11,
     <1>12, <1>13, <1>14, <1>15, <1>16, <1>17 DEF Next, Progress

LEMMA TurnsAlways == Spec => []Turns
  BY TurnsInit, TurnsNext, PTL DEF Spec

\* The lock of case_lock makes every step from the pending-journal check to
\* the removal of the journal exclusive, so .transactions never holds two
\* journals: recover_pending_transactions has one to replay at most.
THEOREM WritersTakeTurns == Spec => []OneWriter
<1>1. Turns => OneWriter
  <2> SUFFICES ASSUME Turns PROVE Cardinality(journals) <= 1
    BY DEF Turns, LockInv, OneWriter
  <2>1. CASE journals = {}
    BY <2>1, FS_EmptySet
  <2>2. CASE journals # {}
    <3>1. PICK t : t \in journals
      BY <2>2
    <3>2. journals = {t}
      BY <3>1 DEF Turns, TurnInv
    <3> QED
      BY <3>2, FS_Singleton
  <2> QED
    BY <2>1, <2>2
<1> QED
  BY <1>1, TurnsAlways, PTL

(***************************************************************************)
(* Types.  Every operation of a journal puts lines of the file's own kind  *)
(* into it, torn or whole.                                                 *)
(***************************************************************************)
LEMMA FirstDocTyped == FirstDoc \in CaseDocs /\ NoTxn \in Txns
  BY DEF FirstDoc, CaseDocs, Statuses, NoTxn, Txns, Kinds, EntryIds, NoEntry

LEMMA ChangedTyped ==
  ASSUME NEW doc \in CaseDocs, NEW kind, NEW id \in Nat
  PROVE  Changed(doc, kind, id) \in CaseDocs
<1>1. \E s \in Statuses : s # doc.status
  BY DEF Statuses
<1>2. (CHOOSE s \in Statuses : s # doc.status) \in Statuses
  BY <1>1
<1> QED
  BY <1>2 DEF Changed, WithStatus, WithRetention, WithHold, CaseDocs

LEMMA EntriesTyped ==
  ASSUME NEW t \in Txns
  PROVE  EntriesOf(t) \in Seq(Entries)
<1> DEFINE entry(act, prev) == EntryOf(t, act, prev)
<1>1. ASSUME NEW act \in Actions, NEW prev \in EntryIds
      PROVE  entry(act, prev) \in Entries /\ EntryId(entry(act, prev)) \in EntryIds
  BY DEF EntryOf, Entries, Txns, EntryId, EntryIds
<1>2. {"record.added", "artifact.added", "legal-hold.recorded",
       "case.status-changed", "case.retention-changed",
       "case.legal-hold-changed", "noted"} \subseteq Actions
  BY DEF Actions, CaseActions, DataAction, DataFiles
<1>3. t.prev \in EntryIds /\ t.kind \in Kinds
  BY DEF Txns
<1> HIDE DEF entry
<1>4. \/ \E act \in Actions : EntriesOf(t) = <<entry(act, t.prev)>>
      \/ \E act, bct \in Actions :
           EntriesOf(t) = <<entry(act, t.prev),
                            entry(bct, EntryId(entry(act, t.prev)))>>
  BY <1>2, <1>3 DEF EntriesOf, Kinds, entry
<1>5. ASSUME NEW act \in Actions
      PROVE  <<entry(act, t.prev)>> \in Seq(Entries)
  BY <1>1, <1>3
<1>6. ASSUME NEW act \in Actions, NEW bct \in Actions
      PROVE  <<entry(act, t.prev), entry(bct, EntryId(entry(act, t.prev)))>>
               \in Seq(Entries)
  <2>1. /\ entry(act, t.prev) \in Entries
        /\ entry(bct, EntryId(entry(act, t.prev))) \in Entries
    BY <1>1, <1>3
  <2> QED
    BY <2>1
<1> QED
  BY <1>4, <1>5, <1>6

LEMMA OpsTyped ==
  ASSUME NEW t \in Txns
  PROVE  /\ OpsOf(t) \in Seq(Ops)
         /\ \A i \in 1..Len(OpsOf(t)) :
              OpsOf(t)[i].type = "append" =>
                OpsOf(t)[i].rec \in LinesOf(OpsOf(t)[i].file)
<1> DEFINE Good(op) == op \in Ops /\ (op.type = "append" => op.rec \in LinesOf(op.file))
           ledgerOps == [i \in 1..Len(EntriesOf(t)) |->
                            AppendOp("ledger", EntriesOf(t)[i])]
<1>1. t.kind \in Kinds /\ RowOf(t) \in Rows /\ NoRow \in Rows
  BY DEF Txns, RowOf, Rows, NoRow
<1>2. ASSUME NEW f \in DataFiles PROVE Good(AppendOp(f, RowOf(t)))
  BY <1>1 DEF AppendOp, Ops, LinesOf, DataFiles, Files
<1>3. Good(InstallOp) /\ Good(ReplaceOp)
  BY <1>1 DEF InstallOp, ReplaceOp, Ops, Files
<1>4. ASSUME NEW e \in Entries PROVE Good(AppendOp("ledger", e))
  BY DEF AppendOp, Ops, LinesOf, Files
<1> HIDE DEF Good
<1>5. /\ DataOpsOf(t) \in Seq(Ops)
      /\ \A i \in 1..Len(DataOpsOf(t)) : Good(DataOpsOf(t)[i])
  <2> DEFINE S == {op \in Ops : Good(op)}
  <2>1. /\ \A f \in DataFiles : AppendOp(f, RowOf(t)) \in S
        /\ InstallOp \in S /\ ReplaceOp \in S
    BY <1>2, <1>3 DEF Good
  <2> HIDE DEF S
  <2>2. DataOpsOf(t) \in Seq(S)
    BY <2>1, <1>1 DEF DataOpsOf, Kinds, DataFiles
  <2> QED
    BY <2>2 DEF S
<1>6. EntriesOf(t) \in Seq(Entries)
  BY EntriesTyped
<1>7. /\ ledgerOps \in Seq(Ops) /\ Len(ledgerOps) = Len(EntriesOf(t))
      /\ \A i \in 1..Len(ledgerOps) : Good(ledgerOps[i])
  <2>1. \A i \in 1..Len(EntriesOf(t)) : Good(AppendOp("ledger", EntriesOf(t)[i]))
    BY <1>4, <1>6
  <2>2. \A i \in 1..Len(EntriesOf(t)) : AppendOp("ledger", EntriesOf(t)[i]) \in Ops
    BY <2>1 DEF Good
  <2>3. Len(EntriesOf(t)) \in Nat
    BY <1>6
  <2>4. ledgerOps \in Seq(Ops)
    BY <2>2, <2>3, IsASeq
  <2>5. Len(ledgerOps) = Len(EntriesOf(t))
    BY <2>3, <2>4
  <2> QED
    BY <2>1, <2>4, <2>5
<1> HIDE DEF ledgerOps
<1>8. OpsOf(t) = DataOpsOf(t) \o ledgerOps
  BY DEF OpsOf, ledgerOps
<1>9. OpsOf(t) \in Seq(Ops) /\ \A i \in 1..Len(OpsOf(t)) : Good(OpsOf(t)[i])
  BY <1>5, <1>7, <1>8, ConcatProperties
<1> QED
  BY <1>9 DEF Good

LEMMA LinesTyped == \A f \in Files : LinesOf(f) \subseteq Rows \union Entries
  BY DEF LinesOf

LEMMA ReadTyped ==
  ASSUME NEW d, DiskTyped(d), NEW f \in Files
  PROVE  /\ ReadJsonl(d, f) \in Seq(LinesOf(f))
         /\ f = "ledger" => ReadJsonl(d, f) # <<>>
         /\ d.rows[f] \in Seq(LinesOf(f)) /\ d.tail[f] \in Tails
<1>1. /\ d.rows[f] \in Seq(LinesOf(f))
      /\ d.tail[f].cut # "none" => d.tail[f].rec \in LinesOf(f)
      /\ f = "ledger" => d.rows[f] # <<>>
      /\ d.tail[f] \in Tails
  BY DEF DiskTyped, Disks
<1> QED
  BY <1>1, AppendProperties DEF ReadJsonl

LEMMA SetFileTyped ==
  ASSUME NEW d, DiskTyped(d), NEW f \in Files,
         NEW rows \in Seq(LinesOf(f)), f = "ledger" => rows # <<>>,
         NEW tail \in Tails, tail.cut # "none" => tail.rec \in LinesOf(f)
  PROVE  DiskTyped(SetFile(d, f, rows, tail))
<1>1. rows \in Seq(Rows \union Entries)
  BY LinesTyped, SeqMonotonic
<1>2. SetFile(d, f, rows, tail) \in Disks
  BY <1>1 DEF SetFile, DiskTyped, Disks
<1>3. \A g \in Files :
        /\ SetFile(d, f, rows, tail).rows[g] = IF g = f THEN rows ELSE d.rows[g]
        /\ SetFile(d, f, rows, tail).tail[g] = IF g = f THEN tail ELSE d.tail[g]
  BY DEF SetFile, DiskTyped, Disks
<1>4. "ledger" \in Files
  BY DEF Files
<1> QED
  BY <1>2, <1>3, <1>4 DEF DiskTyped

LEMMA NoTailTyped == NoTail \in Tails /\ NoTail.cut = "none"
  BY DEF NoTail, Tails, Cuts, NoRow, Rows

LEMMA AppendTyped ==
  ASSUME NEW d, DiskTyped(d), NEW f \in Files, NEW rec \in LinesOf(f)
  PROVE  DiskTyped(AppendIdempotent(d, f, rec))
<1>1. CASE rec \in Ids(ReadJsonl(d, f))
  BY <1>1, ReadTyped, SetFileTyped, NoTailTyped DEF AppendIdempotent
<1>2. CASE rec \notin Ids(ReadJsonl(d, f)) /\ d.tail[f].cut = "unterminated"
  <2> DEFINE garbled == [d.tail[f] EXCEPT !.cut = "garbled"]
  <2>1. /\ d.tail[f] \in Tails /\ d.tail[f].rec \in LinesOf(f)
        /\ d.rows[f] \in Seq(LinesOf(f)) /\ (f = "ledger" => d.rows[f] # <<>>)
    BY <1>2 DEF DiskTyped, Disks
  <2>2. garbled \in Tails /\ garbled.rec \in LinesOf(f)
    BY <2>1 DEF Tails, Cuts
  <2>3. AppendIdempotent(d, f, rec) = SetFile(d, f, d.rows[f], garbled)
    BY <1>2 DEF AppendIdempotent, SetFile, DiskTyped, Disks
  <2> QED
    BY <2>1, <2>2, <2>3, SetFileTyped
<1>3. CASE rec \notin Ids(ReadJsonl(d, f)) /\ d.tail[f].cut # "unterminated"
  <2>1. Append(d.rows[f], rec) \in Seq(LinesOf(f)) /\ Append(d.rows[f], rec) # <<>>
    BY ReadTyped, AppendProperties
  <2> QED
    BY <1>3, <2>1, SetFileTyped, NoTailTyped DEF AppendIdempotent
<1> QED
  BY <1>1, <1>2, <1>3

LEMMA ApplyTyped ==
  ASSUME NEW d, DiskTyped(d), NEW t \in Txns, NEW i \in 1..Len(OpsOf(t))
  PROVE  DiskTyped(ApplyOperation(d, t, OpsOf(t)[i]))
<1> DEFINE op == OpsOf(t)[i]
<1>1. op \in Ops /\ (op.type = "append" => op.rec \in LinesOf(op.file))
  BY OpsTyped, ElementOfSeq
<1>2. t.id \in Nat /\ t.after \in CaseDocs
  BY DEF Txns
<1>3. CASE op.type = "append"
  BY <1>1, <1>3, AppendTyped DEF ApplyOperation, Ops
<1>4. CASE op.type = "replace"
  BY <1>2, <1>4 DEF ApplyOperation, DiskTyped, Disks
<1>5. CASE op.type = "install"
  BY <1>2, <1>5 DEF ApplyOperation, DiskTyped, Disks
<1> QED
  BY <1>1, <1>3, <1>4, <1>5 DEF Ops

LEMMA TornTyped ==
  ASSUME NEW d, DiskTyped(d), NEW t \in Txns, NEW i \in 1..Len(OpsOf(t)),
         NEW e \in Torn(d, t, OpsOf(t)[i])
  PROVE  DiskTyped(e)
<1> DEFINE op == OpsOf(t)[i]
           tails == {NoTail} \union
                    {[cut |-> c, rec |-> op.rec] : c \in {"short", "long", "unterminated"}}
<1>1. op \in Ops /\ (op.type = "append" => op.rec \in LinesOf(op.file))
  BY OpsTyped, ElementOfSeq
<1>2. CASE e = d
  BY <1>2
<1>3. CASE e # d
  <2>1. /\ op.type = "append"
        /\ \E tail \in tails : e = SetFile(d, op.file, d.rows[op.file], tail)
    BY <1>3 DEF Torn
  <2>2. PICK tail \in tails : e = SetFile(d, op.file, d.rows[op.file], tail)
    BY <2>1
  <2>3. op.file \in Files /\ op.rec \in LinesOf(op.file)
    BY <1>1, <2>1 DEF Ops
  <2>4. tail \in Tails /\ (tail.cut # "none" => tail.rec \in LinesOf(op.file))
    BY <2>3, NoTailTyped, LinesTyped DEF Tails, Cuts
  <2>5. /\ d.rows[op.file] \in Seq(LinesOf(op.file))
        /\ op.file = "ledger" => d.rows[op.file] # <<>>
    BY <2>3 DEF DiskTyped
  <2> QED
    BY <2>2, <2>3, <2>4, <2>5, SetFileTyped
<1> QED
  BY <1>2, <1>3

LEMMA TypeInit == Init => TypeOK
<1> SUFFICES ASSUME Init PROVE TypeOK
  OBVIOUS
<1>1. CreatedEntry \in Entries
  BY FirstDocTyped
     DEF CreatedEntry, Entries, Actions, CaseActions, EntryIds, NoEntry
<1>2. <<CreatedEntry>> \in Seq(LinesOf("ledger"))
  BY <1>1 DEF LinesOf
<1>3. \A f \in DataFiles : <<>> \in Seq(LinesOf(f))
  OBVIOUS
<1>4. FirstDisk \in Disks
  <2>1. <<CreatedEntry>> \in Seq(Rows \union Entries)
    BY <1>1
  <2>2. <<>> \in Seq(Rows \union Entries)
    OBVIOUS
  <2>3. FirstDisk.rows \in [Files -> Seq(Rows \union Entries)]
    BY <2>1, <2>2 DEF FirstDisk
  <2>4. FirstDisk.tail \in [Files -> Tails]
    BY NoTailTyped DEF FirstDisk
  <2>5. /\ FirstDisk = [doc |-> FirstDisk.doc, rows |-> FirstDisk.rows,
                        tail |-> FirstDisk.tail, staged |-> FirstDisk.staged,
                        installed |-> FirstDisk.installed]
        /\ FirstDisk.doc = FirstDoc /\ FirstDisk.staged = {}
        /\ FirstDisk.installed = {}
    BY DEF FirstDisk
  <2> QED
    BY <2>3, <2>4, <2>5, FirstDocTyped DEF Disks
<1>5. DiskTyped(FirstDisk)
  BY <1>2, <1>3, <1>4, NoTailTyped DEF DiskTyped, FirstDisk, Files
<1> QED
  BY <1>5, FirstDocTyped DEF Init, TypeOK, Places, Kinds

\* Build makes a transaction of the right type out of what is on the disk.
LEMMA BuildTyped ==
  ASSUME NEW d, DiskTyped(d), NEW id \in Nat, NEW kind \in Kinds
  PROVE  [id |-> id, kind |-> kind, before |-> d.doc,
          after |-> Changed(d.doc, kind, id),
          prev |-> EntryId(Last(ReadJsonl(d, "ledger")))] \in Txns
<1> DEFINE ledger == ReadJsonl(d, "ledger")
<1>1. ledger \in Seq(Entries) /\ ledger # <<>>
  BY ReadTyped DEF Files, LinesOf
<1>2. Last(ledger) \in Entries
  BY <1>1 DEF Last
<1>3. EntryId(Last(ledger)) \in EntryIds
  BY <1>2 DEF EntryId, EntryIds, Entries
<1>4. d.doc \in CaseDocs
  BY DEF DiskTyped, Disks
<1> QED
  BY <1>3, <1>4, ChangedTyped DEF Txns

LEMMA ForgetTyped ==
  ASSUME TypeOK, NEW p \in Procs, Forget(p)
  PROVE  /\ pc' \in [Procs -> Places] /\ job' \in [Procs -> Kinds]
         /\ txn' \in [Procs -> Txns] /\ at' \in [Procs -> Nat \ {0}]
  BY FirstDocTyped DEF TypeOK, Forget, Places, Kinds

LEMMA LeftBehindTyped ==
  ASSUME TypeOK, NEW p \in Procs
  PROVE  LeftBehind(p) \subseteq Nat
<1>1. txn[p].id \in Nat
  BY DEF TypeOK, Txns
<1> QED
  BY <1>1 DEF LeftBehind

LEMMA RaiseTyped ==
  ASSUME TypeOK, NEW p \in Procs, Raise(p)
  PROVE  /\ lock' = NoProc
         /\ pc' \in [Procs -> Places] /\ job' \in [Procs -> Kinds]
         /\ txn' \in [Procs -> Txns] /\ at' \in [Procs -> Nat \ {0}]
  BY ForgetTyped DEF TypeOK, Raise, Places

LEMMA TearTyped ==
  ASSUME TypeOK, NEW p \in Procs, Tear(p)
  PROVE  DiskTyped(disk')
<1>1. txn[p] \in Txns /\ DiskTyped(disk) /\ at[p] \in Nat \ {0}
  BY DEF TypeOK
<1>2. CASE Applying(p)
  <2>1. at[p] \in 1..Len(OpsOf(txn[p]))
    BY <1>1, <1>2, OpsTyped DEF Applying
  <2>2. disk' \in Torn(disk, txn[p], OpsOf(txn[p])[at[p]])
    BY <1>2 DEF Tear, Op
  <2> QED
    BY <1>1, <2>1, <2>2, TornTyped
<1>3. CASE ~Applying(p)
  BY <1>1, <1>3 DEF Tear
<1> QED
  BY <1>2, <1>3

LEMMA TypeNext == TypeOK /\ [Next]_vars => TypeOK'
<1> USE DEF faults
<1> SUFFICES ASSUME TypeOK, [Next]_vars PROVE TypeOK'
  OBVIOUS
<1>1. CASE UNCHANGED vars
  BY <1>1 DEF vars, TypeOK
<1>2. ASSUME NEW p \in Procs, StagePayload(p) PROVE TypeOK'
  <2>1. DiskTyped(disk')
    BY <1>2 DEF StagePayload, TypeOK, DiskTyped, Disks
  <2>2. [NoTxn EXCEPT !.id = nextId, !.kind = "artifact"] \in Txns
    BY FirstDocTyped DEF TypeOK, Txns, Kinds
  <2> QED
    BY <1>2, <2>1, <2>2 DEF StagePayload, TypeOK, Places, Kinds
<1>3. ASSUME NEW p \in Procs, NEW kind \in Kinds, TakeLock(p, kind)
      PROVE TypeOK'
  BY <1>3 DEF TakeLock, TypeOK, Places, InLock
<1>4. ASSUME NEW p \in Procs, StartRecovery(p) PROVE TypeOK'
  <2>1. journals # {}
    BY <1>4, NotEmpty DEF StartRecovery
  <2>2. (CHOOSE t \in journals : TRUE) \in Txns
    BY <2>1 DEF TypeOK
  <2> QED
    BY <1>4, <2>2 DEF StartRecovery, TypeOK, Places, InLock, Kinds
<1>5. ASSUME NEW p \in Procs, Build(p) PROVE TypeOK'
  <2> DEFINE id == IF job[p] = "artifact" THEN txn[p].id ELSE nextId
  <2>1. id \in Nat /\ job[p] \in Kinds /\ DiskTyped(disk)
    BY DEF TypeOK, Txns
  <2> HIDE DEF id
  <2>2. [id |-> id, kind |-> job[p], before |-> disk.doc,
         after |-> Changed(disk.doc, job[p], id),
         prev |-> EntryId(Last(ReadJsonl(disk, "ledger")))] \in Txns
    BY <2>1, BuildTyped
  <2>3. txn' \in [Procs -> Txns]
    BY <1>5, <2>2 DEF Build, TypeOK, id
  <2>4. nextId' \in Nat \ {0}
    BY <1>5 DEF Build, TypeOK
  <2> QED
    BY <1>5, <2>3, <2>4 DEF Build, TypeOK, Places, InLock
<1>6. ASSUME NEW p \in Procs, Refuse(p) PROVE TypeOK'
  BY <1>6, RaiseTyped DEF Refuse, TypeOK
<1>7. ASSUME NEW p \in Procs, WriteJournal(p) PROVE TypeOK'
  BY <1>7 DEF WriteJournal, TypeOK, Places, InLock
<1>8. ASSUME NEW p \in Procs, Apply(p) PROVE TypeOK'
  <2>1. at[p] \in 1..Len(OpsOf(txn[p])) /\ txn[p] \in Txns
    BY <1>8, OpsTyped DEF Apply, Applying, TypeOK
  <2>2. DiskTyped(disk')
    BY <1>8, <2>1, ApplyTyped DEF Apply, Op, TypeOK
  <2> QED
    BY <1>8, <2>2 DEF Apply, TypeOK
<1>9. ASSUME NEW p \in Procs, ApplyRefused(p) PROVE TypeOK'
  BY <1>9, RaiseTyped DEF ApplyRefused, TypeOK
<1>10. ASSUME NEW p \in Procs, Finish(p) PROVE TypeOK'
  BY <1>10, ForgetTyped DEF Finish, TypeOK
<1>11. ASSUME NEW p \in Procs, FinishReplay(p) PROVE TypeOK'
  BY <1>11, FirstDocTyped DEF FinishReplay, TypeOK, Places, InLock
<1>12. ASSUME NEW p \in Procs, DropPayload(p) PROVE TypeOK'
  <2>1. DiskTyped(disk')
    BY <1>12 DEF DropPayload, TypeOK, DiskTyped, Disks
  <2> QED
    BY <1>12, <2>1, ForgetTyped DEF DropPayload, TypeOK
<1>13. ASSUME NEW p \in Procs, Crash(p) PROVE TypeOK'
  <2>1. /\ pc' \in [Procs -> Places] /\ job' \in [Procs -> Kinds]
        /\ txn' \in [Procs -> Txns] /\ at' \in [Procs -> Nat \ {0}]
        /\ abandoned' \subseteq Nat
    BY <1>13, ForgetTyped, LeftBehindTyped DEF Crash, TypeOK
  <2>2. DiskTyped(disk')
    BY <1>13, TearTyped DEF Crash
  <2> QED
    BY <1>13, <2>1, <2>2 DEF Crash, TypeOK
<1>14. ASSUME NEW p \in Procs, IOError(p) PROVE TypeOK'
  BY <1>14, RaiseTyped, TearTyped DEF IOError, TypeOK
<1>15. ASSUME NEW p \in Procs, RecoverNothing(p) PROVE TypeOK'
  BY <1>15 DEF RecoverNothing, vars, TypeOK
<1>16. ASSUME NEW p \in Procs, UnhandledError(p) PROVE TypeOK'
  <2>1. /\ pc' \in [Procs -> Places] /\ job' \in [Procs -> Kinds]
        /\ txn' \in [Procs -> Txns] /\ at' \in [Procs -> Nat \ {0}]
    BY <1>16, ForgetTyped DEF UnhandledError
  <2>2. abandoned' \subseteq Nat
    BY <1>16, LeftBehindTyped DEF UnhandledError, TypeOK
  <2> QED
    BY <1>16, <2>1, <2>2 DEF UnhandledError, TypeOK
<1>17. ASSUME NEW p \in Procs, LockError(p) PROVE TypeOK'
  BY <1>17 DEF LockError, TypeOK, Places
<1> QED
  BY <1>1, <1>2, <1>3, <1>4, <1>5, <1>6, <1>7, <1>8, <1>9, <1>10, <1>11,
     <1>12, <1>13, <1>14, <1>15, <1>16, <1>17 DEF Next, Progress

\* Every reachable state is well typed: in particular the ledger holds only
\* ledger entries and is never emptied, torn tails included.
THEOREM TypesHold == Spec => []TypeOK
  BY TypeInit, TypeNext, PTL DEF Spec

(***************************************************************************)
(* Retention under a legal hold.  A transaction never carries a new        *)
(* retention date over a held case record, and case.json only goes from    *)
(* the record a transaction was built on to the one it carries.            *)
(***************************************************************************)
KeepsHeldRetention(t) == t.before.held => t.after.retain = t.before.retain

WellMade ==
    /\ \A t \in journals : KeepsHeldRetention(t)
    /\ \A p \in Procs : pc[p] \in {"built", "apply", "replay"} =>
                          KeepsHeldRetention(txn[p])

LEMMA PermittedKeepsRetention ==
  ASSUME NEW doc \in CaseDocs, NEW kind \in Kinds, NEW id \in Nat,
         Permitted(doc, kind), doc.held
  PROVE  Changed(doc, kind, id).retain = doc.retain
  BY DEF Permitted, Changed, WithStatus, WithRetention, WithHold, CaseDocs, Kinds

LEMMA WellMadeNext ==
  TypeOK /\ Turns /\ WellMade /\ [Next]_vars => WellMade'
<1> USE DEF WellMade, faults
<1> SUFFICES ASSUME TypeOK, Turns, WellMade, [Next]_vars PROVE WellMade'
  OBVIOUS
<1> USE DEF TypeOK
<1>1. CASE UNCHANGED vars
  BY <1>1 DEF vars
<1>2. ASSUME NEW p \in Procs, StagePayload(p) PROVE WellMade'
  BY <1>2 DEF StagePayload
<1>3. ASSUME NEW p \in Procs, NEW kind \in Kinds, TakeLock(p, kind)
      PROVE WellMade'
  BY <1>3 DEF TakeLock
<1>4. ASSUME NEW p \in Procs, StartRecovery(p) PROVE WellMade'
  <2>1. journals # {}
    BY <1>4, NotEmpty DEF StartRecovery
  <2>2. (CHOOSE t \in journals : TRUE) \in journals
    BY <2>1
  <2> QED
    BY <1>4, <2>2 DEF StartRecovery
<1>5. ASSUME NEW p \in Procs, Build(p) PROVE WellMade'
  <2> DEFINE id == IF job[p] = "artifact" THEN txn[p].id ELSE nextId
  <2>1. id \in Nat /\ job[p] \in Kinds /\ disk.doc \in CaseDocs
    BY DEF Txns, DiskTyped, Disks
  <2>2. Permitted(disk.doc, job[p])
    BY <1>5 DEF Build, Accepted
  <2>3. /\ txn'[p].before = disk.doc
        /\ txn'[p].after = Changed(disk.doc, job[p], id)
        /\ \A q \in Procs \ {p} : txn'[q] = txn[q]
    BY <1>5 DEF Build
  <2> HIDE DEF id
  <2>4. KeepsHeldRetention(txn'[p])
    BY <2>1, <2>2, <2>3, PermittedKeepsRetention DEF KeepsHeldRetention
  <2>5. /\ journals' = journals
        /\ \A q \in Procs \ {p} : pc'[q] = pc[q]
    BY <1>5 DEF Build
  <2> QED
    BY <2>3, <2>4, <2>5 DEF KeepsHeldRetention
<1>6. ASSUME NEW p \in Procs, Refuse(p) PROVE WellMade'
  BY <1>6 DEF Refuse, Raise, Forget
<1>7. ASSUME NEW p \in Procs, WriteJournal(p) PROVE WellMade'
  BY <1>7 DEF WriteJournal
<1>8. ASSUME NEW p \in Procs, Apply(p) PROVE WellMade'
  BY <1>8 DEF Apply
<1>9. ASSUME NEW p \in Procs, ApplyRefused(p) PROVE WellMade'
  BY <1>9 DEF ApplyRefused, Raise, Forget
<1>10. ASSUME NEW p \in Procs, Finish(p) PROVE WellMade'
  BY <1>10 DEF Finish, Forget
<1>11. ASSUME NEW p \in Procs, FinishReplay(p) PROVE WellMade'
  BY <1>11 DEF FinishReplay
<1>12. ASSUME NEW p \in Procs, DropPayload(p) PROVE WellMade'
  BY <1>12 DEF DropPayload, Forget
<1>13. ASSUME NEW p \in Procs, Crash(p) PROVE WellMade'
  BY <1>13 DEF Crash, Forget
<1>14. ASSUME NEW p \in Procs, IOError(p) PROVE WellMade'
  BY <1>14 DEF IOError, Raise, Forget
<1>15. ASSUME NEW p \in Procs, RecoverNothing(p) PROVE WellMade'
  BY <1>15 DEF RecoverNothing, vars
<1>16. ASSUME NEW p \in Procs, UnhandledError(p) PROVE WellMade'
  BY <1>16 DEF UnhandledError, Forget
<1>17. ASSUME NEW p \in Procs, LockError(p) PROVE WellMade'
  BY <1>17 DEF LockError
<1> QED
  BY <1>1, <1>2, <1>3, <1>4, <1>5, <1>6, <1>7, <1>8, <1>9, <1>10, <1>11,
     <1>12, <1>13, <1>14, <1>15, <1>16, <1>17 DEF Next, Progress

LEMMA WellMadeAlways == Spec => [](TypeOK /\ Turns /\ WellMade)
<1>1. Init => WellMade
  BY DEF Init, WellMade
<1> QED
  BY <1>1, TypeInit, TypeNext, TurnsInit, TurnsNext, WellMadeNext, PTL DEF Spec

\* Only a replacement of case.json changes the case record; a torn operation
\* does not.
LEMMA DocChangesOnlyByReplace ==
  ASSUME NEW d, DiskTyped(d), NEW t \in Txns, NEW i \in 1..Len(OpsOf(t))
  PROVE  /\ OpsOf(t)[i].type # "replace" =>
              ApplyOperation(d, t, OpsOf(t)[i]).doc = d.doc
         /\ \A e \in Torn(d, t, OpsOf(t)[i]) : e.doc = d.doc
<1> DEFINE op == OpsOf(t)[i]
<1>1. op \in Ops
  BY OpsTyped, ElementOfSeq
<1>2. ASSUME NEW f, NEW rows, NEW tail PROVE SetFile(d, f, rows, tail).doc = d.doc
  BY DEF SetFile, DiskTyped, Disks
<1>3. CASE op.type = "append"
  <2>1. AppendIdempotent(d, op.file, op.rec).doc = d.doc
    BY <1>2 DEF AppendIdempotent, DiskTyped, Disks
  <2>2. ApplyOperation(d, t, op).doc = d.doc
    BY <1>3, <2>1 DEF ApplyOperation
  <2>3. \A e \in Torn(d, t, op) : e.doc = d.doc
    BY <1>2 DEF Torn
  <2> QED
    BY <2>2, <2>3
<1>4. CASE op.type = "install"
  BY <1>4 DEF ApplyOperation, Torn, DiskTyped, Disks
<1>5. CASE op.type = "replace"
  BY <1>5 DEF Torn
<1> QED
  BY <1>1, <1>3, <1>4, <1>5 DEF Ops

\* While a legal hold is active the retention date stays what it is, through
\* crashes, replays and concurrent writers (update_case_retention).
THEOREM RetentionFrozen == Spec => HeldRetentionFrozen
<1> DEFINE Frozen == disk.doc.held => disk'.doc.retain = disk.doc.retain
<1>1. TypeOK /\ Turns /\ WellMade /\ [Next]_vars => [Frozen]_vars
  <2> SUFFICES ASSUME TypeOK, WellMade, Next PROVE Frozen
    BY DEF vars
  <2> USE DEF TypeOK, faults
  <2>1. ASSUME NEW p \in Procs, Apply(p) PROVE Frozen
    <3>1. at[p] \in 1..Len(OpsOf(txn[p])) /\ txn[p] \in Txns
      BY <2>1, OpsTyped DEF Apply, Applying
    <3>2. CASE Op(p).type = "replace"
      <4>1. disk.doc \in {txn[p].before, txn[p].after}
        BY <2>1, <3>2 DEF Apply, CanApply
      <4>2. disk'.doc = txn[p].after
        BY <2>1, <3>2 DEF Apply, ApplyOperation, DiskTyped, Disks
      <4>3. KeepsHeldRetention(txn[p])
        BY <2>1 DEF Apply, Applying, WellMade
      <4> QED
        BY <4>1, <4>2, <4>3 DEF KeepsHeldRetention
    <3>3. CASE Op(p).type # "replace"
      BY <2>1, <3>1, <3>3, DocChangesOnlyByReplace DEF Apply, Op
    <3> QED
      BY <3>2, <3>3
  <2>2. ASSUME NEW p \in Procs, Tear(p) PROVE Frozen
    <3>1. CASE Applying(p)
      <4>1. at[p] \in 1..Len(OpsOf(txn[p])) /\ txn[p] \in Txns
        BY <3>1, OpsTyped DEF Applying
      <4> QED
        BY <2>2, <3>1, <4>1, DocChangesOnlyByReplace DEF Tear, Op
    <3>2. CASE ~Applying(p)
      BY <2>2, <3>2 DEF Tear
    <3> QED
      BY <3>1, <3>2
  <2>3. ASSUME NEW p \in Procs, StagePayload(p) \/ DropPayload(p) PROVE Frozen
    BY <2>3 DEF StagePayload, DropPayload, DiskTyped, Disks
  <2>4. ASSUME NEW p \in Procs, Crash(p) \/ IOError(p) PROVE Frozen
    BY <2>2, <2>4 DEF Crash, IOError
  <2>5. ASSUME NEW p \in Procs,
               \/ \E kind \in Kinds : TakeLock(p, kind)
               \/ UnhandledError(p) \/ LockError(p)
               \/ StartRecovery(p) \/ RecoverNothing(p) \/ Build(p)
               \/ Refuse(p) \/ WriteJournal(p) \/ ApplyRefused(p)
               \/ Finish(p) \/ FinishReplay(p)
        PROVE Frozen
    BY <2>5 DEF TakeLock, UnhandledError, LockError, StartRecovery, RecoverNothing, Build, Refuse,
         WriteJournal, ApplyRefused, Finish, FinishReplay, vars
  <2> QED
    BY <2>1, <2>3, <2>4, <2>5 DEF Next, Progress
<1> QED
  BY <1>1, WellMadeAlways, PTL DEF Spec, HeldRetentionFrozen

(***************************************************************************)
(* The lines and the operations of a transaction.                          *)
(***************************************************************************)
\* At most two lines a file, and two only in the ledger, for a legal hold.
LEMMA AddedShape ==
  ASSUME NEW t \in Txns, NEW f \in Files
  PROVE  /\ Added(t, f) \in Seq(LinesOf(f))
         /\ Len(Added(t, f)) \in 0..2
         /\ Len(Added(t, f)) = 2 => f = "ledger" /\ t.kind = "hold"
         /\ f = "ledger" =>
              /\ Len(Added(t, f)) \in 1..2
              /\ \A i \in 1..Len(Added(t, f)) : Added(t, f)[i].txn = t.id
              /\ Len(Added(t, f)) = 2 => Added(t, f)[1] # Added(t, f)[2]
         /\ f # "ledger" => \A i \in 1..Len(Added(t, f)) : Added(t, f)[i].id = t.id
<1>1. t.kind \in Kinds /\ RowOf(t) \in Rows /\ RowOf(t).id = t.id
  BY DEF Txns, RowOf, Rows
<1>2. CASE f # "ledger"
  BY <1>1, <1>2 DEF Added, LinesOf
<1>3. CASE f = "ledger"
  <2>1. Added(t, f) = EntriesOf(t) /\ EntriesOf(t) \in Seq(LinesOf(f))
    BY <1>3, EntriesTyped DEF Added, LinesOf
  <2>2. /\ Len(EntriesOf(t)) = IF t.kind = "hold" THEN 2 ELSE 1
        /\ EntriesOf(t)[1].txn = t.id
        /\ t.kind = "hold" => /\ EntriesOf(t)[2].txn = t.id
                              /\ EntriesOf(t)[1].act = "legal-hold.recorded"
                              /\ EntriesOf(t)[2].act = "case.legal-hold-changed"
    <3>1. ASSUME NEW act, NEW prev
          PROVE  EntryOf(t, act, prev).txn = t.id /\ EntryOf(t, act, prev).act = act
      BY DEF EntryOf
    <3>2. CASE t.kind = "hold"
      BY <3>1, <3>2 DEF EntriesOf
    <3>3. CASE t.kind # "hold"
      <4>1. \E act : EntriesOf(t) = <<EntryOf(t, act, t.prev)>>
        BY <1>1, <3>3 DEF EntriesOf, Kinds
      <4> QED
        BY <3>1, <3>3, <4>1
    <3> QED
      BY <3>2, <3>3
  <2>3. /\ Len(EntriesOf(t)) \in 1..2
        /\ Len(EntriesOf(t)) = 2 => t.kind = "hold" /\ EntriesOf(t)[1] # EntriesOf(t)[2]
        /\ \A i \in 1..Len(EntriesOf(t)) : EntriesOf(t)[i].txn = t.id
    <3>1. CASE t.kind = "hold"
      BY <2>2, <3>1
    <3>2. CASE t.kind # "hold"
      BY <2>2, <3>2
    <3> QED
      BY <3>1, <3>2
  <2> QED
    BY <1>3, <2>1, <2>3
<1> QED
  BY <1>2, <1>3

\* The operations of a transaction, one by one.
LEMMA OpsListed ==
  ASSUME NEW t \in Txns
  PROVE  LET ops == OpsOf(t)
             e == EntriesOf(t)
         IN  /\ t.kind = "record" =>
                  /\ Len(ops) = 2 /\ ops[1] = AppendOp("records", RowOf(t))
                  /\ ops[2] = AppendOp("ledger", e[1])
             /\ t.kind = "artifact" =>
                  /\ Len(ops) = 3 /\ ops[1] = InstallOp
                  /\ ops[2] = AppendOp("artifacts", RowOf(t))
                  /\ ops[3] = AppendOp("ledger", e[1])
             /\ t.kind \in {"status", "retention"} =>
                  /\ Len(ops) = 2 /\ ops[1] = ReplaceOp
                  /\ ops[2] = AppendOp("ledger", e[1])
             /\ t.kind = "hold" =>
                  /\ Len(ops) = 4
                  /\ ops[1] = AppendOp("legal_holds", RowOf(t))
                  /\ ops[2] = ReplaceOp
                  /\ ops[3] = AppendOp("ledger", e[1])
                  /\ ops[4] = AppendOp("ledger", e[2])
             /\ t.kind = "note" =>
                  /\ Len(ops) = 1 /\ ops[1] = AppendOp("ledger", e[1])
<1> DEFINE es == EntriesOf(t)
           data == DataOpsOf(t)
           appends == [i \in 1..Len(es) |-> AppendOp("ledger", es[i])]
<1>1. t.kind \in Kinds /\ RowOf(t) \in Rows /\ NoRow \in Rows
  BY DEF Txns, RowOf, Rows, NoRow
<1>2. es \in Seq(Entries) /\ Len(es) = IF t.kind = "hold" THEN 2 ELSE 1
  BY <1>1, EntriesTyped DEF EntriesOf, Kinds
<1>3. \A i \in 1..Len(es) : AppendOp("ledger", es[i]) \in Ops
  BY <1>2 DEF AppendOp, Ops, Files
<1>4. appends \in Seq(Ops)
  <2>1. Len(es) \in Nat
    BY <1>2
  <2> QED
    BY <1>3, <2>1, IsASeq
<1>5. /\ Len(appends) = Len(es)
      /\ \A i \in 1..Len(es) : appends[i] = AppendOp("ledger", es[i])
  BY <1>2, <1>4
<1>6. /\ data \in Seq(Ops)
      /\ t.kind = "record" => Len(data) = 1 /\ data[1] = AppendOp("records", RowOf(t))
      /\ t.kind = "artifact" => /\ Len(data) = 2 /\ data[1] = InstallOp
                                /\ data[2] = AppendOp("artifacts", RowOf(t))
      /\ t.kind \in {"status", "retention"} => Len(data) = 1 /\ data[1] = ReplaceOp
      /\ t.kind = "hold" => /\ Len(data) = 2 /\ data[2] = ReplaceOp
                            /\ data[1] = AppendOp("legal_holds", RowOf(t))
      /\ t.kind = "note" => Len(data) = 0
  <2>1. /\ \A f \in DataFiles : AppendOp(f, RowOf(t)) \in Ops
        /\ InstallOp \in Ops /\ ReplaceOp \in Ops
    BY <1>1 DEF AppendOp, InstallOp, ReplaceOp, Ops, DataFiles, Files
  <2>2. data = CASE t.kind = "record"    -> <<AppendOp("records", RowOf(t))>>
                 [] t.kind = "artifact"  -> <<InstallOp, AppendOp("artifacts", RowOf(t))>>
                 [] t.kind \in {"status", "retention"} -> <<ReplaceOp>>
                 [] t.kind = "hold"      -> <<AppendOp("legal_holds", RowOf(t)), ReplaceOp>>
                 [] t.kind = "note"      -> <<>>
    BY DEF DataOpsOf
  <2> HIDE DEF data
  <2>3. CASE t.kind = "record"
    BY <2>1, <2>2, <2>3 DEF DataFiles
  <2>4. CASE t.kind = "artifact"
    BY <2>1, <2>2, <2>4 DEF DataFiles
  <2>5. CASE t.kind \in {"status", "retention"}
    BY <2>1, <2>2, <2>5
  <2>6. CASE t.kind = "hold"
    BY <2>1, <2>2, <2>6 DEF DataFiles
  <2>7. CASE t.kind = "note"
    BY <2>1, <2>2, <2>7
  <2> QED
    BY <1>1, <2>3, <2>4, <2>5, <2>6, <2>7 DEF Kinds
<1>7. OpsOf(t) = data \o appends
  BY DEF OpsOf
<1> HIDE DEF es, data, appends
<1>8. /\ Len(OpsOf(t)) = Len(data) + Len(es)
      /\ \A i \in 1..Len(data) + Len(es) :
           OpsOf(t)[i] = IF i <= Len(data) THEN data[i] ELSE appends[i - Len(data)]
  <2>1. data \in Seq(Ops)
    BY <1>6
  <2>2. /\ Len(data \o appends) = Len(data) + Len(appends)
        /\ \A i \in 1..Len(data) + Len(appends) :
             (data \o appends)[i] =
                IF i <= Len(data) THEN data[i] ELSE appends[i - Len(data)]
    BY <1>4, <2>1, ConcatProperties
  <2> QED
    BY <1>5, <1>7, <2>2
<1>9. /\ t.kind = "record" => Len(data) = 1 /\ Len(es) = 1
      /\ t.kind = "artifact" => Len(data) = 2 /\ Len(es) = 1
      /\ t.kind \in {"status", "retention"} => Len(data) = 1 /\ Len(es) = 1
      /\ t.kind = "hold" => Len(data) = 2 /\ Len(es) = 2
      /\ t.kind = "note" => Len(data) = 0 /\ Len(es) = 1
  BY <1>2, <1>6
<1> QED
  BY <1>5, <1>6, <1>8, <1>9 DEF es

\* Every operation installs the payload, replaces case.json, or appends a line
\* of the transaction; the second line of a file comes after the first.
LEMMA OpShape ==
  ASSUME NEW t \in Txns, NEW i \in 1..Len(OpsOf(t))
  PROVE  LET op == OpsOf(t)[i]
         IN  \/ op = InstallOp /\ t.kind = "artifact" /\ i = 1
             \/ op = ReplaceOp /\ t.kind \in GovernanceKinds
             \/ \E f \in Files : \E j \in 1..Len(Added(t, f)) :
                  /\ op = AppendOp(f, Added(t, f)[j])
                  /\ j = 2 => i > 1 /\ OpsOf(t)[i - 1] = AppendOp(f, Added(t, f)[1])
<1>1. t.kind \in Kinds
  BY DEF Txns
<1>2. /\ Added(t, "ledger") = EntriesOf(t)
      /\ t.kind = "record" => Added(t, "records") = <<RowOf(t)>>
      /\ t.kind = "artifact" => Added(t, "artifacts") = <<RowOf(t)>>
      /\ t.kind = "hold" => Added(t, "legal_holds") = <<RowOf(t)>>
      /\ Len(EntriesOf(t)) = IF t.kind = "hold" THEN 2 ELSE 1
  BY <1>1 DEF Added, EntriesOf, Kinds
<1>3. {"records", "artifacts", "legal_holds", "ledger"} \subseteq Files
  BY DEF Files, DataFiles
<1>4. CASE t.kind = "record"
  BY <1>2, <1>3, <1>4, OpsListed
<1>5. CASE t.kind = "artifact"
  BY <1>2, <1>3, <1>5, OpsListed
<1>6. CASE t.kind \in {"status", "retention"}
  BY <1>2, <1>3, <1>6, OpsListed DEF GovernanceKinds
<1>7. CASE t.kind = "hold"
  <2>1. i \in 1..4 /\ t.kind \in GovernanceKinds
    BY <1>7, OpsListed DEF GovernanceKinds
  <2>2. CASE i = 1
    BY <1>2, <1>3, <1>7, <2>2, OpsListed
  <2>3. CASE i = 2
    BY <1>7, <2>1, <2>3, OpsListed
  <2>4. CASE i = 3
    <3>1. OpsOf(t)[i] = AppendOp("ledger", Added(t, "ledger")[1])
      BY <1>2, <1>7, <2>4, OpsListed
    <3>2. 1 \in 1..Len(Added(t, "ledger"))
      BY <1>2, <1>7
    <3> QED
      BY <1>3, <3>1, <3>2
  <2>5. CASE i = 4
    <3>1. /\ OpsOf(t)[i] = AppendOp("ledger", Added(t, "ledger")[2])
          /\ OpsOf(t)[i - 1] = AppendOp("ledger", Added(t, "ledger")[1])
      <4>1. /\ OpsOf(t)[4] = AppendOp("ledger", EntriesOf(t)[2])
            /\ OpsOf(t)[3] = AppendOp("ledger", EntriesOf(t)[1])
        BY <1>7, OpsListed
      <4>2. i - 1 = 3
        BY <2>5
      <4> QED
        BY <1>2, <2>5, <4>1, <4>2
    <3>2. 2 \in 1..Len(Added(t, "ledger")) /\ i > 1
      BY <1>2, <1>7, <2>5
    <3> QED
      BY <1>3, <3>1, <3>2
  <2> QED
    BY <2>1, <2>2, <2>3, <2>4, <2>5
<1>8. CASE t.kind = "note"
  BY <1>2, <1>3, <1>8, OpsListed
<1> QED
  BY <1>1, <1>4, <1>5, <1>6, <1>7, <1>8 DEF Kinds

\* ... and every line, the payload and the case record have their operation.
LEMMA OpsCover ==
  ASSUME NEW t \in Txns
  PROVE  /\ Len(OpsOf(t)) \in 1..4
         /\ t.kind # "hold" => Len(OpsOf(t)) <= 3
         /\ \A f \in Files : \A j \in 1..Len(Added(t, f)) :
              \E i \in 1..Len(OpsOf(t)) : OpsOf(t)[i] = AppendOp(f, Added(t, f)[j])
         /\ t.kind = "artifact" => OpsOf(t)[1] = InstallOp
         /\ t.kind \in GovernanceKinds =>
              \E i \in 1..Len(OpsOf(t)) : OpsOf(t)[i] = ReplaceOp
<1> DEFINE ops == OpsOf(t)
           Lists(op) == \E i \in 1..Len(ops) : ops[i] = op
<1>1. t.kind \in Kinds
  BY DEF Txns
<1>2. /\ Added(t, "ledger") = EntriesOf(t)
      /\ Len(EntriesOf(t)) = IF t.kind = "hold" THEN 2 ELSE 1
      /\ Added(t, "records") = IF t.kind = "record" THEN <<RowOf(t)>> ELSE <<>>
      /\ Added(t, "artifacts") = IF t.kind = "artifact" THEN <<RowOf(t)>> ELSE <<>>
      /\ Added(t, "legal_holds") = IF t.kind = "hold" THEN <<RowOf(t)>> ELSE <<>>
  BY <1>1 DEF Added, EntriesOf, Kinds
<1>3. Files = {"records", "artifacts", "legal_holds", "ledger"}
  BY DEF Files, DataFiles
<1>4. /\ Len(ops) \in 1..4
      /\ t.kind # "hold" => Len(ops) <= 3
      /\ t.kind = "artifact" => ops[1] = InstallOp
  <2>1. CASE t.kind = "hold"
    BY <2>1, OpsListed
  <2>2. CASE t.kind = "artifact"
    <3>1. Len(ops) = 3 /\ ops[1] = InstallOp
      BY <2>2, OpsListed
    <3> HIDE DEF ops
    <3> QED
      BY <2>2, <3>1
  <2>3. CASE t.kind \in {"record", "status", "retention", "note"}
    <3>1. Len(ops) = 2 \/ Len(ops) = 1
      BY <2>3, OpsListed
    <3>2. t.kind # "hold" /\ t.kind # "artifact"
      BY <2>3
    <3> HIDE DEF ops
    <3>3. Len(ops) \in 1..4 /\ Len(ops) <= 3
      BY <3>1
    <3> QED
      BY <3>2, <3>3
  <2> QED
    BY <1>1, <2>1, <2>2, <2>3 DEF Kinds
<1>5. t.kind \in GovernanceKinds => Lists(ReplaceOp)
  BY OpsListed DEF GovernanceKinds
<1>6. Lists(AppendOp("ledger", EntriesOf(t)[1]))
  BY <1>1, OpsListed DEF Kinds
<1>7. t.kind = "hold" => Lists(AppendOp("ledger", EntriesOf(t)[2]))
  BY OpsListed
<1>8. /\ t.kind = "record" => Lists(AppendOp("records", RowOf(t)))
      /\ t.kind = "artifact" => Lists(AppendOp("artifacts", RowOf(t)))
      /\ t.kind = "hold" => Lists(AppendOp("legal_holds", RowOf(t)))
  BY OpsListed
<1> HIDE DEF ops, Lists
<1>9. ASSUME NEW f \in Files, NEW j \in 1..Len(Added(t, f))
      PROVE  Lists(AppendOp(f, Added(t, f)[j]))
  <2>1. CASE f = "ledger"
    <3>1. j \in 1..Len(EntriesOf(t))
      BY <1>2, <2>1
    <3>2. j = 1 \/ (j = 2 /\ t.kind = "hold")
      <4>1. CASE t.kind = "hold"
        BY <1>2, <3>1, <4>1
      <4>2. CASE t.kind # "hold"
        BY <1>2, <3>1, <4>2
      <4> QED
        BY <4>1, <4>2
    <3> QED
      BY <1>2, <1>6, <1>7, <2>1, <3>2
  <2>2. CASE f # "ledger"
    <3>1. Added(t, f) # <<>>
      OBVIOUS
    <3>2. Added(t, f) = <<RowOf(t)>>
      BY <1>2, <1>3, <2>2, <3>1
    <3>3. j = 1
      BY <3>2
    <3> QED
      BY <1>2, <1>3, <1>8, <2>2, <3>1, <3>2, <3>3
  <2> QED
    BY <2>1, <2>2
<1> QED
  BY <1>4, <1>5, <1>9 DEF ops, Lists

(***************************************************************************)
(* Files that grow by the lines of a transaction, whole or torn.           *)
(***************************************************************************)
\* One more line.
LEMMA GrownAppend ==
  ASSUME NEW S, NEW s \in Seq(S), NEW base \in Seq(S), NEW add \in Seq(S),
         NEW n \in Nat, n < Len(add), Grown(s, base, add, n)
  PROVE  Grown(Append(s, add[n + 1]), base, add, n + 1)
<1>1. add[n + 1] \in S
  BY ElementOfSeq
<1>2. /\ Len(Append(s, add[n + 1])) = Len(s) + 1
      /\ \A i \in 1..Len(s) : Append(s, add[n + 1])[i] = s[i]
      /\ Append(s, add[n + 1])[Len(s) + 1] = add[n + 1]
  BY <1>1, AppendProperties
<1>3. Len(s) \in Nat /\ Len(base) \in Nat /\ Len(s) = Len(base) + n
  BY DEF Grown
<1>4. \A i \in 1..Len(base) : Append(s, add[n + 1])[i] = base[i]
  BY <1>2, <1>3 DEF Grown
<1>5. ASSUME NEW i \in 1..(n + 1)
      PROVE  Append(s, add[n + 1])[Len(base) + i] = add[i]
  <2>1. CASE i = n + 1
    BY <1>2, <1>3, <2>1
  <2>2. CASE i \in 1..n
    <3>1. Len(base) + i \in 1..Len(s) /\ s[Len(base) + i] = add[i]
      BY <1>3, <2>2 DEF Grown
    <3> QED
      BY <1>2, <3>1
  <2>3. i = n + 1 \/ i \in 1..n
    OBVIOUS
  <2> QED
    BY <2>1, <2>2, <2>3
<1>6. Len(Append(s, add[n + 1])) = Len(base) + (n + 1)
  BY <1>2, <1>3
<1> QED
  BY <1>4, <1>5, <1>6 DEF Grown

\* The lines of add in s are its first n.
LEMMA GrownMembers ==
  ASSUME NEW S, NEW s \in Seq(S), NEW base \in Seq(S), NEW add \in Seq(S),
         NEW n \in 0..Len(add), Grown(s, base, add, n),
         \A i \in 1..Len(base), j \in 1..Len(add) : base[i] # add[j],
         \A i, j \in 1..Len(add) : add[i] = add[j] => i = j,
         NEW j \in 1..Len(add)
  PROVE  add[j] \in Ids(s) <=> j <= n
<1>1. Len(s) \in Nat /\ Len(base) \in Nat /\ Len(add) \in Nat /\ Len(s) = Len(base) + n
  BY DEF Grown
<1>2. ASSUME j <= n PROVE add[j] \in Ids(s)
  <2>1. j \in 1..n /\ Len(base) + j \in 1..Len(s)
    BY <1>1, <1>2
  <2>2. s[Len(base) + j] = add[j]
    BY <2>1 DEF Grown
  <2> QED
    BY <2>1, <2>2 DEF Ids
<1>3. ASSUME add[j] \in Ids(s) PROVE j <= n
  <2>1. PICK i \in 1..Len(s) : s[i] = add[j]
    BY <1>3 DEF Ids
  <2>2. CASE i <= Len(base)
    <3>1. i \in 1..Len(base)
      BY <1>1, <2>2
    <3>2. s[i] = base[i]
      BY <3>1 DEF Grown
    <3> QED
      BY <2>1, <3>1, <3>2
  <2>3. CASE i > Len(base)
    <3>1. i - Len(base) \in 1..n /\ Len(base) + (i - Len(base)) = i
      BY <1>1, <2>3
    <3>2. s[i] = add[i - Len(base)]
      BY <3>1 DEF Grown
    <3>3. i - Len(base) \in 1..Len(add)
      BY <1>1, <3>1
    <3>4. i - Len(base) = j
      BY <2>1, <3>2, <3>3
    <3> QED
      BY <3>1, <3>4
  <2> QED
    BY <1>1, <2>2, <2>3
<1> QED
  BY <1>2, <1>3

\* What t appends was not there when it was built.
LEMMA AddedIsNew ==
  ASSUME NEW b, DiskTyped(b), Intact(b), NEW t \in Txns, BuiltOn(t, b),
         NEW f \in Files, NEW i \in 1..Len(b.rows[f]),
         NEW j \in 1..Len(Added(t, f))
  PROVE  /\ f = "ledger" => b.rows[f][i].txn # t.id /\ Added(t, f)[j].txn = t.id
         /\ f # "ledger" => b.rows[f][i].id # t.id /\ Added(t, f)[j].id = t.id
         /\ b.rows[f][i] # Added(t, f)[j]
<1>1. CASE f = "ledger"
  BY <1>1, AddedShape DEF BuiltOn
<1>2. CASE f # "ledger"
  <2>1. f \in DataFiles
    BY <1>2 DEF Files
  <2>2. RowsChained(b, f)
    BY <2>1 DEF Intact
  <2>3. PICK k \in 1..Len(b.rows["ledger"]) : b.rows[f][i].id = b.rows["ledger"][k].txn
    BY <2>2 DEF RowsChained
  <2>4. b.rows[f][i].id # t.id
    BY <2>3 DEF BuiltOn
  <2> QED
    BY <1>2, <2>4, AddedShape
<1> QED
  BY <1>1, <1>2

\* No line is appended twice.
LEMMA AddedDistinct ==
  ASSUME NEW t \in Txns, NEW f \in Files
  PROVE  \A i, j \in 1..Len(Added(t, f)) : Added(t, f)[i] = Added(t, f)[j] => i = j
<1>1. Len(Added(t, f)) \in 0..2
  BY AddedShape
<1>2. CASE Len(Added(t, f)) = 2
  <2>1. f = "ledger" /\ Added(t, f)[1] # Added(t, f)[2]
    BY <1>2, AddedShape
  <2> QED
    BY <1>2, <2>1
<1>3. CASE Len(Added(t, f)) # 2
  BY <1>1, <1>3
<1> QED
  BY <1>2, <1>3

\* A file is written without touching the others.
LEMMA SetFileLeaves ==
  ASSUME NEW d, DiskTyped(d), NEW f \in Files, NEW rows, NEW tail
  PROVE  LET e == SetFile(d, f, rows, tail)
         IN  /\ e.doc = d.doc /\ e.installed = d.installed /\ e.staged = d.staged
             /\ e.rows[f] = rows /\ e.tail[f] = tail
             /\ \A g \in Files \ {f} : e.rows[g] = d.rows[g] /\ e.tail[g] = d.tail[g]
  BY DEF SetFile, DiskTyped, Disks

\* The state of a file as the next reader finds it.
Whole(d, n, f) == IF d.tail[f].cut = "unterminated" THEN n + 1 ELSE n

\* The next reader finds a prefix of the lines of t, a torn line at most lost.
LEMMA ReadGrown ==
  ASSUME NEW d, DiskTyped(d), NEW b, DiskTyped(b), Intact(b), NEW t \in Txns,
         BuiltOn(t, b), NEW f \in Files, NEW n \in 0..Len(Added(t, f)),
         Reaches(d, b, t, f, n)
  PROVE  /\ Whole(d, n, f) \in 0..Len(Added(t, f))
         /\ Grown(ReadJsonl(d, f), b.rows[f], Added(t, f), Whole(d, n, f))
         /\ \A j \in 1..Len(Added(t, f)) :
              Added(t, f)[j] \in Ids(ReadJsonl(d, f)) <=> j <= Whole(d, n, f)
         /\ \A j \in 1..Len(Added(t, f)) : Added(t, f)[j] \in Ids(d.rows[f]) <=> j <= n
<1> DEFINE L == LinesOf(f)
           add == Added(t, f)
           m == Whole(d, n, f)
<1>1. add \in Seq(L) /\ d.rows[f] \in Seq(L) /\ b.rows[f] \in Seq(L)
  BY AddedShape, ReadTyped
<1>2. ReadJsonl(d, f) \in Seq(L) /\ Len(add) \in Nat
  BY <1>1, ReadTyped
<1>3. m \in 0..Len(add) /\ Grown(ReadJsonl(d, f), b.rows[f], add, m)
  <2>1. CASE d.tail[f].cut = "unterminated"
    <3>1. n < Len(add) /\ d.tail[f].rec = add[n + 1]
      BY <2>1, NoTailTyped DEF Reaches
    <3>2. ReadJsonl(d, f) = Append(d.rows[f], add[n + 1]) /\ m = n + 1
      BY <2>1, <3>1 DEF ReadJsonl, Whole
    <3>3. Grown(d.rows[f], b.rows[f], add, n)
      BY DEF Reaches
    <3> HIDE DEF L, add, m
    <3> QED
      BY <1>1, <1>2, <3>1, <3>2, <3>3, GrownAppend
  <2>2. CASE d.tail[f].cut # "unterminated"
    <3>1. ReadJsonl(d, f) = d.rows[f] /\ m = n
      BY <2>2 DEF ReadJsonl, Whole
    <3> QED
      BY <3>1 DEF Reaches
  <2> QED
    BY <2>1, <2>2
<1>4. /\ \A i \in 1..Len(b.rows[f]), j \in 1..Len(add) : b.rows[f][i] # add[j]
      /\ \A i, j \in 1..Len(add) : add[i] = add[j] => i = j
  BY AddedIsNew, AddedDistinct
<1>5. Grown(d.rows[f], b.rows[f], add, n)
  BY DEF Reaches
<1> HIDE DEF L, add, m
<1>6. \A j \in 1..Len(add) : add[j] \in Ids(ReadJsonl(d, f)) <=> j <= m
  <2> DEFINE r == ReadJsonl(d, f)
  <2>1. m \in 0..Len(add) /\ r \in Seq(L)
    BY <1>2, <1>3
  <2>2. Grown(r, b.rows[f], add, m)
    BY <1>3
  <2> HIDE DEF r
  <2>3. \A j \in 1..Len(add) : add[j] \in Ids(r) <=> j <= m
    BY <1>1, <1>4, <2>1, <2>2, GrownMembers
  <2> QED
    BY <2>3 DEF r
<1>7. \A j \in 1..Len(add) : add[j] \in Ids(d.rows[f]) <=> j <= n
  <2> DEFINE r == d.rows[f]
             old == b.rows[f]
  <2>1. n \in 0..Len(add)
    BY DEF add
  <2>2. r \in Seq(L) /\ old \in Seq(L) /\ Grown(r, old, add, n)
    BY <1>1, <1>5
  <2>3. \A i \in 1..Len(old), j \in 1..Len(add) : old[i] # add[j]
    BY <1>4
  <2> HIDE DEF r, old
  <2>4. \A j \in 1..Len(add) : add[j] \in Ids(r) <=> j <= n
    BY <1>1, <1>4, <2>1, <2>2, <2>3, GrownMembers
  <2> QED
    BY <2>4 DEF r
<1> QED
  BY <1>3, <1>6, <1>7 DEF add, m

\* Appending a line of t, or appending it again.
LEMMA AppendReaches ==
  ASSUME NEW d, DiskTyped(d), NEW b, DiskTyped(b), Intact(b), NEW t \in Txns,
         BuiltOn(t, b), NEW f \in Files, NEW n \in 0..Len(Added(t, f)),
         Reaches(d, b, t, f, n), NEW j \in 1..Len(Added(t, f)),
         j = 2 => Done(d, t, AppendOp(f, Added(t, f)[1]))
  PROVE  LET e == AppendIdempotent(d, f, Added(t, f)[j])
         IN  /\ \E m \in 0..Len(Added(t, f)) : Reaches(e, b, t, f, m) /\ n <= m /\ j <= m
             /\ e.tail[f] = NoTail
             /\ e.doc = d.doc /\ e.installed = d.installed /\ e.staged = d.staged
             /\ \A g \in Files \ {f} : e.rows[g] = d.rows[g] /\ e.tail[g] = d.tail[g]
<1> DEFINE add == Added(t, f)
           w == Whole(d, n, f)
           e == AppendIdempotent(d, f, add[j])
<1>1. /\ w \in 0..Len(add) /\ Grown(ReadJsonl(d, f), b.rows[f], add, w)
      /\ add[j] \in Ids(ReadJsonl(d, f)) <=> j <= w
      /\ \A k \in 1..Len(add) : add[k] \in Ids(d.rows[f]) <=> k <= n
  BY ReadGrown
<1>2. w = IF d.tail[f].cut = "unterminated" THEN n + 1 ELSE n
  BY DEF Whole
<1>3. Len(add) \in 0..2
  BY AddedShape
<1>4. CASE j <= w
  <2>1. e = SetFile(d, f, ReadJsonl(d, f), NoTail)
    BY <1>1, <1>4 DEF AppendIdempotent
  <2>2. Reaches(e, b, t, f, w)
    BY <1>1, <2>1, SetFileLeaves DEF Reaches
  <2>3. n <= w
    BY <1>2
  <2> QED
    BY <1>1, <1>4, <2>1, <2>2, <2>3, SetFileLeaves
<1>5. CASE ~(j <= w)
  <2>1. j = n + 1 /\ d.tail[f].cut # "unterminated"
    <3>1. CASE j = 1
      <4>1. n \in Nat /\ ~(1 <= w)
        BY <1>5, <3>1
      <4> QED
        BY <1>2, <3>1, <4>1
    <3>2. CASE j # 1
      <4>3. j = 2 /\ Len(add) = 2
        <5> DEFINE k == Len(add)
        <5>1. j \in 1..k /\ k \in 0..2 /\ j # 1
          BY <1>3, <3>2
        <5> HIDE DEF k
        <5>2. j = 2 /\ k = 2
          BY <5>1
        <5> QED
          BY <5>2 DEF k
      <4>1. add[1] \in Ids(d.rows[f]) /\ d.tail[f] = NoTail
        BY <4>3 DEF Done, AppendOp
      <4>2. 1 <= n
        BY <1>1, <4>3, <4>1
      <4> QED
        BY <1>2, <1>5, <4>3, <4>1, <4>2, NoTailTyped
    <3> QED
      BY <3>1, <3>2
  <2>2. e = SetFile(d, f, Append(d.rows[f], add[j]), NoTail)
    BY <1>1, <1>5, <2>1 DEF AppendIdempotent
  <2>3. n < Len(add)
    BY <1>3, <2>1
  <2>4. Grown(Append(d.rows[f], add[j]), b.rows[f], add, n + 1)
    <3>1. add \in Seq(LinesOf(f)) /\ d.rows[f] \in Seq(LinesOf(f)) /\ b.rows[f] \in Seq(LinesOf(f))
      BY AddedShape, ReadTyped
    <3>2. Grown(d.rows[f], b.rows[f], add, n) /\ n \in Nat
      BY DEF Reaches
    <3> HIDE DEF add
    <3> QED
      BY <2>1, <2>3, <3>1, <3>2, GrownAppend
  <2>5. Reaches(e, b, t, f, n + 1)
    BY <2>2, <2>4, SetFileLeaves DEF Reaches
  <2>6. n + 1 \in 0..Len(add) /\ n <= n + 1 /\ j <= n + 1
    BY <1>3, <2>1, <2>3
  <2> QED
    BY <2>2, <2>5, <2>6, SetFileLeaves
<1> QED
  BY <1>4, <1>5

(***************************************************************************)
(* Applying an operation, once or again.                                   *)
(***************************************************************************)
\* The names of two lines of t differ, and are not those of older lines.
LEMMA RecordIdsDiffer ==
  ASSUME NEW b, DiskTyped(b), Intact(b), NEW t \in Txns, BuiltOn(t, b),
         NEW f \in Files
  PROVE  /\ \A i \in 1..Len(b.rows[f]), j \in 1..Len(Added(t, f)) :
              RecordId(b.rows[f][i]) # RecordId(Added(t, f)[j])
         /\ \A i, j \in 1..Len(Added(t, f)) :
              i # j => RecordId(Added(t, f)[i]) # RecordId(Added(t, f)[j])
<1>1. \A e \in Entries : RecordId(e) = [txn |-> e.txn, act |-> e.act]
  BY DEF RecordId, EntryId, Entries
<1>2. \A r \in Rows : RecordId(r) = r.id
  BY DEF RecordId, Rows
<1>3. b.rows[f] \in Seq(LinesOf(f)) /\ Added(t, f) \in Seq(LinesOf(f))
  BY ReadTyped, AddedShape
<1>4. ASSUME NEW i \in 1..Len(b.rows[f]), NEW j \in 1..Len(Added(t, f))
      PROVE  RecordId(b.rows[f][i]) # RecordId(Added(t, f)[j])
  <2>1. b.rows[f][i] \in LinesOf(f) /\ Added(t, f)[j] \in LinesOf(f)
    BY <1>3, ElementOfSeq
  <2>2. CASE f = "ledger"
    <3>1. b.rows[f][i] \in Entries /\ Added(t, f)[j] \in Entries
      BY <2>1, <2>2 DEF LinesOf
    <3>2. b.rows[f][i].txn # Added(t, f)[j].txn
      BY <2>2, AddedIsNew
    <3> QED
      BY <1>1, <3>1, <3>2
  <2>3. CASE f # "ledger"
    <3>1. b.rows[f][i] \in Rows /\ Added(t, f)[j] \in Rows
      BY <2>1, <2>3 DEF LinesOf
    <3>2. b.rows[f][i].id # Added(t, f)[j].id
      BY <2>3, AddedIsNew
    <3> QED
      BY <1>2, <3>1, <3>2
  <2> QED
    BY <2>2, <2>3
<1>5. ASSUME NEW i \in 1..Len(Added(t, f)), NEW j \in 1..Len(Added(t, f)), i # j
      PROVE  RecordId(Added(t, f)[i]) # RecordId(Added(t, f)[j])
  <2> DEFINE n == Len(Added(t, f))
  <2>1. n \in 0..2 /\ i \in 1..n /\ j \in 1..n
    BY AddedShape
  <2> HIDE DEF n
  <2>2. n = 2 /\ ((i = 1 /\ j = 2) \/ (i = 2 /\ j = 1))
    BY <1>5, <2>1
  <2>3. f = "ledger" /\ t.kind = "hold"
    BY <2>2, AddedShape DEF n
  <2>4. /\ Added(t, f)[1].act = "legal-hold.recorded"
        /\ Added(t, f)[2].act = "case.legal-hold-changed"
    BY <2>3 DEF Added, EntriesOf, EntryOf
  <2>5. Added(t, f)[1] \in Entries /\ Added(t, f)[2] \in Entries
    <3>1. Added(t, f)[i] \in LinesOf(f) /\ Added(t, f)[j] \in LinesOf(f)
      BY <1>3, ElementOfSeq
    <3> QED
      BY <2>2, <2>3, <3>1 DEF LinesOf
  <2>6. RecordId(Added(t, f)[1]) # RecordId(Added(t, f)[2])
    BY <1>1, <2>4, <2>5
  <2> QED
    BY <2>2, <2>6
<1> QED
  BY <1>4, <1>5

\* What it takes for an operation to be stuck: the second ledger entry of a
\* legal hold, cut short where the two entries no longer agree.
Stuck(d, t) ==
    /\ t.kind = "hold"
    /\ d.tail["ledger"].cut = "long"
    /\ d.tail["ledger"].rec = EntriesOf(t)[2]

\* An append can be repeated in every state of its file but the stuck one.
LEMMA AppendPossible ==
  ASSUME NEW d, DiskTyped(d), NEW b, DiskTyped(b), Intact(b), NEW t \in Txns,
         BuiltOn(t, b), NEW f \in Files, NEW n \in 0..Len(Added(t, f)),
         Reaches(d, b, t, f, n), NEW j \in 1..Len(Added(t, f)),
         j = 2 => Done(d, t, AppendOp(f, Added(t, f)[1])),
         ~Stuck(d, t)
  PROVE  CanAppend(d, f, Added(t, f)[j])
<1> DEFINE add == Added(t, f)
           w == Whole(d, n, f)
           s == ReadJsonl(d, f)
           L == Len(add)
<1>1. /\ w \in 0..L /\ Grown(s, b.rows[f], add, w)
      /\ add[j] \in Ids(s) <=> j <= w
      /\ \A k \in 1..L : add[k] \in Ids(d.rows[f]) <=> k <= n
  BY ReadGrown
<1>2. L \in 0..2 /\ j \in 1..L /\ n \in 0..L
  BY AddedShape
<1>3. s \in Seq(LinesOf(f)) /\ Len(b.rows[f]) \in Nat
  BY ReadTyped
<1>4. j = 2 => d.tail[f] = NoTail
  BY DEF Done, AppendOp
<1>5. Readable(d, f) \/ PrefixOf(d.tail[f], add[j])
  <2>1. CASE d.tail[f] = NoTail
    BY <2>1, NoTailTyped DEF Readable
  <2>2. CASE d.tail[f] # NoTail
    <3>1. /\ n < L /\ d.tail[f].rec = add[n + 1]
          /\ d.tail[f].cut \in {"short", "long", "unterminated"}
      BY <2>2 DEF Reaches
    <3>2. CASE d.tail[f].cut # "long"
      BY <3>1, <3>2 DEF Readable, PrefixOf
    <3>3. CASE d.tail[f].cut = "long"
      <4> HIDE DEF L
      <4>1. j = 1
        BY <1>2, <1>4, <2>2
      <4>2. n = 0 \/ (n = 1 /\ L = 2)
        BY <1>2, <3>1
      <4>3. ASSUME n = 1, L = 2 PROVE FALSE
        <5>1. f = "ledger" /\ t.kind = "hold"
          BY <4>3, AddedShape DEF L
        <5>2. add[2] = EntriesOf(t)[2]
          BY <5>1 DEF Added
        <5> QED
          BY <3>1, <3>3, <4>3, <5>1, <5>2 DEF Stuck
      <4> QED
        BY <3>1, <3>3, <4>1, <4>2, <4>3 DEF PrefixOf
    <3> QED
      BY <3>2, <3>3
  <2> QED
    BY <2>1, <2>2
<1>6. ASSUME add[j] \notin Ids(s), NEW r \in Ids(s)
      PROVE  RecordId(r) # RecordId(add[j])
  <2>1. PICK i \in 1..Len(s) : r = s[i]
    BY DEF Ids
  <2>2. Len(s) = Len(b.rows[f]) + w
    BY <1>1 DEF Grown
  <2>3. CASE i <= Len(b.rows[f])
    <3>1. i \in 1..Len(b.rows[f]) /\ r = b.rows[f][i]
      BY <1>1, <1>3, <2>1, <2>3 DEF Grown
    <3> QED
      BY <3>1, RecordIdsDiffer
  <2>4. CASE ~(i <= Len(b.rows[f]))
    <3> DEFINE k == i - Len(b.rows[f])
    <3>1. k \in 1..w /\ Len(b.rows[f]) + k = i
      <4> DEFINE base == Len(b.rows[f])
      <4>1. i \in 1..(base + w) /\ base \in Nat /\ w \in Nat /\ ~(i <= base)
        BY <1>1, <1>3, <2>1, <2>2, <2>4
      <4>2. k = i - base
        OBVIOUS
      <4> HIDE DEF base, k, w
      <4>3. k \in 1..w /\ base + k = i
        BY <4>1, <4>2
      <4> QED
        BY <4>3 DEF base
    <3>2. r = add[k]
      BY <1>1, <2>1, <3>1 DEF Grown
    <3>3. k \in 1..L /\ k # j
      BY <1>1, <1>2, <1>6, <3>1
    <3> HIDE DEF k
    <3> QED
      BY <3>2, <3>3, RecordIdsDiffer
  <2> QED
    BY <2>3, <2>4
<1> QED
  BY <1>5, <1>6 DEF CanAppend

\* ... and so can every other operation.
LEMMA ApplyPossible ==
  ASSUME NEW d, DiskTyped(d), NEW b, DiskTyped(b), Intact(b), NEW t \in Txns,
         BuiltOn(t, b), Partial(d, b, t), NEW i \in 1..Len(OpsOf(t)),
         \A k \in 1..(i - 1) : Done(d, t, OpsOf(t)[k]),
         ~Stuck(d, t),
         t.kind = "artifact" => t.id \in d.staged \union d.installed
  PROVE  CanApply(d, t, OpsOf(t)[i])
<1>1. CASE OpsOf(t)[i] = InstallOp /\ t.kind = "artifact" /\ i = 1
  BY <1>1 DEF CanApply, InstallOp
<1>2. CASE OpsOf(t)[i] = ReplaceOp
  BY <1>2 DEF CanApply, ReplaceOp, Partial
<1>3. CASE \E f \in Files : \E j \in 1..Len(Added(t, f)) :
             /\ OpsOf(t)[i] = AppendOp(f, Added(t, f)[j])
             /\ j = 2 => i > 1 /\ OpsOf(t)[i - 1] = AppendOp(f, Added(t, f)[1])
  <2>5. PICK f \in Files : \E j \in 1..Len(Added(t, f)) :
             /\ OpsOf(t)[i] = AppendOp(f, Added(t, f)[j])
             /\ j = 2 => i > 1 /\ OpsOf(t)[i - 1] = AppendOp(f, Added(t, f)[1])
    BY <1>3
  <2>1. PICK j \in 1..Len(Added(t, f)) :
             /\ OpsOf(t)[i] = AppendOp(f, Added(t, f)[j])
             /\ j = 2 => i > 1 /\ OpsOf(t)[i - 1] = AppendOp(f, Added(t, f)[1])
    BY <2>5
  <2>2. j = 2 => Done(d, t, AppendOp(f, Added(t, f)[1]))
    <3>1. Len(OpsOf(t)) \in Nat
      BY OpsTyped
    <3>2. i > 1 => i - 1 \in 1..(i - 1)
      BY <3>1
    <3> QED
      BY <2>1, <3>2
  <2>3. PICK n \in 0..Len(Added(t, f)) : Reaches(d, b, t, f, n)
    BY DEF Partial
  <2>4. CanAppend(d, f, Added(t, f)[j])
    BY <2>2, <2>3, AppendPossible
  <2> QED
    BY <2>1, <2>4 DEF CanApply, AppendOp
<1> QED
  BY <1>1, <1>2, <1>3, OpShape

LEMMA InstallEffect ==
  ASSUME NEW d, DiskTyped(d), NEW t
  PROVE  LET e == ApplyOperation(d, t, InstallOp)
         IN  /\ e.doc = d.doc /\ e.rows = d.rows /\ e.tail = d.tail
             /\ e.staged = d.staged \ {t.id}
             /\ e.installed = d.installed \union {t.id}
<1>1. ApplyOperation(d, t, InstallOp) =
        [d EXCEPT !.staged = @ \ {t.id}, !.installed = @ \union {t.id}]
  BY DEF ApplyOperation, InstallOp
<1> QED
  BY <1>1 DEF DiskTyped, Disks

LEMMA ReplaceEffect ==
  ASSUME NEW d, DiskTyped(d), NEW t
  PROVE  LET e == ApplyOperation(d, t, ReplaceOp)
         IN  /\ e.doc = t.after /\ e.rows = d.rows /\ e.tail = d.tail
             /\ e.staged = d.staged /\ e.installed = d.installed
<1>1. ApplyOperation(d, t, ReplaceOp) = [d EXCEPT !.doc = t.after]
  BY DEF ApplyOperation, ReplaceOp
<1> QED
  BY <1>1 DEF DiskTyped, Disks

\* A file reaches what it reached while it is not written.
LEMMA ReachesSame ==
  ASSUME NEW d, NEW e, NEW b, NEW t, NEW f, NEW n, Reaches(d, b, t, f, n),
         e.rows[f] = d.rows[f], e.tail[f] = d.tail[f]
  PROVE  Reaches(e, b, t, f, n)
  BY DEF Reaches

\* An operation applied in its turn moves the files on, and undoes no other.
LEMMA ApplyMoves ==
  ASSUME NEW d, DiskTyped(d), NEW b, DiskTyped(b), Intact(b), NEW t \in Txns,
         BuiltOn(t, b), Partial(d, b, t), NEW i \in 1..Len(OpsOf(t)),
         \A k \in 1..(i - 1) : Done(d, t, OpsOf(t)[k])
  PROVE  LET e == ApplyOperation(d, t, OpsOf(t)[i])
         IN  /\ Partial(e, b, t)
             /\ \A k \in 1..i : Done(e, t, OpsOf(t)[k])
             /\ \A f \in Files : e.tail[f] \in {d.tail[f], NoTail}
             /\ d.staged \union d.installed \subseteq e.staged \union e.installed
             /\ e.staged \subseteq d.staged
             /\ t.kind # "artifact" => e.staged = d.staged
             /\ \A x \in d.staged : x \in e.staged \/ x = t.id
<1> DEFINE op == OpsOf(t)[i]
           e == ApplyOperation(d, t, op)
<1>0. Len(OpsOf(t)) \in Nat
  BY OpsTyped
<1>1. CASE op = InstallOp /\ t.kind = "artifact" /\ i = 1
  <2>1. /\ e.doc = d.doc /\ e.rows = d.rows /\ e.tail = d.tail
        /\ e.installed = d.installed \union {t.id} /\ e.staged = d.staged \ {t.id}
    <3> DEFINE g == ApplyOperation(d, t, InstallOp)
    <3>1. /\ g.doc = d.doc /\ g.rows = d.rows /\ g.tail = d.tail
          /\ g.installed = d.installed \union {t.id} /\ g.staged = d.staged \ {t.id}
      BY InstallEffect
    <3>2. e = g
      BY <1>1
    <3> HIDE DEF g, e
    <3> QED
      BY <3>1, <3>2
  <2>2. Partial(e, b, t)
    <3>1. ASSUME NEW f \in Files PROVE \E n \in 0..Len(Added(t, f)) : Reaches(e, b, t, f, n)
      <4>1. PICK n \in 0..Len(Added(t, f)) : Reaches(d, b, t, f, n)
        BY DEF Partial
      <4>2. e.rows[f] = d.rows[f] /\ e.tail[f] = d.tail[f]
        BY <2>1
      <4> QED
        BY <4>1, <4>2, ReachesSame
    <3>2. e.doc \in {t.before, t.after} /\ e.installed = b.installed \union {t.id}
      BY <2>1 DEF Partial
    <3> QED
      BY <1>1, <3>1, <3>2 DEF Partial
  <2>3. \A k \in 1..i : Done(e, t, OpsOf(t)[k])
    BY <1>1, <2>1 DEF Done, InstallOp
  <2> QED
    BY <1>1, <2>1, <2>2, <2>3
<1>2. CASE op = ReplaceOp /\ t.kind \in GovernanceKinds
  <2>1. /\ e.doc = t.after /\ e.rows = d.rows /\ e.tail = d.tail
        /\ e.installed = d.installed /\ e.staged = d.staged
    BY <1>2, ReplaceEffect
  <2>2. Partial(e, b, t)
    <3>1. ASSUME NEW f \in Files PROVE \E n \in 0..Len(Added(t, f)) : Reaches(e, b, t, f, n)
      BY <2>1, ReachesSame DEF Partial
    <3> QED
      BY <2>1, <3>1 DEF Partial
  <2>3. \A k \in 1..(i - 1) : Done(e, t, OpsOf(t)[k])
    BY <2>1 DEF Done
  <2>4. Done(e, t, op)
    BY <1>2, <2>1 DEF Done, ReplaceOp
  <2>5. \A k \in 1..i : k \in 1..(i - 1) \/ k = i
    BY <1>0
  <2> QED
    BY <2>1, <2>2, <2>3, <2>4, <2>5
<1>3. ASSUME NEW f \in Files, NEW j \in 1..Len(Added(t, f)),
             op = AppendOp(f, Added(t, f)[j]),
             j = 2 => i > 1 /\ OpsOf(t)[i - 1] = AppendOp(f, Added(t, f)[1])
      PROVE  /\ Partial(e, b, t)
             /\ \A k \in 1..i : Done(e, t, OpsOf(t)[k])
             /\ \A g \in Files : e.tail[g] \in {d.tail[g], NoTail}
             /\ e.staged = d.staged /\ e.installed = d.installed
  <2>1. e = AppendIdempotent(d, f, Added(t, f)[j])
    BY <1>3 DEF ApplyOperation, AppendOp
  <2>2. j = 2 => Done(d, t, AppendOp(f, Added(t, f)[1]))
    <3>1. i > 1 => i - 1 \in 1..(i - 1)
      BY <1>0
    <3> QED
      BY <1>3, <3>1
  <2>3. PICK n \in 0..Len(Added(t, f)) : Reaches(d, b, t, f, n)
    BY DEF Partial
  <2>4. /\ \E m \in 0..Len(Added(t, f)) : Reaches(e, b, t, f, m) /\ n <= m /\ j <= m
        /\ e.tail[f] = NoTail
        /\ e.doc = d.doc /\ e.installed = d.installed /\ e.staged = d.staged
        /\ \A g \in Files \ {f} : e.rows[g] = d.rows[g] /\ e.tail[g] = d.tail[g]
    BY <2>1, <2>2, <2>3, AppendReaches
  <2>5. PICK m \in 0..Len(Added(t, f)) : Reaches(e, b, t, f, m) /\ n <= m /\ j <= m
    BY <2>4
  <2>6. DiskTyped(e)
    BY ApplyTyped
  <2>7. /\ \A k \in 1..Len(Added(t, f)) : Added(t, f)[k] \in Ids(e.rows[f]) <=> k <= m
        /\ \A k \in 1..Len(Added(t, f)) : Added(t, f)[k] \in Ids(d.rows[f]) <=> k <= n
    BY <2>3, <2>5, <2>6, ReadGrown
  <2> HIDE DEF e, op
  <2>8. Partial(e, b, t)
    <3>1. ASSUME NEW g \in Files PROVE \E l \in 0..Len(Added(t, g)) : Reaches(e, b, t, g, l)
      <4>1. CASE g = f
        BY <2>5, <4>1
      <4>2. CASE g # f
        <5>1. e.rows[g] = d.rows[g] /\ e.tail[g] = d.tail[g]
          BY <2>4, <4>2
        <5>2. PICK l \in 0..Len(Added(t, g)) : Reaches(d, b, t, g, l)
          BY DEF Partial
        <5> QED
          BY <5>1, <5>2, ReachesSame
      <4> QED
        BY <4>1, <4>2
    <3> QED
      BY <2>4, <3>1 DEF Partial
  <2>9. Done(e, t, op)
    BY <1>3, <2>4, <2>5, <2>7 DEF Done, AppendOp
  <2>10. ASSUME NEW k \in 1..(i - 1) PROVE Done(e, t, OpsOf(t)[k])
    <3>1. k \in 1..Len(OpsOf(t)) /\ Done(d, t, OpsOf(t)[k])
      BY <1>0
    <3>2. CASE OpsOf(t)[k] = InstallOp \/ OpsOf(t)[k] = ReplaceOp
      BY <2>4, <3>1, <3>2 DEF Done, InstallOp, ReplaceOp
    <3>3. ASSUME NEW g \in Files, NEW l \in 1..Len(Added(t, g)),
                 OpsOf(t)[k] = AppendOp(g, Added(t, g)[l])
          PROVE  Done(e, t, OpsOf(t)[k])
      <4>1. Added(t, g)[l] \in Ids(d.rows[g]) /\ d.tail[g] = NoTail
        BY <3>1, <3>3 DEF Done, AppendOp
      <4>2. Added(t, g)[l] \in Ids(e.rows[g]) /\ e.tail[g] = NoTail
        <5>1. CASE g = f
          <6>1. l <= n
            BY <2>7, <4>1, <5>1
          <6>2. l <= m
            BY <2>5, <6>1
          <6> QED
            BY <2>4, <2>7, <5>1, <6>2
        <5>2. CASE g # f
          BY <2>4, <4>1, <5>2
        <5> QED
          BY <5>1, <5>2
      <4> QED
        BY <3>3, <4>2 DEF Done, AppendOp
    <3> QED
      BY <3>1, <3>2, <3>3, OpShape
  <2>11. \A k \in 1..i : Done(e, t, OpsOf(t)[k])
    <3>1. \A k \in 1..i : k \in 1..(i - 1) \/ k = i
      BY <1>0
    <3> QED
      BY <2>9, <2>10, <3>1 DEF op
  <2>12. \A g \in Files : e.tail[g] \in {d.tail[g], NoTail}
    BY <2>4
  <2> QED
    BY <2>4, <2>8, <2>11, <2>12
<1> HIDE DEF e
<1>4. CASE \E f \in Files : \E j \in 1..Len(Added(t, f)) :
             /\ op = AppendOp(f, Added(t, f)[j])
             /\ j = 2 => i > 1 /\ OpsOf(t)[i - 1] = AppendOp(f, Added(t, f)[1])
  BY <1>3, <1>4 DEF e
<1> QED
  BY <1>1, <1>2, <1>4, OpShape DEF e

(***************************************************************************)
(* From the first operation to the last.                                   *)
(***************************************************************************)
\* An operation cut short leaves the file with the lines it had, and perhaps
\* the beginning of the next one.
LEMMA TornKeeps ==
  ASSUME NEW d, DiskTyped(d), NEW b, DiskTyped(b), Intact(b), NEW t \in Txns,
         BuiltOn(t, b), Partial(d, b, t), NEW i \in 1..Len(OpsOf(t)),
         \A k \in 1..(i - 1) : Done(d, t, OpsOf(t)[k]),
         NEW e \in Torn(d, t, OpsOf(t)[i])
  PROVE  Partial(e, b, t) /\ e.staged = d.staged /\ e.installed = d.installed
<1>0. Len(OpsOf(t)) \in Nat
  BY OpsTyped
<1>1. CASE e = d
  BY <1>1
<1>2. CASE e # d
  <2>1. OpsOf(t)[i].type = "append"
    BY <1>2 DEF Torn
  <2>2. PICK f \in Files : \E j \in 1..Len(Added(t, f)) :
             /\ OpsOf(t)[i] = AppendOp(f, Added(t, f)[j])
             /\ j = 2 => i > 1 /\ OpsOf(t)[i - 1] = AppendOp(f, Added(t, f)[1])
    BY <2>1, OpShape DEF InstallOp, ReplaceOp
  <2>3. PICK j \in 1..Len(Added(t, f)) :
             /\ OpsOf(t)[i] = AppendOp(f, Added(t, f)[j])
             /\ j = 2 => i > 1 /\ OpsOf(t)[i - 1] = AppendOp(f, Added(t, f)[1])
    BY <2>2
  <2> DEFINE rec == Added(t, f)[j]
             tails == {NoTail} \union
                      {[cut |-> c, rec |-> rec] : c \in {"short", "long", "unterminated"}}
  <2>4. /\ rec \notin Ids(ReadJsonl(d, f)) /\ d.tail[f].cut # "unterminated"
        /\ \E tail \in tails : e = SetFile(d, f, d.rows[f], tail)
    BY <1>2, <2>3 DEF Torn, AppendOp
  <2>5. PICK tail \in tails : e = SetFile(d, f, d.rows[f], tail)
    BY <2>4
  <2>6. PICK n \in 0..Len(Added(t, f)) : Reaches(d, b, t, f, n)
    BY DEF Partial
  <2>7. /\ \A k \in 1..Len(Added(t, f)) : Added(t, f)[k] \in Ids(d.rows[f]) <=> k <= n
        /\ \A k \in 1..Len(Added(t, f)) :
             Added(t, f)[k] \in Ids(ReadJsonl(d, f)) <=> k <= Whole(d, n, f)
    BY <2>6, ReadGrown
  <2>8. Whole(d, n, f) = n /\ ~(j <= n)
    BY <2>4, <2>7 DEF Whole
  <2>9. j = n + 1 /\ n < Len(Added(t, f))
    <3> DEFINE l == Len(Added(t, f))
    <3>1. l \in 0..2 /\ j \in 1..l /\ n \in 0..l
      BY AddedShape
    <3>2. j = 2 => n >= 1
      <4> SUFFICES ASSUME j = 2 PROVE n >= 1
        OBVIOUS
      <4>1. i - 1 \in 1..(i - 1) /\ OpsOf(t)[i - 1] = AppendOp(f, Added(t, f)[1])
        BY <1>0, <2>3
      <4>2. Added(t, f)[1] \in Ids(d.rows[f])
        BY <4>1 DEF Done, AppendOp
      <4>3. 1 \in 1..Len(Added(t, f))
        BY <3>1
      <4> QED
        BY <2>7, <3>1, <4>2, <4>3
    <3> HIDE DEF l
    <3>3. j = n + 1 /\ n < l
      BY <2>8, <3>1, <3>2
    <3> QED
      BY <3>3 DEF l
  <2>10. Reaches(e, b, t, f, n)
    <3>1. e.rows[f] = d.rows[f] /\ e.tail[f] = tail
      BY <2>5, SetFileLeaves
    <3>2. tail = NoTail \/ (tail.cut \in {"short", "long", "unterminated"} /\ tail.rec = Added(t, f)[n + 1])
      BY <2>9
    <3> QED
      BY <2>6, <2>9, <3>1, <3>2 DEF Reaches
  <2>11. /\ e.doc = d.doc /\ e.installed = d.installed /\ e.staged = d.staged
         /\ \A g \in Files \ {f} : e.rows[g] = d.rows[g] /\ e.tail[g] = d.tail[g]
    BY <2>5, SetFileLeaves
  <2>12. ASSUME NEW g \in Files PROVE \E l \in 0..Len(Added(t, g)) : Reaches(e, b, t, g, l)
    <3>1. CASE g = f
      BY <2>10, <3>1
    <3>2. CASE g # f
      <4>1. PICK l \in 0..Len(Added(t, g)) : Reaches(d, b, t, g, l)
        BY DEF Partial
      <4> QED
        BY <2>11, <3>2, <4>1, ReachesSame
    <3> QED
      BY <3>1, <3>2
  <2> QED
    BY <2>11, <2>12 DEF Partial
<1> QED
  BY <1>1, <1>2

\* When every operation is done the files hold the whole transaction.
LEMMA AllDoneCompletes ==
  ASSUME NEW d, DiskTyped(d), NEW b, DiskTyped(b), Intact(b), NEW t \in Txns,
         BuiltOn(t, b), Partial(d, b, t),
         \A k \in 1..Len(OpsOf(t)) : Done(d, t, OpsOf(t)[k])
  PROVE  Complete(d, b, t)
<1>1. d.doc = t.after
  <2>1. CASE t.kind \in GovernanceKinds
    BY <2>1, OpsCover DEF Done, ReplaceOp
  <2>2. CASE t.kind \notin GovernanceKinds
    BY <2>2 DEF Partial, BuiltOn, Changed, GovernanceKinds
  <2> QED
    BY <2>1, <2>2
<1>2. d.installed = IF t.kind = "artifact" THEN b.installed \union {t.id} ELSE b.installed
  <2>1. CASE t.kind = "artifact"
    <3>1. t.id \in d.installed
      <4>1. 1 \in 1..Len(OpsOf(t)) /\ OpsOf(t)[1] = InstallOp
        BY <2>1, OpsCover
      <4> QED
        BY <4>1 DEF Done, InstallOp
    <3> QED
      BY <2>1, <3>1 DEF Partial
  <2>2. CASE t.kind # "artifact"
    BY <2>2 DEF Partial
  <2> QED
    BY <2>1, <2>2
<1>3. ASSUME NEW f \in Files
      PROVE  d.tail[f] = NoTail /\ Grown(d.rows[f], b.rows[f], Added(t, f), Len(Added(t, f)))
  <2>1. PICK n \in 0..Len(Added(t, f)) : Reaches(d, b, t, f, n)
    BY DEF Partial
  <2>2. \A k \in 1..Len(Added(t, f)) : Added(t, f)[k] \in Ids(d.rows[f]) <=> k <= n
    BY <2>1, ReadGrown
  <2>3. \A k \in 1..Len(Added(t, f)) : k <= n /\ d.tail[f] = NoTail
    <3> TAKE k \in 1..Len(Added(t, f))
    <3>1. PICK i \in 1..Len(OpsOf(t)) : OpsOf(t)[i] = AppendOp(f, Added(t, f)[k])
      BY OpsCover
    <3>2. Done(d, t, AppendOp(f, Added(t, f)[k]))
      BY <3>1
    <3> QED
      BY <2>2, <3>2 DEF Done, AppendOp
  <2> DEFINE l == Len(Added(t, f))
  <2>4. l \in 0..2 /\ n \in 0..l
    BY AddedShape
  <2>5. (\A k \in 1..l : k <= n /\ d.tail[f] = NoTail) /\ (d.tail[f] = NoTail \/ n < l)
    BY <2>1, <2>3 DEF Reaches
  <2> HIDE DEF l
  <2>6. n = l /\ d.tail[f] = NoTail
    BY <2>4, <2>5
  <2> QED
    BY <2>1, <2>6 DEF Reaches, l
<1> QED
  BY <1>1, <1>2, <1>3 DEF Complete

(***************************************************************************)
(* A completed transaction leaves an intact case.                          *)
(***************************************************************************)
\* The ledger of a completed transaction, entry by entry.
LEMMA CompleteLedger ==
  ASSUME NEW d, DiskTyped(d), NEW b, DiskTyped(b), NEW t \in Txns, Complete(d, b, t)
  PROVE  LET old == b.rows["ledger"]
             new == d.rows["ledger"]
             e == EntriesOf(t)
         IN  /\ Len(old) \in Nat \ {0} /\ Len(new) = Len(old) + Len(e)
             /\ Len(e) = IF t.kind = "hold" THEN 2 ELSE 1
             /\ \A i \in 1..Len(old) : new[i] = old[i]
             /\ new[Len(old) + 1] = e[1]
             /\ t.kind = "hold" => new[Len(old) + 2] = e[2]
             /\ \A i \in 1..Len(new) : \/ i \in 1..Len(old) \/ i = Len(old) + 1
                                       \/ t.kind = "hold" /\ i = Len(old) + 2
<1> DEFINE old == b.rows["ledger"]
           new == d.rows["ledger"]
           e == EntriesOf(t)
<1>1. Added(t, "ledger") = e /\ "ledger" \in Files
  BY DEF Added, Files
<1>2. Grown(new, old, e, Len(e))
  BY <1>1 DEF Complete
<1>3. Len(e) = IF t.kind = "hold" THEN 2 ELSE 1
  BY DEF EntriesOf, Kinds, Txns
<1>4. Len(old) \in Nat \ {0}
  BY ReadTyped, EmptySeq DEF Files, DiskTyped
<1> HIDE DEF old, new, e
<1>5. /\ Len(new) = Len(old) + Len(e)
      /\ \A i \in 1..Len(old) : new[i] = old[i]
      /\ \A i \in 1..Len(e) : new[Len(old) + i] = e[i]
  BY <1>2 DEF Grown
<1>6. CASE t.kind = "hold"
  <2>1. new[Len(old) + 1] = e[1] /\ new[Len(old) + 2] = e[2]
    BY <1>3, <1>5, <1>6
  <2>2. \A i \in 1..Len(new) : i \in 1..Len(old) \/ i = Len(old) + 1 \/ i = Len(old) + 2
    BY <1>3, <1>4, <1>5, <1>6
  <2> QED
    BY <1>3, <1>4, <1>5, <1>6, <2>1, <2>2 DEF old, new, e
<1>7. CASE t.kind # "hold"
  <2>1. new[Len(old) + 1] = e[1]
    BY <1>3, <1>5, <1>7
  <2>2. \A i \in 1..Len(new) : i \in 1..Len(old) \/ i = Len(old) + 1
    BY <1>3, <1>4, <1>5, <1>7
  <2> QED
    BY <1>3, <1>4, <1>5, <1>7, <2>1, <2>2 DEF old, new, e
<1> QED
  BY <1>6, <1>7

\* What the entries of a transaction say.
LEMMA EntriesShape ==
  ASSUME NEW t \in Txns
  PROVE  LET e == EntriesOf(t)
         IN  /\ e[1].txn = t.id /\ e[1].prev = t.prev
             /\ e[1].before = t.before /\ e[1].after = t.after
             /\ e[1].act = CASE t.kind = "record" -> "record.added"
                             [] t.kind = "artifact" -> "artifact.added"
                             [] t.kind = "status" -> "case.status-changed"
                             [] t.kind = "retention" -> "case.retention-changed"
                             [] t.kind = "note" -> "noted"
                             [] t.kind = "hold" -> "legal-hold.recorded"
             /\ t.kind = "hold" =>
                  /\ e[2].txn = t.id /\ e[2].prev = EntryId(e[1])
                  /\ e[2].before = t.before /\ e[2].after = t.after
                  /\ e[2].act = "case.legal-hold-changed"
<1>1. ASSUME NEW act, NEW prev
      PROVE  LET x == EntryOf(t, act, prev)
             IN  /\ x.txn = t.id /\ x.act = act /\ x.prev = prev
                 /\ x.before = t.before /\ x.after = t.after
  BY DEF EntryOf
<1>2. CASE t.kind = "hold"
  <2>1. /\ EntriesOf(t)[1] = EntryOf(t, "legal-hold.recorded", t.prev)
        /\ EntriesOf(t)[2] = EntryOf(t, "case.legal-hold-changed",
                                     EntryId(EntryOf(t, "legal-hold.recorded", t.prev)))
    BY <1>2 DEF EntriesOf
  <2> QED
    BY <1>1, <1>2, <2>1
<1>3. ASSUME NEW act, EntriesOf(t) = <<EntryOf(t, act, t.prev)>>
      PROVE  LET x == EntriesOf(t)[1]
             IN  /\ x.txn = t.id /\ x.act = act /\ x.prev = t.prev
                 /\ x.before = t.before /\ x.after = t.after
  <2>1. EntriesOf(t)[1] = EntryOf(t, act, t.prev)
    BY <1>3
  <2> QED
    BY <1>1, <2>1
<1>4. CASE t.kind # "hold"
  <2>1. EntriesOf(t) = <<EntryOf(t, CASE t.kind = "record" -> "record.added"
                             [] t.kind = "artifact" -> "artifact.added"
                             [] t.kind = "status" -> "case.status-changed"
                             [] t.kind = "retention" -> "case.retention-changed"
                             [] t.kind = "note" -> "noted"
                             [] t.kind = "hold" -> "legal-hold.recorded", t.prev)>>
    BY <1>4 DEF EntriesOf, Txns, Kinds
  <2> QED
    BY <1>3, <1>4, <2>1
<1> QED
  BY <1>2, <1>4

\* The entries of a completed transaction continue the chain.
LEMMA CompleteChain ==
  ASSUME NEW d, DiskTyped(d), NEW b, DiskTyped(b), Intact(b), NEW t \in Txns,
         BuiltOn(t, b), Complete(d, b, t)
  PROVE  ChainIntact(d.rows["ledger"])
<1> DEFINE old == b.rows["ledger"]
           new == d.rows["ledger"]
           e == EntriesOf(t)
<1>1. /\ Len(old) \in Nat \ {0} /\ Len(new) = Len(old) + Len(e)
      /\ \A i \in 1..Len(old) : new[i] = old[i]
      /\ new[Len(old) + 1] = e[1]
      /\ t.kind = "hold" => new[Len(old) + 2] = e[2]
      /\ \A i \in 1..Len(new) : \/ i \in 1..Len(old) \/ i = Len(old) + 1
                                \/ t.kind = "hold" /\ i = Len(old) + 2
  BY CompleteLedger
<1>2. e[1].prev = t.prev /\ (t.kind = "hold" => e[2].prev = EntryId(e[1]))
  BY EntriesShape
<1>3. \A i \in 1..Len(old) : old[i].prev = IF i = 1 THEN NoEntry ELSE EntryId(old[i - 1])
  BY DEF Intact, ChainIntact
<1>4. t.prev = EntryId(old[Len(old)])
  <2>1. old \in Seq(LinesOf("ledger"))
    BY ReadTyped DEF Files
  <2> QED
    BY <2>1 DEF BuiltOn, Last
<1> HIDE DEF old, new, e
<1>5. ASSUME NEW i \in 1..Len(new)
      PROVE  new[i].prev = IF i = 1 THEN NoEntry ELSE EntryId(new[i - 1])
  <2>1. CASE i \in 1..Len(old)
    <3>1. i # 1 => i - 1 \in 1..Len(old)
      BY <1>1, <2>1
    <3> QED
      BY <1>1, <1>3, <2>1, <3>1
  <2>2. CASE i = Len(old) + 1
    <3>1. i # 1 /\ i - 1 = Len(old) /\ Len(old) \in 1..Len(old)
      BY <1>1, <2>2
    <3> QED
      BY <1>1, <1>2, <1>4, <2>2, <3>1
  <2>3. CASE t.kind = "hold" /\ i = Len(old) + 2
    <3>1. i # 1 /\ i - 1 = Len(old) + 1
      BY <1>1, <2>3
    <3> QED
      BY <1>1, <1>2, <2>3, <3>1
  <2> QED
    BY <1>1, <2>1, <2>2, <2>3
<1> QED
  BY <1>5 DEF ChainIntact, new

\* The case record changes exactly with the transactions that carry one.
LEMMA ChangedFields ==
  ASSUME NEW doc \in CaseDocs, NEW kind \in Kinds, NEW id \in Nat
  PROVE  /\ kind \notin GovernanceKinds => Changed(doc, kind, id) = doc
         /\ kind = "hold" => Changed(doc, kind, id).held = ~doc.held
         /\ kind # "hold" => Changed(doc, kind, id).held = doc.held
  BY DEF Changed, WithStatus, WithRetention, WithHold, CaseDocs, Kinds, GovernanceKinds

\* The place of the case-carrying entry of a governance change.
CasePlace(b, t) == Len(b.rows["ledger"]) + (IF t.kind = "hold" THEN 2 ELSE 1)

CaseEntriesGrow(old, new, t, place) ==
    /\ {i \in 1..Len(new) : new[i].act = "case.created"} =
       {i \in 1..Len(old) : old[i].act = "case.created"}
    /\ CaseEntries(new) = IF t.kind \in GovernanceKinds
                          THEN CaseEntries(old) \union {place}
                          ELSE CaseEntries(old)
    /\ t.kind \in GovernanceKinds =>
         new[place].before = t.before /\ new[place].after = t.after

LEMMA CompleteCaseEntries ==
  ASSUME NEW d, DiskTyped(d), NEW b, DiskTyped(b), Intact(b), NEW t \in Txns,
         BuiltOn(t, b), Complete(d, b, t)
  PROVE  CaseEntriesGrow(b.rows["ledger"], d.rows["ledger"], t, CasePlace(b, t))
<1> DEFINE old == b.rows["ledger"]
           new == d.rows["ledger"]
           e == EntriesOf(t)
           place == CasePlace(b, t)
<1>1. /\ Len(old) \in Nat \ {0} /\ Len(new) = Len(old) + Len(e)
      /\ Len(e) = IF t.kind = "hold" THEN 2 ELSE 1
      /\ \A i \in 1..Len(old) : new[i] = old[i]
      /\ new[Len(old) + 1] = e[1]
      /\ t.kind = "hold" => new[Len(old) + 2] = e[2]
      /\ \A i \in 1..Len(new) : \/ i \in 1..Len(old) \/ i = Len(old) + 1
                                \/ t.kind = "hold" /\ i = Len(old) + 2
  BY CompleteLedger
<1>2. t.kind \in Kinds
  BY DEF Txns
<1>3. /\ e[1].before = t.before /\ e[1].after = t.after
      /\ e[1].act # "case.created"
      /\ e[1].act \in CaseActions <=> t.kind \in {"status", "retention"}
      /\ t.kind = "hold" => /\ e[2].before = t.before /\ e[2].after = t.after
                            /\ e[2].act = "case.legal-hold-changed"
  BY <1>2, EntriesShape DEF Kinds, CaseActions
<1>4. place = Len(old) + (IF t.kind = "hold" THEN 2 ELSE 1)
  BY DEF CasePlace
<1> HIDE DEF old, new, e, place
<1>5. /\ t.kind = "hold" => place = Len(old) + 2
      /\ t.kind # "hold" => place = Len(old) + 1
      /\ \A i \in 1..Len(old) : i \in 1..Len(new)
      /\ Len(old) + 1 \in 1..Len(new)
      /\ t.kind = "hold" => Len(old) + 2 \in 1..Len(new)
  BY <1>1, <1>4
<1>6. t.kind = "hold" => e[2].act # "case.created" /\ e[2].act \in CaseActions
  BY <1>3 DEF CaseActions
<1>7. {i \in 1..Len(new) : new[i].act = "case.created"} =
      {i \in 1..Len(old) : old[i].act = "case.created"}
  BY <1>1, <1>3, <1>5, <1>6
<1>8. t.kind \in GovernanceKinds => new[place].before = t.before /\ new[place].after = t.after
  BY <1>1, <1>3, <1>5 DEF GovernanceKinds
<1>9. CASE t.kind = "hold"
  <2>1. e[1].act \notin CaseActions
    BY <1>3, <1>9
  <2>2. {i \in 1..Len(new) : new[i].act \in CaseActions} =
        {i \in 1..Len(old) : old[i].act \in CaseActions} \union {place}
    BY <1>1, <1>5, <1>6, <1>9, <2>1
  <2> QED
    BY <1>7, <1>8, <1>9, <2>2 DEF CaseEntriesGrow, CaseEntries, GovernanceKinds, old, new, place
<1>10. CASE t.kind \in {"status", "retention"}
  <2>1. e[1].act \in CaseActions /\ t.kind # "hold"
    BY <1>3, <1>10
  <2>2. {i \in 1..Len(new) : new[i].act \in CaseActions} =
        {i \in 1..Len(old) : old[i].act \in CaseActions} \union {place}
    BY <1>1, <1>5, <2>1
  <2> QED
    BY <1>7, <1>8, <1>10, <2>2 DEF CaseEntriesGrow, CaseEntries, GovernanceKinds, old, new, place
<1>11. CASE t.kind \notin GovernanceKinds
  <2>1. e[1].act \notin CaseActions /\ t.kind # "hold"
    BY <1>3, <1>11 DEF GovernanceKinds
  <2>2. {i \in 1..Len(new) : new[i].act \in CaseActions} =
        {i \in 1..Len(old) : old[i].act \in CaseActions}
    BY <1>1, <1>5, <2>1
  <2> QED
    BY <1>7, <1>8, <1>11, <2>2 DEF CaseEntriesGrow, CaseEntries, old, new, place
<1> QED
  BY <1>9, <1>10, <1>11 DEF GovernanceKinds

\* ... and the history of the case record.
LEMMA CompleteDoc ==
  ASSUME NEW d, DiskTyped(d), NEW b, DiskTyped(b), Intact(b), NEW t \in Txns,
         BuiltOn(t, b), Complete(d, b, t)
  PROVE  DocChained(d.rows["ledger"], d.doc)
<1> DEFINE old == b.rows["ledger"]
           new == d.rows["ledger"]
           cs == CaseEntries(old)
           ds == CaseEntries(new)
           place == CasePlace(b, t)
<1>1. /\ {i \in 1..Len(new) : new[i].act = "case.created"} =
         {i \in 1..Len(old) : old[i].act = "case.created"}
      /\ ds = IF t.kind \in GovernanceKinds THEN cs \union {place} ELSE cs
      /\ t.kind \in GovernanceKinds =>
           new[place].before = t.before /\ new[place].after = t.after
  <2>1. CaseEntriesGrow(old, new, t, place)
    BY CompleteCaseEntries
  <2> HIDE DEF old, new, place
  <2> QED
    BY <2>1 DEF CaseEntriesGrow
<1>2. DocChained(old, b.doc)
  BY DEF Intact
<1>3. /\ Cardinality({i \in 1..Len(old) : old[i].act = "case.created"}) = 1
      /\ \A i, j \in cs : i < j /\ (\A k \in cs : ~(i < k /\ k < j)) =>
            old[j].before = old[i].after
      /\ \E m \in cs : old[m].after = b.doc /\ \A j \in cs : j <= m
  BY <1>2 DEF DocChained
<1>4. PICK m \in cs : old[m].after = b.doc /\ \A j \in cs : j <= m
  BY <1>3
<1>5. /\ Len(old) \in Nat \ {0}
      /\ \A i \in 1..Len(old) : new[i] = old[i]
  BY CompleteLedger
<1>6. cs \subseteq 1..Len(old)
  BY DEF CaseEntries
<1>7. place \in Int /\ place > Len(old)
  <2>1. \A n \in Nat : /\ n + (IF t.kind = "hold" THEN 2 ELSE 1) \in Int
                      /\ n + (IF t.kind = "hold" THEN 2 ELSE 1) > n
    OBVIOUS
  <2> QED
    BY <1>5, <2>1, Zenon DEF CasePlace
<1>8. d.doc = t.after /\ t.before = b.doc
  BY DEF Complete, BuiltOn
<1>9. Cardinality({i \in 1..Len(new) : new[i].act = "case.created"}) = 1
  BY <1>1, <1>3
<1> HIDE DEF old, new, cs, ds, place
<1>10. CASE t.kind \in GovernanceKinds
  <2>1. ds = cs \union {place}
    BY <1>1, <1>10
  <2>2. ASSUME NEW i \in ds, NEW j \in ds, i < j, \A k \in ds : ~(i < k /\ k < j)
        PROVE  new[j].before = new[i].after
    <3>1. CASE j \in cs
      <4>1. i \in cs
        BY <1>5, <1>6, <1>7, <2>1, <2>2, <3>1
      <4>2. \A k \in cs : ~(i < k /\ k < j)
        BY <2>1, <2>2
      <4>3. old[j].before = old[i].after
        BY <1>3, <2>2, <3>1, <4>1, <4>2
      <4> QED
        BY <1>5, <1>6, <3>1, <4>1, <4>3
    <3>2. CASE j = place
      <4>1. i \in cs
        BY <1>7, <2>1, <2>2, <3>2
      <4>2. i = m
        <5>1. i <= m /\ ~(i < m /\ m < j) /\ m < j
          BY <1>4, <1>5, <1>6, <1>7, <2>1, <2>2, <3>2, <4>1
        <5>2. i \in Int /\ m \in Int
          BY <1>4, <1>6, <4>1
        <5> QED
          BY <5>1, <5>2
      <4>3. new[i].after = b.doc
        BY <1>4, <1>5, <1>6, <4>2
      <4> QED
        BY <1>1, <1>8, <1>10, <3>2, <4>3
    <3> QED
      BY <2>1, <3>1, <3>2
  <2>3. place \in ds /\ new[place].after = d.doc
    BY <1>1, <1>8, <1>10, <2>1
  <2>4. \A j \in ds : j <= place
    BY <1>5, <1>6, <1>7, <2>1
  <2> QED
    BY <1>9, <2>2, <2>3, <2>4 DEF DocChained, new, ds
<1>11. CASE t.kind \notin GovernanceKinds
  <2>1. ds = cs
    BY <1>1, <1>11
  <2>2. d.doc = b.doc
    BY <1>8, <1>11, ChangedFields DEF BuiltOn, Txns, DiskTyped, Disks
  <2>3. \A i \in cs : new[i] = old[i]
    BY <1>5, <1>6
  <2> QED
    BY <1>3, <1>9, <2>1, <2>2, <2>3 DEF DocChained, new, ds
<1> QED
  BY <1>10, <1>11

\* Its rows have their entries and the entries their rows.
LEMMA CompleteRows ==
  ASSUME NEW d, DiskTyped(d), NEW b, DiskTyped(b), Intact(b), NEW t \in Txns,
         BuiltOn(t, b), Complete(d, b, t), NEW f \in DataFiles
  PROVE  RowsChained(d, f)
<1> DEFINE old == b.rows["ledger"]
           new == d.rows["ledger"]
           e == EntriesOf(t)
           rs == b.rows[f]
           ss == d.rows[f]
           was == {i \in 1..Len(old) : old[i].act = DataAction[f]}
           is == {i \in 1..Len(new) : new[i].act = DataAction[f]}
           next == Len(old) + 1
<1>1. /\ Len(old) \in Nat \ {0} /\ Len(new) = Len(old) + Len(e)
      /\ Len(e) = IF t.kind = "hold" THEN 2 ELSE 1
      /\ \A i \in 1..Len(old) : new[i] = old[i]
      /\ new[next] = e[1]
      /\ t.kind = "hold" => new[Len(old) + 2] = e[2]
      /\ \A i \in 1..Len(new) : \/ i \in 1..Len(old) \/ i = next
                                \/ t.kind = "hold" /\ i = Len(old) + 2
  BY CompleteLedger
<1>2. f \in Files /\ f # "ledger"
  BY DEF Files, DataFiles
<1>3. /\ Grown(ss, rs, Added(t, f), Len(Added(t, f)))
      /\ Len(rs) \in Nat
  BY <1>2, ReadTyped DEF Complete
<1>4. /\ \A i \in was : \E k \in 1..Len(rs) : rs[k].id = old[i].txn
      /\ \A k \in 1..Len(rs) : \E i \in was : rs[k].id = old[i].txn
      /\ \A i, j \in was : old[i].txn = old[j].txn => i = j
      /\ \A i, j \in 1..Len(rs) : rs[i].id = rs[j].id => i = j
  BY DEF Intact, RowsChained
<1>5. t.kind \in Kinds
  BY DEF Txns
<1>6. /\ e[1].txn = t.id
      /\ e[1].act = DataAction[f] <=> Added(t, f) # <<>>
      /\ t.kind = "hold" => e[2].act # DataAction[f]
      /\ Added(t, f) # <<>> => Added(t, f) = <<RowOf(t)>>
  <2>1. CASE f = "records"
    BY <1>5, <2>1, EntriesShape DEF Added, DataAction, DataFiles, Kinds
  <2>2. CASE f = "artifacts"
    BY <1>5, <2>2, EntriesShape DEF Added, DataAction, DataFiles, Kinds
  <2>3. CASE f = "legal_holds"
    BY <1>5, <2>3, EntriesShape DEF Added, DataAction, DataFiles, Kinds
  <2> QED
    BY <2>1, <2>2, <2>3 DEF DataFiles
<1>7. RowOf(t).id = t.id
  BY DEF RowOf
<1>8. \A i \in 1..Len(old) : old[i].txn # t.id
  BY DEF BuiltOn
<1>9. was \subseteq 1..Len(old)
  OBVIOUS
<1>10. is = IF Added(t, f) # <<>> THEN was \union {next} ELSE was
  <2> HIDE DEF old, new, e
  <2>1. /\ \A i \in 1..Len(old) : i \in 1..Len(new)
        /\ next \in 1..Len(new)
    BY <1>1
  <2>2. CASE Added(t, f) # <<>>
    BY <1>1, <1>6, <2>1, <2>2
  <2>3. CASE Added(t, f) = <<>>
    BY <1>1, <1>6, <2>1, <2>3
  <2> QED
    BY <2>2, <2>3
<1>11. \A i \in was : new[i] = old[i]
  BY <1>1, <1>9
<1> HIDE DEF old, new, e, rs, ss, was, is
<1>12. CASE Added(t, f) = <<>>
  <2>1. Len(ss) = Len(rs) /\ \A i \in 1..Len(rs) : ss[i] = rs[i]
    BY <1>3, <1>12 DEF Grown
  <2>2. is = was
    BY <1>10, <1>12
  <2>3. /\ \A i \in is : \E k \in 1..Len(ss) : ss[k].id = new[i].txn
        /\ \A k \in 1..Len(ss) : \E i \in is : ss[k].id = new[i].txn
        /\ \A i, j \in is : new[i].txn = new[j].txn => i = j
        /\ \A i, j \in 1..Len(ss) : ss[i].id = ss[j].id => i = j
    BY <1>4, <1>11, <2>1, <2>2
  <2> QED
    BY <2>3 DEF RowsChained, is, ss, new
<1>13. CASE Added(t, f) # <<>>
  <2>1. /\ Len(ss) = Len(rs) + 1
        /\ \A i \in 1..Len(rs) : ss[i] = rs[i]
        /\ ss[Len(rs) + 1].id = t.id
    <3>1. Added(t, f) = <<RowOf(t)>> /\ Len(Added(t, f)) = 1 /\ Added(t, f)[1] = RowOf(t)
      BY <1>6, <1>13
    <3> QED
      BY <1>3, <1>7, <3>1 DEF Grown
  <2>2. is = was \union {next} /\ new[next].txn = t.id
    BY <1>1, <1>6, <1>10, <1>13
  <2>3. \A i \in was : new[i].txn # t.id
    BY <1>8, <1>9, <1>11
  <2>4. \A k \in 1..Len(rs) : ss[k].id # t.id
    BY <1>4, <1>8, <1>9, <2>1
  <2>5. \A k \in 1..Len(ss) : k \in 1..Len(rs) \/ k = Len(rs) + 1
    BY <1>3, <2>1
  <2>6. Len(rs) + 1 \in 1..Len(ss) /\ \A k \in 1..Len(rs) : k \in 1..Len(ss)
    BY <1>3, <2>1
  <2>7. \A i \in is : \E k \in 1..Len(ss) : ss[k].id = new[i].txn
    BY <1>4, <1>11, <2>1, <2>2, <2>6
  <2>8. \A k \in 1..Len(ss) : \E i \in is : ss[k].id = new[i].txn
    BY <1>4, <1>11, <2>1, <2>2, <2>5
  <2>9. \A i, j \in is : new[i].txn = new[j].txn => i = j
    BY <1>4, <1>11, <2>2, <2>3
  <2>10. \A i, j \in 1..Len(ss) : ss[i].id = ss[j].id => i = j
    BY <1>4, <2>1, <2>4, <2>5
  <2> QED
    BY <2>7, <2>8, <2>9, <2>10 DEF RowsChained, is, ss, new
<1> QED
  BY <1>12, <1>13

\* Its payload has its row.
LEMMA CompleteInstalled ==
  ASSUME NEW d, DiskTyped(d), NEW b, DiskTyped(b), Intact(b), NEW t \in Txns,
         BuiltOn(t, b), Complete(d, b, t)
  PROVE  d.installed = {d.rows["artifacts"][i].id : i \in 1..Len(d.rows["artifacts"])}
<1> DEFINE rs == b.rows["artifacts"]
           ss == d.rows["artifacts"]
           add == Added(t, "artifacts")
<1>1. "artifacts" \in Files
  BY DEF Files, DataFiles
<1>2. Grown(ss, rs, add, Len(add)) /\ Len(rs) \in Nat
  BY <1>1, ReadTyped DEF Complete
<1>3. b.installed = {rs[i].id : i \in 1..Len(rs)}
  BY DEF Intact
<1>4. /\ add = IF t.kind = "artifact" THEN <<RowOf(t)>> ELSE <<>>
      /\ RowOf(t).id = t.id
  BY DEF Added, RowOf
<1>5. d.installed = IF t.kind = "artifact" THEN b.installed \union {t.id} ELSE b.installed
  BY DEF Complete
<1> HIDE DEF rs, ss, add
<1>6. CASE t.kind = "artifact"
  <2>1. add = <<RowOf(t)>> /\ Len(add) = 1 /\ add[1] = RowOf(t)
    BY <1>4, <1>6
  <2>2. /\ Len(ss) = Len(rs) + 1 /\ ss[Len(rs) + 1].id = t.id
        /\ \A i \in 1..Len(rs) : ss[i] = rs[i]
    BY <1>2, <1>4, <2>1 DEF Grown
  <2>3. \A i \in 1..Len(ss) : i \in 1..Len(rs) \/ i = Len(rs) + 1
    BY <1>2, <2>2
  <2>4. Len(rs) + 1 \in 1..Len(ss) /\ \A i \in 1..Len(rs) : i \in 1..Len(ss)
    BY <1>2, <2>2
  <2>5. {ss[i].id : i \in 1..Len(ss)} = {rs[i].id : i \in 1..Len(rs)} \union {t.id}
    BY <2>2, <2>3, <2>4
  <2> QED
    BY <1>3, <1>5, <1>6, <2>5 DEF ss
<1>7. CASE t.kind # "artifact"
  <2>1. Len(ss) = Len(rs) /\ \A i \in 1..Len(rs) : ss[i] = rs[i]
    BY <1>2, <1>4, <1>7 DEF Grown
  <2> QED
    BY <1>3, <1>5, <1>7, <2>1 DEF ss
<1> QED
  BY <1>6, <1>7

\* Its hold follows a release, or its release a hold.
LEMMA CompleteHolds ==
  ASSUME NEW d, DiskTyped(d), NEW b, DiskTyped(b), Intact(b), NEW t \in Txns,
         BuiltOn(t, b), Complete(d, b, t)
  PROVE  HoldsChained(d)
<1> DEFINE rs == b.rows["legal_holds"]
           ss == d.rows["legal_holds"]
           add == Added(t, "legal_holds")
<1>1. "legal_holds" \in Files
  BY DEF Files, DataFiles
<1>2. Grown(ss, rs, add, Len(add)) /\ rs \in Seq(Rows) /\ ss \in Seq(Rows)
  BY <1>1, ReadTyped DEF Complete, LinesOf
<1>3. /\ \A i \in 1..Len(rs) :
           rs[i].what = IF i = 1 \/ rs[i - 1].what = "released"
                        THEN "placed" ELSE "released"
      /\ b.doc.held = (rs # <<>> /\ rs[Len(rs)].what = "placed")
  BY DEF Intact, HoldsChained
<1>4. /\ d.doc = t.after /\ t.before = b.doc
      /\ t.after = Changed(b.doc, t.kind, t.id) /\ b.doc \in CaseDocs
      /\ t.kind \in Kinds /\ t.id \in Nat
  BY DEF Complete, BuiltOn, DiskTyped, Disks, Txns
<1>5. add = IF t.kind = "hold" THEN <<RowOf(t)>> ELSE <<>>
  BY DEF Added
<1>6. Len(rs) \in Nat /\ Len(ss) \in Nat /\ (rs # <<>> <=> Len(rs) # 0) /\ (ss # <<>> <=> Len(ss) # 0)
  BY <1>2, EmptySeq
<1> HIDE DEF rs, ss, add
<1>7. CASE t.kind = "hold"
  <2>1. RowOf(t).what = IF t.after.held THEN "placed" ELSE "released"
    BY <1>7 DEF RowOf
  <2>2. t.after.held = ~b.doc.held /\ b.doc.held \in BOOLEAN
    BY <1>4, <1>7, ChangedFields DEF CaseDocs
  <2>3. add = <<RowOf(t)>> /\ Len(add) = 1 /\ add[1] = RowOf(t)
    BY <1>5, <1>7
  <2>4. /\ Len(ss) = Len(rs) + 1 /\ ss[Len(rs) + 1] = RowOf(t)
        /\ \A i \in 1..Len(rs) : ss[i] = rs[i]
    BY <1>2, <2>3 DEF Grown
  <2>5. Len(rs) # 0 => rs[Len(rs)].what \in {"placed", "released"}
    <3>1. Len(rs) # 0 => Len(rs) \in 1..Len(rs)
      BY <1>6
    <3> QED
      BY <1>3, <3>1
  <2>6. ss[Len(rs) + 1].what = IF Len(rs) + 1 = 1 \/ ss[Len(rs)].what = "released"
                               THEN "placed" ELSE "released"
    <3>1. CASE Len(rs) = 0
      <4>1. Len(rs) + 1 = 1
        BY <3>1
      <4>2. RowOf(t).what = "placed"
        BY <1>3, <1>4, <1>6, <2>1, <2>2, <3>1
      <4> QED
        BY <2>4, <4>1, <4>2
    <3>2. CASE Len(rs) # 0
      <4>1. Len(rs) \in 1..Len(rs) /\ Len(rs) + 1 # 1
        BY <1>6, <3>2
      <4>2. ss[Len(rs)].what = rs[Len(rs)].what
        BY <2>4, <4>1
      <4>3. b.doc.held <=> rs[Len(rs)].what = "placed"
        BY <1>3, <1>6, <3>2
      <4> QED
        BY <2>1, <2>2, <2>4, <2>5, <3>2, <4>1, <4>2, <4>3
    <3> QED
      BY <3>1, <3>2
  <2>7. ASSUME NEW i \in 1..Len(ss)
        PROVE  ss[i].what = IF i = 1 \/ ss[i - 1].what = "released"
                            THEN "placed" ELSE "released"
    <3>1. CASE i = Len(rs) + 1
      <4>1. i - 1 = Len(rs)
        BY <1>6, <3>1
      <4> QED
        BY <2>6, <3>1, <4>1
    <3>2. CASE i \in 1..Len(rs)
      <4>1. i # 1 => i - 1 \in 1..Len(rs)
        BY <1>6, <3>2
      <4> QED
        BY <1>3, <2>4, <3>2, <4>1
    <3>3. i \in 1..Len(rs) \/ i = Len(rs) + 1
      BY <1>6, <2>4
    <3> QED
      BY <3>1, <3>2, <3>3
  <2>8. d.doc.held = (ss # <<>> /\ ss[Len(ss)].what = "placed")
    <3>1. ss # <<>> /\ ss[Len(ss)].what = RowOf(t).what
      BY <1>6, <2>4
    <3>2. t.after.held \in BOOLEAN
      BY <2>2
    <3> QED
      BY <1>4, <2>1, <3>1, <3>2
  <2> QED
    BY <2>7, <2>8 DEF HoldsChained, ss
<1>8. CASE t.kind # "hold"
  <2>1. Len(ss) = Len(rs) /\ \A i \in 1..Len(rs) : ss[i] = rs[i]
    BY <1>2, <1>5, <1>8 DEF Grown
  <2>2. d.doc.held = b.doc.held
    BY <1>4, <1>8, ChangedFields
  <2>3. rs = ss
    BY <1>2, <2>1, SeqEqual
  <2> QED
    BY <1>3, <2>2, <2>3 DEF HoldsChained, ss
<1> QED
  BY <1>7, <1>8

\* So the case a completed transaction leaves is intact again.
LEMMA CompleteIntact ==
  ASSUME NEW d, DiskTyped(d), NEW b, DiskTyped(b), Intact(b), NEW t \in Txns,
         BuiltOn(t, b), Complete(d, b, t)
  PROVE  Intact(d)
  BY CompleteChain, CompleteDoc, CompleteRows, CompleteInstalled, CompleteHolds
     DEF Intact, Complete

(***************************************************************************)
(* verify_case finds an intact case whole.                                 *)
(***************************************************************************)
\* The last case-carrying entry is the largest of their indices.
LEMMA LatestIsLast ==
  ASSUME NEW ledger, NEW m \in CaseEntries(ledger),
         \A j \in CaseEntries(ledger) : j <= m
  PROVE  LatestDoc(ledger) = ledger[m].after
<1> DEFINE cs == CaseEntries(ledger)
<1>1. cs \subseteq Int
  BY DEF CaseEntries
<1> HIDE DEF cs
<1>2. \E x \in cs : \A y \in cs : x >= y
  BY <1>1 DEF cs
<1>3. /\ Max(cs) \in cs
      /\ \A y \in cs : Max(cs) >= y
  BY <1>2 DEF Max
<1>4. Max(cs) = m
  <2>1. m \in cs /\ Max(cs) <= m /\ Max(cs) >= m
    BY <1>3 DEF cs
  <2>2. m \in Int /\ Max(cs) \in Int
    BY <1>1, <1>3, <2>1
  <2> DEFINE x == Max(cs)
  <2> HIDE DEF x
  <2>3. x = m
    BY <2>1, <2>2 DEF x
  <2> QED
    BY <2>3 DEF x
<1> QED
  BY <1>4 DEF LatestDoc, cs

LEMMA IntactReads ==
  ASSUME NEW d, DiskTyped(d), NEW f \in Files, d.tail[f] = NoTail
  PROVE  Readable(d, f) /\ ReadJsonl(d, f) = d.rows[f]
  BY DEF NoTail, Readable, ReadJsonl

\* An intact case is one verify_case finds whole.
LEMMA IntactAgrees ==
  ASSUME NEW d, DiskTyped(d), Intact(d)
  PROVE  FilesAgree(d)
<1>1. /\ \A f \in Files : Readable(d, f) /\ ReadJsonl(d, f) = d.rows[f]
      /\ ReadJsonl(d, "ledger") = d.rows["ledger"]
      /\ ReadJsonl(d, "artifacts") = d.rows["artifacts"]
      /\ ReadJsonl(d, "legal_holds") = d.rows["legal_holds"]
      /\ \A f \in DataFiles : ReadJsonl(d, f) = d.rows[f]
  BY IntactReads DEF Intact, Files, DataFiles
<1>2. CaseHistoryIntact(d.rows["ledger"], d.doc)
  <2> DEFINE ledger == d.rows["ledger"]
             cs == CaseEntries(ledger)
  <2>1. DocChained(ledger, d.doc)
    BY DEF Intact
  <2> HIDE DEF ledger
  <2>2. /\ Cardinality({i \in 1..Len(ledger) : ledger[i].act = "case.created"}) = 1
        /\ \A i, j \in cs : i < j /\ (\A k \in cs : ~(i < k /\ k < j)) =>
              ledger[j].before = ledger[i].after
        /\ \E m \in cs : ledger[m].after = d.doc /\ \A j \in cs : j <= m
    BY <2>1 DEF DocChained
  <2>3. cs \subseteq Int
    BY DEF CaseEntries
  <2>4. LatestDoc(ledger) = d.doc
    BY <2>2, LatestIsLast
  <2> HIDE DEF cs
  <2>5. ASSUME NEW i \in cs, NEW j \in cs, i < j,
               (i + 1)..(j - 1) \intersect cs = {}
        PROVE  ledger[j].before = ledger[i].after
    <3>1. ASSUME NEW k \in cs, i < k, k < j PROVE FALSE
      <4>1. k \in (i + 1)..(j - 1)
        BY <2>3, <3>1
      <4> QED
        BY <2>5, <4>1
    <3> QED
      BY <2>2, <2>5, <3>1
  <2> QED
    BY <2>2, <2>4, <2>5 DEF CaseHistoryIntact, cs, ledger
<1>3. ASSUME NEW f \in DataFiles PROVE RowsMatchLedger(d, f)
  <2> DEFINE ledger == d.rows["ledger"]
             rows == d.rows[f]
             chained == {i \in 1..Len(ledger) : ledger[i].act = DataAction[f]}
  <2>1. RowsChained(d, f)
    BY DEF Intact
  <2>2. /\ \A i \in chained : \E k \in 1..Len(rows) : rows[k].id = ledger[i].txn
        /\ \A k \in 1..Len(rows) : \E i \in chained : rows[k].id = ledger[i].txn
        /\ \A i, j \in chained : ledger[i].txn = ledger[j].txn => i = j
        /\ \A i, j \in 1..Len(rows) : rows[i].id = rows[j].id => i = j
    BY <2>1 DEF RowsChained
  <2>3. ReadJsonl(d, "ledger") = ledger /\ ReadJsonl(d, f) = rows
    BY <1>1
  <2> HIDE DEF ledger, rows
  <2>4. {ledger[i].txn : i \in chained} = {rows[i].id : i \in 1..Len(rows)}
    <3> HIDE DEF chained
    <3> QED
      BY <2>2
  <2> QED
    BY <2>2, <2>3, <2>4 DEF RowsMatchLedger
<1>4. d.installed = {r.id : r \in Ids(ReadJsonl(d, "artifacts"))}
  <2> DEFINE rs == d.rows["artifacts"]
  <2>1. d.installed = {rs[i].id : i \in 1..Len(rs)}
    BY DEF Intact
  <2>2. {r.id : r \in Ids(rs)} = {rs[i].id : i \in 1..Len(rs)}
    BY DEF Ids
  <2> QED
    BY <1>1, <2>1, <2>2
<1>5. HoldHistoryIntact(d)
  <2> DEFINE hs == d.rows["legal_holds"]
  <2>1. /\ \A i \in 1..Len(hs) :
             hs[i].what = IF i = 1 \/ hs[i - 1].what = "released"
                          THEN "placed" ELSE "released"
        /\ d.doc.held = (hs # <<>> /\ hs[Len(hs)].what = "placed")
    BY DEF Intact, HoldsChained
  <2>2. ReadJsonl(d, "legal_holds") = hs
    BY <1>1
  <2> HIDE DEF hs
  <2> QED
    BY <2>1, <2>2 DEF HoldHistoryIntact, Last
<1> QED
  BY <1>1, <1>2, <1>3, <1>4, <1>5 DEF Intact, FilesAgree

(***************************************************************************)
(* What the operations do to the payloads.                                 *)
(***************************************************************************)
\* What an operation does to the payloads, and that a torn one does nothing.
LEMMA PayloadEffect ==
  ASSUME NEW d, DiskTyped(d), NEW t \in Txns, NEW i \in 1..Len(OpsOf(t))
  PROVE  LET e == ApplyOperation(d, t, OpsOf(t)[i])
         IN  /\ d.staged \union d.installed \subseteq e.staged \union e.installed
             /\ e.staged \subseteq d.staged
             /\ \A x \in d.staged : x \in e.staged \/ x = t.id
             /\ t.kind = "artifact" /\ i = 1 => t.id \notin e.staged
<1> DEFINE op == OpsOf(t)[i]
           e == ApplyOperation(d, t, op)
<1>1. /\ \/ op = InstallOp /\ t.kind = "artifact" /\ i = 1
         \/ op = ReplaceOp
         \/ \E f \in Files : \E j \in 1..Len(Added(t, f)) :
               op = AppendOp(f, Added(t, f)[j])
      /\ t.kind = "artifact" /\ i = 1 => op = InstallOp
  BY OpShape, OpsListed
<1>2. CASE op = InstallOp
  BY <1>2, InstallEffect
<1>3. CASE op = ReplaceOp
  <2>1. ReplaceOp # InstallOp
    BY DEF ReplaceOp, InstallOp
  <2> QED
    BY <1>1, <1>3, <2>1, ReplaceEffect
<1>4. CASE \E f \in Files : \E j \in 1..Len(Added(t, f)) :
             op = AppendOp(f, Added(t, f)[j])
  <2>1. op.type = "append" /\ op # InstallOp
    BY <1>4 DEF AppendOp, InstallOp
  <2>2. e = AppendIdempotent(d, op.file, op.rec)
    BY <2>1 DEF ApplyOperation
  <2>3. ASSUME NEW f, NEW rows, NEW tail
        PROVE  /\ SetFile(d, f, rows, tail).staged = d.staged
               /\ SetFile(d, f, rows, tail).installed = d.installed
    BY DEF SetFile, DiskTyped, Disks
  <2>4. e.staged = d.staged /\ e.installed = d.installed
    BY <2>2, <2>3 DEF AppendIdempotent, DiskTyped, Disks
  <2> QED
    BY <1>1, <2>1, <2>4
<1> QED
  BY <1>1, <1>2, <1>3, <1>4

LEMMA TornPayload ==
  ASSUME NEW d, DiskTyped(d), NEW t \in Txns, NEW i \in 1..Len(OpsOf(t)),
         NEW e \in Torn(d, t, OpsOf(t)[i])
  PROVE  e.staged = d.staged /\ e.installed = d.installed
<1>1. ASSUME NEW f, NEW rows, NEW tail
      PROVE  /\ SetFile(d, f, rows, tail).staged = d.staged
             /\ SetFile(d, f, rows, tail).installed = d.installed
  BY DEF SetFile, DiskTyped, Disks
<1> QED
  BY <1>1 DEF Torn

LEMMA TearPayload ==
  ASSUME TypeOK, NEW p \in Procs, Tear(p)
  PROVE  disk'.staged = disk.staged /\ disk'.installed = disk.installed
<1>1. txn[p] \in Txns /\ DiskTyped(disk) /\ at[p] \in Nat \ {0}
  BY DEF TypeOK
<1>2. CASE Applying(p)
  <2>1. at[p] \in 1..Len(OpsOf(txn[p]))
    BY <1>1, <1>2, OpsTyped DEF Applying
  <2>2. disk' \in Torn(disk, txn[p], OpsOf(txn[p])[at[p]])
    BY <1>2 DEF Tear, Op
  <2> QED
    BY <1>1, <2>1, <2>2, TornPayload
<1>3. CASE ~Applying(p)
  BY <1>1, <1>3 DEF Tear
<1> QED
  BY <1>2, <1>3

LEMMA ApplyPayload ==
  ASSUME TypeOK, NEW p \in Procs, Apply(p)
  PROVE  /\ disk.staged \union disk.installed \subseteq disk'.staged \union disk'.installed
         /\ disk'.staged \subseteq disk.staged
         /\ \A x \in disk.staged : x \in disk'.staged \/ x = txn[p].id
         /\ txn[p].kind = "artifact" /\ at[p] = 1 => txn[p].id \notin disk'.staged
<1>1. txn[p] \in Txns /\ DiskTyped(disk) /\ at[p] \in 1..Len(OpsOf(txn[p]))
  BY OpsTyped DEF TypeOK, Apply, Applying
<1>2. disk' = ApplyOperation(disk, txn[p], OpsOf(txn[p])[at[p]])
  BY DEF Apply, Op
<1> QED
  BY <1>1, <1>2, PayloadEffect

(***************************************************************************)
(* Who owns which identifier.                                              *)
(***************************************************************************)
LEMMA IdsInit == Init => JobInv /\ IdInv
  BY DEF Init, JobInv, IdInv, Holder, Unjournaled, FirstDisk

LEMMA JobNext == TypeOK /\ Turns /\ JobInv /\ [Next]_vars => JobInv'
<1> USE DEF JobInv, faults
<1> SUFFICES ASSUME TypeOK, Turns, JobInv, [Next]_vars PROVE JobInv'
  OBVIOUS
<1> USE DEF TypeOK
<1>1. CASE UNCHANGED vars
  BY <1>1 DEF vars
<1>2. ASSUME NEW p \in Procs, StagePayload(p) PROVE JobInv'
  BY <1>2 DEF StagePayload
<1>3. ASSUME NEW p \in Procs, NEW kind \in Kinds, TakeLock(p, kind)
      PROVE JobInv'
  BY <1>3 DEF TakeLock
<1>4. ASSUME NEW p \in Procs, StartRecovery(p) PROVE JobInv'
  BY <1>4 DEF StartRecovery
<1>5. ASSUME NEW p \in Procs, Build(p) PROVE JobInv'
  <2>1. txn'[p].kind = job[p] /\ \A q \in Procs \ {p} : txn'[q] = txn[q]
    BY <1>5 DEF Build
  <2>2. /\ pc'[p] = "built" /\ job' = job
        /\ \A q \in Procs \ {p} : pc'[q] = pc[q]
    BY <1>5 DEF Build
  <2> QED
    BY <2>1, <2>2
<1>6. ASSUME NEW p \in Procs, Refuse(p) PROVE JobInv'
  BY <1>6 DEF Refuse, Raise, Forget
<1>7. ASSUME NEW p \in Procs, WriteJournal(p) PROVE JobInv'
  BY <1>7 DEF WriteJournal
<1>8. ASSUME NEW p \in Procs, Apply(p) PROVE JobInv'
  BY <1>8 DEF Apply
<1>9. ASSUME NEW p \in Procs, ApplyRefused(p) PROVE JobInv'
  BY <1>9 DEF ApplyRefused, Raise, Forget
<1>10. ASSUME NEW p \in Procs, Finish(p) PROVE JobInv'
  BY <1>10 DEF Finish, Forget
<1>11. ASSUME NEW p \in Procs, FinishReplay(p) PROVE JobInv'
  BY <1>11 DEF FinishReplay
<1>12. ASSUME NEW p \in Procs, DropPayload(p) PROVE JobInv'
  BY <1>12 DEF DropPayload, Forget
<1>13. ASSUME NEW p \in Procs, Crash(p) PROVE JobInv'
  BY <1>13 DEF Crash, Forget
<1>14. ASSUME NEW p \in Procs, IOError(p) PROVE JobInv'
  BY <1>14 DEF IOError, Raise, Forget
<1>15. ASSUME NEW p \in Procs, RecoverNothing(p) PROVE JobInv'
  BY <1>15 DEF RecoverNothing, vars
<1>16. ASSUME NEW p \in Procs, UnhandledError(p) PROVE JobInv'
  BY <1>16 DEF UnhandledError, Forget
<1>17. ASSUME NEW p \in Procs, LockError(p) PROVE JobInv'
  BY <1>17 DEF LockError
<1> QED
  BY <1>1, <1>2, <1>3, <1>4, <1>5, <1>6, <1>7, <1>8, <1>9, <1>10, <1>11,
     <1>12, <1>13, <1>14, <1>15, <1>16, <1>17 DEF Next, Progress

LEMMA IdNext == IdsInv /\ [Next]_vars => IdInv'
<1> USE DEF IdInv, JobInv, faults, Holder, Unjournaled
<1> SUFFICES ASSUME IdsInv, [Next]_vars PROVE IdInv'
  OBVIOUS
<1> USE DEF IdsInv, TypeOK
<1>0. /\ \A q \in Procs : txn[q].id \in Nat
      /\ \A t \in journals : t.id \in Nat
  BY DEF Txns
<1>1. CASE UNCHANGED vars
  BY <1>1 DEF vars
<1>2. ASSUME NEW p \in Procs, StagePayload(p) PROVE IdInv'
  <2>1. /\ txn'[p].id = nextId /\ pc'[p] = "staged" /\ nextId' = nextId + 1
        /\ journals' = journals /\ job'[p] = "artifact"
        /\ \A q \in Procs \ {p} : txn'[q] = txn[q] /\ pc'[q] = pc[q] /\ job'[q] = job[q]
    BY <1>2 DEF StagePayload
  <2>2. disk'.staged = disk.staged \union {nextId}
    BY <1>2 DEF StagePayload, DiskTyped, Disks
  <2>3. /\ Holder(p)' /\ Unjournaled(p)'
        /\ \A q \in Procs \ {p} : /\ Holder(q)' <=> Holder(q)
                                /\ Unjournaled(q)' <=> Unjournaled(q)
    BY <2>1
  <2>4. disk.staged \subseteq Nat
    BY DEF DiskTyped, Disks
  <2>5. \A q \in Procs : Holder(q)' => txn'[q].id \in 1..(nextId' - 1)
    BY <1>0, <2>1, <2>3
  <2>6. \A q \in Procs \ {p} : Holder(q)' => txn'[q].id # nextId
    BY <1>0, <2>1, <2>3
  <2>7. /\ \A t \in journals' : t.id \in 1..(nextId' - 1) /\ t.id # nextId
        /\ \A x \in disk'.staged : x < nextId'
    BY <1>0, <2>1, <2>2, <2>4
  <2>8. \A q, r \in Procs : q # r /\ Holder(q)' /\ Holder(r)' => txn'[q].id # txn'[r].id
    BY <2>1, <2>3, <2>6
  <2>9. \A t \in journals' : \A q \in Procs : Unjournaled(q)' => t.id # txn'[q].id
    BY <2>1, <2>3, <2>7
  <2> QED
    BY <2>5, <2>7, <2>8, <2>9
<1>3. ASSUME NEW p \in Procs, NEW kind \in Kinds, TakeLock(p, kind)
      PROVE IdInv'
  BY <1>3 DEF TakeLock
<1>4. ASSUME NEW p \in Procs, StartRecovery(p) PROVE IdInv'
  BY <1>4 DEF StartRecovery
<1>5. ASSUME NEW p \in Procs, Build(p) PROVE IdInv'
  <2>1. /\ txn'[p].id = IF job[p] = "artifact" THEN txn[p].id ELSE nextId
        /\ pc'[p] = "built" /\ pc[p] = "locked" /\ disk' = disk /\ job' = job
        /\ nextId' = IF job[p] = "artifact" THEN nextId ELSE nextId + 1
        /\ journals' = journals /\ journals = {}
        /\ \A q \in Procs \ {p} : txn'[q] = txn[q] /\ pc'[q] = pc[q]
    BY <1>5 DEF Build, Accepted
  <2>2. \A q \in Procs \ {p} : Holder(q)' <=> Holder(q)
    BY <2>1
  <2>3. CASE job[p] = "artifact"
    <3>1. Holder(p) /\ txn'[p].id = txn[p].id /\ nextId' = nextId
      BY <2>1, <2>3
    <3> QED
      BY <2>1, <2>2, <3>1
  <2>4. CASE job[p] # "artifact"
    <3>1. txn'[p].id = nextId /\ nextId' = nextId + 1
      BY <2>1, <2>4
    <3>2. \A q \in Procs \ {p} : Holder(q)' => txn'[q].id \in 1..(nextId - 1)
      BY <2>1, <2>2
    <3>3. \A q \in Procs \ {p} : Holder(q)' => txn'[q].id # nextId
      BY <1>0, <3>2
    <3>4. \A q \in Procs : Holder(q)' => txn'[q].id \in 1..(nextId' - 1)
      BY <1>0, <3>1, <3>2
    <3>5. \A q, r \in Procs : q # r /\ Holder(q)' /\ Holder(r)' => txn'[q].id # txn'[r].id
      BY <2>1, <3>1, <3>3
    <3>6. \A x \in disk'.staged : x < nextId'
      <4>1. disk.staged \subseteq Nat
        BY DEF DiskTyped, Disks
      <4> QED
        BY <2>1, <3>1, <4>1
    <3> QED
      BY <2>1, <3>4, <3>5, <3>6
  <2> QED
    BY <2>3, <2>4
<1>6. ASSUME NEW p \in Procs, Refuse(p) PROVE IdInv'
  BY <1>6 DEF Refuse, Raise, Forget
<1>7. ASSUME NEW p \in Procs, WriteJournal(p) PROVE IdInv'
  BY <1>0, <1>7 DEF WriteJournal
<1>8. ASSUME NEW p \in Procs, Apply(p) PROVE IdInv'
  <2>1. disk'.staged \subseteq disk.staged
    BY <1>8, ApplyPayload
  <2> QED
    BY <1>8, <2>1 DEF Apply
<1>9. ASSUME NEW p \in Procs, ApplyRefused(p) PROVE IdInv'
  <2>1. /\ pc[p] \in {"apply", "replay"} /\ Raise(p)
        /\ journals' = journals /\ disk' = disk /\ nextId' = nextId
    BY <1>9 DEF ApplyRefused, Applying
  <2> QED
    BY <2>1 DEF Raise, Forget
<1>10. ASSUME NEW p \in Procs, Finish(p) PROVE IdInv'
  BY <1>10 DEF Finish, Forget
<1>11. ASSUME NEW p \in Procs, FinishReplay(p) PROVE IdInv'
  BY <1>11 DEF FinishReplay
<1>12. ASSUME NEW p \in Procs, DropPayload(p) PROVE IdInv'
  <2>1. disk'.staged \subseteq disk.staged
    BY <1>12 DEF DropPayload, DiskTyped, Disks
  <2> QED
    BY <1>12, <2>1 DEF DropPayload, Forget
<1>13. ASSUME NEW p \in Procs, Crash(p) PROVE IdInv'
  <2>1. disk'.staged = disk.staged
    BY <1>13, TearPayload DEF Crash
  <2> QED
    BY <1>13, <2>1 DEF Crash, Forget
<1>14. ASSUME NEW p \in Procs, IOError(p) PROVE IdInv'
  <2>1. disk'.staged = disk.staged
    BY <1>14, TearPayload DEF IOError
  <2> QED
    BY <1>14, <2>1 DEF IOError, Raise, Forget, InLock
<1>15. ASSUME NEW p \in Procs, RecoverNothing(p) PROVE IdInv'
  BY <1>15 DEF RecoverNothing, vars
<1>16. ASSUME NEW p \in Procs, UnhandledError(p) PROVE IdInv'
  BY <1>16 DEF UnhandledError, Forget
<1>17. ASSUME NEW p \in Procs, LockError(p) PROVE IdInv'
  BY <1>17 DEF LockError
<1> QED
  BY <1>1, <1>2, <1>3, <1>4, <1>5, <1>6, <1>7, <1>8, <1>9, <1>10, <1>11,
     <1>12, <1>13, <1>14, <1>15, <1>16, <1>17 DEF Next, Progress

\* What the steps of the other callers do to the payloads.
LEMMA DropEffect ==
  ASSUME TypeOK, NEW p \in Procs, DropPayload(p)
  PROVE  /\ pc[p] = "failed"
         /\ disk'.installed = disk.installed /\ disk'.staged \subseteq disk.staged
         /\ \A x \in disk.staged : x # txn[p].id => x \in disk'.staged
         /\ \A t \in journals : t.id \in disk.staged => t.id \in disk'.staged
         /\ (\A t \in journals : t.id # txn[p].id) => txn[p].id \notin disk'.staged
  BY DEF DropPayload, TypeOK, DiskTyped, Disks

LEMMA StageEffect ==
  ASSUME TypeOK, NEW p \in Procs, StagePayload(p)
  PROVE  /\ disk'.installed = disk.installed
         /\ disk'.staged = disk.staged \union {nextId}
  BY DEF StagePayload, TypeOK, DiskTyped, Disks

(***************************************************************************)
(* The payload of an upload is there until it is installed.                *)
(***************************************************************************)
LEMMA PayloadNext == IdsInv /\ PayloadInv /\ [Next]_vars => PayloadInv'
<1> USE DEF PayloadInv, faults, Holder, Unjournaled, IdsInv, TypeOK
<1> SUFFICES ASSUME IdsInv /\ PayloadInv, [Next]_vars PROVE PayloadInv'
  OBVIOUS
<1>1. CASE UNCHANGED vars
  BY <1>1 DEF vars
<1>2. ASSUME NEW p \in Procs, StagePayload(p) PROVE PayloadInv'
  BY <1>2, StageEffect DEF StagePayload
<1>3. ASSUME NEW p \in Procs, NEW kind \in Kinds, TakeLock(p, kind)
      PROVE PayloadInv'
  BY <1>3 DEF TakeLock, JobInv
<1>4. ASSUME NEW p \in Procs, StartRecovery(p) PROVE PayloadInv'
  BY <1>4 DEF StartRecovery
<1>5. ASSUME NEW p \in Procs, Build(p) PROVE PayloadInv'
  <2>1. /\ job[p] = "artifact" => txn'[p].id = txn[p].id
        /\ pc'[p] = "built" /\ pc[p] = "locked" /\ disk' = disk /\ job' = job
        /\ journals' = journals
        /\ \A q \in Procs \ {p} : txn'[q] = txn[q] /\ pc'[q] = pc[q]
    BY <1>5 DEF Build
  <2> QED
    BY <2>1
<1>6. ASSUME NEW p \in Procs, Refuse(p) PROVE PayloadInv'
  BY <1>6 DEF Refuse, Raise, Forget
<1>7. ASSUME NEW p \in Procs, WriteJournal(p) PROVE PayloadInv'
  BY <1>7 DEF WriteJournal, JobInv
<1>8. ASSUME NEW p \in Procs, Apply(p) PROVE PayloadInv'
  <2>1. /\ pc[p] \in {"apply", "replay"}
        /\ journals' = journals /\ pc' = pc /\ job' = job /\ txn' = txn
    BY <1>8 DEF Apply, Applying
  <2>2. txn[p] \in journals
    BY <2>1 DEF Turns, TurnInv
  <2>3. \A q \in Procs : Unjournaled(q) => txn[q].id # txn[p].id
    BY <2>2 DEF IdInv
  <2> QED
    BY <1>8, <2>1, <2>3, ApplyPayload
<1>9. ASSUME NEW p \in Procs, ApplyRefused(p) PROVE PayloadInv'
  BY <1>9 DEF ApplyRefused, Applying, Raise, Forget
<1>10. ASSUME NEW p \in Procs, Finish(p) PROVE PayloadInv'
  BY <1>10 DEF Finish, Forget
<1>11. ASSUME NEW p \in Procs, FinishReplay(p) PROVE PayloadInv'
  BY <1>11 DEF FinishReplay, JobInv
<1>12. ASSUME NEW p \in Procs, DropPayload(p) PROVE PayloadInv'
  <2>1. \A q \in Procs : Unjournaled(q) => txn[q].id # txn[p].id
    BY <1>12, DropEffect DEF IdInv
  <2>2. /\ journals' = journals
        /\ \A q \in Procs : Unjournaled(q)' => /\ q # p /\ Unjournaled(q)
                                              /\ txn'[q] = txn[q] /\ job'[q] = job[q]
    BY <1>12 DEF DropPayload, Forget
  <2> QED
    BY <1>12, <2>1, <2>2, DropEffect
<1>13. ASSUME NEW p \in Procs, Crash(p) PROVE PayloadInv'
  <2>1. disk'.staged = disk.staged /\ disk'.installed = disk.installed
    BY <1>13, TearPayload DEF Crash
  <2> QED
    BY <1>13, <2>1 DEF Crash, Forget
<1>14. ASSUME NEW p \in Procs, IOError(p) PROVE PayloadInv'
  <2>1. disk'.staged = disk.staged /\ disk'.installed = disk.installed
    BY <1>14, TearPayload DEF IOError
  <2> QED
    BY <1>14, <2>1 DEF IOError, Raise, Forget
<1>15. ASSUME NEW p \in Procs, RecoverNothing(p) PROVE PayloadInv'
  BY <1>15 DEF RecoverNothing, vars
<1>16. ASSUME NEW p \in Procs, UnhandledError(p) PROVE PayloadInv'
  BY <1>16 DEF UnhandledError, Forget
<1>17. ASSUME NEW p \in Procs, LockError(p) PROVE PayloadInv'
  BY <1>17 DEF LockError
<1> QED
  BY <1>1, <1>2, <1>3, <1>4, <1>5, <1>6, <1>7, <1>8, <1>9, <1>10, <1>11,
     <1>12, <1>13, <1>14, <1>15, <1>16, <1>17 DEF Next, Progress

(***************************************************************************)
(* Nothing is staged under an identifier whose transaction has no payload, *)
(* and nothing stays staged under that of a payload that is installed.     *)
(***************************************************************************)
LEMMA StagedNext == IdsInv /\ StagedInv /\ [Next]_vars => StagedInv'
<1> USE DEF StagedInv, faults, IdsInv, TypeOK
<1> SUFFICES ASSUME IdsInv /\ StagedInv, [Next]_vars PROVE StagedInv'
  OBVIOUS
<1>1. CASE UNCHANGED vars
  BY <1>1 DEF vars
<1>2. ASSUME NEW p \in Procs, StagePayload(p) PROVE StagedInv'
  <2>1. /\ pc'[p] = "staged" /\ journals' = journals /\ at' = at
        /\ \A q \in Procs \ {p} : txn'[q] = txn[q] /\ pc'[q] = pc[q] /\ job'[q] = job[q]
    BY <1>2 DEF StagePayload
  <2>2. \A t \in journals : t.id # nextId
    BY DEF IdInv
  <2>3. \A q \in Procs : pc[q] = "built" => txn[q].id # nextId
    BY DEF IdInv, Holder
  <2>4. \A q \in Procs : pc[q] \in {"apply", "replay"} => txn[q].id # nextId
    BY <2>2 DEF Turns, TurnInv
  <2> QED
    BY <1>2, <2>1, <2>2, <2>3, <2>4, StageEffect
<1>3. ASSUME NEW p \in Procs, NEW kind \in Kinds, TakeLock(p, kind)
      PROVE StagedInv'
  BY <1>3 DEF TakeLock
<1>4. ASSUME NEW p \in Procs, StartRecovery(p) PROVE StagedInv'
  BY <1>4 DEF StartRecovery
<1>5. ASSUME NEW p \in Procs, Build(p) PROVE StagedInv'
  <2>1. /\ job[p] # "artifact" => txn'[p].id = nextId
        /\ pc'[p] = "built" /\ disk' = disk /\ job' = job
        /\ journals' = journals /\ at' = at
        /\ \A q \in Procs \ {p} : txn'[q] = txn[q] /\ pc'[q] = pc[q]
    BY <1>5 DEF Build
  <2>2. nextId \notin disk.staged
    BY DEF IdInv
  <2> QED
    BY <2>1, <2>2
<1>6. ASSUME NEW p \in Procs, Refuse(p) PROVE StagedInv'
  BY <1>6 DEF Refuse, Raise, Forget
<1>7. ASSUME NEW p \in Procs, WriteJournal(p) PROVE StagedInv'
  BY <1>7 DEF WriteJournal, JobInv
<1>8. ASSUME NEW p \in Procs, Apply(p) PROVE StagedInv'
  <2>1. /\ pc[p] \in {"apply", "replay"}
        /\ journals' = journals /\ pc' = pc /\ job' = job /\ txn' = txn
        /\ at' = [at EXCEPT ![p] = @ + 1]
    BY <1>8 DEF Apply, Applying
  <2>2. txn[p] \in journals
    BY <2>1 DEF Turns, TurnInv
  <2>3. txn[p].id \notin disk'.staged
    <3>1. CASE txn[p].kind # "artifact"
      BY <1>8, <2>2, <3>1, ApplyPayload
    <3>2. CASE at[p] > 1
      BY <1>8, <2>1, <3>2, ApplyPayload
    <3>3. CASE txn[p].kind = "artifact" /\ at[p] = 1
      BY <1>8, <3>3, ApplyPayload
    <3>4. at[p] > 1 \/ at[p] = 1
      OBVIOUS
    <3> QED
      BY <3>1, <3>2, <3>3, <3>4
  <2>4. \A q \in Procs \ {p} : pc[q] \notin {"apply", "replay"}
    BY <2>1 DEF Turns, LockInv, InLock
  <2> QED
    BY <1>8, <2>1, <2>3, <2>4, ApplyPayload
<1>9. ASSUME NEW p \in Procs, ApplyRefused(p) PROVE StagedInv'
  <2>1. /\ disk' = disk /\ journals' = journals /\ pc'[p] \in {"failed", "idle"}
        /\ \A q \in Procs \ {p} : /\ pc'[q] = pc[q] /\ job'[q] = job[q]
                                  /\ txn'[q] = txn[q] /\ at'[q] = at[q]
    BY <1>9 DEF ApplyRefused, Raise, Forget
  <2> QED
    BY <2>1
<1>10. ASSUME NEW p \in Procs, Finish(p) PROVE StagedInv'
  BY <1>10 DEF Finish, Forget
<1>11. ASSUME NEW p \in Procs, FinishReplay(p) PROVE StagedInv'
  BY <1>11 DEF FinishReplay
<1>12. ASSUME NEW p \in Procs, DropPayload(p) PROVE StagedInv'
  <2>1. disk'.staged \subseteq disk.staged
    BY <1>12, DropEffect
  <2>2. /\ journals' = journals /\ at'[p] = 1 /\ pc'[p] = "idle"
        /\ \A q \in Procs \ {p} : /\ pc'[q] = pc[q] /\ job'[q] = job[q]
                                  /\ txn'[q] = txn[q] /\ at'[q] = at[q]
    BY <1>12 DEF DropPayload, Forget
  <2> QED
    BY <2>1, <2>2
<1>13. ASSUME NEW p \in Procs, Crash(p) PROVE StagedInv'
  <2>1. disk'.staged = disk.staged
    BY <1>13, TearPayload DEF Crash
  <2> QED
    BY <1>13, <2>1 DEF Crash, Forget
<1>14. ASSUME NEW p \in Procs, IOError(p) PROVE StagedInv'
  <2>1. disk'.staged = disk.staged
    BY <1>14, TearPayload DEF IOError
  <2> QED
    BY <1>14, <2>1 DEF IOError, Raise, Forget
<1>15. ASSUME NEW p \in Procs, RecoverNothing(p) PROVE StagedInv'
  BY <1>15 DEF RecoverNothing, vars
<1>16. ASSUME NEW p \in Procs, UnhandledError(p) PROVE StagedInv'
  BY <1>16 DEF UnhandledError, Forget
<1>17. ASSUME NEW p \in Procs, LockError(p) PROVE StagedInv'
  BY <1>17 DEF LockError
<1> QED
  BY <1>1, <1>2, <1>3, <1>4, <1>5, <1>6, <1>7, <1>8, <1>9, <1>10, <1>11,
     <1>12, <1>13, <1>14, <1>15, <1>16, <1>17 DEF Next, Progress

(***************************************************************************)
(* Steps that leave the files alone.                                       *)
(***************************************************************************)
SameFiles(d, e) ==
    /\ e.doc = d.doc /\ e.rows = d.rows /\ e.tail = d.tail
    /\ e.installed = d.installed

LEMMA SameFilesKeep ==
  ASSUME NEW d, NEW e, SameFiles(d, e)
  PROVE  /\ Intact(d) => Intact(e)
         /\ \A b, t : Partial(d, b, t) => Partial(e, b, t)
         /\ \A t : BuiltOn(t, d) => BuiltOn(t, e)
         /\ \A t, op : Done(d, t, op) => Done(e, t, op)
<1> USE DEF SameFiles
<1>1. Intact(d) => Intact(e)
  BY DEF Intact, RowsChained, HoldsChained
<1>2. ASSUME NEW b, NEW t, Partial(d, b, t) PROVE Partial(e, b, t)
  BY <1>2 DEF Partial, Reaches
<1>3. ASSUME NEW t, BuiltOn(t, d) PROVE BuiltOn(t, e)
  BY <1>3 DEF BuiltOn
<1>4. ASSUME NEW t, NEW op, Done(d, t, op) PROVE Done(e, t, op)
  BY <1>4 DEF Done
<1> QED
  BY <1>1, <1>2, <1>3, <1>4

\* A transaction that has changed nothing yet.
LEMMA FreshPartial ==
  ASSUME NEW d, DiskTyped(d), Intact(d), NEW t \in Txns, BuiltOn(t, d)
  PROVE  Partial(d, d, t)
<1>1. ASSUME NEW f \in Files PROVE \E n \in 0..Len(Added(t, f)) : Reaches(d, d, t, f, n)
  <2>1. Len(Added(t, f)) \in Nat /\ d.rows[f] \in Seq(LinesOf(f))
    BY AddedShape, ReadTyped
  <2>2. 0 \in 0..Len(Added(t, f)) /\ Len(d.rows[f]) \in Nat
    BY <2>1
  <2>3. Grown(d.rows[f], d.rows[f], Added(t, f), 0)
    <3> DEFINE k == Len(d.rows[f])
    <3>1. k \in Nat
      BY <2>2
    <3> HIDE DEF k
    <3>2. k = k + 0
      BY <3>1
    <3> QED
      BY <3>2 DEF Grown, k
  <2>4. d.tail[f] = NoTail
    BY DEF Intact
  <2> QED
    BY <2>2, <2>3, <2>4 DEF Reaches
<1> QED
  BY <1>1 DEF Partial, BuiltOn

\* The identifiers in use only become more, one at a time.
LEMMA UnjournaledStep ==
  ASSUME IdsInv, [Next]_vars
  PROVE  /\ nextId' >= nextId
         /\ \A q \in Procs : Unjournaled(q)' =>
               \/ Unjournaled(q) /\ txn'[q].id = txn[q].id
               \/ txn'[q].id = nextId
<1> DEFINE Goal == /\ nextId' >= nextId
                   /\ \A q \in Procs : Unjournaled(q)' =>
                         \/ Unjournaled(q) /\ txn'[q].id = txn[q].id
                         \/ txn'[q].id = nextId
<1> SUFFICES Goal
  OBVIOUS
<1> USE DEF Holder, Unjournaled, IdsInv, TypeOK, faults
<1>1. CASE UNCHANGED vars
  BY <1>1 DEF vars
<1>2. ASSUME NEW p \in Procs, StagePayload(p) PROVE Goal
  BY <1>2 DEF StagePayload
<1>3. ASSUME NEW p \in Procs, NEW kind \in Kinds, TakeLock(p, kind)
      PROVE Goal
  BY <1>3 DEF TakeLock
<1>4. ASSUME NEW p \in Procs, StartRecovery(p) PROVE Goal
  BY <1>4 DEF StartRecovery
<1>5. ASSUME NEW p \in Procs, Build(p) PROVE Goal
  <2>1. /\ txn'[p].id = IF job[p] = "artifact" THEN txn[p].id ELSE nextId
        /\ pc[p] = "locked" /\ job' = job /\ nextId' \in {nextId, nextId + 1}
        /\ \A q \in Procs \ {p} : txn'[q] = txn[q] /\ pc'[q] = pc[q]
    BY <1>5 DEF Build
  <2> QED
    BY <2>1
<1>6. ASSUME NEW p \in Procs, Refuse(p) PROVE Goal
  BY <1>6 DEF Refuse, Raise, Forget
<1>7. ASSUME NEW p \in Procs, WriteJournal(p) PROVE Goal
  BY <1>7 DEF WriteJournal
<1>8. ASSUME NEW p \in Procs, Apply(p) PROVE Goal
  BY <1>8 DEF Apply
<1>9. ASSUME NEW p \in Procs, ApplyRefused(p) PROVE Goal
  BY <1>9 DEF ApplyRefused, Applying, Raise, Forget
<1>10. ASSUME NEW p \in Procs, Finish(p) PROVE Goal
  BY <1>10 DEF Finish, Forget
<1>11. ASSUME NEW p \in Procs, FinishReplay(p) PROVE Goal
  BY <1>11 DEF FinishReplay, JobInv
<1>12. ASSUME NEW p \in Procs, DropPayload(p) PROVE Goal
  BY <1>12 DEF DropPayload, Forget
<1>13. ASSUME NEW p \in Procs, Crash(p) PROVE Goal
  BY <1>13 DEF Crash, Forget
<1>14. ASSUME NEW p \in Procs, IOError(p) PROVE Goal
  BY <1>14 DEF IOError, Raise, Forget
<1>15. ASSUME NEW p \in Procs, RecoverNothing(p) PROVE Goal
  BY <1>15 DEF RecoverNothing, vars
<1>16. ASSUME NEW p \in Procs, UnhandledError(p) PROVE Goal
  BY <1>16 DEF UnhandledError, Forget
<1>17. ASSUME NEW p \in Procs, LockError(p) PROVE Goal
  BY <1>17 DEF LockError
<1> QED
  BY <1>1, <1>2, <1>3, <1>4, <1>5, <1>6, <1>7, <1>8, <1>9, <1>10, <1>11,
     <1>12, <1>13, <1>14, <1>15, <1>16, <1>17 DEF Next, Progress


\* A base stays a base.
LEMMA BaseStep ==
  ASSUME IdsInv, [Next]_vars, NEW b, Base(b)
  PROVE  Base(b)'
<1> DEFINE ledger == b.rows["ledger"]
<1>1. /\ DiskTyped(b) /\ Intact(b)
      /\ \A i \in 1..Len(ledger) :
           /\ ledger[i].txn < nextId
           /\ \A p \in Procs : Unjournaled(p) => ledger[i].txn # txn[p].id
  BY DEF Base
<1>2. ledger \in Seq(Entries)
  BY <1>1, ReadTyped DEF LinesOf, Files
<1>3. \A i \in 1..Len(ledger) : ledger[i].txn \in Nat
  <2> HIDE DEF ledger
  <2>1. \A i \in 1..Len(ledger) : ledger[i] \in Entries
    BY <1>2, ElementOfSeq
  <2>2. \A e \in Entries : e.txn \in Nat
    BY DEF Entries
  <2> QED
    BY <2>1, <2>2
<1>4. nextId \in Nat /\ nextId' \in Nat
  BY TypeNext DEF IdsInv, TypeOK
<1>5. /\ nextId' >= nextId
      /\ \A q \in Procs : Unjournaled(q)' =>
            \/ Unjournaled(q) /\ txn'[q].id = txn[q].id
            \/ txn'[q].id = nextId
  BY UnjournaledStep
<1> HIDE DEF ledger
<1>6. \A i \in 1..Len(ledger) : ledger[i].txn < nextId'
  BY <1>1, <1>3, <1>4, <1>5
<1>7. \A i \in 1..Len(ledger) : ledger[i].txn # nextId
  BY <1>1, <1>3, <1>4
<1>8. ASSUME NEW i \in 1..Len(ledger), NEW q \in Procs, Unjournaled(q)'
      PROVE  ledger[i].txn # txn'[q].id
  BY <1>1, <1>5, <1>7, <1>8
<1> QED
  BY <1>1, <1>6, <1>8 DEF Base, ledger

\* Nobody else touches the files while a process is past the journal check.
LEMMA OthersIdle ==
  ASSUME Turns, NEW p \in Procs, NEW q \in Procs, pc[p] \in InLock, pc[q] \in InLock
  PROVE  p = q
  BY DEF Turns, LockInv

(***************************************************************************)
(* Every step keeps the pending transaction on its base.                   *)
(***************************************************************************)
\* What a step may do to the files: nothing, an operation, or a part of one.
LEMMA DiskStep ==
  ASSUME TypeOK, [Next]_vars
  PROVE  \/ SameFiles(disk, disk')
         \/ \E p \in Procs : Apply(p)
         \/ \E p \in Procs : Applying(p) /\ disk' \in Torn(disk, txn[p], Op(p))
<1> DEFINE Goal == \/ SameFiles(disk, disk')
                   \/ \E p \in Procs : Apply(p)
                   \/ \E p \in Procs : Applying(p) /\ disk' \in Torn(disk, txn[p], Op(p))
<1> SUFFICES Goal
  OBVIOUS
<1> USE DEF SameFiles
<1>1. CASE UNCHANGED vars
  BY <1>1 DEF vars
<1>2. ASSUME NEW p \in Procs, StagePayload(p) PROVE Goal
  BY <1>2 DEF StagePayload, TypeOK, DiskTyped, Disks
<1>3. ASSUME NEW p \in Procs, NEW kind \in Kinds, TakeLock(p, kind)
      PROVE Goal
  BY <1>3 DEF TakeLock
<1>4. ASSUME NEW p \in Procs, StartRecovery(p) PROVE Goal
  BY <1>4 DEF StartRecovery
<1>5. ASSUME NEW p \in Procs, Build(p) PROVE Goal
  BY <1>5 DEF Build, Accepted
<1>6. ASSUME NEW p \in Procs, Refuse(p) PROVE Goal
  BY <1>6 DEF Refuse, Raise, Forget
<1>7. ASSUME NEW p \in Procs, WriteJournal(p) PROVE Goal
  BY <1>7 DEF WriteJournal
<1>8. ASSUME NEW p \in Procs, Apply(p) PROVE Goal
  BY <1>8
<1>9. ASSUME NEW p \in Procs, ApplyRefused(p) PROVE Goal
  BY <1>9 DEF ApplyRefused, Applying, Raise, Forget
<1>10. ASSUME NEW p \in Procs, Finish(p) PROVE Goal
  BY <1>10 DEF Finish, Forget
<1>11. ASSUME NEW p \in Procs, FinishReplay(p) PROVE Goal
  BY <1>11 DEF FinishReplay
<1>12. ASSUME NEW p \in Procs, DropPayload(p) PROVE Goal
  BY <1>12 DEF DropPayload, TypeOK, DiskTyped, Disks
<1>13. ASSUME NEW p \in Procs, Crash(p) PROVE Goal
  BY <1>13 DEF Crash, Tear
<1>14. ASSUME NEW p \in Procs, IOError(p) PROVE Goal
  BY <1>14 DEF IOError, Tear
<1>15. ASSUME NEW p \in Procs, RecoverNothing(p) PROVE Goal
  BY <1>15 DEF RecoverNothing, vars
<1>16. ASSUME NEW p \in Procs, UnhandledError(p) PROVE Goal
  BY <1>16 DEF UnhandledError
<1>17. ASSUME NEW p \in Procs, LockError(p) PROVE Goal
  BY <1>17 DEF LockError
<1> QED
  BY <1>1, <1>2, <1>3, <1>4, <1>5, <1>6, <1>7, <1>8, <1>9, <1>10, <1>11,
     <1>12, <1>13, <1>14, <1>15, <1>16, <1>17 DEF Next, Progress


\* Whoever applies operations applies those of the pending transaction, and
\* the ones before are done.
LEMMA ApplyingPending ==
  ASSUME TypeOK, Turns, ApplyInv, NEW p \in Procs, Applying(p)
  PROVE  /\ journals = {txn[p]} /\ txn[p] \in Txns
         /\ at[p] \in 1..Len(OpsOf(txn[p]))
         /\ \A k \in 1..(at[p] - 1) : Done(disk, txn[p], OpsOf(txn[p])[k])
<1>1. pc[p] \in {"apply", "replay"} /\ at[p] <= Len(OpsOf(txn[p]))
  BY DEF Applying
<1>2. txn[p] \in Txns /\ at[p] \in Nat \ {0}
  BY DEF TypeOK
<1>3. Len(OpsOf(txn[p])) \in Nat
  BY <1>2, OpsTyped
<1>4. at[p] \in 1..Len(OpsOf(txn[p]))
  BY <1>1, <1>2, <1>3
<1> QED
  BY <1>1, <1>2, <1>4 DEF Turns, TurnInv, ApplyInv

\* What is pending stays built on what it was built on, while operations are
\* applied, cut short, or applied again.
LEMMA PendingStep ==
  ASSUME FilesInv, [Next]_vars, NEW t \in journals, NEW b, PendingOn(b, t)
  PROVE  PendingOn(b, t)'
<1> USE DEF FilesInv, IdsInv
<1>1. Base(b) /\ BuiltOn(t, b) /\ Partial(disk, b, t)
  BY DEF PendingOn
<1>2. DiskTyped(b) /\ Intact(b) /\ DiskTyped(disk) /\ t \in Txns
  BY <1>1 DEF Base, TypeOK
<1>3. Base(b)'
  BY <1>1, BaseStep
<1>4. CASE SameFiles(disk, disk')
  <2>1. Partial(disk', b, t)
    BY <1>1, <1>4, SameFilesKeep
  <2> QED
    BY <1>1, <1>3, <2>1 DEF PendingOn
<1>5. ASSUME NEW p \in Procs, Apply(p) PROVE PendingOn(b, t)'
  <2>1. Applying(p) /\ disk' = ApplyOperation(disk, txn[p], OpsOf(txn[p])[at[p]])
    BY <1>5 DEF Apply, Op
  <2>2. t = txn[p] /\ at[p] \in 1..Len(OpsOf(t))
        /\ \A k \in 1..(at[p] - 1) : Done(disk, t, OpsOf(t)[k])
    BY <2>1, ApplyingPending
  <2>3. Partial(disk', b, t)
    BY <1>1, <1>2, <2>1, <2>2, ApplyMoves
  <2> QED
    BY <1>1, <1>3, <2>3 DEF PendingOn
<1>6. ASSUME NEW p \in Procs, Applying(p), disk' \in Torn(disk, txn[p], Op(p))
      PROVE  PendingOn(b, t)'
  <2>1. t = txn[p] /\ at[p] \in 1..Len(OpsOf(t))
        /\ \A k \in 1..(at[p] - 1) : Done(disk, t, OpsOf(t)[k])
    BY <1>6, ApplyingPending
  <2>2. disk' \in Torn(disk, t, OpsOf(t)[at[p]])
    BY <1>6, <2>1 DEF Op
  <2>3. Partial(disk', b, t)
    BY <1>1, <1>2, <2>1, <2>2, TornKeeps
  <2> QED
    BY <1>1, <1>3, <2>3 DEF PendingOn
<1> QED
  BY <1>4, <1>5, <1>6, DiskStep

\* The transaction Build makes is built on the files as they are.
LEMMA BuildsOn ==
  ASSUME FilesInv, NEW p \in Procs, Build(p)
  PROVE  BuiltOn(txn'[p], disk)
<1> USE DEF FilesInv, IdsInv
<1>1. journals = {} /\ Permitted(disk.doc, job[p]) /\ pc[p] = "locked"
  BY DEF Build, Accepted
<1>2. Base(disk)
  BY <1>1 DEF StoreInv
<1>3. /\ txn'[p].id = IF job[p] = "artifact" THEN txn[p].id ELSE nextId
      /\ txn'[p].kind = job[p] /\ txn'[p].before = disk.doc
      /\ txn'[p].after = Changed(disk.doc, job[p], txn'[p].id)
      /\ txn'[p].prev = EntryId(Last(ReadJsonl(disk, "ledger")))
  BY DEF Build, TypeOK
<1>4. ReadJsonl(disk, "ledger") = disk.rows["ledger"]
  BY <1>2, IntactReads DEF Base, Intact, Files
<1>5. \A i \in 1..Len(disk.rows["ledger"]) : disk.rows["ledger"][i].txn # txn'[p].id
  <2> DEFINE ledger == disk.rows["ledger"]
  <2>1. \A i \in 1..Len(ledger) : /\ ledger[i].txn < nextId
                                  /\ Unjournaled(p) => ledger[i].txn # txn[p].id
    BY <1>2 DEF Base
  <2>2. ledger \in Seq(Entries) /\ nextId \in Nat
    BY ReadTyped DEF LinesOf, Files, TypeOK
  <2> HIDE DEF ledger
  <2>3. \A i \in 1..Len(ledger) : ledger[i] \in Entries
    BY <2>2, ElementOfSeq
  <2>4. \A e \in Entries : e.txn \in Nat
    BY DEF Entries
  <2>5. \A i \in 1..Len(ledger) : ledger[i].txn # nextId
    BY <2>1, <2>2, <2>3, <2>4
  <2>6. job[p] = "artifact" => Unjournaled(p)
    BY <1>1 DEF Unjournaled, Holder
  <2> QED
    BY <1>3, <2>1, <2>5, <2>6 DEF ledger
<1> QED
  BY <1>1, <1>3, <1>4, <1>5 DEF BuiltOn

\* When the last operation is done nothing of the transaction is missing.
LEMMA FinishedIsComplete ==
  ASSUME FilesInv, NEW p \in Procs, pc[p] \in {"apply", "replay"}, ~Applying(p),
         NEW b, PendingOn(b, txn[p])
  PROVE  Complete(disk, b, txn[p])
<1> USE DEF FilesInv, IdsInv
<1> DEFINE t == txn[p]
<1>1. journals = {t} /\ t \in Txns /\ at[p] \in Nat
  BY DEF Turns, TurnInv, TypeOK
<1>2. at[p] = Len(OpsOf(t)) + 1
  <2>1. Len(OpsOf(t)) \in Nat
    BY <1>1, OpsTyped
  <2>2. at[p] <= Len(OpsOf(t)) + 1 /\ ~(at[p] <= Len(OpsOf(t)))
    BY DEF ApplyInv, Applying
  <2> DEFINE k == Len(OpsOf(t))
  <2> HIDE DEF k
  <2>3. k \in Nat /\ at[p] <= k + 1 /\ ~(at[p] <= k)
    BY <2>1, <2>2 DEF k
  <2>4. at[p] = k + 1
    BY <1>1, <2>3
  <2> QED
    BY <2>4 DEF k
<1>3. \A k \in 1..Len(OpsOf(t)) : Done(disk, t, OpsOf(t)[k])
  <2>1. \A k \in 1..(at[p] - 1) : Done(disk, t, OpsOf(t)[k])
    BY DEF ApplyInv
  <2>2. at[p] - 1 = Len(OpsOf(t))
    BY <1>1, <1>2, OpsTyped
  <2> QED
    BY <2>1, <2>2
<1>4. DiskTyped(b) /\ Intact(b) /\ BuiltOn(t, b) /\ Partial(disk, b, t) /\ DiskTyped(disk)
  BY DEF PendingOn, Base, TypeOK
<1> QED
  BY <1>1, <1>3, <1>4, AllDoneCompletes

\* The files are those of an intact case again.
LEMMA FinishedIsBase ==
  ASSUME FilesInv, NEW p \in Procs, pc[p] \in {"apply", "replay"}, ~Applying(p)
  PROVE  Base(disk)
<1> USE DEF FilesInv, IdsInv
<1> DEFINE t == txn[p]
<1>1. journals = {t} /\ t \in Txns
  BY DEF Turns, TurnInv, TypeOK
<1>4. PICK b : PendingOn(b, t)
  BY <1>1 DEF StoreInv
<1>5. DiskTyped(b) /\ Intact(b) /\ BuiltOn(t, b) /\ Partial(disk, b, t) /\ DiskTyped(disk)
  BY <1>4 DEF PendingOn, Base, TypeOK
<1>6. Complete(disk, b, t)
  BY <1>4, FinishedIsComplete
<1>7. Intact(disk)
  BY <1>1, <1>5, <1>6, CompleteIntact
<1> DEFINE old == b.rows["ledger"]
           new == disk.rows["ledger"]
           e == EntriesOf(t)
<1>8. /\ \A i \in 1..Len(old) : new[i] = old[i]
      /\ new[Len(old) + 1] = e[1]
      /\ t.kind = "hold" => new[Len(old) + 2] = e[2]
      /\ \A i \in 1..Len(new) : \/ i \in 1..Len(old) \/ i = Len(old) + 1
                                \/ t.kind = "hold" /\ i = Len(old) + 2
      /\ e[1].txn = t.id /\ (t.kind = "hold" => e[2].txn = t.id)
  BY <1>1, <1>5, <1>6, CompleteLedger, EntriesShape
<1>9. /\ \A i \in 1..Len(old) :
           /\ old[i].txn < nextId
           /\ \A q \in Procs : Unjournaled(q) => old[i].txn # txn[q].id
  BY <1>4 DEF PendingOn, Base
<1>10. t.id < nextId /\ \A q \in Procs : Unjournaled(q) => t.id # txn[q].id
  <2>1. t.id \in 1..(nextId - 1) /\ nextId \in Nat
    BY <1>1 DEF IdInv, TypeOK
  <2> QED
    BY <1>1, <2>1 DEF IdInv
<1> HIDE DEF old, new, e, t
<1>11. \A i \in 1..Len(new) : new[i].txn = t.id \/ \E j \in 1..Len(old) : new[i] = old[j]
  BY <1>8
<1>12. \A i \in 1..Len(new) :
           /\ new[i].txn < nextId
           /\ \A q \in Procs : Unjournaled(q) => new[i].txn # txn[q].id
  BY <1>9, <1>10, <1>11
<1> QED
  BY <1>5, <1>7, <1>12 DEF Base, new

(***************************************************************************)
(* The files are a base, or a base and a part of one transaction.          *)
(***************************************************************************)
\* The first files are those of an intact case.
LEMMA FirstIntact == Intact(FirstDisk)
<1> DEFINE ledger == <<CreatedEntry>>
<1>1. /\ FirstDisk.rows["ledger"] = ledger /\ FirstDisk.doc = FirstDoc
      /\ \A f \in DataFiles : FirstDisk.rows[f] = <<>>
      /\ \A f \in Files : FirstDisk.tail[f] = NoTail
      /\ FirstDisk.installed = {}
      /\ "legal_holds" \in DataFiles /\ "artifacts" \in DataFiles
  BY DEF FirstDisk, Files, DataFiles
<1>2. /\ Len(ledger) = 1 /\ ledger[1] = CreatedEntry
      /\ \A i \in 1..Len(ledger) : i = 1
      /\ CreatedEntry.prev = NoEntry /\ CreatedEntry.act = "case.created"
      /\ CreatedEntry.after = FirstDoc
  BY DEF CreatedEntry
<1> HIDE DEF ledger
<1>3. ChainIntact(ledger)
  BY <1>2 DEF ChainIntact
<1>4. DocChained(ledger, FirstDoc)
  <2>1. {i \in 1..Len(ledger) : ledger[i].act = "case.created"} = {1}
    BY <1>2
  <2>2. Cardinality({1}) = 1
    BY FS_Singleton
  <2>3. CaseEntries(ledger) = {1}
    BY <1>2 DEF CaseEntries, CaseActions
  <2> QED
    BY <1>2, <2>1, <2>2, <2>3 DEF DocChained
<1>5. ASSUME NEW f \in DataFiles PROVE RowsChained(FirstDisk, f)
  <2>1. ledger[1].act # DataAction[f]
    BY <1>2 DEF DataAction, DataFiles
  <2>2. {i \in 1..Len(ledger) : ledger[i].act = DataAction[f]} = {}
    BY <1>2, <2>1
  <2>3. Len(FirstDisk.rows[f]) = 0
    BY <1>1
  <2> QED
    BY <1>1, <2>2, <2>3 DEF RowsChained
<1>6. HoldsChained(FirstDisk)
  <2>1. FirstDisk.rows["legal_holds"] = <<>> /\ Len(<<>>) = 0
    BY <1>1
  <2>2. FirstDisk.doc.held = FALSE
    BY <1>1 DEF FirstDoc
  <2> DEFINE hs == FirstDisk.rows["legal_holds"]
  <2>3. \A i \in 1..Len(hs) : FALSE
    BY <2>1
  <2>4. FirstDisk.doc.held = (hs # <<>> /\ hs[Len(hs)].what = "placed")
    BY <2>1, <2>2
  <2> HIDE DEF hs
  <2> QED
    BY <2>3, <2>4 DEF HoldsChained, hs
<1>7. FirstDisk.installed = {FirstDisk.rows["artifacts"][i].id :
                                i \in 1..Len(FirstDisk.rows["artifacts"])}
  <2>1. Len(FirstDisk.rows["artifacts"]) = 0
    BY <1>1
  <2> QED
    BY <1>1, <2>1
<1> QED
  BY <1>1, <1>3, <1>4, <1>5, <1>6, <1>7 DEF Intact

LEMMA StoreInit == Init => StoreInv /\ ApplyInv /\ PayloadInv /\ StagedInv
<1> SUFFICES ASSUME Init PROVE StoreInv /\ ApplyInv /\ PayloadInv /\ StagedInv
  OBVIOUS
<1>1. /\ disk = FirstDisk /\ journals = {} /\ nextId = 1
      /\ \A p \in Procs : pc[p] = "idle"
  BY DEF Init
<1>2. DiskTyped(disk)
  BY TypeInit DEF TypeOK
<1>3. \A i \in 1..Len(disk.rows["ledger"]) : disk.rows["ledger"][i].txn = 0
  <2>1. disk.rows["ledger"] = <<CreatedEntry>> /\ CreatedEntry.txn = 0
    BY <1>1 DEF FirstDisk, Files, CreatedEntry
  <2> QED
    BY <2>1
<1>4. \A p \in Procs : ~Unjournaled(p)
  BY <1>1 DEF Unjournaled, Holder
<1>5. Base(disk)
  BY <1>1, <1>2, <1>3, <1>4, FirstIntact DEF Base
<1> QED
  BY <1>1, <1>4, <1>5 DEF StoreInv, ApplyInv, PayloadInv, StagedInv

\* The three parts of StoreInv.
LEMMA SettledStep ==
  ASSUME FilesInv, [Next]_vars, journals' = {}
  PROVE  Base(disk)'
<1> USE DEF FilesInv, IdsInv
<1>1. DiskTyped(disk')
  BY TypeNext DEF TypeOK
<1>2. ASSUME Base(disk), SameFiles(disk, disk') PROVE Base(disk)'
  <2>1. PICK b : b = disk
    OBVIOUS
  <2>2. Base(b)'
    BY <1>2, <2>1, BaseStep
  <2>3. /\ Intact(disk') /\ disk'.rows["ledger"] = b.rows["ledger"]
    BY <1>2, <2>1, SameFilesKeep DEF Base, SameFiles
  <2> QED
    BY <1>1, <2>2, <2>3 DEF Base
<1>3. CASE journals = {}
  <2>1. SameFiles(disk, disk')
    BY <1>3, DiskStep, ApplyingPending DEF Apply
  <2> QED
    BY <1>2, <1>3, <2>1 DEF StoreInv
<1>4. CASE journals # {}
  <2>1. PICK p \in Procs : Finish(p) \/ FinishReplay(p)
    BY <1>4, SMTT(30) DEF Next, Progress, StagePayload, TakeLock, StartRecovery, RecoverNothing,
         Build, Refuse, WriteJournal, Apply, ApplyRefused, DropPayload, Crash,
         IOError, UnhandledError, LockError, vars, faults
  <2>2. pc[p] \in {"apply", "replay"} /\ ~Applying(p) /\ disk' = disk
    BY <2>1 DEF Finish, FinishReplay
  <2>3. Base(disk) /\ SameFiles(disk, disk')
    BY <2>2, FinishedIsBase DEF SameFiles
  <2> QED
    BY <1>2, <2>3
<1> QED
  BY <1>3, <1>4

LEMMA BuiltStep ==
  ASSUME FilesInv, [Next]_vars, NEW q \in Procs, pc'[q] = "built"
  PROVE  BuiltOn(txn[q], disk)'
<1> USE DEF FilesInv, IdsInv
<1>1. CASE pc[q] = "built"
  <2>1. txn'[q] = txn[q]
    <3> USE DEF TypeOK
    <3> QED
      BY <1>1 DEF Next, Progress, StagePayload, TakeLock, StartRecovery, RecoverNothing,
         Build, Refuse, WriteJournal, Apply, Applying, ApplyRefused, DropPayload, Crash, Forget,
         IOError, UnhandledError, LockError, Finish, FinishReplay, Raise, vars, faults
  <2>2. journals = {}
    BY <1>1 DEF Turns, TurnInv
  <2>3. SameFiles(disk, disk')
    BY <2>2, DiskStep, ApplyingPending DEF Apply
  <2>4. BuiltOn(txn[q], disk)
    BY <1>1 DEF StoreInv
  <2>5. BuiltOn(txn[q], disk')
    BY <2>3, <2>4, SameFilesKeep
  <2> QED
    BY <2>1, <2>5
<1>2. CASE pc[q] # "built"
  <2>1. Build(q)
    BY <1>2 DEF TypeOK, Next, Progress, StagePayload, TakeLock, StartRecovery, RecoverNothing,
         Build, Refuse, WriteJournal, Apply, Applying, ApplyRefused, DropPayload, Crash, Forget,
         IOError, UnhandledError, LockError, Finish, FinishReplay, Raise, vars, faults
  <2>2. BuiltOn(txn'[q], disk) /\ disk' = disk
    BY <2>1, BuildsOn DEF Build
  <2> QED
    BY <2>2
<1> QED
  BY <1>1, <1>2

LEMMA JournalStep ==
  ASSUME FilesInv, [Next]_vars, NEW t \in journals'
  PROVE  (\E b : PendingOn(b, t))'
<1> USE DEF FilesInv, IdsInv
<1>1. CASE t \in journals
  <2>1. PICK b : PendingOn(b, t)
    BY <1>1 DEF StoreInv
  <2>2. PendingOn(b, t)'
    BY <1>1, <2>1, PendingStep
  <2> QED
    BY <2>2
<1>2. CASE t \notin journals
  <2>1. PICK p \in Procs : WriteJournal(p)
    BY <1>2 DEF Next, Progress, StagePayload, TakeLock, StartRecovery, RecoverNothing,
         Build, Refuse, Apply, ApplyRefused, DropPayload, Crash,
         IOError, UnhandledError, LockError, Finish, FinishReplay, vars, faults
  <2>2. t = txn[p] /\ disk' = disk /\ pc[p] = "built"
    BY <1>2, <2>1 DEF WriteJournal
  <2>3. BuiltOn(t, disk) /\ Base(disk) /\ t \in Txns
    BY <2>2 DEF StoreInv, Turns, TurnInv, TypeOK
  <2>4. PICK b : b = disk
    OBVIOUS
  <2>5. Partial(disk, b, t)
    BY <2>3, <2>4, FreshPartial DEF Base
  <2>6. Base(b)'
    BY <2>3, <2>4, BaseStep
  <2>7. PendingOn(b, t)'
    BY <2>2, <2>3, <2>4, <2>5, <2>6 DEF PendingOn
  <2> QED
    BY <2>7
<1> QED
  BY <1>1, <1>2

LEMMA StoreNext == FilesInv /\ [Next]_vars => StoreInv'
<1> SUFFICES ASSUME FilesInv, [Next]_vars PROVE StoreInv'
  OBVIOUS
<1>1. (journals = {} => Base(disk))'
  BY SettledStep
<1>2. (\A p \in Procs : pc[p] = "built" => BuiltOn(txn[p], disk))'
  BY BuiltStep
<1>3. (\A t \in journals : \E b : PendingOn(b, t))'
  BY JournalStep
<1> QED
  BY <1>1, <1>2, <1>3 DEF StoreInv

(***************************************************************************)
(* Operations that are done stay done.                                     *)
(***************************************************************************)
\* A step that neither applies, begins nor resumes operations leaves what is
\* done done.
LEMMA StillApplying ==
  ASSUME FilesInv, SameFiles(disk, disk'),
         \A q \in Procs : pc'[q] \in {"apply", "replay"} =>
            pc'[q] = pc[q] /\ txn'[q] = txn[q] /\ at'[q] = at[q]
  PROVE  ApplyInv'
<1>1. ASSUME NEW q \in Procs, pc'[q] \in {"apply", "replay"}
      PROVE  /\ at'[q] <= Len(OpsOf(txn'[q])) + 1
             /\ \A i \in 1..(at'[q] - 1) : Done(disk', txn'[q], OpsOf(txn'[q])[i])
             /\ pc'[q] = "apply" => \A f \in Files : disk'.tail[f] = NoTail
  <2>1. /\ at[q] <= Len(OpsOf(txn[q])) + 1
        /\ \A i \in 1..(at[q] - 1) : Done(disk, txn[q], OpsOf(txn[q])[i])
        /\ pc[q] = "apply" => \A f \in Files : disk.tail[f] = NoTail
    BY <1>1 DEF FilesInv, ApplyInv
  <2>2. pc'[q] = pc[q] /\ txn'[q] = txn[q] /\ at'[q] = at[q]
    BY <1>1
  <2>3. /\ \A t, op : Done(disk, t, op) => Done(disk', t, op)
        /\ disk'.tail = disk.tail
    BY SameFilesKeep DEF SameFiles
  <2> QED
    BY <2>1, <2>2, <2>3
<1> QED
  BY <1>1 DEF ApplyInv

\* The first operation is the next one.
LEMMA BeginApplying ==
  ASSUME FilesInv, [Next]_vars, NEW p \in Procs, disk' = disk, txn'[p] \in Txns, at'[p] = 1,
         pc'[p] \in {"apply", "replay"},
         pc'[p] = "apply" => \A f \in Files : disk.tail[f] = NoTail,
         \A q \in Procs \ {p} : pc'[q] \notin {"apply", "replay"}
  PROVE  ApplyInv'
<1>1. Len(OpsOf(txn'[p])) \in Nat
  BY OpsTyped
<1>2. at'[p] <= Len(OpsOf(txn'[p])) + 1
  BY <1>1
<1>3. \A i \in 1..(at'[p] - 1) : FALSE
  OBVIOUS
<1> QED
  BY <1>2, <1>3 DEF ApplyInv

LEMMA ApplyNext == FilesInv /\ [Next]_vars => ApplyInv'
<1> USE DEF FilesInv, IdsInv, faults
<1> SUFFICES ASSUME FilesInv, [Next]_vars PROVE ApplyInv'
  OBVIOUS
<1>1. CASE UNCHANGED vars
  <2>1. SameFiles(disk, disk')
    BY <1>1 DEF SameFiles, vars
  <2> QED
    BY <1>1, <2>1, StillApplying DEF vars
<1>2. ASSUME NEW p \in Procs, StagePayload(p) PROVE ApplyInv'
  <2>1. SameFiles(disk, disk')
    BY <1>2 DEF StagePayload, SameFiles, TypeOK, DiskTyped, Disks
  <2>2. \A q \in Procs : pc'[q] \in {"apply", "replay"} =>
            pc'[q] = pc[q] /\ txn'[q] = txn[q] /\ at'[q] = at[q]
    BY <1>2 DEF StagePayload, TypeOK
  <2> QED
    BY <2>1, <2>2, StillApplying
<1>3. ASSUME NEW p \in Procs, NEW kind \in Kinds, TakeLock(p, kind)
      PROVE ApplyInv'
  <2>1. SameFiles(disk, disk')
    BY <1>3 DEF TakeLock, SameFiles
  <2>2. \A q \in Procs : pc'[q] \in {"apply", "replay"} =>
            pc'[q] = pc[q] /\ txn'[q] = txn[q] /\ at'[q] = at[q]
    BY <1>3 DEF TakeLock, TypeOK
  <2> QED
    BY <2>1, <2>2, StillApplying
<1>4. ASSUME NEW p \in Procs, StartRecovery(p) PROVE ApplyInv'
  <2>1. /\ disk' = disk /\ pc'[p] = "replay" /\ at'[p] = 1
        /\ lock = NoProc
        /\ \A q \in Procs \ {p} : pc'[q] = pc[q]
    BY <1>4 DEF StartRecovery, TypeOK
  <2>2. \A q \in Procs : pc[q] \notin {"apply", "replay"}
    BY <2>1, CaseStoreAssumption DEF Turns, LockInv, InLock
  <2>3. txn'[p] \in Txns
    BY TypeNext DEF TypeOK
  <2> QED
    BY <2>1, <2>2, <2>3, BeginApplying
<1>5. ASSUME NEW p \in Procs, Build(p) PROVE ApplyInv'
  <2>1. SameFiles(disk, disk')
    BY <1>5 DEF Build, SameFiles
  <2>2. \A q \in Procs : pc'[q] \in {"apply", "replay"} =>
            pc'[q] = pc[q] /\ txn'[q] = txn[q] /\ at'[q] = at[q]
    BY <1>5 DEF Build, TypeOK
  <2> QED
    BY <2>1, <2>2, StillApplying
<1>6. ASSUME NEW p \in Procs, Refuse(p) PROVE ApplyInv'
  <2>1. SameFiles(disk, disk')
    BY <1>6 DEF Refuse, SameFiles
  <2>2. \A q \in Procs : pc'[q] \in {"apply", "replay"} =>
            pc'[q] = pc[q] /\ txn'[q] = txn[q] /\ at'[q] = at[q]
    BY <1>6 DEF Refuse, Raise, Forget, TypeOK
  <2> QED
    BY <2>1, <2>2, StillApplying
<1>7. ASSUME NEW p \in Procs, WriteJournal(p) PROVE ApplyInv'
  <2>1. /\ disk' = disk /\ pc'[p] = "apply" /\ at'[p] = 1 /\ pc[p] = "built"
        /\ txn' = txn
        /\ \A q \in Procs \ {p} : pc'[q] = pc[q]
    BY <1>7 DEF WriteJournal, TypeOK
  <2>2. \A q \in Procs \ {p} : pc[q] \notin {"apply", "replay"}
    BY <2>1, OthersIdle DEF InLock
  <2>3. txn'[p] \in Txns
    BY TypeNext DEF TypeOK
  <2>4. \A f \in Files : disk.tail[f] = NoTail
    BY <2>1 DEF StoreInv, Base, Intact, Turns, TurnInv
  <2> QED
    BY <2>1, <2>2, <2>3, <2>4, BeginApplying
<1>8. ASSUME NEW p \in Procs, Apply(p) PROVE ApplyInv'
  <2> DEFINE t == txn[p]
             i == at[p]
  <2>1. /\ Applying(p) /\ disk' = ApplyOperation(disk, t, OpsOf(t)[i])
        /\ pc' = pc /\ txn' = txn /\ at'[p] = i + 1
    BY <1>8 DEF Apply, Op, TypeOK
  <2>2. /\ journals = {t} /\ t \in Txns /\ i \in 1..Len(OpsOf(t))
        /\ \A k \in 1..(i - 1) : Done(disk, t, OpsOf(t)[k])
    BY <2>1, ApplyingPending
  <2>3. PICK b : PendingOn(b, t)
    BY <2>2 DEF StoreInv
  <2>4. DiskTyped(b) /\ Intact(b) /\ BuiltOn(t, b) /\ Partial(disk, b, t) /\ DiskTyped(disk)
    BY <2>3 DEF PendingOn, Base, TypeOK
  <2>5. /\ \A k \in 1..i : Done(disk', t, OpsOf(t)[k])
        /\ \A f \in Files : disk'.tail[f] \in {disk.tail[f], NoTail}
    BY <2>1, <2>2, <2>4, ApplyMoves
  <2>6. pc[p] \in {"apply", "replay"} /\ \A q \in Procs \ {p} : pc[q] \notin {"apply", "replay"}
    BY <2>1, OthersIdle DEF Applying, InLock
  <2>7. at'[p] <= Len(OpsOf(txn'[p])) + 1 /\ at'[p] - 1 = i
    <3>1. Len(OpsOf(t)) \in Nat
      BY <2>2, OpsTyped
    <3> QED
      BY <2>1, <2>2, <3>1
  <2>8. pc[p] = "apply" => \A f \in Files : disk'.tail[f] = NoTail
    BY <2>5 DEF ApplyInv
  <2> HIDE DEF i
  <2> QED
    BY <2>1, <2>5, <2>6, <2>7, <2>8 DEF ApplyInv
<1>9. ASSUME NEW p \in Procs, ApplyRefused(p) PROVE ApplyInv'
  <2>1. SameFiles(disk, disk')
    BY <1>9 DEF ApplyRefused, SameFiles
  <2>2. \A q \in Procs : pc'[q] \in {"apply", "replay"} =>
            pc'[q] = pc[q] /\ txn'[q] = txn[q] /\ at'[q] = at[q]
    BY <1>9 DEF ApplyRefused, Raise, Forget, TypeOK
  <2> QED
    BY <2>1, <2>2, StillApplying
<1>10. ASSUME NEW p \in Procs, Finish(p) PROVE ApplyInv'
  <2>1. SameFiles(disk, disk')
    BY <1>10 DEF Finish, SameFiles
  <2>2. \A q \in Procs : pc'[q] \in {"apply", "replay"} =>
            pc'[q] = pc[q] /\ txn'[q] = txn[q] /\ at'[q] = at[q]
    BY <1>10 DEF Finish, Forget, TypeOK
  <2> QED
    BY <2>1, <2>2, StillApplying
<1>11. ASSUME NEW p \in Procs, FinishReplay(p) PROVE ApplyInv'
  <2>1. SameFiles(disk, disk')
    BY <1>11 DEF FinishReplay, SameFiles
  <2>2. \A q \in Procs : pc'[q] \in {"apply", "replay"} =>
            pc'[q] = pc[q] /\ txn'[q] = txn[q] /\ at'[q] = at[q]
    BY <1>11 DEF FinishReplay, TypeOK
  <2> QED
    BY <2>1, <2>2, StillApplying
<1>12. ASSUME NEW p \in Procs, DropPayload(p) PROVE ApplyInv'
  <2>1. SameFiles(disk, disk')
    BY <1>12 DEF DropPayload, SameFiles, TypeOK, DiskTyped, Disks
  <2>2. \A q \in Procs : pc'[q] \in {"apply", "replay"} =>
            pc'[q] = pc[q] /\ txn'[q] = txn[q] /\ at'[q] = at[q]
    BY <1>12 DEF DropPayload, Forget, TypeOK
  <2> QED
    BY <2>1, <2>2, StillApplying
<1>13. ASSUME NEW p \in Procs, Crash(p) PROVE ApplyInv'
  <2>1. \A q \in Procs : pc'[q] \in {"apply", "replay"} =>
            q # p /\ pc'[q] = pc[q] /\ txn'[q] = txn[q] /\ at'[q] = at[q]
    BY <1>13 DEF Crash, Forget, TypeOK
  <2>2. CASE Applying(p)
    <3>1. \A q \in Procs \ {p} : pc[q] \notin {"apply", "replay"}
      BY <2>2, OthersIdle DEF Applying, InLock
    <3> QED
      BY <2>1, <3>1 DEF ApplyInv
  <2>3. CASE ~Applying(p)
    <3>1. SameFiles(disk, disk')
      BY <1>13, <2>3 DEF Crash, Tear, SameFiles
    <3> QED
      BY <2>1, <3>1, StillApplying
  <2> QED
    BY <2>2, <2>3
<1>14. ASSUME NEW p \in Procs, IOError(p) PROVE ApplyInv'
  <2>1. \A q \in Procs : pc'[q] \in {"apply", "replay"} =>
            q # p /\ pc'[q] = pc[q] /\ txn'[q] = txn[q] /\ at'[q] = at[q]
    BY <1>14 DEF IOError, Raise, Forget, TypeOK
  <2>2. CASE Applying(p)
    <3>1. \A q \in Procs \ {p} : pc[q] \notin {"apply", "replay"}
      BY <2>2, OthersIdle DEF Applying, InLock
    <3> QED
      BY <2>1, <3>1 DEF ApplyInv
  <2>3. CASE ~Applying(p)
    <3>1. SameFiles(disk, disk')
      BY <1>14, <2>3 DEF IOError, Tear, SameFiles
    <3> QED
      BY <2>1, <3>1, StillApplying
  <2> QED
    BY <2>2, <2>3
<1>15. ASSUME NEW p \in Procs, RecoverNothing(p) PROVE ApplyInv'
  <2>1. SameFiles(disk, disk')
    BY <1>15 DEF RecoverNothing, vars, SameFiles
  <2>2. \A q \in Procs : pc'[q] \in {"apply", "replay"} =>
            pc'[q] = pc[q] /\ txn'[q] = txn[q] /\ at'[q] = at[q]
    BY <1>15 DEF RecoverNothing, vars, TypeOK
  <2> QED
    BY <2>1, <2>2, StillApplying
<1>16. ASSUME NEW p \in Procs, UnhandledError(p) PROVE ApplyInv'
  <2>1. SameFiles(disk, disk')
    BY <1>16 DEF UnhandledError, SameFiles
  <2>2. \A q \in Procs : pc'[q] \in {"apply", "replay"} =>
            pc'[q] = pc[q] /\ txn'[q] = txn[q] /\ at'[q] = at[q]
    BY <1>16 DEF UnhandledError, Forget, TypeOK
  <2> QED
    BY <2>1, <2>2, StillApplying
<1>17. ASSUME NEW p \in Procs, LockError(p) PROVE ApplyInv'
  <2>1. SameFiles(disk, disk')
    BY <1>17 DEF LockError, SameFiles
  <2>2. \A q \in Procs : pc'[q] \in {"apply", "replay"} =>
            pc'[q] = pc[q] /\ txn'[q] = txn[q] /\ at'[q] = at[q]
    BY <1>17 DEF LockError, TypeOK
  <2> QED
    BY <2>1, <2>2, StillApplying
<1> QED
  BY <1>1, <1>2, <1>3, <1>4, <1>5, <1>6, <1>7, <1>8, <1>9, <1>10, <1>11,
     <1>12, <1>13, <1>14, <1>15, <1>16, <1>17 DEF Next, Progress

\* An operation of a transaction that has just been decided is never refused.
LEMMA FreshNeverRefused ==
  ASSUME FilesInv, NEW p \in Procs, pc[p] = "apply", Applying(p)
  PROVE  CanApply(disk, txn[p], Op(p))
<1> USE DEF FilesInv, IdsInv
<1> DEFINE t == txn[p]
<1>1. /\ journals = {t} /\ t \in Txns /\ at[p] \in 1..Len(OpsOf(t))
      /\ \A k \in 1..(at[p] - 1) : Done(disk, t, OpsOf(t)[k])
  BY ApplyingPending
<1>2. PICK b : PendingOn(b, t)
  BY <1>1 DEF StoreInv
<1>3. DiskTyped(b) /\ Intact(b) /\ BuiltOn(t, b) /\ Partial(disk, b, t) /\ DiskTyped(disk)
  BY <1>2 DEF PendingOn, Base, TypeOK
<1>4. ~Stuck(disk, t)
  BY DEF ApplyInv, Stuck, NoTail, Files
<1>5. t.kind = "artifact" => t.id \in disk.staged \union disk.installed
  BY <1>1 DEF PayloadInv
<1> QED
  BY <1>1, <1>3, <1>4, <1>5, ApplyPossible DEF Op

(***************************************************************************)
(* The identifiers taken: MaxTxns bounds the calls that begin, and a fault *)
(* pays for the note of the recovery it makes necessary.                   *)
(***************************************************************************)
\* While p is past case_lock nobody else is, so what is owed is owed by p.
LEMMA OwedHere ==
  ASSUME TypeOK, Turns, NEW p \in Procs, pc[p] \in InLock
  PROVE  \A q \in Procs \ {p} : pc[q] \notin InLock
  BY OthersIdle

LEMMA CountNext == FilesInv /\ CountInv /\ [Next]_vars => CountInv'
<1> USE DEF CountInv, FilesInv, IdsInv, faults
<1> SUFFICES ASSUME FilesInv /\ CountInv, [Next]_vars PROVE CountInv'
  OBVIOUS
<1> DEFINE Bound == MaxTxns + 2 + crashes + errors
<1>0. /\ MaxTxns \in Nat /\ MaxCrashes \in Nat /\ MaxErrors \in Nat
      /\ crashes \in Nat /\ errors \in Nat /\ nextId \in Nat
      /\ nextId <= Bound /\ (Owed => nextId < Bound)
  BY CaseStoreAssumption DEF TypeOK
<1>1. CASE UNCHANGED vars
  BY <1>1 DEF vars, Owed
<1>2. ASSUME NEW p \in Procs, StagePayload(p) PROVE CountInv'
  <2>1. nextId <= MaxTxns /\ nextId' = nextId + 1 /\ crashes' = crashes /\ errors' = errors
    BY <1>2 DEF StagePayload
  <2> QED
    BY <1>0, <2>1
<1>3. ASSUME NEW p \in Procs, NEW kind \in Kinds, TakeLock(p, kind)
      PROVE CountInv'
  <2>1. /\ nextId' = nextId /\ crashes' = crashes /\ errors' = errors /\ journals' = journals
        /\ pc' = [pc EXCEPT ![p] = "locked"] /\ job' = [job EXCEPT ![p] = kind]
        /\ pc[p] # "apply" /\ (kind # "artifact" => nextId <= MaxTxns)
    BY <1>3 DEF TakeLock
  <2>2. CASE kind # "artifact"
    BY <1>0, <2>1, <2>2
  <2>3. CASE kind = "artifact"
    <3>1. Owed' => Owed
      BY <2>1, <2>3 DEF Owed, TypeOK
    <3> QED
      BY <2>1, <3>1
  <2> QED
    BY <2>2, <2>3
<1>4. ASSUME NEW p \in Procs, StartRecovery(p) PROVE CountInv'
  <2>1. journals # {} /\ lock = NoProc
    BY <1>4, NotEmpty DEF StartRecovery
  <2>2. Owed
    BY <2>1, CaseStoreAssumption DEF Owed, Turns, LockInv, InLock
  <2>3. nextId' = nextId /\ crashes' = crashes /\ errors' = errors
    BY <1>4 DEF StartRecovery
  <2> QED
    BY <2>2, <2>3
<1>5. ASSUME NEW p \in Procs, Build(p) PROVE CountInv'
  <2>1. /\ pc[p] = "locked" /\ journals = {} /\ journals' = {} /\ job' = job
        /\ pc' = [pc EXCEPT ![p] = "built"] /\ crashes' = crashes /\ errors' = errors
        /\ nextId' = IF job[p] = "artifact" THEN nextId ELSE nextId + 1
    BY <1>5 DEF Build, Accepted
  <2>2. ~Owed'
    BY <2>1, OwedHere DEF Owed, TypeOK, InLock
  <2>3. job[p] # "artifact" => Owed
    BY <2>1 DEF Owed
  <2>4. nextId' <= Bound
    BY <1>0, <2>1, <2>3
  <2> QED
    BY <2>1, <2>2, <2>4
<1>6. ASSUME NEW p \in Procs, Refuse(p) PROVE CountInv'
  <2>1. pc[p] = "locked" /\ Raise(p) /\ UNCHANGED <<journals, nextId, faults>>
    BY <1>6 DEF Refuse
  <2>2. Owed' => Owed
    BY <2>1, OwedHere DEF Owed, Raise, Forget, TypeOK, InLock
  <2> QED
    BY <2>1, <2>2
<1>7. ASSUME NEW p \in Procs, WriteJournal(p) PROVE CountInv'
  <2>1. /\ pc[p] = "built" /\ pc' = [pc EXCEPT ![p] = "apply"] /\ job' = job
        /\ UNCHANGED <<nextId, faults>>
    BY <1>7 DEF WriteJournal
  <2>2. ~Owed'
    BY <2>1, OwedHere DEF Owed, TypeOK, InLock
  <2> QED
    BY <2>1, <2>2
<1>8. ASSUME NEW p \in Procs, Apply(p) PROVE CountInv'
  BY <1>8 DEF Apply, Owed
<1>9. ASSUME NEW p \in Procs, ApplyRefused(p) PROVE CountInv'
  <2>1. pc[p] = "replay"
    BY <1>9, FreshNeverRefused DEF ApplyRefused, Applying
  <2>2. Owed /\ UNCHANGED <<nextId, faults>>
    BY <1>9, <2>1 DEF Owed, ApplyRefused
  <2> QED
    BY <2>2
<1>10. ASSUME NEW p \in Procs, Finish(p) PROVE CountInv'
  <2>1. /\ pc[p] = "apply" /\ Forget(p) /\ journals' = journals \ {txn[p]}
        /\ UNCHANGED <<nextId, faults>>
    BY <1>10 DEF Finish
  <2>2. journals' = {}
    BY <2>1 DEF Turns, TurnInv
  <2>3. ~Owed'
    BY <2>1, <2>2, OwedHere DEF Owed, TypeOK, InLock, Forget
  <2> QED
    BY <2>1, <2>3
<1>11. ASSUME NEW p \in Procs, FinishReplay(p) PROVE CountInv'
  <2>1. Owed /\ UNCHANGED <<nextId, faults>>
    BY <1>11 DEF FinishReplay, Owed
  <2> QED
    BY <2>1
<1>12. ASSUME NEW p \in Procs, DropPayload(p) PROVE CountInv'
  <2>1. pc[p] = "failed" /\ Forget(p) /\ UNCHANGED <<journals, nextId, faults>>
    BY <1>12 DEF DropPayload
  <2>2. Owed' => Owed
    BY <2>1 DEF Owed, Forget, TypeOK
  <2> QED
    BY <2>1, <2>2
<1>13. ASSUME NEW p \in Procs, Crash(p) PROVE CountInv'
  <2>1. crashes < MaxCrashes /\ crashes' = crashes + 1 /\ errors' = errors /\ nextId' = nextId
    BY <1>13 DEF Crash
  <2> QED
    BY <1>0, <2>1
<1>14. ASSUME NEW p \in Procs, IOError(p) PROVE CountInv'
  <2>1. errors < MaxErrors /\ errors' = errors + 1 /\ crashes' = crashes /\ nextId' = nextId
    BY <1>14 DEF IOError
  <2> QED
    BY <1>0, <2>1
<1>15. ASSUME NEW p \in Procs, RecoverNothing(p) PROVE CountInv'
  BY <1>15 DEF RecoverNothing, vars, Owed
<1>16. ASSUME NEW p \in Procs, UnhandledError(p) PROVE CountInv'
  <2>1. errors < MaxErrors /\ errors' = errors + 1 /\ crashes' = crashes /\ nextId' = nextId
    BY <1>16 DEF UnhandledError
  <2> QED
    BY <1>0, <2>1
<1>17. ASSUME NEW p \in Procs, LockError(p) PROVE CountInv'
  <2>1. errors < MaxErrors /\ errors' = errors + 1 /\ crashes' = crashes /\ nextId' = nextId
    BY <1>17 DEF LockError
  <2> QED
    BY <1>0, <2>1
<1> QED
  BY <1>1, <1>2, <1>3, <1>4, <1>5, <1>6, <1>7, <1>8, <1>9, <1>10, <1>11,
     <1>12, <1>13, <1>14, <1>15, <1>16, <1>17 DEF Next, Progress


(***************************************************************************)
(* Uploads that do not end well.                                           *)
(***************************************************************************)
\* A transaction whose operations are all done has nothing staged.
LEMMA FinishedStagesNothing ==
  ASSUME FilesInv, StagedInv, NEW p \in Procs, pc[p] \in {"apply", "replay"}, ~Applying(p)
  PROVE  txn[p].id \notin disk.staged
<1>1. txn[p] \in Txns /\ at[p] \in Nat
  BY DEF FilesInv, IdsInv, TypeOK
<1>2. Len(OpsOf(txn[p])) \in 1..4
  <2>1. txn[p].kind \in Kinds
    BY <1>1 DEF Txns
  <2> QED
    BY <1>1, <2>1, OpsListed DEF Kinds
<1>3. ~(at[p] <= Len(OpsOf(txn[p])))
  BY DEF Applying
<1> DEFINE k == Len(OpsOf(txn[p]))
<1> HIDE DEF k
<1>4. k \in 1..4 /\ ~(at[p] <= k)
  BY <1>2, <1>3 DEF k
<1>5. at[p] > 1
  BY <1>1, <1>4
<1> QED
  BY <1>5 DEF StagedInv

\* An upload that meets an error still owns its payload: its handler runs next.
LEMMA RaiseKeepsOwner ==
  ASSUME TypeOK, NEW p \in Procs, Raise(p), journals' = journals
  PROVE  \A id : Owner(id) => Owner(id)'
<1>1. CASE job[p] = "artifact"
  BY <1>1 DEF Raise, Owner, TypeOK
<1>2. CASE job[p] # "artifact"
  BY <1>2 DEF Raise, Forget, Owner, TypeOK
<1> QED
  BY <1>1, <1>2

\* Whoever ends a call takes nobody else's payload with it.
LEMMA ForgetLeaves ==
  ASSUME TypeOK, NEW p \in Procs, Forget(p), journals' = journals
  PROVE  \A id : Owner(id) => Owner(id)' \/ id \in LeftBehind(p)
  BY DEF Forget, Owner, LeftBehind, TypeOK

LEMMA CleanNext == FilesInv /\ StagedInv /\ CleanInv /\ [Next]_vars => CleanInv'
<1> USE DEF CleanInv, FilesInv, IdsInv, faults
<1> SUFFICES ASSUME FilesInv /\ StagedInv /\ CleanInv, [Next]_vars PROVE CleanInv'
  OBVIOUS
<1>1. CASE UNCHANGED vars
  BY <1>1 DEF vars, Owner
<1>2. ASSUME NEW p \in Procs, StagePayload(p) PROVE CleanInv'
  <2>1. /\ pc[p] = "idle" /\ pc'[p] = "staged" /\ job'[p] = "artifact" /\ txn'[p].id = nextId
        /\ journals' = journals /\ abandoned' = abandoned
        /\ \A q \in Procs \ {p} : pc'[q] = pc[q] /\ job'[q] = job[q] /\ txn'[q] = txn[q]
    BY <1>2 DEF StagePayload, TypeOK
  <2>2. \A id : Owner(id) \/ id = nextId => Owner(id)'
    BY <2>1 DEF Owner
  <2> QED
    BY <1>2, <2>1, <2>2, StageEffect
<1>3. ASSUME NEW p \in Procs, NEW kind \in Kinds, TakeLock(p, kind)
      PROVE CleanInv'
  <2>1. \A id : Owner(id) => Owner(id)'
    BY <1>3 DEF TakeLock, Owner, TypeOK
  <2> QED
    BY <1>3, <2>1 DEF TakeLock
<1>4. ASSUME NEW p \in Procs, StartRecovery(p) PROVE CleanInv'
  <2>1. \A id : Owner(id) => Owner(id)'
    BY <1>4 DEF StartRecovery, Owner, TypeOK
  <2> QED
    BY <1>4, <2>1 DEF StartRecovery
<1>5. ASSUME NEW p \in Procs, Build(p) PROVE CleanInv'
  <2>1. /\ pc'[p] = "built" /\ (job[p] = "artifact" => txn'[p].id = txn[p].id)
        /\ job' = job /\ journals' = journals /\ disk' = disk /\ abandoned' = abandoned
        /\ \A q \in Procs \ {p} : pc'[q] = pc[q] /\ txn'[q] = txn[q]
    BY <1>5 DEF Build, TypeOK
  <2>2. \A id : Owner(id) => Owner(id)'
    BY <2>1 DEF Owner
  <2> QED
    BY <2>1, <2>2
<1>6. ASSUME NEW p \in Procs, Refuse(p) PROVE CleanInv'
  <2>1. \A id : Owner(id) => Owner(id)'
    BY <1>6, RaiseKeepsOwner DEF Refuse
  <2> QED
    BY <1>6, <2>1 DEF Refuse
<1>7. ASSUME NEW p \in Procs, WriteJournal(p) PROVE CleanInv'
  <2>1. \A id : Owner(id) => Owner(id)'
    BY <1>7 DEF WriteJournal, Owner, TypeOK
  <2> QED
    BY <1>7, <2>1 DEF WriteJournal
<1>8. ASSUME NEW p \in Procs, Apply(p) PROVE CleanInv'
  <2>1. \A id : Owner(id) => Owner(id)'
    BY <1>8 DEF Apply, Owner
  <2>2. disk'.staged \subseteq disk.staged /\ abandoned' = abandoned
    BY <1>8, ApplyPayload DEF Apply
  <2> QED
    BY <2>1, <2>2
<1>9. ASSUME NEW p \in Procs, ApplyRefused(p) PROVE CleanInv'
  <2>1. \A id : Owner(id) => Owner(id)'
    BY <1>9, RaiseKeepsOwner DEF ApplyRefused
  <2> QED
    BY <1>9, <2>1 DEF ApplyRefused
<1>10. ASSUME NEW p \in Procs, Finish(p) PROVE CleanInv'
  <2>1. /\ pc[p] = "apply" /\ ~Applying(p) /\ Forget(p) /\ journals = {txn[p]}
        /\ disk' = disk /\ abandoned' = abandoned
    BY <1>10 DEF Finish, Turns, TurnInv
  <2>2. txn[p].id \notin disk.staged
    BY <2>1, FinishedStagesNothing
  <2>3. \A id : Owner(id) /\ id # txn[p].id => Owner(id)'
    BY <2>1 DEF Owner, Forget, TypeOK
  <2> QED
    BY <2>1, <2>2, <2>3
<1>11. ASSUME NEW p \in Procs, FinishReplay(p) PROVE CleanInv'
  <2>1. /\ pc[p] = "replay" /\ ~Applying(p) /\ journals = {txn[p]}
        /\ disk' = disk /\ abandoned' = abandoned
        /\ job' = job /\ \A q \in Procs \ {p} : pc'[q] = pc[q] /\ txn'[q] = txn[q]
    BY <1>11 DEF FinishReplay, Turns, TurnInv
  <2>2. txn[p].id \notin disk.staged
    BY <2>1, FinishedStagesNothing
  <2>3. \A id : Owner(id) /\ id # txn[p].id => Owner(id)'
    BY <2>1 DEF Owner
  <2> QED
    BY <2>1, <2>2, <2>3
<1>12. ASSUME NEW p \in Procs, DropPayload(p) PROVE CleanInv'
  <2>1. Forget(p) /\ journals' = journals /\ abandoned' = abandoned
    BY <1>12 DEF DropPayload
  <2>2. /\ disk'.staged \subseteq disk.staged
        /\ (\A t \in journals : t.id # txn[p].id) => txn[p].id \notin disk'.staged
    BY <1>12, DropEffect
  <2>3. \A id : Owner(id) => Owner(id)' \/ (id = txn[p].id /\ \A t \in journals : t.id # id)
    BY <2>1 DEF Owner, Forget, TypeOK
  <2> QED
    BY <2>1, <2>2, <2>3
<1>13. ASSUME NEW p \in Procs, Crash(p) PROVE CleanInv'
  <2>1. \A id : Owner(id) => Owner(id)' \/ id \in LeftBehind(p)
    BY <1>13, ForgetLeaves DEF Crash
  <2>2. disk'.staged = disk.staged
    BY <1>13, TearPayload DEF Crash
  <2> QED
    BY <1>13, <2>1, <2>2 DEF Crash
<1>14. ASSUME NEW p \in Procs, IOError(p) PROVE CleanInv'
  <2>1. \A id : Owner(id) => Owner(id)'
    BY <1>14, RaiseKeepsOwner DEF IOError, InLock
  <2>2. disk'.staged = disk.staged
    BY <1>14, TearPayload DEF IOError
  <2> QED
    BY <1>14, <2>1, <2>2 DEF IOError
<1>15. ASSUME NEW p \in Procs, RecoverNothing(p) PROVE CleanInv'
  BY <1>15 DEF RecoverNothing, vars, Owner
<1>16. ASSUME NEW p \in Procs, UnhandledError(p) PROVE CleanInv'
  <2>1. \A id : Owner(id) => Owner(id)' \/ id \in LeftBehind(p)
    BY <1>16, ForgetLeaves DEF UnhandledError
  <2> QED
    BY <1>16, <2>1 DEF UnhandledError
<1>17. ASSUME NEW p \in Procs, LockError(p) PROVE CleanInv'
  <2>1. \A id : Owner(id) => Owner(id)'
    BY <1>17 DEF LockError, Owner, TypeOK
  <2> QED
    BY <1>17, <2>1 DEF LockError
<1> QED
  BY <1>1, <1>2, <1>3, <1>4, <1>5, <1>6, <1>7, <1>8, <1>9, <1>10, <1>11,
     <1>12, <1>13, <1>14, <1>15, <1>16, <1>17 DEF Next, Progress

(***************************************************************************)
(* Replaying a journal from its first operation, at any moment.            *)
(***************************************************************************)
\* One operation of a replay, if the ones before did not fail.
ReplayStep(b, t, op) ==
    IF b.ok /\ CanApply(b.disk, t, op)
    THEN [ok |-> TRUE, disk |-> ApplyOperation(b.disk, t, op)]
    ELSE [ok |-> FALSE, disk |-> b.disk]

\* A replay has four operations at most; its states one by one.
LEMMA ReplayUnrolled ==
  ASSUME NEW t \in Txns
  PROVE  LET ops == OpsOf(t)
             r0 == [ok |-> TRUE, disk |-> disk]
             r1 == ReplayStep(r0, t, ops[1])
             r2 == ReplayStep(r1, t, ops[2])
             r3 == ReplayStep(r2, t, ops[3])
             r4 == ReplayStep(r3, t, ops[4])
         IN  /\ Len(ops) \in 1..4
             /\ Len(ops) = 1 => Replayed(t) = r1
             /\ Len(ops) = 2 => Replayed(t) = r2
             /\ Len(ops) = 3 => Replayed(t) = r3
             /\ Len(ops) = 4 => Replayed(t) = r4
<1> DEFINE ops == OpsOf(t)
           n == Len(ops)
           r0 == [ok |-> TRUE, disk |-> disk]
           r1 == ReplayStep(r0, t, ops[1])
           r2 == ReplayStep(r1, t, ops[2])
           r3 == ReplayStep(r2, t, ops[3])
           r4 == ReplayStep(r3, t, ops[4])
           Body(f) == [i \in 0..n |-> IF i = 0 THEN r0
                                      ELSE ReplayStep(f[i - 1], t, ops[i])]
           g == [i \in 0..n |-> IF i = 0 THEN r0 ELSE IF i = 1 THEN r1
                                ELSE IF i = 2 THEN r2 ELSE IF i = 3 THEN r3 ELSE r4]
           after == CHOOSE f : f = Body(f)
<1>1. n \in 1..4
  <2>1. t.kind \in Kinds
    BY DEF Txns
  <2> QED
    BY <2>1, OpsListed DEF Kinds
<1>2. Replayed(t) = after[n]
  BY DEF Replayed, ReplayStep
<1> HIDE DEF n, r0, r1, r2, r3, r4
<1>3. g = Body(g)
  <2>1. ASSUME NEW i \in 0..n PROVE g[i] = Body(g)[i]
    <3>1. i \in 0..4
      BY <1>1
    <3>2. CASE i = 0
      BY <3>2
    <3>3. CASE i = 1
      BY <1>1, <3>3 DEF r1
    <3>4. CASE i = 2
      BY <1>1, <3>4 DEF r2
    <3>5. CASE i = 3
      BY <1>1, <3>5 DEF r3
    <3>6. CASE i = 4
      BY <1>1, <3>6 DEF r4
    <3> QED
      BY <3>1, <3>2, <3>3, <3>4, <3>5, <3>6
  <2> QED
    BY <2>1
<1> HIDE DEF g
<1>4. after = Body(after)
  BY <1>3
<1> HIDE DEF after
<1>5. /\ after[0] = r0
      /\ \A i \in 1..n : after[i] = ReplayStep(after[i - 1], t, ops[i])
  <2>1. \A i \in 0..n : after[i] = IF i = 0 THEN r0 ELSE ReplayStep(after[i - 1], t, ops[i])
    BY <1>4
  <2> HIDE DEF Body
  <2> QED
    BY <1>1, <2>1
<1>6. /\ after[1] = r1
      /\ n >= 2 => after[2] = r2
      /\ n >= 3 => after[3] = r3
      /\ n >= 4 => after[4] = r4
  <2>1. after[1] = r1
    BY <1>1, <1>5 DEF r1
  <2>2. n >= 2 => after[2] = r2
    BY <1>1, <1>5, <2>1 DEF r2
  <2>3. n >= 3 => after[3] = r3
    BY <1>1, <1>5, <2>2 DEF r3
  <2>4. n >= 4 => after[4] = r4
    BY <1>1, <1>5, <2>3 DEF r4
  <2> QED
    BY <2>1, <2>2, <2>3, <2>4
<1>7. /\ n \in 1..4
      /\ n = 1 => Replayed(t) = r1
      /\ n = 2 => Replayed(t) = r2
      /\ n = 3 => Replayed(t) = r3
      /\ n = 4 => Replayed(t) = r4
  BY <1>1, <1>2, <1>6
<1> QED
  BY <1>7, Zenon DEF n, r0, r1, r2, r3, r4

\* The first k operations of a replay have succeeded, and so will the next.
Replays(r, b, t, k) ==
    /\ r.ok /\ DiskTyped(r.disk) /\ Partial(r.disk, b, t)
    /\ \A i \in 1..k : Done(r.disk, t, OpsOf(t)[i])
    /\ ~Stuck(r.disk, t)
    /\ t.kind = "artifact" => t.id \in r.disk.staged \union r.disk.installed

LEMMA ReplaysOn ==
  ASSUME NEW t \in Txns, NEW b, DiskTyped(b), Intact(b), BuiltOn(t, b),
         NEW r, NEW i \in 1..Len(OpsOf(t)), Replays(r, b, t, i - 1)
  PROVE  Replays(ReplayStep(r, t, OpsOf(t)[i]), b, t, i)
<1> DEFINE d == r.disk
           op == OpsOf(t)[i]
           e == ApplyOperation(d, t, op)
           s == ReplayStep(r, t, op)
<1>1. /\ r.ok /\ DiskTyped(d) /\ Partial(d, b, t)
      /\ \A k \in 1..(i - 1) : Done(d, t, OpsOf(t)[k])
      /\ ~Stuck(d, t)
      /\ t.kind = "artifact" => t.id \in d.staged \union d.installed
  BY DEF Replays
<1> HIDE DEF d
<1>2. CanApply(d, t, op)
  BY <1>1, ApplyPossible
<1>3. /\ Partial(e, b, t)
      /\ \A k \in 1..i : Done(e, t, OpsOf(t)[k])
      /\ \A f \in Files : e.tail[f] \in {d.tail[f], NoTail}
      /\ d.staged \union d.installed \subseteq e.staged \union e.installed
  BY <1>1, ApplyMoves
<1>4. DiskTyped(e)
  BY <1>1, ApplyTyped
<1>5. ~Stuck(e, t)
  <2>1. "ledger" \in Files
    BY DEF Files
  <2>2. e.tail["ledger"] = d.tail["ledger"] \/ e.tail["ledger"] = NoTail
    BY <1>3, <2>1
  <2> QED
    BY <1>1, <2>2 DEF Stuck, NoTail
<1>6. s.ok /\ s.disk = e
  BY <1>1, <1>2 DEF ReplayStep, d
<1> QED
  BY <1>1, <1>3, <1>4, <1>5, <1>6 DEF Replays

\* A replay that is not stuck goes through, and the files agree after it.
LEMMA ReplayCompletes ==
  ASSUME FilesInv, NEW t \in journals, ~Stuck(disk, t)
  PROVE  Replayed(t).ok /\ FilesAgree(Replayed(t).disk)
<1> USE DEF FilesInv, IdsInv
<1> DEFINE ops == OpsOf(t)
           r0 == [ok |-> TRUE, disk |-> disk]
           r1 == ReplayStep(r0, t, ops[1])
           r2 == ReplayStep(r1, t, ops[2])
           r3 == ReplayStep(r2, t, ops[3])
           r4 == ReplayStep(r3, t, ops[4])
           n == Len(ops)
<1>1. t \in Txns /\ DiskTyped(disk)
  BY DEF TypeOK
<1>2. PICK b : PendingOn(b, t)
  BY DEF StoreInv
<1>3. DiskTyped(b) /\ Intact(b) /\ BuiltOn(t, b) /\ Partial(disk, b, t)
  BY <1>2 DEF PendingOn, Base
<1>4. Replays(r0, b, t, 0)
  <2>1. t.kind = "artifact" => t.id \in disk.staged \union disk.installed
    BY DEF PayloadInv
  <2> QED
    BY <1>1, <1>3, <2>1 DEF Replays
<1>5. /\ n \in 1..4
      /\ n = 1 => Replayed(t) = r1
      /\ n = 2 => Replayed(t) = r2
      /\ n = 3 => Replayed(t) = r3
      /\ n = 4 => Replayed(t) = r4
  BY <1>1, ReplayUnrolled
<1> HIDE DEF r0, n
<1>6. \A i \in 1..n : i \in 1..Len(OpsOf(t)) /\ \A r : Replays(r, b, t, i - 1) =>
          Replays(ReplayStep(r, t, ops[i]), b, t, i)
  BY <1>1, <1>3, ReplaysOn DEF n
<1>7. Replays(r1, b, t, 1)
  <2>1. 1 \in 1..n /\ 1 - 1 = 0
    BY <1>5
  <2> QED
    BY <1>4, <1>6, <2>1
<1> HIDE DEF r1
<1>8. n >= 2 => Replays(r2, b, t, 2)
  <2>1. n >= 2 => 2 \in 1..n /\ 2 - 1 = 1
    BY <1>5
  <2> QED
    BY <1>6, <1>7, <2>1
<1> HIDE DEF r2
<1>9. n >= 3 => Replays(r3, b, t, 3)
  <2>1. n >= 3 => 3 \in 1..n /\ 3 - 1 = 2 /\ n >= 2
    BY <1>5
  <2> QED
    BY <1>6, <1>8, <2>1
<1> HIDE DEF r3
<1>10. n >= 4 => Replays(r4, b, t, 4)
  <2>1. n >= 4 => 4 \in 1..n /\ 4 - 1 = 3 /\ n >= 3
    BY <1>5
  <2> QED
    BY <1>6, <1>9, <2>1
<1> HIDE DEF r4
<1>11. Replays(Replayed(t), b, t, n)
  <2>1. CASE n = 1
    BY <1>5, <1>7, <2>1
  <2>2. CASE n = 2
    BY <1>5, <1>8, <2>2
  <2>3. CASE n = 3
    BY <1>5, <1>9, <2>3
  <2>4. CASE n = 4
    BY <1>5, <1>10, <2>4
  <2> QED
    BY <1>5, <2>1, <2>2, <2>3, <2>4
<1> DEFINE d == Replayed(t).disk
<1>12. /\ Replayed(t).ok /\ DiskTyped(d) /\ Partial(d, b, t)
       /\ \A i \in 1..Len(OpsOf(t)) : Done(d, t, OpsOf(t)[i])
  BY <1>11 DEF Replays, n
<1> HIDE DEF d
<1>13. Complete(d, b, t)
  BY <1>1, <1>3, <1>12, AllDoneCompletes
<1>14. FilesAgree(d)
  BY <1>1, <1>3, <1>12, <1>13, CompleteIntact, IntactAgrees
<1> QED
  BY <1>12, <1>14 DEF d

\* A replay that is stuck fails at the first of the two ledger entries.
LEMMA ReplayFails ==
  ASSUME TypeOK, NEW t \in journals, Stuck(disk, t)
  PROVE  ~Replayed(t).ok
<1> DEFINE ops == OpsOf(t)
           r0 == [ok |-> TRUE, disk |-> disk]
           r1 == ReplayStep(r0, t, ops[1])
           r2 == ReplayStep(r1, t, ops[2])
           r3 == ReplayStep(r2, t, ops[3])
           r4 == ReplayStep(r3, t, ops[4])
           tail == disk.tail["ledger"]
<1>1. /\ t \in Txns /\ DiskTyped(disk) /\ t.kind = "hold"
      /\ tail.cut = "long" /\ tail.rec = EntriesOf(t)[2]
  BY DEF TypeOK, Stuck
<1>2. /\ Len(ops) = 4
      /\ ops[1] = AppendOp("legal_holds", RowOf(t))
      /\ ops[2] = ReplaceOp
      /\ ops[3] = AppendOp("ledger", EntriesOf(t)[1])
  BY <1>1, OpsListed
<1>3. EntriesOf(t)[1] # EntriesOf(t)[2]
  <2>1. /\ EntriesOf(t)[1].act = "legal-hold.recorded"
        /\ EntriesOf(t)[2].act = "case.legal-hold-changed"
    BY <1>1, EntriesShape
  <2> QED
    BY <2>1
<1>4. Replayed(t) = r4
  BY <1>1, <1>2, ReplayUnrolled
<1> HIDE DEF tail, ops
<1>5. DiskTyped(r1.disk) /\ r1.disk.tail["ledger"] = tail
  <2>1. ops[1].type = "append" /\ ops[1].file = "legal_holds" /\ ops[1].rec = RowOf(t)
    BY <1>2 DEF AppendOp
  <2>2. RowOf(t) \in LinesOf("legal_holds") /\ "legal_holds" \in Files /\ "ledger" \in Files
        /\ "ledger" # "legal_holds"
    BY <1>1 DEF RowOf, Rows, LinesOf, Files, DataFiles, Txns
  <2> DEFINE e == AppendIdempotent(disk, "legal_holds", RowOf(t))
  <2>3. DiskTyped(e)
    BY <1>1, <2>2, AppendTyped
  <2>4. e.tail["ledger"] = tail
    <3>1. ASSUME NEW rows, NEW c
          PROVE  SetFile(disk, "legal_holds", rows, c).tail["ledger"] = tail
      BY <1>1, <2>2, SetFileLeaves DEF tail
    <3>2. [disk EXCEPT !.tail["legal_holds"].cut = "garbled"].tail["ledger"] = tail
      BY <1>1, <2>2 DEF tail, DiskTyped, Disks
    <3> QED
      BY <3>1, <3>2 DEF AppendIdempotent
  <2>5. ApplyOperation(disk, t, ops[1]) = e
    BY <2>1 DEF ApplyOperation
  <2> HIDE DEF e
  <2>6. r1.disk \in {disk, e}
    BY <2>5 DEF ReplayStep
  <2> QED
    BY <1>1, <2>3, <2>4, <2>6 DEF tail
<1> HIDE DEF r1
<1>6. r2.disk.tail["ledger"] = tail
  <2>1. ApplyOperation(r1.disk, t, ops[2]).tail = r1.disk.tail
    BY <1>2, <1>5, ReplaceEffect
  <2> QED
    BY <1>5, <2>1 DEF ReplayStep
<1> HIDE DEF r2
<1>7. ~r3.ok
  <2>1. ops[3].type = "append" /\ ops[3].file = "ledger" /\ ops[3].rec = EntriesOf(t)[1]
    BY <1>2 DEF AppendOp
  <2>2. ~CanAppend(r2.disk, "ledger", EntriesOf(t)[1])
    BY <1>1, <1>3, <1>6 DEF CanAppend, Readable, PrefixOf
  <2>3. ~CanApply(r2.disk, t, ops[3])
    BY <2>1, <2>2 DEF CanApply
  <2> QED
    BY <2>3 DEF ReplayStep
<1> HIDE DEF r3
<1> QED
  BY <1>4, <1>7 DEF ReplayStep

(***************************************************************************)
(* The invariant, all of it.                                               *)
(***************************************************************************)
LEMMA WantedNext == TypeOK /\ Turns /\ JobInv /\ WantedInv /\ [Next]_vars => WantedInv'
<1>1. SUFFICES ASSUME TypeOK, Turns, JobInv, WantedInv, [Next]_vars, NEW q \in Procs,
                      job'[q] # job[q], job'[q] # "note"
               PROVE  job'[q] \in Wanted
  BY DEF WantedInv
<1>2. StagePayload(q) \/ \E kind \in Kinds : TakeLock(q, kind)
  BY <1>1 DEF TypeOK, Next, Progress, StagePayload, TakeLock, StartRecovery, RecoverNothing,
       Build, Refuse, WriteJournal, Apply, ApplyRefused, DropPayload, Crash, Forget,
       IOError, UnhandledError, LockError, Finish, FinishReplay, Raise, vars, faults
<1>3. CASE StagePayload(q)
  BY <1>1, <1>3 DEF StagePayload, TypeOK
<1>4. ASSUME NEW kind \in Kinds, TakeLock(q, kind) PROVE job'[q] \in Wanted
  <2>1. job'[q] = kind
    BY <1>1, <1>4 DEF TakeLock, TypeOK
  <2>2. CASE kind = "artifact"
    BY <1>1, <1>4, <2>1, <2>2 DEF TakeLock, JobInv
  <2>3. CASE kind # "artifact"
    BY <1>1, <1>4, <2>1, <2>3 DEF TakeLock
  <2> QED
    BY <2>2, <2>3
<1> QED
  BY <1>2, <1>3, <1>4

LEMMA PendingWantedNext ==
  TypeOK /\ Turns /\ JobInv /\ WantedInv /\ PendingWanted /\ [Next]_vars => PendingWanted'
<1>1. SUFFICES ASSUME TypeOK, Turns, JobInv, WantedInv, PendingWanted, [Next]_vars,
                      NEW t \in journals', t \notin journals
               PROVE  t.kind \in Wanted \union {"note"}
  BY DEF PendingWanted
<1>2. PICK p \in Procs : WriteJournal(p)
  BY <1>1 DEF Next, Progress, StagePayload, TakeLock, StartRecovery, RecoverNothing,
       Build, Refuse, Apply, ApplyRefused, DropPayload, Crash,
       IOError, UnhandledError, LockError, Finish, FinishReplay, vars, faults
<1> QED
  BY <1>1, <1>2 DEF WriteJournal, JobInv, WantedInv

LEMMA InvariantInit == Init => StoreInvariant
<1>1. ASSUME Init PROVE FilesInv /\ StagedInv
  BY <1>1, TypeInit, TurnsInit, IdsInit, StoreInit DEF FilesInv, IdsInv
<1>2. ASSUME Init PROVE CountInv
  <2>1. /\ nextId = 1 /\ crashes = 0 /\ errors = 0 /\ ~Owed
        /\ MaxTxns \in Nat /\ MaxCrashes \in Nat /\ MaxErrors \in Nat
    BY <1>2, CaseStoreAssumption DEF Init, Owed
  <2> QED
    BY <2>1 DEF CountInv
<1>3. ASSUME Init PROVE CleanInv /\ WantedInv /\ PendingWanted
  BY <1>3 DEF Init, CleanInv, WantedInv, PendingWanted, FirstDisk
<1> QED
  BY <1>1, <1>2, <1>3 DEF StoreInvariant

LEMMA InvariantNext == StoreInvariant /\ [Next]_vars => StoreInvariant'
<1> SUFFICES ASSUME StoreInvariant, [Next]_vars PROVE StoreInvariant'
  OBVIOUS
<1>1. FilesInv /\ StagedInv /\ CountInv /\ CleanInv /\ WantedInv /\ PendingWanted
  BY DEF StoreInvariant
<1>2. IdsInv /\ PayloadInv /\ TypeOK /\ Turns /\ JobInv
  BY <1>1 DEF FilesInv, IdsInv
<1>3. IdsInv'
  BY <1>2, TypeNext, TurnsNext, JobNext, IdNext DEF IdsInv
<1>4. FilesInv'
  BY <1>1, <1>2, <1>3, PayloadNext, StoreNext, ApplyNext DEF FilesInv
<1>5. StagedInv' /\ CountInv' /\ CleanInv'
  BY <1>1, <1>2, StagedNext, CountNext, CleanNext
<1>6. WantedInv' /\ PendingWanted'
  BY <1>1, <1>2, WantedNext, PendingWantedNext
<1> QED
  BY <1>4, <1>5, <1>6 DEF StoreInvariant

LEMMA InvariantAlways == Spec => []StoreInvariant
  BY InvariantInit, InvariantNext, PTL DEF Spec

\* With no journal pending, whatever was killed, torn, replayed or refused
\* before, verify_case finds the files whole.
THEOREM SettledFilesAgree == Spec => []SettledCaseVerifies
<1>1. StoreInvariant => SettledCaseVerifies
  BY IntactAgrees DEF StoreInvariant, FilesInv, StoreInv, Base, SettledCaseVerifies
<1> QED
  BY <1>1, InvariantAlways, PTL

\* An upload leaves its payload behind only if it has a journal, if its process
\* was killed, or if an I/O error struck before its try or in its except clause.
THEOREM NoStrayUploads == Spec => []UploadsCleanUp
<1>1. StoreInvariant => UploadsCleanUp
  BY DEF StoreInvariant, CleanInv, Owner, UploadsCleanUp
<1> QED
  BY <1>1, InvariantAlways, PTL

LEMMA StuckIsTorn == \A t : Stuck(disk, t) <=> TornSecondEntry(t)
  BY DEF Stuck, TornSecondEntry

\* A journal can be replayed at every moment, except that of a legal hold whose
\* second ledger entry is torn, which never can.
THEOREM TornHoldsOnly == Spec => []OnlyTornHoldsBlock
<1>1. StoreInvariant => OnlyTornHoldsBlock
  BY ReplayCompletes, ReplayFails, StuckIsTorn
     DEF StoreInvariant, FilesInv, IdsInv, OnlyTornHoldsBlock
<1> QED
  BY <1>1, InvariantAlways, PTL

\* So where no legal hold is placed or released every journal that nobody is
\* working on can be replayed, as docs/ARCHITECTURE.md promises.
THEOREM RecoverableWithoutHolds ==
  ASSUME "hold" \notin Wanted
  PROVE  Spec => []PendingIsRecoverable
<1>1. StoreInvariant => PendingIsRecoverable
  <2> SUFFICES ASSUME StoreInvariant, NEW t \in journals
               PROVE  Replayed(t).ok /\ FilesAgree(Replayed(t).disk)
    BY DEF PendingIsRecoverable
  <2>1. t.kind # "hold"
    BY DEF StoreInvariant, PendingWanted
  <2> QED
    BY <2>1, ReplayCompletes DEF StoreInvariant, Stuck
<1> QED
  BY <1>1, InvariantAlways, PTL

(***************************************************************************)
(* The store implements CaseLog.                                           *)
(***************************************************************************)
\* CaseLog reads a case as the store does.
LEMMA SameReading ==
  /\ \A x : Log!LatestDoc(x) = LatestDoc(x)
  /\ \A x : Log!EntriesOf(x) = EntriesOf(x)
  /\ \A x, k, i : Log!Changed(x, k, i) = Changed(x, k, i)
  /\ \A x, k : Log!Permitted(x, k) <=> Permitted(x, k)
  /\ \A x : Log!EntryId(x) = EntryId(x) /\ Log!Last(x) = Last(x)
  /\ Log!CreatedEntry = CreatedEntry /\ Log!Kinds = Kinds
<1>1. \A x : Log!LatestDoc(x) = LatestDoc(x)
  BY DEF Log!LatestDoc, LatestDoc, Log!CaseEntries, CaseEntries,
         Log!CaseActions, CaseActions, Log!Max, Max
<1>2. \A x : Log!EntriesOf(x) = EntriesOf(x)
  BY DEF Log!EntriesOf, EntriesOf, Log!EntryOf, EntryOf, EntryId, Log!EntryId
<1>3. \A x, k, i : Log!Changed(x, k, i) = Changed(x, k, i)
  BY DEF Log!Changed, Changed, Log!WithStatus, WithStatus, Log!WithHold,
         WithHold, Log!WithRetention, WithRetention, Statuses, Log!Statuses
<1>4. \A x, k : Log!Permitted(x, k) <=> Permitted(x, k)
  BY DEF Log!Permitted, Permitted, Log!Mutable, Mutable, Log!RecordKinds, RecordKinds
<1>5. \A x : Log!EntryId(x) = EntryId(x) /\ Log!Last(x) = Last(x)
  BY DEF Log!EntryId, EntryId, Log!Last, Last
<1>6. Log!CreatedEntry = CreatedEntry /\ Log!Kinds = Kinds
  BY DEF Log!CreatedEntry, CreatedEntry, Log!Kinds, Kinds, Log!NoEntry,
         NoEntry, Log!FirstDoc, FirstDoc
<1> QED
  BY <1>1, <1>2, <1>3, <1>4, <1>5, <1>6

\* However much of a transaction is in the ledger, what was there before it is
\* found again.
LEMMA BeforeIsBase ==
  ASSUME NEW old \in Seq(Entries), NEW written \in Seq(Entries), NEW t \in Txns,
         NEW n \in 0..Len(EntriesOf(t)), Grown(written, old, EntriesOf(t), n),
         \A i \in 1..Len(old) : old[i].txn # t.id
  PROVE  Before(written, t) = old
<1> DEFINE m == Len(old)
           Cut(k) == \A i \in 1..Len(written) : written[i].txn # t.id <=> i <= k
           c == CHOOSE k \in 0..Len(written) : Cut(k)
<1>1. /\ m \in Nat /\ Len(written) = m + n /\ n \in Nat
      /\ \A i \in 1..m : written[i] = old[i]
      /\ \A i \in 1..n : written[m + i] = EntriesOf(t)[i]
  BY EntriesTyped DEF Grown
<1>2. \A i \in 1..n : EntriesOf(t)[i].txn = t.id
  <2>1. /\ \A i \in 1..Len(Added(t, "ledger")) : Added(t, "ledger")[i].txn = t.id
        /\ Added(t, "ledger") = EntriesOf(t)
    BY AddedShape DEF Added, Files
  <2>2. Len(EntriesOf(t)) \in Nat
    BY EntriesTyped
  <2> QED
    BY <2>1, <2>2
<1> HIDE DEF m
<1>3. Cut(m)
  <2>1. ASSUME NEW i \in 1..Len(written), i <= m PROVE written[i].txn # t.id
    <3>1. i \in 1..m
      BY <1>1, <2>1
    <3> QED
      BY <1>1, <3>1 DEF m
  <2>2. ASSUME NEW i \in 1..Len(written), ~(i <= m) PROVE written[i].txn = t.id
    <3>1. i - m \in 1..n /\ m + (i - m) = i
      BY <1>1, <2>2
    <3>2. written[m + (i - m)] = EntriesOf(t)[i - m]
      BY <1>1, <3>1
    <3> QED
      BY <1>2, <3>1, <3>2
  <2> QED
    BY <2>1, <2>2
<1>4. m \in 0..Len(written)
  BY <1>1
<1>5. c \in 0..Len(written) /\ Cut(c)
  BY <1>3, <1>4
<1> HIDE DEF c
<1>6. c = m
  <2>1. c \in Nat /\ c <= m + n
    BY <1>1, <1>5
  <2>2. ASSUME c < m PROVE FALSE
    <3>1. c + 1 \in 1..Len(written) /\ c + 1 <= m /\ ~(c + 1 <= c)
      BY <1>1, <2>1, <2>2
    <3> QED
      BY <1>3, <1>5, <3>1
  <2>3. ASSUME c > m PROVE FALSE
    <3>1. m + 1 \in 1..Len(written) /\ m + 1 <= c /\ ~(m + 1 <= m)
      BY <1>1, <2>1, <2>3
    <3> QED
      BY <1>3, <1>5, <3>1
  <2> QED
    BY <1>1, <2>1, <2>2, <2>3
<1>7. SubSeq(written, 1, m) = old
  <2>1. \A i \in 1..m : written[i] \in Entries /\ written[i] = old[i]
    <3>1. \A i \in 1..m : i \in 1..Len(written)
      BY <1>1
    <3> QED
      BY <1>1, <3>1, ElementOfSeq
  <2>2. /\ SubSeq(written, 1, m) \in Seq(Entries)
        /\ Len(SubSeq(written, 1, m)) = IF 1 <= m THEN m - 1 + 1 ELSE 0
        /\ \A i \in 1..(m - 1 + 1) : SubSeq(written, 1, m)[i] = written[1 + i - 1]
    BY <1>1, <2>1, SubSeqProperties
  <2>3. Len(SubSeq(written, 1, m)) = m
    BY <1>1, <2>2
  <2>4. \A i \in 1..m : SubSeq(written, 1, m)[i] = old[i]
    <3>1. \A i \in 1..m : i \in 1..(m - 1 + 1) /\ 1 + i - 1 = i
      BY <1>1
    <3> QED
      BY <2>1, <2>2, <3>1
  <2> QED
    BY <2>2, <2>3, <2>4, SeqEqual DEF m
<1>8. Before(written, t) = SubSeq(written, 1, c)
  BY DEF Before, c
<1> QED
  BY <1>6, <1>7, <1>8

\* What is promised when the journals are js and the files d: nothing more than
\* the ledger, or what the pending transaction was built on and its entries.
PromisedBy(d, js) ==
    LET t == CHOOSE u \in js : TRUE
    IN  IF js = {} THEN ReadJsonl(d, "ledger")
        ELSE Before(ReadJsonl(d, "ledger"), t) \o EntriesOf(t)

LEMMA PromisedPartly ==
  ASSUME NEW t \in Txns, NEW b, NEW d, DiskTyped(b), Intact(b), DiskTyped(d),
         BuiltOn(t, b), Partial(d, b, t)
  PROVE  PromisedBy(d, {t}) = b.rows["ledger"] \o EntriesOf(t)
<1>1. "ledger" \in Files /\ Added(t, "ledger") = EntriesOf(t)
  BY DEF Files, Added
<1>2. PICK n \in 0..Len(EntriesOf(t)) : Reaches(d, b, t, "ledger", n)
  BY <1>1 DEF Partial
<1>3. /\ Whole(d, n, "ledger") \in 0..Len(EntriesOf(t))
      /\ Grown(ReadJsonl(d, "ledger"), b.rows["ledger"], EntriesOf(t), Whole(d, n, "ledger"))
  BY <1>1, <1>2, ReadGrown
<1>4. b.rows["ledger"] \in Seq(Entries) /\ ReadJsonl(d, "ledger") \in Seq(Entries)
  BY <1>1, ReadTyped DEF LinesOf
<1>5. \A i \in 1..Len(b.rows["ledger"]) : b.rows["ledger"][i].txn # t.id
  BY DEF BuiltOn
<1>6. Before(ReadJsonl(d, "ledger"), t) = b.rows["ledger"]
  BY <1>3, <1>4, <1>5, BeforeIsBase
<1> QED
  BY <1>6 DEF PromisedBy

LEMMA PromisedWhole ==
  ASSUME NEW d, DiskTyped(d), Intact(d)
  PROVE  PromisedBy(d, {}) = d.rows["ledger"]
  BY IntactReads DEF PromisedBy, Intact, Files

LEMMA PromisedIs == Promised = PromisedBy(disk, journals)
  BY DEF Promised, PromisedBy

LEMMA PromisedNext == Promised' = PromisedBy(disk', journals')
  BY DEF Promised, PromisedBy

\* What is promised, in terms of what the pending transaction was built on.
LEMMA PromisedPending ==
  ASSUME TypeOK, Turns, NEW t \in journals, NEW b, PendingOn(b, t)
  PROVE  Promised = b.rows["ledger"] \o EntriesOf(t) /\ journals = {t}
<1>1. journals = {t}
  BY DEF Turns, TurnInv
<1>2. DiskTyped(b) /\ Intact(b) /\ BuiltOn(t, b) /\ Partial(disk, b, t) /\ t \in Txns /\ DiskTyped(disk)
  BY DEF PendingOn, Base, TypeOK
<1> QED
  BY <1>1, <1>2, PromisedPartly, PromisedIs

LEMMA PromisedPendingNext ==
  ASSUME TypeOK', Turns', NEW t \in journals', NEW CONSTANT b, PendingOn(b, t)'
  PROVE  Promised' = b.rows["ledger"] \o EntriesOf(t)
<1>1. journals' = {t}
  BY DEF Turns, TurnInv
<1>2. DiskTyped(b) /\ Intact(b) /\ BuiltOn(t, b) /\ Partial(disk', b, t) /\ t \in Txns /\ DiskTyped(disk')
  BY DEF PendingOn, Base, TypeOK
<1> QED
  BY <1>1, <1>2, PromisedPartly, PromisedNext

LEMMA PromisedSettled ==
  ASSUME StoreInv, journals = {}
  PROVE  Promised = disk.rows["ledger"] /\ Base(disk)
<1>1. Base(disk)
  BY DEF StoreInv
<1> QED
  BY <1>1, PromisedWhole, PromisedIs DEF Base

LEMMA PromisedSettledNext ==
  ASSUME StoreInv', journals' = {}
  PROVE  Promised' = disk'.rows["ledger"]
<1>1. DiskTyped(disk') /\ Intact(disk')
  BY DEF StoreInv, Base
<1> QED
  BY <1>1, PromisedWhole, PromisedNext

\* The files of a completed transaction hold what was promised.
LEMMA CompleteHoldsPromise ==
  ASSUME NEW d, DiskTyped(d), NEW b, DiskTyped(b), NEW t \in Txns, Complete(d, b, t)
  PROVE  d.rows["ledger"] = b.rows["ledger"] \o EntriesOf(t)
<1> DEFINE old == b.rows["ledger"]
           new == d.rows["ledger"]
           e == EntriesOf(t)
<1>1. /\ Len(old) \in Nat \ {0} /\ Len(new) = Len(old) + Len(e)
      /\ Len(e) = IF t.kind = "hold" THEN 2 ELSE 1
      /\ \A i \in 1..Len(old) : new[i] = old[i]
      /\ new[Len(old) + 1] = e[1]
      /\ t.kind = "hold" => new[Len(old) + 2] = e[2]
  BY CompleteLedger
<1>2. old \in Seq(Entries) /\ new \in Seq(Entries) /\ e \in Seq(Entries)
  BY ReadTyped, EntriesTyped DEF LinesOf, Files
<1> HIDE DEF old, new, e
<1>3. /\ old \o e \in Seq(Entries) /\ Len(old \o e) = Len(old) + Len(e)
      /\ \A i \in 1..(Len(old) + Len(e)) :
           (old \o e)[i] = IF i <= Len(old) THEN old[i] ELSE e[i - Len(old)]
  BY <1>2, ConcatProperties
<1>4. ASSUME NEW i \in 1..Len(new) PROVE new[i] = (old \o e)[i]
  <2>1. i \in 1..(Len(old) + Len(e))
    BY <1>1
  <2>2. CASE i <= Len(old)
    <3>1. i \in 1..Len(old)
      BY <1>1, <2>2
    <3> QED
      BY <1>1, <1>3, <2>1, <2>2, <3>1
  <2>3. CASE i = Len(old) + 1
    <3>1. ~(i <= Len(old)) /\ i - Len(old) = 1
      BY <1>1, <2>3
    <3> QED
      BY <1>1, <1>3, <2>1, <2>3, <3>1
  <2>4. CASE t.kind = "hold" /\ i = Len(old) + 2
    <3>1. ~(i <= Len(old)) /\ i - Len(old) = 2
      BY <1>1, <2>4
    <3> QED
      BY <1>1, <1>3, <2>1, <2>4, <3>1
  <2>5. i <= Len(old) \/ i = Len(old) + 1 \/ (t.kind = "hold" /\ i = Len(old) + 2)
    BY <1>1, <2>1
  <2> QED
    BY <2>2, <2>3, <2>4, <2>5
<1>5. new = old \o e
  BY <1>1, <1>2, <1>3, <1>4, SeqEqual
<1> QED
  BY <1>5 DEF new, old, e

LEMMA FinishedHoldsPromise ==
  ASSUME FilesInv, NEW p \in Procs, pc[p] \in {"apply", "replay"}, ~Applying(p)
  PROVE  Promised = disk.rows["ledger"]
<1>1. journals = {txn[p]} /\ txn[p] \in Txns /\ DiskTyped(disk) /\ TypeOK /\ Turns /\ StoreInv
  BY DEF Turns, TurnInv, TypeOK, FilesInv, IdsInv
<1>2. PICK b : PendingOn(b, txn[p])
  BY <1>1 DEF StoreInv
<1>3. DiskTyped(b)
  BY <1>2 DEF PendingOn, Base
<1>4. Complete(disk, b, txn[p])
  BY <1>2, FinishedIsComplete
<1>5. Promised = b.rows["ledger"] \o EntriesOf(txn[p])
  BY <1>1, <1>2, PromisedPending
<1> QED
  BY <1>1, <1>3, <1>4, <1>5, CompleteHoldsPromise

\* Journals appear and disappear in three actions.
LEMMA JournalsMove ==
  ASSUME [Next]_vars
  PROVE  \/ journals' = journals
         \/ \E p \in Procs : WriteJournal(p) \/ Finish(p) \/ FinishReplay(p)
  BY DEF Next, Progress, StagePayload, TakeLock, StartRecovery, RecoverNothing,
         Build, Refuse, Apply, ApplyRefused, DropPayload, Crash, IOError, UnhandledError, LockError, vars, faults

\* A journal that appears decides its transaction.
LEMMA JournalDecides ==
  ASSUME StoreInvariant, [Next]_vars, NEW p \in Procs, WriteJournal(p)
  PROVE  \E id \in 1..LastId, kind \in Log!Kinds : Log!Decide(id, kind)
<1> DEFINE log == disk.rows["ledger"]
<1> PICK t : t = txn[p]
  OBVIOUS
<1>0. FilesInv /\ IdsInv /\ TypeOK /\ Turns /\ StoreInv /\ CountInv
  BY DEF StoreInvariant, FilesInv, IdsInv
<1>1. /\ pc[p] = "built" /\ disk' = disk /\ journals = {} /\ journals' = {t}
      /\ t \in Txns /\ BuiltOn(t, disk)
  BY <1>0 DEF WriteJournal, Turns, TurnInv, TypeOK, StoreInv
<1>2. Promised = log /\ Base(disk)
  BY <1>0, <1>1, PromisedSettled
<1>3. Promised' = log \o EntriesOf(t)
  <2>1. PICK b : b = disk
    OBVIOUS
  <2>2. Partial(disk, b, t)
    BY <1>1, <1>2, <2>1, FreshPartial DEF Base
  <2>3. Base(b)'
    BY <1>0, <1>2, <2>1, BaseStep
  <2>4. PendingOn(b, t)'
    BY <1>1, <1>2, <2>1, <2>2, <2>3 DEF PendingOn
  <2>5. TypeOK' /\ Turns'
    BY <1>0, TypeNext, TurnsNext
  <2> QED
    BY <1>1, <2>1, <2>4, <2>5, PromisedPendingNext
<1>4. LatestDoc(log) = disk.doc
  <2>1. \E m \in CaseEntries(log) : log[m].after = disk.doc /\ \A j \in CaseEntries(log) : j <= m
    BY <1>2 DEF Base, Intact, DocChained
  <2> QED
    BY <2>1, LatestIsLast
<1>5. /\ t.before = disk.doc /\ t.after = Changed(disk.doc, t.kind, t.id)
      /\ t.prev = EntryId(Last(log)) /\ Permitted(disk.doc, t.kind)
      /\ \A i \in 1..Len(log) : log[i].txn # t.id
  BY <1>1 DEF BuiltOn
<1>6. t = [id |-> t.id, kind |-> t.kind, before |-> t.before,
           after |-> t.after, prev |-> t.prev]
  BY <1>1 DEF Txns
<1>7. t.id \in 1..LastId /\ t.kind \in Kinds
  <2>1. t.id \in 1..(nextId - 1)
    BY <1>0, <1>1 DEF IdsInv, IdInv, Holder
  <2>2. nextId <= LastId
    <3>1. /\ nextId <= MaxTxns + 2 + crashes + errors
          /\ crashes <= MaxCrashes /\ errors <= MaxErrors
          /\ crashes \in Nat /\ errors \in Nat /\ nextId \in Nat
          /\ MaxTxns \in Nat /\ MaxCrashes \in Nat /\ MaxErrors \in Nat
      BY <1>0, CaseStoreAssumption DEF CountInv, TypeOK
    <3> QED
      BY <3>1 DEF LastId
  <2>3. nextId \in Nat /\ LastId \in Nat
    BY <1>0, CaseStoreAssumption DEF TypeOK, LastId
  <2> QED
    BY <1>1, <2>1, <2>2, <2>3 DEF Txns
<1> HIDE DEF log
<1>8. Log!Decide(t.id, t.kind)
  <2> DEFINE u == [id |-> t.id, kind |-> t.kind, before |-> LatestDoc(log),
                   after |-> Changed(LatestDoc(log), t.kind, t.id),
                   prev |-> EntryId(Last(log))]
  <2>1. u = t
    BY <1>4, <1>5, <1>6
  <2> HIDE DEF u
  <2>2. /\ ~(journals # {}) /\ (journals' # {}) = TRUE
        /\ Permitted(LatestDoc(log), t.kind)
        /\ \A i \in 1..Len(log) : log[i].txn # t.id
        /\ Promised' = log \o EntriesOf(u)
    BY <1>1, <1>3, <1>4, <1>5, <2>1
  <2> QED
    BY <1>2, <2>2, SameReading DEF Log!Decide, u
<1> QED
  BY <1>7, <1>8, SameReading

LEMMA LogNextHolds ==
  StoreInvariant /\ StoreInvariant' /\ [Next]_vars => [Log!LogNext]_(Log!logVars)
<1> SUFFICES ASSUME StoreInvariant, StoreInvariant', [Next]_vars
             PROVE  Log!LogNext \/ (Promised' = Promised /\ (journals # {})' = (journals # {}))
  BY DEF Log!logVars
<1>0. /\ FilesInv /\ TypeOK /\ Turns /\ StoreInv
      /\ FilesInv' /\ TypeOK' /\ Turns' /\ StoreInv'
  BY DEF StoreInvariant, FilesInv, IdsInv
<1>1. CASE journals' = journals /\ journals = {}
  <2>1. SameFiles(disk, disk')
    BY <1>0, <1>1, DiskStep, ApplyingPending DEF Apply, FilesInv
  <2>2. Promised = disk.rows["ledger"] /\ Promised' = disk'.rows["ledger"]
    BY <1>0, <1>1, PromisedSettled, PromisedSettledNext
  <2> QED
    BY <1>1, <2>1, <2>2 DEF SameFiles
<1>2. CASE journals' = journals /\ journals # {}
  <2>1. PICK t : t \in journals
    BY <1>2
  <2>2. PICK b : PendingOn(b, t)
    BY <1>0, <2>1 DEF StoreInv
  <2>3. PendingOn(b, t)'
    BY <1>0, <2>1, <2>2, PendingStep
  <2>4. Promised = b.rows["ledger"] \o EntriesOf(t)
    BY <1>0, <2>1, <2>2, PromisedPending
  <2>5. Promised' = b.rows["ledger"] \o EntriesOf(t)
    BY <1>0, <1>2, <2>1, <2>3, PromisedPendingNext
  <2> QED
    BY <1>2, <2>1, <2>3, <2>4, <2>5
<1>3. ASSUME NEW p \in Procs, WriteJournal(p) PROVE Log!LogNext
  BY <1>3, JournalDecides DEF Log!LogNext
<1>4. ASSUME NEW p \in Procs, Finish(p) \/ FinishReplay(p) PROVE Log!LogNext
  <2>1. /\ pc[p] \in {"apply", "replay"} /\ ~Applying(p) /\ disk' = disk
        /\ journals = {txn[p]} /\ journals' = {}
    BY <1>0, <1>4 DEF Finish, FinishReplay, Turns, TurnInv
  <2>2. Promised = disk.rows["ledger"]
    BY <1>0, <2>1, FinishedHoldsPromise
  <2>3. Promised' = disk'.rows["ledger"]
    BY <1>0, <2>1, PromisedSettledNext
  <2>4. Promised' = Promised
    BY <2>1, <2>2, <2>3
  <2> QED
    BY <2>1, <2>4 DEF Log!LogNext, Log!Publish
<1> QED
  BY <1>1, <1>2, <1>3, <1>4, JournalsMove

\* Every step of the store is a step of CaseLog or none: a decided transaction
\* is never lost, reordered, half applied or applied twice, whoever crashes, and
\* it was decided under the rules of the case record the ledger describes.
THEOREM StoreImplementsLog == Spec => ImplementsLog
<1>1. Init => Log!LogInit
  <2> SUFFICES ASSUME Init PROVE Promised = <<CreatedEntry>> /\ journals = {}
    BY SameReading DEF Log!LogInit
  <2>1. journals = {} /\ disk = FirstDisk
    BY DEF Init
  <2>2. ReadJsonl(FirstDisk, "ledger") = <<CreatedEntry>>
    BY DEF ReadJsonl, FirstDisk, Files, NoTail
  <2> QED
    BY <2>1, <2>2 DEF Promised
<1> QED
  BY <1>1, InvariantAlways, LogNextHolds, PTL DEF Spec, ImplementsLog, Log!LogSpec

=============================================================================
