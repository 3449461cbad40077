----------------------------- MODULE CaseStore -----------------------------
(***************************************************************************)
(* One case directory, written by several processes: the case lock, the    *)
(* transaction journal, the JSONL files, the hash-chained ledger, case.json*)
(* and artifact payloads, with processes that die or meet an I/O error at  *)
(* any point, and recover_case, which completes what they left.            *)
(*                                                                         *)
(* A step is one durable effect of the code (every one is followed by an   *)
(* fsync before the next) or one read that a later step relies on.  What   *)
(* an append leaves in its file when it is cut short is in Torn.           *)
(***************************************************************************)
EXTENDS CaseRecords, FiniteSets

CONSTANTS Procs,        \* processes working on the case
          NoProc,       \* the owner of a free lock
          Wanted,       \* the kinds of mutation they ask for
          MaxTxns,      \* bound: identifiers they may take
          MaxCrashes,   \* bound: processes killed
          MaxErrors     \* bound: operations that raise OSError

ASSUME CaseStoreAssumption ==
    /\ NoProc \notin Procs
    /\ Wanted \subseteq Kinds
    /\ MaxTxns \in Nat
    /\ MaxCrashes \in Nat
    /\ MaxErrors \in Nat

VARIABLES lock,         \* owner of .case.lock
          journals,     \* transactions whose journal is in .transactions
          disk,         \* case.json, the files and the payloads
          pc,           \* where each process is
          job,          \* the kind of mutation each process is making
          txn,          \* the transaction it has built or is replaying
          at,           \* the operation it will apply next
          nextId,       \* new_id
          crashes,      \* processes killed so far
          errors,       \* OSErrors so far
          abandoned     \* history: uploads that ended with their payload staged

faults == <<crashes, errors, abandoned>>
vars == <<lock, journals, disk, pc, job, txn, at, nextId, faults>>

(***************************************************************************)
(* Files.  The bytes after the last newline of a file are its tail: none,  *)
(* the beginning of the line of "rec" (short: as far as every line of the  *)
(* file has in common; long: further), the whole line without its newline, *)
(* or two lines run together.                                              *)
(***************************************************************************)
Cuts == {"none", "short", "long", "unterminated", "garbled"}
Tails == [cut: Cuts, rec: Rows \union Entries]
NoTail == [cut |-> "none", rec |-> NoRow]

Disks == [doc: CaseDocs, rows: [Files -> Seq(Rows \union Entries)],
          tail: [Files -> Tails], staged: SUBSET Nat, installed: SUBSET Nat]

\* The lines a file holds.
LinesOf(f) == IF f = "ledger" THEN Entries ELSE Rows

FirstDisk == [doc |-> FirstDoc,
              rows |-> [f \in Files |-> IF f = "ledger" THEN <<CreatedEntry>>
                                        ELSE <<>>],
              tail |-> [f \in Files |-> NoTail],
              staged |-> {}, installed |-> {}]

\* read_jsonl raises on a line that is not JSON, and does not miss a newline
\* at the end of the last one.
Readable(d, f) == d.tail[f].cut \in {"none", "unterminated"}
ReadJsonl(d, f) == IF d.tail[f].cut = "unterminated"
                   THEN Append(d.rows[f], d.tail[f].rec)
                   ELSE d.rows[f]

Ids(s) == {s[i] : i \in 1..Len(s)}
RecordId(r) == IF "txn" \in DOMAIN r THEN EntryId(r) ELSE r.id

\* Is what follows the last newline the beginning of the line of rec?
PrefixOf(tail, rec) ==
    tail.cut = "short" \/ (tail.cut = "long" /\ tail.rec = rec)

\* Variant: a partial line is never cut off.
CanAppend_NoTruncation(d, f, rec) == Readable(d, f)

\* The conditions under which _append_idempotent does not raise.
CanAppend(d, f, rec) ==
    /\ Readable(d, f) \/ PrefixOf(d.tail[f], rec)
    /\ rec \notin Ids(ReadJsonl(d, f)) =>
         \A r \in Ids(ReadJsonl(d, f)) : RecordId(r) # RecordId(rec)

SetFile(d, f, rows, tail) ==
    [d EXCEPT !.rows[f] = rows, !.tail[f] = tail]

\* Variant: a record already in the file is appended again.
AppendIdempotent_Again(d, f, rec) ==
    SetFile(d, f, Append(d.rows[f], rec), NoTail)

AppendIdempotent(d, f, rec) ==
    IF rec \in Ids(ReadJsonl(d, f))
    THEN SetFile(d, f, ReadJsonl(d, f), NoTail)
    ELSE IF d.tail[f].cut = "unterminated"
    THEN [d EXCEPT !.tail[f].cut = "garbled"]
    ELSE SetFile(d, f, Append(d.rows[f], rec), NoTail)

(***************************************************************************)
(* _apply_operation: when it does not raise, and what it leaves.           *)
(***************************************************************************)
CanApply(d, t, op) ==
    CASE op.type = "append"  -> CanAppend(d, op.file, op.rec)
      [] op.type = "replace" -> d.doc \in {t.before, t.after}
      [] op.type = "install" -> t.id \in d.staged \union d.installed

ApplyOperation(d, t, op) ==
    CASE op.type = "append"  -> AppendIdempotent(d, op.file, op.rec)
      [] op.type = "replace" -> [d EXCEPT !.doc = t.after]
      [] op.type = "install" -> [d EXCEPT !.staged = @ \ {t.id},
                                          !.installed = @ \union {t.id}]

\* What an operation leaves if it is cut short: nothing, or for an append the
\* old tail cut off, or the new line begun.
Torn(d, t, op) ==
    IF op.type # "append" \/ ~CanApply(d, t, op) THEN {d}
    ELSE {d} \union
         IF \/ op.rec \in Ids(ReadJsonl(d, op.file))
            \/ d.tail[op.file].cut = "unterminated" THEN {}
         ELSE {SetFile(d, op.file, d.rows[op.file], NoTail)} \union
              {SetFile(d, op.file, d.rows[op.file], [cut |-> c, rec |-> op.rec]) :
                  c \in {"short", "long", "unterminated"}}

(***************************************************************************)
(* verify_case, as far as these files go.                                  *)
(***************************************************************************)
OrphanPayloads(d, js) == d.staged \ {t.id : t \in {u \in js : u.kind = "artifact"}}

ChainIntact(ledger) ==
    \A i \in 1..Len(ledger) :
        ledger[i].prev = IF i = 1 THEN NoEntry ELSE EntryId(ledger[i - 1])

\* Every case-carrying entry starts from the record of the one before it.
CaseHistoryIntact(ledger, doc) ==
    LET cs == CaseEntries(ledger)
    IN  /\ Cardinality({i \in 1..Len(ledger) :
                           ledger[i].act = "case.created"}) = 1
        /\ \A i, j \in cs :
              i < j /\ (i + 1)..(j - 1) \intersect cs = {} =>
                ledger[j].before = ledger[i].after
        /\ LatestDoc(ledger) = doc

\* The rows of a file are the payloads the ledger chains for it, once each.
RowsMatchLedger(d, f) ==
    LET ledger == ReadJsonl(d, "ledger")
        rows == ReadJsonl(d, f)
        chained == {i \in 1..Len(ledger) : ledger[i].act = DataAction[f]}
        \* Neither side repeats an id, so equal sets are equal bags.
    IN  /\ {ledger[i].txn : i \in chained} = {rows[i].id : i \in 1..Len(rows)}
        /\ \A i, j \in chained : ledger[i].txn = ledger[j].txn => i = j
        /\ \A i, j \in 1..Len(rows) : rows[i].id = rows[j].id => i = j

\* Placed and released alternate, and case.json agrees with the last of them.
HoldHistoryIntact(d) ==
    LET hs == ReadJsonl(d, "legal_holds")
    IN  /\ \A i \in 1..Len(hs) :
             hs[i].what = IF i = 1 \/ hs[i - 1].what = "released"
                          THEN "placed" ELSE "released"
        /\ d.doc.held = (hs # <<>> /\ Last(hs).what = "placed")

FilesAgree(d) ==
    /\ \A f \in Files : Readable(d, f)
    /\ ChainIntact(ReadJsonl(d, "ledger"))
    /\ CaseHistoryIntact(ReadJsonl(d, "ledger"), d.doc)
    /\ \A f \in DataFiles : RowsMatchLedger(d, f)
    /\ d.installed = {r.id : r \in Ids(ReadJsonl(d, "artifacts"))}
    /\ HoldHistoryIntact(d)

VerifyCase(d, js) == js = {} /\ OrphanPayloads(d, js) = {} /\ FilesAgree(d)

(***************************************************************************)
(* The processes.                                                          *)
(***************************************************************************)
InLock == {"locked", "built", "apply", "replay"}
Places == {"idle", "staged", "failed"} \union InLock

NoTxn == [id |-> 0, kind |-> "note", before |-> FirstDoc, after |-> FirstDoc,
          prev |-> NoEntry]

Init ==
    /\ lock = NoProc
    /\ journals = {}
    /\ disk = FirstDisk
    /\ pc = [p \in Procs |-> "idle"]
    /\ job = [p \in Procs |-> "note"]
    /\ txn = [p \in Procs |-> NoTxn]
    /\ at = [p \in Procs |-> 1]
    /\ nextId = 1
    /\ crashes = 0
    /\ errors = 0
    /\ abandoned = {}

\* add_artifact and add_artifact_bytes stage the payload under a new
\* transaction id before they take the lock.
StagePayload(p) ==
    /\ pc[p] = "idle"
    /\ "artifact" \in Wanted
    /\ nextId <= MaxTxns
    /\ disk' = [disk EXCEPT !.staged = @ \union {nextId}]
    /\ txn' = [txn EXCEPT ![p] = [NoTxn EXCEPT !.id = nextId, !.kind = "artifact"]]
    /\ pc' = [pc EXCEPT ![p] = "staged"]
    /\ job' = [job EXCEPT ![p] = "artifact"]
    /\ nextId' = nextId + 1
    /\ UNCHANGED <<lock, journals, at, faults>>

\* Variant: the lock is not exclusive.
TakeLock_Shared(p, kind) ==
    /\ pc[p] = "idle" /\ kind \in Wanted \ {"artifact"} /\ nextId <= MaxTxns
    /\ lock' = p
    /\ pc' = [pc EXCEPT ![p] = "locked"]
    /\ job' = [job EXCEPT ![p] = kind]
    /\ UNCHANGED <<journals, disk, txn, at, nextId, faults>>

\* case_lock: the exclusive lock on .case.lock, for a mutation ...
TakeLock(p, kind) ==
    /\ lock = NoProc
    /\ \/ pc[p] = "idle" /\ kind \in Wanted \ {"artifact"} /\ nextId <= MaxTxns
       \/ pc[p] = "staged" /\ kind = "artifact"
    /\ lock' = p
    /\ pc' = [pc EXCEPT ![p] = "locked"]
    /\ job' = [job EXCEPT ![p] = kind]
    /\ UNCHANGED <<journals, disk, txn, at, nextId, faults>>

\* The checks a mutation makes under the lock before its journal is written.
Accepted(kind) ==
    /\ kind \in GovernanceKinds => VerifyCase(disk, journals)
    /\ Permitted(disk.doc, kind)
    /\ journals = {}
    /\ Readable(disk, "ledger")

\* commit_transaction reads the end of the ledger, and its caller case.json,
\* and builds the journal.
Build(p) ==
    LET id == IF job[p] = "artifact" THEN txn[p].id ELSE nextId
    IN  /\ pc[p] = "locked"
        /\ Accepted(job[p])
        /\ txn' = [txn EXCEPT ![p] =
                     [id |-> id, kind |-> job[p], before |-> disk.doc,
                      after |-> Changed(disk.doc, job[p], id),
                      prev |-> EntryId(Last(ReadJsonl(disk, "ledger")))]]
        /\ nextId' = IF job[p] = "artifact" THEN nextId ELSE nextId + 1
        /\ pc' = [pc EXCEPT ![p] = "built"]
        /\ UNCHANGED <<lock, journals, disk, job, at, faults>>

\* Variant: operations are counted from zero.
Forget_FromZero(p) ==
    /\ pc' = [pc EXCEPT ![p] = "idle"]
    /\ job' = [job EXCEPT ![p] = "note"]
    /\ txn' = [txn EXCEPT ![p] = NoTxn]
    /\ at' = [at EXCEPT ![p] = 0]

\* A call that is over leaves its local variables behind.
Forget(p) ==
    /\ pc' = [pc EXCEPT ![p] = "idle"]
    /\ job' = [job EXCEPT ![p] = "note"]
    /\ txn' = [txn EXCEPT ![p] = NoTxn]
    /\ at' = [at EXCEPT ![p] = 1]

\* An exception leaves the locked block: the lock is released, and an artifact
\* upload goes on to its exception handler.
Raise(p) ==
    /\ lock' = NoProc
    /\ IF job[p] = "artifact"
       THEN pc' = [pc EXCEPT ![p] = "failed"] /\ UNCHANGED <<job, txn, at>>
       ELSE Forget(p)

Refuse(p) ==
    /\ pc[p] = "locked"
    /\ ~Accepted(job[p])
    /\ Raise(p)
    /\ UNCHANGED <<journals, disk, nextId, faults>>

\* The journal is published by one os.replace: the transaction is decided.
WriteJournal(p) ==
    /\ pc[p] = "built"
    /\ journals' = journals \union {txn[p]}
    /\ at' = [at EXCEPT ![p] = 1]
    /\ pc' = [pc EXCEPT ![p] = "apply"]
    /\ UNCHANGED <<lock, disk, job, txn, nextId, faults>>

Op(p) == OpsOf(txn[p])[at[p]]
Applying(p) == pc[p] \in {"apply", "replay"} /\ at[p] <= Len(OpsOf(txn[p]))

Apply(p) ==
    /\ Applying(p)
    /\ CanApply(disk, txn[p], Op(p))
    /\ disk' = ApplyOperation(disk, txn[p], Op(p))
    /\ at' = [at EXCEPT ![p] = @ + 1]
    /\ UNCHANGED <<lock, journals, pc, job, txn, nextId, faults>>

\* An operation raised: the journal stays.
ApplyRefused(p) ==
    /\ Applying(p)
    /\ ~CanApply(disk, txn[p], Op(p))
    /\ Raise(p)
    /\ UNCHANGED <<journals, disk, nextId, faults>>

\* commit_transaction ends: the journal is unlinked.
Finish(p) ==
    /\ pc[p] = "apply" /\ ~Applying(p)
    /\ journals' = journals \ {txn[p]}
    /\ lock' = NoProc
    /\ Forget(p)
    /\ UNCHANGED <<disk, nextId, faults>>

\* recover_case: with the lock, and exactly one pending journal, its
\* operations are applied again from the first.
StartRecovery(p) ==
    /\ pc[p] = "idle" /\ lock = NoProc
    /\ Cardinality(journals) = 1
    /\ lock' = p
    /\ pc' = [pc EXCEPT ![p] = "replay"]
    /\ job' = [job EXCEPT ![p] = "note"]
    /\ txn' = [txn EXCEPT ![p] = CHOOSE t \in journals : TRUE]
    /\ at' = [at EXCEPT ![p] = 1]
    /\ UNCHANGED <<journals, disk, nextId, faults>>

\* With none, or more than one, it changes nothing.
RecoverNothing(p) ==
    /\ pc[p] = "idle" /\ lock = NoProc
    /\ Cardinality(journals) # 1
    /\ UNCHANGED vars

\* Its journal is unlinked and, still under the lock, the recovery is noted
\* in the ledger by a transaction of its own.
FinishReplay(p) ==
    /\ pc[p] = "replay" /\ ~Applying(p)
    /\ journals' = journals \ {txn[p]}
    /\ pc' = [pc EXCEPT ![p] = "locked"]
    /\ txn' = [txn EXCEPT ![p] = NoTxn]
    /\ at' = [at EXCEPT ![p] = 1]
    /\ UNCHANGED <<lock, disk, job, nextId, faults>>

\* Variants: the handler drops nothing, or does not look for a journal.
DropPayload_Nothing(p) ==
    /\ pc[p] = "failed"
    /\ Forget(p)
    /\ UNCHANGED <<lock, journals, disk, nextId, faults>>
DropPayload_Always(p) ==
    /\ pc[p] = "failed"
    /\ disk' = [disk EXCEPT !.staged = @ \ {txn[p].id}]
    /\ Forget(p)
    /\ UNCHANGED <<lock, journals, nextId, faults>>

\* The except clause of add_artifact, after the lock is released: the staged
\* payload is dropped unless its journal exists.
DropPayload(p) ==
    /\ pc[p] = "failed"
    /\ disk' = IF txn[p].id \in {t.id : t \in journals} THEN disk
               ELSE [disk EXCEPT !.staged = @ \ {txn[p].id}]
    /\ Forget(p)
    /\ UNCHANGED <<lock, journals, nextId, faults>>

(***************************************************************************)
(* Faults: the process is killed (its flock goes with it), or an operation *)
(* raises OSError (the lock is released on the way out).  An operation in  *)
(* progress is torn either way.  Outside the lock an upload may meet an    *)
(* OSError too: before its try, in case_lock, and in its except clause.    *)
(***************************************************************************)
Tear(p) ==
    IF Applying(p) THEN disk' \in Torn(disk, txn[p], Op(p)) ELSE disk' = disk

\* The payload that is left behind if p's call ends here: nobody installs or
\* drops what has no journal.
LeftBehind(p) ==
    IF job[p] = "artifact" THEN {txn[p].id} \ {t.id : t \in journals} ELSE {}

Crash(p) ==
    /\ crashes < MaxCrashes
    /\ pc[p] # "idle"
    /\ Tear(p)
    /\ Forget(p)
    /\ lock' = IF lock = p THEN NoProc ELSE lock
    /\ crashes' = crashes + 1
    /\ abandoned' = abandoned \union LeftBehind(p)
    /\ UNCHANGED <<journals, nextId, errors>>

\* Variant: an error handler removes the journal it leaves.
IOError_DropsJournal(p) ==
    /\ errors < MaxErrors
    /\ pc[p] \in InLock
    /\ Tear(p)
    /\ Raise(p)
    /\ journals' = journals \ {txn[p]}
    /\ errors' = errors + 1
    /\ UNCHANGED <<nextId, crashes, abandoned>>

IOError(p) ==
    /\ errors < MaxErrors
    /\ pc[p] \in InLock
    /\ Tear(p)
    /\ Raise(p)
    /\ errors' = errors + 1
    /\ UNCHANGED <<journals, nextId, crashes, abandoned>>

\* The payload is published, and making it durable, hashing it or its size
\* fails: no handler covers that yet.  Or the handler itself fails.
UnhandledError(p) ==
    /\ errors < MaxErrors
    /\ pc[p] \in {"staged", "failed"}
    /\ Forget(p)
    /\ errors' = errors + 1
    /\ abandoned' = abandoned \union LeftBehind(p)
    /\ UNCHANGED <<lock, journals, disk, nextId, crashes>>

\* case_lock raises for an upload: the handler runs.  (Any other call ends as it
\* began.)
LockError(p) ==
    /\ errors < MaxErrors
    /\ pc[p] = "staged"
    /\ pc' = [pc EXCEPT ![p] = "failed"]
    /\ errors' = errors + 1
    /\ UNCHANGED <<lock, journals, disk, job, txn, at, nextId, crashes, abandoned>>

Progress(p) ==
    \/ Build(p) \/ Refuse(p) \/ WriteJournal(p)
    \/ Apply(p) \/ ApplyRefused(p) \/ Finish(p)
    \/ FinishReplay(p) \/ DropPayload(p)

Next ==
    \E p \in Procs :
        \/ StagePayload(p)
        \/ \E kind \in Kinds : TakeLock(p, kind)
        \/ StartRecovery(p)
        \/ RecoverNothing(p)
        \/ Progress(p)
        \/ Crash(p) \/ IOError(p) \/ UnhandledError(p) \/ LockError(p)

Spec == Init /\ [][Next]_vars

(***************************************************************************)
(* Fairness: a process that has begun a call goes on with it (it runs no   *)
(* loop and waits for nothing but the lock), and somebody who runs         *)
(* recover-case and retries is given the lock at some point.               *)
(***************************************************************************)
FairSpec ==
    /\ Spec
    /\ \A p \in Procs : WF_vars(Progress(p))
    /\ SF_vars(\E p \in Procs : StartRecovery(p))

=============================================================================
