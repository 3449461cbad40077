---------------------------- MODULE CaseRecords ----------------------------
(***************************************************************************)
(* The values one case directory is made of: the case record (case.json),  *)
(* the transactions that change the case, the rows and ledger entries they *)
(* append, and the operations their journal lists.                         *)
(*                                                                         *)
(* Identifiers are numbers, given out in order.  A SHA-256 hash is the     *)
(* thing hashed: a hash chain entry names its predecessor, and the hash of *)
(* a case record is the record.                                            *)
(***************************************************************************)
EXTENDS Integers, Sequences, SequencesExt

\* The two classes of Case.status that the code tells apart: assert_case_mutable
\* accepts "open" and "review" and refuses "closed" and "archived".
Statuses == {"open", "closed"}

\* case.json.  "rev" stands for updated_at_utc and for every field no rule
\* reads; "retain" is the transaction that last set retention_until.
CaseDocs == [rev: Nat, status: Statuses, held: BOOLEAN, retain: Nat]

FirstDoc == [rev |-> 0, status |-> "open", held |-> FALSE, retain |-> 0]

(***************************************************************************)
(* The mutations of a case.  "record" is any add_* call that goes through  *)
(* _append_record; "note" is append_ledger, which a provider reservation   *)
(* and the end of a recovery use.                                          *)
(***************************************************************************)
Kinds == {"record", "artifact", "status", "retention", "hold", "note"}

\* The kinds guarded by assert_case_mutable, and those guarded by verify_case.
RecordKinds == {"record", "artifact"}
GovernanceKinds == {"status", "retention", "hold"}

DataFiles == {"records", "artifacts", "legal_holds"}
Files == DataFiles \union {"ledger"}

\* The ledger action under which the rows of a data file are chained (DATA_FILES).
DataAction == [f \in DataFiles |->
    CASE f = "records"     -> "record.added"
      [] f = "artifacts"   -> "artifact.added"
      [] f = "legal_holds" -> "legal-hold.recorded"]

\* The actions that carry a whole case record as their payload.
CaseActions == {"case.created", "case.status-changed",
                "case.retention-changed", "case.legal-hold-changed"}

Actions == {DataAction[f] : f \in DataFiles} \union CaseActions \union {"noted"}

\* The name of a ledger entry, standing for its entry_sha256.
EntryIds == [txn: Nat, act: Actions \union {"none"}]
NoEntry == [txn |-> 0, act |-> "none"]

Entries == [txn: Nat, act: Actions, prev: EntryIds,
            before: CaseDocs, after: CaseDocs]
EntryId(e) == [txn |-> e.txn, act |-> e.act]

\* A row of a data file: the transaction that wrote it and, in
\* legal_holds.jsonl, whether the hold was placed or released.
Rows == [id: Nat, what: {"added", "placed", "released"}]
NoRow == [id |-> 0, what |-> "added"]

\* A transaction as its journal holds it; before and after are equal when
\* the case record does not change, prev is the last ledger entry it saw.
Txns == [id: Nat, kind: Kinds, before: CaseDocs, after: CaseDocs,
         prev: EntryIds]

CreatedEntry == [txn |-> 0, act |-> "case.created", prev |-> NoEntry,
                 before |-> FirstDoc, after |-> FirstDoc]

(***************************************************************************)
(* What a caller makes of the case record it read under the lock: set-     *)
(* status takes another status, set-retention another date, and a hold is  *)
(* placed when there is none and released when there is one.               *)
(***************************************************************************)
WithStatus(doc, id) ==
    [doc EXCEPT !.rev = id, !.status = CHOOSE s \in Statuses : s # doc.status]
WithRetention(doc, id) == [doc EXCEPT !.rev = id, !.retain = id]

WithHold(doc, id) == [doc EXCEPT !.rev = id, !.held = ~doc.held]

Changed(doc, kind, id) ==
    CASE kind = "status"    -> WithStatus(doc, id)
      [] kind = "retention" -> WithRetention(doc, id)
      [] kind = "hold"      -> WithHold(doc, id)
      [] OTHER              -> doc

\* assert_case_mutable, and the check of update_case_retention on the hold.
Mutable(doc) == doc.status = "open"

\* Variant: retention may change under a hold.
Permitted_IgnoresHold(doc, kind) == kind \in RecordKinds => Mutable(doc)
Permitted(doc, kind) ==
    /\ kind \in RecordKinds => Mutable(doc)
    /\ kind = "retention" => ~doc.held

RowOf(t) == [id |-> t.id,
             what |-> IF t.kind # "hold" THEN "added"
                      ELSE IF t.after.held THEN "placed" ELSE "released"]

EntryOf(t, act, prev) ==
    [txn |-> t.id, act |-> act, prev |-> prev,
     before |-> t.before, after |-> t.after]

\* The ledger entries of a transaction, each chained to the one before.
EntriesOf(t) ==
    LET first(act) == EntryOf(t, act, t.prev)
    IN  CASE t.kind = "record"    -> <<first("record.added")>>
          [] t.kind = "artifact"  -> <<first("artifact.added")>>
          [] t.kind = "status"    -> <<first("case.status-changed")>>
          [] t.kind = "retention" -> <<first("case.retention-changed")>>
          [] t.kind = "note"      -> <<first("noted")>>
          [] t.kind = "hold"      ->
               <<first("legal-hold.recorded"),
                 EntryOf(t, "case.legal-hold-changed",
                         EntryId(first("legal-hold.recorded")))>>

(***************************************************************************)
(* The operations a journal lists, in the order they are applied: the data *)
(* operations of the caller, then one ledger append for each entry.        *)
(***************************************************************************)
Ops == [type: {"append", "replace", "install"}, file: Files,
        rec: Rows \union Entries]

AppendOp(f, rec) == [type |-> "append", file |-> f, rec |-> rec]
ReplaceOp == [type |-> "replace", file |-> "ledger", rec |-> NoRow]
InstallOp == [type |-> "install", file |-> "ledger", rec |-> NoRow]

DataOpsOf(t) ==
    CASE t.kind = "record"    -> <<AppendOp("records", RowOf(t))>>
      [] t.kind = "artifact"  -> <<InstallOp, AppendOp("artifacts", RowOf(t))>>
      [] t.kind \in {"status", "retention"} -> <<ReplaceOp>>
      [] t.kind = "hold"      -> <<AppendOp("legal_holds", RowOf(t)), ReplaceOp>>
      [] t.kind = "note"      -> <<>>

OpsOf(t) ==
    DataOpsOf(t) \o
        [i \in 1..Len(EntriesOf(t)) |-> AppendOp("ledger", EntriesOf(t)[i])]

(***************************************************************************)
(* The case record a ledger describes: that of its last case-carrying      *)
(* entry.                                                                  *)
(***************************************************************************)
CaseEntries(ledger) == {i \in 1..Len(ledger) : ledger[i].act \in CaseActions}
LatestDoc(ledger) == ledger[Max(CaseEntries(ledger))].after

=============================================================================
