------------------------------ MODULE CaseLog ------------------------------
(***************************************************************************)
(* What the case store promises: the case is a log of decided              *)
(* transactions.  A transaction is decided whole, under the rules of the   *)
(* case record the log describes, and stays decided; while it is not yet   *)
(* published everywhere ("open") no other is decided.                      *)
(***************************************************************************)
EXTENDS CaseRecords

CONSTANT TxnIds     \* the identifiers new_id can return

VARIABLES log,      \* the ledger entries of every decided transaction
          open      \* is the last of them still being published?

logVars == <<log, open>>

LogInit == log = <<CreatedEntry>> /\ open = FALSE

Decide(id, kind) ==
    LET doc == LatestDoc(log)
        t == [id |-> id, kind |-> kind, before |-> doc,
              after |-> Changed(doc, kind, id), prev |-> EntryId(Last(log))]
    IN  /\ ~open
        /\ Permitted(doc, kind)
        /\ \A i \in 1..Len(log) : log[i].txn # id
        /\ log' = log \o EntriesOf(t)
        /\ open' = TRUE

Publish == open /\ open' = FALSE /\ UNCHANGED log

LogNext == Publish \/ \E id \in TxnIds, kind \in Kinds : Decide(id, kind)

LogSpec == LogInit /\ [][LogNext]_logVars

=============================================================================
