------------------------- MODULE CaseStoreInvariant -------------------------
(***************************************************************************)
(* The inductive invariant of the case store.                              *)
(*                                                                         *)
(* At every moment the files are those of an intact case, the base, with   *)
(* some of the operations of at most one transaction applied to them:      *)
(* every file is the base and a prefix of the transaction's lines, perhaps *)
(* with a part of the next one at its end.  The rest of the invariant says *)
(* why the next transaction meets the same conditions: writers take turns, *)
(* an identifier has one owner, a payload is there until it is installed.  *)
(***************************************************************************)
EXTENDS CaseStoreProps

(***************************************************************************)
(* Taking turns.                                                           *)
(***************************************************************************)
\* The lock belongs to whoever is past case_lock.
LockInv == \A p \in Procs : pc[p] \in InLock <=> lock = p

\* A transaction that has passed the check for pending journals still finds none
\* when it writes its own; the journal being applied is the only one.
TurnInv ==
    /\ \A p \in Procs : pc[p] = "built" => journals = {}
    /\ \A p \in Procs : pc[p] \in {"apply", "replay"} => journals = {txn[p]}
    /\ \A t, u \in journals : t = u

Turns ==
    /\ pc \in [Procs -> Places]
    /\ DOMAIN txn = Procs
    /\ LockInv
    /\ TurnInv

(***************************************************************************)
(* An intact case: FilesAgree in the form the steps preserve.              *)
(***************************************************************************)
\* Rows and their ledger entries correspond one to one.
RowsChained(d, f) ==
    LET ledger == d.rows["ledger"]
        rows == d.rows[f]
        chained == {i \in 1..Len(ledger) : ledger[i].act = DataAction[f]}
    IN  /\ \A i \in chained : \E k \in 1..Len(rows) : rows[k].id = ledger[i].txn
        /\ \A k \in 1..Len(rows) : \E i \in chained : rows[k].id = ledger[i].txn
        /\ \A i, j \in chained : ledger[i].txn = ledger[j].txn => i = j
        /\ \A i, j \in 1..Len(rows) : rows[i].id = rows[j].id => i = j

\* Every entry that carries a case record starts from the one before it, and the
\* last of them carries case.json.
DocChained(ledger, doc) ==
    LET cs == CaseEntries(ledger)
    IN  /\ Cardinality({i \in 1..Len(ledger) : ledger[i].act = "case.created"}) = 1
        /\ \A i, j \in cs : i < j /\ (\A k \in cs : ~(i < k /\ k < j)) =>
              ledger[j].before = ledger[i].after
        /\ \E m \in cs : ledger[m].after = doc /\ \A j \in cs : j <= m

\* Placing and releasing a hold alternate, and case.json knows the latest.
HoldsChained(d) ==
    LET hs == d.rows["legal_holds"]
    IN  /\ \A i \in 1..Len(hs) :
             hs[i].what = IF i = 1 \/ hs[i - 1].what = "released"
                          THEN "placed" ELSE "released"
        /\ d.doc.held = (hs # <<>> /\ hs[Len(hs)].what = "placed")

Intact(d) ==
    /\ \A f \in Files : d.tail[f] = NoTail
    /\ ChainIntact(d.rows["ledger"])
    /\ DocChained(d.rows["ledger"], d.doc)
    /\ \A f \in DataFiles : RowsChained(d, f)
    /\ d.installed = {d.rows["artifacts"][i].id : i \in 1..Len(d.rows["artifacts"])}
    /\ HoldsChained(d)

(***************************************************************************)
(* A transaction and the files it was built on.                            *)
(***************************************************************************)
\* The lines t appends to file f.
Added(t, f) ==
    CASE f = "ledger" -> EntriesOf(t)
      [] \/ f = "records" /\ t.kind = "record"
         \/ f = "artifacts" /\ t.kind = "artifact"
         \/ f = "legal_holds" /\ t.kind = "hold" -> <<RowOf(t)>>
      [] OTHER -> <<>>

\* s is base with n lines of add appended.
Grown(s, base, add, n) ==
    /\ Len(s) = Len(base) + n
    /\ \A i \in 1..Len(base) : s[i] = base[i]
    /\ \A i \in 1..n : s[Len(base) + i] = add[i]

\* The file holds n of the lines of t, and perhaps a part of the next.
Reaches(d, b, t, f, n) ==
    /\ Grown(d.rows[f], b.rows[f], Added(t, f), n)
    /\ \/ d.tail[f] = NoTail
       \/ /\ n < Len(Added(t, f))
          /\ d.tail[f].cut \in {"short", "long", "unterminated"}
          /\ d.tail[f].rec = Added(t, f)[n + 1]

\* d is b with some operations of t applied, the last one perhaps in part.
Partial(d, b, t) ==
    /\ d.doc \in {t.before, t.after}
    /\ d.installed = b.installed \/
       (t.kind = "artifact" /\ d.installed = b.installed \union {t.id})
    /\ \A f \in Files : \E n \in 0..Len(Added(t, f)) : Reaches(d, b, t, f, n)

\* ... with all of them applied.
Complete(d, b, t) ==
    /\ d.doc = t.after
    /\ d.installed = IF t.kind = "artifact" THEN b.installed \union {t.id}
                     ELSE b.installed
    /\ \A f \in Files : /\ d.tail[f] = NoTail
                        /\ Grown(d.rows[f], b.rows[f], Added(t, f), Len(Added(t, f)))

\* An operation that need not be applied again.
Done(d, t, op) ==
    /\ op.type = "append" => /\ op.rec \in Ids(d.rows[op.file])
                             /\ d.tail[op.file] = NoTail
    /\ op.type = "replace" => d.doc = t.after
    /\ op.type = "install" => t.id \in d.installed

\* t is what build_case_mutation makes of b.
BuiltOn(t, b) ==
    /\ t.before = b.doc
    /\ t.after = Changed(b.doc, t.kind, t.id)
    /\ t.prev = EntryId(Last(b.rows["ledger"]))
    /\ Permitted(b.doc, t.kind)
    /\ \A i \in 1..Len(b.rows["ledger"]) : b.rows["ledger"][i].txn # t.id

(***************************************************************************)
(* Identifiers and payloads.                                               *)
(***************************************************************************)
\* The processes that own the identifier of their transaction, and those of
\* them whose journal has not been written.
Holder(p) == \/ pc[p] \in {"staged", "failed", "built", "apply"}
             \/ pc[p] = "locked" /\ job[p] = "artifact"
Unjournaled(p) == Holder(p) /\ pc[p] \notin {"failed", "apply"}

JobInv ==
    \A p \in Procs :
        /\ pc[p] \in {"built", "apply"} => txn[p].kind = job[p]
        /\ pc[p] \in {"staged", "failed"} => job[p] = "artifact"
        /\ pc[p] = "replay" => job[p] = "note"

\* An identifier has one owner; what is on the disk uses identifiers that are
\* already taken, and none that is still to be journaled.
IdInv ==
    /\ \A p \in Procs : Holder(p) => txn[p].id \in 1..(nextId - 1)
    /\ \A p, q \in Procs : p # q /\ Holder(p) /\ Holder(q) => txn[p].id # txn[q].id
    /\ \A t \in journals : t.id \in 1..(nextId - 1)
    /\ \A t \in journals : \A p \in Procs : Unjournaled(p) => t.id # txn[p].id
    /\ \A id \in disk.staged : id < nextId

\* The payload of an upload is staged until it is installed.
PayloadInv ==
    /\ \A p \in Procs : Unjournaled(p) /\ job[p] = "artifact" => txn[p].id \in disk.staged
    /\ \A t \in journals : t.kind = "artifact" => t.id \in disk.staged \union disk.installed

\* Nothing is staged under the identifier of another kind of transaction, and
\* nothing stays staged under that of an upload that is installed.
StagedInv ==
    /\ \A p \in Procs : pc[p] = "built" /\ job[p] # "artifact" => txn[p].id \notin disk.staged
    /\ \A t \in journals : t.kind # "artifact" => t.id \notin disk.staged
    /\ \A p \in Procs :
         pc[p] \in {"apply", "replay"} /\ at[p] > 1 => txn[p].id \notin disk.staged

(***************************************************************************)
(* The files.                                                              *)
(***************************************************************************)
\* b is an intact case whose entries use none of the identifiers still to be
\* journaled.
Base(b) ==
    /\ DiskTyped(b)
    /\ Intact(b)
    /\ \A i \in 1..Len(b.rows["ledger"]) :
         /\ b.rows["ledger"][i].txn < nextId
         /\ \A p \in Procs : Unjournaled(p) => b.rows["ledger"][i].txn # txn[p].id

\* b is what the pending transaction t was built on.
PendingOn(b, t) == Base(b) /\ BuiltOn(t, b) /\ Partial(disk, b, t)

StoreInv ==
    /\ journals = {} => Base(disk)
    /\ \A p \in Procs : pc[p] = "built" => BuiltOn(txn[p], disk)
    /\ \A t \in journals : \E b : PendingOn(b, t)

\* The operations before the next one are done.  A transaction being applied for
\* the first time has met no torn line.
ApplyInv ==
    /\ \A p \in Procs : pc[p] \in {"apply", "replay"} =>
          /\ at[p] <= Len(OpsOf(txn[p])) + 1
          /\ \A i \in 1..(at[p] - 1) : Done(disk, txn[p], OpsOf(txn[p])[i])
    /\ \A p \in Procs : pc[p] = "apply" => \A f \in Files : disk.tail[f] = NoTail

(***************************************************************************)
(* Counting identifiers: MaxTxns bounds the calls that begin, and a fault  *)
(* pays for the note of the recovery it makes necessary.                   *)
(***************************************************************************)
\* Somebody has still to take an identifier beyond MaxTxns: the note of a recovery
\* going on or due, or a mutation that got past the bound before it was reached.
Owed == \/ \E p \in Procs : pc[p] = "replay" \/ (pc[p] = "locked" /\ job[p] # "artifact")
        \/ journals # {} /\ \A p \in Procs : pc[p] # "apply"

CountInv ==
    /\ nextId <= MaxTxns + 2 + crashes + errors
    /\ Owed => nextId < MaxTxns + 2 + crashes + errors
    /\ crashes <= MaxCrashes /\ errors <= MaxErrors

(***************************************************************************)
(* Uploads that do not end well, and what the callers ask for.             *)
(***************************************************************************)
\* Someone will remove or install what is staged under this identifier, unless it
\* was abandoned.
Owner(id) == \/ \E p \in Procs : pc[p] # "idle" /\ job[p] = "artifact" /\ txn[p].id = id
             \/ \E t \in journals : t.id = id
CleanInv == \A id \in disk.staged : Owner(id) \/ id \in abandoned

WantedInv == \A p \in Procs : job[p] \in Wanted \union {"note"}
PendingWanted == \A t \in journals : t.kind \in Wanted \union {"note"}

(***************************************************************************)
(* The parts, and all of it.                                               *)
(***************************************************************************)
IdsInv == TypeOK /\ Turns /\ JobInv /\ IdInv

FilesInv == IdsInv /\ PayloadInv /\ StoreInv /\ ApplyInv

StoreInvariant ==
    /\ FilesInv /\ StagedInv /\ CountInv /\ CleanInv
    /\ WantedInv /\ PendingWanted

=============================================================================
