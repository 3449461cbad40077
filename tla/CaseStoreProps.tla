--------------------------- MODULE CaseStoreProps ---------------------------
(***************************************************************************)
(* What is asked of the case store.                                        *)
(***************************************************************************)
EXTENDS CaseStore

\* Every variable has its type, every file holds lines of its own kind and the
\* ledger is never empty.
DiskTyped(d) ==
    /\ d \in Disks
    /\ \A f \in Files :
         /\ d.rows[f] \in Seq(LinesOf(f))
         /\ d.tail[f].cut # "none" => d.tail[f].rec \in LinesOf(f)
    /\ d.rows["ledger"] # <<>>

TypeOK ==
    /\ lock \in Procs \union {NoProc}
    /\ journals \subseteq Txns
    /\ DiskTyped(disk)
    /\ pc \in [Procs -> Places]
    /\ job \in [Procs -> Kinds]
    /\ txn \in [Procs -> Txns]
    /\ at \in [Procs -> Nat \ {0}]
    /\ nextId \in Nat \ {0}
    /\ crashes \in Nat
    /\ errors \in Nat
    /\ abandoned \subseteq Nat

\* The lock makes the writers take turns: whoever is past case_lock owns it, so
\* the check for a pending journal and the write of the next one cannot be
\* overtaken, and recover_pending_transactions never meets two journals.
OneWriter ==
    /\ \A p \in Procs : pc[p] \in InLock => lock = p
    /\ Cardinality(journals) <= 1

\* With no journal pending verify_case finds nothing wrong with the files:
\* whatever was killed, torn, replayed or replayed again on the way, every row
\* is chained once, the chain is whole and case.json is its latest state.
SettledCaseVerifies == journals = {} => FilesAgree(disk)

\* A retention date does not move while a legal hold is active
\* (update_case_retention), whatever is replayed in between.
HeldRetentionFrozen ==
    [][disk.doc.held => disk'.doc.retain = disk.doc.retain]_vars

\* A payload left in .transactions belongs to an upload in progress or to a
\* pending journal: an upload that is refused, or meets an I/O error under the
\* lock or in case_lock, does not leave one behind (the except clauses of
\* add_artifact and add_artifact_bytes).  The exceptions are the uploads that
\* ended without a journal because their process was killed, because the error
\* struck between the publication of the payload and the try, or because the
\* except clause met one itself.
UploadsCleanUp ==
    \A id \in disk.staged :
        \/ \E p \in Procs : /\ pc[p] # "idle" /\ job[p] = "artifact"
                            /\ txn[p].id = id
        \/ \E t \in journals : t.id = id
        \/ id \in abandoned

\* What recover_case does with a pending journal, operation by operation.
Replayed(t) ==
    LET ops == OpsOf(t)
        after[i \in 0..Len(ops)] ==
            IF i = 0 THEN [ok |-> TRUE, disk |-> disk]
            ELSE LET b == after[i - 1]
                 IN  IF b.ok /\ CanApply(b.disk, t, ops[i])
                     THEN [ok |-> TRUE, disk |-> ApplyOperation(b.disk, t, ops[i])]
                     ELSE [ok |-> FALSE, disk |-> b.disk]
    IN  after[Len(ops)]

\* "A checksummed transaction journal makes JSONL/ledger, case-state, and
\* artifact publication operations idempotently recoverable after interruption"
\* (docs/ARCHITECTURE.md): a journal nobody is working on can be replayed to
\* its end, and the files then agree.
PendingIsRecoverable ==
    lock = NoProc =>
        \A t \in journals : Replayed(t).ok /\ FilesAgree(Replayed(t).disk)

\* The second of the two ledger lines of a legal hold is cut off past what every
\* line begins with.
TornSecondEntry(t) ==
    /\ t.kind = "hold"
    /\ disk.tail["ledger"].cut = "long"
    /\ disk.tail["ledger"].rec = EntriesOf(t)[2]

\* That is the only obstacle: at every moment, with operations applied, torn or
\* half replayed, a journal can be replayed from its first operation and leaves
\* files that agree, unless it is a legal hold torn in its second ledger entry
\* (_append_idempotent takes that tail for a record that is not the expected one).
OnlyTornHoldsBlock ==
    \A t \in journals :
        Replayed(t).ok /\ FilesAgree(Replayed(t).disk) <=> ~TornSecondEntry(t)

\* Whatever interrupted it, a journal is completed and removed in the end, or is
\* that of a hold torn in this way.
JournalsComplete ==
    journals # {} ~> journals = {} \/ \E t \in journals : TornSecondEntry(t)

(***************************************************************************)
(* The store implements CaseLog: a transaction is decided when its journal *)
(* appears, and its entries are then promised, written or not.             *)
(***************************************************************************)
\* MaxTxns bounds the calls that begin.  A mutation and an upload begun just
\* below it, and the note of each recovery, take identifiers beyond it.
LastId == MaxTxns + 2 + MaxCrashes + MaxErrors

\* The ledger as it was before t: none of its entries is t's.
Before(written, t) ==
    SubSeq(written, 1,
           CHOOSE n \in 0..Len(written) :
               \A i \in 1..Len(written) : written[i].txn # t.id <=> i <= n)

Promised ==
    LET written == ReadJsonl(disk, "ledger")
        t == CHOOSE u \in journals : TRUE
    IN  IF journals = {} THEN written ELSE Before(written, t) \o EntriesOf(t)

Log == INSTANCE CaseLog WITH
           TxnIds <- 1..LastId,
           log <- Promised, open <- (journals # {})

\* Every step of the store is a step of CaseLog or leaves it unchanged: a
\* decided transaction is never lost, reordered or half applied, and is
\* decided under the rules of the case record the ledger describes.
ImplementsLog == Log!LogSpec

=============================================================================
