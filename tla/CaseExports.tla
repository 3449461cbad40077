---------------------------- MODULE CaseExports ----------------------------
(***************************************************************************)
(* What leaves a case: bundles (create_bundle, verify_bundle) and redacted *)
(* exports (build_redacted_snapshot).  Both read the files of the case one *)
(* after the other and take no lock, while a licensed collection and an    *)
(* analyst go on writing.                                                  *)
(*                                                                         *)
(* CaseStore shows that the writers take turns and that whoever is cut off *)
(* is continued by recover-case from the journal, so there is one journal  *)
(* and its transaction may stop for any time between two of its effects.   *)
(* A file is the set of records in it: it only grows (case.json, which is  *)
(* replaced, never becomes again what it was).                             *)
(***************************************************************************)
EXTENDS Integers, Sequences, FiniteSets

CONSTANTS Wanted,   \* the records that may be written
          Notes     \* bound: the ledger's notes of exports

VARIABLES files,      \* the records in each file
          staged,     \* payloads in .transactions
          installed,  \* payloads in artifacts
          scratch,    \* whether artifacts also has an output of OCRmyPDF
          journal,    \* the record whose transaction is under way
          export      \* the export being made

vars == <<files, staged, installed, scratch, journal, export>>

(***************************************************************************)
(* The records: one collection from a licensed provider, what an analyzer  *)
(* makes of its response, and what analysts make of it.  "run" is the run  *)
(* recorded as completed; "failed" is a run recorded as failed or blocked, *)
(* of this collection, which then stays as it is, or of another attempt.   *)
(***************************************************************************)
Collected == {"approval", "source", "response", "observation", "run", "failed"}

\* The output is stored, then the derivation, which names the tool's version:
\* if the tool cannot be asked for it any more, the output stays alone.
Analyzed == {"derived", "derivation"}

Records == Collected \union Analyzed \union {"entity", "relationship", "status"}

ASSUME CaseExportsAssumption ==
    /\ Wanted \subseteq Records
    /\ Notes \intersect (Records \union {"none"}) = {}

\* The file a record is written to; a note has only its ledger entry.
HomeOf(r) ==
    CASE r = "approval" -> "provider_approvals"
      [] r = "source" -> "sources"
      [] r \in {"response", "derived"} -> "artifacts"
      [] r = "observation" -> "observations"
      [] r \in {"run", "failed"} -> "provider_runs"
      [] r = "entity" -> "entities"
      [] r = "relationship" -> "relationships"
      [] r = "derivation" -> "derivations"
      [] r = "status" -> "case"
      [] OTHER -> "ledger"

Payloads == {r \in Wanted : HomeOf(r) = "artifacts"}

\* The records whose identifiers are in a record's fields.  (The sources of the
\* relationship are others than the collection's.)  A failed run names nothing,
\* whatever its collection had stored before it failed.
Names(r) ==
    CASE r = "observation" -> {"source", "response"}
      [] r = "run" -> {"source", "response"}
      [] r = "entity" -> {"source"}
      [] r = "relationship" -> {"entity"}
      [] r = "derivation" -> {"response", "derived"}
      [] OTHER -> {}

\* What is written before it: what it names, what its collection has written so
\* far, and the artifact an analyzer reads.
After(r) ==
    Names(r) \union
    CASE r = "source" -> {"approval"}
      [] r = "response" -> {"source"}
      [] r = "run" -> {"observation"} \intersect Wanted
      [] r = "derived" -> {"response"}
      [] OTHER -> {}

\* The files in the order of their paths, and the datasets of a snapshot.
ByName == <<"artifacts", "case", "derivations", "entities", "ledger",
            "observations", "provider_approvals", "provider_runs",
            "relationships", "sources">>
Datasets == <<"artifacts", "derivations", "entities", "observations",
              "provider_approvals", "provider_runs", "relationships", "sources">>
Files == {ByName[i] : i \in DOMAIN ByName}

Contents == [Files -> SUBSET (Wanted \union Notes)]
Empty == [f \in Files |-> {}]

\* "seen" is what the manifest or the snapshot has; "instant" is what the files
\* held when the manifest was complete; "early" says that the completed run was
\* recorded before the export began.
Exports == [pc: {"idle", "list", "hash", "archive", "bundled",
                 "read", "runs", "approvals", "redacted"},
            at: DOMAIN ByName, list: SUBSET (Payloads \union {"scratch"}), seen: Contents, torn: BOOLEAN,
            instant: Contents, settled: BOOLEAN,
            sensitive: SUBSET Wanted, early: BOOLEAN]
NoExport == [pc |-> "idle", at |-> 1, list |-> {}, seen |-> Empty, torn |-> FALSE,
             instant |-> Empty, settled |-> FALSE, sensitive |-> {}, early |-> FALSE]

Init ==
    /\ files = Empty
    /\ staged = {}
    /\ installed = {}
    /\ scratch = FALSE
    /\ journal = "none"
    /\ export = NoExport

(***************************************************************************)
(* The writers.                                                            *)
(***************************************************************************)
Stage(r) ==
    /\ r \notin staged \union installed
    /\ r = "derived" => ~scratch
    /\ staged' = staged \union {r}
    /\ UNCHANGED <<files, installed, scratch, journal, export>>

\* An upload that is refused.
Unstage(r) ==
    /\ r \in staged /\ journal # r
    /\ staged' = staged \ {r}
    /\ UNCHANGED <<files, installed, scratch, journal, export>>

\* The analyzer: OCRmyPDF writes its output into a directory of artifacts, which
\* goes when it has been read, before it is stored as "derived"; if the process
\* is killed it stays.
WriteScratch ==
    /\ ~scratch /\ scratch' = TRUE
    /\ "derived" \in Payloads \ (staged \union installed)
    /\ After("derived") \subseteq files["ledger"]
    /\ UNCHANGED <<files, staged, installed, journal, export>>

RemoveScratch ==
    /\ scratch /\ scratch' = FALSE
    /\ UNCHANGED <<files, staged, installed, journal, export>>

Begin(r) ==
    /\ journal = "none"
    /\ r \notin files["ledger"]
    /\ After(r) \subseteq files["ledger"]
    /\ r \in Payloads => r \in staged
    /\ journal' = r
    /\ UNCHANGED <<files, staged, installed, scratch>>

Install ==
    /\ journal \in staged
    /\ staged' = staged \ {journal}
    /\ installed' = installed \union {journal}
    /\ UNCHANGED <<files, scratch, journal, export>>

AppendTo(f) ==
    /\ files' = [files EXCEPT ![f] = @ \union {journal}]
    /\ UNCHANGED <<staged, installed, scratch, journal, export>>

AppendRow ==
    /\ journal # "none" /\ journal \notin staged
    /\ journal \notin files[HomeOf(journal)]
    /\ AppendTo(HomeOf(journal))

AppendLedger ==
    /\ journal # "none"
    /\ journal \in files[HomeOf(journal)]
    /\ journal \notin files["ledger"]
    /\ AppendTo("ledger")

\* Variant: the journal goes before the ledger entry is written.
Finish_Early ==
    /\ journal # "none"
    /\ journal \in files[HomeOf(journal)]
    /\ journal' = "none"
    /\ UNCHANGED <<files, staged, installed, scratch, export>>

Finish ==
    /\ journal # "none"
    /\ journal \in files["ledger"]
    /\ journal' = "none"
    /\ UNCHANGED <<files, staged, installed, scratch, export>>

(***************************************************************************)
(* Bundles: the files are listed, then each is hashed for the manifest,    *)
(* then each is read again into the archive.                               *)
(***************************************************************************)
\* verify_case: with nothing pending and nothing staged the files agree; what
\* it meets of later transactions can only make it complain.
StartBundle ==
    /\ export.pc = "idle"
    /\ journal = "none" /\ staged = {} /\ ~scratch
    /\ export' = [NoExport EXCEPT !.pc = "list"]
    /\ UNCHANGED <<files, staged, installed, scratch, journal>>

ListFiles ==
    /\ export.pc = "list"
    /\ export' = [export EXCEPT !.pc = "hash",
                     !.list = installed \union {x \in {"scratch"} : scratch}]
    /\ UNCHANGED <<files, staged, installed, scratch, journal>>

\* The next file of several, and then what comes next.
Onward(seq, pc) ==
    IF export.at < Len(seq) THEN [export EXCEPT !.at = @ + 1]
    ELSE [export EXCEPT !.at = 1, !.pc = pc]

\* What the list has of artifacts, but for an output of OCRmyPDF.
Listed == export.list \ {"scratch"}

\* The payloads are read next to artifacts.jsonl, if they are still there.
PayloadsThere == export.at = 1 /\ "scratch" \in export.list => scratch

HashFile ==
    /\ export.pc = "hash" /\ PayloadsThere
    /\ LET f == ByName[export.at]
           last == export.at = Len(ByName)
       IN  export' = [Onward(ByName, "archive") EXCEPT
                        !.seen[f] = files[f],
                        !.instant = IF last THEN files ELSE @,
                        !.settled = last /\ journal = "none"
                                         /\ installed = Listed]
    /\ UNCHANGED <<files, staged, installed, scratch, journal>>

\* Variant: only the names of the files are compared.
Matches_NamesOnly(f) == f \in Files

\* What verify_bundle will find of this file: the payloads of the list do not
\* change any more.
Matches(f) == files[f] = export.seen[f]

ArchiveFile ==
    /\ export.pc = "archive" /\ PayloadsThere
    /\ export' = [Onward(ByName, "bundled") EXCEPT
                    !.torn = @ \/ ~Matches(ByName[export.at])]
    /\ UNCHANGED <<files, staged, installed, scratch, journal>>

\* verify_bundle
Accepted == export.pc = "bundled" /\ ~export.torn

(***************************************************************************)
(* Redacted exports: the datasets are read, then the provider runs and     *)
(* approvals once more.                                                    *)
(***************************************************************************)
StartRedaction ==
    /\ export.pc = "idle"
    /\ export' = [NoExport EXCEPT !.pc = "read",
                                  !.early = "run" \in files["provider_runs"]]
    /\ UNCHANGED <<files, staged, installed, scratch, journal>>

ReadDataset ==
    /\ export.pc = "read"
    /\ LET f == Datasets[export.at]
       IN  export' = [Onward(Datasets, "runs") EXCEPT !.seen[f] = files[f]]
    /\ UNCHANGED <<files, staged, installed, scratch, journal>>

ReadRuns ==
    /\ export.pc = "runs"
    /\ export' = [export EXCEPT !.pc = "approvals",
                                !.sensitive = files["provider_runs"]]
    /\ UNCHANGED <<files, staged, installed, scratch, journal>>

ReadApprovals ==
    /\ export.pc = "approvals"
    /\ export' = [export EXCEPT !.pc = "redacted",
                                !.sensitive = @ \union files["provider_approvals"]]
    /\ UNCHANGED <<files, staged, installed, scratch, journal>>

Snapshot == UNION {export.seen[Datasets[i]] : i \in DOMAIN Datasets}

\* The sources and artifacts of the sensitive runs, and the entities with such
\* a source.
Hidden == UNION {Names(r) : r \in export.sensitive}

HiddenEntities ==
    {r \in export.seen["entities"] : Names(r) \intersect Hidden # {}}

\* Variant: what names a hidden entity stays.
Removed_KeepsLinks ==
    {r \in Snapshot :
        \/ r \in Hidden \union HiddenEntities
        \/ HomeOf(r) \in {"provider_runs", "provider_approvals"}
        \/ Names(r) \intersect Hidden # {}}

Removed ==
    IF export.sensitive = {} THEN {}
    ELSE {r \in Snapshot :
            \/ r \in Hidden \union HiddenEntities
            \/ HomeOf(r) \in {"provider_runs", "provider_approvals"}
            \/ Names(r) \intersect (Hidden \union HiddenEntities) # {}}

Kept == Snapshot \ Removed

\* Both end with append_ledger, which is refused over a pending journal.
RecordExport ==
    /\ export.pc \in {"bundled", "redacted"}
    /\ \E n \in Notes : Begin(n)
    /\ export' = NoExport

\* A file is not readable while a line of it is written, a listed temporary file
\* is gone, verify_case complains, or the process is killed.
Raise ==
    /\ export.pc # "idle"
    /\ export' = NoExport
    /\ UNCHANGED <<files, staged, installed, scratch, journal>>

Next ==
    \/ \E r \in Payloads : Stage(r) \/ Unstage(r)
    \/ WriteScratch \/ RemoveScratch
    \/ \E r \in Wanted : Begin(r) /\ UNCHANGED export
    \/ Install \/ AppendRow \/ AppendLedger \/ Finish
    \/ StartBundle \/ ListFiles \/ HashFile \/ ArchiveFile
    \/ StartRedaction \/ ReadDataset \/ ReadRuns \/ ReadApprovals
    \/ RecordExport \/ Raise

Spec == Init /\ [][Next]_vars

=============================================================================
