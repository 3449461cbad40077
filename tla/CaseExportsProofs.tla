--------------------------- MODULE CaseExportsProofs ---------------------------
(***************************************************************************)
(* Theorems about bundles and redacted exports, whichever records are      *)
(* written and however often exports are noted.                            *)
(***************************************************************************)
EXTENDS CaseExportsProps, TLAPS

(***************************************************************************)
(* The invariant.                                                          *)
(***************************************************************************)
\* A record is in its own file and in the ledger, unless its transaction is
\* under way; so are the payloads.
CaseInv ==
    /\ \A f \in Files : \A r \in files[f] :
          /\ f = "ledger" \/ HomeOf(r) = f
          /\ r \in files[HomeOf(r)]
          /\ r \in files["ledger"] \/ r = journal
    /\ files["artifacts"] \subseteq installed
    /\ \A r \in installed : r \in files["artifacts"] \/ r = journal
    /\ journal \in Payloads => journal \in staged \union installed

\* What an export has seen is still there.
SeenInv ==
    /\ \A f \in Files : export.seen[f] \subseteq files[f]
    /\ \A f \in Files : export.instant[f] \subseteq files[f]

\* Between the instant and the archive a file that has not changed since it was
\* hashed is what it was at the instant.
BundleInv ==
    export.pc \in {"archive", "bundled"} =>
        /\ \A f \in Files : export.seen[f] \subseteq export.instant[f]
        /\ ~export.torn =>
              \A i \in DOMAIN ByName :
                  i < export.at \/ export.pc = "bundled" =>
                      export.seen[ByName[i]] = export.instant[ByName[i]]
        /\ export.settled => Unpacked(export.instant, Listed)

\* The runs and approvals that were seen, and a run that was recorded when the
\* export began, are among the sensitive ones.
RedactionInv ==
    /\ export.pc = "read" => export.at \in DOMAIN Datasets
    /\ export.early => "run" \in files["provider_runs"]
    /\ export.early /\ export.pc \in {"approvals", "redacted"} => "run" \in export.sensitive
    /\ export.pc \in {"approvals", "redacted"} =>
          export.seen["provider_runs"] \subseteq export.sensitive
    /\ export.pc = "redacted" => export.seen["provider_approvals"] \subseteq export.sensitive

IInv == TypeOK /\ CaseInv /\ SeenInv /\ BundleInv /\ RedactionInv

(***************************************************************************)
(* The names.                                                              *)
(***************************************************************************)
LEMMA FileNames ==
    /\ DOMAIN ByName = 1..10 /\ Len(ByName) = 10
    /\ DOMAIN Datasets = 1..8 /\ Len(Datasets) = 8
    /\ \A i \in DOMAIN Datasets : Datasets[i] \in Files \ {"ledger"}
    /\ \A r : HomeOf(r) \in Files
    /\ {"ledger", "artifacts", "entities", "provider_runs", "provider_approvals"} \subseteq Files
<1>1. DOMAIN ByName = 1..10 /\ Len(ByName) = 10
  BY DEF ByName
<1>2. DOMAIN Datasets = 1..8 /\ Len(Datasets) = 8
  BY DEF Datasets
<1>3. /\ ByName[1] = "artifacts" /\ ByName[2] = "case" /\ ByName[3] = "derivations"
      /\ ByName[4] = "entities" /\ ByName[5] = "ledger" /\ ByName[6] = "observations"
      /\ ByName[7] = "provider_approvals" /\ ByName[8] = "provider_runs"
      /\ ByName[9] = "relationships" /\ ByName[10] = "sources"
  BY DEF ByName
<1>4. Files = {"artifacts", "case", "derivations", "entities", "ledger", "observations",
               "provider_approvals", "provider_runs", "relationships", "sources"}
  BY <1>1, <1>3 DEF Files
<1>5. \A i \in DOMAIN Datasets : Datasets[i] \in Files \ {"ledger"}
  <2> SUFFICES ASSUME NEW i \in 1..8 PROVE Datasets[i] \in Files \ {"ledger"}
    BY <1>2
  <2>1. i = 1 \/ i = 2 \/ i = 3 \/ i = 4 \/ i = 5 \/ i = 6 \/ i = 7 \/ i = 8
    OBVIOUS
  <2> QED
    BY <2>1, <1>4 DEF Datasets
<1>6. \A r : HomeOf(r) \in Files
  BY <1>4 DEF HomeOf
<1> QED
  BY <1>1, <1>2, <1>4, <1>5, <1>6

\* A note has no file but the ledger.
LEMMA NotesAreInTheLedger ==
    ASSUME NEW n \in Notes
    PROVE  HomeOf(n) = "ledger"
BY CaseExportsAssumption DEF HomeOf, Records, Analyzed, Collected

(***************************************************************************)
(* The writers.                                                            *)
(***************************************************************************)
\* While files only grow an export stands as it did.
LEMMA ExportFrame ==
    ASSUME TypeOK, SeenInv, BundleInv, RedactionInv, UNCHANGED export,
           \A f \in Files : files[f] \subseteq files'[f]
    PROVE  SeenInv' /\ BundleInv' /\ RedactionInv'
<1>1. "provider_runs" \in Files
  BY FileNames
<1> QED
  BY <1>1 DEF SeenInv, BundleInv, RedactionInv, Unpacked, Listed

LEMMA StageSteps ==
    ASSUME IInv, NEW r \in Payloads, Stage(r) \/ Unstage(r)
    PROVE  IInv'
<1> USE DEF IInv
<1>1. SeenInv' /\ BundleInv' /\ RedactionInv'
  BY ExportFrame DEF Stage, Unstage
<1>2. TypeOK'
  BY DEF Stage, Unstage, TypeOK
<1>3. journal' \in Payloads => journal' \in staged' \union installed'
  BY DEF Stage, Unstage, CaseInv
<1>4. CaseInv'
  BY <1>3 DEF Stage, Unstage, CaseInv
<1> QED
  BY <1>1, <1>2, <1>4

\* A transaction begins when the files agree.
LEMMA BeginKeeps ==
    ASSUME IInv, NEW r \in Wanted \union Notes, Begin(r)
    PROVE  /\ CaseInv' /\ UNCHANGED <<files, staged, installed, scratch>>
           /\ journal' \in Wanted \union Notes \union {"none"}
<1>1. "none" \notin Wanted \union Notes
  BY CaseExportsAssumption DEF Records, Analyzed, Collected
<1>2. /\ journal = "none" /\ journal' = r /\ UNCHANGED <<files, staged, installed, scratch>>
      /\ r \in Payloads => r \in staged
  BY DEF Begin
<1>3. \A f \in Files : \A q \in files[f] : q # "none"
  BY <1>1 DEF IInv, TypeOK, Contents
<1>4. \A q \in installed : q # "none"
  BY <1>1 DEF IInv, TypeOK, Payloads
<1>5. CaseInv'
  BY <1>2, <1>3, <1>4 DEF IInv, CaseInv
<1> QED
  BY <1>2, <1>5

LEMMA BeginStep ==
    ASSUME IInv, NEW r \in Wanted, Begin(r), UNCHANGED export
    PROVE  IInv'
<1> USE DEF IInv
<1>1. /\ CaseInv' /\ UNCHANGED <<files, staged, installed, scratch>>
      /\ journal' \in Wanted \union Notes \union {"none"}
  BY BeginKeeps
<1>2. TypeOK'
  BY <1>1 DEF TypeOK
<1>3. SeenInv' /\ BundleInv' /\ RedactionInv'
  BY <1>1, ExportFrame
<1> QED
  BY <1>1, <1>2, <1>3

LEMMA ScratchSteps ==
    ASSUME IInv, WriteScratch \/ RemoveScratch
    PROVE  IInv'
<1> USE DEF IInv
<1>1. scratch' \in BOOLEAN /\ UNCHANGED <<files, staged, installed, journal, export>>
  BY DEF WriteScratch, RemoveScratch
<1>2. SeenInv' /\ BundleInv' /\ RedactionInv'
  BY <1>1, ExportFrame
<1>3. TypeOK' /\ CaseInv'
  BY <1>1 DEF TypeOK, CaseInv
<1> QED
  BY <1>2, <1>3

LEMMA InstallStep ==
    ASSUME IInv, Install
    PROVE  IInv'
<1> USE DEF IInv
<1>1. SeenInv' /\ BundleInv' /\ RedactionInv'
  BY ExportFrame DEF Install
<1>2. TypeOK' /\ CaseInv'
  BY DEF Install, TypeOK, CaseInv
<1> QED
  BY <1>1, <1>2

\* The row and then the ledger entry.
LEMMA AppendSteps ==
    ASSUME IInv, AppendRow \/ AppendLedger
    PROVE  IInv'
<1> USE DEF IInv
<1> DEFINE f == IF AppendRow THEN HomeOf(journal) ELSE "ledger"
<1>1. /\ f \in Files /\ journal \in Wanted \union Notes
      /\ files' = [files EXCEPT ![f] = @ \union {journal}]
      /\ UNCHANGED <<staged, installed, scratch, journal, export>>
      /\ f = "ledger" \/ f = HomeOf(journal)
      /\ AppendRow => journal \notin staged
      /\ f = "ledger" => journal \in files[HomeOf(journal)] \/ HomeOf(journal) = "ledger"
  BY FileNames DEF AppendRow, AppendLedger, AppendTo, TypeOK
<1>2. \A g \in Files : files'[g] = IF g = f THEN files[g] \union {journal} ELSE files[g]
  BY <1>1 DEF TypeOK, Contents
<1>3. files' \in Contents
  BY <1>1, <1>2 DEF TypeOK, Contents
<1>4. SeenInv' /\ BundleInv' /\ RedactionInv'
  BY <1>1, <1>2, ExportFrame
<1>5. TypeOK'
  BY <1>1, <1>3 DEF TypeOK
<1>6. f = "artifacts" => journal \in installed
  <2> SUFFICES ASSUME f = "artifacts" PROVE journal \in installed
    OBVIOUS
  <2>1. HomeOf(journal) = "artifacts" /\ AppendRow
    BY <1>1
  <2>2. journal \in Wanted
    BY <1>1, <2>1, NotesAreInTheLedger
  <2> QED
    BY <1>1, <2>1, <2>2 DEF CaseInv, Payloads
<1>7. CaseInv'
  <2> USE FileNames
  <2>1. ASSUME NEW g \in Files, NEW r \in files'[g]
        PROVE  /\ g = "ledger" \/ HomeOf(r) = g
               /\ r \in files'[HomeOf(r)]
               /\ r \in files'["ledger"] \/ r = journal'
    BY <1>1, <1>2, <2>1 DEF CaseInv
  <2>2. files'["artifacts"] \subseteq installed'
    BY <1>1, <1>2, <1>6 DEF CaseInv
  <2>3. \A r \in installed' : r \in files'["artifacts"] \/ r = journal'
    BY <1>1, <1>2 DEF CaseInv
  <2>4. journal' \in Payloads => journal' \in staged' \union installed'
    BY <1>1 DEF CaseInv
  <2> QED
    BY <2>1, <2>2, <2>3, <2>4 DEF CaseInv
<1> QED
  BY <1>4, <1>5, <1>7

\* The record is where it belongs before the journal goes.
LEMMA FinishStep ==
    ASSUME IInv, Finish
    PROVE  IInv'
<1> USE DEF IInv
<1>1. SeenInv' /\ BundleInv' /\ RedactionInv'
  BY ExportFrame DEF Finish
<1>2. "none" \notin Payloads /\ {"ledger", "artifacts"} \subseteq Files
  BY CaseExportsAssumption, FileNames DEF Payloads, Records, Analyzed, Collected
<1>3. TypeOK'
  BY DEF Finish, TypeOK
<1>4. ASSUME NEW r \in installed
      PROVE  r \in files["artifacts"]
  <2>1. HomeOf(r) = "artifacts"
    BY <1>4 DEF TypeOK, Payloads
  <2> QED
    BY <1>2, <1>4, <2>1 DEF CaseInv, Finish
<1>5. CaseInv'
  BY <1>2, <1>4 DEF CaseInv, Finish
<1> QED
  BY <1>1, <1>3, <1>5

(***************************************************************************)
(* The exports.                                                            *)
(***************************************************************************)
LEMMA NoExportTyped ==
    /\ NoExport \in Exports /\ NoExport.pc = "idle" /\ NoExport.at = 1
    /\ NoExport.seen = Empty /\ NoExport.instant = Empty /\ NoExport.early = FALSE
    /\ \A f \in Files : Empty[f] = {}
<1>1. Empty \in Contents /\ \A f \in Files : Empty[f] = {}
  BY DEF Empty, Contents
<1> DEFINE D == DOMAIN ByName
           P == Payloads \union {"scratch"}
<1>2. 1 \in D /\ {} \in SUBSET P /\ {} \in SUBSET Wanted
  BY FileNames
<1> HIDE DEF D, P, Empty
<1>3. NoExport \in
        [pc: {"idle", "list", "hash", "archive", "bundled",
              "read", "runs", "approvals", "redacted"},
         at: D, list: SUBSET P, seen: Contents, torn: BOOLEAN,
         instant: Contents, settled: BOOLEAN,
         sensitive: SUBSET Wanted, early: BOOLEAN]
  BY <1>1, <1>2 DEF NoExport
<1>4. NoExport \in Exports
  BY <1>3 DEF Exports, D, P
<1> QED
  BY <1>1, <1>4 DEF NoExport

\* An export that begins, or is over, has seen nothing.
LEMMA FreshExport ==
    ASSUME TypeOK, files' \in Contents,
           export'.pc \in {"idle", "list", "read"}, export'.at = 1,
           export'.seen = Empty, export'.instant = Empty,
           export'.early => "run" \in files'["provider_runs"]
    PROVE  SeenInv' /\ BundleInv' /\ RedactionInv'
<1>1. 1 \in DOMAIN Datasets
  BY FileNames
<1> QED
  BY <1>1, NoExportTyped DEF SeenInv, BundleInv, RedactionInv

LEMMA OverStep ==
    ASSUME IInv, RecordExport \/ Raise
    PROVE  IInv'
<1> USE DEF IInv
<1>1. /\ CaseInv' /\ UNCHANGED <<files, staged, installed, scratch>>
      /\ journal' \in Wanted \union Notes \union {"none"}
      /\ export' = NoExport
  <2>1. CASE Raise
    BY <2>1 DEF Raise, CaseInv, TypeOK
  <2>2. CASE RecordExport
    BY <2>2, BeginKeeps DEF RecordExport
  <2> QED
    BY <2>1, <2>2
<1>2. export' \in Exports /\ SeenInv' /\ BundleInv' /\ RedactionInv'
  BY <1>1, NoExportTyped, FreshExport DEF TypeOK
<1> QED
  BY <1>1, <1>2 DEF TypeOK

LEMMA StartBundleStep ==
    ASSUME IInv, StartBundle
    PROVE  IInv'
<1> USE DEF IInv
<1>1. export' = [NoExport EXCEPT !.pc = "list"] /\ UNCHANGED <<files, staged, installed, scratch, journal>>
  BY DEF StartBundle
<1>2. /\ export' \in Exports /\ export'.pc = "list" /\ export'.at = 1
      /\ export'.seen = Empty /\ export'.instant = Empty /\ export'.early = FALSE
  BY <1>1, NoExportTyped DEF Exports
<1>3. SeenInv' /\ BundleInv' /\ RedactionInv'
  BY <1>1, <1>2, FreshExport DEF TypeOK
<1> QED
  BY <1>1, <1>2, <1>3 DEF TypeOK, CaseInv

LEMMA StartRedactionStep ==
    ASSUME IInv, StartRedaction
    PROVE  IInv'
<1> USE DEF IInv
<1> DEFINE early == "run" \in files["provider_runs"]
<1>1. early \in BOOLEAN
  OBVIOUS
<1>2. /\ export' = [NoExport EXCEPT !.pc = "read", !.early = early]
      /\ UNCHANGED <<files, staged, installed, scratch, journal>>
  BY DEF StartRedaction
<1> HIDE DEF early
<1>3. /\ export' \in Exports /\ export'.pc = "read" /\ export'.at = 1
      /\ export'.seen = Empty /\ export'.instant = Empty /\ export'.early = early
  BY <1>1, <1>2, NoExportTyped DEF Exports
<1>4. SeenInv' /\ BundleInv' /\ RedactionInv'
  BY <1>2, <1>3, FreshExport DEF TypeOK, early
<1> QED
  BY <1>2, <1>3, <1>4 DEF TypeOK, CaseInv

\* What a step of an export leaves to show.
LEMMA ExportTyped ==
    ASSUME IInv, export' \in Exports, UNCHANGED <<files, staged, installed, scratch, journal>>,
           SeenInv', BundleInv', RedactionInv'
    PROVE  IInv'
BY DEF IInv, TypeOK, CaseInv

LEMMA ListStep ==
    ASSUME IInv, ListFiles
    PROVE  IInv'
<1> USE DEF IInv
<1>1. /\ export' \in Exports /\ export'.pc = "hash"
      /\ export'.seen = export.seen /\ export'.instant = export.instant
      /\ export'.early = export.early
  BY DEF ListFiles, TypeOK, Exports
<1>2. SeenInv' /\ BundleInv' /\ RedactionInv'
  BY <1>1 DEF ListFiles, SeenInv, BundleInv, RedactionInv
<1> QED
  BY <1>1, <1>2, ExportTyped DEF ListFiles

\* The fields of an export that goes on to its next file.
LEMMA OnwardFields ==
    ASSUME TypeOK, NEW pc \in {"archive", "bundled", "runs"}, pc # export.pc,
           NEW seq \in {ByName, Datasets}, export.at \in DOMAIN seq
    PROVE  /\ Onward(seq, pc) \in Exports
           /\ \/ /\ Onward(seq, pc).pc = export.pc
                 /\ export.at < Len(seq) /\ Onward(seq, pc).at = export.at + 1
              \/ /\ Onward(seq, pc).pc = pc
                 /\ export.at = Len(seq) /\ Onward(seq, pc).at = 1
           /\ Onward(seq, pc).list = export.list /\ Onward(seq, pc).seen = export.seen
           /\ Onward(seq, pc).torn = export.torn /\ Onward(seq, pc).instant = export.instant
           /\ Onward(seq, pc).settled = export.settled
           /\ Onward(seq, pc).sensitive = export.sensitive
           /\ Onward(seq, pc).early = export.early
<1>1. /\ export.at \in 1..Len(seq) /\ Len(seq) \in {8, 10} /\ DOMAIN ByName = 1..10
  BY FileNames
<1>2. export \in Exports
  BY DEF TypeOK
<1>3. CASE export.at < Len(seq)
  <2>1. Onward(seq, pc) = [export EXCEPT !.at = export.at + 1]
    BY <1>3 DEF Onward
  <2>2. export.at + 1 \in DOMAIN ByName
    <3>1. CASE Len(seq) = 8
      BY <1>1, <1>3, <3>1
    <3>2. CASE Len(seq) = 10
      BY <1>1, <1>3, <3>2
    <3> QED
      BY <1>1, <3>1, <3>2
  <2>3. Onward(seq, pc) \in Exports
    BY <1>2, <2>1, <2>2 DEF Exports
  <2> QED
    BY <1>2, <1>3, <2>1, <2>3 DEF Exports
<1>4. CASE ~(export.at < Len(seq))
  <2>1. Onward(seq, pc) = [export EXCEPT !.at = 1, !.pc = pc]
    BY <1>4 DEF Onward
  <2>2. export.at = Len(seq) /\ 1 \in DOMAIN ByName
    BY <1>1, <1>4
  <2>3. Onward(seq, pc) \in Exports
    BY <1>2, <2>1, <2>2 DEF Exports
  <2> QED
    BY <1>2, <2>1, <2>2, <2>3 DEF Exports
<1> QED
  BY <1>3, <1>4

\* With nothing under way the files of the case agree.
LEMMA SettledFilesAgree ==
    ASSUME TypeOK, CaseInv, journal = "none"
    PROVE  Unpacked(files, installed)
<1>1. "none" \notin Wanted \union Notes
  BY CaseExportsAssumption DEF Records, Analyzed, Collected
<1>2. \A f \in Files : \A r \in files[f] : r # journal
  BY <1>1 DEF TypeOK, Contents
<1>3. \A r \in installed : r # journal
  BY <1>1 DEF TypeOK, Payloads
<1>4. ASSUME NEW f \in Files \ {"ledger"}
      PROVE  files[f] = {r \in files["ledger"] : HomeOf(r) = f}
  BY <1>2, <1>4, FileNames DEF CaseInv
<1>5. installed = files["artifacts"]
  <2>1. /\ files["artifacts"] \subseteq installed
        /\ \A r \in installed : r \in files["artifacts"] \/ r = journal
    BY Zenon DEF CaseInv
  <2> QED
    BY <1>3, <2>1, Zenon
<1> QED
  BY <1>4, <1>5 DEF Unpacked

LEMMA HashStep ==
    ASSUME IInv, HashFile
    PROVE  IInv'
<1> USE DEF IInv
<1> DEFINE f == ByName[export.at]
           last == export.at = Len(ByName)
           o == Onward(ByName, "archive")
           seen == [export.seen EXCEPT ![f] = files[f]]
           instant == IF last THEN files ELSE export.instant
           settled == last /\ journal = "none" /\ installed = Listed
<1>1. f \in Files /\ export.pc = "hash" /\ export.at \in DOMAIN ByName /\ export \in Exports
  BY DEF HashFile, Files, TypeOK, Exports
<1>2. /\ o \in Exports
      /\ \/ o.pc = "hash" /\ ~last
         \/ o.pc = "archive" /\ last /\ o.at = 1
      /\ o.list = export.list /\ o.seen = export.seen /\ o.torn = export.torn
      /\ o.instant = export.instant /\ o.early = export.early
  <2>1. "archive" \in {"archive", "bundled", "runs"} /\ "archive" # export.pc
    BY <1>1
  <2>2. /\ o \in Exports
        /\ \/ o.pc = export.pc /\ export.at < Len(ByName)
           \/ o.pc = "archive" /\ export.at = Len(ByName) /\ o.at = 1
        /\ o.list = export.list /\ o.seen = export.seen /\ o.torn = export.torn
        /\ o.instant = export.instant /\ o.early = export.early
    BY <1>1, <2>1, OnwardFields
  <2>3. export.at < Len(ByName) => export.at # Len(ByName)
    BY <1>1, FileNames
  <2> QED
    BY <1>1, <2>2, <2>3
<1>3. seen \in Contents /\ instant \in Contents /\ settled \in BOOLEAN
  BY <1>1 DEF TypeOK, Contents, Exports
<1>4. export' = [o EXCEPT !.seen = seen, !.instant = instant, !.settled = settled]
  BY <1>2 DEF HashFile
<1>5. UNCHANGED <<files, staged, installed, scratch, journal>>
  BY DEF HashFile
<1> HIDE DEF o, seen, instant, settled
<1>6. /\ export' \in Exports /\ export'.pc = o.pc /\ export'.at = o.at
      /\ export'.list = export.list /\ export'.early = export.early
      /\ export'.seen = seen /\ export'.instant = instant /\ export'.settled = settled
  BY <1>2, <1>3, <1>4 DEF Exports
<1>7. SeenInv'
  BY <1>1, <1>5, <1>6 DEF SeenInv, seen, instant, TypeOK, Exports, Contents
<1>8. BundleInv'
  <2> SUFFICES ASSUME export'.pc \in {"archive", "bundled"}
               PROVE  /\ \A g \in Files : export'.seen[g] \subseteq export'.instant[g]
                      /\ ~export'.torn =>
                            \A i \in DOMAIN ByName :
                              i < export'.at \/ export'.pc = "bundled" =>
                                export'.seen[ByName[i]] = export'.instant[ByName[i]]
                      /\ export'.settled => Unpacked(export'.instant, Listed')
    BY DEF BundleInv
  <2>1. last /\ export'.pc = "archive" /\ export'.at = 1 /\ export'.instant = files
    BY <1>2, <1>6 DEF instant
  <2>2. \A g \in Files : export'.seen[g] \subseteq export'.instant[g]
    BY <1>5, <1>7, <2>1 DEF SeenInv
  <2>3. settled => Unpacked(files, Listed)
    BY SettledFilesAgree DEF settled
  <2>4. Listed' = Listed
    BY <1>6 DEF Listed
  <2> QED
    BY <1>6, <2>1, <2>2, <2>3, <2>4, FileNames
<1>9. RedactionInv'
  BY <1>2, <1>5, <1>6 DEF RedactionInv
<1> QED
  BY <1>5, <1>6, <1>7, <1>8, <1>9, ExportTyped

LEMMA ArchiveStep ==
    ASSUME IInv, ArchiveFile
    PROVE  IInv'
<1> USE DEF IInv
<1> DEFINE f == ByName[export.at]
           o == Onward(ByName, "bundled")
           torn == export.torn \/ ~Matches(f)
<1>1. f \in Files /\ export.pc = "archive" /\ export.at \in DOMAIN ByName /\ export \in Exports
  BY DEF ArchiveFile, Files, TypeOK, Exports
<1>2. /\ o \in Exports
      /\ \/ o.pc = "archive" /\ o.at = export.at + 1
         \/ o.pc = "bundled" /\ export.at = 10
      /\ o.list = export.list /\ o.seen = export.seen /\ o.torn = export.torn
      /\ o.instant = export.instant /\ o.early = export.early /\ o.settled = export.settled
  BY <1>1, FileNames, OnwardFields
<1>3. torn \in BOOLEAN
  BY <1>1 DEF Exports
<1>4. export' = [o EXCEPT !.torn = torn]
  BY <1>2 DEF ArchiveFile
<1>5. UNCHANGED <<files, staged, installed, scratch, journal>>
  BY DEF ArchiveFile
<1> HIDE DEF o, torn
<1>6. /\ export' \in Exports /\ export'.pc = o.pc /\ export'.at = o.at
      /\ export'.list = export.list /\ export'.early = export.early
      /\ export'.seen = export.seen /\ export'.instant = export.instant
      /\ export'.settled = export.settled /\ export'.torn = torn
  BY <1>2, <1>3, <1>4 DEF Exports
<1>7. SeenInv'
  BY <1>5, <1>6 DEF SeenInv
<1>8. BundleInv'
  <2>1. ASSUME ~torn, NEW i \in DOMAIN ByName, i < o.at \/ o.pc = "bundled"
        PROVE  export.seen[ByName[i]] = export.instant[ByName[i]]
    <3>1. i < export.at \/ i = export.at
      BY <1>1, <1>2, <2>1, FileNames
    <3>2. CASE i < export.at
      BY <1>1, <2>1, <3>2 DEF BundleInv, torn
    <3>3. CASE i = export.at
      <4>1. export.seen[f] \subseteq export.instant[f] /\ export.instant[f] \subseteq files[f]
        BY <1>1 DEF BundleInv, SeenInv
      <4>2. files[f] = export.seen[f]
        BY <2>1 DEF torn, Matches
      <4>3. export.seen[f] = export.instant[f]
        BY <4>1, <4>2
      <4>4. f = ByName[i]
        BY <3>3
      <4> HIDE DEF f
      <4> QED
        BY <4>3, <4>4
    <3> QED
      BY <3>1, <3>2, <3>3
  <2>2. Listed' = Listed
    BY <1>6 DEF Listed
  <2> QED
    BY <1>1, <1>6, <2>1, <2>2 DEF BundleInv
<1>9. RedactionInv'
  BY <1>2, <1>5, <1>6 DEF RedactionInv
<1> QED
  BY <1>5, <1>6, <1>7, <1>8, <1>9, ExportTyped

LEMMA ReadStep ==
    ASSUME IInv, ReadDataset
    PROVE  IInv'
<1> USE DEF IInv
<1> DEFINE f == Datasets[export.at]
           o == Onward(Datasets, "runs")
           seen == [export.seen EXCEPT ![f] = files[f]]
<1>1. /\ export.pc = "read" /\ export.at \in DOMAIN Datasets /\ export \in Exports
      /\ f \in Files
  BY FileNames DEF ReadDataset, TypeOK, RedactionInv
<1>2. /\ o \in Exports
      /\ \/ o.pc = "read" /\ o.at \in DOMAIN Datasets
         \/ o.pc = "runs"
      /\ o.seen = export.seen
      /\ o.instant = export.instant /\ o.early = export.early
  <2>1. "runs" \in {"archive", "bundled", "runs"} /\ "runs" # export.pc
    BY <1>1
  <2>2. /\ o \in Exports
        /\ \/ o.pc = export.pc /\ export.at < Len(Datasets) /\ o.at = export.at + 1
           \/ o.pc = "runs"
        /\ o.seen = export.seen
        /\ o.instant = export.instant /\ o.early = export.early
    BY <1>1, <2>1, OnwardFields
  <2>3. export.at < Len(Datasets) => export.at + 1 \in DOMAIN Datasets
    BY <1>1, FileNames
  <2> QED
    BY <1>1, <2>2, <2>3
<1>3. seen \in Contents
  BY <1>1 DEF TypeOK, Contents, Exports
<1>4. export' = [o EXCEPT !.seen = seen]
  BY <1>2 DEF ReadDataset
<1>5. UNCHANGED <<files, staged, installed, scratch, journal>>
  BY DEF ReadDataset
<1> HIDE DEF o, seen
<1>6. /\ export' \in Exports /\ export'.pc = o.pc /\ export'.at = o.at
      /\ export'.early = export.early
      /\ export'.seen = seen /\ export'.instant = export.instant
  BY <1>2, <1>3, <1>4 DEF Exports
<1>7. SeenInv'
  BY <1>1, <1>5, <1>6 DEF SeenInv, seen, TypeOK, Exports, Contents
<1>8. BundleInv' /\ RedactionInv'
  BY <1>2, <1>5, <1>6 DEF BundleInv, RedactionInv
<1> QED
  BY <1>5, <1>6, <1>7, <1>8, ExportTyped

LEMMA ReadRunsStep ==
    ASSUME IInv, ReadRuns
    PROVE  IInv'
<1> USE DEF IInv
<1> HIDE DEF IInv
<1>1. files["provider_runs"] \in SUBSET Wanted
  <2>1. \A n \in Notes : HomeOf(n) = "ledger"
    BY NotesAreInTheLedger
  <2>2. "provider_runs" \in Files
    BY FileNames
  <2> QED
    BY <2>1, <2>2 DEF IInv, TypeOK, Contents, CaseInv
<1>2. export' = [export EXCEPT !.pc = "approvals", !.sensitive = files["provider_runs"]]
      /\ UNCHANGED <<files, staged, installed, scratch, journal>>
  BY DEF ReadRuns
<1>3. /\ export' \in Exports /\ export'.pc = "approvals"
      /\ export'.seen = export.seen /\ export'.instant = export.instant
      /\ export'.early = export.early /\ export'.sensitive = files["provider_runs"]
  BY <1>1, <1>2 DEF IInv, TypeOK, Exports
<1>4. SeenInv' /\ BundleInv' /\ RedactionInv'
  BY <1>2, <1>3, FileNames DEF IInv, SeenInv, BundleInv, RedactionInv
<1> QED
  BY <1>2, <1>3, <1>4, ExportTyped

LEMMA ReadApprovalsStep ==
    ASSUME IInv, ReadApprovals
    PROVE  IInv'
<1>1. files["provider_approvals"] \in SUBSET Wanted
  <2>1. \A n \in Notes : HomeOf(n) = "ledger"
    BY NotesAreInTheLedger
  <2>2. "provider_approvals" \in Files
    BY FileNames
  <2> QED
    BY <2>1, <2>2 DEF IInv, TypeOK, Contents, CaseInv
<1> DEFINE sensitive == export.sensitive \union files["provider_approvals"]
<1>2. /\ export' = [export EXCEPT !.pc = "redacted", !.sensitive = sensitive]
      /\ UNCHANGED <<files, staged, installed, scratch, journal>> /\ export.pc = "approvals"
  BY DEF ReadApprovals
<1>3. sensitive \in SUBSET Wanted
  BY <1>1 DEF IInv, TypeOK, Exports
<1>4. /\ export.sensitive \subseteq sensitive
      /\ export.seen["provider_approvals"] \subseteq sensitive
  BY FileNames DEF IInv, SeenInv
<1> HIDE DEF sensitive
<1>5. /\ export' \in Exports /\ export'.pc = "redacted"
      /\ export'.seen = export.seen /\ export'.instant = export.instant
      /\ export'.early = export.early /\ export'.sensitive = sensitive
  BY <1>2, <1>3 DEF IInv, TypeOK, Exports
<1>6. SeenInv' /\ BundleInv' /\ RedactionInv'
  BY <1>2, <1>4, <1>5 DEF IInv, SeenInv, BundleInv, RedactionInv
<1> QED
  BY <1>2, <1>5, <1>6, ExportTyped

\* The case, what an export has read of it and what it has made fit together at
\* every step of a transaction.
THEOREM IInvHolds == Spec => []IInv
<1> USE DEF IInv
<1>1. Init => IInv
  <2> SUFFICES ASSUME Init PROVE IInv
    OBVIOUS
  <2>1. Empty \in Contents /\ \A f \in Files : Empty[f] = {}
    BY DEF Empty, Contents
  <2>2. TypeOK
    BY <2>1, NoExportTyped DEF Init, TypeOK
  <2>3. CaseInv
    <3>1. "none" \notin Payloads /\ "artifacts" \in Files
      BY CaseExportsAssumption, FileNames DEF Payloads, Records, Analyzed, Collected
    <3> QED
      BY <2>1, <3>1 DEF Init, CaseInv
  <2>4. SeenInv /\ BundleInv /\ RedactionInv
    BY <2>1, NoExportTyped DEF Init, SeenInv, BundleInv, RedactionInv
  <2> QED
    BY <2>2, <2>3, <2>4
<1>2. IInv /\ [Next]_vars => IInv'
  <2> SUFFICES ASSUME IInv, [Next]_vars PROVE IInv'
    OBVIOUS
  <2>1. ASSUME NEW r \in Payloads, Stage(r) \/ Unstage(r) PROVE IInv'
    BY <2>1, StageSteps
  <2>2. ASSUME NEW r \in Wanted, Begin(r) /\ UNCHANGED export PROVE IInv'
    BY <2>2, BeginStep
  <2>3. CASE Install
    BY <2>3, InstallStep
  <2>4. CASE AppendRow \/ AppendLedger
    BY <2>4, AppendSteps
  <2>5. CASE Finish
    BY <2>5, FinishStep
  <2>6. CASE StartBundle
    BY <2>6, StartBundleStep
  <2>7. CASE ListFiles
    BY <2>7, ListStep
  <2>8. CASE HashFile
    BY <2>8, HashStep
  <2>9. CASE ArchiveFile
    BY <2>9, ArchiveStep
  <2>10. CASE StartRedaction
    BY <2>10, StartRedactionStep
  <2>11. CASE ReadDataset
    BY <2>11, ReadStep
  <2>12. CASE ReadRuns
    BY <2>12, ReadRunsStep
  <2>13. CASE ReadApprovals
    BY <2>13, ReadApprovalsStep
  <2>14. CASE RecordExport \/ Raise
    BY <2>14, OverStep
  <2>15. CASE WriteScratch \/ RemoveScratch
    BY <2>15, ScratchSteps
  <2>16. CASE UNCHANGED vars
    <3>1. UNCHANGED export /\ \A f \in Files : files[f] \subseteq files'[f]
      BY <2>16 DEF vars
    <3>2. SeenInv' /\ BundleInv' /\ RedactionInv'
      BY <3>1, ExportFrame
    <3> QED
      BY <2>16, <3>2 DEF vars, TypeOK, CaseInv
  <2> QED
    BY <2>1, <2>2, <2>3, <2>4, <2>5, <2>6, <2>7, <2>8, <2>9, <2>10, <2>11, <2>12, <2>13, <2>14,
       <2>15, <2>16 DEF Next
<1> QED
  BY <1>1, <1>2, PTL DEF Spec

(***************************************************************************)
(* The theorems.                                                           *)
(***************************************************************************)
\* Every variable has its type, and a payload is in one place.
THEOREM TypesHold == Spec => []TypeOK
<1>1. IInv => TypeOK
  BY DEF IInv
<1> QED
  BY <1>1, IInvHolds, PTL

\* An accepted bundle holds what the files held at one instant.
THEOREM BundlesInstant == Spec => []BundlesAreInstants
<1>1. IInv => BundlesAreInstants
  <2> SUFFICES ASSUME IInv, Accepted PROVE export.seen = export.instant
    BY DEF BundlesAreInstants
  <2>1. \A i \in DOMAIN ByName : export.seen[ByName[i]] = export.instant[ByName[i]]
    BY DEF IInv, BundleInv, Accepted
  <2>2. \A f \in Files : export.seen[f] = export.instant[f]
    BY <2>1 DEF Files
  <2>3. export.seen \in [Files -> SUBSET (Wanted \union Notes)]
        /\ export.instant \in [Files -> SUBSET (Wanted \union Notes)]
    BY DEF IInv, TypeOK, Exports, Contents
  <2> QED
    BY <2>2, <2>3
<1> QED
  BY <1>1, IInvHolds, PTL

\* The case in an accepted bundle verifies, unless it was made in the middle of
\* a transaction.
THEOREM BundlesVerify == Spec => []AcceptedBundlesVerify
<1>1. IInv => AcceptedBundlesVerify
  <2> SUFFICES ASSUME IInv, Accepted, export.settled
               PROVE  Unpacked(export.seen, Listed)
    BY DEF AcceptedBundlesVerify
  <2>1. \A i \in DOMAIN ByName : export.seen[ByName[i]] = export.instant[ByName[i]]
    BY DEF IInv, BundleInv, Accepted
  <2>2. \A f \in Files : export.seen[f] = export.instant[f]
    BY <2>1 DEF Files
  <2>3. Unpacked(export.instant, Listed)
    BY DEF IInv, BundleInv, Accepted
  <2> QED
    BY <2>2, <2>3, FileNames DEF Unpacked
<1> QED
  BY <1>1, IInvHolds, PTL

(***************************************************************************)
(* Redaction.                                                              *)
(***************************************************************************)
\* Everything but a change of the case's status may be linked.
LEMMA LinkedRecords ==
    Linked(Collected) \subseteq Records \ {"status"}
<1> DEFINE S == Records \ {"status"}
<1>1. S \in SUBSET Records /\ Collected \subseteq S
  BY DEF Records, Analyzed, Collected
<1>2. \A r \in Records : Names(r) \intersect S # {} => r \in S
  BY DEF Names, Records, Analyzed, Collected
<1>3. "derived" \in S
  BY DEF Records, Analyzed, Collected
<1> HIDE DEF S
<1>4. Linked(Collected) \subseteq S
  BY <1>1, <1>2, <1>3 DEF Linked
<1> QED
  BY <1>4 DEF S

\* What is in a snapshot was in the file of its kind.
LEMMA SnapshotRecords ==
    ASSUME IInv, NEW r \in Snapshot
    PROVE  /\ HomeOf(r) # "ledger" => r \in export.seen[HomeOf(r)]
           /\ r \in Wanted
<1>1. PICK i \in DOMAIN Datasets : r \in export.seen[Datasets[i]]
  BY DEF Snapshot
<1>2. Datasets[i] \in Files \ {"ledger"}
  BY FileNames
<1>3. r \in files[Datasets[i]]
  BY <1>1, <1>2 DEF IInv, SeenInv
<1>4. HomeOf(r) = Datasets[i]
  BY <1>2, <1>3 DEF IInv, CaseInv
<1>5. r \in Wanted \union Notes
  BY <1>2, <1>3 DEF IInv, TypeOK, Contents
<1> QED
  BY <1>1, <1>2, <1>4, <1>5, NotesAreInTheLedger

\* A finished redaction keeps no run and no approval of a licensed provider.
LEMMA RunsAreRemoved ==
    ASSUME IInv, export.pc = "redacted", NEW r \in Kept
    PROVE  HomeOf(r) \notin {"provider_runs", "provider_approvals"}
<1> SUFFICES ASSUME HomeOf(r) \in {"provider_runs", "provider_approvals"} PROVE FALSE
  OBVIOUS
<1>1. r \in Snapshot /\ r \notin Removed
  BY DEF Kept
<1>2. r \in export.seen[HomeOf(r)]
  BY <1>1, SnapshotRecords
<1>3. r \in export.sensitive
  BY <1>2 DEF IInv, RedactionInv
<1> QED
  BY <1>1, <1>3 DEF Removed

\* It keeps no run and no approval of a licensed provider, and nothing that is
\* linked to a collection whose completed run was recorded when it began, but
\* for the outputs of analyzers and what names a record it had passed by.
THEOREM RedactionIsLinked == Spec => []RedactionOmitsLinked
<1>1. IInv => RedactionOmitsLinked
  <2> SUFFICES ASSUME IInv, export.pc = "redacted", export.early,
                      NEW r \in Kept \intersect Linked(Collected), r # "derived",
                      Names(r) \subseteq Snapshot
               PROVE  FALSE
    BY RunsAreRemoved DEF RedactionOmitsLinked
  <2>1. r \in Records \ {"status", "derived"} /\ r \in Snapshot /\ r \notin Removed
    BY LinkedRecords DEF Kept
  <2>2. "run" \in export.sensitive
    BY DEF IInv, RedactionInv
  <2>3. {"source", "response"} \subseteq Hidden
    BY <2>2 DEF Hidden, Names
  <2>4. /\ r \notin Hidden \union HiddenEntities
        /\ HomeOf(r) \notin {"provider_runs", "provider_approvals"}
        /\ Names(r) \intersect (Hidden \union HiddenEntities) = {}
    BY <2>1, <2>2 DEF Removed
  <2>5. r \notin {"approval", "run", "failed"}
    BY <2>4 DEF HomeOf
  <2>6. r \notin {"source", "response", "observation", "entity", "derivation"}
    <3>1. r # "entity"
      <4> SUFFICES ASSUME r = "entity" PROVE FALSE
        OBVIOUS
      <4>1. Names("entity") = {"source"}
        BY DEF Names
      <4> QED
        BY <2>3, <2>4, <4>1
    <3>2. r # "observation" /\ r # "derivation"
      BY <2>3, <2>4 DEF Names
    <3> QED
      BY <2>3, <2>4, <3>1, <3>2
  <2>7. r = "relationship"
    BY <2>1, <2>5, <2>6 DEF Records, Analyzed, Collected
  <2>8. "entity" \in Snapshot /\ Names("entity") = {"source"} /\ HomeOf("entity") = "entities"
    BY <2>7 DEF Names, HomeOf
  <2>9. "entity" \in HiddenEntities
    BY <2>3, <2>8, SnapshotRecords DEF HiddenEntities
  <2> QED
    BY <2>4, <2>7, <2>9 DEF Names
<1> QED
  BY <1>1, IInvHolds, PTL

=============================================================================
