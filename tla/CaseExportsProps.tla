-------------------------- MODULE CaseExportsProps --------------------------
(***************************************************************************)
(* What is asked of bundles and redacted exports.                          *)
(***************************************************************************)
EXTENDS CaseExports

\* Every variable has its type, and a payload is in one place.
TypeOK ==
    /\ files \in Contents
    /\ staged \subseteq Payloads /\ installed \subseteq Payloads
    /\ staged \intersect installed = {}
    /\ scratch \in BOOLEAN
    /\ journal \in Wanted \union Notes \union {"none"}
    /\ export \in Exports

\* "verify-bundle validates it" (README.md): no file of a bundle that is accepted
\* was read before or after the others: it holds what all the files held at
\* one instant, though every file was read at another time and writers went on.
BundlesAreInstants == Accepted => export.seen = export.instant

\* verify_case of the files in a bundle, once it is unpacked elsewhere.
Unpacked(seen, payloads) ==
    /\ \A f \in Files \ {"ledger"} :
          seen[f] = {r \in seen["ledger"] : HomeOf(r) = f}
    /\ payloads = seen["artifacts"]

\* The case in an accepted bundle verifies, unless at that instant a
\* transaction was under way (its journal stays behind) or a payload had been
\* installed since the files were listed.  All that it may have beyond its
\* records is the output of an OCRmyPDF that was at work, or killed, when the
\* files were listed (analyzers.py:101).
AcceptedBundlesVerify ==
    Accepted /\ export.settled => Unpacked(export.seen, Listed)

(***************************************************************************)
(* "redacted JSON/PDF derivatives omit PII-profile provider records and    *)
(* linked evidence by default" (docs/ARCHITECTURE.md).                     *)
(***************************************************************************)
\* What is linked to a set of records: what names one of them, what is derived
\* from one of them, and so on.
Linked(start) ==
    LET closed(S) == /\ start \subseteq S
                     /\ \A r \in Records : Names(r) \intersect S # {} => r \in S
                     /\ "response" \in S => "derived" \in S
    IN  {r \in Records : \A S \in SUBSET Records : closed(S) => r \in S}

\* No run or approval of a licensed provider stays in an export, also if it was
\* recorded while the export was made.  If the collection's completed run was
\* recorded when the export began, then a linked record stays in it only if it is
\* the output of an analyzer, or if it names a record the export had already
\* passed by.  A collection that failed after it had stored its source or its
\* response is not linked to by its failed run (providers.py:1231): those records
\* stay, although the sentence above promises otherwise.
RedactionOmitsLinked ==
    export.pc = "redacted" =>
        /\ \A r \in Kept : HomeOf(r) \notin {"provider_runs", "provider_approvals"}
        /\ export.early =>
              \A r \in Kept \intersect Linked(Collected) :
                  r = "derived" \/ ~(Names(r) \subseteq Snapshot)

=============================================================================
